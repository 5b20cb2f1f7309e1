----------------------- MODULE MCSignalingPeers -----------------------
(* A small instance of SignalingPeers for TLC.                          *)
EXTENDS SignalingPeers, TLC

CONSTANTS c1, c2, c3, alice, bob, r1, r2, p1

PlainEscape == [u \in Users |-> u]

Symmetry == Permutations(Conns) \cup Permutations(Users) \cup Permutations(Rooms)
========================================================================
