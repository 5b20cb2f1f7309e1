--------------------------- MODULE MCMixerServer ---------------------------
(* Small instances of MixerServer for TLC.                                  *)
EXTENDS MixerServer, TLC

CONSTANTS c1, c2, c3, alice, bob, r1, r2

Symmetry == Permutations(Conns) \cup Permutations(Users) \cup Permutations(Rooms)
============================================================================
