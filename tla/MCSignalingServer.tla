----------------------- MODULE MCSignalingServer -----------------------
(* Small instances of SignalingServer for TLC.                           *)
EXTENDS SignalingServer, TLC

CONSTANTS c1, c2, c3, alice, bob, r1, r2, p1

\* Every user id is one json_escape leaves alone.
PlainEscape == [u \in Users |-> u]
=========================================================================
