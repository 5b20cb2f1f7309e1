----------------------- MODULE MCSignalingTiming -----------------------
(* A small instance of SignalingTiming for TLC: one connection is       *)
(* punctual, the others may fall silent at any time.                    *)
EXTENDS SignalingTiming, TLC

CONSTANTS c1, c2, c3, alice, bob, r1, r2, p1

PlainEscape == [u \in Users |-> u]
========================================================================
