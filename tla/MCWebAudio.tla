----------------------------- MODULE MCWebAudio -----------------------------
(* WebAudio for TLC: one user, two rooms.                                   *)
EXTENDS WebAudio, TLC
=============================================================================
