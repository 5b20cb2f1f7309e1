----------------------------- MODULE MCRecorder -----------------------------
(* Recorder for TLC: one room.                                              *)
EXTENDS Recorder, TLC
=============================================================================
