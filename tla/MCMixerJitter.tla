--------------------------- MODULE MCMixerJitter ---------------------------
(* Small instances of MixerJitter for TLC.                                  *)
EXTENDS MixerJitter
============================================================================
