---------------------------- MODULE MCVoiceClient ----------------------------
(* Model values of VoiceClient for TLC. *)
EXTENDS VoiceClient, TLC

Symmetry == Permutations(Sources)
=============================================================================
