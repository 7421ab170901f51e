---------------------------- MODULE MCVoiceServer ----------------------------
(* Model values of VoiceServer for TLC. *)
EXTENDS VoiceServer, TLC

Symmetry ==
    Permutations(Channels) \cup Permutations(Instances) \cup Permutations(Callers)
=============================================================================
