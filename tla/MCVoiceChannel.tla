--------------------------- MODULE MCVoiceChannel ---------------------------
(* Model values of VoiceChannel for TLC. *)
EXTENDS VoiceChannel, TLC

Symmetry == Permutations(Tasks) \cup Permutations(Addrs)
=============================================================================
