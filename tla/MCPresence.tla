----------------------------- MODULE MCPresence -----------------------------
(* Model values of Presence for TLC. *)
EXTENDS Presence, TLC

Symmetry == Permutations(Clients) \cup Permutations(States) \cup Permutations(Leavers)
=============================================================================
