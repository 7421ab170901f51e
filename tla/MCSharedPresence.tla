-------------------------- MODULE MCSharedPresence --------------------------
(* Model values of SharedPresence for TLC. *)
EXTENDS SharedPresence, TLC

Symmetry ==
    Permutations(Clients) \cup Permutations(Gateways)
        \cup Permutations(States) \cup Permutations(Leavers)
=============================================================================
