-------------------------- MODULE MCServerDirectory --------------------------
(* Model values of ServerDirectory for TLC. *)
EXTENDS ServerDirectory, TLC

Symmetry ==
    Permutations(Servers) \cup Permutations(Channels) \cup Permutations(States)
        \cup Permutations(Clients)
=============================================================================
