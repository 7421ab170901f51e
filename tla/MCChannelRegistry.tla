-------------------------- MODULE MCChannelRegistry --------------------------
(* Model values of ChannelRegistry for TLC. *)
EXTENDS ChannelRegistry, TLC

CONSTANTS g1, g2, p1, p2, p3

(* Two sessions of one gateway and one of another, or one of each *)
HomeOfThree == (p1 :> g1) @@ (p2 :> g1) @@ (p3 :> g2)
HomeOfTwo == (p1 :> g1) @@ (p3 :> g2)

Symmetry == Permutations(Servers) \cup Permutations({p1, p2})

(* Sessions that resolve a channel no longer calm, of which little is said, are
   not followed further; while none does, everything goes on: staleness, the
   cleanup and failures after it.                                            *)
CalmOrIdle == calm # {} \/ \A p \in Sessions : At(p, "idle")

(* One session after the other, every heartbeat in time and no unassignment
   late: all that is left to go wrong is a gateway's outdated map.           *)
Orderly ==
    /\ \A c \in Channels : Cardinality(Resolving(c)) <= 1
    /\ known = fresh
    /\ ending = {}

(* Everyone in a channel is on one voice server.  The code breaks this when a
   gateway reassigns a channel that another has in its map with the old server. *)
OneServer ==
    \A c \in Channels, s, r \in Servers :
        members[s][c] # {} /\ members[r][c] # {} => s = r
=============================================================================
