---------------------------- MODULE ClientSession ----------------------------
(***************************************************************************)
(* What a voice channel promises about one client's connection, as its     *)
(* user_status shows it: it starts waiting for the client's address, is    *)
(* peered once the address is there, stops, and is then forgotten; it      *)
(* never goes back, and it is never forgotten while it runs.               *)
(***************************************************************************)
CONSTANTS
    Clients,
    MayReopen,      \* a client may open again before it is forgotten
    MayAbandon      \* the channel may be dropped with connections running

VARIABLE session

States == {"absent", "waiting", "peered", "stopped"}

TypeOK == session \in [Clients -> States]

Init == session = [c \in Clients |-> "absent"]

Move(c, from, to) ==
    /\ session[c] \in from
    /\ session' = [session EXCEPT ![c] = to]

Open(c) == Move(c, IF MayReopen THEN States ELSE {"absent"}, "waiting")
Peer(c) == Move(c, {"waiting"}, "peered")
Stop(c) == Move(c, {"waiting", "peered"}, "stopped")
Forget(c) == Move(c, {"stopped"}, "absent")

Abandon ==
    /\ MayAbandon
    /\ session' = [c \in Clients |-> "absent"]

Next ==
    \/ \E c \in Clients : Open(c) \/ Peer(c) \/ Stop(c) \/ Forget(c)
    \/ Abandon

Spec == Init /\ [][Next]_session
=============================================================================
