---------------------------- MODULE QuietChannel ----------------------------
(***************************************************************************)
(* A voice channel at which, from some moment on, nothing arrives any more *)
(* (server/voice/core/src/channel/mod.rs): no request, and no datagram.    *)
(* VoiceChannel has no step for a datagram that is dropped or a request    *)
(* that names an unknown client, since they change nothing there; but they *)
(* too start the Forwarder's loop over and with it the idle timeout, so    *)
(* that the timeout need not fire while they keep coming.                  *)
(***************************************************************************)
EXTENDS VoiceChannel

VARIABLE quiet      \* nothing arrives at the channel any more

quietVars == <<vars, quiet>>

QuietInit == Init /\ quiet = FALSE

(* The gateways and the network have nothing more for this channel. *)
FallQuiet ==
    /\ ~quiet
    /\ quiet' = TRUE
    /\ UNCHANGED vars

Arrival == ~quiet /\ (ControlRequest \/ SocketPacket)

(* What happens in the channel without anything from outside *)
OwnStep ==
    \/ ForwarderStep
    \/ IdleTimeout \/ DropHandles \/ ControlClosed
    \/ \E t \in Tasks : Reap(t) \/ TaskStep(t) \/ TaskTimer(t)

QuietNext == FallQuiet \/ (UNCHANGED quiet /\ (Arrival \/ OwnStep))

QuietSpec == QuietInit /\ [][QuietNext]_quietVars

(***************************************************************************)
(* Every task is scheduled, and every timer of a voice task fires: those   *)
(* run on when the task's loop starts over.  The idle timeout is made anew *)
(* in each iteration of the Forwarder's loop, so it is only certain to     *)
(* fire when nothing arrives.  Callers, clients and whoever holds a handle *)
(* owe nothing.                                                            *)
(***************************************************************************)
Fairness ==
    /\ WF_vars(ForwarderStep)
    /\ WF_quietVars(quiet /\ IdleTimeout /\ UNCHANGED quiet)
    /\ WF_vars(ControlClosed)
    /\ \A t \in Tasks :
        /\ WF_vars(Reap(t))
        /\ WF_vars(TaskInit(t) \/ TaskStatus(t) \/ TaskStop(t))
        /\ WF_vars(TaskPacket(t))
        /\ WF_vars(Orphaned(t))
        /\ WF_vars(InitTimeout(t))
        /\ WF_vars(DeadlinePasses(t))
        /\ WF_vars(KeepAliveElapsed(t))

FairSpec == QuietSpec /\ Fairness

-----------------------------------------------------------------------------
(* Once nothing arrives any more the channel ends, whatever it was doing:
   every silent connection times out and is reaped, no request is left
   waiting for a task that is gone, and the idle timeout, which each reaped
   task starts over, fires at last.                                         *)
AbandonedChannelEnds == quiet ~> (fwd.op = "ended")
=============================================================================
