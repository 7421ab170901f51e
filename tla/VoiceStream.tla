----------------------------- MODULE VoiceStream -----------------------------
(***************************************************************************)
(* One client's voice on its way to another client's loudspeaker: the      *)
(* microphone callback that cuts the input into chunks (client/src/mic.rs),*)
(* the task that numbers and sends them (udp_tx, client/src/udp.rs), a     *)
(* network that loses, delays, reorders and duplicates packets (the voice  *)
(* server's relay included), the receiving task that hands a packet to the *)
(* stream of its source (udp_rx), and the stream's task with the buffer    *)
(* that puts packets in order before they are played (client/src/play.rs). *)
(*                                                                         *)
(* A packet is [index, seq, nth]: the index-th packet sent, the sequence   *)
(* number it carries, and which of the network's copies of it this is.     *)
(***************************************************************************)
EXTENDS Naturals, Sequences, FiniteSets

CONSTANTS
    Period,         \* frames of one chunk (20 ms of input)
    Reads,          \* numbers of frames a callback of the device may bring
    MaxFrames,      \* bound: frames captured
    RecordSlots,    \* chunks queued for udp_tx (10 in the code)
    Width,          \* sequence numbers are 0..Width-1 (2^64 in the code)
    Starts,         \* first sequence numbers tried (any, in the code)
    MaxRepeated,    \* bound: packets the network delivers twice
    PlaySlots,      \* packets queued for a stream (3 in the code)
    MaxBuffered,    \* packets the buffer keeps (3 in the code)
    MaxConcealed    \* bound: gaps a stream fills

ASSUME PeriodPositive == Period \in Nat \ {0}
ASSUME ReadsNat == Reads \subseteq Nat
ASSUME QueuesHold == RecordSlots \in Nat /\ PlaySlots \in Nat
ASSUME WidthPositive == Width \in Nat \ {0}
ASSUME StartsInWidth == Starts \subseteq 0..Width-1
ASSUME BoundsNat ==
    MaxFrames \in Nat /\ MaxRepeated \in Nat /\ MaxConcealed \in Nat
ASSUME MaxBufferedPositive == MaxBuffered \in Nat \ {0}

VARIABLES
    mic,        \* the device's callback
    captured,   \* frames read so far
    input,      \* frames kept for the next chunk
    done,       \* chunks the callback under way has cut from the input
    encoded,    \* history: every chunk cut
    rec,        \* chunks waiting for udp_tx
    tx,         \* udp_tx
    mute,       \* the client sends no voice
    first,      \* the sequence number udp_tx started with
    sent,       \* the chunks sent, in the order of their packets
    copies,     \* how many copies of each packet were delivered
    rx,         \* udp_rx, as far as this stream is concerned
    chan,       \* packets waiting for the stream's task
    player,     \* the stream's task
    buffer,     \* packets held back to be put in order
    next,       \* next_expected
    concealed,  \* gaps filled so far
    played,     \* history: the packets played, in order
    late,       \* history: packets that came when their place had passed
    dropped     \* history: packets given up

micVars == <<mic, captured, input, done, encoded>>
txVars == <<tx, mute, first, sent>>
playVars == <<player, buffer, next, concealed, played, late>>
vars == <<micVars, rec, txVars, copies, rx, chan, playVars, dropped>>

-----------------------------------------------------------------------------
(* Values *)

Seqs == 0..Width-1
Packet == [index : Nat \ {0}, seq : Seqs, nth : Nat \ {0}]
Elems(s) == {s[n] : n \in 1..Len(s)}

(* wrapping_add, at the sender *)
SeqOf(i) == (first + i - 1) % Width

Init ==
    /\ mic = "recording"
    /\ captured = 0
    /\ input = <<>>
    /\ done = 0
    /\ encoded = <<>>
    /\ rec = <<>>
    /\ tx = "running"
    /\ mute \in BOOLEAN
    /\ first \in Starts
    /\ sent = <<>>
    /\ copies = <<>>
    /\ rx = "registered"
    /\ chan = <<>>
    /\ player = "playing"
    /\ buffer = {}
    /\ next = 0
    /\ concealed = 0
    /\ played = <<>>
    /\ late = {}
    /\ dropped = {}

-----------------------------------------------------------------------------
(* The microphone.  Operators named Bug... are no part of the specification:
   each is a faulty form of the definition that follows it, which some
   property must reject.                                                    *)

Chunk(n) == SubSeq(input, n * Period + 1, (n + 1) * Period)
Whole == (done + 1) * Period <= Len(input)

(* A frame of a device with one channel is doubled first. *)
ReadInput(n) ==
    /\ mic = "recording"
    /\ captured + n <= MaxFrames
    /\ mic' = "encoding"
    /\ captured' = captured + n
    /\ input' = input \o [k \in 1..n |-> captured + k]
    /\ UNCHANGED <<done, encoded, rec, txVars, copies, rx, chan, playVars, dropped>>

(* blocking_send waits for room. *)
EncodeChunk ==
    /\ mic = "encoding" /\ Whole
    /\ tx = "running" /\ Len(rec) < RecordSlots
    /\ encoded' = Append(encoded, Chunk(done))
    /\ rec' = Append(rec, Chunk(done))
    /\ done' = done + 1
    /\ UNCHANGED <<mic, captured, input, txVars, copies, rx, chan, playVars, dropped>>

BugFrontKept == SubSeq(input, 1, Len(input) - done * Period)

Remainder == SubSeq(input, done * Period + 1, Len(input))

CallbackDone ==
    /\ mic = "encoding" /\ ~Whole
    /\ mic' = "recording"
    /\ input' = Remainder
    /\ done' = 0
    /\ UNCHANGED <<captured, encoded, rec, txVars, copies, rx, chan, playVars, dropped>>

(* The callback expects udp_tx, the resampler and the encoder to work. *)
CallbackPanics ==
    /\ mic' = "panicked"
    /\ UNCHANGED <<captured, input, done, encoded, rec, txVars, copies, rx, chan,
                   playVars, dropped>>

BugNeverClosed == FALSE

QueueClosed == tx = "ended"

SendFails == mic = "encoding" /\ Whole /\ QueueClosed /\ CallbackPanics
EncoderFails == mic = "encoding" /\ Whole /\ tx = "running" /\ CallbackPanics

-----------------------------------------------------------------------------
(* udp_tx *)

(* A muted client takes the chunk and uses up no sequence number. *)
SendVoice ==
    /\ tx = "running" /\ rec # <<>>
    /\ rec' = Tail(rec)
    /\ sent' = IF mute THEN sent ELSE Append(sent, Head(rec))
    /\ copies' = IF mute THEN copies ELSE Append(copies, 0)
    /\ UNCHANGED <<micVars, tx, mute, first, rx, chan, playVars, dropped>>

(* Encryption or the socket failed, for voice or a ping. *)
TxFails ==
    /\ tx = "running"
    /\ tx' = "ended"
    /\ rec' = <<>>
    /\ UNCHANGED <<micVars, mute, first, sent, copies, rx, chan, playVars, dropped>>

MicDead ==
    /\ tx = "running" /\ rec = <<>> /\ mic = "panicked"
    /\ tx' = "ended"
    /\ UNCHANGED <<micVars, rec, mute, first, sent, copies, rx, chan, playVars, dropped>>

(* The device's stream is dropped after udp_tx, between two callbacks. *)
DropStream ==
    /\ tx = "ended" /\ mic = "recording"
    /\ mic' = "stopped"
    /\ UNCHANGED <<captured, input, done, encoded, rec, txVars, copies, rx, chan,
                   playVars, dropped>>

-----------------------------------------------------------------------------
(* The network, and udp_rx *)

MayArrive(i) ==
    \/ copies[i] = 0
    \/ copies[i] = 1 /\ Cardinality({j \in 1..Len(copies) : copies[j] > 1}) < MaxRepeated

Room == player = "playing" /\ Len(chan) < PlaySlots

(* One more copy of the i-th packet arrives.  It is dropped when the stream's
   queue is full, and the task panics when nobody reads that queue any more. *)
Deliver(i) ==
    LET p == [index |-> i, seq |-> SeqOf(i), nth |-> copies[i] + 1]
    IN  /\ rx = "registered"
        /\ MayArrive(i)
        /\ copies' = [copies EXCEPT ![i] = @ + 1]
        /\ rx' = IF player = "ended" THEN "panicked" ELSE rx
        /\ chan' = IF Room THEN Append(chan, p) ELSE chan
        /\ dropped' = IF Room THEN dropped ELSE dropped \cup {p}
        /\ UNCHANGED <<micVars, rec, txVars, playVars>>

(* The source's user has left, or udp_rx ends. *)
Remove ==
    /\ rx = "registered"
    /\ rx' = "removed"
    /\ UNCHANGED <<micVars, rec, txVars, copies, chan, playVars, dropped>>

-----------------------------------------------------------------------------
(* The stream's task *)

BugNewest(b) == {v \in b : \A w \in b : w.seq <= v.seq}

(* What a heap of Reverse(packet) may pop *)
Oldest(b) == {v \in b : \A w \in b : v.seq <= w.seq}

(* The state of the buffer is dropped with the task. *)
EndTask(lost) ==
    /\ player' = "ended"
    /\ buffer' = {}
    /\ chan' = <<>>
    /\ dropped' = dropped \cup buffer \cup Elems(chan) \cup lost
    /\ UNCHANGED <<next, concealed, played>>

(* Whatever is played, or concealed, may end the task instead: next_expected =
   n + 1 overflows in a build that checks it (else the number wraps), there is
   no payload to decode, or the clipper refuses what was decoded.           *)
Fails == EndTask({})
Succ(n) == (n + 1) % Width

Play(v, rest) ==
    /\ buffer' = rest
    /\ next' = Succ(v.seq)
    /\ played' = Append(played, v)
    /\ UNCHANGED <<player, concealed, dropped>>

Full == Cardinality(buffer) >= MaxBuffered

(* v comes when its place has passed: a gap was filled or a newer packet played
   there, or the buffer is full of newer ones, of which one is popped first. *)
Late(v) ==
    \/ v.seq < next
    \/ \E p \in Elems(played) : p.seq > v.seq
    \/ Full /\ \A w \in buffer : v.seq < w.seq

BugArrivalLost(v, o) == buffer \ {o}

Swapped(v, o) == (buffer \ {o}) \cup {v}

(* tick *)
Tick(v) ==
    \/ /\ Full
       /\ \E o \in Oldest(buffer) : Play(o, Swapped(v, o))
    \/ /\ ~Full
       /\ v.seq = next
       /\ Play(v, buffer)
    \/ /\ ~Full
       /\ v.seq # next
       /\ buffer' = buffer \cup {v}
       /\ UNCHANGED <<player, next, concealed, played, dropped>>

TickPlays(v) == Full \/ v.seq = next

Receive ==
    /\ player = "playing" /\ chan # <<>>
    /\ late' = IF Late(Head(chan)) THEN late \cup {Head(chan)} ELSE late
    /\ \/ /\ Tick(Head(chan))
          /\ chan' = Tail(chan)
       \/ /\ TickPlays(Head(chan))
          /\ Fails
    /\ UNCHANGED <<micVars, rec, txVars, copies, rx>>

(* The select is biased: the deadline counts only when no packet waits and the
   queue is open.                                                           *)
AtDeadline == player = "playing" /\ chan = <<>> /\ rx = "registered"

BugWaitsForFull == Full

MayPop == buffer # {}

Deadline ==
    /\ AtDeadline
    /\ MayPop
    /\ \/ /\ \E v \in Oldest(buffer) : Play(v, buffer \ {v})
          /\ UNCHANGED chan
       \/ Fails
    /\ UNCHANGED <<micVars, rec, txVars, copies, rx, late>>

Conceal ==
    /\ AtDeadline
    /\ buffer = {}
    /\ concealed < MaxConcealed
    /\ \/ /\ next' = Succ(next)
          /\ concealed' = concealed + 1
          /\ UNCHANGED <<player, buffer, played, chan, dropped>>
       \/ Fails
    /\ UNCHANGED <<micVars, rec, txVars, copies, rx, late>>

BugKeepsPlaying == rx = "panicked"

Closed == rx # "registered"

EndStream ==
    /\ player = "playing" /\ chan = <<>> /\ Closed
    /\ EndTask({})
    /\ UNCHANGED <<micVars, rec, txVars, copies, rx, late>>

-----------------------------------------------------------------------------
Next ==
    \/ \E n \in Reads : ReadInput(n)
    \/ EncodeChunk \/ CallbackDone \/ SendFails \/ EncoderFails
    \/ SendVoice \/ TxFails \/ MicDead \/ DropStream
    \/ \E i \in 1..Len(sent) : Deliver(i)
    \/ Remove
    \/ Receive \/ Deadline \/ Conceal \/ EndStream

Spec == Init /\ [][Next]_vars

(* Every task that can take a step takes one in the end; the device need not
   bring input, nor the network packets.                                    *)
Fairness ==
    /\ WF_vars(EncodeChunk) /\ WF_vars(CallbackDone) /\ WF_vars(SendFails)
    /\ WF_vars(SendVoice) /\ WF_vars(MicDead) /\ WF_vars(DropStream)
    /\ WF_vars(Receive) /\ WF_vars(Deadline) /\ WF_vars(EndStream)

FairSpec == Spec /\ Fairness

-----------------------------------------------------------------------------
(* Properties *)

(* Every variable keeps its type; the queues and the buffer their limits. *)
TypeOK ==
    /\ mic \in {"recording", "encoding", "stopped", "panicked"}
    /\ captured \in Nat
    /\ input \in Seq(Nat)
    /\ done \in Nat
    /\ encoded \in Seq(Seq(Nat))
    /\ rec \in Seq(Seq(Nat)) /\ Len(rec) <= RecordSlots
    /\ tx \in {"running", "ended"}
    /\ mute \in BOOLEAN
    /\ first \in Seqs
    /\ sent \in Seq(Seq(Nat))
    /\ copies \in Seq(Nat) /\ Len(copies) = Len(sent)
    /\ rx \in {"registered", "removed", "panicked"}
    /\ chan \in Seq(Packet) /\ Len(chan) <= PlaySlots
    /\ player \in {"playing", "ended"}
    /\ buffer \subseteq Packet /\ IsFiniteSet(buffer)
    /\ Cardinality(buffer) <= MaxBuffered
    /\ next \in Seqs
    /\ concealed \in Nat
    /\ played \in Seq(Packet)
    /\ late \subseteq Packet
    /\ dropped \subseteq Packet

(* What the microphone brings is sent exactly and in order: no frame is lost or
   repeated where a callback's input is cut into chunks and its remainder
   moved to the front, and no chunk on its way to the socket.               *)
Frames(a, b) == [n \in 1..(b - a) |-> a + n]
ChunksExact ==
    /\ \A k \in 1..Len(encoded) :
          encoded[k] = Frames((k - 1) * Period, k * Period)
    /\ SubSeq(input, done * Period + 1, Len(input)) =
          Frames(Len(encoded) * Period, captured)
    /\ tx = "running" /\ ~mute => sent \o rec = encoded

(* Each copy of a packet that arrived for the stream waits, is held back, was
   played or was given up, and only one of these: whatever the order of the
   packets and the moment of a full queue, a deadline, an error or the end
   of the stream, none is lost in the buffer and none is played twice.      *)
Arrived ==
    UNION {{[index |-> i, seq |-> SeqOf(i), nth |-> c] : c \in 1..copies[i]} :
              i \in 1..Len(copies)}
Distinct(s) == \A m, n \in 1..Len(s) : m # n => s[m] # s[n]
Apart(S, T) == S \cap T = {}
Accounted ==
    /\ Arrived = dropped \cup Elems(chan) \cup buffer \cup Elems(played)
    /\ Distinct(chan) /\ Distinct(played)
    /\ Apart(dropped, Elems(chan)) /\ Apart(dropped, buffer)
    /\ Apart(dropped, Elems(played)) /\ Apart(Elems(chan), buffer)
    /\ Apart(Elems(chan), Elems(played)) /\ Apart(buffer, Elems(played))

(* Packets are played in the order of their sequence numbers, but for those
   whose place had passed when they came (see Late) and second copies of one
   that was played: next_expected may move back and gaps may be filled too
   early, yet a packet that is held back in time is never overtaken.        *)
Again(j) == \E k \in 1..j-1 : played[k].seq = played[j].seq
OrderKept ==
    \A i, j \in 1..Len(played) :
        i < j /\ played[i].seq > played[j].seq =>
            played[j] \in late \/ Again(j)

(* What makes OrderKept inductive: what is held back in time is not older than
   next_expected, nor than anything played, unless it is a second copy.     *)
Repeated(v) == \E p \in Elems(played) : p.seq = v.seq
HeldInTime ==
    \A v \in buffer :
        \/ v \in late
        \/ Repeated(v)
        \/ v.seq >= next /\ \A p \in Elems(played) : p.seq <= v.seq

(* Only a callback under way has cut chunks from the input it keeps. *)
IdleKeepsAll == mic \in {"recording", "stopped"} => done = 0

IInv == TypeOK /\ OrderKept /\ HeldInTime /\ IdleKeepsAll

(* When packets no longer come, what is held back is played. *)
BufferDrains == <>[](chan = <<>>) => <>[](buffer = {})

(* A stream whose source is gone ends, so none runs on unheard. *)
EndsWithSource == (rx # "registered") ~> (player = "ended")

(* The device's callback, which waits for room in udp_tx's queue, returns. *)
CallbackReturns == (mic = "encoding") ~> (mic # "encoding")
=============================================================================
