---------------------------- MODULE ClientProofs ----------------------------
(***************************************************************************)
(* Proofs about the command line client.  First VoiceStream, for any       *)
(* period and any sizes of reads, any width of the sequence numbers, any   *)
(* capacities of the queues and of the buffer, and any number of frames,   *)
(* copies and gaps; then VoiceClient, for any other clients, any lengths   *)
(* of the queues between the tasks, any number of discovery attempts and   *)
(* of events.  The two specifications share no variable.                   *)
(***************************************************************************)
EXTENDS VoiceStream, VoiceClient, FiniteSetTheorems, SequenceTheorems, TLAPS

-----------------------------------------------------------------------------
(* Sequences and their elements *)

(* A sequence that is not empty has a first element and a rest. *)
LEMMA HeadTail ==
    ASSUME NEW S, NEW s \in Seq(S), s # <<>>
    PROVE  /\ Len(s) \in Nat \ {0}
           /\ Head(s) \in S /\ Head(s) = s[1]
           /\ Tail(s) \in Seq(S) /\ Len(Tail(s)) = Len(s) - 1
           /\ \A n \in 1..Len(Tail(s)) : Tail(s)[n] = s[n + 1]
OBVIOUS

(* A sequence with one more element at its end. *)
LEMMA Appended ==
    ASSUME NEW S, NEW s \in Seq(S), NEW x \in S
    PROVE  /\ Append(s, x) \in Seq(S) /\ Len(Append(s, x)) = Len(s) + 1 /\ Len(s) \in Nat
           /\ \A n \in 1..Len(s) : Append(s, x)[n] = s[n]
           /\ Append(s, x)[Len(s) + 1] = x
OBVIOUS

(* The empty sequence has no elements. *)
LEMMA ElemsEmpty == Elems(<<>>) = {}
BY DEF Elems

(* The elements of a sequence of S are in S. *)
LEMMA ElemsType ==
    ASSUME NEW S, NEW s \in Seq(S)
    PROVE  Elems(s) \subseteq S
BY DEF Elems

(* The elements of a sequence with one more at its end. *)
LEMMA ElemsAppend ==
    ASSUME NEW S, NEW s \in Seq(S), NEW x \in S
    PROVE  Elems(Append(s, x)) = Elems(s) \cup {x}
<1>1. /\ Len(s) \in Nat /\ Len(Append(s, x)) = Len(s) + 1
      /\ \A n \in 1..Len(s) : Append(s, x)[n] = s[n]
      /\ Append(s, x)[Len(s) + 1] = x
  BY Appended
<1>2. \A n \in 1..Len(s) + 1 : n \in 1..Len(s) \/ n = Len(s) + 1
  BY <1>1
<1>3. \A n \in 1..Len(s) : n \in 1..Len(s) + 1
  BY <1>1
<1>4. Len(s) + 1 \in 1..Len(s) + 1
  BY <1>1
<1> QED BY <1>1, <1>2, <1>3, <1>4 DEF Elems

(* The elements of a sequence are its first and those of its rest. *)
LEMMA ElemsTail ==
    ASSUME NEW S, NEW s \in Seq(S), s # <<>>
    PROVE  Elems(s) = {Head(s)} \cup Elems(Tail(s))
<1>1. /\ Len(s) \in Nat \ {0} /\ Head(s) = s[1] /\ Len(Tail(s)) = Len(s) - 1
      /\ \A n \in 1..Len(Tail(s)) : Tail(s)[n] = s[n + 1]
  BY HeadTail
<1>2. ASSUME NEW e \in Elems(s) PROVE e \in {Head(s)} \cup Elems(Tail(s))
  <2>1. PICK n \in 1..Len(s) : e = s[n]
    BY DEF Elems
  <2>2. CASE n = 1
    BY <1>1, <2>1, <2>2
  <2>3. CASE n # 1
    <3>1. n - 1 \in 1..Len(Tail(s)) /\ Tail(s)[n - 1] = s[n]
      BY <1>1, <2>1, <2>3
    <3> QED BY <2>1, <3>1 DEF Elems
  <2> QED BY <2>2, <2>3
<1>3. ASSUME NEW e \in Elems(Tail(s)) PROVE e \in Elems(s)
  <2>1. PICK n \in 1..Len(Tail(s)) : e = Tail(s)[n]
    BY DEF Elems
  <2>2. n + 1 \in 1..Len(s) /\ e = s[n + 1]
    BY <1>1, <2>1
  <2> QED BY <2>2 DEF Elems
<1>4. Head(s) \in Elems(s)
  <2>1. 1 \in 1..Len(s)
    BY <1>1
  <2> QED BY <1>1, <2>1 DEF Elems
<1> QED BY <1>2, <1>3, <1>4

-----------------------------------------------------------------------------
(* VoiceStream: packets, sequence numbers and the buffer *)

(* A packet's fields. *)
LEMMA PacketFields ==
    \A p \in Packet : p.seq \in Seqs /\ p.index \in Nat \ {0} /\ p.nth \in Nat \ {0}
BY DEF Packet

(* Sequence numbers and their successors are within the width. *)
LEMMA SeqArithmetic ==
    /\ 0 \in Seqs
    /\ \A n \in Seqs : /\ n \in Nat
                       /\ Succ(n) \in Seqs
                       /\ n + 1 < Width => Succ(n) = n + 1
BY WidthPositive DEF Seqs, Succ

(* The packets udp_tx sends carry sequence numbers of the width. *)
LEMMA SeqOfType ==
    ASSUME first \in Seqs, NEW i \in Nat \ {0}
    PROVE  SeqOf(i) \in Seqs
<1>1. first + i - 1 \in Nat
  BY WidthPositive DEF Seqs
<1> QED BY <1>1, WidthPositive DEF Seqs, SeqOf

(* What is popped is one of the buffer's packets, none older. *)
LEMMA OldestIsHeld ==
    ASSUME NEW b, NEW o \in Oldest(b)
    PROVE  o \in b /\ \A w \in b : o.seq <= w.seq
BY DEF Oldest

(* The buffer, less the packet popped and with the one that arrived. *)
LEMMA BufferFits ==
    ASSUME NEW b \in SUBSET Packet, IsFiniteSet(b), Cardinality(b) <= MaxBuffered
    PROVE  /\ Cardinality(b) \in Nat
           /\ \A o : /\ IsFiniteSet(b \ {o})
                     /\ Cardinality(b \ {o}) <= MaxBuffered
           /\ \A o \in b, v \in Packet :
                /\ IsFiniteSet((b \ {o}) \cup {v})
                /\ Cardinality((b \ {o}) \cup {v}) <= MaxBuffered
           /\ Cardinality(b) < MaxBuffered =>
                \A v \in Packet : /\ IsFiniteSet(b \cup {v})
                                  /\ Cardinality(b \cup {v}) <= MaxBuffered
<1>1. Cardinality(b) \in Nat
  BY FS_CardinalityType
<1>2. \A o : /\ IsFiniteSet(b \ {o})
             /\ Cardinality(b \ {o}) = IF o \in b THEN Cardinality(b) - 1
                                                  ELSE Cardinality(b)
  BY FS_RemoveElement
<1>3. \A v : /\ IsFiniteSet(b \cup {v})
             /\ Cardinality(b \cup {v}) = IF v \in b THEN Cardinality(b)
                                                     ELSE Cardinality(b) + 1
  BY FS_AddElement
<1>4. ASSUME NEW o \in b, NEW v \in Packet
      PROVE  /\ IsFiniteSet((b \ {o}) \cup {v})
             /\ Cardinality((b \ {o}) \cup {v}) <= MaxBuffered
  <2> DEFINE rest == b \ {o}
  <2>1. IsFiniteSet(rest) /\ Cardinality(rest) = Cardinality(b) - 1
    BY <1>2
  <2> HIDE DEF rest
  <2>2. /\ IsFiniteSet(rest \cup {v})
        /\ Cardinality(rest \cup {v}) =
             IF v \in rest THEN Cardinality(rest) ELSE Cardinality(rest) + 1
    BY <2>1, FS_AddElement
  <2>3. IsFiniteSet(rest \cup {v}) /\ Cardinality(rest \cup {v}) <= MaxBuffered
    BY <2>1, <2>2, <1>1, MaxBufferedPositive
  <2> QED BY <2>3 DEF rest
<1>5. ASSUME NEW o
      PROVE  IsFiniteSet(b \ {o}) /\ Cardinality(b \ {o}) <= MaxBuffered
  <2>1. CASE o \in b
    BY <1>1, <1>2, <2>1, MaxBufferedPositive
  <2>2. CASE o \notin b
    BY <1>1, <1>2, <2>2, MaxBufferedPositive
  <2> QED BY <2>1, <2>2
<1>6. ASSUME Cardinality(b) < MaxBuffered, NEW v \in Packet
      PROVE  IsFiniteSet(b \cup {v}) /\ Cardinality(b \cup {v}) <= MaxBuffered
  <2>1. CASE v \in b
    BY <1>1, <1>3, <2>1, MaxBufferedPositive
  <2>2. CASE v \notin b
    BY <1>1, <1>3, <1>6, <2>2, MaxBufferedPositive
  <2> QED BY <2>1, <2>2
<1> QED BY <1>1, <1>4, <1>5, <1>6

-----------------------------------------------------------------------------
(* Type correctness *)

(* The initial state is well typed. *)
LEMMA InitTypeOK == Init => TypeOK
BY QueuesHold, WidthPositive, StartsInWidth, MaxBufferedPositive, FS_EmptySet
DEF Init, TypeOK, Seqs

(* The stream's part of the type invariant. *)
PlayType ==
    /\ chan \in Seq(Packet) /\ Len(chan) <= PlaySlots
    /\ player \in {"playing", "ended"}
    /\ buffer \subseteq Packet /\ IsFiniteSet(buffer)
    /\ Cardinality(buffer) <= MaxBuffered
    /\ next \in Seqs
    /\ concealed \in Nat
    /\ played \in Seq(Packet)
    /\ late \subseteq Packet
    /\ dropped \subseteq Packet

(* Playing a packet of the stream keeps the types of what it changes. *)
LEMMA PlayKeepsType ==
    ASSUME PlayType, NEW v \in Packet, NEW rest, Play(v, rest)
    PROVE  /\ buffer' = rest /\ next' \in Seqs /\ played' \in Seq(Packet)
           /\ player' = player /\ concealed' = concealed /\ dropped' = dropped
<1>1. v.seq \in Seqs
  BY PacketFields
<1>2. next' \in Seqs
  BY <1>1, SeqArithmetic DEF Play
<1>3. played' \in Seq(Packet)
  BY Appended DEF Play, PlayType
<1> QED BY <1>2, <1>3 DEF Play

(* The end of the stream's task keeps the types. *)
LEMMA EndKeepsType ==
    ASSUME PlayType, NEW lost \in SUBSET Packet, EndTask(lost), late' \subseteq Packet
    PROVE  PlayType'
<1>1. Elems(chan) \subseteq Packet
  BY ElemsType DEF PlayType
<1> QED
  BY <1>1, FS_EmptySet, MaxBufferedPositive, QueuesHold DEF EndTask, PlayType

(* Taking a packet from the stream's queue keeps the types. *)
LEMMA ReceiveKeepsType ==
    ASSUME PlayType, Receive
    PROVE  PlayType'
<1> DEFINE v == Head(chan)
<1>1. v \in Packet /\ Tail(chan) \in Seq(Packet) /\ Len(Tail(chan)) <= PlaySlots
  BY HeadTail, QueuesHold DEF Receive, PlayType
<1>2. late' \subseteq Packet
  BY <1>1 DEF Receive, PlayType
<1>3. CASE Tick(v) /\ chan' = Tail(chan)
  <2>1. CASE \E o \in Oldest(buffer) : Play(o, Swapped(v, o))
    <3>1. PICK o \in Oldest(buffer) : Play(o, Swapped(v, o))
      BY <2>1
    <3>2. o \in buffer /\ o \in Packet
      BY <3>1, OldestIsHeld DEF PlayType
    <3>3. /\ Swapped(v, o) \subseteq Packet /\ IsFiniteSet(Swapped(v, o))
          /\ Cardinality(Swapped(v, o)) <= MaxBuffered
      BY <1>1, <3>2, BufferFits DEF PlayType, Swapped
    <3> QED BY <1>1, <1>2, <1>3, <3>1, <3>2, <3>3, PlayKeepsType DEF PlayType
  <2>2. CASE Play(v, buffer)
    BY <1>1, <1>2, <1>3, <2>2, PlayKeepsType DEF PlayType
  <2>3. CASE /\ ~Full
             /\ buffer' = buffer \cup {v}
             /\ UNCHANGED <<player, next, concealed, played, dropped>>
    <3>1. /\ buffer' \subseteq Packet /\ IsFiniteSet(buffer')
          /\ Cardinality(buffer') <= MaxBuffered
      <4>1. /\ buffer \in SUBSET Packet /\ IsFiniteSet(buffer)
            /\ Cardinality(buffer) <= MaxBuffered
        BY DEF PlayType
      <4>2. Cardinality(buffer) < MaxBuffered
        <5>1. Cardinality(buffer) \in Nat
          BY <4>1, FS_CardinalityType
        <5> QED BY <2>3, <5>1, MaxBufferedPositive DEF Full
      <4>3. IsFiniteSet(buffer \cup {v}) /\ Cardinality(buffer \cup {v}) <= MaxBuffered
        BY <1>1, <4>1, <4>2, BufferFits
      <4> QED BY <1>1, <2>3, <4>1, <4>3
    <3> QED BY <1>1, <1>2, <1>3, <2>3, <3>1 DEF PlayType
  <2> QED BY <1>3, <2>1, <2>2, <2>3 DEF Tick
<1>4. CASE EndTask({})
  BY <1>2, <1>4, EndKeepsType
<1> QED BY <1>3, <1>4 DEF Receive, Fails

(* A deadline, a gap and the end of the stream keep the types. *)
LEMMA PlayerKeepsType ==
    ASSUME PlayType, Deadline \/ Conceal \/ EndStream
    PROVE  PlayType'
<1>1. CASE EndTask({}) /\ late' = late
  BY <1>1, EndKeepsType DEF PlayType
<1>2. CASE Deadline /\ ~EndTask({})
  <2>1. PICK v \in Oldest(buffer) : Play(v, buffer \ {v}) /\ UNCHANGED <<chan, late>>
    BY <1>2 DEF Deadline, Fails
  <2>2. v \in buffer /\ v \in Packet
    BY <2>1, OldestIsHeld DEF PlayType
  <2>3. /\ buffer \ {v} \subseteq Packet /\ IsFiniteSet(buffer \ {v})
        /\ Cardinality(buffer \ {v}) <= MaxBuffered
    BY BufferFits DEF PlayType
  <2> QED BY <2>1, <2>2, <2>3, PlayKeepsType DEF PlayType
<1>3. CASE Conceal /\ ~EndTask({})
  <2>1. /\ next' = Succ(next) /\ concealed' = concealed + 1
        /\ UNCHANGED <<player, buffer, played, chan, dropped, late>>
    BY <1>3 DEF Conceal, Fails
  <2> QED BY <2>1, SeqArithmetic DEF PlayType
<1> QED BY <1>1, <1>2, <1>3 DEF Deadline, Conceal, EndStream

(* The sender's part of the type invariant. *)
SendType ==
    /\ mic \in {"recording", "encoding", "stopped", "panicked"}
    /\ captured \in Nat
    /\ input \in Seq(Nat)
    /\ done \in Nat
    /\ encoded \in Seq(Seq(Nat))
    /\ rec \in Seq(Seq(Nat)) /\ Len(rec) <= RecordSlots
    /\ tx \in {"running", "ended"}
    /\ mute \in BOOLEAN
    /\ first \in Seqs
    /\ sent \in Seq(Seq(Nat))
    /\ copies \in Seq(Nat) /\ Len(copies) = Len(sent)
    /\ rx \in {"registered", "removed", "panicked"}

(* The type invariant is that of the sender and that of the stream. *)
LEMMA TypeParts == TypeOK <=> SendType /\ PlayType
BY DEF TypeOK, SendType, PlayType

(* A period has frames. *)
LEMMA PeriodTimes ==
    \A n \in Nat : /\ n * Period \in Nat
                   /\ (n + 1) * Period = n * Period + Period
                   /\ (n + 1) * Period \in Nat
BY PeriodPositive

(* What is cut from the input, and what is kept of it, are frames. *)
LEMMA CutType ==
    ASSUME input \in Seq(Nat), done \in Nat
    PROVE  /\ Whole => Chunk(done) \in Seq(Nat) /\ Len(Chunk(done)) = Period
           /\ Remainder \in Seq(Nat)
<1>1. /\ done * Period \in Nat
      /\ (done + 1) * Period = done * Period + Period
      /\ (done + 1) * Period \in Nat
  BY PeriodTimes
<1>2. Len(input) \in Nat /\ \A k \in 1..Len(input) : input[k] \in Nat
  OBVIOUS
<1> DEFINE lo == done * Period
           hi == (done + 1) * Period
<1> HIDE DEF lo, hi
<1>3. ASSUME hi <= Len(input)
      PROVE  SubSeq(input, lo + 1, hi) \in Seq(Nat) /\ Len(SubSeq(input, lo + 1, hi)) = Period
  <2>1. \A k \in lo + 1..hi : input[k] \in Nat
    BY <1>1, <1>2, <1>3 DEF lo, hi
  <2>2. lo + 1 \in Int /\ hi \in Int /\ lo + 1 <= hi /\ hi - (lo + 1) + 1 = Period
    BY <1>1, PeriodPositive DEF lo, hi
  <2> QED BY <2>1, <2>2, SubSeqProperties
<1>4. SubSeq(input, lo + 1, Len(input)) \in Seq(Nat)
  <2>1. \A k \in lo + 1..Len(input) : input[k] \in Nat
    BY <1>1, <1>2 DEF lo
  <2>2. lo + 1 \in Int /\ Len(input) \in Int
    BY <1>1, <1>2 DEF lo
  <2> QED BY <2>1, <2>2, SubSeqProperties
<1> QED BY <1>3, <1>4 DEF lo, hi, Whole, Chunk, Remainder

(* The microphone's steps keep the sender's types. *)
LEMMA MicKeepsType ==
    ASSUME SendType,
           \/ \E n \in Reads : ReadInput(n)
           \/ EncodeChunk \/ CallbackDone \/ SendFails \/ EncoderFails
    PROVE  SendType'
<1>1. ASSUME NEW n \in Reads, ReadInput(n) PROVE SendType'
  <2>1. n \in Nat
    BY ReadsNat
  <2>2. [k \in 1..n |-> captured + k] \in Seq(Nat)
    BY <2>1 DEF SendType
  <2>3. input' \in Seq(Nat)
    BY <1>1, <2>2, ConcatProperties DEF ReadInput, SendType
  <2> QED BY <1>1, <2>1, <2>3 DEF ReadInput, SendType, txVars
<1>2. CASE EncodeChunk
  <2>1. Chunk(done) \in Seq(Nat)
    BY <1>2, CutType DEF EncodeChunk, SendType
  <2>2. encoded' \in Seq(Seq(Nat)) /\ rec' \in Seq(Seq(Nat))
    BY <1>2, <2>1, Appended DEF EncodeChunk, SendType
  <2>3. Len(rec') <= RecordSlots
    <3>1. Len(rec') = Len(rec) + 1
      BY <1>2, <2>1, Appended DEF EncodeChunk, SendType
    <3> QED BY <1>2, <3>1, QueuesHold DEF EncodeChunk, SendType
  <2> QED BY <1>2, <2>2, <2>3 DEF EncodeChunk, SendType, txVars
<1>3. CASE CallbackDone
  BY <1>3, CutType DEF CallbackDone, SendType, txVars
<1>4. CASE SendFails \/ EncoderFails
  BY <1>4 DEF SendFails, EncoderFails, CallbackPanics, SendType, txVars
<1> QED BY <1>1, <1>2, <1>3, <1>4

(* The steps of udp_tx and the end of the device's stream keep them. *)
LEMMA TxKeepsType ==
    ASSUME SendType, SendVoice \/ TxFails \/ MicDead \/ DropStream
    PROVE  SendType'
<1>1. CASE SendVoice
  <2>1. /\ Head(rec) \in Seq(Nat) /\ Tail(rec) \in Seq(Seq(Nat))
        /\ Len(Tail(rec)) <= RecordSlots
    BY <1>1, HeadTail, QueuesHold DEF SendVoice, SendType
  <2>2. CASE mute
    BY <1>1, <2>1, <2>2 DEF SendVoice, SendType, micVars
  <2>3. CASE ~mute
    <3>1. /\ sent' \in Seq(Seq(Nat)) /\ Len(sent') = Len(sent) + 1
          /\ copies' \in Seq(Nat) /\ Len(copies') = Len(copies) + 1
      <4>1. sent \in Seq(Seq(Nat)) /\ copies \in Seq(Nat)
        BY DEF SendType
      <4>2. sent' = Append(sent, Head(rec)) /\ copies' = Append(copies, 0)
        BY <1>1, <2>3 DEF SendVoice
      <4>3. sent' \in Seq(Seq(Nat)) /\ Len(sent') = Len(sent) + 1
        BY <2>1, <4>1, <4>2, Appended
      <4>4. copies' \in Seq(Nat) /\ Len(copies') = Len(copies) + 1
        BY <4>1, <4>2, Appended
      <4> QED BY <4>3, <4>4
    <3> QED BY <1>1, <2>1, <3>1 DEF SendVoice, SendType, micVars
  <2> QED BY <2>2, <2>3
<1>2. CASE TxFails
  BY <1>2, QueuesHold DEF TxFails, SendType, micVars
<1>3. CASE MicDead \/ DropStream
  BY <1>3 DEF MicDead, DropStream, SendType, micVars, txVars
<1> QED BY <1>1, <1>2, <1>3

(* A packet's arrival, or the stream's removal, keeps all types. *)
LEMMA ArrivalKeepsType ==
    ASSUME TypeOK, (\E i \in 1..Len(sent) : Deliver(i)) \/ Remove
    PROVE  TypeOK'
<1>1. ASSUME NEW i \in 1..Len(sent), Deliver(i) PROVE TypeOK'
  <2> DEFINE p == [index |-> i, seq |-> SeqOf(i), nth |-> copies[i] + 1]
  <2>1. i \in Nat \ {0} /\ i \in 1..Len(copies) /\ copies[i] \in Nat
    BY DEF TypeOK
  <2>2. p \in Packet
    <3>1. first \in Seqs
      BY DEF TypeOK
    <3>2. SeqOf(i) \in Seqs
      BY <2>1, <3>1, SeqOfType
    <3> QED BY <2>1, <3>2 DEF Packet
  <2>3. copies' \in Seq(Nat) /\ Len(copies') = Len(copies)
    <3>1. copies' = [copies EXCEPT ![i] = copies[i] + 1] /\ copies[i] + 1 \in Nat
      BY <1>1, <2>1 DEF Deliver, Room
    <3>2. copies \in Seq(Nat)
      BY DEF TypeOK
    <3> QED BY <2>1, <3>1, <3>2, ExceptSeq
  <2>4. chan' \in Seq(Packet) /\ Len(chan') <= PlaySlots
    <3>1. \/ chan' = chan
          \/ chan' = Append(chan, p) /\ Len(chan) < PlaySlots
      BY <1>1 DEF Deliver, Room
    <3>2. /\ Append(chan, p) \in Seq(Packet) /\ Len(Append(chan, p)) = Len(chan) + 1
          /\ Len(chan) \in Nat /\ chan \in Seq(Packet) /\ Len(chan) <= PlaySlots
      BY <2>2, Appended DEF TypeOK
    <3> HIDE DEF p
    <3> QED BY <3>1, <3>2, QueuesHold
  <2>5. dropped' \subseteq Packet
    BY <1>1, <2>2 DEF Deliver, Room, TypeOK
  <2>6. rx' \in {"registered", "removed", "panicked"}
    BY <1>1 DEF Deliver, Room, TypeOK
  <2> QED
    BY <1>1, <2>3, <2>4, <2>5, <2>6 DEF Deliver, Room, TypeOK, micVars, txVars, playVars
<1>2. CASE Remove
  BY <1>2 DEF Remove, TypeOK, micVars, txVars, playVars
<1> QED BY <1>1, <1>2

(* Every step keeps the types. *)
LEMMA NextTypeOK == TypeOK /\ [Next]_vars => TypeOK'
<1> SUFFICES ASSUME TypeOK, [Next]_vars PROVE TypeOK'
  OBVIOUS
<1>1. SendType /\ PlayType
  BY TypeParts
<1>2. ASSUME (\E n \in Reads : ReadInput(n)) \/ EncodeChunk \/ CallbackDone
              \/ SendFails \/ EncoderFails
      PROVE  TypeOK'
  <2>1. PlayType'
    BY <1>1, <1>2 DEF ReadInput, EncodeChunk, CallbackDone, SendFails, EncoderFails,
      CallbackPanics, PlayType, playVars
  <2>2. SendType'
    BY <1>1, <1>2, MicKeepsType
  <2> QED BY <2>1, <2>2 DEF TypeOK, SendType, PlayType
<1>3. ASSUME SendVoice \/ TxFails \/ MicDead \/ DropStream PROVE TypeOK'
  <2>1. PlayType'
    BY <1>1, <1>3 DEF SendVoice, TxFails, MicDead, DropStream, PlayType, playVars
  <2>2. SendType'
    BY <1>1, <1>3, TxKeepsType
  <2> QED BY <2>1, <2>2 DEF TypeOK, SendType, PlayType
<1>4. ASSUME Receive \/ Deadline \/ Conceal \/ EndStream PROVE TypeOK'
  <2>1. SendType'
    BY <1>1, <1>4 DEF Receive, Deadline, Conceal, EndStream, SendType, micVars, txVars
  <2>2. PlayType'
    BY <1>1, <1>4, ReceiveKeepsType, PlayerKeepsType
  <2> QED BY <2>1, <2>2 DEF TypeOK, SendType, PlayType
<1>5. CASE UNCHANGED vars
  BY <1>5 DEF TypeOK, vars, micVars, txVars, playVars
<1> QED BY <1>2, <1>3, <1>4, <1>5, ArrivalKeepsType DEF Next

(* Every variable keeps its type, the queues to udp_tx and to the stream and the
   stream's buffer never hold more than their limits, and sequence numbers
   stay within their width, whatever the network does.                      *)
THEOREM TypeCorrect == Spec => []TypeOK
BY InitTypeOK, NextTypeOK, PTL DEF Spec

-----------------------------------------------------------------------------
(* The order of what is played *)

(* That the packet v is in time for what was played: an obligation on whatever
   is played next, or held back.                                            *)
InTime(v) == v \in late \/ Repeated(v) \/ \A p \in Elems(played) : p.seq <= v.seq

(* Playing a packet that is in time, late or a second copy keeps the order. *)
LEMMA PlayedInOrder ==
    ASSUME TypeOK, OrderKept, NEW v \in Packet, played' = Append(played, v),
           late \subseteq late', v \in late' \/ InTime(v)
    PROVE  OrderKept'
<1>1. /\ Len(played) \in Nat /\ Len(played') = Len(played) + 1
      /\ \A n \in 1..Len(played) : played'[n] = played[n] /\ played[n] \in Packet
      /\ played'[Len(played) + 1] = v
  BY Appended DEF TypeOK
<1>2. \A p \in Packet : p.seq \in Nat
  BY PacketFields, SeqArithmetic
<1> SUFFICES ASSUME NEW i \in 1..Len(played'), NEW j \in 1..Len(played'),
                    i < j, played'[i].seq > played'[j].seq
             PROVE  played'[j] \in late' \/ Again(j)'
  BY DEF OrderKept
<1>3. CASE j \in 1..Len(played)
  <2>1. i \in 1..Len(played) /\ played[i].seq > played[j].seq
    BY <1>1, <1>3
  <2>2. played[j] \in late \/ Again(j)
    BY <1>3, <2>1 DEF OrderKept
  <2>3. Again(j) => Again(j)'
    <3>1. \A k \in 1..j-1 : k \in 1..Len(played)
      BY <1>3
    <3> QED BY <1>1, <1>3, <3>1 DEF Again
  <2> QED BY <1>1, <1>3, <2>2, <2>3
<1>4. CASE j \notin 1..Len(played)
  <2>1. j = Len(played) + 1 /\ i \in 1..Len(played) /\ played'[j] = v
    BY <1>1, <1>4
  <2>2. played[i].seq > v.seq /\ played[i] \in Elems(played)
    BY <1>1, <2>1 DEF Elems
  <2>3. ~(\A p \in Elems(played) : p.seq <= v.seq)
    BY <1>1, <1>2, <2>1, <2>2
  <2>4. Repeated(v) => Again(j)'
    <3> SUFFICES ASSUME Repeated(v) PROVE Again(j)'
      OBVIOUS
    <3>1. PICK k \in 1..Len(played) : played[k].seq = v.seq
      BY DEF Repeated, Elems
    <3>2. k \in 1..j-1 /\ played'[k].seq = played'[j].seq
      BY <1>1, <2>1, <3>1
    <3> QED BY <3>2 DEF Again
  <2> QED BY <2>1, <2>3, <2>4 DEF InTime
<1> QED BY <1>3, <1>4

(* A packet that was in time, and is not older than the one played now, is still
   in time: it is not older than next_expected, or it repeats that one.     *)
LEMMA StaysInTime ==
    ASSUME TypeOK, NEW v \in Packet, NEW w \in Packet,
           played' = Append(played, v), next' = Succ(v.seq), late \subseteq late',
           v.seq <= w.seq, w \in late' \/ InTime(w)
    PROVE  \/ w \in late'
           \/ Repeated(w)'
           \/ w.seq >= next' /\ \A p \in Elems(played') : p.seq <= w.seq
<1>1. /\ v.seq \in Nat /\ w.seq \in Nat /\ v.seq \in Seqs /\ w.seq \in Seqs
  BY PacketFields, SeqArithmetic
<1>2. Elems(played') = Elems(played) \cup {v}
  BY ElemsAppend DEF TypeOK
<1>3. CASE Repeated(w) \/ w.seq = v.seq
  BY <1>2, <1>3 DEF Repeated
<1>4. CASE w.seq # v.seq /\ \A p \in Elems(played) : p.seq <= w.seq
  <2>1. v.seq + 1 <= w.seq /\ v.seq + 1 < Width
    BY <1>1, <1>4, WidthPositive DEF Seqs
  <2>2. next' = v.seq + 1
    BY <1>1, <2>1, SeqArithmetic
  <2> QED BY <1>1, <1>2, <1>4, <2>1, <2>2
<1> QED BY <1>3, <1>4 DEF InTime

(* Playing one of the oldest packets of the buffer, with packets that are no
   older and in time left there, keeps both parts of the invariant.          *)
LEMMA PlayKeepsOrder ==
    ASSUME TypeOK, OrderKept, NEW v \in Packet, NEW rest \in SUBSET Packet,
           Play(v, rest), late \subseteq late', v \in late' \/ InTime(v),
           \A w \in rest : \/ w \in late'
                           \/ v.seq <= w.seq /\ InTime(w)
    PROVE  OrderKept' /\ HeldInTime'
<1>1. played' = Append(played, v) /\ next' = Succ(v.seq) /\ buffer' = rest
  BY DEF Play
<1>2. OrderKept'
  BY <1>1, PlayedInOrder
<1>3. ASSUME NEW w \in rest
      PROVE  \/ w \in late'
             \/ Repeated(w)'
             \/ w.seq >= next' /\ \A p \in Elems(played') : p.seq <= w.seq
  BY <1>1, StaysInTime
<1>4. HeldInTime'
  BY <1>1, <1>3 DEF HeldInTime
<1> QED BY <1>2, <1>4

(* What is held back is in time. *)
LEMMA HeldIsInTime ==
    ASSUME HeldInTime
    PROVE  \A w \in buffer : InTime(w)
BY DEF HeldInTime, InTime

(* A step that leaves the played packets, the buffer, next_expected and the
   late ones alone keeps the order.                                         *)
LEMMA SameOrder ==
    ASSUME OrderKept, HeldInTime, UNCHANGED <<buffer, next, played, late>>
    PROVE  OrderKept' /\ HeldInTime'
BY DEF OrderKept, HeldInTime, Again, Repeated

(* The end of the stream's task keeps the order. *)
LEMMA EndKeepsOrder ==
    ASSUME OrderKept, EndTask({}), late \subseteq late'
    PROVE  OrderKept' /\ HeldInTime'
<1>1. played' = played /\ buffer' = {}
  BY DEF EndTask
<1> QED BY <1>1 DEF OrderKept, HeldInTime, Again

(* A packet taken from the queue is played, or held back, in its order. *)
LEMMA ReceiveKeepsOrder ==
    ASSUME TypeOK, OrderKept, HeldInTime, Receive
    PROVE  OrderKept' /\ HeldInTime'
<1>1. Head(chan) \in Packet
  BY HeadTail DEF Receive, TypeOK
<1>2. PICK v \in Packet : v = Head(chan)
  BY <1>1
<1>3. late' = IF Late(v) THEN late \cup {v} ELSE late
  BY <1>2 DEF Receive
<1>4. late \subseteq late' /\ (Late(v) => v \in late')
  BY <1>3
<1>5. \A p \in Packet : p.seq \in Nat
  BY PacketFields, SeqArithmetic
<1>6. Elems(played) \subseteq Packet /\ buffer \subseteq Packet
  BY ElemsType DEF TypeOK
<1>7. ~Late(v) => /\ v.seq >= next
                  /\ \A p \in Elems(played) : p.seq <= v.seq
                  /\ Full => \E w \in buffer : w.seq <= v.seq
  <2>1. v.seq \in Nat /\ next \in Nat
    BY <1>5, SeqArithmetic DEF TypeOK
  <2>2. ~(v.seq < next) => v.seq >= next
    BY <2>1
  <2>3. \A p \in Elems(played) : ~(p.seq > v.seq) => p.seq <= v.seq
    BY <1>5, <1>6, <2>1
  <2>4. \A w \in buffer : ~(v.seq < w.seq) => w.seq <= v.seq
    BY <1>5, <1>6, <2>1
  <2> HIDE DEF Full
  <2> QED BY <2>2, <2>3, <2>4 DEF Late
<1>8. v \in late' \/ InTime(v)
  BY <1>4, <1>7 DEF InTime
<1>9. CASE \E o \in Oldest(buffer) : Play(o, Swapped(v, o)) /\ Full
  <2>1. PICK o \in Oldest(buffer) : Play(o, Swapped(v, o)) /\ Full
    BY <1>9
  <2>2. o \in buffer /\ o \in Packet /\ \A w \in buffer : o.seq <= w.seq
    BY <1>6, <2>1, OldestIsHeld
  <2>3. Swapped(v, o) \in SUBSET Packet
    BY <1>6 DEF Swapped
  <2>4. InTime(o)
    BY <2>2, HeldIsInTime
  <2>5. ASSUME NEW w \in Swapped(v, o)
        PROVE  w \in late' \/ (o.seq <= w.seq /\ InTime(w))
    <3>1. CASE w \in buffer
      BY <2>2, <3>1, HeldIsInTime
    <3>2. CASE w = v
      <4>1. CASE Late(v)
        BY <1>4, <3>2, <4>1
      <4>2. CASE ~Late(v)
        <5>1. PICK u \in buffer : u.seq <= v.seq
          BY <1>7, <2>1, <4>2
        <5>2. o.seq <= v.seq
          BY <1>5, <1>6, <2>2, <5>1
        <5> QED BY <1>7, <3>2, <4>2, <5>2 DEF InTime
      <4> QED BY <4>1, <4>2
    <3> QED BY <3>1, <3>2 DEF Swapped
  <2> QED BY <1>4, <2>1, <2>2, <2>3, <2>4, <2>5, PlayKeepsOrder
<1>10. CASE v.seq = next /\ Play(v, buffer)
  <2>1. ASSUME NEW w \in buffer
        PROVE  \/ w \in late'
               \/ v.seq <= w.seq /\ InTime(w)
               \/ Repeated(w)
    BY <1>4, <1>5, <1>6, <1>10 DEF HeldInTime, InTime
  <2>2. played' = Append(played, v) /\ next' = Succ(v.seq) /\ buffer' = buffer
    BY <1>10 DEF Play
  <2>3. OrderKept'
    BY <1>4, <1>8, <2>2, PlayedInOrder
  <2>4. Elems(played') = Elems(played) \cup {v}
    BY <2>2, ElemsAppend DEF TypeOK
  <2>5. \A w \in buffer : Repeated(w) => Repeated(w)'
    BY <2>4 DEF Repeated
  <2>6. ASSUME NEW w \in buffer, v.seq <= w.seq, InTime(w)
        PROVE  \/ w \in late'
               \/ Repeated(w)'
               \/ w.seq >= next' /\ \A p \in Elems(played') : p.seq <= w.seq
    BY <1>4, <1>6, <2>2, <2>6, StaysInTime
  <2>7. HeldInTime'
    BY <2>1, <2>2, <2>5, <2>6 DEF HeldInTime
  <2> QED BY <2>3, <2>7
<1>11. CASE buffer' = buffer \cup {v} /\ UNCHANGED <<next, played>>
  <2>1. OrderKept'
    BY <1>4, <1>11 DEF OrderKept, Again
  <2>2. \A w \in buffer : w \in late \/ Repeated(w)
                          \/ (w.seq >= next /\ \A p \in Elems(played) : p.seq <= w.seq)
    BY DEF HeldInTime
  <2>3. v \in late' \/ (v.seq >= next /\ \A p \in Elems(played) : p.seq <= v.seq)
    BY <1>4, <1>7
  <2>4. HeldInTime'
    BY <1>4, <1>11, <2>2, <2>3 DEF HeldInTime, Repeated
  <2> QED BY <2>1, <2>4
<1>12. CASE EndTask({})
  BY <1>4, <1>12, EndKeepsOrder
<1> QED BY <1>2, <1>9, <1>10, <1>11, <1>12 DEF Receive, Fails, Tick

(* A packet popped at a deadline is played in its order. *)
LEMMA DeadlineKeepsOrder ==
    ASSUME TypeOK, OrderKept, HeldInTime, Deadline
    PROVE  OrderKept' /\ HeldInTime'
<1>1. late' = late
  BY DEF Deadline
<1>2. CASE EndTask({})
  BY <1>1, <1>2, EndKeepsOrder
<1>3. CASE \E v \in Oldest(buffer) : Play(v, buffer \ {v})
  <2>1. PICK v \in Oldest(buffer) : Play(v, buffer \ {v})
    BY <1>3
  <2>2. v \in Packet /\ buffer \ {v} \in SUBSET Packet
    BY <2>1, OldestIsHeld DEF TypeOK
  <2>3. InTime(v) /\ \A w \in buffer \ {v} : v.seq <= w.seq /\ InTime(w)
    BY <2>1, OldestIsHeld, HeldIsInTime
  <2> QED BY <1>1, <2>1, <2>2, <2>3, PlayKeepsOrder
<1> QED BY <1>2, <1>3 DEF Deadline, Fails

(* A gap that is filled finds no packet held back. *)
LEMMA ConcealKeepsOrder ==
    ASSUME OrderKept, HeldInTime, Conceal
    PROVE  OrderKept' /\ HeldInTime'
<1>1. late' = late
  BY DEF Conceal
<1>2. CASE EndTask({})
  BY <1>1, <1>2, EndKeepsOrder
<1>3. CASE UNCHANGED <<buffer, played>>
  <2>1. buffer' = {}
    BY <1>3 DEF Conceal
  <2> QED BY <1>1, <1>3, <2>1 DEF OrderKept, HeldInTime, Again
<1> QED BY <1>2, <1>3 DEF Conceal, Fails

-----------------------------------------------------------------------------
(* The inductive invariant *)

(* The invariant holds at the start. *)
LEMMA InitIInv == Init => IInv
<1> SUFFICES ASSUME Init PROVE IInv
  OBVIOUS
<1>1. TypeOK
  BY InitTypeOK
<1>2. OrderKept /\ HeldInTime /\ IdleKeepsAll
  BY DEF Init, OrderKept, HeldInTime, IdleKeepsAll
<1> QED BY <1>1, <1>2 DEF IInv

(* Every step keeps it. *)
LEMMA NextIInv == IInv /\ [Next]_vars => IInv'
<1> SUFFICES ASSUME IInv, [Next]_vars PROVE IInv'
  OBVIOUS
<1>1. TypeOK /\ OrderKept /\ HeldInTime /\ IdleKeepsAll
  BY DEF IInv
<1>2. TypeOK'
  BY <1>1, NextTypeOK
<1>3. OrderKept' /\ HeldInTime'
  <2>1. CASE Receive
    BY <1>1, <2>1, ReceiveKeepsOrder
  <2>2. CASE Deadline
    BY <1>1, <2>2, DeadlineKeepsOrder
  <2>3. CASE Conceal
    BY <1>1, <2>3, ConcealKeepsOrder
  <2>4. CASE EndStream
    BY <1>1, <2>4, EndKeepsOrder DEF EndStream
  <2>5. CASE UNCHANGED <<buffer, next, played, late>>
    BY <1>1, <2>5, SameOrder
  <2>6. ASSUME \/ \E n \in Reads : ReadInput(n)
               \/ EncodeChunk \/ CallbackDone \/ SendFails \/ EncoderFails
               \/ SendVoice \/ TxFails \/ MicDead \/ DropStream
               \/ \E i \in 1..Len(sent) : Deliver(i)
               \/ Remove
        PROVE  UNCHANGED <<buffer, next, played, late>>
    BY <2>6 DEF ReadInput, EncodeChunk, CallbackDone, SendFails, EncoderFails,
      CallbackPanics, SendVoice, TxFails, MicDead, DropStream, Deliver, Remove, playVars
  <2> QED BY <2>1, <2>2, <2>3, <2>4, <2>5, <2>6 DEF Next, vars, playVars
<1>4. IdleKeepsAll'
  <2>1. CASE UNCHANGED <<mic, done>>
    BY <1>1, <2>1 DEF IdleKeepsAll
  <2>2. ASSUME \/ \E n \in Reads : ReadInput(n)
               \/ EncodeChunk \/ CallbackDone \/ SendFails \/ EncoderFails \/ DropStream
        PROVE  IdleKeepsAll'
    BY <1>1, <2>2 DEF ReadInput, EncodeChunk, CallbackDone, SendFails, EncoderFails,
      CallbackPanics, DropStream, IdleKeepsAll
  <2>3. ASSUME \/ SendVoice \/ TxFails \/ MicDead
               \/ \E i \in 1..Len(sent) : Deliver(i)
               \/ Remove \/ Receive \/ Deadline \/ Conceal \/ EndStream
        PROVE  UNCHANGED <<mic, done>>
    BY <2>3 DEF SendVoice, TxFails, MicDead, Deliver, Room, Remove, Receive, Deadline,
      Conceal, EndStream, micVars
  <2> QED BY <2>1, <2>2, <2>3 DEF Next, vars, micVars
<1> QED BY <1>2, <1>3, <1>4 DEF IInv

(* What the stream plays, holds back and expects next fit together, as IInv says,
   for any number of packets in any order.                                  *)
THEOREM StreamIInv == Spec => []IInv
BY InitIInv, NextIInv, PTL DEF Spec

(* A packet is overtaken by a newer one only when it came after its place had
   passed or repeats one that was played: the buffer itself never reorders.  *)
THEOREM PlayedInSequence == Spec => []OrderKept
<1>1. IInv => OrderKept
  BY DEF IInv
<1> QED BY <1>1, StreamIInv, PTL

-----------------------------------------------------------------------------
(* No packet is lost or played twice *)

(* A sequence without repetitions stays one when a new element is appended. *)
LEMMA DistinctAppend ==
    ASSUME NEW S, NEW s \in Seq(S), NEW x \in S, Distinct(s), x \notin Elems(s)
    PROVE  Distinct(Append(s, x))
<1>1. /\ Len(s) \in Nat /\ Len(Append(s, x)) = Len(s) + 1
      /\ \A n \in 1..Len(s) : Append(s, x)[n] = s[n]
      /\ Append(s, x)[Len(s) + 1] = x
  BY Appended
<1>2. \A n \in 1..Len(s) : s[n] # x
  BY DEF Elems
<1>3. \A n \in 1..Len(s) + 1 : n \in 1..Len(s) \/ n = Len(s) + 1
  BY <1>1
<1> QED BY <1>1, <1>2, <1>3 DEF Distinct

(* In the rest of a sequence without repetitions its first does not occur. *)
LEMMA DistinctTail ==
    ASSUME NEW S, NEW s \in Seq(S), s # <<>>, Distinct(s)
    PROVE  Distinct(Tail(s)) /\ Head(s) \notin Elems(Tail(s))
<1>1. /\ Len(s) \in Nat \ {0} /\ Head(s) = s[1] /\ Len(Tail(s)) = Len(s) - 1
      /\ \A n \in 1..Len(Tail(s)) : Tail(s)[n] = s[n + 1]
  BY HeadTail
<1>2. \A n \in 1..Len(Tail(s)) : n + 1 \in 1..Len(s) /\ n + 1 # 1 /\ 1 \in 1..Len(s)
  BY <1>1
<1>3. \A m, n \in 1..Len(Tail(s)) : m # n => m + 1 # n + 1
  BY <1>1
<1>4. Distinct(Tail(s))
  BY <1>1, <1>2, <1>3 DEF Distinct
<1>5. \A n \in 1..Len(Tail(s)) : Tail(s)[n] # Head(s)
  BY <1>1, <1>2 DEF Distinct
<1> QED BY <1>4, <1>5 DEF Elems

(* The copy c of the i-th packet *)
Copy(i, c) == [index |-> i, seq |-> SeqOf(i), nth |-> c]

(* What has arrived are the copies counted. *)
LEMMA ArrivedCopies ==
    \A x : x \in Arrived <=>
              \E i \in 1..Len(copies) : \E c \in 1..copies[i] : x = Copy(i, c)
BY DEF Arrived, Copy

(* One more copy of a packet is one that had not arrived. *)
LEMMA OneMoreCopy ==
    ASSUME TypeOK, NEW i \in 1..Len(copies), first' = first,
           copies' = [copies EXCEPT ![i] = copies[i] + 1]
    PROVE  /\ Copy(i, copies[i] + 1) \notin Arrived
           /\ Arrived' = Arrived \cup {Copy(i, copies[i] + 1)}
<1>1. /\ Len(copies) \in Nat /\ Len(copies') = Len(copies)
      /\ \A j \in 1..Len(copies) : copies[j] \in Nat
      /\ copies'[i] = copies[i] + 1
      /\ \A j \in 1..Len(copies) : j # i => copies'[j] = copies[j]
  <2>1. copies \in Seq(Nat) /\ copies[i] + 1 \in Nat
    BY DEF TypeOK
  <2> QED BY <2>1, ExceptSeq
<1>2. \A j, c, k, d : Copy(j, c) = Copy(k, d) => j = k /\ c = d
  BY DEF Copy
<1>3. Copy(i, copies[i] + 1) \notin Arrived
  <2> SUFFICES ASSUME NEW j \in 1..Len(copies), NEW c \in 1..copies[j],
                      Copy(i, copies[i] + 1) = Copy(j, c)
               PROVE  FALSE
    BY ArrivedCopies
  <2>1. j = i /\ c = copies[i] + 1
    BY <1>2
  <2> QED BY <1>1, <2>1
<1>4. \A j, c : Copy(j, c)' = Copy(j, c)
  BY DEF Copy, SeqOf
<1>5. \A x : x \in Arrived' <=>
         \E j \in 1..Len(copies) : \E c \in 1..copies'[j] : x = Copy(j, c)
  <2>1. \A x : x \in Arrived' <=>
           \E j \in 1..Len(copies') : \E c \in 1..copies'[j] : x = Copy(j, c)'
    BY DEF Arrived, Copy
  <2> QED BY <2>1, <1>1, <1>4
<1>6. 1..copies[i] + 1 = (1..copies[i]) \cup {copies[i] + 1}
  BY <1>1
<1>7. ASSUME NEW x \in Arrived' PROVE x \in Arrived \cup {Copy(i, copies[i] + 1)}
  <2>1. PICK j \in 1..Len(copies) : \E c \in 1..copies'[j] : x = Copy(j, c)
    BY <1>5
  <2>2. PICK c \in 1..copies'[j] : x = Copy(j, c)
    BY <2>1
  <2> QED BY <1>1, <1>6, <2>1, <2>2, ArrivedCopies
<1>8. ASSUME NEW x \in Arrived PROVE x \in Arrived'
  <2>1. PICK j \in 1..Len(copies) : \E c \in 1..copies[j] : x = Copy(j, c)
    BY ArrivedCopies
  <2>2. PICK c \in 1..copies[j] : x = Copy(j, c)
    BY <2>1
  <2>3. c \in 1..copies'[j]
    BY <1>1, <1>6, <2>2
  <2> QED BY <1>5, <2>2, <2>3
<1>9. Copy(i, copies[i] + 1) \in Arrived'
  <2>1. copies[i] + 1 \in 1..copies'[i]
    BY <1>1
  <2> QED BY <1>1, <1>5, <2>1
<1> QED BY <1>3, <1>7, <1>8, <1>9

(* The packets that arrived do not depend on the stream. *)
LEMMA SameArrived ==
    ASSUME UNCHANGED <<first, copies>>
    PROVE  Arrived' = Arrived
BY DEF Arrived, SeqOf

(* A packet sent anew has no copies yet. *)
LEMMA SentHasNoCopies ==
    ASSUME TypeOK, first' = first, copies' = Append(copies, 0)
    PROVE  Arrived' = Arrived
<1>1. /\ Len(copies) \in Nat /\ Len(copies') = Len(copies) + 1
      /\ \A n \in 1..Len(copies) : copies'[n] = copies[n]
      /\ copies'[Len(copies) + 1] = 0
  BY Appended DEF TypeOK
<1>2. \A j, c : Copy(j, c)' = Copy(j, c)
  BY DEF Copy, SeqOf
<1>3. \A x : x \in Arrived' <=>
         \E j \in 1..Len(copies) + 1 : \E c \in 1..copies'[j] : x = Copy(j, c)
  <2>1. \A x : x \in Arrived' <=>
           \E j \in 1..Len(copies') : \E c \in 1..copies'[j] : x = Copy(j, c)'
    BY DEF Arrived, Copy
  <2> QED BY <2>1, <1>1, <1>2
<1>4. 1..copies'[Len(copies) + 1] = {}
  BY <1>1
<1>5. \A n \in 1..Len(copies) + 1 : n \in 1..Len(copies) \/ n = Len(copies) + 1
  BY <1>1
<1>6. \A n \in 1..Len(copies) : n \in 1..Len(copies) + 1
  BY <1>1
<1>7. ASSUME NEW x \in Arrived' PROVE x \in Arrived
  BY <1>1, <1>3, <1>4, <1>5, ArrivedCopies
<1>8. ASSUME NEW x \in Arrived PROVE x \in Arrived'
  BY <1>1, <1>3, <1>6, ArrivedCopies
<1> QED BY <1>7, <1>8

(* At the start nothing has arrived. *)
LEMMA InitAccounted == Init => Accounted
<1> SUFFICES ASSUME Init PROVE Accounted
  OBVIOUS
<1>1. Arrived = {}
  BY DEF Init, Arrived
<1> QED BY <1>1, ElemsEmpty DEF Init, Accounted, Distinct, Apart

(* Playing a packet that was held back, or that is first in the queue. *)
LEMMA PlayAccounts ==
    ASSUME TypeOK, Accounted, NEW v \in Packet, played' = Append(played, v),
           v \in buffer \/ v \in Elems(chan)
    PROVE  /\ Distinct(played') /\ Elems(played') = Elems(played) \cup {v}
<1>1. v \notin Elems(played)
  BY DEF Accounted, Apart
<1> QED BY <1>1, DistinctAppend, ElemsAppend DEF TypeOK, Accounted

(* The end of the stream's task gives up what it held and what waited. *)
LEMMA EndAccounts ==
    ASSUME Accounted, EndTask({}), UNCHANGED <<first, copies>>
    PROVE  Accounted'
<1>1. Arrived' = Arrived
  BY SameArrived
<1>2. /\ played' = played /\ buffer' = {} /\ chan' = <<>>
      /\ dropped' = dropped \cup buffer \cup Elems(chan)
  BY DEF EndTask
<1>3. Elems(chan') = {} /\ Distinct(chan') /\ Elems(played') = Elems(played)
  BY <1>2, ElemsEmpty DEF Distinct
<1> QED BY <1>1, <1>2, <1>3 DEF Accounted, Apart

(* A packet taken from the queue is played, held back or given up. *)
LEMMA ReceiveAccounts ==
    ASSUME TypeOK, Accounted, Receive
    PROVE  Accounted'
<1>1. Arrived' = Arrived
  BY SameArrived DEF Receive, txVars
<1>2. chan # <<>> /\ chan \in Seq(Packet)
  BY DEF Receive, TypeOK
<1>3. PICK v \in Packet : v = Head(chan)
  BY <1>2, HeadTail
<1>4. /\ Elems(chan) = {v} \cup Elems(Tail(chan)) /\ v \notin Elems(Tail(chan))
      /\ Distinct(Tail(chan))
  BY <1>2, <1>3, ElemsTail, DistinctTail DEF Accounted
<1>5. CASE EndTask({})
  BY <1>5, EndAccounts DEF Receive, txVars
<1>6. CASE Tick(v) /\ chan' = Tail(chan)
  <2>1. CASE \E o \in Oldest(buffer) : Play(o, Swapped(v, o))
    <3>1. PICK o \in Oldest(buffer) : Play(o, Swapped(v, o))
      BY <2>1
    <3>2. o \in buffer /\ o \in Packet
      BY <3>1, OldestIsHeld DEF TypeOK
    <3>3. played' = Append(played, o) /\ buffer' = (buffer \ {o}) \cup {v} /\ dropped' = dropped
      BY <3>1 DEF Play, Swapped
    <3>4. Distinct(played') /\ Elems(played') = Elems(played) \cup {o}
      BY <3>2, <3>3, PlayAccounts
    <3> QED BY <1>1, <1>4, <1>6, <3>2, <3>3, <3>4 DEF Accounted, Apart
  <2>2. CASE Play(v, buffer)
    <3>1. played' = Append(played, v) /\ buffer' = buffer /\ dropped' = dropped
      BY <2>2 DEF Play
    <3>2. Distinct(played') /\ Elems(played') = Elems(played) \cup {v}
      BY <1>4, <3>1, PlayAccounts
    <3> QED BY <1>1, <1>4, <1>6, <3>1, <3>2 DEF Accounted, Apart
  <2>3. CASE buffer' = buffer \cup {v} /\ UNCHANGED <<played, dropped>>
    BY <1>1, <1>4, <1>6, <2>3 DEF Accounted, Apart
  <2> QED BY <1>6, <2>1, <2>2, <2>3 DEF Tick
<1> QED BY <1>3, <1>5, <1>6 DEF Receive, Fails

(* A packet popped at a deadline is played. *)
LEMMA DeadlineAccounts ==
    ASSUME TypeOK, Accounted, Deadline
    PROVE  Accounted'
<1>1. UNCHANGED <<first, copies>>
  BY DEF Deadline, txVars
<1>2. Arrived' = Arrived
  BY <1>1, SameArrived
<1>3. CASE EndTask({})
  BY <1>1, <1>3, EndAccounts
<1>4. CASE \E v \in Oldest(buffer) : Play(v, buffer \ {v}) /\ chan' = chan
  <2>1. PICK v \in Oldest(buffer) : Play(v, buffer \ {v}) /\ chan' = chan
    BY <1>4
  <2>2. v \in buffer /\ v \in Packet
    BY <2>1, OldestIsHeld DEF TypeOK
  <2>3. played' = Append(played, v) /\ buffer' = buffer \ {v} /\ dropped' = dropped
    BY <2>1 DEF Play
  <2>4. Distinct(played') /\ Elems(played') = Elems(played) \cup {v}
    BY <2>2, <2>3, PlayAccounts
  <2> QED BY <1>2, <2>1, <2>2, <2>3, <2>4 DEF Accounted, Apart
<1> QED BY <1>3, <1>4 DEF Deadline, Fails

(* A copy that arrives waits in the stream's queue or is given up. *)
LEMMA DeliverAccounts ==
    ASSUME TypeOK, Accounted, NEW i \in 1..Len(sent), Deliver(i)
    PROVE  Accounted'
<1>1. i \in 1..Len(copies) /\ i \in Nat \ {0} /\ copies[i] \in Nat
  BY DEF TypeOK
<1>2. PICK p : p = Copy(i, copies[i] + 1)
  OBVIOUS
<1>3. p \in Packet
  <2>1. SeqOf(i) \in Seqs
    BY <1>1, SeqOfType DEF TypeOK
  <2>2. copies[i] + 1 \in Nat \ {0}
    BY <1>1
  <2> QED BY <1>1, <1>2, <2>1, <2>2 DEF Packet, Copy
<1>4. p \notin Arrived /\ Arrived' = Arrived \cup {p}
  <2>1. first' = first /\ copies' = [copies EXCEPT ![i] = copies[i] + 1]
    BY DEF Deliver, Room, txVars
  <2> QED BY <1>1, <1>2, <2>1, OneMoreCopy
<1>5. buffer' = buffer /\ played' = played
  BY DEF Deliver, Room, playVars
<1>6. CASE chan' = Append(chan, p) /\ dropped' = dropped
  <2>1. Elems(chan') = Elems(chan) \cup {p}
    BY <1>3, <1>6, ElemsAppend DEF TypeOK
  <2>2. p \notin Elems(chan)
    BY <1>4 DEF Accounted
  <2>3. Distinct(chan')
    BY <1>3, <1>6, <2>2, DistinctAppend DEF TypeOK, Accounted
  <2> QED BY <1>4, <1>5, <1>6, <2>1, <2>3 DEF Accounted, Apart
<1>7. CASE chan' = chan /\ dropped' = dropped \cup {p}
  BY <1>4, <1>5, <1>7 DEF Accounted, Apart
<1> QED BY <1>2, <1>6, <1>7 DEF Deliver, Room, Copy

(* Every step accounts for every packet. *)
LEMMA NextAccounted == TypeOK /\ Accounted /\ [Next]_vars => Accounted'
<1> SUFFICES ASSUME TypeOK, Accounted, [Next]_vars PROVE Accounted'
  OBVIOUS
<1>1. ASSUME Arrived' = Arrived, UNCHANGED <<chan, buffer, played, dropped>>
      PROVE  Accounted'
  BY <1>1 DEF Accounted, Apart, Distinct
<1>2. ASSUME \/ \E n \in Reads : ReadInput(n)
             \/ EncodeChunk \/ CallbackDone \/ SendFails \/ EncoderFails
             \/ TxFails \/ MicDead \/ DropStream \/ Remove \/ UNCHANGED vars
      PROVE  UNCHANGED <<first, copies, chan, buffer, played, dropped>>
  BY <1>2 DEF ReadInput, EncodeChunk, CallbackDone, SendFails, EncoderFails,
    CallbackPanics, TxFails, MicDead, DropStream, Remove, vars, txVars, playVars
<1>3. CASE SendVoice
  <2>1. UNCHANGED <<first, chan, buffer, played, dropped>>
    BY <1>3 DEF SendVoice, playVars
  <2>2. copies' = copies \/ copies' = Append(copies, 0)
    BY <1>3 DEF SendVoice
  <2> QED BY <1>1, <2>1, <2>2, SameArrived, SentHasNoCopies
<1>4. CASE Conceal
  <2>1. UNCHANGED <<first, copies>>
    BY <1>4 DEF Conceal, txVars
  <2>2. CASE EndTask({})
    BY <2>1, <2>2, EndAccounts
  <2>3. CASE UNCHANGED <<buffer, played, chan, dropped>>
    BY <1>1, <2>1, <2>3, SameArrived
  <2> QED BY <1>4, <2>2, <2>3 DEF Conceal, Fails
<1>5. CASE EndStream
  BY <1>5, EndAccounts DEF EndStream, txVars
<1> QED
  BY <1>1, <1>2, <1>3, <1>4, <1>5, SameArrived, ReceiveAccounts, DeadlineAccounts,
    DeliverAccounts DEF Next

(* Whatever the network delivers and however the stream ends, no packet that
   arrived vanishes from the queue or the buffer and none is played twice.  *)
THEOREM EveryPacketAccounted == Spec => []Accounted
<1>1. TypeOK /\ Accounted /\ [Next]_vars => TypeOK' /\ Accounted'
  BY NextTypeOK, NextAccounted
<1> QED BY <1>1, InitTypeOK, InitAccounted, PTL DEF Spec

-----------------------------------------------------------------------------
(* The microphone's frames *)

(* The chunks cut never run ahead of the frames read. *)
NotAhead == Len(encoded) * Period <= captured

(* A range of frames is a sequence of them. *)
LEMMA FramesAre ==
    ASSUME NEW a \in Nat, NEW b \in Nat, a <= b
    PROVE  /\ Frames(a, b) \in Seq(Nat) /\ Len(Frames(a, b)) = b - a
           /\ \A n \in 1..b - a : Frames(a, b)[n] = a + n
<1>1. b - a \in Nat
  OBVIOUS
<1>2. \A n \in 1..b - a : a + n \in Nat
  OBVIOUS
<1> QED BY <1>1, <1>2 DEF Frames

(* A sequence of frames is a range when each is the one after its predecessor. *)
LEMMA IsFrames ==
    ASSUME NEW a \in Nat, NEW b \in Nat, a <= b, NEW s \in Seq(Nat),
           Len(s) = b - a, \A n \in 1..b - a : s[n] = a + n
    PROVE  s = Frames(a, b)
<1>1. /\ Frames(a, b) \in Seq(Nat) /\ Len(Frames(a, b)) = b - a
      /\ \A n \in 1..b - a : Frames(a, b)[n] = a + n
  BY FramesAre
<1>2. PICK t : t = Frames(a, b)
  OBVIOUS
<1>3. t \in Seq(Nat) /\ Len(s) = Len(t) /\ \A n \in 1..Len(s) : s[n] = t[n]
  BY <1>1, <1>2
<1>4. s = t
  BY <1>3, SeqEqual
<1> QED BY <1>2, <1>4

(* What remains of the input, element by element. *)
LEMMA RestOfInput ==
    ASSUME NEW s \in Seq(Nat), NEW lo \in Nat, lo <= Len(s)
    PROVE  /\ SubSeq(s, lo + 1, Len(s)) \in Seq(Nat)
           /\ Len(SubSeq(s, lo + 1, Len(s))) = Len(s) - lo
           /\ \A n \in 1..Len(s) - lo : SubSeq(s, lo + 1, Len(s))[n] = s[lo + n]
<1>1. /\ Len(s) \in Nat /\ lo + 1 \in Int /\ Len(s) \in Int
      /\ \A k \in lo + 1..Len(s) : s[k] \in Nat
  OBVIOUS
<1>2. /\ SubSeq(s, lo + 1, Len(s)) \in Seq(Nat)
      /\ Len(SubSeq(s, lo + 1, Len(s))) =
            IF lo + 1 <= Len(s) THEN Len(s) - (lo + 1) + 1 ELSE 0
      /\ \A n \in 1..Len(s) - (lo + 1) + 1 :
            SubSeq(s, lo + 1, Len(s))[n] = s[lo + 1 + n - 1]
  BY <1>1, SubSeqProperties
<1>3. ASSUME NEW n \in 1..Len(s) - lo
      PROVE  SubSeq(s, lo + 1, Len(s))[n] = s[lo + n]
  <2>1. n \in 1..Len(s) - (lo + 1) + 1 /\ lo + 1 + n - 1 = lo + n
    BY <1>1
  <2> QED BY <1>2, <2>1
<1>4. Len(SubSeq(s, lo + 1, Len(s))) = Len(s) - lo
  BY <1>1, <1>2
<1> QED BY <1>2, <1>3, <1>4

(* A chunk of the input, element by element. *)
LEMMA ChunkOfInput ==
    ASSUME NEW s \in Seq(Nat), NEW lo \in Nat, lo + Period <= Len(s)
    PROVE  /\ SubSeq(s, lo + 1, lo + Period) \in Seq(Nat)
           /\ Len(SubSeq(s, lo + 1, lo + Period)) = Period
           /\ \A n \in 1..Period : SubSeq(s, lo + 1, lo + Period)[n] = s[lo + n]
<1>1. /\ Len(s) \in Nat /\ lo + 1 \in Int /\ lo + Period \in Int /\ Period \in Nat \ {0}
      /\ \A k \in lo + 1..lo + Period : s[k] \in Nat
  BY PeriodPositive
<1>2. /\ SubSeq(s, lo + 1, lo + Period) \in Seq(Nat)
      /\ Len(SubSeq(s, lo + 1, lo + Period)) =
            IF lo + 1 <= lo + Period THEN lo + Period - (lo + 1) + 1 ELSE 0
      /\ \A n \in 1..lo + Period - (lo + 1) + 1 :
            SubSeq(s, lo + 1, lo + Period)[n] = s[lo + 1 + n - 1]
  BY <1>1, SubSeqProperties
<1>3. lo + Period - (lo + 1) + 1 = Period /\ \A n \in Nat : lo + 1 + n - 1 = lo + n
  BY <1>1
<1>4. Len(SubSeq(s, lo + 1, lo + Period)) = Period
  BY <1>1, <1>2
<1> QED BY <1>1, <1>2, <1>3, <1>4

(* Cutting a chunk of frames off a range leaves the range after it. *)
LEMMA CutFrames ==
    ASSUME NEW s \in Seq(Nat), NEW lo \in Nat, NEW a \in Nat, NEW b \in Nat, a <= b,
           SubSeq(s, lo + 1, Len(s)) = Frames(a, b), lo + Period <= Len(s)
    PROVE  /\ SubSeq(s, lo + 1, lo + Period) = Frames(a, a + Period)
           /\ SubSeq(s, lo + Period + 1, Len(s)) = Frames(a + Period, b)
           /\ a + Period <= b
<1>1. Period \in Nat \ {0} /\ Len(s) \in Nat /\ lo <= Len(s)
  BY PeriodPositive
<1>2. /\ Len(s) - lo = b - a
      /\ \A n \in 1..Len(s) - lo : s[lo + n] = a + n
  <2>1. PICK r : r = SubSeq(s, lo + 1, Len(s))
    OBVIOUS
  <2>2. Len(r) = Len(s) - lo /\ \A n \in 1..Len(s) - lo : r[n] = s[lo + n]
    BY <1>1, <2>1, RestOfInput
  <2>3. Len(r) = b - a /\ \A n \in 1..b - a : r[n] = a + n
    BY <2>1, FramesAre
  <2> QED BY <2>2, <2>3
<1>3. a + Period <= b
  BY <1>1, <1>2
<1>4. SubSeq(s, lo + 1, lo + Period) = Frames(a, a + Period)
  <2>1. \A n \in 1..Period : n \in 1..Len(s) - lo
    BY <1>1
  <2>2. a + Period \in Nat /\ a + Period - a = Period /\ a <= a + Period
    BY <1>1
  <2>3. \A n \in 1..Period : SubSeq(s, lo + 1, lo + Period)[n] = a + n
    BY <1>2, <2>1, ChunkOfInput
  <2>4. PICK c : c = SubSeq(s, lo + 1, lo + Period)
    OBVIOUS
  <2>5. c \in Seq(Nat) /\ Len(c) = Period
    BY <2>4, ChunkOfInput
  <2>6. PICK e \in Nat : e = a + Period
    BY <2>2
  <2>7. a <= e /\ Len(c) = e - a /\ \A n \in 1..e - a : c[n] = a + n
    <3>1. e - a = Period /\ a <= e
      BY <1>1, <2>6
    <3>2. \A n \in 1..Period : c[n] = a + n
      BY <2>3, <2>4
    <3> QED BY <2>5, <3>1, <3>2
  <2>8. c = Frames(a, e)
    BY <2>5, <2>6, <2>7, IsFrames
  <2> QED BY <2>4, <2>6, <2>8
<1>5. SubSeq(s, lo + Period + 1, Len(s)) = Frames(a + Period, b)
  <2> DEFINE mid == lo + Period
             rest == SubSeq(s, mid + 1, Len(s))
  <2>1. mid \in Nat /\ mid <= Len(s) /\ a + Period \in Nat
    BY <1>1
  <2>2. /\ rest \in Seq(Nat) /\ Len(rest) = Len(s) - mid
        /\ \A n \in 1..Len(s) - mid : rest[n] = s[mid + n]
    <3> HIDE DEF mid
    <3> QED BY <2>1, RestOfInput
  <2>3. Len(s) - mid = b - (a + Period)
    BY <1>1, <1>2
  <2>4. ASSUME NEW n \in 1..b - (a + Period) PROVE rest[n] = a + Period + n
    <3>1. Period + n \in 1..Len(s) - lo /\ lo + (Period + n) = mid + n
          /\ a + (Period + n) = a + Period + n
      BY <1>1, <1>2
    <3>2. s[mid + n] = a + Period + n
      BY <1>2, <3>1
    <3> HIDE DEF mid, rest
    <3> QED BY <2>2, <2>3, <3>2
  <2>5. rest = Frames(a + Period, b)
    <3> HIDE DEF mid, rest
    <3> QED BY <1>3, <2>1, <2>2, <2>3, <2>4, IsFrames
  <2> QED BY <2>5
<1> QED BY <1>3, <1>4, <1>5

(* Frames read after a range prolong it. *)
LEMMA ProlongFrames ==
    ASSUME NEW a \in Nat, NEW b \in Nat, a <= b, NEW n \in Nat
    PROVE  Frames(a, b) \o [k \in 1..n |-> b + k] = Frames(a, b + n)
<1> DEFINE more == [k \in 1..n |-> b + k]
<1>1. more \in Seq(Nat) /\ Len(more) = n /\ \A k \in 1..n : more[k] = b + k
  OBVIOUS
<1>2. /\ Frames(a, b) \in Seq(Nat) /\ Len(Frames(a, b)) = b - a
      /\ \A k \in 1..b - a : Frames(a, b)[k] = a + k
  BY FramesAre
<1> HIDE DEF more
<1>3. PICK f : f = Frames(a, b)
  OBVIOUS
<1>4. f \in Seq(Nat) /\ Len(f) = b - a /\ Len(more) = n
  BY <1>1, <1>2, <1>3
<1>5. /\ f \o more \in Seq(Nat) /\ Len(f \o more) = Len(f) + Len(more)
      /\ \A k \in 1..Len(f) + Len(more) :
            (f \o more)[k] = IF k <= Len(f) THEN f[k] ELSE more[k - Len(f)]
  BY <1>1, <1>4, ConcatProperties
<1>6. /\ f \o more \in Seq(Nat) /\ Len(f \o more) = b - a + n
      /\ \A k \in 1..b - a + n :
            (f \o more)[k] = IF k <= b - a THEN f[k] ELSE more[k - (b - a)]
  BY <1>4, <1>5
<1>7. b + n \in Nat /\ a <= b + n /\ b + n - a = b - a + n
  OBVIOUS
<1>8. ASSUME NEW k \in 1..b + n - a PROVE (f \o more)[k] = a + k
  <2>1. CASE k <= b - a
    BY <1>2, <1>6, <1>7, <1>3, <2>1
  <2>2. CASE ~(k <= b - a)
    <3>1. k - (b - a) \in 1..n /\ b + (k - (b - a)) = a + k
      BY <2>2
    <3>2. (f \o more)[k] = more[k - (b - a)]
      BY <1>6, <1>7, <2>2
    <3> QED BY <1>1, <3>1, <3>2
  <2> QED BY <2>1, <2>2
<1>9. PICK e \in Nat : e = b + n
  BY <1>7
<1>10. a <= e /\ Len(f \o more) = e - a /\ \A k \in 1..e - a : (f \o more)[k] = a + k
  BY <1>6, <1>7, <1>8, <1>9
<1>11. f \o more = Frames(a, e)
  BY <1>6, <1>9, <1>10, IsFrames
<1> QED BY <1>3, <1>9, <1>11 DEF more

(* Moving the first of the queued chunks to those sent keeps their order. *)
LEMMA MoveFirst ==
    ASSUME NEW S, NEW s \in Seq(S), NEW r \in Seq(S), r # <<>>
    PROVE  Append(s, Head(r)) \o Tail(r) = s \o r
<1>1. /\ Head(r) \in S /\ Head(r) = r[1] /\ Tail(r) \in Seq(S)
      /\ Len(r) \in Nat \ {0} /\ Len(Tail(r)) = Len(r) - 1
      /\ \A n \in 1..Len(Tail(r)) : Tail(r)[n] = r[n + 1]
  BY HeadTail
<1>2. PICK h \in S : h = Head(r)
  BY <1>1
<1>3. PICK t \in Seq(S) : t = Tail(r)
  BY <1>1
<1>4. PICK q \in Seq(S) : q = Append(s, h)
  BY Appended
<1>5. /\ Len(s) \in Nat /\ Len(q) = Len(s) + 1 /\ q[Len(s) + 1] = h
      /\ \A n \in 1..Len(s) : q[n] = s[n]
  BY <1>4, Appended
<1>6. /\ q \o t \in Seq(S) /\ Len(q \o t) = Len(q) + Len(t)
      /\ \A n \in 1..Len(q) + Len(t) :
            (q \o t)[n] = IF n <= Len(q) THEN q[n] ELSE t[n - Len(q)]
  BY ConcatProperties
<1>7. /\ s \o r \in Seq(S) /\ Len(s \o r) = Len(s) + Len(r)
      /\ \A n \in 1..Len(s) + Len(r) :
            (s \o r)[n] = IF n <= Len(s) THEN s[n] ELSE r[n - Len(s)]
  BY ConcatProperties
<1>8. Len(q) + Len(t) = Len(s) + Len(r)
  BY <1>1, <1>3, <1>5
<1>9. ASSUME NEW n \in 1..Len(q) + Len(t) PROVE (q \o t)[n] = (s \o r)[n]
  <2>1. n \in 1..Len(s) + Len(r)
    BY <1>8
  <2>2. CASE n <= Len(s)
    <3>1. n \in 1..Len(s) /\ n <= Len(q)
      BY <1>5, <2>2
    <3> QED BY <1>5, <1>6, <1>7, <2>1, <2>2, <3>1
  <2>3. CASE n = Len(s) + 1
    <3>1. n <= Len(q) /\ ~(n <= Len(s)) /\ n - Len(s) = 1
      BY <1>5, <2>3
    <3> QED BY <1>1, <1>2, <1>5, <1>6, <1>7, <2>1, <2>3, <3>1
  <2>4. CASE n > Len(s) + 1
    <3>1. /\ ~(n <= Len(q)) /\ ~(n <= Len(s)) /\ n - Len(q) \in 1..Len(t)
          /\ n - Len(q) + 1 = n - Len(s)
      BY <1>1, <1>3, <1>5, <2>4
    <3>2. t[n - Len(q)] = r[n - Len(s)]
      BY <1>1, <1>3, <3>1
    <3> QED BY <1>6, <1>7, <2>1, <3>1, <3>2
  <2> QED BY <1>1, <1>3, <1>5, <2>2, <2>3, <2>4
<1>10. PICK y \in Seq(S) : y = q \o t
  BY <1>6
<1>11. PICK z \in Seq(S) : z = s \o r
  BY <1>7
<1>12. Len(y) = Len(z) /\ \A n \in 1..Len(y) : y[n] = z[n]
  BY <1>6, <1>7, <1>8, <1>9, <1>10, <1>11
<1>13. y = z
  BY <1>12, SeqEqual
<1> QED BY <1>2, <1>3, <1>4, <1>10, <1>11, <1>13

(* Appending to the queue appends to the queue with what was sent before it. *)
LEMMA AppendToQueue ==
    ASSUME NEW S, NEW s \in Seq(S), NEW r \in Seq(S), NEW x \in S
    PROVE  s \o Append(r, x) = Append(s \o r, x)
<1>1. PICK o \in Seq(S) : o = <<x>>
  <2>1. <<x>> \in Seq(S)
    OBVIOUS
  <2> QED BY <2>1, Zenon
<1>2. Append(r, x) = r \o o
  BY <1>1, AppendIsConcat
<1>3. s \o r \in Seq(S)
  OBVIOUS
<1>4. Append(s \o r, x) = (s \o r) \o o
  BY <1>1, <1>3, AppendIsConcat
<1>5. (s \o r) \o o = s \o (r \o o)
  BY ConcatAssociative
<1> QED BY <1>2, <1>4, <1>5, Zenon

(* The microphone's invariant *)
MicExact == ChunksExact /\ NotAhead

(* At the start nothing has been read. *)
LEMMA InitMicExact == Init => MicExact
<1> SUFFICES ASSUME Init PROVE MicExact
  OBVIOUS
<1>1. Len(<<>>) = 0 /\ 0 * Period = 0
  BY PeriodPositive
<1>2. Frames(0, 0) = <<>>
  BY DEF Frames
<1>3. SubSeq(<<>>, 1, 0) = <<>> /\ <<>> \o <<>> = <<>>
  BY SubSeqEmpty
<1>4. /\ input = <<>> /\ captured = 0 /\ encoded = <<>> /\ done = 0
      /\ sent = <<>> /\ rec = <<>>
  BY DEF Init
<1>5. /\ Len(encoded) * Period = 0 /\ done * Period + 1 = 1 /\ Len(input) = 0
      /\ Len(encoded) = 0
  BY <1>1, <1>4
<1>6. SubSeq(input, done * Period + 1, Len(input)) = Frames(Len(encoded) * Period, captured)
  BY <1>2, <1>3, <1>4, <1>5, Zenon
<1>7. \A k \in 1..Len(encoded) : encoded[k] = Frames((k - 1) * Period, k * Period)
  BY <1>5
<1>8. NotAhead
  BY <1>4, <1>5 DEF NotAhead
<1> QED BY <1>3, <1>4, <1>6, <1>7, <1>8 DEF MicExact, ChunksExact

(* Reading input adds its frames to what is kept for the next chunk. *)
LEMMA ReadExact ==
    ASSUME IInv, MicExact, NEW n \in Reads, ReadInput(n)
    PROVE  MicExact'
<1>1. n \in Nat /\ captured \in Nat /\ input \in Seq(Nat) /\ encoded \in Seq(Seq(Nat))
  BY ReadsNat DEF IInv, TypeOK
<1>2. done = 0 /\ done' = 0 /\ UNCHANGED <<encoded, tx, mute, sent, rec>>
  BY DEF ReadInput, IInv, IdleKeepsAll, txVars
<1>3. PICK a \in Nat : a = Len(encoded) * Period
  BY <1>1, PeriodTimes
<1>4. a <= captured
  BY <1>3 DEF MicExact, NotAhead
<1>5. 0 * Period + 1 = 1
  BY PeriodPositive
<1>6. input = Frames(a, captured)
  BY <1>1, <1>2, <1>3, <1>5, SubSeqFull DEF MicExact, ChunksExact
<1>7. captured' = captured + n /\ input' = Frames(a, captured')
  BY <1>1, <1>4, <1>6, ProlongFrames DEF ReadInput
<1>8. captured' \in Nat /\ a <= captured'
  BY <1>1, <1>4, <1>7
<1>9. input' \in Seq(Nat)
  BY <1>7, <1>8, FramesAre
<1>10. SubSeq(input', done' * Period + 1, Len(input')) = Frames(Len(encoded') * Period, captured')
  BY <1>2, <1>3, <1>5, <1>7, <1>9, SubSeqFull
<1> QED BY <1>2, <1>3, <1>8, <1>10 DEF MicExact, ChunksExact, NotAhead

(* A chunk takes the next frames. *)
LEMMA EncodeExact ==
    ASSUME TypeOK, MicExact, EncodeChunk
    PROVE  MicExact'
<1>1. captured \in Nat /\ input \in Seq(Nat) /\ encoded \in Seq(Seq(Nat)) /\ done \in Nat
  BY DEF TypeOK
<1>2. PICK e \in Nat : e = Len(encoded)
  BY <1>1
<1>3. PICK a \in Nat : a = e * Period
  BY PeriodTimes
<1>4. PICK lo \in Nat : lo = done * Period
  BY <1>1, PeriodTimes
<1>5. (e + 1) * Period = a + Period /\ (done + 1) * Period = lo + Period
  BY <1>1, <1>3, <1>4, PeriodTimes
<1>6. lo + Period <= Len(input)
  BY <1>5 DEF EncodeChunk, Whole
<1>7. SubSeq(input, lo + 1, Len(input)) = Frames(a, captured) /\ a <= captured
  BY <1>2, <1>3, <1>4 DEF MicExact, ChunksExact, NotAhead
<1>8. /\ SubSeq(input, lo + 1, lo + Period) = Frames(a, a + Period)
      /\ SubSeq(input, lo + Period + 1, Len(input)) = Frames(a + Period, captured)
      /\ a + Period <= captured
  BY <1>1, <1>6, <1>7, CutFrames
<1>9. Chunk(done) = Frames(a, a + Period)
  BY <1>4, <1>5, <1>8 DEF Chunk
<1>10. PICK c \in Seq(Nat) : c = Chunk(done)
  BY <1>1, CutType DEF EncodeChunk
<1>11. /\ encoded' = Append(encoded, c) /\ rec' = Append(rec, c) /\ done' = done + 1
       /\ UNCHANGED <<captured, input, tx, mute, sent>>
  BY <1>10 DEF EncodeChunk, txVars
<1>12. /\ Len(encoded') = e + 1 /\ encoded'[e + 1] = c
       /\ \A k \in 1..e : encoded'[k] = encoded[k]
  BY <1>1, <1>2, <1>11, Appended
<1>13. ASSUME NEW k \in 1..Len(encoded')
       PROVE  encoded'[k] = Frames((k - 1) * Period, k * Period)
  <2>1. CASE k \in 1..e
    BY <1>2, <1>12, <2>1 DEF MicExact, ChunksExact
  <2>2. CASE k = e + 1
    <3>1. k - 1 = e
      BY <2>2
    <3> QED BY <1>3, <1>5, <1>9, <1>10, <1>12, <2>2, <3>1
  <2> QED BY <1>12, <2>1, <2>2
<1>14. SubSeq(input', done' * Period + 1, Len(input')) = Frames(Len(encoded') * Period, captured')
  BY <1>5, <1>8, <1>11, <1>12
<1>15. tx' = "running" /\ ~mute' => sent' \o rec' = encoded'
  <2> SUFFICES ASSUME tx = "running", ~mute PROVE sent \o Append(rec, c) = Append(encoded, c)
    BY <1>11
  <2>1. sent \o rec = encoded
    BY DEF MicExact, ChunksExact
  <2>2. sent \in Seq(Seq(Nat)) /\ rec \in Seq(Seq(Nat))
    BY DEF TypeOK
  <2>3. sent \o Append(rec, c) = Append(sent \o rec, c)
    BY <2>2, AppendToQueue
  <2> QED BY <2>1, <2>3, Zenon
<1>16. NotAhead'
  BY <1>5, <1>8, <1>11, <1>12 DEF NotAhead
<1> QED BY <1>13, <1>14, <1>15, <1>16 DEF MicExact, ChunksExact

(* The end of the callback keeps what was not cut. *)
LEMMA DoneExact ==
    ASSUME TypeOK, MicExact, CallbackDone
    PROVE  MicExact'
<1>1. Remainder \in Seq(Nat)
  BY CutType DEF TypeOK
<1>2. /\ input' = Remainder /\ done' = 0
      /\ UNCHANGED <<captured, encoded, tx, mute, sent, rec>>
  BY DEF CallbackDone, txVars
<1>3. input' = Frames(Len(encoded) * Period, captured)
  BY <1>2 DEF MicExact, ChunksExact, Remainder
<1>4. 0 * Period + 1 = 1
  BY PeriodPositive
<1>5. SubSeq(input', done' * Period + 1, Len(input')) = input'
  BY <1>1, <1>2, <1>4, SubSeqFull
<1> QED BY <1>2, <1>3, <1>5 DEF MicExact, ChunksExact, NotAhead

(* A chunk sent is the first of those queued. *)
LEMMA SendExact ==
    ASSUME TypeOK, MicExact, SendVoice
    PROVE  MicExact'
<1>1. UNCHANGED <<captured, input, done, encoded, tx, mute>>
  BY DEF SendVoice, micVars
<1>2. tx' = "running" /\ ~mute' => sent' \o rec' = encoded'
  <2> SUFFICES ASSUME tx = "running", ~mute
               PROVE  Append(sent, Head(rec)) \o Tail(rec) = encoded
    BY <1>1 DEF SendVoice
  <2>1. sent \o rec = encoded
    BY DEF MicExact, ChunksExact
  <2>2. sent \in Seq(Seq(Nat)) /\ rec \in Seq(Seq(Nat)) /\ rec # <<>>
    BY DEF TypeOK, SendVoice
  <2> QED BY <2>1, <2>2, MoveFirst
<1> QED BY <1>1, <1>2 DEF MicExact, ChunksExact, NotAhead

(* Every step keeps the frames exact. *)
LEMMA NextMicExact == IInv /\ MicExact /\ [Next]_vars => MicExact'
<1> SUFFICES ASSUME IInv, MicExact, [Next]_vars PROVE MicExact'
  OBVIOUS
<1>1. TypeOK
  BY DEF IInv
<1>2. ASSUME UNCHANGED <<captured, input, done, encoded, rec, tx, mute, sent>>
      PROVE  MicExact'
  BY <1>2 DEF MicExact, ChunksExact, NotAhead
<1>3. ASSUME TxFails \/ MicDead PROVE MicExact'
  BY <1>3 DEF TxFails, MicDead, micVars, MicExact, ChunksExact, NotAhead
<1>4. ASSUME \/ SendFails \/ EncoderFails \/ DropStream
             \/ \E i \in 1..Len(sent) : Deliver(i)
             \/ Remove \/ Receive \/ Deadline \/ Conceal \/ EndStream \/ UNCHANGED vars
      PROVE  UNCHANGED <<captured, input, done, encoded, rec, tx, mute, sent>>
  BY <1>4 DEF SendFails, EncoderFails, CallbackPanics, DropStream, Deliver, Room, Remove,
    Receive, Deadline, Conceal, EndStream, vars, micVars, txVars
<1> QED
  BY <1>1, <1>2, <1>3, <1>4, ReadExact, EncodeExact, DoneExact, SendExact DEF Next

(* Every frame the device brings is sent once and in order, in chunks of a
   period, for reads of any sizes and wherever they fall.                   *)
THEOREM FramesExact == Spec => []ChunksExact
<1>1. IInv /\ MicExact /\ [Next]_vars => IInv' /\ MicExact'
  BY NextIInv, NextMicExact
<1>2. MicExact => ChunksExact
  BY DEF MicExact
<1> QED BY <1>1, <1>2, InitIInv, InitMicExact, PTL DEF Spec

-----------------------------------------------------------------------------
(* VoiceClient: what messages say *)

Talk == ServerMsg \cup VoiceEvent

(* A message that names a source names one of the others, or this client; the
   gateway's never name this client.                                         *)
LEMMA Spoken ==
    ASSUME NEW m \in Talk
    PROVE  /\ m.type \in {"joined", "present", "left"} => m.source \in Sources \cup {Own}
           /\ m.present \subseteq Sources \cup {Own}
           /\ m \in ServerMsg /\ m.type \in {"joined", "left"} =>
                 m \in VoiceEvent /\ m.source \in Sources
           /\ m \in VoiceEvent => m.type \in {"joined", "present", "left"}
           /\ m \in ServerMsg => m.type # "present"
<1>1. ASSUME NEW t, NEW s, NEW p
      PROVE  /\ Msg(t, s, p).type = t /\ Msg(t, s, p).source = s
             /\ Msg(t, s, p).present = p
  BY DEF Msg
<1>2. CASE m \in VoiceEvent
  <2>1. PICK t \in {"present", "joined", "left"}, s \in Sources \cup {Own} :
           m = Msg(t, s, {})
    BY <1>2 DEF VoiceEvent
  <2>2. ASSUME m \in ServerMsg PROVE t # "present" /\ s \in Sources
    <3>1. CASE \E u \in {"init", "udp", "joinerror", "disconnected"} : m = Plain(u)
      BY <1>1, <2>1, <3>1 DEF Plain
    <3>2. CASE \E P \in SUBSET Sources : m = Msg("ready", None, P \cup {Own})
      BY <1>1, <2>1, <3>2
    <3>3. CASE \E u \in {"joined", "left"}, r \in Sources : m = Msg(u, r, {})
      BY <1>1, <2>1, <3>3
    <3> QED BY <2>2, <3>1, <3>2, <3>3 DEF ServerMsg, Notices, Listings, Announcements
  <2> QED BY <1>1, <1>2, <2>1, <2>2
<1>3. CASE m \in ServerMsg
  <2>1. CASE \E t \in {"init", "udp", "joinerror", "disconnected"} : m = Plain(t)
    <3>1. m \notin VoiceEvent
      BY <1>1, <2>1 DEF Plain, VoiceEvent
    <3> QED BY <1>1, <2>1, <3>1 DEF Plain
  <2>2. CASE \E P \in SUBSET Sources : m = Msg("ready", None, P \cup {Own})
    <3>1. m \notin VoiceEvent
      BY <1>1, <2>2 DEF VoiceEvent
    <3> QED BY <1>1, <2>2, <3>1
  <2>3. CASE \E t \in {"joined", "left"}, s \in Sources : m = Msg(t, s, {})
    <3>1. PICK t \in {"joined", "left"}, s \in Sources : m = Msg(t, s, {})
      BY <2>3
    <3>2. m \in VoiceEvent
      BY <3>1 DEF VoiceEvent
    <3> QED BY <1>1, <3>1, <3>2
  <2> QED BY <1>3, <2>1, <2>2, <2>3 DEF ServerMsg, Notices, Listings, Announcements
<1> QED BY <1>2, <1>3 DEF Talk

(* What the gateway may say *)
LEMMA SaysPlain ==
    ASSUME NEW t \in {"init", "udp", "joinerror", "disconnected"}
    PROVE  Plain(t) \in ServerMsg /\ Plain(t).type = t
<1>1. Plain(t) \in ServerMsg
  BY DEF ServerMsg, Notices
<1> QED BY <1>1 DEF Plain, Msg

(* A listing says who is present, this client left out. *)
LEMMA SaysReady ==
    ASSUME NEW P \in SUBSET Sources
    PROVE  LET m == Msg("ready", None, P \cup {Own})
           IN  m \in ServerMsg /\ m.type = "ready" /\ m.present = P \cup {Own}
<1> DEFINE m == Msg("ready", None, P \cup {Own})
<1>1. m \in Listings
  BY Zenon DEF Listings
<1>2. m \in ServerMsg
  BY <1>1 DEF ServerMsg
<1> QED BY <1>2 DEF Msg

(* A join or a leave says it of one source. *)
LEMMA SaysEvent ==
    ASSUME NEW t \in {"joined", "left"}, NEW s \in Sources
    PROVE  Msg(t, s, {}) \in ServerMsg /\ Msg(t, s, {}).type = t
<1>1. Msg(t, s, {}) \in ServerMsg
  BY DEF ServerMsg, Announcements
<1> QED BY <1>1 DEF Msg

(* Whoever takes a message knows what it says, and else what was known. *)
LEMMA AppliedIs ==
    ASSUME NEW known, NEW m \in Talk, NEW s
    PROVE  /\ s \in Applied(known, m) <=>
                 IF Tells(m, s) THEN AsPresent(m, s) ELSE s \in known
           /\ Tells(m, s) /\ AsPresent(m, s) => s \in Sources \cup {Own}
<1>1. CASE m.type = "ready"
  BY <1>1, Spoken DEF Applied, Tells, AsPresent
<1>2. CASE m.type \in {"joined", "present"}
  BY <1>2, Spoken DEF Applied, Tells, AsPresent
<1>3. CASE m.type = "left"
  BY <1>3, Spoken DEF Applied, Tells, AsPresent
<1>4. CASE m.type \notin {"ready", "joined", "present", "left"}
  BY <1>4 DEF Applied, Tells, AsPresent
<1> QED BY <1>1, <1>2, <1>3, <1>4

(* Nobody but other clients becomes known. *)
LEMMA AppliedType ==
    ASSUME NEW known \in SUBSET Sources, NEW m \in Talk,
           m \in ServerMsg \/ m.source # Own
    PROVE  Applied(known, m) \subseteq Sources
<1> SUFFICES ASSUME NEW s \in Applied(known, m) PROVE s \in Sources
  OBVIOUS
<1>1. /\ IF Tells(m, s) THEN AsPresent(m, s) ELSE s \in known
      /\ Tells(m, s) /\ AsPresent(m, s) => s \in Sources \cup {Own}
  BY AppliedIs
<1>2. Tells(m, s) /\ AsPresent(m, s) => s # Own
  BY Spoken, OwnIsOwn DEF Tells, AsPresent, Talk
<1> QED BY <1>1, <1>2

-----------------------------------------------------------------------------
(* What becomes known as the messages of a queue are taken *)

(* Without messages, what is known already. *)
LEMMA AfterNothing == \A known : After(known, <<>>) = known
BY DEF After, Silent

(* A message more is taken last. *)
LEMMA AfterAppend ==
    ASSUME NEW known, NEW q \in Seq(Talk), NEW m \in Talk
    PROVE  After(known, Append(q, m)) = Applied(After(known, q), m)
<1> DEFINE p == Append(q, m)
<1>1. /\ Len(q) \in Nat /\ Len(p) = Len(q) + 1 /\ p[Len(q) + 1] = m
      /\ \A n \in 1..Len(q) : p[n] = q[n]
  OBVIOUS
<1> HIDE DEF p
<1>2. ASSUME NEW n \in 1..(Len(q) + 1), NEW s
      PROVE  Silent(p, n, s) <=> ~Tells(m, s) /\ Silent(q, n, s)
  <2>1. \A k \in n..Len(p) : k = Len(q) + 1 \/ k \in n..Len(q)
    BY <1>1
  <2>2. Len(q) + 1 \in n..Len(p) /\ \A k \in n..Len(q) : k \in n..Len(p)
    BY <1>1
  <2>3. \A k \in n..Len(q) : p[k] = q[k]
    BY <1>1
  <2> QED BY <1>1, <2>1, <2>2, <2>3 DEF Silent
<1>3. \A s : Silent(p, Len(p) + 1, s)
  BY <1>1 DEF Silent
<1>4. 1 \in 1..(Len(q) + 1) /\ \A n \in 1..Len(q) : n + 1 \in 1..(Len(q) + 1)
  BY <1>1
<1>5. ASSUME NEW s PROVE s \in After(known, p) <=> s \in Applied(After(known, q), m)
  <2>1. CASE Tells(m, s)
    <3>1. /\ ~Silent(p, 1, s) /\ \A n \in 1..Len(q) : ~Silent(p, n + 1, s)
      BY <1>2, <1>4, <2>1
    <3>2. \A n \in 1..Len(p) : n \in 1..Len(q) \/ (n = Len(p) /\ n = Len(q) + 1)
      BY <1>1
    <3>3. Len(p) \in 1..Len(p)
      BY <1>1
    <3>4. s \in After(known, p) <=> s \in Sources \cup {Own} /\ AsPresent(m, s)
      BY <1>1, <1>3, <2>1, <3>1, <3>2, <3>3 DEF After
    <3> QED BY <2>1, <3>4, AppliedIs
  <2>2. CASE ~Tells(m, s)
    <3>1. Silent(p, 1, s) <=> Silent(q, 1, s)
      BY <1>2, <1>4, <2>2
    <3>2. \A n \in 1..Len(q) : Silent(p, n + 1, s) <=> Silent(q, n + 1, s)
      BY <1>2, <1>4, <2>2
    <3>3. \A n \in 1..Len(p) : n \in 1..Len(q) \/ p[n] = m
      BY <1>1
    <3>4. \A n \in 1..Len(q) : n \in 1..Len(p)
      BY <1>1
    <3>5. s \in After(known, p) <=> s \in After(known, q)
      BY <1>1, <2>2, <3>1, <3>2, <3>3, <3>4 DEF After
    <3> QED BY <2>2, <3>5, AppliedIs
  <2> QED BY <2>1, <2>2
<1> QED BY <1>5 DEF p

(* The message at the head is taken first. *)
LEMMA AfterTail ==
    ASSUME NEW known, NEW q \in Seq(Talk), q # <<>>
    PROVE  After(Applied(known, Head(q)), Tail(q)) = After(known, q)
<1> DEFINE m == Head(q)
           p == Tail(q)
<1>1. /\ Len(q) \in Nat \ {0} /\ Len(p) = Len(q) - 1 /\ q[1] = m /\ m \in Talk
      /\ \A n \in 1..Len(p) : p[n] = q[n + 1]
  OBVIOUS
<1> HIDE DEF m, p
<1>2. ASSUME NEW n \in 1..Len(q), NEW s PROVE Silent(p, n, s) <=> Silent(q, n + 1, s)
  <2>1. ASSUME Silent(p, n, s), NEW k \in (n + 1)..Len(q) PROVE ~Tells(q[k], s)
    <3>1. k - 1 \in n..Len(p) /\ k - 1 \in 1..Len(p) /\ q[k] = p[k - 1]
      BY <1>1
    <3> QED BY <2>1, <3>1 DEF Silent
  <2>2. ASSUME Silent(q, n + 1, s), NEW k \in n..Len(p) PROVE ~Tells(p[k], s)
    <3>1. k + 1 \in (n + 1)..Len(q) /\ p[k] = q[k + 1]
      BY <1>1
    <3> QED BY <2>2, <3>1 DEF Silent
  <2> QED BY <2>1, <2>2 DEF Silent
<1>3. ASSUME NEW s PROVE Silent(q, 1, s) <=> ~Tells(m, s) /\ Silent(p, 1, s)
  <2>1. 1 \in 1..Len(q) /\ (Silent(p, 1, s) <=> Silent(q, 1 + 1, s))
    BY <1>1, <1>2
  <2>2. \A k \in 1..Len(q) : k = 1 \/ k \in (1 + 1)..Len(q)
    BY <1>1
  <2>3. \A k \in (1 + 1)..Len(q) : k \in 1..Len(q)
    BY <1>1
  <2> QED BY <1>1, <2>1, <2>2, <2>3 DEF Silent
<1>4. ASSUME NEW s
      PROVE  s \in After(Applied(known, m), p) <=> s \in After(known, q)
  <2> DEFINE Last(r, n) == Tells(r[n], s) /\ AsPresent(r[n], s) /\ Silent(r, n + 1, s)
  <2>1. ASSUME NEW n \in 1..Len(p) PROVE Last(p, n) <=> Last(q, n + 1)
    <3>1. n + 1 \in 1..Len(q) /\ p[n] = q[n + 1]
      BY <1>1
    <3> QED BY <1>2, <3>1
  <2>2. Last(q, 1) <=> Tells(m, s) /\ AsPresent(m, s) /\ Silent(p, 1, s)
    <3>1. 1 \in 1..Len(q)
      BY <1>1
    <3> QED BY <1>1, <1>2, <3>1
  <2> HIDE DEF Last
  <2>3. (\E n \in 1..Len(q) : Last(q, n)) <=>
           Last(q, 1) \/ \E n \in 1..Len(p) : Last(p, n)
    <3>1. \A n \in 1..Len(q) : n = 1 \/ (n - 1 \in 1..Len(p) /\ n = (n - 1) + 1)
      BY <1>1
    <3>2. 1 \in 1..Len(q) /\ \A n \in 1..Len(p) : n + 1 \in 1..Len(q)
      BY <1>1
    <3>3. ASSUME NEW n \in 1..Len(q), Last(q, n)
          PROVE  Last(q, 1) \/ \E k \in 1..Len(p) : Last(p, k)
      BY <2>1, <3>1, <3>3
    <3> QED BY <2>1, <3>2, <3>3
  <2>4. /\ s \in After(known, q) <=>
              \/ s \in known /\ Silent(q, 1, s)
              \/ s \in Sources \cup {Own} /\ \E n \in 1..Len(q) : Last(q, n)
        /\ s \in After(Applied(known, m), p) <=>
              \/ s \in Applied(known, m) /\ Silent(p, 1, s)
              \/ s \in Sources \cup {Own} /\ \E n \in 1..Len(p) : Last(p, n)
    BY DEF After, Last
  <2>5. /\ s \in Applied(known, m) <=>
              IF Tells(m, s) THEN AsPresent(m, s) ELSE s \in known
        /\ Tells(m, s) /\ AsPresent(m, s) => s \in Sources \cup {Own}
    BY <1>1, AppliedIs
  <2> QED BY <1>3, <2>2, <2>3, <2>4, <2>5
<1> QED BY <1>4 DEF m, p

-----------------------------------------------------------------------------
(* What becomes known as main hands on events *)

(* With nothing in hand nothing more is known. *)
LEMMA HandedNone == \A known : Handed(known, {}) = known
BY DEF Handed

(* One that is handed on is taken first: no other is about its source. *)
LEMMA HandedFirst ==
    ASSUME NEW known, NEW h \in SUBSET VoiceEvent, NEW e \in h,
           \A f, g \in h : f.source = g.source => f = g
    PROVE  Handed(Applied(known, e), h \ {e}) = Handed(known, h)
<1> SUFFICES ASSUME NEW s
             PROVE  s \in Handed(Applied(known, e), h \ {e}) <=> s \in Handed(known, h)
  OBVIOUS
<1>1. e.type \in {"joined", "present", "left"} /\ e \in Talk
  BY Spoken DEF Talk
<1>2. s \in Applied(known, e) <=> IF s = e.source THEN e.type # "left" ELSE s \in known
  BY <1>1, AppliedIs DEF Tells, AsPresent
<1>3. CASE s = e.source
  <2>1. \A f \in h : f.source = s => f = e
    BY <1>3
  <2> QED BY <1>2, <1>3, <2>1 DEF Handed
<1>4. CASE s # e.source
  BY <1>2, <1>4 DEF Handed
<1> QED BY <1>3, <1>4

(* A single one is taken like any message. *)
LEMMA HandedOne ==
    ASSUME NEW known, NEW e \in VoiceEvent
    PROVE  Handed(known, {e}) = Applied(known, e)
<1>1. {e} \in SUBSET VoiceEvent /\ e \in {e} /\ {e} \ {e} = {}
  OBVIOUS
<1>2. \A f, g \in {e} : f.source = g.source => f = g
  OBVIOUS
<1> QED BY <1>1, <1>2, HandedFirst, HandedNone

(* The listing is handed on one by one. *)
LEMMA HandedListing ==
    ASSUME NEW P
    PROVE  Handed({}, {Msg("present", s, {}) : s \in P}) = P
<1> DEFINE h == {Msg("present", s, {}) : s \in P}
<1>1. \A e \in h : e.type # "left" /\ e.source \in P
  BY DEF Msg
<1>2. ASSUME NEW s \in P PROVE \E e \in h : e.source = s
  <2>1. Msg("present", s, {}) \in h
    OBVIOUS
  <2> QED BY <2>1 DEF Msg
<1> HIDE DEF h
<1>3. {e \in h : e.type # "left"} = h
  BY <1>1
<1>4. {e.source : e \in h} = P
  BY <1>1, <1>2
<1> QED BY <1>3, <1>4 DEF Handed, h

-----------------------------------------------------------------------------
(* Types *)

(* A queue that never holds more than n messages of S *)
Queue(q, S, n) == q \in Seq(S) /\ Len(q) <= n

(* Taking the first message leaves a queue of its kind. *)
LEMMA QueueTail ==
    ASSUME NEW S, NEW n \in Nat, NEW q, Queue(q, S, n), q # <<>>
    PROVE  Queue(Tail(q), S, n) /\ Head(q) \in S
<1>1. q \in Seq(S)
  BY DEF Queue
<1> QED BY <1>1, HeadTail DEF Queue

(* So does adding one where there is room. *)
LEMMA QueueAppend ==
    ASSUME NEW S, NEW n \in Nat, NEW q, Queue(q, S, n), Len(q) < n, NEW x \in S
    PROVE  Queue(Append(q, x), S, n)
<1>1. q \in Seq(S)
  BY DEF Queue
<1> QED BY <1>1, Appended DEF Queue

(* The conjuncts of ClientTypeOK, by kind *)
QueueTypes ==
    /\ Queue(out, ClientMsg, OutSlots) /\ Queue(inc, ServerMsg, IncSlots)
    /\ Queue(voiceq, VoiceEvent, VoiceSlots)
    /\ toServer \in Seq(ClientMsg) /\ fromServer \in Seq(ServerMsg)
NumberTypes ==
    /\ attempt \in 0..MaxAttempts /\ asked \in Nat /\ answers \in Nat
    /\ copied \in 0..MaxCopies
    /\ events \in 0..MaxEvents
SetTypes ==
    /\ hand \subseteq VoiceEvent /\ told \subseteq Sources /\ current \subseteq Sources
    /\ broken \subseteq current
    /\ held \in ServerMsg \cup {None}
StateTypes ==
    /\ main \in Handshakes \cup {"feed", "loop", "leave", "stop", "stopping", "left",
                                "failed"}
    /\ ws \in {"running", "forwarding", "closed"}
    /\ stop \in {"none", "asked", "replied"}
    /\ srv \in {"new", "idle", "joining", "joined", "gone"}
    /\ receiver \in {"none", "running", "ended", "todo", "ded"}
    /\ output \in {"none", "starting", "up", "down"}

(* The type invariant is the conjunction of these. *)
LEMMA TypesAre == ClientTypeOK <=> QueueTypes /\ NumberTypes /\ SetTypes /\ StateTypes
<1>1. \A m : m \in Handshakes \cup {"feed", "loop", "leave", "stop", "stopping", "left",
                                    "failed"} <=>
             m \in {"start", "await init", "join", "await udp", "discover",
                    "await answer", "announce", "await ready", "feed", "loop",
                    "leave", "stop", "stopping", "left", "failed"}
  BY DEF Handshakes
<1> QED BY <1>1 DEF ClientTypeOK, QueueTypes, Queue, NumberTypes, SetTypes, StateTypes

(* It is so before a step and after it. *)
LEMMA ClientTypeParts ==
    /\ ClientTypeOK <=> QueueTypes /\ NumberTypes /\ SetTypes /\ StateTypes
    /\ ClientTypeOK' <=> QueueTypes' /\ NumberTypes' /\ SetTypes' /\ StateTypes'
BY TypesAre, PTL

(* The steps that change a queue *)
LEMMA QueueSteps ==
    ASSUME QueueTypes, SetTypes, Holding, ClientNext
    PROVE  QueueTypes'
<1> USE LimitsPositive
<1>1. ASSUME NEW m \in ClientMsg, NEW p, Send(m, p) PROVE Queue(out', ClientMsg, OutSlots)
  BY <1>1, QueueAppend DEF Send, QueueTypes
<1>2. inc # <<>> => Queue(Tail(inc), ServerMsg, IncSlots)
  BY QueueTail DEF QueueTypes
<1>3. CASE SendInit \/ SendJoin \/ SendAnnounce \/ SendLeave
  <2>1. Queue(out', ClientMsg, OutSlots)
    BY <1>1, <1>3 DEF SendInit, SendJoin, SendAnnounce, SendLeave, ClientMsg
  <2> QED BY <1>3, <2>1 DEF SendInit, SendJoin, SendAnnounce, SendLeave, QueueTypes
<1>4. CASE TakeAwaited \/ TakeReady \/ TakeEvent
  BY <1>2, <1>4 DEF TakeAwaited, TakeReady, TakeEvent, QueueTypes
<1>5. ASSUME NEW e \in hand, Feed(e) PROVE QueueTypes'
  <2>1. e \in VoiceEvent
    BY DEF SetTypes
  <2>2. Queue(voiceq', VoiceEvent, VoiceSlots)
    BY <1>5, <2>1, QueueAppend DEF Feed, HasRoom, QueueTypes
  <2> QED BY <1>5, <2>2 DEF Feed, QueueTypes
<1>6. CASE WsSend
  <2>1. Queue(Tail(out), ClientMsg, OutSlots) /\ Head(out) \in ClientMsg
    BY <1>6, QueueTail DEF WsSend, QueueTypes
  <2>2. Append(toServer, Head(out)) \in Seq(ClientMsg)
    BY <2>1, Appended DEF QueueTypes
  <2> QED BY <1>6, <2>1, <2>2 DEF WsSend, QueueTypes
<1>7. CASE WsReceive
  <2>1. Tail(fromServer) \in Seq(ServerMsg)
    BY <1>7, HeadTail DEF WsReceive, QueueTypes
  <2> QED BY <1>7, <2>1 DEF WsReceive, QueueTypes, mainVars
<1>8. CASE WsForward
  <2>1. held \in ServerMsg
    BY <1>8 DEF WsForward, Holding, SetTypes
  <2>2. Queue(Append(inc, held), ServerMsg, IncSlots)
    BY <1>8, <2>1, QueueAppend DEF WsForward, QueueTypes
  <2> QED BY <1>8, <2>2 DEF WsForward, QueueTypes, mainVars
<1>9. CASE TakeVoiceEvent \/ RxAnswer \/ RxFails \/ \E s \in current : StreamBreaks(s) \/ RxVoice(s)
  <2>1. voiceq # <<>> => Queue(Tail(voiceq), VoiceEvent, VoiceSlots)
    BY QueueTail DEF QueueTypes
  <2>2. Queue(<<>>, VoiceEvent, VoiceSlots)
    BY DEF Queue
  <2>3. voiceq' \in {Tail(voiceq), <<>>, voiceq} /\ (voiceq = <<>> => voiceq' = <<>>)
        /\ UNCHANGED <<out, inc, toServer, fromServer>>
    BY <1>9 DEF TakeVoiceEvent, RxAnswer, RxFails, StreamBreaks, RxVoice, RxEnd, mainVars
  <2> QED BY <2>1, <2>2, <2>3 DEF QueueTypes
<1>10. CASE SrvStep
  <2>1. toServer' \in Seq(ClientMsg)
    <3>1. toServer # <<>> => Tail(toServer) \in Seq(ClientMsg)
      BY HeadTail DEF QueueTypes
    <3>2. toServer' = toServer \/ (toServer # <<>> /\ toServer' = Tail(toServer))
      BY <1>10 DEF SrvStep, SrvInit, SrvJoin, SrvReady, SrvEvent, SrvDisconnects,
                   SrvLeave, SrvGone, Serve
    <3> QED BY <3>1, <3>2 DEF QueueTypes
  <2>2. fromServer' \in Seq(ServerMsg)
    <3>1. \A m \in ServerMsg : Append(fromServer, m) \in Seq(ServerMsg)
      BY Appended DEF QueueTypes
    <3>2. fromServer' = fromServer \/ \E m \in ServerMsg : Tell(m)
      BY <1>10, SaysPlain, SaysReady, SaysEvent
      DEF SrvStep, SrvInit, SrvJoin, SrvReady, SrvEvent, SrvDisconnects, SrvLeave, SrvGone
    <3> QED BY <3>1, <3>2 DEF Tell, QueueTypes
  <2>3. UNCHANGED <<out, inc, voiceq>>
    BY <1>10 DEF SrvStep, SrvInit, SrvJoin, SrvReady, SrvEvent, SrvDisconnects, SrvLeave,
                 SrvGone, mainVars
  <2> QED BY <2>1, <2>2, <2>3 DEF QueueTypes
<1>11. CASE UNCHANGED <<out, inc, voiceq, toServer, fromServer>>
  BY <1>11 DEF QueueTypes
<1>12. ASSUME \/ StreamEnds \/ Discover \/ DiscoveryFails \/ TakeAnswer \/ AnswerTimesOut
              \/ Fed \/ UserStops \/ AskStop \/ Stopped \/ StopFails
              \/ WsEnds \/ WsStops \/ WsFails \/ AnswerArrives \/ PlayerStarts
       PROVE  UNCHANGED <<out, inc, voiceq, toServer, fromServer>>
  BY <1>12 DEF StreamEnds, Discover, DiscoveryFails, TakeAnswer, AnswerTimesOut, Fed,
               UserStops, AskStop, Stopped, StopFails, WsEnds, WsStops, WsFails,
               AnswerArrives, PlayerStarts, mainVars
<1> QED BY <1>3, <1>4, <1>5, <1>6, <1>7, <1>8, <1>9, <1>10, <1>11, <1>12
        DEF ClientNext, MainStep, WsStep, RxStep

(* The steps of udp_rx, of the handshake and of the discovery that count *)
LEMMA NumberSteps ==
    ASSUME NumberTypes, ClientNext
    PROVE  NumberTypes'
<1>1. CASE Discover
  <2>1. /\ attempt < MaxAttempts /\ attempt' = attempt + 1
        /\ asked' \in {asked, asked + 1} /\ answers' = answers /\ events' = events
        /\ copied' = copied
    BY <1>1 DEF Discover, srvVars
  <2> QED BY <2>1, LimitsPositive DEF NumberTypes
<1>2. CASE TakeAnswer
  <2>1. /\ answers > 0 /\ answers' = answers - 1
        /\ attempt' = attempt /\ asked' = asked /\ events' = events /\ copied' = copied
    BY <1>2 DEF TakeAnswer, AnswerTaken, Goto, srvVars
  <2> QED BY <2>1 DEF NumberTypes
<1>3. CASE AnswerArrives
  BY <1>3, RepeatsNat DEF AnswerArrives, NumberTypes, mainVars, srvVars
<1>4. CASE RxAnswer
  BY <1>4 DEF RxAnswer, RxEnd, NumberTypes, mainVars, srvVars
<1>5. ASSUME NEW t \in {"joined", "left"}, NEW s \in Sources, SrvEvent(t, s)
      PROVE  NumberTypes'
  BY <1>5, RepeatsNat DEF SrvEvent, NumberTypes, mainVars, udpVars
<1>6. CASE UNCHANGED <<attempt, asked, answers, copied, events>>
  BY <1>6 DEF NumberTypes
<1>7. ASSUME \/ SendInit \/ SendJoin \/ SendAnnounce \/ TakeAwaited \/ StreamEnds
             \/ DiscoveryFails \/ AnswerTimesOut \/ TakeReady \/ Fed
             \/ TakeEvent \/ UserStops \/ (\E e \in hand : Feed(e)) \/ SendLeave
             \/ AskStop \/ Stopped \/ StopFails
      PROVE  UNCHANGED <<attempt, asked, answers, copied, events>>
  BY <1>7 DEF SendInit, SendJoin, SendAnnounce, Send, Goto, TakeAwaited, StreamEnds,
              DiscoveryFails, AnswerTimesOut, TakeReady, Fed, TakeEvent,
              UserStops, Feed, SendLeave, AskStop, Stopped, StopFails, udpVars, srvVars
<1>8. ASSUME WsStep \/ WsFails \/ TakeVoiceEvent \/ RxFails \/ PlayerStarts
             \/ (\E s \in current : StreamBreaks(s) \/ RxVoice(s)) \/ SrvInit \/ SrvJoin \/ SrvDisconnects
             \/ SrvLeave \/ SrvGone \/ \E P \in SUBSET Sources : SrvReady(P)
      PROVE  UNCHANGED <<attempt, asked, answers, copied, events>>
  BY <1>8 DEF WsStep, WsSend, WsReceive, WsForward, WsEnds, WsStops, WsFails, CloseSocket,
              TakeVoiceEvent, RxFails, PlayerStarts, StreamBreaks, RxVoice, RxEnd, SrvInit, SrvJoin,
              SrvDisconnects, SrvLeave, SrvGone, SrvReady, mainVars, udpVars, srvVars
<1> QED BY <1>1, <1>2, <1>3, <1>4, <1>5, <1>6, <1>7, <1>8
        DEF ClientNext, MainStep, RxStep, SrvStep

(* The steps that learn of clients, or pass on what was learnt *)
LEMMA SetSteps ==
    ASSUME QueueTypes, SetTypes, OthersOnly, ClientNext
    PROVE  SetTypes'
<1> USE LimitsPositive
<1>1. inc # <<>> => Head(inc) \in ServerMsg /\ Head(inc) \in Talk
  BY QueueTail DEF QueueTypes, Talk
<1>2. CASE TakeReady
  <2>1. Head(inc).present \subseteq Sources \cup {Own}
    BY <1>1, <1>2, Spoken DEF TakeReady
  <2>2. {Msg("present", s, {}) : s \in NewSources(Head(inc).present)} \subseteq VoiceEvent
    BY <2>1 DEF NewSources, VoiceEvent
  <2>3. hand' \subseteq VoiceEvent
    BY <1>2, <2>2 DEF TakeReady, Goto, SetTypes
  <2> QED BY <1>2, <2>3 DEF TakeReady, SetTypes, rxVars, wsVars, srvVars
<1>3. CASE TakeEvent
  <2>1. hand' \subseteq VoiceEvent
    BY <1>1, <1>3, Spoken DEF TakeEvent
  <2> QED BY <1>3, <2>1 DEF TakeEvent, SetTypes, rxVars, wsVars, srvVars
<1>4. CASE \E e \in hand : Feed(e)
  BY <1>4 DEF Feed, SetTypes, rxVars, wsVars, srvVars
<1>5. CASE WsReceive
  <2>1. Head(fromServer) \in ServerMsg
    BY <1>5, HeadTail DEF WsReceive, QueueTypes
  <2> QED BY <1>5, <2>1 DEF WsReceive, SetTypes, mainVars, rxVars, srvVars
<1>6. CASE TakeVoiceEvent
  <2>1. voiceq \in Seq(VoiceEvent) /\ voiceq # <<>>
    BY <1>6 DEF TakeVoiceEvent, QueueTypes, Queue
  <2>2. Head(voiceq) \in Talk /\ Head(voiceq).source # Own
    <3>1. Head(voiceq) \in VoiceEvent /\ 1 \in 1..Len(voiceq) /\ Head(voiceq) = voiceq[1]
      BY <2>1, HeadTail
    <3> QED BY <3>1 DEF Talk, OthersOnly
  <2>3. current' \subseteq Sources
    BY <1>6, <2>2, AppliedType DEF TakeVoiceEvent, SetTypes
  <2>4. Head(voiceq).type \in {"joined", "present", "left"}
    BY <2>1, HeadTail DEF VoiceEvent, Msg
  <2>5. current \ {Head(voiceq).source} \subseteq Applied(current, Head(voiceq))
    BY <2>4 DEF Applied
  <2>6. broken' \subseteq current'
    BY <1>6, <2>5 DEF TakeVoiceEvent, SetTypes
  <2> QED BY <1>6, <2>3, <2>6 DEF TakeVoiceEvent, SetTypes, mainVars, wsVars, srvVars
<1>7. CASE SrvStep
  <2>1. \A m \in ServerMsg : Applied(told, m) \subseteq Sources
    BY AppliedType DEF SetTypes, Talk
  <2>2. told' = told \/ \E m \in ServerMsg : Tell(m)
    BY <1>7, SaysPlain, SaysReady, SaysEvent
    DEF SrvStep, SrvInit, SrvJoin, SrvReady, SrvEvent, SrvDisconnects, SrvLeave, SrvGone
  <2>3. told' \subseteq Sources
    BY <2>1, <2>2 DEF Tell, SetTypes
  <2>4. UNCHANGED <<hand, current, broken, held>>
    BY <1>7 DEF SrvStep, SrvInit, SrvJoin, SrvReady, SrvEvent, SrvDisconnects,
                SrvLeave, SrvGone, mainVars, wsVars, rxVars
  <2> QED BY <2>3, <2>4 DEF SetTypes
<1>8. CASE WsForward
  BY <1>8 DEF WsForward, SetTypes, mainVars, rxVars, srvVars
<1>9. CASE UNCHANGED <<hand, told, current, broken, held>>
  BY <1>9 DEF SetTypes
<1>10. ASSUME \/ SendInit \/ SendJoin \/ SendAnnounce \/ TakeAwaited \/ StreamEnds
              \/ Discover \/ DiscoveryFails \/ TakeAnswer \/ AnswerTimesOut \/ Fed
              \/ UserStops \/ SendLeave \/ AskStop \/ Stopped \/ StopFails
              \/ AnswerArrives
      PROVE  UNCHANGED <<hand, told, current, broken, held>>
  BY <1>10 DEF SendInit, SendJoin, SendAnnounce, Send, Goto, TakeAwaited, StreamEnds,
               Discover, DiscoveryFails, TakeAnswer, AnswerTimesOut, Fed, UserStops,
               SendLeave, AskStop, Stopped, StopFails, AnswerArrives, mainVars, wsVars,
               srvVars, rxVars
<1>11. ASSUME WsSend \/ WsEnds \/ WsStops \/ WsFails \/ PlayerStarts
      PROVE  UNCHANGED <<hand, told, current, broken, held>>
  BY <1>11 DEF WsSend, WsEnds, WsStops, WsFails, CloseSocket, PlayerStarts, mainVars,
               wsVars, srvVars, rxVars
<1>12. ASSUME RxAnswer \/ RxFails \/ \E s \in current : StreamBreaks(s) \/ RxVoice(s)
      PROVE  SetTypes'
  BY <1>12 DEF RxAnswer, RxFails, StreamBreaks, RxVoice, RxEnd, SetTypes, mainVars, wsVars,
               srvVars
<1> QED BY <1>2, <1>3, <1>4, <1>5, <1>6, <1>7, <1>8, <1>9, <1>10, <1>11, <1>12
        DEF ClientNext, MainStep, WsStep, RxStep

(* Where everyone is *)
LEMMA StateSteps ==
    ASSUME StateTypes, ClientNext
    PROVE  StateTypes'
<1>1. main' \in Handshakes \cup {"feed", "loop", "leave", "stop", "stopping", "left",
                                "failed"}
  <2>1. ASSUME MainStep \/ UserStops
        PROVE  main' = main \/
               main' \in {"await init", "await udp", "await ready", "join", "discover",
                          "await answer", "announce", "feed", "loop", "leave", "stop",
                          "stopping", "left", "failed"}
    BY <2>1 DEF MainStep, UserStops, SendInit, SendJoin, SendAnnounce, Send, Goto,
                TakeAwaited, StreamEnds, Discover, DiscoveryFails, TakeAnswer,
                AnswerTimesOut, TakeReady, Fed, TakeEvent, Feed, SendLeave, AskStop,
                Stopped, StopFails
  <2>2. ASSUME \/ WsStep \/ WsFails \/ AnswerArrives \/ RxStep \/ RxFails
               \/ (\E s \in current : StreamBreaks(s) \/ RxVoice(s)) \/ SrvStep
        PROVE  main' = main
    BY <2>2 DEF WsStep, WsSend, WsReceive, WsForward, WsEnds, WsStops, WsFails,
                AnswerArrives, RxStep, TakeVoiceEvent, RxAnswer, PlayerStarts, RxFails,
                StreamBreaks, RxVoice, RxEnd, SrvStep, SrvInit, SrvJoin, SrvReady, SrvEvent,
                SrvDisconnects, SrvLeave, SrvGone, mainVars
  <2> QED BY <2>1, <2>2 DEF ClientNext, StateTypes, Handshakes
<1>2. ws' \in {"running", "forwarding", "closed"}
      /\ stop' \in {"none", "asked", "replied"}
  <2>1. ASSUME MainStep \/ UserStops
        PROVE  ws' = ws /\ stop' \in {stop, "asked"}
    BY <2>1 DEF MainStep, UserStops, SendInit, SendJoin, SendAnnounce, Send, Goto,
                TakeAwaited, StreamEnds, Discover, DiscoveryFails, TakeAnswer,
                AnswerTimesOut, TakeReady, Fed, TakeEvent, Feed, SendLeave, AskStop,
                Stopped, StopFails, wsVars
  <2>2. ASSUME WsStep \/ WsFails
        PROVE  ws' \in {ws, "running", "forwarding", "closed"}
               /\ stop' \in {stop, "replied"}
    BY <2>2 DEF WsStep, WsSend, WsReceive, WsForward, WsEnds, WsStops, WsFails,
                CloseSocket, mainVars, wsVars
  <2>3. ASSUME \/ AnswerArrives \/ RxStep \/ RxFails
               \/ (\E s \in current : StreamBreaks(s) \/ RxVoice(s)) \/ SrvStep
        PROVE  ws' = ws /\ stop' = stop
    BY <2>3 DEF AnswerArrives, RxStep, TakeVoiceEvent, RxAnswer, PlayerStarts, RxFails,
                StreamBreaks, RxVoice, RxEnd, SrvStep, SrvInit, SrvJoin, SrvReady, SrvEvent,
                SrvDisconnects, SrvLeave, SrvGone, mainVars, wsVars
  <2> QED BY <2>1, <2>2, <2>3 DEF ClientNext, StateTypes
<1>3. srv' \in {"new", "idle", "joining", "joined", "gone"}
  <2>1. ASSUME MainStep \/ UserStops \/ AnswerArrives \/ RxStep \/ RxFails
               \/ (\E s \in current : StreamBreaks(s) \/ RxVoice(s))
        PROVE  srv' = srv
    BY <2>1 DEF MainStep, UserStops, SendInit, SendJoin, SendAnnounce, TakeAwaited,
                StreamEnds, Discover, DiscoveryFails, TakeAnswer, AnswerTimesOut,
                TakeReady, Fed, TakeEvent, Feed, SendLeave, AskStop, Stopped, StopFails,
                AnswerArrives, RxStep, TakeVoiceEvent, RxAnswer, PlayerStarts, RxFails,
                StreamBreaks, RxVoice, RxEnd, srvVars
  <2>2. ASSUME WsStep \/ WsFails \/ SrvStep
        PROVE  srv' \in {srv, "idle", "joining", "joined", "gone"}
    BY <2>2 DEF WsStep, WsSend, WsReceive, WsForward, WsEnds, WsStops, WsFails,
                CloseSocket, SrvStep, SrvInit, SrvJoin, SrvReady, SrvEvent, Serve,
                SrvDisconnects, SrvLeave, SrvGone, srvVars
  <2> QED BY <2>1, <2>2 DEF ClientNext, StateTypes
<1>4. /\ receiver' \in {"none", "running", "ended", "todo", "ded"}
      /\ output' \in {"none", "starting", "up", "down"}
  <2>1. ASSUME MainStep \/ UserStops
        PROVE  receiver' \in {receiver, "running"} /\ output' \in {output, "starting"}
    BY <2>1 DEF MainStep, UserStops, SendInit, SendJoin, SendAnnounce, TakeAwaited,
                StreamEnds, Discover, DiscoveryFails, TakeAnswer, AnswerTimesOut,
                TakeReady, Fed, TakeEvent, Feed, SendLeave, AskStop, Stopped, StopFails,
                rxVars
  <2>2. ASSUME RxStep \/ RxFails \/ \E s \in current : StreamBreaks(s) \/ RxVoice(s)
        PROVE  receiver' \in {receiver, "ended", "todo", "ded"}
               /\ output' \in {output, "up", "down"}
    BY <2>2 DEF RxStep, TakeVoiceEvent, RxAnswer, PlayerStarts, RxFails, StreamBreaks, RxVoice, RxEnd
  <2>3. ASSUME AnswerArrives \/ WsStep \/ WsFails \/ SrvStep
        PROVE  receiver' = receiver /\ output' = output
    BY <2>3 DEF AnswerArrives, WsStep, WsSend, WsReceive, WsForward, WsEnds, WsStops,
                WsFails, SrvStep, SrvInit, SrvJoin, SrvReady, SrvEvent, SrvDisconnects,
                SrvLeave, SrvGone, rxVars
  <2> QED BY <2>1, <2>2, <2>3 DEF ClientNext, StateTypes
<1> QED BY <1>1, <1>2, <1>3, <1>4 DEF StateTypes

-----------------------------------------------------------------------------
(* The handshake, the discovery and what main and the tasks hold *)

(* Until the channel is ready there is no udp_rx, and main holds events only
   while it hands them on.                                                   *)
LEMMA StartsSteps ==
    ASSUME StateTypes, StartsReady, ClientNext
    PROVE  StartsReady'
<1>1. ASSUME \/ SendInit \/ SendJoin \/ SendAnnounce \/ TakeAwaited \/ StreamEnds
             \/ Discover \/ DiscoveryFails \/ TakeAnswer \/ AnswerTimesOut
      PROVE  StartsReady'
  BY <1>1 DEF StartsReady, Handshakes, SendInit, SendJoin, SendAnnounce, Send, Goto,
              TakeAwaited, StreamEnds, Discover, DiscoveryFails, TakeAnswer,
              AnswerTimesOut, rxVars
<1>2. CASE TakeReady
  BY <1>2 DEF StartsReady, Handshakes, TakeReady, Goto, rxVars
<1>3. CASE \E e \in hand : Feed(e)
  BY <1>3 DEF StartsReady, Handshakes, Feed, rxVars
<1>4. ASSUME Fed \/ TakeEvent \/ UserStops \/ SendLeave \/ AskStop \/ Stopped \/ StopFails
      PROVE  StartsReady'
  BY <1>4 DEF StartsReady, Handshakes, Fed, TakeEvent, UserStops, SendLeave, Send, Goto,
              AskStop, Stopped, StopFails, rxVars
<1>5. ASSUME RxStep \/ RxFails \/ \E s \in current : StreamBreaks(s) \/ RxVoice(s)
      PROVE  StartsReady'
  BY <1>5 DEF StartsReady, Handshakes, RxStep, TakeVoiceEvent, Listens, RxAnswer,
              PlayerStarts, RxFails, StreamBreaks, RxVoice, RxEnd, mainVars
<1>6. ASSUME AnswerArrives \/ WsStep \/ WsFails \/ SrvStep
      PROVE  UNCHANGED <<main, hand, rxVars, voiceq>>
  BY <1>6 DEF AnswerArrives, WsStep, WsSend, WsReceive, WsForward, WsEnds, WsStops,
              WsFails, SrvStep, SrvInit, SrvJoin, SrvReady, SrvEvent, SrvDisconnects,
              SrvLeave, SrvGone, mainVars
<1>7. CASE UNCHANGED <<main, hand, rxVars, voiceq>>
  BY <1>7 DEF StartsReady, rxVars
<1> QED BY <1>1, <1>2, <1>3, <1>4, <1>5, <1>6, <1>7 DEF ClientNext, MainStep

(* What main hands on *)
LEMMA HandSteps ==
    ASSUME QueueTypes, SetTypes, HandApart, OthersOnly, ClientNext
    PROVE  HandApart' /\ OthersOnly'
<1> USE LimitsPositive
<1>1. inc # <<>> => Head(inc) \in ServerMsg /\ Head(inc) \in Talk
  BY QueueTail DEF QueueTypes, Talk
<1>2. CASE TakeReady
  <2>1. hand' = hand \/ hand' = {Msg("present", s, {}) : s \in NewSources(Head(inc).present)}
    BY <1>2 DEF TakeReady, Goto
  <2>2. ASSUME NEW P, hand' = {Msg("present", s, {}) : s \in P \ {Own}}
        PROVE  HandApart' /\ \A e \in hand' : e.source # Own
    BY <2>2 DEF HandApart, Msg
  <2> QED BY <1>2, <2>1, <2>2 DEF TakeReady, HandApart, OthersOnly, NewSources
<1>3. CASE TakeEvent
  <2>1. hand' = {} \/ (hand' = {Head(inc)} /\ Head(inc).source \in Sources)
    BY <1>1, <1>3, Spoken DEF TakeEvent
  <2> QED BY <1>3, <2>1, OwnIsOwn DEF TakeEvent, HandApart, OthersOnly
<1>4. ASSUME NEW e \in hand, Feed(e) PROVE HandApart' /\ OthersOnly'
  <2>1. voiceq \in Seq(VoiceEvent) /\ e \in VoiceEvent /\ e.source # Own
    BY DEF QueueTypes, Queue, SetTypes, OthersOnly
  <2>2. \A n \in 1..Len(Append(voiceq, e)) : Append(voiceq, e)[n].source # Own
    BY <2>1 DEF OthersOnly
  <2>3. hand' = hand \ {e} /\ voiceq' \in {voiceq, Append(voiceq, e)}
    BY <1>4 DEF Feed
  <2> QED BY <2>2, <2>3 DEF HandApart, OthersOnly
<1>5. ASSUME RxStep \/ RxFails \/ \E s \in current : StreamBreaks(s) \/ RxVoice(s)
      PROVE  HandApart' /\ OthersOnly'
  <2>1. voiceq \in Seq(VoiceEvent)
    BY DEF QueueTypes, Queue
  <2>2. hand' = hand /\ \/ voiceq # <<>> /\ voiceq' = Tail(voiceq)
                        \/ voiceq' \in {voiceq, <<>>}
    BY <1>5 DEF RxStep, TakeVoiceEvent, RxAnswer, PlayerStarts, RxFails, StreamBreaks, RxVoice, RxEnd,
                mainVars
  <2>3. voiceq # <<>> => \A n \in 1..Len(Tail(voiceq)) : Tail(voiceq)[n].source # Own
    <3>1. voiceq # <<>> => \A n \in 1..Len(Tail(voiceq)) :
             n + 1 \in 1..Len(voiceq) /\ Tail(voiceq)[n] = voiceq[n + 1]
      BY <2>1
    <3> QED BY <3>1 DEF OthersOnly
  <2>4. \A n \in 1..Len(<<>>) : FALSE
    OBVIOUS
  <2> QED BY <2>2, <2>3, <2>4 DEF HandApart, OthersOnly
<1>6. CASE UNCHANGED <<hand, voiceq>>
  BY <1>6 DEF HandApart, OthersOnly
<1>7. ASSUME \/ SendInit \/ SendJoin \/ SendAnnounce \/ TakeAwaited \/ StreamEnds
             \/ Discover \/ DiscoveryFails \/ TakeAnswer \/ AnswerTimesOut \/ Fed
             \/ UserStops \/ SendLeave \/ AskStop \/ Stopped \/ StopFails
      PROVE  UNCHANGED <<hand, voiceq>>
  BY <1>7 DEF SendInit, SendJoin, SendAnnounce, Send, Goto, TakeAwaited, StreamEnds,
              Discover, DiscoveryFails, TakeAnswer, AnswerTimesOut, Fed, UserStops,
              SendLeave, AskStop, Stopped, StopFails
<1>8. ASSUME AnswerArrives \/ WsStep \/ WsFails \/ SrvStep
      PROVE  UNCHANGED <<hand, voiceq>>
  BY <1>8 DEF AnswerArrives, WsStep, WsSend, WsReceive, WsForward, WsEnds, WsStops,
              WsFails, SrvStep, SrvInit, SrvJoin, SrvReady, SrvEvent, SrvDisconnects,
              SrvLeave, SrvGone, mainVars
<1> QED BY <1>2, <1>3, <1>4, <1>5, <1>6, <1>7, <1>8 DEF ClientNext, MainStep

(* The message the web socket task holds *)
LEMMA HoldingSteps ==
    ASSUME QueueTypes, Holding, ClientNext
    PROVE  Holding'
<1>1. CASE WsReceive
  <2>1. Head(fromServer) # None
    BY <1>1, HeadTail, NoneIsNoMessage DEF WsReceive, QueueTypes
  <2> QED BY <1>1, <2>1 DEF WsReceive, Holding
<1>2. ASSUME WsForward \/ WsEnds \/ WsStops \/ WsFails PROVE Holding'
  BY <1>2 DEF WsForward, WsEnds, WsStops, WsFails, CloseSocket, Holding
<1>3. CASE UNCHANGED wsVars
  BY <1>3 DEF Holding, wsVars
<1>4. ASSUME MainStep \/ UserStops PROVE UNCHANGED wsVars
  BY <1>4 DEF MainStep, UserStops, SendInit, SendJoin, SendAnnounce, TakeAwaited,
              StreamEnds, Discover, DiscoveryFails, TakeAnswer, AnswerTimesOut,
              TakeReady, Fed, TakeEvent, Feed, SendLeave, AskStop, Stopped, StopFails
<1>5. ASSUME \/ AnswerArrives \/ RxStep \/ RxFails \/ (\E s \in current : StreamBreaks(s) \/ RxVoice(s))
             \/ SrvStep \/ WsSend
      PROVE  UNCHANGED wsVars
  BY <1>5 DEF AnswerArrives, RxStep, TakeVoiceEvent, RxAnswer, PlayerStarts, RxFails,
              StreamBreaks, RxVoice, RxEnd, SrvStep, SrvInit, SrvJoin, SrvReady, SrvEvent,
              SrvDisconnects, SrvLeave, SrvGone, WsSend
<1> QED BY <1>1, <1>2, <1>3, <1>4, <1>5 DEF ClientNext, WsStep

(* The answers that are still to come, or wait, are to other requests than the
   one that was answered.                                                    *)
LEMMA AnswerSteps ==
    ASSUME NumberTypes, StartsReady, AnswersCounted, ClientNext
    PROVE  AnswersCounted'
<1> DEFINE Answered == main \in {"announce", "await ready"} \/ receiver # "none"
<1>0. /\ attempt \in Nat /\ asked \in Nat /\ answers \in Nat /\ copied \in Nat
      /\ asked + answers <= attempt + copied
      /\ (Answered => asked + answers < attempt + copied)
  <2>1. attempt \in Nat /\ asked \in Nat /\ answers \in Nat /\ copied \in Nat
    BY LimitsPositive, RepeatsNat DEF NumberTypes
  <2>2. /\ asked + answers <= attempt + copied
        /\ (Answered => asked + answers < attempt + copied)
    BY DEF AnswersCounted
  <2> QED BY <2>1, <2>2
<1> SUFFICES /\ asked' + answers' <= attempt' + copied'
             /\ Answered' => asked' + answers' < attempt' + copied'
  BY DEF AnswersCounted
<1>1. CASE Discover
  <2>1. /\ main = "discover" /\ attempt' = attempt + 1 /\ answers' = answers
        /\ (asked' = asked \/ asked' = asked + 1) /\ main' \in {"await answer", "discover"}
        /\ receiver' = receiver /\ copied' = copied
    BY <1>1 DEF Discover, rxVars
  <2>2. ~Answered'
    BY <2>1 DEF StartsReady, Handshakes
  <2>3. /\ asked + answers <= attempt + copied /\ copied \in Nat
        /\ attempt \in Nat /\ asked \in Nat /\ answers \in Nat
    BY <1>0
  <2>4. /\ attempt' = attempt + 1 /\ answers' = answers /\ copied' = copied
        /\ (asked' = asked \/ asked' = asked + 1)
    BY <2>1
  <2>5. asked' + answers' <= attempt' + copied'
    BY <2>3, <2>4
  <2> QED BY <2>2, <2>5
<1>2. CASE TakeAnswer
  <2>1. /\ answers > 0 /\ answers' = answers - 1 /\ attempt' = attempt
        /\ asked' = asked /\ copied' = copied
    BY <1>2 DEF TakeAnswer, AnswerTaken, Goto
  <2> HIDE DEF Answered
  <2> QED BY <1>0, <2>1
<1>3. CASE AnswerArrives
  <2>1. /\ asked > 0 /\ answers' = answers + 1
        /\ \/ asked' = asked - 1 /\ copied' = copied
           \/ asked' = asked /\ copied' = copied + 1
        /\ attempt' = attempt /\ (Answered' <=> Answered)
    BY <1>3 DEF AnswerArrives, mainVars, rxVars
  <2> HIDE DEF Answered
  <2> QED BY <1>0, <2>1
<1>4. CASE RxAnswer
  <2>1. /\ answers > 0 /\ answers' = answers - 1 /\ asked' = asked
        /\ attempt' = attempt /\ copied' = copied
    BY <1>4 DEF RxAnswer, RxEnd, mainVars
  <2> HIDE DEF Answered
  <2> QED BY <1>0, <2>1
<1>5. CASE TakeReady
  <2>1. main = "await ready" /\ UNCHANGED <<asked, answers, copied, attempt>>
    BY <1>5 DEF TakeReady, Goto, udpVars
  <2> QED BY <1>0, <2>1
<1>6. CASE /\ UNCHANGED <<asked, answers, copied, attempt>>
           /\ main' \in {"announce", "await ready"} => main \in {"announce", "await ready"}
           /\ receiver' # "none" => receiver # "none"
  BY <1>0, <1>6
<1>7. ASSUME \/ SendInit \/ SendJoin \/ SendAnnounce \/ TakeAwaited \/ StreamEnds
             \/ DiscoveryFails \/ AnswerTimesOut \/ Fed \/ TakeEvent
             \/ UserStops \/ (\E e \in hand : Feed(e)) \/ SendLeave
             \/ AskStop \/ Stopped \/ StopFails
      PROVE  /\ UNCHANGED <<asked, answers, copied, attempt, receiver>>
             /\ main' \in {"announce", "await ready"} => main \in {"announce", "await ready"}
  BY <1>7 DEF SendInit, SendJoin, SendAnnounce, Send, Goto, TakeAwaited, StreamEnds,
              DiscoveryFails, AnswerTimesOut, Fed, TakeEvent, UserStops, Feed, SendLeave,
              AskStop, Stopped, StopFails, udpVars, rxVars
<1>8. ASSUME WsStep \/ WsFails \/ TakeVoiceEvent \/ RxFails \/ PlayerStarts
             \/ (\E s \in current : StreamBreaks(s) \/ RxVoice(s)) \/ SrvStep
      PROVE  /\ UNCHANGED <<asked, answers, copied, attempt, main>>
             /\ receiver' # "none" => receiver # "none"
  BY <1>8 DEF WsStep, WsSend, WsReceive, WsForward, WsEnds, WsStops, WsFails,
              TakeVoiceEvent, RxFails, PlayerStarts, StreamBreaks, RxVoice, RxEnd, SrvStep, SrvInit,
              SrvJoin, SrvReady, SrvEvent, SrvDisconnects, SrvLeave, SrvGone, mainVars,
              udpVars, rxVars
<1> QED BY <1>1, <1>2, <1>3, <1>4, <1>5, <1>6, <1>7, <1>8
        DEF ClientNext, MainStep, RxStep

(* An answer that main has not taken is one of several. *)
LEMMA TodoSteps ==
    ASSUME NumberTypes, StartsReady, AnswersCounted, TodoNeedsRepeat, ClientNext
    PROVE  TodoNeedsRepeat'
<1>1. CASE RxAnswer
  <2>1. /\ answers > 0 /\ attempt' = attempt /\ copied' = copied /\ receiver = "running"
    BY <1>1 DEF RxAnswer, RxEnd, mainVars
  <2> QED BY <2>1, RepeatsNat DEF AnswersCounted, NumberTypes, TodoNeedsRepeat
<1>2. ASSUME RxFails \/ \E s \in current : StreamBreaks(s) \/ RxVoice(s)
      PROVE  TodoNeedsRepeat'
  BY <1>2 DEF RxFails, StreamBreaks, RxVoice, RxEnd, mainVars, udpVars, TodoNeedsRepeat
<1>3. CASE TakeReady
  BY <1>3 DEF TakeReady, Goto, rxVars, udpVars, TodoNeedsRepeat
<1>4. CASE Discover
  <2>1. attempt' = attempt + 1 /\ UNCHANGED <<receiver, copied>>
    BY <1>4 DEF Discover, rxVars
  <2> QED BY <2>1, RepeatsNat DEF TodoNeedsRepeat, NumberTypes
<1>5. CASE AnswerArrives
  <2>1. (copied' = copied \/ copied' = copied + 1) /\ attempt' = attempt /\ receiver' = receiver
    BY <1>5 DEF AnswerArrives, mainVars, rxVars
  <2>2. attempt \in Nat /\ copied \in Nat
    BY LimitsPositive, RepeatsNat DEF NumberTypes
  <2>3. attempt + copied > 1 => attempt' + copied' > 1
    BY <2>1, <2>2
  <2> QED BY <2>1, <2>3 DEF TodoNeedsRepeat
<1>6. CASE UNCHANGED <<attempt, copied, receiver>>
  BY <1>6 DEF TodoNeedsRepeat
<1>7. ASSUME \/ SendInit \/ SendJoin \/ SendAnnounce \/ TakeAwaited \/ StreamEnds
             \/ DiscoveryFails \/ TakeAnswer \/ AnswerTimesOut \/ Fed \/ TakeEvent
             \/ UserStops \/ (\E e \in hand : Feed(e)) \/ SendLeave
             \/ AskStop \/ Stopped \/ StopFails
      PROVE  UNCHANGED <<attempt, copied, receiver>>
  BY <1>7 DEF SendInit, SendJoin, SendAnnounce, Send, Goto, TakeAwaited, StreamEnds,
              DiscoveryFails, TakeAnswer, AnswerTimesOut, Fed, TakeEvent, UserStops, Feed,
              SendLeave, AskStop, Stopped, StopFails, udpVars, rxVars
<1>8. ASSUME PlayerStarts \/ WsStep \/ WsFails \/ TakeVoiceEvent \/ SrvStep
      PROVE  UNCHANGED <<attempt, copied, receiver>>
  BY <1>8 DEF PlayerStarts, WsStep, WsSend, WsReceive, WsForward, WsEnds, WsStops,
              WsFails, TakeVoiceEvent, SrvStep, SrvInit, SrvJoin, SrvReady, SrvEvent,
              SrvDisconnects, SrvLeave, SrvGone, mainVars, udpVars, rxVars
<1> QED BY <1>1, <1>2, <1>3, <1>4, <1>5, <1>6, <1>7, <1>8
        DEF ClientNext, MainStep, RxStep

-----------------------------------------------------------------------------
(* The announcement and the answer to it are on their way once. *)

(* Adding a message to a queue adds it to what the queue has. *)
LEMMA HasAppend ==
    ASSUME NEW S, NEW T, NEW q \in Seq(S), NEW x \in S
    PROVE  /\ Has(Append(q, x), T) <=> Has(q, T) \/ x \in T
           /\ Once(q, T) /\ ~(Has(q, T) /\ x \in T) => Once(Append(q, x), T)
<1> DEFINE p == Append(q, x)
<1>1. /\ Len(q) \in Nat /\ Len(p) = Len(q) + 1 /\ p[Len(q) + 1] = x
      /\ \A n \in 1..Len(q) : p[n] = q[n]
  BY Appended
<1> HIDE DEF p
<1>2. \A n \in 1..Len(p) : n \in 1..Len(q) \/ n = Len(q) + 1
  BY <1>1
<1>3. Len(q) + 1 \in 1..Len(p) /\ \A n \in 1..Len(q) : n \in 1..Len(p)
  BY <1>1
<1>4. Has(p, T) <=> Has(q, T) \/ x \in T
  BY <1>1, <1>2, <1>3 DEF Has
<1>5. ASSUME Once(q, T), ~(Has(q, T) /\ x \in T) PROVE Once(p, T)
  BY <1>1, <1>2, <1>5 DEF Has, Once
<1> QED BY <1>4, <1>5 DEF p

(* Taking the first of them leaves the rest. *)
LEMMA HasTail ==
    ASSUME NEW S, NEW T, NEW q \in Seq(S), q # <<>>
    PROVE  /\ Has(q, T) <=> Head(q) \in T \/ Has(Tail(q), T)
           /\ Once(q, T) => Once(Tail(q), T) /\ ~(Head(q) \in T /\ Has(Tail(q), T))
<1> DEFINE p == Tail(q)
           x == Head(q)
<1>1. /\ Len(q) \in Nat \ {0} /\ Len(p) = Len(q) - 1 /\ q[1] = x
      /\ \A n \in 1..Len(p) : p[n] = q[n + 1]
  BY HeadTail
<1> HIDE DEF p, x
<1>2. \A n \in 1..Len(q) : n = 1 \/ (n - 1 \in 1..Len(p) /\ p[n - 1] = q[n])
  BY <1>1
<1>3. 1 \in 1..Len(q) /\ \A n \in 1..Len(p) : n + 1 \in 1..Len(q) /\ n + 1 # 1
  BY <1>1
<1>4. Has(q, T) <=> x \in T \/ Has(p, T)
  BY <1>1, <1>2, <1>3 DEF Has
<1>5. ASSUME Once(q, T) PROVE Once(p, T)
  <2> SUFFICES ASSUME NEW m \in 1..Len(p), NEW n \in 1..Len(p), p[m] \in T, p[n] \in T
               PROVE  m = n
    BY DEF Once
  <2>1. m + 1 = n + 1
    BY <1>1, <1>3, <1>5 DEF Once
  <2> QED BY <2>1
<1>6. ASSUME Once(q, T), x \in T, Has(p, T) PROVE FALSE
  <2>1. PICK n \in 1..Len(p) : p[n] \in T
    BY <1>6 DEF Has
  <2>2. n + 1 \in 1..Len(q) /\ n + 1 # 1 /\ 1 \in 1..Len(q) /\ q[n + 1] = p[n]
    BY <1>1, <1>3
  <2> QED BY <1>1, <1>6, <2>1, <2>2 DEF Once
<1> QED BY <1>4, <1>5, <1>6 DEF p, x

(* ReadyOnce without a choice of the leg *)
OutLeg == Has(out, Announcing)
UpLeg == Has(toServer, Announcing)
DownLeg == Has(fromServer, Readies)
HeldLeg == held \in Readies
IncLeg == Has(inc, Readies)
EachOnce ==
    /\ Once(out, Announcing) /\ Once(toServer, Announcing)
    /\ Once(fromServer, Readies) /\ Once(inc, Readies)
AtMostOne ==
    /\ ~(OutLeg /\ UpLeg) /\ ~(OutLeg /\ DownLeg) /\ ~(OutLeg /\ HeldLeg)
    /\ ~(OutLeg /\ IncLeg) /\ ~(UpLeg /\ DownLeg) /\ ~(UpLeg /\ HeldLeg)
    /\ ~(UpLeg /\ IncLeg) /\ ~(DownLeg /\ HeldLeg) /\ ~(DownLeg /\ IncLeg)
    /\ ~(HeldLeg /\ IncLeg)
NoLeg == ~OutLeg /\ ~UpLeg /\ ~DownLeg /\ ~HeldLeg /\ ~IncLeg
Waiting == Ended \/ main = "await ready"

(* ReadyOnce in its parts *)
LEMMA ReadyIs == ReadyOnce <=> EachOnce /\ AtMostOne /\ (~Waiting => NoLeg)
<1>1. /\ OnLeg("out") <=> OutLeg
      /\ OnLeg("to server") <=> UpLeg
      /\ OnLeg("from server") <=> DownLeg
      /\ OnLeg("held") <=> HeldLeg
      /\ OnLeg("inc") <=> IncLeg
  BY DEF OnLeg, OutLeg, UpLeg, DownLeg, HeldLeg, IncLeg
<1>2. (\A l \in Legs : ~OnLeg(l)) <=> NoLeg
  BY <1>1 DEF Legs, NoLeg
<1>3. (\A l, k \in Legs : OnLeg(l) /\ OnLeg(k) => l = k) <=> AtMostOne
  BY <1>1 DEF Legs, AtMostOne
<1>4. (~Ended /\ main # "await ready") <=> ~Waiting
  BY DEF Waiting
<1> QED BY <1>2, <1>3, <1>4 DEF ReadyOnce, EachOnce

(* It is so before a step and after it. *)
LEMMA ReadyParts ==
    /\ ReadyOnce <=> EachOnce /\ AtMostOne /\ (~Waiting => NoLeg)
    /\ ReadyOnce' <=> EachOnce' /\ AtMostOne' /\ (~Waiting' => NoLeg')
BY ReadyIs, PTL

(* Messages of another kind do not matter. *)
LEMMA Kinds ==
    /\ "init" \notin Announcing /\ "join" \notin Announcing /\ "leave" \notin Announcing
    /\ "announce" \in Announcing
    /\ \A m \in ServerMsg : m \in Readies <=> m.type = "ready"
    /\ None \notin Readies
BY NoneIsNoMessage DEF Announcing, Readies

(* main queues a message for the gateway. *)
LEMMA SendOnce ==
    ASSUME QueueTypes, ReadyOnce, NEW m \in ClientMsg, NEW p, Send(m, p), ~Waiting,
           m \in Announcing => p = "await ready",
           UNCHANGED <<wsVars, inc, toServer, fromServer>>
    PROVE  ReadyOnce'
<1>1. NoLeg /\ EachOnce
  BY ReadyParts
<1>2. /\ (UpLeg' <=> UpLeg) /\ (DownLeg' <=> DownLeg)
      /\ (HeldLeg' <=> HeldLeg) /\ (IncLeg' <=> IncLeg)
      /\ Once(toServer, Announcing)' /\ Once(fromServer, Readies)' /\ Once(inc, Readies)'
  BY <1>1 DEF UpLeg, DownLeg, HeldLeg, IncLeg, EachOnce, wsVars
<1>3. CASE out' = out /\ main' = "failed"
  BY <1>1, <1>2, <1>3, ReadyParts
  DEF EachOnce, OutLeg, AtMostOne, NoLeg, Waiting, Ended
<1>4. CASE out' = Append(out, m) /\ main' = p
  <2>1. out \in Seq(ClientMsg)
    BY DEF QueueTypes, Queue
  <2>2. /\ Has(Append(out, m), Announcing) <=> m \in Announcing
        /\ Once(Append(out, m), Announcing)
    BY <1>1, <2>1, HasAppend DEF NoLeg, OutLeg, EachOnce
  <2>3. (OutLeg' <=> m \in Announcing) /\ EachOnce'
    BY <1>2, <1>4, <2>2 DEF OutLeg, EachOnce
  <2> QED BY <1>1, <1>2, <1>4, <2>3, ReadyParts DEF AtMostOne, NoLeg, Waiting
<1> QED BY <1>3, <1>4 DEF Send, Goto

(* main takes a message. *)
LEMMA TakeOnce ==
    ASSUME QueueTypes, ReadyOnce, inc # <<>>, inc' = Tail(inc),
           UNCHANGED <<wsVars, out, toServer, fromServer>>,
           ~Waiting' => ~Waiting \/ Head(inc) \in Readies
    PROVE  ReadyOnce'
<1>1. inc \in Seq(ServerMsg)
  BY DEF QueueTypes, Queue
<1>2. /\ IncLeg' => IncLeg
      /\ EachOnce => Once(inc, Readies)'
      /\ EachOnce /\ Head(inc) \in Readies => IncLeg /\ ~IncLeg'
  BY <1>1, HasTail DEF IncLeg, EachOnce
<1>3. EachOnce => EachOnce'
  BY <1>2 DEF EachOnce
<1>4. /\ (OutLeg' <=> OutLeg) /\ (UpLeg' <=> UpLeg)
      /\ (DownLeg' <=> DownLeg) /\ (HeldLeg' <=> HeldLeg)
  BY DEF OutLeg, UpLeg, DownLeg, HeldLeg, wsVars
<1> QED BY <1>2, <1>3, <1>4, ReadyParts DEF AtMostOne, NoLeg

(* The gateway takes a message, says something, or both. *)
LEMMA SrvOnce ==
    ASSUME QueueTypes, ReadyOnce, SrvStep
    PROVE  ReadyOnce'
<1>1. UNCHANGED <<main, held, out, inc>>
  BY DEF SrvStep, SrvInit, SrvJoin, SrvReady, SrvEvent, SrvDisconnects, SrvLeave, SrvGone,
         mainVars, wsVars
<1>2. toServer \in Seq(ClientMsg) /\ fromServer \in Seq(ServerMsg)
  BY DEF QueueTypes
<1>3. /\ (OutLeg' <=> OutLeg) /\ (HeldLeg' <=> HeldLeg)
      /\ (IncLeg' <=> IncLeg) /\ (Waiting' <=> Waiting)
      /\ (EachOnce => Once(out, Announcing)' /\ Once(inc, Readies)')
  BY <1>1 DEF OutLeg, HeldLeg, IncLeg, Waiting, Ended, EachOnce
<1>4. \/ toServer' = toServer
      \/ toServer # <<>> /\ toServer' = Tail(toServer)
  BY DEF SrvStep, SrvInit, SrvJoin, SrvReady, SrvEvent, SrvDisconnects, SrvLeave, SrvGone,
         Serve
<1>5. /\ UpLeg' => UpLeg
      /\ EachOnce => Once(toServer, Announcing)'
      /\ EachOnce /\ toServer # <<>> /\ Head(toServer) \in Announcing
            /\ toServer' = Tail(toServer) => UpLeg /\ ~UpLeg'
  <2>1. CASE toServer' = toServer
    <3>1. (UpLeg' <=> UpLeg) /\ (EachOnce => Once(toServer, Announcing)')
      BY <2>1 DEF UpLeg, EachOnce
    <3>2. toServer # <<>> => toServer' # Tail(toServer)
      BY <1>2, <2>1, HeadTail
    <3> QED BY <3>1, <3>2
  <2>2. CASE toServer # <<>> /\ toServer' = Tail(toServer)
    BY <1>2, <2>2, HasTail DEF UpLeg, EachOnce
  <2> QED BY <1>4, <2>1, <2>2
<1>6. ASSUME NEW m \in ServerMsg, Tell(m),
             m \in Readies => toServer # <<>> /\ Head(toServer) \in Announcing
                              /\ toServer' = Tail(toServer)
      PROVE  ReadyOnce'
  <2>1. fromServer' = Append(fromServer, m)
    BY <1>6 DEF Tell
  <2>2. /\ DownLeg' <=> DownLeg \/ m \in Readies
        /\ EachOnce /\ ~(DownLeg /\ m \in Readies) => Once(fromServer, Readies)'
    BY <1>2, <2>1, HasAppend DEF DownLeg, EachOnce
  <2>3. EachOnce' /\ EachOnce
    BY <1>3, <1>5, <1>6, <2>2, ReadyParts DEF EachOnce, AtMostOne
  <2> QED BY <1>3, <1>5, <1>6, <2>2, <2>3, ReadyParts DEF AtMostOne, NoLeg
<1>7. CASE fromServer' = fromServer
  <2>1. (DownLeg' <=> DownLeg) /\ (EachOnce => Once(fromServer, Readies)')
    BY <1>7 DEF DownLeg, EachOnce
  <2>2. EachOnce'
    BY <1>3, <1>5, <2>1, ReadyParts DEF EachOnce
  <2> QED BY <1>3, <1>5, <2>1, <2>2, ReadyParts DEF AtMostOne, NoLeg
<1>8. ASSUME NEW P \in SUBSET Sources, SrvReady(P) PROVE ReadyOnce'
  <2>1. /\ Tell(Msg("ready", None, P \cup {Own})) /\ toServer # <<>>
        /\ Head(toServer) = "announce" /\ toServer' = Tail(toServer)
    BY <1>8 DEF SrvReady, Serve
  <2> QED BY <1>6, <2>1, SaysReady, Kinds
<1>9. ASSUME SrvInit \/ SrvJoin \/ SrvDisconnects \/ SrvLeave
      PROVE  fromServer' = fromServer
             \/ \E t \in {"init", "udp", "joinerror", "disconnected"} : Tell(Plain(t))
  BY <1>9 DEF SrvInit, SrvJoin, SrvDisconnects, SrvLeave
<1>10. ASSUME NEW t \in {"init", "udp", "joinerror", "disconnected"}, Tell(Plain(t))
       PROVE  ReadyOnce'
  BY <1>6, <1>10, SaysPlain, Kinds
<1>11. ASSUME NEW t \in {"joined", "left"}, NEW s \in Sources, SrvEvent(t, s)
       PROVE  ReadyOnce'
  <2>1. Tell(Msg(t, s, {}))
    BY <1>11 DEF SrvEvent
  <2> QED BY <1>6, <2>1, SaysEvent, Kinds
<1>12. CASE SrvGone
  BY <1>7, <1>12 DEF SrvGone
<1> QED BY <1>7, <1>8, <1>9, <1>10, <1>11, <1>12 DEF SrvStep

(* The web socket task passes messages on. *)
LEMMA WsOnce ==
    ASSUME QueueTypes, SetTypes, Holding, ReadyOnce, WsStep \/ WsFails
    PROVE  ReadyOnce'
<1>1. /\ main' = main /\ (Waiting' <=> Waiting)
  BY DEF WsStep, WsSend, WsReceive, WsForward, WsEnds, WsStops, WsFails, mainVars, Waiting,
         Ended
<1>2. CASE WsSend
  <2>1. /\ out \in Seq(ClientMsg) /\ toServer \in Seq(ClientMsg)
        /\ out # <<>> /\ out' = Tail(out) /\ toServer' = Append(toServer, Head(out))
        /\ UNCHANGED <<held, fromServer, inc>>
    BY <1>2 DEF WsSend, QueueTypes, Queue, wsVars
  <2>2. /\ OutLeg <=> Head(out) \in Announcing \/ OutLeg'
        /\ EachOnce => Once(out, Announcing)' /\ ~(Head(out) \in Announcing /\ OutLeg')
    BY <2>1, HasTail DEF OutLeg, EachOnce
  <2>3. Head(out) \in ClientMsg
    BY <2>1, HeadTail
  <2>4. /\ UpLeg' <=> UpLeg \/ Head(out) \in Announcing
        /\ EachOnce /\ ~(UpLeg /\ Head(out) \in Announcing) => Once(toServer, Announcing)'
    BY <2>1, <2>3, HasAppend DEF UpLeg, EachOnce
  <2>5. /\ (DownLeg' <=> DownLeg) /\ (HeldLeg' <=> HeldLeg) /\ (IncLeg' <=> IncLeg)
        /\ EachOnce => Once(fromServer, Readies)' /\ Once(inc, Readies)'
    BY <2>1 DEF DownLeg, HeldLeg, IncLeg, EachOnce
  <2>6. EachOnce /\ EachOnce'
    BY <2>2, <2>4, <2>5, ReadyParts DEF EachOnce, AtMostOne
  <2> QED BY <1>1, <2>2, <2>4, <2>5, <2>6, ReadyParts DEF AtMostOne, NoLeg
<1>3. CASE WsReceive
  <2>1. /\ fromServer \in Seq(ServerMsg) /\ fromServer # <<>>
        /\ fromServer' = Tail(fromServer) /\ held' = Head(fromServer)
        /\ UNCHANGED <<out, toServer, inc>> /\ held = None
    BY <1>3 DEF WsReceive, QueueTypes, mainVars, Holding
  <2>2. /\ DownLeg <=> Head(fromServer) \in Readies \/ DownLeg'
        /\ EachOnce => Once(fromServer, Readies)'
                       /\ ~(Head(fromServer) \in Readies /\ DownLeg')
    BY <2>1, HasTail DEF DownLeg, EachOnce
  <2>3. (HeldLeg' <=> Head(fromServer) \in Readies) /\ ~HeldLeg
    BY <2>1, Kinds DEF HeldLeg
  <2>4. /\ (OutLeg' <=> OutLeg) /\ (UpLeg' <=> UpLeg) /\ (IncLeg' <=> IncLeg)
        /\ EachOnce => /\ Once(out, Announcing)' /\ Once(toServer, Announcing)'
                       /\ Once(inc, Readies)'
    BY <2>1 DEF OutLeg, UpLeg, IncLeg, EachOnce
  <2>5. EachOnce /\ EachOnce'
    BY <2>2, <2>4, ReadyParts DEF EachOnce
  <2> QED BY <1>1, <2>2, <2>3, <2>4, <2>5, ReadyParts DEF AtMostOne, NoLeg
<1>4. CASE WsForward
  <2>1. /\ inc \in Seq(ServerMsg) /\ inc' = Append(inc, held) /\ held' = None
        /\ UNCHANGED <<out, toServer, fromServer>>
        /\ held \in ServerMsg
    BY <1>4 DEF WsForward, QueueTypes, Queue, mainVars, Holding, SetTypes
  <2>2. /\ IncLeg' <=> IncLeg \/ HeldLeg
        /\ EachOnce /\ ~(IncLeg /\ HeldLeg) => Once(inc, Readies)'
    BY <2>1, HasAppend DEF IncLeg, HeldLeg, EachOnce
  <2>3. ~HeldLeg'
    BY <2>1, Kinds DEF HeldLeg
  <2>4. /\ (OutLeg' <=> OutLeg) /\ (UpLeg' <=> UpLeg) /\ (DownLeg' <=> DownLeg)
        /\ EachOnce => /\ Once(out, Announcing)' /\ Once(toServer, Announcing)'
                       /\ Once(fromServer, Readies)'
    BY <2>1 DEF OutLeg, UpLeg, DownLeg, EachOnce
  <2>5. EachOnce /\ EachOnce'
    BY <2>2, <2>4, ReadyParts DEF EachOnce, AtMostOne
  <2> QED BY <1>1, <2>2, <2>3, <2>4, <2>5, ReadyParts DEF AtMostOne, NoLeg
<1>5. ASSUME WsEnds \/ WsStops \/ WsFails
      PROVE  UNCHANGED <<out, toServer, fromServer, held, inc, main>>
  BY <1>5 DEF WsEnds, WsStops, WsFails, CloseSocket, mainVars
<1>6. CASE UNCHANGED <<out, toServer, fromServer, held, inc, main>>
  BY <1>6 DEF ReadyOnce, OnLeg, Ended
<1> QED BY <1>2, <1>3, <1>4, <1>5, <1>6 DEF WsStep

(* The announcement is sent once, and so is the answer. *)
LEMMA ReadySteps ==
    ASSUME QueueTypes, SetTypes, Holding, ReadyOnce, ClientNext
    PROVE  ReadyOnce'
<1>1. ASSUME SendInit \/ SendJoin \/ SendLeave PROVE ReadyOnce'
  <2>1. /\ ~Waiting /\ UNCHANGED <<wsVars, inc, toServer, fromServer>>
        /\ \/ Send("init", "await init") \/ Send("join", "await udp") \/ Send("leave", "stop")
    BY <1>1 DEF SendInit, SendJoin, SendLeave, Waiting, Ended
  <2>2. "init" \in ClientMsg /\ "join" \in ClientMsg /\ "leave" \in ClientMsg
    BY DEF ClientMsg
  <2>3. CASE Send("init", "await init")
    BY <2>1, <2>2, <2>3, SendOnce, Kinds
  <2>4. CASE Send("join", "await udp")
    BY <2>1, <2>2, <2>4, SendOnce, Kinds
  <2>5. CASE Send("leave", "stop")
    BY <2>1, <2>2, <2>5, SendOnce, Kinds
  <2> QED BY <2>1, <2>3, <2>4, <2>5
<1>2. CASE SendAnnounce
  <2>1. /\ ~Waiting /\ UNCHANGED <<wsVars, inc, toServer, fromServer>>
        /\ Send("announce", "await ready")
    BY <1>2 DEF SendAnnounce, Waiting, Ended
  <2>2. "announce" \in ClientMsg
    BY DEF ClientMsg
  <2> QED BY <2>1, <2>2, SendOnce
<1>3. ASSUME TakeAwaited \/ TakeEvent PROVE ReadyOnce'
  <2>1. /\ inc # <<>> /\ inc' = Tail(inc) /\ ~Waiting
        /\ UNCHANGED <<wsVars, out, toServer, fromServer>>
    BY <1>3 DEF TakeAwaited, TakeEvent, Waiting, Ended
  <2> QED BY <2>1, TakeOnce
<1>4. CASE TakeReady
  <2>1. /\ inc # <<>> /\ inc' = Tail(inc)
        /\ UNCHANGED <<wsVars, out, toServer, fromServer>>
        /\ main' = "failed" \/ Head(inc).type = "ready"
    BY <1>4 DEF TakeReady, Goto
  <2>2. Head(inc) \in ServerMsg
    BY <2>1, HeadTail DEF QueueTypes, Queue
  <2>3. ~Waiting' => Head(inc) \in Readies
    BY <2>1, <2>2, Kinds DEF Waiting, Ended
  <2> QED BY <2>1, <2>3, TakeOnce
<1>5. CASE /\ UNCHANGED <<out, toServer, fromServer, held, inc>>
           /\ ~Waiting' => ~Waiting
  <2>1. (EachOnce' <=> EachOnce) /\ (NoLeg' <=> NoLeg) /\ (AtMostOne' <=> AtMostOne)
    BY <1>5 DEF EachOnce, AtMostOne, NoLeg, OutLeg, UpLeg, DownLeg, HeldLeg, IncLeg
  <2> QED BY <1>5, <2>1, ReadyParts
<1>6. ASSUME \/ StreamEnds \/ Discover \/ DiscoveryFails \/ TakeAnswer \/ AnswerTimesOut
             \/ (\E e \in hand : Feed(e)) \/ Fed \/ UserStops \/ AskStop \/ Stopped
             \/ StopFails
      PROVE  /\ UNCHANGED <<out, toServer, fromServer, held, inc>>
             /\ ~Waiting' => ~Waiting
  BY <1>6 DEF StreamEnds, Discover, DiscoveryFails, TakeAnswer, AnswerTimesOut, Feed, Fed,
              UserStops, AskStop, Stopped, StopFails, Goto, wsVars, Waiting, Ended
<1>7. ASSUME AnswerArrives \/ RxStep \/ RxFails \/ \E s \in current : StreamBreaks(s) \/ RxVoice(s)
      PROVE  UNCHANGED <<out, toServer, fromServer, held, inc, main>>
  BY <1>7 DEF AnswerArrives, RxStep, TakeVoiceEvent, RxAnswer, PlayerStarts, RxFails,
              StreamBreaks, RxVoice, RxEnd, mainVars, wsVars
<1>8. ASSUME UNCHANGED <<out, toServer, fromServer, held, inc, main>>
      PROVE  /\ UNCHANGED <<out, toServer, fromServer, held, inc>>
             /\ ~Waiting' => ~Waiting
  BY <1>8 DEF Waiting, Ended
<1> QED BY <1>1, <1>2, <1>3, <1>4, <1>5, <1>6, <1>7, <1>8, WsOnce, SrvOnce
        DEF ClientNext, MainStep

-----------------------------------------------------------------------------
(* udp_rx's streams follow what the gateway tells. *)

(* The queues are of messages. *)
LEMMA QueuesTalk ==
    ASSUME QueueTypes, SetTypes
    PROVE  /\ voiceq \in Seq(Talk) /\ inc \in Seq(Talk) /\ fromServer \in Seq(Talk)
           /\ hand \subseteq Talk /\ held \in Talk \cup {None}
<1>1. \A q : q \in Seq(VoiceEvent) \/ q \in Seq(ServerMsg) => q \in Seq(Talk)
  <2>1. ASSUME NEW S \in SUBSET Talk, NEW q \in Seq(S) PROVE q \in Seq(Talk)
    OBVIOUS
  <2>2. VoiceEvent \subseteq Talk /\ ServerMsg \subseteq Talk
    BY DEF Talk
  <2> QED BY <2>1, <2>2
<1> QED BY <1>1 DEF QueueTypes, Queue, SetTypes, Talk

(* main takes a message that tells of nobody, or hands on what it tells. *)
LEMMA MainTakes ==
    ASSUME QueueTypes, SetTypes, inc # <<>>, inc' = Tail(inc),
           Handed(AtReceiver, hand)' = Applied(Handed(AtReceiver, hand), Head(inc)),
           UNCHANGED <<held, fromServer>>
    PROVE  After(AtSocket, fromServer)' = After(AtSocket, fromServer)
<1>1. inc \in Seq(Talk)
  BY QueuesTalk
<1>2. AtMain' = AtMain
  BY <1>1, AfterTail DEF AtMain
<1> QED BY <1>2 DEF AtSocket

(* Nothing is taken, or udp_rx has taken or been handed an event. *)
LEMMA SameView ==
    ASSUME Handed(AtReceiver, hand)' = Handed(AtReceiver, hand),
           UNCHANGED <<inc, held, fromServer>>
    PROVE  After(AtSocket, fromServer)' = After(AtSocket, fromServer)
BY DEF AtMain, AtSocket

(* What the listing leaves to hand on is what it tells. *)
LEMMA ReadyTakes ==
    ASSUME QueueTypes, SetTypes, StartsReady, TakeReady, ~Ended'
    PROVE  Handed(AtReceiver, hand)' = Applied(Handed(AtReceiver, hand), Head(inc))
<1>1. /\ main = "await ready" /\ Head(inc).type = "ready"
      /\ hand' = {Msg("present", s, {}) : s \in Head(inc).present \ {Own}}
      /\ UNCHANGED <<current, voiceq>>
  BY DEF TakeReady, Goto, Ended, NewSources
<1>2. current = {} /\ voiceq = <<>>
  BY <1>1 DEF StartsReady, Handshakes
<1>3. AtReceiver' = {}
  BY <1>1, <1>2, AfterNothing DEF AtReceiver
<1>4. Handed(AtReceiver, hand)' = Head(inc).present \ {Own}
  BY <1>1, <1>3, HandedListing
<1> QED BY <1>1, <1>4 DEF Applied

(* A join or a leave is handed on, any other message tells of nobody. *)
LEMMA EventTakes ==
    ASSUME QueueTypes, SetTypes, StartsReady, ReadyOnce, TakeAwaited \/ TakeEvent, ~Ended'
    PROVE  Handed(AtReceiver, hand)' = Applied(Handed(AtReceiver, hand), Head(inc))
<1> DEFINE m == Head(inc)
<1>1. inc \in Seq(ServerMsg) /\ inc # <<>>
  BY DEF QueueTypes, Queue, TakeAwaited, TakeEvent
<1>2. m \in ServerMsg /\ m \in Talk
  BY <1>1, HeadTail DEF Talk
<1>3. m.type # "ready"
  <2>1. ~IncLeg
    BY ReadyParts DEF TakeAwaited, TakeEvent, Waiting, Ended, NoLeg
  <2> QED BY <1>1, <1>2, <2>1, HasTail, Kinds DEF IncLeg
<1>4. hand = {} /\ UNCHANGED <<current, voiceq>>
  BY DEF StartsReady, TakeAwaited, TakeEvent, rxVars
<1>5. AtReceiver' = AtReceiver
  BY <1>4 DEF AtReceiver
<1>6. Handed(AtReceiver, hand) = AtReceiver
  BY <1>4, HandedNone
<1>7. CASE m.type \in {"joined", "left"}
  <2>1. hand' = {m} /\ m \in VoiceEvent
    <3>1. CASE TakeEvent
      BY <1>2, <1>7, <3>1, Spoken DEF TakeEvent
    <3>2. CASE TakeAwaited
      BY <1>7, <3>2 DEF TakeAwaited, Awaited, Goto, Ended
    <3> QED BY <3>1, <3>2
  <2>2. Handed(AtReceiver, hand)' = Applied(AtReceiver, m)
    BY <1>5, <2>1, HandedOne
  <2> QED BY <1>6, <2>2
<1>8. CASE m.type \notin {"joined", "left"}
  <2>1. hand' = {}
    BY <1>4, <1>8 DEF TakeAwaited, TakeEvent, Goto
  <2>2. Applied(AtReceiver, m) = AtReceiver
    BY <1>2, <1>3, <1>8, Spoken DEF Applied
  <2>3. Handed(AtReceiver, hand)' = AtReceiver
    BY <1>5, <2>1, HandedNone
  <2> QED BY <1>6, <2>2, <2>3
<1> QED BY <1>7, <1>8

(* main hands on an event. *)
LEMMA FeedView ==
    ASSUME QueueTypes, SetTypes, HandApart, NEW e \in hand, Feed(e), receiver = "running"
    PROVE  Handed(AtReceiver, hand)' = Handed(AtReceiver, hand)
<1>1. /\ hand' = hand \ {e} /\ voiceq' = Append(voiceq, e) /\ current' = current
  BY DEF Feed, rxVars
<1>2. voiceq \in Seq(Talk) /\ e \in Talk /\ hand \in SUBSET VoiceEvent
  BY QueuesTalk DEF SetTypes
<1>3. AtReceiver' = Applied(AtReceiver, e)
  BY <1>1, <1>2, AfterAppend DEF AtReceiver
<1> QED BY <1>1, <1>2, <1>3, HandedFirst DEF HandApart

(* The gateway speaks. *)
LEMMA SrvView ==
    ASSUME QueueTypes, SetTypes, SrvStep, After(AtSocket, fromServer) = told
    PROVE  After(AtSocket, fromServer)' = told'
<1>1. UNCHANGED <<current, voiceq, hand, inc, held>>
  BY DEF SrvStep, SrvInit, SrvJoin, SrvReady, SrvEvent, SrvDisconnects, SrvLeave, SrvGone,
         mainVars, wsVars, rxVars
<1>2. AtSocket' = AtSocket
  BY <1>1 DEF AtSocket, AtMain, AtReceiver
<1>3. UNCHANGED <<fromServer, told>> \/ \E m \in ServerMsg : Tell(m)
  BY SaysPlain, SaysReady, SaysEvent
  DEF SrvStep, SrvInit, SrvJoin, SrvReady, SrvEvent, SrvDisconnects, SrvLeave, SrvGone
<1>4. ASSUME NEW m \in ServerMsg, Tell(m) PROVE After(AtSocket, fromServer)' = told'
  <2>1. fromServer \in Seq(Talk) /\ m \in Talk
    BY QueuesTalk DEF Talk
  <2> QED BY <1>2, <1>4, <2>1, AfterAppend DEF Tell
<1> QED BY <1>2, <1>3, <1>4

(* The web socket task passes a message on. *)
LEMMA WsView ==
    ASSUME QueueTypes, SetTypes, Holding, WsSend \/ WsReceive \/ WsForward
    PROVE  After(AtSocket, fromServer)' = After(AtSocket, fromServer) /\ told' = told
<1>0. UNCHANGED <<current, voiceq, hand, told>>
  BY DEF WsSend, WsReceive, WsForward, mainVars, srvVars, rxVars
<1>1. Handed(AtReceiver, hand)' = Handed(AtReceiver, hand)
  BY <1>0 DEF AtReceiver
<1>2. CASE WsSend
  BY <1>0, <1>1, <1>2, SameView DEF WsSend, wsVars
<1>3. CASE WsReceive
  <2>1. /\ held = None /\ held' = Head(fromServer) /\ fromServer # <<>>
        /\ fromServer' = Tail(fromServer) /\ inc' = inc
    BY <1>3 DEF WsReceive, Holding
  <2>2. fromServer \in Seq(Talk) /\ Head(fromServer) # None
    BY <2>1, QueuesTalk, HeadTail, NoneIsNoMessage DEF QueueTypes
  <2>3. AtMain' = AtMain
    BY <1>1, <2>1 DEF AtMain
  <2>4. AtSocket = AtMain /\ AtSocket' = Applied(AtMain, Head(fromServer))
    BY <2>1, <2>2, <2>3 DEF AtSocket
  <2> QED BY <1>0, <2>1, <2>2, <2>4, AfterTail
<1>4. CASE WsForward
  <2>1. /\ held # None /\ held' = None /\ inc' = Append(inc, held)
        /\ fromServer' = fromServer
    BY <1>4 DEF WsForward, Holding
  <2>2. inc \in Seq(Talk) /\ held \in Talk
    BY <2>1, QueuesTalk
  <2>3. AtMain' = Applied(AtMain, held)
    BY <1>1, <2>1, <2>2, AfterAppend DEF AtMain
  <2>4. AtSocket' = AtSocket
    BY <2>1, <2>3 DEF AtSocket
  <2> QED BY <1>0, <2>1, <2>4
<1> QED BY <1>2, <1>3, <1>4

(* Who has ended stays ended, as a closed socket and a failed udp_rx do. *)
LEMMA Goes ==
    ASSUME StateTypes, StartsReady, ClientNext
    PROVE  /\ Ended => Ended'
           /\ ws = "closed" => ws' = "closed"
           /\ receiver \in {"ended", "todo", "ded"} => receiver' \in {"ended", "todo", "ded"}
<1>1. ASSUME MainStep \/ UserStops
      PROVE  ~Ended /\ ws' = ws
  BY <1>1 DEF Ended, MainStep, UserStops, SendInit, SendJoin, SendAnnounce, TakeAwaited,
              StreamEnds, Discover, DiscoveryFails, TakeAnswer, AnswerTimesOut, TakeReady,
              Fed, TakeEvent, Feed, SendLeave, AskStop, Stopped, StopFails, wsVars
<1>2. ASSUME MainStep \/ UserStops
      PROVE  receiver' = receiver \/ receiver = "none"
  <2>1. CASE TakeReady
    BY <2>1 DEF TakeReady, StartsReady, Handshakes
  <2>2. CASE ~TakeReady
    BY <1>2, <2>2 DEF MainStep, UserStops, SendInit, SendJoin, SendAnnounce, TakeAwaited,
                StreamEnds, Discover, DiscoveryFails, TakeAnswer, AnswerTimesOut,
                Fed, TakeEvent, Feed, SendLeave, AskStop, Stopped, StopFails, rxVars
  <2> QED BY <2>1, <2>2
<1>3. ASSUME WsStep \/ WsFails
      PROVE  main' = main /\ receiver' = receiver /\ ws # "closed"
  BY <1>3 DEF WsStep, WsSend, WsReceive, WsForward, WsEnds, WsStops, WsFails, mainVars,
              rxVars
<1>4. ASSUME AnswerArrives \/ SrvStep
      PROVE  main' = main /\ ws' = ws /\ receiver' = receiver
  BY <1>4 DEF AnswerArrives, SrvStep, SrvInit, SrvJoin, SrvReady, SrvEvent,
              SrvDisconnects, SrvLeave, SrvGone, mainVars, wsVars, rxVars
<1>5. ASSUME RxStep \/ RxFails \/ \E s \in current : StreamBreaks(s) \/ RxVoice(s)
      PROVE  main' = main /\ ws' = ws
             /\ (receiver' = receiver \/ receiver' \in {"ended", "todo", "ded"})
  BY <1>5 DEF RxStep, TakeVoiceEvent, RxAnswer, PlayerStarts, RxFails, StreamBreaks, RxVoice, RxEnd,
              mainVars, wsVars
<1> QED BY <1>1, <1>2, <1>3, <1>4, <1>5 DEF ClientNext, Ended

(* No step lets the streams and what is on its way disagree with the gateway. *)
LEMMA ViewSteps ==
    ASSUME ClientIInv, ClientNext
    PROVE  ViewFollows'
<1> SUFFICES ASSUME Follows' PROVE After(AtSocket, fromServer)' = told'
  BY DEF ViewFollows
<1>1. /\ QueueTypes /\ SetTypes /\ StateTypes /\ StartsReady /\ HandApart /\ Holding
      /\ ReadyOnce /\ ViewFollows
  BY ClientTypeParts DEF ClientIInv
<1>2. /\ ~Ended' /\ ws' # "closed" /\ receiver' \in {"none", "running"}
  BY DEF Follows
<1>3. ~Ended /\ ws # "closed" /\ receiver \in {"none", "running"}
  <2>1. /\ ~Ended /\ ws # "closed" /\ receiver \notin {"ended", "todo", "ded"}
    BY <1>1, <1>2, Goes
  <2> QED BY <1>1, <2>1 DEF StateTypes
<1>4. After(AtSocket, fromServer) = told
  BY <1>1, <1>3 DEF ViewFollows, Follows
<1>5. CASE TakeReady
  <2>1. inc # <<>> /\ inc' = Tail(inc) /\ UNCHANGED <<held, fromServer, told>>
    BY <1>5 DEF TakeReady, wsVars, srvVars
  <2> QED BY <1>1, <1>2, <1>4, <1>5, <2>1, ReadyTakes, MainTakes
<1>6. CASE TakeAwaited \/ TakeEvent
  <2>1. inc # <<>> /\ inc' = Tail(inc) /\ UNCHANGED <<held, fromServer, told>>
    BY <1>6 DEF TakeAwaited, TakeEvent, wsVars, srvVars
  <2> QED BY <1>1, <1>2, <1>4, <1>6, <2>1, EventTakes, MainTakes
<1>7. ASSUME NEW e \in hand, Feed(e) PROVE After(AtSocket, fromServer)' = told'
  <2>1. receiver = "running"
    BY <1>1, <1>3, <1>7 DEF Feed, StartsReady, Handshakes, Ended
  <2>2. UNCHANGED <<inc, held, fromServer, told>>
    BY <1>7 DEF Feed, wsVars, srvVars
  <2> QED BY <1>1, <1>4, <1>7, <2>1, <2>2, FeedView, SameView
<1>8. CASE TakeVoiceEvent
  <2>1. /\ voiceq # <<>> /\ voiceq' = Tail(voiceq)
        /\ current' = Applied(current, Head(voiceq))
        /\ UNCHANGED <<hand, inc, held, fromServer, told>>
    BY <1>8 DEF TakeVoiceEvent, mainVars, wsVars, srvVars
  <2>2. AtReceiver' = AtReceiver
    BY <1>1, <2>1, QueuesTalk, AfterTail DEF AtReceiver
  <2> QED BY <1>4, <2>1, <2>2, SameView
<1>9. CASE WsSend \/ WsReceive \/ WsForward
  BY <1>1, <1>4, <1>9, WsView
<1>10. CASE SrvStep
  BY <1>1, <1>4, <1>10, SrvView
<1>11. ASSUME \/ SendInit \/ SendJoin \/ SendAnnounce \/ StreamEnds
              \/ Discover \/ DiscoveryFails \/ TakeAnswer \/ AnswerTimesOut
              \/ Fed \/ SendLeave \/ AskStop \/ Stopped \/ StopFails \/ UserStops
       PROVE  UNCHANGED <<hand, inc, held, fromServer, told, voiceq, current>>
  BY <1>11 DEF SendInit, SendJoin, SendAnnounce, Send, Goto, StreamEnds, Discover,
               DiscoveryFails, TakeAnswer, AnswerTimesOut, Fed, SendLeave, AskStop,
               Stopped, StopFails, UserStops, wsVars, srvVars, rxVars
<1>12. ASSUME PlayerStarts \/ AnswerArrives \/ \E s \in current : StreamBreaks(s)
       PROVE  UNCHANGED <<hand, inc, held, fromServer, told, voiceq, current>>
  BY <1>12 DEF PlayerStarts, AnswerArrives, StreamBreaks, mainVars, wsVars, srvVars, rxVars
<1>13. CASE UNCHANGED <<hand, inc, held, fromServer, told, voiceq, current>>
  BY <1>4, <1>13, SameView DEF AtReceiver
<1>14. ~(WsEnds \/ WsStops \/ WsFails)
  BY <1>2 DEF WsEnds, WsStops, WsFails, CloseSocket
<1>15. ~(RxAnswer \/ RxFails \/ \E s \in current : RxVoice(s))
  BY <1>2 DEF RxAnswer, RxFails, RxVoice, RxEnd
<1> QED BY <1>5, <1>6, <1>7, <1>8, <1>9, <1>10, <1>11, <1>12, <1>13, <1>14, <1>15
        DEF ClientNext, MainStep, WsStep, RxStep

-----------------------------------------------------------------------------
(* The client starts with nothing to say and nothing to hear. *)
LEMMA InitClient == ClientInit => ClientIInv
<1> SUFFICES ASSUME ClientInit PROVE ClientIInv
  OBVIOUS
<1>1. ClientTypeOK
  BY LimitsPositive, RepeatsNat DEF ClientInit, ClientTypeOK
<1>2. StartsReady /\ HandApart /\ OthersOnly /\ Holding /\ TodoNeedsRepeat
  BY DEF ClientInit, StartsReady, Handshakes, HandApart, OthersOnly, Holding,
         TodoNeedsRepeat
<1>3. AnswersCounted
  BY DEF ClientInit, AnswersCounted
<1>4. ReadyOnce
  <2>1. /\ out = <<>> /\ inc = <<>> /\ toServer = <<>> /\ fromServer = <<>>
        /\ held = None
    BY DEF ClientInit
  <2>2. \A S : ~Has(<<>>, S) /\ Once(<<>>, S)
    BY DEF Has, Once
  <2>3. None \notin Readies
    BY NoneIsNoMessage DEF Readies
  <2>4. \A l \in Legs : ~OnLeg(l)
    BY <2>1, <2>2, <2>3 DEF OnLeg, Legs
  <2> QED BY <2>1, <2>2, <2>4 DEF ReadyOnce
<1>5. ViewFollows
  <2>1. /\ inc = <<>> /\ fromServer = <<>> /\ voiceq = <<>> /\ hand = {}
        /\ current = {} /\ told = {} /\ held = None
    BY DEF ClientInit
  <2>2. AtReceiver = {}
    BY <2>1, AfterNothing DEF AtReceiver
  <2>3. Handed(AtReceiver, hand) = {}
    BY <2>1, <2>2, HandedNone
  <2>4. AtSocket = {}
    BY <2>1, <2>3, AfterNothing DEF AtMain, AtSocket
  <2> QED BY <2>1, <2>4, AfterNothing DEF ViewFollows
<1> QED BY <1>1, <1>2, <1>3, <1>4, <1>5 DEF ClientIInv

(* No step of the client, of the gateway or of the network breaks it. *)
LEMMA StepClient == ClientIInv /\ [ClientNext]_clientVars => ClientIInv'
<1>1. ASSUME ClientIInv, ClientNext PROVE ClientIInv'
  <2>1. /\ QueueTypes /\ NumberTypes /\ SetTypes /\ StateTypes /\ StartsReady
        /\ HandApart /\ OthersOnly /\ Holding /\ AnswersCounted /\ ReadyOnce
        /\ TodoNeedsRepeat
    BY <1>1, ClientTypeParts DEF ClientIInv
  <2>2. ClientTypeOK'
    BY <1>1, <2>1, QueueSteps, NumberSteps, SetSteps, StateSteps, ClientTypeParts
  <2>3. StartsReady' /\ Holding'
    BY <1>1, <2>1, StartsSteps, HoldingSteps
  <2>4. HandApart' /\ OthersOnly'
    BY <1>1, <2>1, HandSteps
  <2>5. AnswersCounted' /\ TodoNeedsRepeat'
    BY <1>1, <2>1, AnswerSteps, TodoSteps
  <2>6. ReadyOnce'
    BY <1>1, <2>1, ReadySteps
  <2>7. ViewFollows'
    BY <1>1, ViewSteps
  <2> QED BY <2>2, <2>3, <2>4, <2>5, <2>6, <2>7 DEF ClientIInv
<1>2. ASSUME ClientIInv, UNCHANGED clientVars PROVE ClientIInv'
  <2>1. ClientTypeOK'
    <3>1. QueueTypes /\ NumberTypes /\ SetTypes /\ StateTypes
      BY <1>2, ClientTypeParts DEF ClientIInv
    <3>2. QueueTypes' /\ NumberTypes'
      BY <1>2, <3>1 DEF QueueTypes, NumberTypes, clientVars, mainVars, udpVars, srvVars
    <3>3. SetTypes' /\ StateTypes'
      BY <1>2, <3>1 DEF SetTypes, StateTypes, clientVars, mainVars, wsVars, srvVars, rxVars
    <3> QED BY <3>2, <3>3, ClientTypeParts
  <2>2. StartsReady' /\ HandApart' /\ OthersOnly' /\ Holding' /\ AnswersCounted'
        /\ TodoNeedsRepeat'
    BY <1>2 DEF ClientIInv, StartsReady, HandApart, OthersOnly, Holding,
                AnswersCounted, TodoNeedsRepeat, clientVars, mainVars, udpVars,
                wsVars, rxVars
  <2>3. UNCHANGED <<main, out, inc, toServer, fromServer, held, current, voiceq,
                    hand, told, receiver, ws>>
    BY <1>2 DEF clientVars, mainVars, wsVars, srvVars, rxVars
  <2>4. ReadyOnce'
    BY <1>2, <2>3 DEF ClientIInv, ReadyOnce, OnLeg, Ended
  <2>5. ViewFollows'
    BY <1>2, <2>3 DEF ClientIInv, ViewFollows, Follows, Ended, AtSocket, AtMain,
                      AtReceiver
  <2> QED BY <2>1, <2>2, <2>4, <2>5 DEF ClientIInv
<1> QED BY <1>1, <1>2

(* The client keeps its inductive invariant, whatever the gateway and the network
   do. *)
THEOREM ClientInvariant == ClientSpec => []ClientIInv
BY InitClient, StepClient, PTL DEF ClientSpec

(* Every variable of the client keeps its type, and no queue between its tasks grows
   beyond its limit. *)
THEOREM ClientTypeCorrect == ClientSpec => []ClientTypeOK
<1>1. ClientIInv => ClientTypeOK
  BY DEF ClientIInv
<1> QED BY <1>1, ClientInvariant, PTL

(* The streams udp_rx keeps, with what is still on its way to it, are always those
   of the clients the gateway has told of. *)
THEOREM StreamsFollow == ClientSpec => []ViewFollows
<1>1. ClientIInv => ViewFollows
  BY DEF ClientIInv
<1> QED BY <1>1, ClientInvariant, PTL

(* udp_rx never comes to its todo!() for an answer to the address discovery unless the
   client has asked more than once or the network has repeated a datagram. *)
THEOREM PanicExplained == ClientSpec => []TodoNeedsRepeat
<1>1. ClientIInv => TodoNeedsRepeat
  BY DEF ClientIInv
<1> QED BY <1>1, ClientInvariant, PTL
=============================================================================
