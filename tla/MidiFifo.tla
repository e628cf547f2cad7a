------------------------------ MODULE MidiFifo ------------------------------
(***************************************************************************)
(* The ring buffer behind the processor's three event FIFOs (UI notes to   *)
(* the audio thread; controllers and external notes to the editor).  One   *)
(* producer and one consumer; every access of a shared atomic and of a     *)
(* slot is a step of its own.  A producer that finds the ring full moves   *)
(* the consumer's position itself.                                         *)
(***************************************************************************)
EXTENDS Integers, Sequences

CONSTANTS Slots,     \* kUiMidiFifoSize: a ring of Slots holds Slots - 1 events
          MaxEvents  \* bound on the events pushed

ASSUME FifoAssumption == Slots \in Nat \ {0, 1} /\ MaxEvents \in Nat

VARIABLES slots, writePos, readPos,  \* the ring and its two atomic positions
          ppc,        \* where the producer is in push
          oldest,     \* the readPos a full push loaded
          pushed,     \* the number of pushes begun; the n-th pushes event n
          cpc,        \* where the consumer is in pop
          position,   \* the readPos a pop loaded
          out,        \* the event a pop copied
          delivered,  \* the events popped so far, in order
          overlapped  \* room was made within a pop, and the ring has not run empty since

ring == <<slots, writePos, readPos>>
producer == <<ppc, oldest, pushed>>
consumer == <<cpc, position, out, delivered>>
fifo == <<ring, producer, consumer, overlapped>>

Positions == 0 .. Slots - 1
Events == 0 .. MaxEvents    \* 0: a slot that was never written

TypeOK ==
  /\ slots \in [Positions -> Events]
  /\ writePos \in Positions /\ readPos \in Positions
  /\ ppc \in {"idle", "full", "drop", "write", "publish"}
  /\ oldest \in Positions
  /\ pushed \in Events
  /\ cpc \in {"idle", "check", "read", "advance"}
  /\ position \in Positions
  /\ out \in Events
  /\ delivered \in Seq(Events)
  /\ overlapped \in BOOLEAN

Init ==
  /\ slots = [p \in Positions |-> 0] /\ writePos = 0 /\ readPos = 0
  /\ ppc = "idle" /\ oldest = 0 /\ pushed = 0
  /\ cpc = "idle" /\ position = 0 /\ out = 0 /\ delivered = <<>>
  /\ overlapped = FALSE

After(p) == (p + 1) % Slots

-----------------------------------------------------------------------------
(* push: compare the next write position with the read position; when they *)
(* meet, load the read position again and store it one further; write the  *)
(* slot; publish the write position.                                       *)

\* Mutant: nothing makes room.
PushBegin_NeverFull ==
  /\ ppc = "idle" /\ pushed < MaxEvents
  /\ pushed' = pushed + 1
  /\ ppc' = "write"
  /\ UNCHANGED <<ring, oldest, consumer>>

PushBegin ==
  /\ ppc = "idle" /\ pushed < MaxEvents
  /\ pushed' = pushed + 1
  /\ ppc' = IF After(writePos) = readPos THEN "full" ELSE "write"
  /\ UNCHANGED <<ring, oldest, consumer>>

PushLoadOldest ==
  /\ ppc = "full"
  /\ oldest' = readPos
  /\ ppc' = "drop"
  /\ UNCHANGED <<ring, pushed, consumer>>

PushDropOldest ==
  /\ ppc = "drop"
  /\ readPos' = After(oldest)
  /\ ppc' = "write"
  /\ UNCHANGED <<slots, writePos, oldest, pushed, consumer>>

PushWrite ==
  /\ ppc = "write"
  /\ slots' = [slots EXCEPT ![writePos] = pushed]
  /\ ppc' = "publish"
  /\ UNCHANGED <<writePos, readPos, oldest, pushed, consumer>>

PushPublish ==
  /\ ppc = "publish"
  /\ writePos' = After(writePos)
  /\ ppc' = "idle"
  /\ UNCHANGED <<slots, readPos, oldest, pushed, consumer>>

\* What the history remembers of a step of either side.
Remember ==
  overlapped' = IF cpc = "check" /\ cpc' = "idle" /\ readPos = writePos /\ ppc = "idle" THEN FALSE
                ELSE overlapped \/ (ppc' \in {"full", "drop"} /\ cpc' # "idle")

Push ==
  /\ PushBegin \/ PushLoadOldest \/ PushDropOldest \/ PushWrite \/ PushPublish
  /\ Remember

-----------------------------------------------------------------------------
(* pop: load the read position, return false when the ring is empty, copy  *)
(* the slot, store the loaded position one further.                        *)

PopLoad ==
  /\ cpc = "idle"
  /\ position' = readPos
  /\ cpc' = "check"
  /\ UNCHANGED <<ring, producer, out, delivered>>

PopEmpty ==
  /\ cpc = "check" /\ position = writePos
  /\ cpc' = "idle"
  /\ UNCHANGED <<ring, producer, position, out, delivered>>

PopFound ==
  /\ cpc = "check" /\ position # writePos
  /\ cpc' = "read"
  /\ UNCHANGED <<ring, producer, position, out, delivered>>

PopCopy ==
  /\ cpc = "read"
  /\ out' = slots[position]
  /\ cpc' = "advance"
  /\ UNCHANGED <<ring, producer, position, delivered>>

PopAdvance ==
  /\ cpc = "advance"
  /\ readPos' = After(position)
  /\ delivered' = Append(delivered, out)
  /\ cpc' = "idle"
  /\ UNCHANGED <<slots, writePos, producer, position, out>>

Pop ==
  /\ PopLoad \/ PopEmpty \/ PopFound \/ PopCopy \/ PopAdvance
  /\ Remember

-----------------------------------------------------------------------------
Next == Push \/ Pop

Spec == Init /\ [][Next]_fifo

-----------------------------------------------------------------------------
(* Properties *)

\* The events that wait.
Backlog == [i \in 1 .. (writePos - readPos) % Slots |-> slots[(readPos + i - 1) % Slots]]

Accepted == IF ppc = "idle" THEN pushed ELSE pushed - 1

Queue == INSTANCE DropOldestQueue WITH
  Capacity <- Slots - 1, queue <- Backlog, delivered <- delivered,
  pushed <- Accepted

\* "If full, drop oldest": an event that makes room for itself is not lost with those before it.
\* Not so when the consumer drains the ring before the producer loads the position it is about to
\* move, nor when two full pushes fall within a pop, which then stores an older position over
\* theirs: each time the read position and the write position meet, and the backlog is gone.
NewestIsKept ==
  ppc = "idle" /\ cpc = "idle" /\ pushed > 0 =>
    (\E i \in DOMAIN delivered : delivered[i] = pushed) \/ (\E i \in DOMAIN Backlog : Backlog[i] = pushed)

\* The ring is a queue that loses its oldest event, and nothing else, to make room: until a pop
\* overlaps the making of room, and again once it has run empty, so that nothing of the overlap
\* stays behind in the ring.
QueueUnlessOverlapped == Queue!Init /\ [][~overlapped => [Queue!Next]_(Queue!vars)]_fifo

-----------------------------------------------------------------------------
(* The inductive invariant.                                                *)

\* The consumer moves on from where the ring begins, and what it copied is the oldest event.
PopIsOldest ==
  /\ cpc # "idle" => position = readPos
  /\ cpc \in {"read", "advance"} => readPos # writePos
  /\ cpc = "advance" => out = slots[readPos]

\* Room is made in a full ring only, and what is written lies outside of the backlog.
RoomIsMade ==
  /\ ppc \in {"full", "drop"} => After(writePos) = readPos /\ cpc = "idle"
  /\ ppc = "drop" => oldest = readPos
  /\ ppc \in {"write", "publish"} => After(writePos) # readPos
  /\ ppc = "publish" => slots[writePos] = pushed

\* The events that wait are some of those accepted, the oldest first.
InOrder ==
  /\ \A i \in 1 .. Len(Backlog) : Backlog[i] \in 1 .. Accepted
  /\ \A i, j \in 1 .. Len(Backlog) : i < j => Backlog[i] < Backlog[j]

\* No event comes before it was pushed, whatever overlaps.
NothingInvented ==
  /\ ppc # "idle" => pushed > 0
  /\ \A p \in Positions : slots[p] <= pushed
  /\ out <= pushed

RingInv == TypeOK /\ NothingInvented /\ (~overlapped => PopIsOldest /\ RoomIsMade /\ InOrder)

=============================================================================
