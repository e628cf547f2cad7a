-------------------------- MODULE DropOldestQueue --------------------------
(***************************************************************************)
(* What the MIDI FIFOs promise: events leave in the order they came; when  *)
(* the queue is full the oldest one makes room, and nothing else is lost.  *)
(***************************************************************************)
EXTENDS Naturals, Sequences

CONSTANT Capacity

VARIABLES queue,      \* the events that wait, oldest first
          delivered,  \* the events the consumer got, in order
          pushed      \* the number of events accepted; event n is the n-th

vars == <<queue, delivered, pushed>>

Init == queue = <<>> /\ delivered = <<>> /\ pushed = 0

DropOldest == /\ Len(queue) = Capacity
              /\ queue' = Tail(queue)
              /\ UNCHANGED <<delivered, pushed>>

Push == /\ Len(queue) < Capacity
        /\ pushed' = pushed + 1
        /\ queue' = Append(queue, pushed + 1)
        /\ UNCHANGED delivered

Pop == /\ queue # <<>>
       /\ delivered' = Append(delivered, Head(queue))
       /\ queue' = Tail(queue)
       /\ UNCHANGED pushed

Next == DropOldest \/ Push \/ Pop

Spec == Init /\ [][Next]_vars

=============================================================================
