-------------------------- MODULE SnapshotRegister --------------------------
(***************************************************************************)
(* What a snapshot cell promises its users: a register whose outermost     *)
(* guard takes the value published last, whose nested guards repeat the    *)
(* outer one, and whose storage keeps every value that is current or       *)
(* guarded and may drop any other at any time.                             *)
(***************************************************************************)
EXTENDS Integers, Sequences

CONSTANTS Roles, Snapshots, Null

VARIABLES value,  \* the value published last
          view,   \* the guards of each role, outermost first
          alive   \* the values whose storage is retained

vars == <<value, view, alive>>

Held(r) == {view[r][i] : i \in 1 .. Len(view[r])}

Init ==
  /\ value = Null
  /\ view = [r \in Roles |-> <<>>]
  /\ alive = {}

Publish(s) ==
  /\ s \notin alive
  /\ value' = s
  /\ alive' = alive \cup ({s} \ {Null})
  /\ UNCHANGED view

Acquire(r) ==
  /\ view' = [view EXCEPT ![r] = Append(@, IF @ = <<>> THEN value ELSE @[1])]
  /\ UNCHANGED <<value, alive>>

Release(r) ==
  /\ view[r] # <<>>
  /\ view' = [view EXCEPT ![r] = SubSeq(@, 1, Len(@) - 1)]
  /\ UNCHANGED <<value, alive>>

Reclaim(s) ==
  /\ s \in alive
  /\ s # value /\ \A r \in Roles : s \notin Held(r)
  /\ alive' = alive \ {s}
  /\ UNCHANGED <<value, view>>

Next ==
  \/ \E s \in Snapshots \cup {Null} : Publish(s)
  \/ \E s \in Snapshots : Reclaim(s)
  \/ \E r \in Roles : Acquire(r) \/ Release(r)

Spec == Init /\ [][Next]_vars

=============================================================================
