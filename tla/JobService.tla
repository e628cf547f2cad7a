----------------------------- MODULE JobService -----------------------------
(***************************************************************************)
(* What a single-worker job service promises its owner: at most one job is *)
(* active and at most one waits; a submit or a cancel asks everything      *)
(* before it to stop and drops the job that waits; a closed service takes  *)
(* nothing any more.                                                       *)
(***************************************************************************)
CONSTANTS Jobs, None

VARIABLES queued,     \* the job that waits, or None
          active,     \* the job that was taken and has not ended, or None
          cancelled,  \* the jobs that were asked to stop
          closed

vars == <<queued, active, cancelled, closed>>

Init == queued = None /\ active = None /\ cancelled = {} /\ closed = FALSE

CancelAllJobs == cancelled' = cancelled \cup ({queued, active} \ {None})

Submit(j) == /\ ~closed
             /\ CancelAllJobs
             /\ queued' = j
             /\ UNCHANGED <<active, closed>>

CancelAll == /\ CancelAllJobs
             /\ queued' = None
             /\ UNCHANGED <<active, closed>>

Close == /\ ~closed
         /\ closed' = TRUE
         /\ CancelAllJobs
         /\ queued' = None
         /\ UNCHANGED active

Begin == /\ ~closed
         /\ active = None /\ queued # None
         /\ active' = queued
         /\ queued' = None
         /\ UNCHANGED <<cancelled, closed>>

End == /\ active # None
       /\ active' = None
       /\ UNCHANGED <<queued, cancelled, closed>>

Next == (\E j \in Jobs : Submit(j)) \/ CancelAll \/ Close \/ Begin \/ End

Spec == Init /\ [][Next]_vars

=============================================================================
