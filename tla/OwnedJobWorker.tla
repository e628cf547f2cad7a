--------------------------- MODULE OwnedJobWorker ---------------------------
(***************************************************************************)
(* The editor's background worker: one owner thread that submits, cancels  *)
(* and shuts down, and one worker thread that waits on a condition         *)
(* variable.  A critical section of the mutex is one step; the notify that *)
(* follows it, the wait, and the job itself are steps of their own.        *)
(***************************************************************************)
EXTENDS Integers

CONSTANTS MaxJobs,  \* bound on the jobs an owner submits
          None

ASSUME JobsAssumption == MaxJobs \in Nat \ {0} /\ None \notin Nat

Jobs == 1 .. MaxJobs

VARIABLES pending,    \* pending_: the entry that waits, or None
          activeFlag, \* activeCancellation_: whose flag it is, or None
          stopping,   \* stopping_
          cancelled,  \* the entries whose cancellation flag is set
          entry,      \* the worker's local entry, or None
          wpc,        \* where the worker is in run()
          woken,      \* a notification has reached the sleeping worker
          opc,        \* where the owner is in submit(), cancelAll() or shutdown()
          newest      \* the number of jobs accepted so far

lock == <<pending, activeFlag, stopping, cancelled>>
workerVars == <<lock, entry, wpc, woken, opc, newest>>

WorkerPCs == {"predicate", "asleep", "taken", "running", "ended", "exited"}
OwnerPCs == {"idle", "notify", "notifyStop", "join", "joined"}

WorkerTypeOK ==
  /\ pending \in Jobs \cup {None}
  /\ activeFlag \in Jobs \cup {None}
  /\ stopping \in BOOLEAN
  /\ cancelled \in SUBSET Jobs
  /\ entry \in Jobs \cup {None}
  /\ wpc \in WorkerPCs
  /\ woken \in BOOLEAN
  /\ opc \in OwnerPCs
  /\ newest \in 0 .. MaxJobs

WorkerInit ==
  /\ pending = None /\ activeFlag = None /\ stopping = FALSE /\ cancelled = {}
  /\ entry = None /\ wpc = "predicate" /\ woken = FALSE
  /\ opc = "idle" /\ newest = 0

\* Mutant: the running job is left alone.
requestCancellationLocked_PendingOnly ==
  cancelled' = cancelled \cup ({pending} \ {None})

requestCancellationLocked ==
  cancelled' = cancelled \cup ({activeFlag, pending} \ {None})

-----------------------------------------------------------------------------
(* The owner's calls.  A submit after shutdown is refused and changes      *)
(* nothing, and so does a second shutdown.                                 *)

Submit ==
  /\ opc = "idle" /\ ~stopping /\ newest < MaxJobs
  /\ requestCancellationLocked
  /\ pending' = newest + 1
  /\ newest' = newest + 1
  /\ opc' = "notify"
  /\ UNCHANGED <<activeFlag, stopping, entry, wpc, woken>>

CancelAll ==
  /\ opc = "idle" /\ ~stopping
  /\ requestCancellationLocked
  /\ pending' = None
  /\ opc' = "notify"
  /\ UNCHANGED <<activeFlag, stopping, entry, wpc, woken, newest>>

Shutdown ==
  /\ opc = "idle" /\ ~stopping
  /\ stopping' = TRUE
  /\ requestCancellationLocked
  /\ pending' = None
  /\ opc' = "notifyStop"
  /\ UNCHANGED <<activeFlag, entry, wpc, woken, newest>>

\* Mutant: shutdown() joins without a notification.
Notify_NotOnStop ==
  /\ \/ opc = "notify" /\ opc' = "idle" /\ woken' = (woken \/ wpc = "asleep")
     \/ opc = "notifyStop" /\ opc' = "join" /\ UNCHANGED woken
  /\ UNCHANGED <<lock, entry, wpc, newest>>

\* notify_one(): reaches the worker only if it sleeps.
Notify ==
  /\ \/ opc = "notify" /\ opc' = "idle"
     \/ opc = "notifyStop" /\ opc' = "join"
  /\ woken' = (woken \/ wpc = "asleep")
  /\ UNCHANGED <<lock, entry, wpc, newest>>

Join ==
  /\ opc = "join" /\ wpc = "exited"
  /\ opc' = "joined"
  /\ UNCHANGED <<lock, entry, wpc, woken, newest>>

-----------------------------------------------------------------------------
(* run(): the worker thread.                                               *)

Take ==
  /\ wpc = "predicate" /\ ~stopping /\ pending # None
  /\ entry' = pending
  /\ activeFlag' = pending
  /\ pending' = None
  /\ wpc' = "taken"
  /\ UNCHANGED <<stopping, cancelled, woken, opc, newest>>

\* Mutant: the wait has no predicate.
Sleep_NoPredicate ==
  /\ wpc = "predicate" /\ ~stopping
  /\ wpc' = "asleep"
  /\ UNCHANGED <<lock, entry, woken, opc, newest>>

\* condition_.wait() releases the mutex and sleeps in one step.
Sleep ==
  /\ wpc = "predicate" /\ ~stopping /\ pending = None
  /\ wpc' = "asleep"
  /\ UNCHANGED <<lock, entry, woken, opc, newest>>

Exit ==
  /\ wpc = "predicate" /\ stopping
  /\ wpc' = "exited"
  /\ UNCHANGED <<lock, entry, woken, opc, newest>>

Wake ==
  /\ wpc = "asleep" /\ woken
  /\ wpc' = "predicate"
  /\ woken' = FALSE
  /\ UNCHANGED <<lock, entry, opc, newest>>

SpuriousWake ==
  /\ wpc = "asleep" /\ ~woken
  /\ wpc' = "predicate"
  /\ UNCHANGED <<lock, entry, woken, opc, newest>>

\* A job that was cancelled before it started does not start.
CheckCancelled ==
  /\ wpc = "taken"
  /\ wpc' = IF entry \in cancelled THEN "ended" ELSE "running"
  /\ UNCHANGED <<lock, entry, woken, opc, newest>>

\* The job returns, on its own or because it saw its flag.
JobReturns ==
  /\ wpc = "running"
  /\ wpc' = "ended"
  /\ UNCHANGED <<lock, entry, woken, opc, newest>>

\* Mutant: activeCancellation_ is never reset.
Clear_KeepsFlag ==
  /\ wpc = "ended"
  /\ entry' = None
  /\ wpc' = "predicate"
  /\ UNCHANGED <<lock, woken, opc, newest>>

Clear ==
  /\ wpc = "ended"
  /\ activeFlag' = IF activeFlag = entry THEN None ELSE activeFlag
  /\ entry' = None
  /\ wpc' = "predicate"
  /\ UNCHANGED <<pending, stopping, cancelled, woken, opc, newest>>

-----------------------------------------------------------------------------
OwnerStep == Submit \/ CancelAll \/ Shutdown \/ Notify \/ Join
WorkerStep == Take \/ Sleep \/ Exit \/ Wake \/ CheckCancelled \/ JobReturns \/ Clear

\* After the join nothing is left to do.
Done == opc = "joined" /\ UNCHANGED workerVars

WorkerNext == OwnerStep \/ WorkerStep \/ SpuriousWake \/ Done

\* The threads run; a job ends, by itself or at its next cancellation check.
Fairness == WF_workerVars(WorkerStep) /\ WF_workerVars(Notify \/ Join)

WorkerSpec == WorkerInit /\ [][WorkerNext]_workerVars /\ Fairness

-----------------------------------------------------------------------------
(* Properties *)

\* Only the job submitted last can be waiting or at work without having been told to stop:
\* a replaced or cancelled job never proceeds as if it were the current one.
OnlyNewestProceeds ==
  \A j \in Jobs : j \in {pending, entry} /\ j \notin cancelled => j = newest

\* Once shutdown() has returned, no job runs or will run against the destroyed owner.
NothingAfterJoin == opc = "joined" => wpc = "exited" /\ entry = None /\ pending = None

\* A job that is accepted is taken up, replaced or cancelled: no wakeup is lost.
NoLostWakeup == \A j \in Jobs : pending = j ~> pending # j

\* The destructor comes back.
ShutdownReturns == opc = "join" ~> opc = "joined"

\* Why it works: an inductive invariant.
EntryHasFlag ==
  /\ activeFlag = entry
  /\ entry # None <=> wpc \in {"taken", "running", "ended"}

JobsInOrder ==
  /\ cancelled \subseteq 1 .. newest
  /\ pending # None => pending = newest /\ pending \notin cancelled
  /\ entry # None /\ entry \notin cancelled => entry = newest /\ pending = None
  /\ entry # None => entry <= newest

Stopped ==
  /\ opc \in {"notifyStop", "join", "joined"} <=> stopping
  /\ stopping => pending = None /\ (entry # None => entry \in cancelled)
  /\ wpc = "exited" => stopping
  /\ opc = "joined" => wpc = "exited"

IInv == WorkerTypeOK /\ EntryHasFlag /\ JobsInOrder /\ Stopped

\* The worker implements the job service.
Service == INSTANCE JobService WITH
  queued <- pending, active <- activeFlag, cancelled <- cancelled, closed <- stopping

ImplementsService == Service!Spec

=============================================================================
