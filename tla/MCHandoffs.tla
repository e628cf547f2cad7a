----------------------------- MODULE MCHandoffs -----------------------------
(***************************************************************************)
(* Two systems that hand something from one thread to another: the jobs of *)
(* the editor's worker, and the notes and panics auditioned in the editor. *)
(* They share no state: each is explored by itself, while the other rests  *)
(* where it begins.                                                        *)
(***************************************************************************)
EXTENDS OwnedJobWorker, AuditionPath

VARIABLE system  \* the one that runs

Runs(s) == system = s /\ UNCHANGED system

HandoffInit == system \in {"worker", "path"} /\ WorkerInit /\ PathInit

HandoffNext ==
  \/ Runs("worker") /\ WorkerNext /\ UNCHANGED vars
  \/ Runs("path") /\ PathNext /\ UNCHANGED workerVars

\* The fairness of the two, each for the behaviours in which it runs.
HandoffFairness ==
  /\ WF_workerVars(Runs("worker") /\ WorkerStep)
  /\ WF_workerVars(Runs("worker") /\ (Notify \/ Join))
  /\ WF_vars(Runs("path") /\ AudioStep)
  /\ WF_vars(Runs("path") /\ PushNote)
  /\ SF_vars(Runs("path") /\ SampleEnds)

HandoffSpec == HandoffInit /\ [][HandoffNext]_<<system, workerVars, vars>> /\ HandoffFairness

=============================================================================
