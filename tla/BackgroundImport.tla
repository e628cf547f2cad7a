-------------------------- MODULE BackgroundImport --------------------------
(***************************************************************************)
(* Loading an instrument in the background.  The editor, on the message    *)
(* thread, submits a job to its worker (JobService); the job prepares the  *)
(* file and posts a callback; the callback publishes on the message thread *)
(* unless the load was cancelled, replaced or the editor is gone.  Beside  *)
(* it runs the one-step replacement history behind "Restore previous       *)
(* sound", which a load fills with the sound it replaces.                  *)
(*                                                                         *)
(* A handler of the message thread is one step, a step of the job another. *)
(* A load is named by its generation; a sound by the load it came from, if *)
(* any, the change that brought its source and the last edit of it.        *)
(***************************************************************************)
EXTENDS Integers

CONSTANTS MaxGeneration, \* bound on backgroundImportGeneration_
          MaxStamp,      \* bound on the user's changes of the sound
          None

Jobs == 1 .. MaxGeneration
Sounds == [load : Jobs \cup {None}, source : Nat, edit : Nat]

ASSUME ImportAssumption ==
  MaxGeneration \in Nat /\ MaxStamp \in Nat /\ None \notin Nat \cup Sounds

Outcomes == {"ok", "failed", "rejected"}  \* what preparing and publishing come to
Answers == {"loaded", "failed", "cancelled"}

VARIABLES
  queued, active, cancelled, closed,  \* the worker, see JobService
  phase, outcome,   \* where the active job is, and what it prepared
  posted,           \* callbacks waiting in the message queue
  generation,       \* backgroundImportGeneration_
  inProgress,       \* backgroundImportInProgress_
  completion,       \* backgroundImportCompletion_: the load whose answer is owed, or None
  answers,          \* the answers completions were given
  dialog,           \* the modal choice dialog is open
  editor,           \* "open", "closing" (in the destructor) or "closed"
  sound, stamp,     \* what the processor plays, and the last stamp used
  pending,          \* pendingReplacementState_, or None when empty
  previous,         \* previousSoundState_, or None when empty
  played            \* history: what was playing since the newest load was asked for

service == <<queued, active, cancelled, closed>>
job == <<phase, outcome>>
load == <<generation, inProgress, completion, answers>>
sounds == <<sound, stamp, pending, previous, played>>
vars == <<service, job, posted, load, dialog, editor, sounds>>

Worker == INSTANCE JobService

TypeOK ==
  /\ queued \in Jobs \cup {None} /\ active \in Jobs \cup {None}
  /\ cancelled \in SUBSET Jobs /\ closed \in BOOLEAN
  /\ phase \in {"none", "taken", "preparing", "posting", "done"}
  /\ outcome \in Outcomes
  /\ posted \in SUBSET (Jobs \X Outcomes)
  /\ generation \in 0 .. MaxGeneration + 1
  /\ inProgress \in BOOLEAN /\ completion \in Jobs \cup {None}
  /\ answers \in SUBSET (Jobs \X Answers)
  /\ dialog \in BOOLEAN /\ editor \in {"open", "closing", "closed"}
  /\ sound \in Sounds /\ stamp \in Nat
  /\ pending \in Sounds \cup {None} /\ previous \in Sounds \cup {None}
  /\ played \in SUBSET Sounds

Init ==
  /\ Worker!Init
  /\ phase = "none" /\ outcome = "failed" /\ posted = {}
  /\ generation = 0 /\ inProgress = FALSE /\ completion = None /\ answers = {}
  /\ dialog = FALSE /\ editor = "open"
  /\ sound = [load |-> None, source |-> 0, edit |-> 0] /\ stamp = 0
  /\ pending = None /\ previous = None /\ played = {sound}

Free == editor = "open" /\ ~dialog  \* the user can act

-----------------------------------------------------------------------------
(* Pieces of the handlers.                                                 *)

\* completion(...) of the load in progress, if there is one.
Answer(a) == answers \cup {<<completion, a>> : j \in {completion} \ {None}}

\* Mutant: only the worker is asked to stop.
cancelBackgroundInstrumentLoad_OnlyWorker ==
  IF inProgress
  THEN /\ UNCHANGED <<generation, completion, inProgress>>
       /\ answers' = Answer("cancelled")
       /\ Worker!CancelAll
  ELSE UNCHANGED <<load, service>>

\* cancelBackgroundInstrumentLoad(), except pendingReplacementState_, which it empties: every
\* caller says what becomes of it.
cancelBackgroundInstrumentLoad ==
  IF inProgress
  THEN /\ generation < MaxGeneration
       /\ generation' = generation + 1
       /\ completion' = None
       /\ inProgress' = FALSE
       /\ answers' = Answer("cancelled")
       /\ Worker!CancelAll
  ELSE UNCHANGED <<load, service>>

\* startBackgroundInstrumentLoad(): a load in progress is cancelled and answered first.
startBackgroundInstrumentLoad ==
  LET gen == generation + (IF inProgress THEN 2 ELSE 1)
  IN /\ gen <= MaxGeneration
     /\ generation' = gen
     /\ completion' = gen
     /\ inProgress' = TRUE
     /\ answers' = IF inProgress THEN Answer("cancelled") ELSE answers
     /\ Worker!Submit(gen)

\* Mutant: the sound is captured before the load in progress is cancelled.
pendingAfterStart_CaptureFirst ==
  IF inProgress THEN None ELSE IF pending = None THEN sound ELSE pending

\* What startBackgroundInstrumentLoad() keeps for "Restore previous sound": the cancelled load
\* has emptied it, and what is still there was captured when this load was asked for.
pendingAfterStart == IF inProgress \/ pending = None THEN sound ELSE pending

\* Another source takes the place of the sound.
Replace(j) ==
  /\ stamp' = stamp + 1
  /\ sound' = [load |-> j, source |-> stamp + 1, edit |-> stamp + 1]

\* publishPreparedBackgroundImport(): a rejected program leaves its display sample behind.
Publish(j, result) ==
  IF result = "failed" THEN UNCHANGED <<sound, stamp>> ELSE Replace(j)

\* completeInstrumentLoad(): the history is filled by a load that succeeded.
Complete(result, captured) ==
  /\ previous' = IF result = "ok" THEN captured ELSE previous
  /\ pending' = None

-----------------------------------------------------------------------------
(* The message thread: what the user does.                                 *)

LoadFile ==
  /\ Free
  /\ startBackgroundInstrumentLoad
  /\ pending' = sound /\ played' = {sound}
  /\ UNCHANGED <<job, posted, dialog, editor, sound, stamp, previous>>

\* A format that is not loaded in the background, or not available at all.
LoadDirectly(result) ==
  /\ Free /\ stamp < MaxStamp
  /\ cancelBackgroundInstrumentLoad
  /\ Publish(None, result)
  /\ Complete(result, sound)
  /\ played' = {sound}
  /\ UNCHANGED <<job, posted, dialog, editor>>

\* A file with several programs asks which one.
OpenChoice ==
  /\ Free
  /\ cancelBackgroundInstrumentLoad
  /\ pending' = sound /\ played' = {sound}
  /\ dialog' = TRUE
  /\ UNCHANGED <<job, posted, editor, sound, stamp, previous>>

Choose ==
  /\ editor = "open" /\ dialog
  /\ startBackgroundInstrumentLoad
  /\ pending' = pendingAfterStart
  /\ dialog' = FALSE
  /\ UNCHANGED <<job, posted, editor, sound, stamp, previous, played>>

DismissChoice ==
  /\ editor = "open" /\ dialog
  /\ dialog' = FALSE
  /\ pending' = None
  /\ UNCHANGED <<service, job, posted, load, editor, sound, stamp, previous, played>>

\* promptForNkiSampleFolder(): after a failed load the user points to its samples.
LocateSamples ==
  /\ Free
  /\ \E j \in Jobs : <<j, "failed">> \in answers
  /\ startBackgroundInstrumentLoad
  /\ pending' = pendingAfterStart
  /\ played' = {sound}
  /\ UNCHANGED <<job, posted, dialog, editor, sound, stamp, previous>>

CancelLoad ==
  /\ Free /\ inProgress
  /\ cancelBackgroundInstrumentLoad
  /\ pending' = None
  /\ UNCHANGED <<job, posted, dialog, editor, sound, stamp, previous, played>>

\* replaceSoundFromPreset(): a preset that cannot be restored is rolled back.
LoadPreset(restored) ==
  /\ Free /\ stamp < MaxStamp
  /\ cancelBackgroundInstrumentLoad
  /\ pending' = IF inProgress THEN None ELSE pending
  /\ IF restored
     THEN Replace(None) /\ previous' = sound
     ELSE UNCHANGED <<sound, stamp, previous>>
  /\ UNCHANGED <<job, posted, dialog, editor, played>>

\* autoSliceLoadedSample(), "New empty instrument", "Use sample": a load goes on.
ReplaceSource ==
  /\ Free /\ stamp < MaxStamp
  /\ Replace(None)
  /\ previous' = sound
  /\ played' = played \cup {sound'}
  /\ UNCHANGED <<service, job, posted, load, dialog, editor, pending>>

\* restorePreviousSound(): the two sounds change places; a load goes on.
RestorePrevious ==
  /\ Free /\ previous # None
  /\ sound' = previous
  /\ previous' = sound
  /\ played' = played \cup {sound'}
  /\ UNCHANGED <<service, job, posted, load, dialog, editor, stamp, pending>>

\* A control, the host's automation or a mapping edit.
EditSound ==
  /\ editor = "open" /\ stamp < MaxStamp
  /\ stamp' = stamp + 1
  /\ sound' = [sound EXCEPT !.edit = stamp + 1]
  /\ played' = played \cup {sound'}
  /\ UNCHANGED <<service, job, posted, load, dialog, editor, pending, previous>>

-----------------------------------------------------------------------------
(* The message thread: the posted callback, and the end of the editor.     *)

\* Mutant: the callback of a cancelled or replaced load publishes too.
DeliverTo_NoGenerationCheck(j, result) ==
  /\ Publish(j, result)
  /\ Complete(result, pending)
  /\ answers' = Answer(IF result = "ok" THEN "loaded" ELSE "failed")
  /\ completion' = None /\ inProgress' = FALSE
  /\ UNCHANGED <<generation, played>>

DeliverTo(j, result) ==
  IF j = generation
  THEN /\ Publish(j, result)
       /\ Complete(result, pending)
       /\ answers' = Answer(IF result = "ok" THEN "loaded" ELSE "failed")
       /\ completion' = None /\ inProgress' = FALSE
       /\ UNCHANGED <<generation, played>>
  ELSE UNCHANGED <<load, sounds>>

\* The message thread runs the callback; the SafePointer of a destroyed editor is null.
Deliver(j, result) ==
  /\ editor \in {"open", "closed"} /\ <<j, result>> \in posted
  /\ posted' = posted \ {<<j, result>>}
  /\ IF editor = "open" THEN DeliverTo(j, result) ELSE UNCHANGED <<load, sounds>>
  /\ UNCHANGED <<service, job, dialog, editor>>

\* ~AudiocityAudioProcessorEditor(): the generation moves on, the worker is shut down ...
Close ==
  /\ editor = "open"
  /\ editor' = "closing"
  /\ generation' = generation + 1
  /\ Worker!Close
  /\ UNCHANGED <<job, posted, inProgress, completion, answers, dialog, sounds>>

\* ... and joined.
Closed ==
  /\ editor = "closing" /\ active = None
  /\ editor' = "closed"
  /\ UNCHANGED <<service, job, posted, load, dialog, sounds>>

-----------------------------------------------------------------------------
(* The worker thread: the job.                                             *)

Take ==
  /\ Worker!Begin
  /\ phase' = "taken"
  /\ UNCHANGED <<outcome, posted, load, dialog, editor, sounds>>

CheckCancelled ==
  /\ phase = "taken"
  /\ phase' = IF active \in cancelled THEN "done" ELSE "preparing"
  /\ UNCHANGED <<service, outcome, posted, load, dialog, editor, sounds>>

\* Mutant: a job that fails to prepare its file does not post a callback.
Prepare_FailureIsSilent(result) ==
  /\ phase = "preparing"
  /\ IF active \in cancelled \/ result = "failed"
     THEN phase' = "done" /\ UNCHANGED outcome
     ELSE phase' = "posting" /\ outcome' = result
  /\ UNCHANGED <<service, posted, load, dialog, editor, sounds>>

Prepare(result) ==
  /\ phase = "preparing"
  /\ IF active \in cancelled
     THEN phase' = "done" /\ UNCHANGED outcome
     ELSE phase' = "posting" /\ outcome' = result
  /\ UNCHANGED <<service, posted, load, dialog, editor, sounds>>

\* A cancellation that comes after the check does not stop the callback.
Post ==
  /\ phase = "posting"
  /\ posted' = posted \cup {<<active, outcome>>}
  /\ phase' = "done"
  /\ UNCHANGED <<service, outcome, load, dialog, editor, sounds>>

Return ==
  /\ phase = "done"
  /\ Worker!End
  /\ phase' = "none"
  /\ UNCHANGED <<outcome, posted, load, dialog, editor, sounds>>

-----------------------------------------------------------------------------
UserStep ==
  \/ LoadFile \/ OpenChoice \/ Choose \/ DismissChoice \/ LocateSamples \/ CancelLoad
  \/ \E result \in Outcomes : LoadDirectly(result)
  \/ \E restored \in BOOLEAN : LoadPreset(restored)
  \/ ReplaceSource \/ RestorePrevious \/ EditSound \/ Close
WorkerStep ==
  \/ Take \/ CheckCancelled \/ Post \/ Return
  \/ \E result \in Outcomes : Prepare(result)
DeliverStep == \E j \in Jobs, result \in Outcomes : Deliver(j, result)

\* The editor is destroyed and nothing is in flight.
Done == editor = "closed" /\ posted = {} /\ UNCHANGED vars

Next == UserStep \/ WorkerStep \/ DeliverStep \/ Closed \/ Done

\* The worker thread runs, the message loop empties its queue, and the join returns.
Fairness ==
  /\ WF_vars(WorkerStep)
  /\ \A j \in Jobs : WF_vars(\E result \in Outcomes : Deliver(j, result))
  /\ WF_vars(Closed)

Spec == Init /\ [][Next]_vars /\ Fairness

-----------------------------------------------------------------------------
(* Properties *)

\* A load that was answered "cancelled" leaves no trace: its instrument never becomes the sound,
\* nor the sound "Restore previous sound" goes back to.
CancelledLeavesNoTrace ==
  \A j \in Jobs : <<j, "cancelled">> \in answers =>
    /\ sound.load # j
    /\ previous # None => previous.load # j

\* The completion of a load is called with one answer at most.
OneAnswer ==
  \A j \in Jobs : \A a, b \in Answers : <<j, a>> \in answers /\ <<j, b>> \in answers => a = b

\* A load that succeeds makes "Restore previous sound" go back to a sound that was playing while
\* the load was asked for or prepared, whatever loads were cancelled or failed in between: never
\* to one that had been replaced before, to a part of the new one, or to nothing.  Which of them
\* is left open: the code captures the sound when the load is asked for, and edits made while the
\* load is prepared are not in it.
LoadKeepsPlayed ==
  [][\A j \in Jobs : <<j, "loaded">> \in answers' \ answers => previous' \in played]_vars

\* Every load is answered, unless the editor is closed first.
LoadsAreAnswered ==
  \A j \in Jobs : completion = j ~> editor = "closed" \/ \E a \in Answers : <<j, a>> \in answers

-----------------------------------------------------------------------------
(* The inductive invariant from which the properties follow.               *)

Posted(j) == \E result \in Outcomes : <<j, result>> \in posted

\* Its callback has not run yet.
InFlight(j) == queued = j \/ (active = j /\ phase # "done") \/ Posted(j)

Answered(j) == \E a \in Answers : <<j, a>> \in answers

\* A load is in one place, with one outcome.
InOnePlace ==
  /\ (active = None) = (phase = "none")
  /\ \A j \in Jobs :
       /\ queued = j => active # j /\ ~Posted(j)
       /\ active = j /\ phase # "done" => ~Posted(j)
       /\ \A r1, r2 \in Outcomes : <<j, r1>> \in posted /\ <<j, r2>> \in posted => r1 = r2

\* No number is used before its turn.
Numbered == \A j \in Jobs : active = j \/ InFlight(j) \/ Answered(j) => j <= generation

\* While the editor is open the answer owed is that of the newest load, and only a load that is
\* owed an answer can be the newest and in flight: cancelling moves the generation on.
NewestIsOwed ==
  editor = "open" =>
    /\ generation \in 0 .. MaxGeneration
    /\ inProgress = (completion # None)
    /\ inProgress => completion = generation /\ ~Answered(generation)
    /\ generation \in Jobs /\ InFlight(generation) => inProgress

\* The sound s came from no load, or from one that was run, by the answers given.
Heard(s, given) ==
  s # None /\ s.load # None => \E a \in {"loaded", "failed"} : <<s.load, a>> \in given

SoundsWereRun ==
  Heard(sound, answers) /\ Heard(pending, answers) /\ Heard(previous, answers)

\* The sound captured is one that was playing since the load in progress, or the dialog that is
\* open, was asked for.
PendingWasPlayed ==
  editor = "open" =>
    /\ ~(inProgress /\ dialog)
    /\ IF inProgress \/ dialog THEN pending \in played ELSE pending = None

\* The worker is shut down by the destructor.
WorkerIsOpen == closed = (editor # "open")

IInv ==
  /\ TypeOK /\ InOnePlace /\ Numbered /\ NewestIsOwed /\ OneAnswer
  /\ SoundsWereRun /\ PendingWasPlayed /\ WorkerIsOpen

=============================================================================
