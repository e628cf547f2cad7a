----------------------- MODULE BackgroundImportProofs -----------------------
(***************************************************************************)
(* For any number of loads and changes of the sound: a cancelled load      *)
(* leaves no trace, a load has one answer, and the editor uses its worker  *)
(* as JobService allows.                                                   *)
(***************************************************************************)
EXTENDS BackgroundImport, TLAPS

\* Answers are only added to, so that a sound that was run stays so.
LEMMA HeardGrows ==
  ASSUME NEW s, NEW before, NEW after, before \subseteq after, Heard(s, before)
  PROVE  Heard(s, after)
BY DEF Heard

\* startBackgroundInstrumentLoad(): the number is new, and the load before is answered and gone.
LEMMA Starting ==
  ASSUME IInv, startBackgroundInstrumentLoad, editor = "open",
         UNCHANGED <<job, posted, editor>>
  PROVE  /\ queued' \in Jobs /\ active' \in Jobs \cup {None} /\ cancelled' \in SUBSET Jobs /\ closed' = closed
         /\ generation' \in 0 .. MaxGeneration + 1 /\ inProgress' = TRUE /\ completion' \in Jobs
         /\ answers \subseteq answers' /\ answers' \in SUBSET (Jobs \X Answers)
         /\ InOnePlace' /\ Numbered' /\ NewestIsOwed' /\ OneAnswer'
<1> DEFINE gen == generation'
<1>1. /\ gen \in Jobs /\ gen > generation /\ generation \in Nat /\ MaxGeneration \in Nat
      /\ None \notin Jobs
  BY ImportAssumption DEF startBackgroundInstrumentLoad, IInv, TypeOK, Jobs
<1>2. /\ queued' = gen /\ active' = active /\ closed' = closed
      /\ cancelled' = cancelled \cup ({queued, active} \ {None})
      /\ completion' = gen /\ inProgress' = TRUE
  BY DEF startBackgroundInstrumentLoad, Worker!Submit, Worker!CancelAllJobs
<1>3. UNCHANGED <<phase, outcome, posted>>
  BY DEF job
<1>4. \A j \in Jobs : (active = j \/ InFlight(j) \/ Answered(j)) => j <= generation
  BY DEF IInv, Numbered
<1>5. inProgress => completion = generation /\ completion \in Jobs /\ ~Answered(generation)
  BY DEF IInv, NewestIsOwed, TypeOK
<1>6. answers' = IF inProgress THEN answers \cup {<<generation, "cancelled">>} ELSE answers
  BY <1>1, <1>5 DEF startBackgroundInstrumentLoad, Answer
<1>7. /\ cancelled' \in SUBSET Jobs /\ answers \subseteq answers' /\ answers' \in SUBSET (Jobs \X Answers)
  BY <1>2, <1>5, <1>6 DEF IInv, TypeOK, Answers
<1>8. \A j \in Jobs : Posted(j)' = Posted(j)
  BY <1>3 DEF Posted
<1>9. active # gen /\ ~Posted(gen) /\ ~Answered(gen)
  BY <1>1, <1>4 DEF InFlight, Jobs
<1>10. InOnePlace'
  BY <1>1, <1>2, <1>3, <1>8, <1>9 DEF IInv, InOnePlace
<1>11. \A j \in Jobs : Answered(j)' => Answered(j) \/ (j = generation /\ inProgress)
  BY <1>6 DEF Answered
<1>12. \A j \in Jobs : InFlight(j)' => j = gen \/ InFlight(j)
  BY <1>2, <1>3, <1>8 DEF InFlight
<1>13. Numbered'
  <2> SUFFICES ASSUME NEW j \in Jobs, active' = j \/ InFlight(j)' \/ Answered(j)' PROVE j <= gen
    BY DEF Numbered
  <2>1. j = gen \/ j <= generation
    BY <1>1, <1>2, <1>4, <1>11, <1>12
  <2> QED
    BY <1>1, <2>1 DEF Jobs
<1>14. ~Answered(generation)'
  BY <1>1, <1>6, <1>9, <1>5 DEF Answered, Jobs
<1>15. NewestIsOwed'
  <2>1. generation' \in 0 .. MaxGeneration
    BY <1>1 DEF Jobs
  <2>2. completion' # None
    BY <1>1, <1>2
  <2> QED
    BY <1>2, <1>14, <2>1, <2>2 DEF NewestIsOwed
<1>16. OneAnswer'
  BY <1>5, <1>6 DEF IInv, OneAnswer, Answered, Answers
<1> QED
  BY <1>1, <1>2, <1>7, <1>10, <1>13, <1>15, <1>16 DEF IInv, TypeOK, Jobs

\* cancelBackgroundInstrumentLoad(): nothing is owed any more, and nothing in flight is the newest.
LEMMA Cancelling ==
  ASSUME IInv, cancelBackgroundInstrumentLoad, editor = "open",
         UNCHANGED <<job, posted, editor>>
  PROVE  /\ queued' \in Jobs \cup {None} /\ active' \in Jobs \cup {None}
         /\ cancelled' \in SUBSET Jobs /\ closed' = closed
         /\ generation' \in 0 .. MaxGeneration + 1 /\ inProgress' = FALSE /\ completion' \in Jobs \cup {None}
         /\ answers \subseteq answers' /\ answers' \in SUBSET (Jobs \X Answers)
         /\ \A j \in Jobs : <<j, "loaded">> \in answers' => <<j, "loaded">> \in answers
         /\ InOnePlace' /\ Numbered' /\ NewestIsOwed' /\ OneAnswer'
<1>1. UNCHANGED <<phase, outcome, posted, active, closed>>
  BY DEF job, cancelBackgroundInstrumentLoad, service, Worker!CancelAll
<1>2. MaxGeneration \in Nat /\ generation \in Nat /\ None \notin Jobs
  BY ImportAssumption DEF IInv, TypeOK, Jobs
<1>3. \A j \in Jobs : Posted(j)' = Posted(j)
  BY <1>1 DEF Posted
<1>a. CASE ~inProgress
  <2>1. UNCHANGED <<queued, active, cancelled, closed, generation, inProgress, completion, answers>>
    BY <1>a DEF cancelBackgroundInstrumentLoad, load, service
  <2>2. \A j \in Jobs : InFlight(j)' = InFlight(j) /\ Answered(j)' = Answered(j)
    BY <1>1, <1>3, <2>1 DEF InFlight, Answered
  <2>3. InOnePlace'
    BY <1>1, <1>3, <2>1 DEF IInv, InOnePlace
  <2>4. Numbered'
    BY <2>1, <2>2 DEF IInv, Numbered
  <2>5. NewestIsOwed'
    BY <1>a, <2>1, <2>2 DEF IInv, NewestIsOwed
  <2>6. OneAnswer'
    BY <2>1 DEF IInv, OneAnswer
  <2> QED
    BY <1>a, <2>1, <2>3, <2>4, <2>5, <2>6 DEF IInv, TypeOK
<1>b. CASE inProgress
  <2>1. /\ generation < MaxGeneration /\ generation' = generation + 1 /\ completion' = None /\ inProgress' = FALSE
        /\ queued' = None /\ cancelled' = cancelled \cup ({queued, active} \ {None})
    BY <1>b DEF cancelBackgroundInstrumentLoad, Worker!CancelAll, Worker!CancelAllJobs
  <2>2. completion = generation /\ completion \in Jobs /\ ~Answered(generation)
    BY <1>b DEF IInv, NewestIsOwed, TypeOK
  <2>3. answers' = answers \cup {<<generation, "cancelled">>}
    BY <1>2, <1>b, <2>2 DEF cancelBackgroundInstrumentLoad, Answer
  <2>4. \A j \in Jobs : (InFlight(j)' => InFlight(j)) /\ (Answered(j)' => Answered(j) \/ j = generation)
    BY <1>1, <1>2, <1>3, <2>1, <2>3 DEF InFlight, Answered
  <2>5. \A j \in Jobs : active = j \/ InFlight(j) \/ Answered(j) => j <= generation
    BY DEF IInv, Numbered
  <2>6. InOnePlace'
    BY <1>1, <1>2, <1>3, <2>1 DEF IInv, InOnePlace
  <2>7. Numbered'
    <3> SUFFICES ASSUME NEW j \in Jobs, active' = j \/ InFlight(j)' \/ Answered(j)' PROVE j <= generation'
      BY DEF Numbered
    <3>1. j <= generation
      BY <1>1, <2>4, <2>5 DEF Jobs
    <3> QED
      BY <1>2, <2>1, <3>1 DEF Jobs
  <2>8. generation' \in Jobs => ~InFlight(generation')
    BY <1>2, <2>1, <2>5 DEF Jobs
  <2>9. generation' \in Jobs => ~InFlight(generation)'
    BY <1>1, <1>2, <2>1, <2>8 DEF InFlight, Posted
  <2>10. NewestIsOwed'
    <3>1. generation' \in 0 .. MaxGeneration
      BY <1>2, <2>1
    <3> QED
      BY <2>1, <2>9, <3>1 DEF NewestIsOwed
  <2>11. OneAnswer'
    BY <2>2, <2>3 DEF IInv, OneAnswer, Answered, Answers
  <2>12. /\ queued' \in Jobs \cup {None} /\ active' \in Jobs \cup {None}
         /\ cancelled' \in SUBSET Jobs /\ generation' \in 0 .. MaxGeneration + 1
    BY <1>1, <1>2, <2>1 DEF IInv, TypeOK
  <2>13. /\ answers \subseteq answers' /\ answers' \in SUBSET (Jobs \X Answers)
         /\ \A j \in Jobs : <<j, "loaded">> \in answers' => <<j, "loaded">> \in answers
    BY <2>2, <2>3 DEF IInv, TypeOK, Answers
  <2> QED
    BY <1>1, <2>1, <2>6, <2>7, <2>10, <2>11, <2>12, <2>13
<1> QED
  BY <1>a, <1>b DEF IInv, TypeOK

\* The editor's other variables are of no concern to these parts of the invariant.
LEMMA Elsewhere ==
  ASSUME IInv, UNCHANGED <<service, job, posted, load>>, editor' = editor
  PROVE  InOnePlace' /\ Numbered' /\ NewestIsOwed' /\ OneAnswer' /\ WorkerIsOpen'
<1>1. UNCHANGED <<queued, active, cancelled, closed, phase, outcome, posted, generation, inProgress, completion, answers>>
  BY DEF service, job, load
<1>2. \A j \in Jobs : Posted(j)' = Posted(j) /\ InFlight(j)' = InFlight(j) /\ Answered(j)' = Answered(j)
  BY <1>1 DEF Posted, InFlight, Answered
<1>3. InOnePlace' /\ OneAnswer' /\ WorkerIsOpen'
  BY <1>1, <1>2 DEF IInv, InOnePlace, OneAnswer, WorkerIsOpen
<1>4. Numbered'
  BY <1>1, <1>2 DEF IInv, Numbered
<1>5. Answered(generation)' = Answered(generation) /\ InFlight(generation)' = InFlight(generation)
  BY <1>1 DEF Answered, InFlight, Posted
<1>6. NewestIsOwed'
  BY <1>1, <1>5 DEF IInv, NewestIsOwed
<1> QED
  BY <1>3, <1>4, <1>6

\* An editor that was just opened satisfies the invariant.
LEMMA InitInv == Init => IInv
<1> SUFFICES ASSUME Init PROVE IInv
  OBVIOUS
<1> USE ImportAssumption
<1>1. /\ queued = None /\ active = None /\ cancelled = {} /\ closed = FALSE
      /\ None \notin Jobs
  BY DEF Init, Worker!Init, Jobs
<1>2. TypeOK
  <2>1. sound \in Sounds
    BY DEF Init, Sounds
  <2>2. posted \in SUBSET (Jobs \X Outcomes) /\ answers \in SUBSET (Jobs \X Answers) /\ generation \in 0 .. MaxGeneration + 1
    BY DEF Init
  <2> QED
    BY <1>1, <2>1, <2>2 DEF Init, TypeOK, Outcomes
<1>3. InOnePlace /\ Numbered /\ OneAnswer
  BY <1>1 DEF Init, InOnePlace, Numbered, OneAnswer, Posted, InFlight, Answered, Jobs
<1>4. NewestIsOwed
  <2>1. 0 \in 0 .. MaxGeneration /\ 0 \notin Jobs
    BY DEF Jobs
  <2> QED
    BY <2>1 DEF Init, NewestIsOwed
<1>5. SoundsWereRun /\ PendingWasPlayed /\ WorkerIsOpen
  BY <1>1 DEF Init, SoundsWereRun, Heard, PendingWasPlayed, WorkerIsOpen
<1> QED
  BY <1>2, <1>3, <1>4, <1>5 DEF IInv

\* Another source is a sound, and came from the load it was published for.
LEMMA Replacing ==
  ASSUME TypeOK, NEW j \in Jobs \cup {None}, Replace(j)
  PROVE  sound' \in Sounds /\ stamp' \in Nat /\ sound'.load = j
BY DEF Replace, TypeOK, Sounds

\* What was a sound to go back to, or to hear, still is one that was run.
LEMMA OldSounds ==
  ASSUME SoundsWereRun, answers \subseteq answers'
  PROVE  \A s \in {sound, pending, previous, None} : Heard(s, answers')
BY HeardGrows DEF SoundsWereRun, Heard

\* What the user does preserves the invariant.
LEMMA UserSteps ==
  ASSUME IInv, UserStep
  PROVE  IInv'
<1> USE DEF IInv
<1>1. None \notin Sounds /\ MaxGeneration \in Nat /\ None \notin Jobs
  BY ImportAssumption DEF Jobs
<1>a. CASE LoadFile \/ Choose \/ LocateSamples
  <2>1. /\ startBackgroundInstrumentLoad /\ editor = "open"
        /\ UNCHANGED <<job, posted, editor, sound, stamp, previous>>
    BY <1>a DEF LoadFile, Choose, LocateSamples, Free
  <2>2. /\ queued' \in Jobs /\ active' \in Jobs \cup {None} /\ cancelled' \in SUBSET Jobs /\ closed' = closed
        /\ generation' \in 0 .. MaxGeneration + 1 /\ inProgress' = TRUE /\ completion' \in Jobs
        /\ answers \subseteq answers' /\ answers' \in SUBSET (Jobs \X Answers)
        /\ InOnePlace' /\ Numbered' /\ NewestIsOwed' /\ OneAnswer'
    BY <2>1, Starting
  <2>3. /\ dialog' = FALSE /\ pending' \in played' /\ pending' \in {sound, pending}
        /\ played' \in {played, {sound}}
    BY <1>1, <1>a, <2>1 DEF LoadFile, Choose, LocateSamples, Free, pendingAfterStart, PendingWasPlayed, TypeOK
  <2>4. TypeOK'
    BY <2>1, <2>2, <2>3 DEF TypeOK, job
  <2>5. SoundsWereRun'
    BY <2>1, <2>2, <2>3, OldSounds DEF SoundsWereRun
  <2>6. PendingWasPlayed' /\ WorkerIsOpen'
    BY <2>1, <2>2, <2>3 DEF PendingWasPlayed, WorkerIsOpen
  <2> QED
    BY <2>2, <2>4, <2>5, <2>6
<1>b. CASE \/ OpenChoice \/ CancelLoad
           \/ \E result \in Outcomes : LoadDirectly(result)
           \/ \E restored \in BOOLEAN : LoadPreset(restored)
  <2>1. cancelBackgroundInstrumentLoad /\ editor = "open" /\ ~dialog /\ UNCHANGED <<job, posted, editor>>
    BY <1>b DEF OpenChoice, CancelLoad, LoadDirectly, LoadPreset, Free
  <2>2. /\ queued' \in Jobs \cup {None} /\ active' \in Jobs \cup {None}
        /\ cancelled' \in SUBSET Jobs /\ closed' = closed
        /\ generation' \in 0 .. MaxGeneration + 1 /\ inProgress' = FALSE /\ completion' \in Jobs \cup {None}
        /\ answers \subseteq answers' /\ answers' \in SUBSET (Jobs \X Answers)
        /\ InOnePlace' /\ Numbered' /\ NewestIsOwed' /\ OneAnswer'
    BY <2>1, Cancelling
  <2>3. UNCHANGED <<sound, stamp>> \/ Replace(None)
    BY <1>b DEF OpenChoice, CancelLoad, LoadDirectly, LoadPreset, Publish
  <2>4. /\ previous' \in {sound, previous}
        /\ played' \in {played, {sound}}
        /\ \/ dialog' = TRUE /\ pending' = sound /\ played' = {sound}
           \/ dialog' = FALSE /\ pending' = None
    BY <1>b, <2>1 DEF OpenChoice, CancelLoad, LoadDirectly, LoadPreset, Complete, PendingWasPlayed
  <2>5. sound' \in Sounds /\ stamp' \in Nat /\ (sound' = sound \/ sound'.load = None)
    BY <2>3, Replacing DEF TypeOK
  <2>6. TypeOK'
    BY <2>1, <2>2, <2>4, <2>5 DEF TypeOK, job
  <2>7. SoundsWereRun'
    BY <2>2, <2>4, <2>5, OldSounds DEF SoundsWereRun, Heard
  <2>8. PendingWasPlayed' /\ WorkerIsOpen'
    BY <2>1, <2>2, <2>4 DEF PendingWasPlayed, WorkerIsOpen
  <2> QED
    BY <2>2, <2>6, <2>7, <2>8
<1>c. CASE DismissChoice \/ ReplaceSource \/ RestorePrevious \/ EditSound
  <2>1. UNCHANGED <<service, job, posted, load, editor>> /\ played' \in {played, played \cup {sound'}}
    BY <1>c DEF DismissChoice, ReplaceSource, RestorePrevious, EditSound
  <2>2. InOnePlace' /\ Numbered' /\ NewestIsOwed' /\ OneAnswer' /\ WorkerIsOpen'
    BY <2>1, Elsewhere
  <2>3. UNCHANGED <<dialog, pending>> \/ (editor = "open" /\ dialog /\ dialog' = FALSE /\ pending' = None)
    BY <1>c DEF DismissChoice, ReplaceSource, RestorePrevious, EditSound
  <2>4. /\ previous' \in {sound, previous} /\ previous' \in Sounds \cup {None}
        /\ sound' \in Sounds /\ stamp' \in Nat
        /\ sound' \in {sound, previous} \/ sound'.load = None \/ sound'.load = sound.load
    <3>1. CASE DismissChoice
      BY <3>1 DEF DismissChoice, TypeOK
    <3>2. CASE ReplaceSource
      BY <3>2, Replacing DEF ReplaceSource, TypeOK
    <3>3. CASE RestorePrevious
      BY <3>3 DEF RestorePrevious, TypeOK
    <3>4. CASE EditSound
      BY <3>4 DEF EditSound, TypeOK, Sounds
    <3> QED
      BY <1>c, <3>1, <3>2, <3>3, <3>4
  <2>5. TypeOK'
    <3>1. /\ dialog' \in BOOLEAN
          /\ pending' \in Sounds \cup {None} /\ previous' \in Sounds \cup {None}
      BY <2>3, <2>4 DEF TypeOK
    <3>2. played' \in SUBSET Sounds
      BY <2>1, <2>4 DEF TypeOK
    <3>3. UNCHANGED <<queued, active, cancelled, closed, phase, outcome, posted,
                      generation, inProgress, completion, answers, editor>>
      BY <2>1 DEF service, job, load
    <3> QED
      BY <2>4, <3>1, <3>2, <3>3 DEF TypeOK
  <2>6. answers' = answers
    BY <2>1 DEF load
  <2>7. Heard(sound, answers')
    BY <2>6 DEF SoundsWereRun
  <2>8. sound \in Sounds /\ Heard(sound', answers')
    BY <1>1, <2>4, <2>6, <2>7 DEF SoundsWereRun, Heard, TypeOK
  <2>9. SoundsWereRun'
    BY <2>1, <2>3, <2>4, <2>6, <2>8 DEF SoundsWereRun, Heard
  <2>10. PendingWasPlayed'
    BY <2>1, <2>3 DEF PendingWasPlayed, load
  <2> QED
    BY <2>2, <2>5, <2>9, <2>10
<1>d. CASE Close
  <2>1. /\ editor' = "closing" /\ closed' = TRUE /\ queued' = None /\ active' = active
        /\ cancelled' = cancelled \cup ({queued, active} \ {None}) /\ generation' = generation + 1
        /\ UNCHANGED <<phase, outcome, posted, inProgress, completion, answers, dialog, sound, stamp, pending, previous, played>>
        /\ editor = "open"
    BY <1>d DEF Close, Worker!Close, Worker!CancelAllJobs, job, sounds
  <2>2. generation \in 0 .. MaxGeneration
    BY <2>1 DEF NewestIsOwed
  <2>3. \A j \in Jobs : Posted(j)' = Posted(j) /\ (InFlight(j)' => InFlight(j)) /\ Answered(j)' = Answered(j)
    BY <1>1, <2>1 DEF Posted, InFlight, Answered
  <2>4. TypeOK'
    BY <1>1, <2>1, <2>2 DEF TypeOK
  <2>5. InOnePlace'
    BY <1>1, <2>1, <2>3 DEF InOnePlace
  <2>6. Numbered'
    <3> SUFFICES ASSUME NEW j \in Jobs, active' = j \/ InFlight(j)' \/ Answered(j)' PROVE j <= generation'
      BY DEF Numbered
    <3>1. j <= generation
      BY <2>1, <2>3 DEF Numbered
    <3> QED
      BY <1>1, <2>1, <2>2, <3>1 DEF Jobs
  <2>7. NewestIsOwed' /\ OneAnswer' /\ PendingWasPlayed' /\ WorkerIsOpen'
    BY <2>1 DEF NewestIsOwed, OneAnswer, PendingWasPlayed, WorkerIsOpen
  <2>8. SoundsWereRun'
    BY <2>1 DEF SoundsWereRun, Heard
  <2> QED
    BY <2>4, <2>5, <2>6, <2>7, <2>8
<1> QED
  BY <1>a, <1>b, <1>c, <1>d DEF UserStep

\* So does the callback, which publishes what the load in progress prepared and nothing else.
LEMMA Delivering ==
  ASSUME IInv, NEW j \in Jobs, NEW result \in Outcomes, Deliver(j, result)
  PROVE  IInv'
<1> USE DEF IInv
<1>1. /\ None \notin Sounds /\ MaxGeneration \in Nat /\ None \notin Jobs
      /\ generation \in Nat
  BY ImportAssumption DEF Jobs, TypeOK
<1>2. /\ <<j, result>> \in posted /\ posted' = posted \ {<<j, result>>}
      /\ UNCHANGED <<queued, active, cancelled, closed, phase, outcome, dialog, editor>>
  BY DEF Deliver, service, job
<1>3. Posted(j) /\ ~Posted(j)' /\ \A i \in Jobs : (Posted(i)' => Posted(i)) /\ (InFlight(i)' => InFlight(i))
  BY <1>2 DEF Posted, InFlight, InOnePlace
<1>4. InOnePlace' /\ WorkerIsOpen'
  BY <1>2, <1>3 DEF InOnePlace, WorkerIsOpen
<1>5. posted' \in SUBSET (Jobs \X Outcomes)
  BY <1>2 DEF TypeOK
<1>a. CASE editor = "open" /\ j = generation
  <2>1. inProgress /\ completion = j /\ ~Answered(j)
    BY <1>3, <1>a DEF NewestIsOwed, InFlight
  <2>2. /\ Publish(j, result) /\ Complete(result, pending)
        /\ answers' = Answer(IF result = "ok" THEN "loaded" ELSE "failed")
        /\ completion' = None /\ inProgress' = FALSE /\ UNCHANGED <<generation, played>>
    BY <1>a DEF Deliver, DeliverTo
  <2>3. PICK a \in {"loaded", "failed"} : answers' = answers \cup {<<j, a>>}
    BY <1>1, <2>1, <2>2 DEF Answer
  <2>4. answers \subseteq answers' /\ answers' \in SUBSET (Jobs \X Answers)
    BY <2>3 DEF TypeOK, Answers
  <2>5. /\ sound' \in Sounds /\ stamp' \in Nat /\ (sound' = sound \/ sound'.load = j)
        /\ previous' \in {pending, previous} /\ pending' = None
    BY <2>2, Replacing DEF Publish, Complete, TypeOK
  <2>6. TypeOK'
    BY <1>2, <1>5, <2>2, <2>4, <2>5 DEF TypeOK
  <2>7. \A i \in Jobs : Answered(i)' => Answered(i) \/ i = j
    BY <2>3 DEF Answered
  <2>8. Numbered'
    <3> SUFFICES ASSUME NEW i \in Jobs, active' = i \/ InFlight(i)' \/ Answered(i)' PROVE i <= generation'
      BY DEF Numbered
    <3>1. CASE i = j
      BY <1>1, <1>a, <2>2, <3>1
    <3>2. CASE i # j
      BY <1>2, <1>3, <2>2, <2>7, <3>2 DEF Numbered
    <3> QED
      BY <3>1, <3>2
  <2>9. ~InFlight(j)'
    BY <1>2, <1>3 DEF InFlight, InOnePlace
  <2>10. NewestIsOwed'
    <3>1. generation' = j /\ ~InFlight(generation)'
      BY <1>a, <2>2, <2>9 DEF InFlight, Posted
    <3> QED
      BY <1>a, <2>2, <3>1 DEF NewestIsOwed
  <2>11. OneAnswer'
    BY <2>1, <2>3 DEF OneAnswer, Answered, Answers
  <2>12. Heard(sound', answers')
    BY <2>3, <2>4, <2>5, OldSounds DEF Heard
  <2>13. SoundsWereRun'
    BY <2>2, <2>4, <2>5, <2>12, OldSounds DEF SoundsWereRun
  <2>14. PendingWasPlayed'
    BY <1>2, <2>1, <2>2, <2>5 DEF PendingWasPlayed
  <2> QED
    BY <1>4, <2>6, <2>8, <2>10, <2>11, <2>13, <2>14
<1>b. CASE ~(editor = "open" /\ j = generation)
  <2>1. UNCHANGED <<generation, inProgress, completion, answers, sound, stamp, pending, previous, played>>
    BY <1>b DEF Deliver, DeliverTo, load, sounds
  <2>2. \A i \in Jobs : Answered(i)' = Answered(i)
    BY <2>1 DEF Answered
  <2>3. TypeOK' /\ OneAnswer' /\ PendingWasPlayed'
    BY <1>2, <1>5, <2>1 DEF TypeOK, OneAnswer, PendingWasPlayed
  <2>4. Numbered'
    BY <1>2, <1>3, <2>1, <2>2 DEF Numbered
  <2>5. NewestIsOwed'
    <3>1. Answered(generation)' = Answered(generation) /\ (InFlight(generation)' => InFlight(generation))
      BY <1>2, <2>1 DEF Answered, InFlight, Posted
    <3> QED
      BY <1>2, <2>1, <3>1 DEF NewestIsOwed
  <2>6. SoundsWereRun'
    BY <2>1 DEF SoundsWereRun
  <2> QED
    BY <1>4, <2>3, <2>4, <2>5, <2>6
<1> QED
  BY <1>a, <1>b

\* The job of the worker: only a check that found no cancellation is followed by a callback.
LEMMA WorkerSteps ==
  ASSUME IInv, WorkerStep
  PROVE  IInv'
<1> USE DEF IInv
<1>1. None \notin Jobs
  BY ImportAssumption DEF Jobs
<1>2. UNCHANGED <<closed, generation, inProgress, completion, answers, dialog, editor, sound, stamp, pending, previous, played>>
  BY DEF WorkerStep, Take, CheckCancelled, Prepare, Post, Return, Worker!Begin, Worker!End, load, sounds, service
<1>3. OneAnswer' /\ SoundsWereRun' /\ PendingWasPlayed' /\ WorkerIsOpen'
  BY <1>2 DEF OneAnswer, SoundsWereRun, PendingWasPlayed, WorkerIsOpen
<1>4. cancelled' = cancelled
  BY DEF WorkerStep, Take, CheckCancelled, Prepare, Post, Return, Worker!Begin, Worker!End, service
\* What is left to show is that a load stays in one place, and none is new in flight.
<1>5. SUFFICES /\ queued' \in Jobs \cup {None} /\ active' \in Jobs \cup {None}
               /\ phase' \in {"none", "taken", "preparing", "posting", "done"} /\ outcome' \in Outcomes
               /\ posted' \in SUBSET (Jobs \X Outcomes)
               /\ InOnePlace'
               /\ \A j \in Jobs : /\ InFlight(j)' => InFlight(j)
                                  /\ active' = j => active = j \/ InFlight(j)
  <2>1. \A j \in Jobs : Answered(j)' = Answered(j)
    BY <1>2 DEF Answered
  <2>2. TypeOK'
    BY <1>2, <1>4, <1>5 DEF TypeOK
  <2>3. Numbered'
    BY <1>2, <1>5, <2>1 DEF Numbered
  <2>4. NewestIsOwed'
    <3>1. Answered(generation)' = Answered(generation)
      BY <1>2 DEF Answered
    <3>2. generation \in Jobs => (InFlight(generation)' => InFlight(generation))
      BY <1>2, <1>5 DEF InFlight, Posted
    <3> QED
      BY <1>2, <3>1, <3>2 DEF NewestIsOwed
  <2> QED
    BY <1>3, <1>5, <2>2, <2>3, <2>4
<1>a. CASE Take
  <2>1. /\ active = None /\ active' = queued /\ queued \in Jobs /\ queued' = None /\ phase' = "taken"
        /\ UNCHANGED <<outcome, posted>>
    BY <1>a DEF Take, Worker!Begin, TypeOK
  <2>2. \A j \in Jobs : Posted(j)' = Posted(j)
    BY <2>1 DEF Posted
  <2>3. InOnePlace'
    BY <1>1, <2>1, <2>2 DEF InOnePlace
  <2> QED
    BY <1>1, <2>1, <2>2, <2>3 DEF TypeOK, InFlight
<1>b. CASE CheckCancelled \/ \E result \in Outcomes : Prepare(result)
  <2>1. /\ phase \in {"taken", "preparing"} /\ phase' \in {"preparing", "posting", "done"} /\ outcome' \in Outcomes
        /\ UNCHANGED <<queued, active, posted>>
    BY <1>b DEF CheckCancelled, Prepare, service, TypeOK
  <2>2. \A j \in Jobs : Posted(j)' = Posted(j)
    BY <2>1 DEF Posted
  <2>3. InOnePlace'
    BY <2>1, <2>2 DEF InOnePlace
  <2> QED
    BY <2>1, <2>2, <2>3 DEF TypeOK, InFlight
<1>c. CASE Post
  <2>1. /\ phase = "posting" /\ phase' = "done" /\ posted' = posted \cup {<<active, outcome>>}
        /\ UNCHANGED <<queued, active, outcome>>
    BY <1>c DEF Post, service
  <2>2. active \in Jobs /\ outcome \in Outcomes /\ ~Posted(active)
    BY <2>1 DEF TypeOK, InOnePlace
  <2>3. \A j \in Jobs : Posted(j)' = (Posted(j) \/ j = active)
    BY <2>1, <2>2 DEF Posted
  <2>4. InOnePlace'
    <3>1. ASSUME NEW j \in Jobs, NEW r1 \in Outcomes, NEW r2 \in Outcomes, <<j, r1>> \in posted', <<j, r2>> \in posted'
          PROVE  r1 = r2
      BY <2>1, <2>2, <3>1 DEF InOnePlace, Posted
    <3> QED
      BY <2>1, <2>2, <2>3, <3>1 DEF InOnePlace
  <2>5. posted' \in SUBSET (Jobs \X Outcomes)
    BY <2>1, <2>2 DEF TypeOK
  <2> QED
    BY <2>1, <2>2, <2>3, <2>4, <2>5 DEF TypeOK, InFlight
<1>d. CASE Return
  <2>1. /\ active' = None /\ phase = "done" /\ phase' = "none"
        /\ UNCHANGED <<queued, outcome, posted>>
    BY <1>d DEF Return, Worker!End
  <2>2. \A j \in Jobs : Posted(j)' = Posted(j)
    BY <2>1 DEF Posted
  <2>3. InOnePlace'
    BY <1>1, <2>1, <2>2 DEF InOnePlace
  <2> QED
    BY <1>1, <2>1, <2>2, <2>3 DEF TypeOK, InFlight
<1> QED
  BY <1>a, <1>b, <1>c, <1>d DEF WorkerStep

\* Every step does.
LEMMA StepInv == IInv /\ [Next]_vars => IInv'
<1> SUFFICES ASSUME IInv, [Next]_vars PROVE IInv'
  OBVIOUS
<1>1. CASE Closed
  <2>1. /\ UNCHANGED <<service, job, posted, load, dialog, sounds>> /\ editor = "closing" /\ editor' = "closed"
    BY <1>1 DEF Closed
  <2>2. /\ UNCHANGED <<queued, active, cancelled, closed, phase, outcome, posted, generation, inProgress, completion>>
        /\ UNCHANGED <<answers, dialog, sound, stamp, pending, previous, played>>
    BY <2>1 DEF service, job, load, sounds
  <2>3. \A j \in Jobs : Posted(j)' = Posted(j) /\ InFlight(j)' = InFlight(j) /\ Answered(j)' = Answered(j)
    BY <2>2 DEF Posted, InFlight, Answered
  <2>4. TypeOK' /\ OneAnswer' /\ SoundsWereRun'
    BY <2>1, <2>2 DEF IInv, TypeOK, OneAnswer, SoundsWereRun
  <2>5. InOnePlace' /\ Numbered'
    BY <2>2, <2>3 DEF IInv, InOnePlace, Numbered
  <2>6. NewestIsOwed' /\ PendingWasPlayed' /\ WorkerIsOpen'
    BY <2>1, <2>2 DEF IInv, NewestIsOwed, PendingWasPlayed, WorkerIsOpen
  <2> QED
    BY <2>4, <2>5, <2>6 DEF IInv
<1>2. CASE UNCHANGED vars
  <2>1. /\ UNCHANGED <<service, job, posted, load>> /\ editor' = editor
        /\ UNCHANGED <<queued, active, cancelled, closed, phase, outcome, posted, generation, inProgress, completion>>
        /\ UNCHANGED <<answers, dialog, sound, stamp, pending, previous, played>>
    BY <1>2 DEF vars, service, job, load, sounds
  <2>2. TypeOK' /\ SoundsWereRun' /\ PendingWasPlayed'
    BY <2>1 DEF IInv, TypeOK, SoundsWereRun, PendingWasPlayed
  <2> QED
    BY <2>1, <2>2, Elsewhere DEF IInv
<1> QED
  BY <1>1, <1>2, UserSteps, WorkerSteps, Delivering DEF Next, DeliverStep, Done

-----------------------------------------------------------------------------
(* The theorems                                                            *)

\* The inductive invariant holds for any number of loads, changes and answers.
THEOREM Invariance == Spec => []IInv
BY InitInv, StepInv, PTL DEF Spec

\* A load that was cancelled, by the user, by a newer load or by another source, leaves no trace.
THEOREM NoTrace == Spec => []CancelledLeavesNoTrace
<1>1. IInv => CancelledLeavesNoTrace
  <2> SUFFICES ASSUME IInv, NEW j \in Jobs, <<j, "cancelled">> \in answers
               PROVE  sound.load # j /\ (previous # None => previous.load # j)
    BY DEF CancelledLeavesNoTrace
  <2>1. \A a \in {"loaded", "failed"} : <<j, a>> \notin answers
    BY DEF IInv, OneAnswer, Answers
  <2>2. sound # None /\ j # None
    BY ImportAssumption DEF IInv, TypeOK, Jobs
  <2> QED
    BY <2>1, <2>2 DEF IInv, SoundsWereRun, Heard
<1> QED
  BY <1>1, Invariance, PTL

\* completeInstrumentLoad() and the cancellations call a completion with one answer between them.
THEOREM AnsweredOnce == Spec => []OneAnswer
<1>1. IInv => OneAnswer
  BY DEF IInv
<1> QED
  BY <1>1, Invariance, PTL

\* "Restore previous sound" goes back to a sound that played while the load that succeeded was
\* asked for or prepared.
THEOREM PlayedIsKept == Spec => LoadKeepsPlayed
<1> DEFINE Kept == \A j \in Jobs : <<j, "loaded">> \in answers' \ answers => previous' \in played
<1>1. ASSUME IInv, [Next]_vars PROVE [Kept]_vars
  <2> SUFFICES ASSUME NEW i \in Jobs, <<i, "loaded">> \in answers', <<i, "loaded">> \notin answers, Next
               PROVE  previous' \in played
    BY <1>1
  <2>1. CASE UserStep
    <3>1. CASE LoadFile \/ Choose \/ LocateSamples
      BY <3>1, <1>1 DEF LoadFile, Choose, LocateSamples, startBackgroundInstrumentLoad, Answer
    <3>2. CASE \/ OpenChoice \/ CancelLoad
               \/ \E result \in Outcomes : LoadDirectly(result)
               \/ \E restored \in BOOLEAN : LoadPreset(restored)
      BY <3>2 DEF OpenChoice, CancelLoad, LoadDirectly, LoadPreset, cancelBackgroundInstrumentLoad, Answer, load
    <3>3. CASE DismissChoice \/ ReplaceSource \/ RestorePrevious \/ EditSound \/ Close
      BY <3>3 DEF DismissChoice, ReplaceSource, RestorePrevious, EditSound, Close, load
    <3> QED
      BY <2>1, <3>1, <3>2, <3>3 DEF UserStep
  <2>2. CASE WorkerStep \/ Closed \/ Done
    BY <2>2 DEF WorkerStep, Take, CheckCancelled, Prepare, Post, Return, Closed, Done, vars, load
  <2>3. ASSUME NEW j \in Jobs, NEW result \in Outcomes, Deliver(j, result) PROVE previous' \in played
    <3>1. editor = "open" /\ j = generation
      BY <2>3 DEF Deliver, DeliverTo, load
    <3>2. inProgress
      BY <1>1, <2>3, <3>1 DEF Deliver, IInv, NewestIsOwed, InFlight, Posted
    <3>3. result = "ok"
      BY <2>3, <3>1 DEF Deliver, DeliverTo, Answer
    <3>4. previous' = pending
      BY <2>3, <3>1, <3>3 DEF Deliver, DeliverTo, Complete
    <3> QED
      BY <1>1, <3>1, <3>2, <3>4 DEF IInv, PendingWasPlayed
  <2> QED
    BY <2>1, <2>2, <2>3 DEF Next, DeliverStep
<1> QED
  BY <1>1, Invariance, PTL DEF Spec, LoadKeepsPlayed

\* The editor submits, cancels and closes as a JobService allows, so never to a worker that was
\* shut down.
THEOREM UsesTheService == Spec => Worker!Spec
<1>1. Init => Worker!Init
  BY DEF Init
<1>2. ASSUME IInv, [Next]_vars PROVE [Worker!Next]_(Worker!vars)
  <2> USE DEF Worker!Next, Worker!vars
  <2>1. CASE LoadFile \/ Choose \/ LocateSamples
    <3>1. Worker!Submit(generation')
      BY <2>1 DEF LoadFile, Choose, LocateSamples, startBackgroundInstrumentLoad
    <3>2. startBackgroundInstrumentLoad /\ editor = "open" /\ UNCHANGED <<job, posted, editor>>
      BY <2>1 DEF LoadFile, Choose, LocateSamples, Free
    <3>3. generation' \in Jobs
      BY <1>2, <3>2, ImportAssumption DEF startBackgroundInstrumentLoad, IInv, TypeOK, Jobs
    <3> QED
      BY <3>1, <3>3
  <2>2. CASE \/ OpenChoice \/ CancelLoad
             \/ \E result \in Outcomes : LoadDirectly(result)
             \/ \E restored \in BOOLEAN : LoadPreset(restored)
    BY <2>2 DEF OpenChoice, CancelLoad, LoadDirectly, LoadPreset, cancelBackgroundInstrumentLoad, service
  <2>3. CASE DismissChoice \/ ReplaceSource \/ RestorePrevious \/ EditSound
    BY <2>3 DEF DismissChoice, ReplaceSource, RestorePrevious, EditSound, service
  <2>4. CASE Close
    BY <2>4 DEF Close
  <2>5. CASE Take \/ Return
    BY <2>5 DEF Take, Return
  <2>6. CASE CheckCancelled \/ Post \/ (\E result \in Outcomes : Prepare(result)) \/ DeliverStep \/ Closed
    BY <2>6 DEF CheckCancelled, Post, Prepare, DeliverStep, Deliver, Closed, service
  <2>7. CASE UNCHANGED vars
    BY <2>7 DEF vars, service
  <2> QED
    BY <1>2, <2>1, <2>2, <2>3, <2>4, <2>5, <2>6, <2>7 DEF Next, UserStep, WorkerStep, Done
<1> QED
  BY <1>1, <1>2, Invariance, PTL DEF Spec, Worker!Spec
=============================================================================
