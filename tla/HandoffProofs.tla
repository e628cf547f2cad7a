--------------------------- MODULE HandoffProofs ---------------------------
(***************************************************************************)
(* What one thread hands to another.  Of the jobs that the owner of a      *)
(* worker submits, any number of them, only the newest proceeds            *)
(* uncancelled, nothing is left after the join, and the worker implements  *)
(* JobService.  Of the events that the message thread pushes to the audio  *)
(* thread, for a ring of any size and any number of events, panics and     *)
(* previews: the panic latch is pending until the notes it is for are      *)
(* silent, and the ring is a queue that loses its oldest event only, until *)
(* a pop overlaps the making of room and again once it has run empty.      *)
(***************************************************************************)
EXTENDS OwnedJobWorker, AuditionPath, SequenceTheorems, TLAPS

-----------------------------------------------------------------------------
(* The worker.                                                             *)

\* requestCancellationLocked() only sets the flags of jobs that were accepted.
LEMMA FlagsAreAccepted ==
  ASSUME WorkerTypeOK, EntryHasFlag, JobsInOrder, requestCancellationLocked
  PROVE  cancelled' \subseteq 1 .. newest /\ cancelled' \subseteq Jobs
<1>1. newest \in Nat /\ MaxJobs \in Nat /\ newest <= MaxJobs
  BY JobsAssumption DEF WorkerTypeOK
<1>2. ASSUME NEW j \in {activeFlag, pending}, j # None PROVE j \in 1 .. newest
  BY <1>1, <1>2, JobsAssumption DEF WorkerTypeOK, EntryHasFlag, JobsInOrder, Jobs
<1>3. cancelled' \subseteq 1 .. newest
  BY <1>2 DEF requestCancellationLocked, JobsInOrder
<1>4. 1 .. newest \subseteq Jobs
  BY <1>1 DEF Jobs
<1> QED
  BY <1>3, <1>4

\* The invariant is inductive.
THEOREM WorkerInvariance == WorkerSpec => []IInv
<1>1. WorkerInit => IInv
  <2> SUFFICES ASSUME WorkerInit PROVE IInv
    OBVIOUS
  <2>1. newest \in 0 .. MaxJobs
    BY JobsAssumption DEF WorkerInit
  <2>2. WorkerTypeOK
    BY <2>1 DEF WorkerInit, WorkerTypeOK, WorkerPCs, OwnerPCs
  <2>3. EntryHasFlag /\ JobsInOrder
    BY DEF WorkerInit, EntryHasFlag, JobsInOrder
  <2>4. Stopped
    BY DEF WorkerInit, Stopped
  <2> QED
    BY <2>2, <2>3, <2>4 DEF IInv
<1>2. IInv /\ [WorkerNext]_workerVars => IInv'
  <2> SUFFICES ASSUME IInv, [WorkerNext]_workerVars PROVE IInv'
    OBVIOUS
  <2>0. WorkerTypeOK /\ EntryHasFlag /\ JobsInOrder /\ Stopped
    BY DEF IInv
  <2>1. CASE Submit
    <3>1. cancelled' \subseteq 1 .. newest /\ cancelled' \subseteq Jobs
      BY <2>0, <2>1, FlagsAreAccepted DEF Submit
    <3>2. newest' \in 0 .. MaxJobs /\ newest' >= newest /\ pending' \in {newest'} \cap Jobs
      BY <2>0, <2>1, JobsAssumption DEF Submit, WorkerTypeOK, Jobs
    <3>3. WorkerTypeOK'
      BY <2>0, <2>1, <3>1, <3>2 DEF Submit, WorkerTypeOK, OwnerPCs
    <3>4. EntryHasFlag'
      BY <2>0, <2>1 DEF Submit, EntryHasFlag
    <3>5. JobsInOrder'
      BY <2>0, <2>1, <3>1, JobsAssumption
      DEF Submit, requestCancellationLocked, WorkerTypeOK, EntryHasFlag, JobsInOrder, Jobs
    <3>6. Stopped'
      BY <2>0, <2>1 DEF Submit, requestCancellationLocked, WorkerTypeOK, EntryHasFlag, Stopped
    <3> QED
      BY <3>3, <3>4, <3>5, <3>6 DEF IInv
  <2>2. CASE CancelAll
    <3>1. cancelled' \subseteq 1 .. newest /\ cancelled' \subseteq Jobs
      BY <2>0, <2>2, FlagsAreAccepted DEF CancelAll
    <3>2. newest' \in 0 .. MaxJobs /\ newest' >= newest /\ pending' \in {None}
      BY <2>0, <2>2, JobsAssumption DEF CancelAll, WorkerTypeOK, Jobs
    <3>3. WorkerTypeOK'
      BY <2>0, <2>2, <3>1, <3>2 DEF CancelAll, WorkerTypeOK, OwnerPCs
    <3>4. EntryHasFlag'
      BY <2>0, <2>2 DEF CancelAll, EntryHasFlag
    <3>5. JobsInOrder'
      BY <2>0, <2>2, <3>1, JobsAssumption
      DEF CancelAll, requestCancellationLocked, WorkerTypeOK, EntryHasFlag, JobsInOrder, Jobs
    <3>6. Stopped'
      BY <2>0, <2>2 DEF CancelAll, requestCancellationLocked, WorkerTypeOK, EntryHasFlag, Stopped
    <3> QED
      BY <3>3, <3>4, <3>5, <3>6 DEF IInv
  <2>3. CASE Shutdown
    <3>1. cancelled' \subseteq 1 .. newest /\ cancelled' \subseteq Jobs
      BY <2>0, <2>3, FlagsAreAccepted DEF Shutdown
    <3>2. newest' \in 0 .. MaxJobs /\ newest' >= newest /\ pending' \in {None}
      BY <2>0, <2>3, JobsAssumption DEF Shutdown, WorkerTypeOK, Jobs
    <3>3. WorkerTypeOK'
      BY <2>0, <2>3, <3>1, <3>2 DEF Shutdown, WorkerTypeOK, OwnerPCs
    <3>4. EntryHasFlag'
      BY <2>0, <2>3 DEF Shutdown, EntryHasFlag
    <3>5. JobsInOrder'
      BY <2>0, <2>3, <3>1, JobsAssumption
      DEF Shutdown, requestCancellationLocked, WorkerTypeOK, EntryHasFlag, JobsInOrder, Jobs
    <3>6. Stopped'
      BY <2>0, <2>3 DEF Shutdown, requestCancellationLocked, WorkerTypeOK, EntryHasFlag, Stopped
    <3> QED
      BY <3>3, <3>4, <3>5, <3>6 DEF IInv
  <2>4. CASE Notify
    BY <2>0, <2>4, JobsAssumption
    DEF Notify, lock, IInv, WorkerTypeOK, EntryHasFlag, JobsInOrder, Stopped, Jobs, WorkerPCs, OwnerPCs
  <2>5. CASE Join
    BY <2>0, <2>5, JobsAssumption
    DEF Join, lock, IInv, WorkerTypeOK, EntryHasFlag, JobsInOrder, Stopped, Jobs, WorkerPCs, OwnerPCs
  <2>6. CASE Take
    BY <2>0, <2>6, JobsAssumption
    DEF Take, lock, IInv, WorkerTypeOK, EntryHasFlag, JobsInOrder, Stopped, Jobs, WorkerPCs, OwnerPCs
  <2>7. CASE Sleep
    BY <2>0, <2>7, JobsAssumption
    DEF Sleep, lock, IInv, WorkerTypeOK, EntryHasFlag, JobsInOrder, Stopped, Jobs, WorkerPCs, OwnerPCs
  <2>8. CASE Exit
    BY <2>0, <2>8, JobsAssumption
    DEF Exit, lock, IInv, WorkerTypeOK, EntryHasFlag, JobsInOrder, Stopped, Jobs, WorkerPCs, OwnerPCs
  <2>9. CASE Wake
    BY <2>0, <2>9, JobsAssumption
    DEF Wake, lock, IInv, WorkerTypeOK, EntryHasFlag, JobsInOrder, Stopped, Jobs, WorkerPCs, OwnerPCs
  <2>14. CASE SpuriousWake
    BY <2>0, <2>14, JobsAssumption
    DEF SpuriousWake, lock, IInv, WorkerTypeOK, EntryHasFlag, JobsInOrder, Stopped, Jobs, WorkerPCs, OwnerPCs
  <2>10. CASE CheckCancelled
    BY <2>0, <2>10, JobsAssumption
    DEF CheckCancelled, lock, IInv, WorkerTypeOK, EntryHasFlag, JobsInOrder, Stopped, Jobs, WorkerPCs, OwnerPCs
  <2>11. CASE JobReturns
    BY <2>0, <2>11, JobsAssumption
    DEF JobReturns, lock, IInv, WorkerTypeOK, EntryHasFlag, JobsInOrder, Stopped, Jobs, WorkerPCs, OwnerPCs
  <2>12. CASE Clear
    BY <2>0, <2>12, JobsAssumption
    DEF Clear, lock, IInv, WorkerTypeOK, EntryHasFlag, JobsInOrder, Stopped, Jobs, WorkerPCs, OwnerPCs
  <2>13. CASE UNCHANGED workerVars
    BY <2>0, <2>13 DEF workerVars, lock, IInv, WorkerTypeOK, EntryHasFlag, JobsInOrder, Stopped
  <2> QED
    BY <2>1, <2>2, <2>3, <2>4, <2>5, <2>6, <2>7, <2>8, <2>9, <2>10, <2>11, <2>12, <2>13, <2>14
    DEF WorkerNext, OwnerStep, WorkerStep, Done
<1> QED
  BY <1>1, <1>2, PTL DEF WorkerSpec

\* A replaced or cancelled job never proceeds as the current one (OwnedJobWorker.h, submit()).
THEOREM NewestOnly == WorkerSpec => []OnlyNewestProceeds
<1>1. IInv => OnlyNewestProceeds
  BY JobsAssumption DEF IInv, WorkerTypeOK, JobsInOrder, OnlyNewestProceeds, Jobs
<1> QED
  BY <1>1, WorkerInvariance, PTL

\* When shutdown() has returned no job can touch the destroyed owner.
THEOREM JoinedIsQuiet == WorkerSpec => []NothingAfterJoin
<1>1. IInv => NothingAfterJoin
  BY DEF IInv, EntryHasFlag, Stopped, NothingAfterJoin
<1> QED
  BY <1>1, WorkerInvariance, PTL

\* The mutex, the condition variable and the local entry are invisible to the owner: the worker
\* is a job service with one active job and at most one replacement.
THEOREM WorkerRefinement == WorkerSpec => ImplementsService
<1>1. WorkerInit => Service!Init
  BY DEF WorkerInit, Service!Init
<1>2. IInv /\ [WorkerNext]_workerVars => [Service!Next]_(Service!vars)
  <2> SUFFICES ASSUME IInv, [WorkerNext]_workerVars PROVE [Service!Next]_(Service!vars)
    OBVIOUS
  <2> USE DEF Service!Next, Service!vars, lock
  <2>1. CASE Submit
    <3>1. newest + 1 \in Jobs /\ Service!Submit(newest + 1)
      BY <2>1, JobsAssumption
      DEF Submit, requestCancellationLocked, Service!Submit, Service!CancelAllJobs,
          Jobs, IInv, WorkerTypeOK
    <3> QED
      BY <3>1
  <2>2. CASE CancelAll
    BY <2>2 DEF CancelAll, requestCancellationLocked, Service!CancelAll, Service!CancelAllJobs
  <2>3. CASE Shutdown
    BY <2>3 DEF Shutdown, requestCancellationLocked, Service!Close, Service!CancelAllJobs
  <2>4. CASE Take
    BY <2>4 DEF Take, Service!Begin, IInv, EntryHasFlag
  <2>5. CASE Clear
    BY <2>5 DEF Clear, Service!End, IInv, EntryHasFlag
  <2>6. CASE Notify \/ Join \/ Sleep \/ Exit \/ Wake \/ SpuriousWake \/ CheckCancelled \/ JobReturns
    BY <2>6 DEF Notify, Join, Sleep, Exit, Wake, SpuriousWake, CheckCancelled, JobReturns
  <2>7. CASE UNCHANGED workerVars
    BY <2>7 DEF workerVars
  <2> QED
    BY <2>1, <2>2, <2>3, <2>4, <2>5, <2>6, <2>7 DEF WorkerNext, OwnerStep, WorkerStep, Done
<1> QED
  BY <1>1, <1>2, WorkerInvariance, PTL DEF WorkerSpec, ImplementsService, Service!Spec

-----------------------------------------------------------------------------
(* The ring and the panic latch.                                           *)

\* The ring between two positions without division.
Waiting(w, r) == IF w >= r THEN w - r ELSE w - r + Slots
Place(r, i) == IF r + i - 1 < Slots THEN r + i - 1 ELSE r + i - 1 - Slots
RingSeq(s, w, r) == [i \in 1 .. Waiting(w, r) |-> s[Place(r, i)]]

\* The remainder of a number near to the ring's size.
LEMMA Remainder ==
  ASSUME NEW n \in Nat \ {0}, NEW k \in Int
  PROVE  /\ 0 <= k /\ k < n => k % n = k
         /\ n <= k /\ k < 2 * n => k % n = k - n
         /\ 0 - n <= k /\ k < 0 => k % n = k + n
<1>1. ASSUME 0 <= k, k < n PROVE k % n = k
  BY <1>1
<1>2. ASSUME n <= k, k < 2 * n PROVE k % n = k - n
  BY <1>2
<1>3. ASSUME 0 - n <= k, k < 0 PROVE k % n = k + n
  BY <1>3
<1> QED
  BY <1>1, <1>2, <1>3

\* The position after another.
LEMMA AfterIs ==
  ASSUME NEW p \in Positions
  PROVE  /\ After(p) \in Positions
         /\ After(p) = IF p = Slots - 1 THEN 0 ELSE p + 1
<1>1. Slots \in Nat \ {0} /\ Slots > 1 /\ p \in Nat /\ p < Slots /\ p + 1 \in Int
  BY FifoAssumption DEF Positions
<1>2. CASE p = Slots - 1
  <2>1. p + 1 = Slots /\ Slots <= p + 1 /\ p + 1 < 2 * Slots
    BY <1>1, <1>2
  <2>2. (p + 1) % Slots = 0
    BY <1>1, <2>1, Remainder
  <2> QED
    BY <1>1, <1>2, <2>2 DEF After, Positions
<1>3. CASE p # Slots - 1
  <2>1. 0 <= p + 1 /\ p + 1 < Slots
    BY <1>1, <1>3
  <2>2. (p + 1) % Slots = p + 1
    BY <1>1, <2>1, Remainder
  <2> QED
    BY <1>1, <1>3, <2>1, <2>2 DEF After, Positions
<1> QED
  BY <1>2, <1>3

\* The backlog of MidiFifo is the ring between the positions.
LEMMA BacklogIs ==
  ASSUME NEW s, NEW w \in Positions, NEW r \in Positions
  PROVE  [i \in 1 .. (w - r) % Slots |-> s[(r + i - 1) % Slots]] = RingSeq(s, w, r)
<1>1. /\ Slots \in Nat \ {0} /\ w \in Nat /\ r \in Nat
      /\ w < Slots /\ r < Slots /\ w - r \in Int
  BY FifoAssumption DEF Positions
<1>2. (w - r) % Slots = Waiting(w, r) /\ Waiting(w, r) \in 0 .. Slots - 1
  <2>1. CASE w >= r
    <3>1. 0 <= w - r /\ w - r < Slots
      BY <1>1, <2>1
    <3>2. (w - r) % Slots = w - r
      BY <1>1, <3>1, Remainder
    <3> QED
      BY <1>1, <2>1, <3>1, <3>2 DEF Waiting
  <2>2. CASE ~(w >= r)
    <3>1. 0 - Slots <= w - r /\ w - r < 0
      BY <1>1, <2>2
    <3>2. (w - r) % Slots = w - r + Slots
      BY <1>1, <3>1, Remainder
    <3> QED
      BY <1>1, <2>2, <3>1, <3>2 DEF Waiting
  <2> QED
    BY <2>1, <2>2
<1>3. ASSUME NEW i \in 1 .. Waiting(w, r)
      PROVE  (r + i - 1) % Slots = Place(r, i)
  <2> DEFINE k == r + i - 1
  <2>1. k \in Int /\ 0 <= k /\ k < 2 * Slots
    BY <1>1, <1>2
  <2>2. Place(r, i) = IF k < Slots THEN k ELSE k - Slots
    BY <1>1, <1>2 DEF Place
  <2> HIDE DEF k
  <2>3. k % Slots = IF k < Slots THEN k ELSE k - Slots
    <3>1. CASE k < Slots
      BY <1>1, <2>1, <3>1, Remainder
    <3>2. CASE ~(k < Slots)
      <4>1. Slots <= k
        BY <1>1, <2>1, <3>2
      <4> QED
        BY <1>1, <2>1, <3>2, <4>1, Remainder
    <3> QED
      BY <3>1, <3>2
  <2> QED
    BY <2>2, <2>3 DEF k
<1>4. [i \in 1 .. Waiting(w, r) |-> s[(r + i - 1) % Slots]] = RingSeq(s, w, r)
  BY <1>3 DEF RingSeq
<1> QED
  BY <1>2, <1>4

\* How many events wait, and where they lie: not where the next is written.
LEMMA RingFacts ==
  ASSUME NEW s \in [Positions -> Events], NEW w \in Positions, NEW r \in Positions
  PROVE  /\ RingSeq(s, w, r) \in Seq(Events)
         /\ Len(RingSeq(s, w, r)) = Waiting(w, r) /\ Waiting(w, r) \in 0 .. Slots - 1
         /\ \A i \in 1 .. Waiting(w, r) :
              Place(r, i) \in Positions /\ Place(r, i) # w /\ RingSeq(s, w, r)[i] = s[Place(r, i)]
<1>1. Slots \in Nat /\ Slots > 1 /\ w \in Nat /\ r \in Nat /\ w < Slots /\ r < Slots
  BY FifoAssumption DEF Positions
<1>2. Waiting(w, r) \in 0 .. Slots - 1
  BY <1>1 DEF Waiting
<1>3. ASSUME NEW i \in 1 .. Waiting(w, r) PROVE Place(r, i) \in Positions /\ Place(r, i) # w
  <2>1. i \in Nat /\ 1 <= i /\ i <= Waiting(w, r)
    BY <1>1, <1>2
  <2> QED
    BY <1>1, <2>1 DEF Waiting, Place, Positions
<1>4. Waiting(w, r) \in Nat
  BY <1>1, <1>2
<1>5. \A i \in 1 .. Waiting(w, r) : s[Place(r, i)] \in Events
  BY <1>3
<1>6. RingSeq(s, w, r) \in [1 .. Waiting(w, r) -> Events]
  BY <1>5 DEF RingSeq
<1>7. RingSeq(s, w, r) \in Seq(Events) /\ Len(RingSeq(s, w, r)) = Waiting(w, r)
  BY <1>4, <1>6, SeqDef, LenProperties
<1> QED
  BY <1>2, <1>3, <1>7 DEF RingSeq

\* What is written beside the backlog does not touch it.
LEMMA WrittenBeside ==
  ASSUME NEW s \in [Positions -> Events], NEW w \in Positions, NEW r \in Positions,
         NEW t, \A p \in Positions \ {w} : t[p] = s[p]
  PROVE  RingSeq(t, w, r) = RingSeq(s, w, r)
<1>1. \A i \in 1 .. Waiting(w, r) : t[Place(r, i)] = s[Place(r, i)]
  BY RingFacts
<1> QED
  BY <1>1 DEF RingSeq

\* Publishing the write position appends what was written.
LEMMA Published ==
  ASSUME NEW s \in [Positions -> Events], NEW w \in Positions, NEW r \in Positions, After(w) # r
  PROVE  /\ RingSeq(s, After(w), r) = Append(RingSeq(s, w, r), s[w])
         /\ Waiting(w, r) < Slots - 1
<1> DEFINE q == RingSeq(s, w, r)
           n == Waiting(w, r)
<1>1. Slots \in Nat /\ Slots > 1 /\ w \in Nat /\ r \in Nat /\ w < Slots /\ r < Slots
  BY FifoAssumption DEF Positions
<1>2. After(w) \in Positions /\ After(w) = IF w = Slots - 1 THEN 0 ELSE w + 1
  BY AfterIs
<1>3. Waiting(After(w), r) = n + 1 /\ n < Slots - 1 /\ n \in Nat
  BY <1>1, <1>2 DEF Waiting
<1>4. Place(r, n + 1) = w
  BY <1>1, <1>2, <1>3 DEF Waiting, Place
<1>5. q \in Seq(Events) /\ Len(q) = n /\ \A i \in 1 .. n : q[i] = s[Place(r, i)]
  BY RingFacts
<1>6. s[w] \in Events
  OBVIOUS
<1>7. RingSeq(s, After(w), r) = [i \in 1 .. n + 1 |-> s[Place(r, i)]]
  BY <1>3 DEF RingSeq
<1> HIDE DEF q, n
<1>8. Append(q, s[w]) = [i \in 1 .. n + 1 |-> s[Place(r, i)]]
  <2>1. /\ Append(q, s[w]) \in Seq(Events) /\ Len(Append(q, s[w])) = n + 1
        /\ \A i \in 1 .. n : Append(q, s[w])[i] = q[i]
        /\ Append(q, s[w])[n + 1] = s[w]
    BY <1>5, <1>6, AppendProperties
  <2>2. \A i \in 1 .. n + 1 : Append(q, s[w])[i] = s[Place(r, i)]
    <3> SUFFICES ASSUME NEW i \in 1 .. n + 1 PROVE Append(q, s[w])[i] = s[Place(r, i)]
      OBVIOUS
    <3>1. CASE i = n + 1
      BY <1>4, <2>1, <3>1
    <3>2. CASE i # n + 1
      <4>1. i \in 1 .. n
        BY <1>3, <3>2
      <4> QED
        BY <1>5, <2>1, <4>1
    <3> QED
      BY <3>1, <3>2
  <2>3. DOMAIN Append(q, s[w]) = 1 .. n + 1
    BY <2>1, LenProperties
  <2>4. Append(q, s[w]) = [i \in DOMAIN Append(q, s[w]) |-> Append(q, s[w])[i]]
    BY <2>1
  <2> QED
    BY <2>2, <2>3, <2>4
<1> QED
  BY <1>3, <1>7, <1>8 DEF q, n

\* Moving the read position on takes the oldest.
LEMMA MovedOn ==
  ASSUME NEW s \in [Positions -> Events], NEW w \in Positions, NEW r \in Positions, w # r
  PROVE  /\ RingSeq(s, w, After(r)) = Tail(RingSeq(s, w, r))
         /\ RingSeq(s, w, r) # <<>> /\ Head(RingSeq(s, w, r)) = s[r]
<1> DEFINE q == RingSeq(s, w, r)
           n == Waiting(w, r)
<1>1. Slots \in Nat /\ Slots > 1 /\ w \in Nat /\ r \in Nat /\ w < Slots /\ r < Slots
  BY FifoAssumption DEF Positions
<1>2. After(r) \in Positions /\ After(r) = IF r = Slots - 1 THEN 0 ELSE r + 1
  BY AfterIs
<1>3. Waiting(w, After(r)) = n - 1 /\ n \in Nat \ {0} /\ n < Slots
  BY <1>1, <1>2 DEF Waiting
<1>4. \A i \in 1 .. n - 1 : Place(After(r), i) = Place(r, i + 1)
  <2> SUFFICES ASSUME NEW i \in 1 .. n - 1 PROVE Place(After(r), i) = Place(r, i + 1)
    OBVIOUS
  <2>1. i \in Nat /\ 1 <= i /\ i < Slots
    BY <1>1, <1>3
  <2> QED
    BY <1>1, <1>2, <2>1 DEF Place
<1>5. Place(r, 1) = r
  BY <1>1 DEF Place
<1>6. q \in Seq(Events) /\ Len(q) = n /\ \A i \in 1 .. n : q[i] = s[Place(r, i)]
  BY RingFacts
<1>7. RingSeq(s, w, After(r)) = [i \in 1 .. n - 1 |-> s[Place(r, i + 1)]]
  BY <1>3, <1>4 DEF RingSeq
<1> HIDE DEF q, n
<1>8. q # <<>> /\ Head(q) = s[r]
  BY <1>3, <1>5, <1>6, HeadTailProperties
<1>9. Tail(q) = [i \in 1 .. n - 1 |-> s[Place(r, i + 1)]]
  <2>1. Tail(q) \in Seq(Events) /\ Len(Tail(q)) = n - 1 /\ \A i \in 1 .. n - 1 : Tail(q)[i] = q[i + 1]
    BY <1>3, <1>6, <1>8, HeadTailProperties
  <2>2. \A i \in 1 .. n - 1 : Tail(q)[i] = s[Place(r, i + 1)]
    BY <1>3, <1>6, <2>1
  <2>3. Tail(q) \in [1 .. n - 1 -> Events]
    BY <2>1, LenProperties
  <2>4. Tail(q) = [i \in 1 .. n - 1 |-> Tail(q)[i]]
    BY <2>3
  <2> QED
    BY <2>2, <2>4
<1> QED
  BY <1>7, <1>8, <1>9 DEF q, n

\* A ring whose positions would meet is full.
LEMMA FullRing ==
  ASSUME NEW w \in Positions, NEW r \in Positions, After(w) = r
  PROVE  Waiting(w, r) = Slots - 1 /\ w # r
<1>1. Slots \in Nat /\ Slots > 1 /\ w \in Nat /\ r \in Nat /\ w < Slots /\ r < Slots
  BY FifoAssumption DEF Positions
<1>2. After(w) = IF w = Slots - 1 THEN 0 ELSE w + 1
  BY AfterIs
<1> QED
  BY <1>1, <1>2 DEF Waiting

-----------------------------------------------------------------------------
\* Positions stay in the ring and no event comes from nowhere, whatever overlaps.
LEMMA TypeSteps ==
  ASSUME TypeOK, NothingInvented, Push \/ Pop
  PROVE  TypeOK' /\ NothingInvented' /\ pushed \in Nat /\ pushed' \in Nat /\ pushed <= pushed'
<1>1. /\ slots \in [Positions -> Events] /\ writePos \in Positions /\ readPos \in Positions
      /\ After(writePos) \in Positions /\ After(oldest) \in Positions /\ After(position) \in Positions
      /\ MaxEvents \in Nat /\ pushed \in 0 .. MaxEvents /\ out \in 0 .. MaxEvents
      /\ \A p \in Positions : slots[p] \in 0 .. MaxEvents
  BY AfterIs, FifoAssumption DEF TypeOK, Events
<1>2. overlapped' \in BOOLEAN
  BY DEF Push, Pop, Remember, TypeOK
<1>a. CASE PushBegin
  <2>1. pushed' \in 0 .. MaxEvents /\ pushed' = pushed + 1
    BY <1>1, <1>a DEF PushBegin
  <2>2. TypeOK'
    BY <1>1, <1>2, <1>a, <2>1 DEF PushBegin, TypeOK, ring, consumer, Events
  <2>3. UNCHANGED <<slots, out>>
    BY <1>a DEF PushBegin, ring, consumer
  <2> QED
    BY <1>1, <2>1, <2>2, <2>3 DEF NothingInvented
<1>b. CASE PushLoadOldest
  BY <1>1, <1>2, <1>b DEF PushLoadOldest, TypeOK, NothingInvented, ring, consumer
<1>c. CASE PushDropOldest
  BY <1>1, <1>2, <1>c DEF PushDropOldest, TypeOK, NothingInvented, consumer
<1>d. CASE PushWrite
  <2>1. slots' = [slots EXCEPT ![writePos] = pushed] /\ UNCHANGED <<pushed, out>> /\ ppc' = "publish" /\ ppc = "write"
    BY <1>d DEF PushWrite, consumer
  <2>2. TypeOK'
    BY <1>1, <1>2, <1>d DEF PushWrite, TypeOK, consumer, Events
  <2>3. NothingInvented'
    BY <1>1, <2>1 DEF NothingInvented
  <2> QED
    BY <1>1, <2>1, <2>2, <2>3
<1>e. CASE PushPublish
  BY <1>1, <1>2, <1>e DEF PushPublish, TypeOK, NothingInvented, consumer
<1>f. CASE PopLoad \/ PopEmpty \/ PopFound
  BY <1>1, <1>2, <1>f DEF PopLoad, PopEmpty, PopFound, TypeOK, NothingInvented, ring, producer
<1>h. CASE PopCopy
  <2>1. out' = slots[position] /\ UNCHANGED <<slots, ppc, pushed>>
    BY <1>h DEF PopCopy, ring, producer
  <2>2. TypeOK'
    BY <1>1, <1>2, <1>h DEF PopCopy, TypeOK, ring, producer
  <2>3. NothingInvented'
    BY <1>1, <2>1 DEF NothingInvented, TypeOK
  <2> QED
    BY <1>1, <2>1, <2>2, <2>3
<1>i. CASE PopAdvance
  <2>1. delivered' \in Seq(Events)
    BY <1>i, AppendProperties DEF PopAdvance, TypeOK
  <2> QED
    BY <1>1, <1>2, <1>i, <2>1 DEF PopAdvance, TypeOK, NothingInvented, producer
<1> QED
  BY <1>a, <1>b, <1>c, <1>d, <1>e, <1>f, <1>h, <1>i DEF Push, Pop

\* The positions keep their meaning as long as no pop overlaps the making of room.
LEMMA RingSteps ==
  ASSUME TypeOK, PopIsOldest, RoomIsMade, Push \/ Pop, ppc' \in {"full", "drop"} => cpc' = "idle"
  PROVE  PopIsOldest' /\ RoomIsMade'
<1>1. /\ slots \in [Positions -> Events] /\ writePos \in Positions /\ readPos \in Positions
      /\ After(writePos) \in Positions /\ After(readPos) \in Positions
      /\ Slots \in Nat /\ MaxEvents \in Nat /\ pushed \in 0 .. MaxEvents
  BY AfterIs, FifoAssumption DEF TypeOK, Events
<1>a. CASE PushBegin
  <2>1. PopIsOldest'
    BY <1>a DEF PushBegin, PopIsOldest, ring, consumer
  <2>2. RoomIsMade'
    BY <1>1, <1>a DEF PushBegin, RoomIsMade, ring, consumer, After
  <2> QED
    BY <2>1, <2>2
<1>b. CASE PushLoadOldest
  BY <1>1, <1>b DEF PushLoadOldest, PopIsOldest, RoomIsMade, ring, consumer, After
<1>c. CASE PushDropOldest
  <2>1. cpc = "idle" /\ cpc' = "idle" /\ oldest = readPos /\ After(writePos) = readPos
    BY <1>c DEF PushDropOldest, RoomIsMade, consumer
  <2>2. After(writePos) # After(readPos)
    BY <1>1, <2>1, AfterIs, FifoAssumption DEF Positions
  <2> QED
    BY <1>c, <2>1, <2>2 DEF PushDropOldest, PopIsOldest, RoomIsMade, After
<1>d. CASE PushWrite
  <2>1. cpc = "advance" => writePos # readPos
    BY DEF PopIsOldest
  <2> QED
    BY <1>1, <1>d, <2>1 DEF PushWrite, PopIsOldest, RoomIsMade, consumer, After
<1>e. CASE PushPublish
  <2>1. cpc \in {"read", "advance"} => After(writePos) # readPos
    BY <1>e DEF PushPublish, RoomIsMade
  <2> QED
    BY <1>1, <1>e, <2>1 DEF PushPublish, PopIsOldest, RoomIsMade, consumer
<1>f. CASE PopLoad
  BY <1>1, <1>f DEF PopLoad, PopIsOldest, RoomIsMade, ring, producer, After
<1>g. CASE PopEmpty \/ PopFound
  BY <1>1, <1>g DEF PopEmpty, PopFound, PopIsOldest, RoomIsMade, ring, producer, After
<1>h. CASE PopCopy
  BY <1>1, <1>h DEF PopCopy, PopIsOldest, RoomIsMade, ring, producer, After
<1>i. CASE PopAdvance
  <2>1. position = readPos /\ readPos # writePos
    BY <1>i DEF PopAdvance, PopIsOldest
  <2>2. ppc \in {"write", "publish"} => After(writePos) # After(readPos)
    BY <1>1, <2>1, AfterIs, FifoAssumption DEF Positions
  <2>3. ppc \notin {"full", "drop"}
    BY <1>i DEF PopAdvance, RoomIsMade
  <2> QED
    BY <1>1, <1>i, <2>1, <2>2, <2>3 DEF PopAdvance, PopIsOldest, RoomIsMade, producer, After
<1> QED
  BY <1>a, <1>b, <1>c, <1>d, <1>e, <1>f, <1>g, <1>h, <1>i DEF Push, Pop

\* What a step does to the backlog: nothing, or what a step of DropOldestQueue does.
LEMMA BacklogSteps ==
  ASSUME TypeOK, TypeOK', NothingInvented, PopIsOldest, RoomIsMade, Push \/ Pop
  PROVE  \/ UNCHANGED <<Backlog, delivered, Accepted>> /\ ~PopAdvance
         \/ /\ Len(Backlog) = Slots - 1 /\ Backlog # <<>> /\ Backlog' = Tail(Backlog)
            /\ UNCHANGED <<delivered, Accepted>> /\ ~PopAdvance
         \/ /\ Len(Backlog) < Slots - 1 /\ Backlog' = Append(Backlog, Accepted + 1)
            /\ Accepted' = Accepted + 1 /\ delivered' = delivered /\ ~PopAdvance
         \/ /\ PopAdvance /\ Backlog # <<>> /\ out = Head(Backlog) /\ Backlog' = Tail(Backlog)
            /\ delivered' = Append(delivered, out) /\ Accepted' = Accepted
<1>1. /\ slots \in [Positions -> Events] /\ writePos \in Positions /\ readPos \in Positions
      /\ slots' \in [Positions -> Events] /\ writePos' \in Positions /\ readPos' \in Positions
      /\ pushed \in Nat /\ pushed' \in Nat
  <2>1. TypeOK /\ TypeOK' /\ MaxEvents \in Nat
    BY FifoAssumption
  <2>2. pushed \in 0 .. MaxEvents /\ pushed' \in 0 .. MaxEvents
    BY <2>1 DEF TypeOK, Events
  <2>3. pushed \in Nat /\ pushed' \in Nat
    BY <2>1, <2>2
  <2> QED
    BY <2>1, <2>3 DEF TypeOK
<1>2. Backlog = RingSeq(slots, writePos, readPos) /\ Backlog' = RingSeq(slots', writePos', readPos')
  BY <1>1, BacklogIs DEF Backlog
<1>3. Len(Backlog) = Waiting(writePos, readPos)
  BY <1>1, <1>2, RingFacts
<1>a. CASE PushBegin \/ PushLoadOldest \/ PopLoad \/ PopEmpty \/ PopFound \/ PopCopy
  <2>1. UNCHANGED <<slots, writePos, readPos, delivered>> /\ ~PopAdvance
    BY <1>a DEF PushBegin, PushLoadOldest, PopLoad, PopEmpty, PopFound, PopCopy, PopAdvance, ring, consumer
  <2>2. Accepted' = Accepted
    <3>1. CASE PushBegin
      BY <1>1, <3>1 DEF PushBegin, Accepted
    <3>2. CASE PushLoadOldest
      BY <3>2 DEF PushLoadOldest, Accepted
    <3>3. CASE PopLoad \/ PopEmpty \/ PopFound \/ PopCopy
      BY <3>3 DEF PopLoad, PopEmpty, PopFound, PopCopy, producer, Accepted
    <3> QED
      BY <1>a, <3>1, <3>2, <3>3
  <2>3. Backlog' = Backlog
    BY <1>2, <2>1
  <2> QED
    BY <2>1, <2>2, <2>3
<1>b. CASE PushDropOldest
  <2>1. /\ After(writePos) = readPos /\ UNCHANGED <<slots, writePos, delivered>> /\ readPos' = After(readPos)
        /\ ~PopAdvance
    BY <1>b DEF PushDropOldest, RoomIsMade, consumer, PopAdvance
  <2>2. Accepted' = Accepted
    BY <1>b DEF PushDropOldest, Accepted
  <2>3. Waiting(writePos, readPos) = Slots - 1 /\ writePos # readPos
    BY <1>1, <2>1, FullRing
  <2>4. Backlog' = Tail(Backlog) /\ Backlog # <<>>
    BY <1>1, <1>2, <2>1, <2>3, MovedOn
  <2> QED
    BY <1>3, <2>1, <2>2, <2>3, <2>4
<1>c. CASE PushWrite
  <2>1. /\ slots' = [slots EXCEPT ![writePos] = pushed] /\ UNCHANGED <<writePos, readPos, delivered>>
        /\ ~PopAdvance /\ Accepted' = Accepted
    BY <1>c DEF PushWrite, Accepted, consumer, PopAdvance
  <2>2. Backlog' = Backlog
    <3>1. \A p \in Positions \ {writePos} : slots'[p] = slots[p]
      BY <1>1, <2>1
    <3>2. RingSeq(slots', writePos, readPos) = RingSeq(slots, writePos, readPos)
      BY <1>1, <3>1, WrittenBeside
    <3> QED
      BY <1>2, <2>1, <3>2
  <2> QED
    BY <2>1, <2>2
<1>d. CASE PushPublish
  <2>1. /\ After(writePos) # readPos /\ UNCHANGED <<slots, readPos, delivered>> /\ writePos' = After(writePos)
        /\ slots[writePos] = pushed /\ ~PopAdvance
    BY <1>d DEF PushPublish, RoomIsMade, consumer, PopAdvance
  <2>2. pushed = Accepted + 1 /\ Accepted' = Accepted + 1
    BY <1>1, <1>d DEF PushPublish, Accepted
  <2>3. Backlog' = Append(Backlog, pushed) /\ Waiting(writePos, readPos) < Slots - 1
    BY <1>1, <1>2, <2>1, Published
  <2> QED
    BY <1>3, <2>1, <2>2, <2>3
<1>e. CASE PopAdvance
  <2>1. /\ position = readPos /\ readPos # writePos /\ out = slots[readPos]
        /\ UNCHANGED <<slots, writePos>> /\ readPos' = After(readPos) /\ delivered' = Append(delivered, out)
    BY <1>e DEF PopAdvance, PopIsOldest
  <2>2. Accepted' = Accepted
    BY <1>e DEF PopAdvance, producer, Accepted
  <2>3. Backlog' = Tail(Backlog) /\ Backlog # <<>> /\ Head(Backlog) = slots[readPos]
    BY <1>1, <1>2, <2>1, MovedOn
  <2> QED
    BY <1>e, <2>1, <2>2, <2>3
<1> QED
  BY <1>a, <1>b, <1>c, <1>d, <1>e DEF Push, Pop

\* Events wait in the order of their pushes, and are newer than what was taken.
LEMMA OrderSteps ==
  ASSUME TypeOK, TypeOK', NothingInvented, NothingInvented', PopIsOldest, RoomIsMade, InOrder, Push \/ Pop
  PROVE  /\ InOrder'
         /\ Accepted \in Nat /\ Accepted' \in Nat /\ Accepted <= Accepted'
         /\ \A n \in Nat : n <= Accepted /\ (\A i \in 1 .. Len(Backlog) : n < Backlog[i]) =>
              n <= Accepted' /\ (\A i \in 1 .. Len(Backlog') : n < Backlog'[i])
         /\ PopAdvance =>
              /\ \A n \in Nat : (\A i \in 1 .. Len(Backlog) : n < Backlog[i]) => n # out
              /\ out \in Nat /\ out <= Accepted'
              /\ \A i \in 1 .. Len(Backlog') : out < Backlog'[i]
<1>1. Accepted \in 0 .. MaxEvents /\ Accepted' \in 0 .. MaxEvents /\ MaxEvents \in Nat
  <2>1. pushed \in 0 .. MaxEvents /\ pushed' \in 0 .. MaxEvents /\ MaxEvents \in Nat
    BY FifoAssumption DEF TypeOK, Events
  <2>2. (ppc # "idle" => pushed > 0) /\ (ppc' # "idle" => pushed' > 0)
    BY DEF NothingInvented
  <2>3. Accepted \in 0 .. MaxEvents
    BY <2>1, <2>2 DEF Accepted
  <2>4. Accepted' = IF ppc' = "idle" THEN pushed' ELSE pushed' - 1
    BY DEF Accepted
  <2>5. Accepted' \in 0 .. MaxEvents
    <3>1. CASE ppc' = "idle"
      BY <2>1, <2>4, <3>1
    <3>2. CASE ppc' # "idle"
      <4>1. pushed' \in 1 .. MaxEvents
        BY <2>1, <2>2, <3>2
      <4>2. pushed' - 1 \in 0 .. MaxEvents
        <5>1. \A n \in Nat : \A k \in 1 .. n : k - 1 \in 0 .. n
          OBVIOUS
        <5> QED
          BY <2>1, <4>1, <5>1
      <4> QED
        BY <2>4, <3>2, <4>2
    <3> QED
      BY <3>1, <3>2
  <2> QED
    BY <2>1, <2>3, <2>5
<1>2. Backlog \in Seq(Events) /\ Len(Backlog) \in Nat /\ Events \subseteq Nat
  <2>1. /\ slots \in [Positions -> Events] /\ writePos \in Positions /\ readPos \in Positions
    BY DEF TypeOK
  <2>2. Backlog = RingSeq(slots, writePos, readPos)
    BY <2>1, BacklogIs DEF Backlog
  <2>3. RingSeq(slots, writePos, readPos) \in Seq(Events)
    BY <2>1, RingFacts
  <2> QED
    BY <2>2, <2>3, LenProperties, FifoAssumption DEF Events
<1> DEFINE q == Backlog
           n0 == Len(Backlog)
<1>3. /\ \A i \in 1 .. n0 : q[i] \in 1 .. Accepted
      /\ \A i, j \in 1 .. n0 : i < j => q[i] < q[j]
  BY DEF InOrder
<1>a. CASE UNCHANGED <<Backlog, delivered, Accepted>> /\ ~PopAdvance
  BY <1>1, <1>a DEF InOrder
<1>b. CASE Backlog # <<>> /\ Backlog' = Tail(Backlog) /\ Accepted' = Accepted /\ (PopAdvance => out = Head(Backlog))
  <2>1. /\ n0 >= 1 /\ Head(Backlog) = q[1]
        /\ Len(Backlog') = n0 - 1 /\ \A i \in 1 .. n0 - 1 : Backlog'[i] = q[i + 1]
    BY <1>2, <1>b, HeadTailProperties, EmptySeq
  <2>2. \A i \in 1 .. n0 - 1 : i + 1 \in 1 .. n0
    BY <1>2
  <2>3. InOrder'
    BY <1>2, <1>3, <1>b, <2>1, <2>2 DEF InOrder
  <2>4. 1 \in 1 .. n0 /\ \A i \in 1 .. n0 - 1 : q[1] < q[i + 1]
    BY <1>2, <1>3, <2>1, <2>2
  <2>5. PopAdvance => out = q[1]
    BY <1>b, <2>1
  <2>6. q[1] \in Nat /\ q[1] <= Accepted
    BY <1>1, <1>3, <2>4
  <2> QED
    BY <1>1, <1>3, <1>b, <2>1, <2>2, <2>3, <2>4, <2>5, <2>6
<1>c. CASE Backlog' = Append(Backlog, Accepted + 1) /\ Accepted' = Accepted + 1 /\ ~PopAdvance
  <2>0. Accepted + 1 \in Events
    BY <1>1, <1>c DEF Events
  <2>1. /\ Len(Backlog') = n0 + 1 /\ Backlog'[n0 + 1] = Accepted + 1
        /\ \A i \in 1 .. n0 : Backlog'[i] = q[i]
    BY <1>2, <1>c, <2>0, AppendProperties
  <2>2. \A i \in 1 .. n0 + 1 : i \in 1 .. n0 \/ i = n0 + 1
    BY <1>2
  <2>3. \A i \in 1 .. n0 + 1 : Backlog'[i] \in 1 .. Accepted'
    BY <1>1, <1>3, <1>c, <2>1, <2>2
  <2>4. \A i, j \in 1 .. n0 + 1 : i < j => Backlog'[i] < Backlog'[j]
    <3> SUFFICES ASSUME NEW i \in 1 .. n0 + 1, NEW j \in 1 .. n0 + 1, i < j PROVE Backlog'[i] < Backlog'[j]
      OBVIOUS
    <3>1. i \in 1 .. n0 /\ q[i] \in 1 .. Accepted
      BY <1>2, <1>3
    <3>2. CASE j = n0 + 1
      BY <1>1, <2>1, <3>1, <3>2
    <3>3. CASE j \in 1 .. n0
      BY <1>3, <2>1, <3>1, <3>3
    <3> QED
      BY <2>2, <3>2, <3>3
  <2>5. InOrder'
    BY <2>1, <2>3, <2>4 DEF InOrder
  <2>6. \A n \in Nat : n <= Accepted /\ (\A i \in 1 .. n0 : n < q[i]) =>
          n <= Accepted' /\ (\A i \in 1 .. n0 + 1 : n < Backlog'[i])
    BY <1>1, <1>c, <2>1, <2>2
  <2> QED
    BY <1>1, <1>c, <2>1, <2>5, <2>6
<1> QED
  BY <1>a, <1>b, <1>c, BacklogSteps

-----------------------------------------------------------------------------
\* An empty ring has no backlog.
LEMMA EmptyBacklog ==
  ASSUME TypeOK, readPos = writePos
  PROVE  Backlog = <<>> /\ Len(Backlog) = 0
<1>1. slots \in [Positions -> Events] /\ writePos \in Positions /\ readPos \in Positions
  BY DEF TypeOK
<1>2. Waiting(writePos, readPos) = 0
  BY <1>1, FifoAssumption DEF Waiting, Positions
<1>3. Backlog = RingSeq(slots, writePos, readPos)
  BY <1>1, BacklogIs DEF Backlog
<1>4. Backlog \in Seq(Events) /\ Len(Backlog) = 0
  BY <1>1, <1>2, <1>3, RingFacts
<1> QED
  BY <1>4, EmptySeq

\* Nothing waits, sounds or is pending.
LEMMA InitInv == PathInit => PathInv /\ Queue!Init
<1> SUFFICES ASSUME PathInit PROVE PathInv /\ Queue!Init
  OBVIOUS
<1>1. Slots \in Nat /\ Slots > 1 /\ 0 \in Positions /\ 0 \in Events
  BY FifoAssumption DEF Positions, Events
<1>2. TypeOK
  BY <1>1, EmptySeq DEF PathInit, Init, TypeOK
<1>3. Backlog = <<>> /\ Len(Backlog) = 0
  BY <1>2, EmptyBacklog DEF PathInit, Init
<1>4. PopIsOldest /\ RoomIsMade /\ NothingInvented
  BY DEF PathInit, Init, PopIsOldest, RoomIsMade, NothingInvented
<1>5. InOrder /\ Behind
  BY <1>3 DEF InOrder, Behind, PathInit
<1> QED
  BY <1>2, <1>3, <1>4, <1>5
  DEF PathInv, RingInv, PathInit, Init, LatchOutlivesNotes, Queue!Init, Accepted

\* A step of the ring: what it leaves behind while no pop overlaps the making of room, and once the
\* ring has run empty again.
LEMMA FifoStep ==
  ASSUME RingInv, Push \/ Pop
  PROVE  /\ RingInv' /\ pushed \in Nat /\ pushed' \in Nat /\ pushed <= pushed'
         /\ ~overlapped /\ ~overlapped' => TypeOK /\ TypeOK' /\ PopIsOldest /\ RoomIsMade
         /\ overlapped /\ ~overlapped' => ~PopAdvance /\ Len(Backlog') = 0 /\ Accepted' = pushed'
<1>1. TypeOK /\ NothingInvented /\ (~overlapped => PopIsOldest /\ RoomIsMade /\ InOrder)
  BY DEF RingInv
<1>2. TypeOK' /\ NothingInvented' /\ pushed \in Nat /\ pushed' \in Nat /\ pushed <= pushed'
  BY <1>1, TypeSteps
<1>3. Remember
  BY DEF Push, Pop
<1>4. CASE overlapped'
  BY <1>1, <1>2, <1>4 DEF RingInv
<1>5. CASE ~overlapped /\ ~overlapped'
  <2>1. ppc' \in {"full", "drop"} => cpc' = "idle"
    BY <1>3, <1>5 DEF Remember
  <2>2. PopIsOldest' /\ RoomIsMade'
    BY <1>1, <1>5, <2>1, RingSteps
  <2>3. InOrder'
    BY <1>1, <1>2, <1>5, OrderSteps
  <2> QED
    BY <1>1, <1>2, <1>5, <2>2, <2>3 DEF RingInv
<1>6. CASE overlapped /\ ~overlapped'
  <2>1. cpc = "check" /\ cpc' = "idle" /\ readPos = writePos /\ ppc = "idle"
    BY <1>3, <1>6 DEF Remember
  <2>2. PopEmpty
    BY <2>1 DEF Push, Pop, PushBegin, PushLoadOldest, PushDropOldest, PushWrite, PushPublish,
                PopLoad, PopFound, PopCopy, PopAdvance, consumer
  <2>3. UNCHANGED <<ring, producer>> /\ ~PopAdvance
    BY <2>1, <2>2 DEF PopEmpty, PopAdvance
  <2>4. Len(Backlog') = 0
    <3>1. Backlog' = Backlog
      BY <2>3 DEF Backlog, ring
    <3> QED
      BY <1>1, <2>1, <3>1, EmptyBacklog
  <2>5. Accepted' = pushed'
    BY <2>1, <2>3 DEF Accepted, producer
  <2>6. PopIsOldest' /\ RoomIsMade'
    BY <2>1, <2>3 DEF PopIsOldest, RoomIsMade, producer
  <2>7. InOrder'
    BY <2>4 DEF InOrder
  <2> QED
    BY <1>2, <1>6, <2>3, <2>4, <2>5, <2>6, <2>7 DEF RingInv
<1> QED
  BY <1>4, <1>5, <1>6

\* A step of the message thread or of processBlock.
LEMMA StepInv ==
  ASSUME PathInv, [PathNext]_vars
  PROVE  PathInv'
<1> USE DEF PathInv
<1>a. ASSUME UNCHANGED fifo, \/ UNCHANGED <<sounding, heard>> /\ (heard \cap sounding # {} => panicRequested')
                             \/ heard' = sounding /\ sounding' = sounding /\ panicRequested'
                             \/ heard' = heard /\ sounding' = {}
      PROVE  PathInv'
  <2>1. Backlog' = Backlog /\ Accepted' = Accepted /\ UNCHANGED <<overlapped, pushed>>
    BY <1>a DEF Backlog, Accepted, fifo, ring, producer, consumer
  <2>2. RingInv'
    BY <1>a, <2>1
    DEF RingInv, TypeOK, NothingInvented, PopIsOldest, RoomIsMade, InOrder, fifo, ring, producer, consumer, After
  <2>3. sounding' \cup heard' \subseteq sounding \cup heard
    BY <1>a
  <2>4. ~overlapped' => Behind'
    BY <2>1, <2>3 DEF Behind
  <2>5. LatchOutlivesNotes'
    BY <1>a DEF LatchOutlivesNotes
  <2> QED
    BY <2>1, <2>2, <2>3, <2>4, <2>5
<1>b. ASSUME Push \/ Pop, UNCHANGED panicRequested,
             sounding' = IF PopAdvance THEN sounding \cup {out} ELSE sounding,
             heard' = IF PopAdvance /\ overlapped THEN heard \ {out} ELSE heard
      PROVE  PathInv'
  <2>1. /\ RingInv' /\ pushed \in Nat /\ pushed' \in Nat /\ pushed <= pushed'
        /\ ~overlapped /\ ~overlapped' => TypeOK /\ TypeOK' /\ PopIsOldest /\ RoomIsMade
        /\ overlapped /\ ~overlapped' => ~PopAdvance /\ Len(Backlog') = 0 /\ Accepted' = pushed'
    BY <1>b, FifoStep
  <2>2. out \in Nat /\ out <= pushed
    BY FifoAssumption DEF RingInv, TypeOK, NothingInvented, Events
  <2>3. \A n \in sounding' \cup heard' : n \in Nat /\ n <= pushed'
    <3>1. ASSUME NEW n \in sounding' \cup heard' PROVE n \in Nat /\ n <= pushed
      BY <1>b, <2>2, <3>1
    <3> QED
      BY <2>1, <3>1
  <2>4. CASE ~overlapped
    <3>1. TypeOK /\ NothingInvented /\ PopIsOldest /\ RoomIsMade /\ InOrder /\ TypeOK' /\ NothingInvented'
      BY <2>1, <2>4 DEF RingInv
    <3>2. /\ \A n \in Nat : n <= Accepted /\ (\A i \in 1 .. Len(Backlog) : n < Backlog[i]) =>
               n <= Accepted' /\ (\A i \in 1 .. Len(Backlog') : n < Backlog'[i])
          /\ PopAdvance =>
               /\ \A n \in Nat : (\A i \in 1 .. Len(Backlog) : n < Backlog[i]) => n # out
               /\ out \in Nat /\ out <= Accepted'
               /\ \A i \in 1 .. Len(Backlog') : out < Backlog'[i]
      BY <1>b, <3>1, OrderSteps
    <3>3. Behind'
      BY <1>b, <2>4, <3>2 DEF Behind
    <3>4. PopAdvance => out \notin heard
      BY <2>4, <3>2 DEF Behind
    <3>5. LatchOutlivesNotes'
      BY <1>b, <2>4, <3>4 DEF LatchOutlivesNotes
    <3> QED
      BY <2>1, <2>3, <3>3, <3>5
  <2>5. CASE overlapped
    <3>1. ~overlapped' => Behind'
      BY <2>1, <2>3, <2>5 DEF Behind
    <3>2. LatchOutlivesNotes'
      BY <1>b, <2>5 DEF LatchOutlivesNotes
    <3> QED
      BY <2>1, <2>3, <3>1, <3>2
  <2> QED
    BY <2>4, <2>5 DEF RingInv, TypeOK
<1>1. CASE PushNote
  <2>1. ~PopAdvance
    BY <1>1 DEF PushNote, Push, PushBegin, PushLoadOldest, PushDropOldest, PushWrite, PushPublish, PopAdvance, consumer
  <2> QED
    BY <1>1, <1>b, <2>1 DEF PushNote, flags, history
<1>2. CASE Drain
  <2>1. PopAdvance <=> cpc = "advance"
    BY <1>2 DEF Drain, PopLoad, PopFound, PopCopy, PopAdvance
  <2> QED
    BY <1>2, <1>b, <2>1 DEF Drain, Pop, flags
<1>3. CASE DrainEnd
  <2>1. ~PopAdvance
    BY <1>3 DEF DrainEnd, PopEmpty, PopAdvance
  <2> QED
    BY <1>3, <1>b, <2>1 DEF DrainEnd, Pop, flags, history
<1>4. CASE SetLatch
  BY <1>4, <1>a DEF SetLatch
<1>5. CASE TakeLatch
  <2>1. UNCHANGED fifo /\ heard' = heard
    BY <1>5 DEF TakeLatch
  <2>2. CASE panicRequested
    BY <1>5, <1>a, <2>1, <2>2 DEF TakeLatch
  <2>3. CASE ~panicRequested
    BY <1>5, <1>a, <2>1, <2>3 DEF TakeLatch, LatchOutlivesNotes
  <2> QED
    BY <2>2, <2>3
<1>6. CASE \/ BeginPanic \/ PlaySample \/ PlayWave \/ StopPreview \/ CheckWave \/ CheckSample \/ PreviewBlock \/ EndBlock
           \/ UNCHANGED vars
  <2>1. UNCHANGED <<fifo, sounding, heard, panicRequested>>
    BY <1>6 DEF BeginPanic, PlaySample, PlayWave, StopPreview, CheckWave, CheckSample, PreviewBlock, EndBlock, vars, flags, history
  <2> QED
    BY <1>a, <2>1 DEF LatchOutlivesNotes
<1> QED
  BY <1>1, <1>2, <1>3, <1>4, <1>5, <1>6 DEF PathNext, MessageStep, AudioStep

\* While nothing overlapped, a step is one of the abstract queue, or none.
LEMMA StepRefines ==
  ASSUME RingInv, RingInv', [PathNext]_vars
  PROVE  [~overlapped => [Queue!Next]_(Queue!vars)]_fifo
<1>1. ASSUME Push \/ Pop, ~overlapped PROVE [Queue!Next]_(Queue!vars)
  <2>1. TypeOK /\ TypeOK' /\ NothingInvented /\ PopIsOldest /\ RoomIsMade
    BY <1>1 DEF RingInv
  <2> QED
    BY <1>1, <2>1, BacklogSteps DEF Queue!Next, Queue!vars, Queue!DropOldest, Queue!Push, Queue!Pop
<1>2. \/ Push \/ Pop \/ UNCHANGED fifo
  BY DEF PathNext, MessageStep, AudioStep, PushNote, BeginPanic, SetLatch, PlaySample, PlayWave, StopPreview, CheckWave,
         CheckSample, PreviewBlock, Drain, DrainEnd, TakeLatch, EndBlock, vars, Pop
<1> QED
  BY <1>1, <1>2

\* Positions and events keep their order, and what a pop that overlaps the making of room does to
\* them is over once the ring has run empty.
THEOREM Invariance == PathSpec => []PathInv
BY InitInv, StepInv, PTL DEF PathSpec

\* The panic latch is the memory of a panic: it is pending until what sounded then is silent,
\* whatever previews keep processBlock from taking it and whatever the ring loses.
THEOREM PanicIsRemembered == PathSpec => []LatchOutlivesNotes
<1>1. PathInv => LatchOutlivesNotes
  BY DEF PathInv
<1> QED
  BY <1>1, Invariance, PTL

\* The ring of push and pop is a queue that loses its oldest event only, and only to make room,
\* until a pop overlaps the making of room, and again once it has run empty.
THEOREM Refinement == PathSpec => QueueUnlessOverlapped
<1>1. PathInit => Queue!Init
  BY InitInv
<1>2. PathInv => RingInv
  BY DEF PathInv
<1>3. PathInv /\ PathInv' /\ [PathNext]_vars => [~overlapped => [Queue!Next]_(Queue!vars)]_fifo
  BY StepRefines DEF PathInv
<1> QED
  BY <1>1, <1>3, Invariance, PTL DEF PathSpec, QueueUnlessOverlapped

=============================================================================
