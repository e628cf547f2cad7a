------------------------- MODULE PublicationProofs -------------------------
(***************************************************************************)
(* What is published to the audio thread stays alive while it is used.     *)
(* For every number of roles, set of addresses and nesting bound: the      *)
(* snapshot cell never reclaims what a live guard points to, nested guards *)
(* agree, and every step of the cell is a step of the register or a        *)
(* stutter.  Whatever the sizes of the ring, the sample and the pages and  *)
(* the number of servicers: as long as they come one after the other, the  *)
(* ring of owners of the page cache keeps every pointer alive that a       *)
(* reader of a bounded number of publications may follow.                  *)
(***************************************************************************)
EXTENDS RtSnapshotCell, StreamPrimeCache, SequenceTheorems, FiniteSetTheorems, TLAPS

-----------------------------------------------------------------------------
(* The snapshot cell.                                                      *)

\* The guard a release drops is the last of a non-empty sequence; the others keep their places.
LEMMA DropLast ==
  ASSUME NEW S, NEW s \in Seq(S), s # <<>>
  PROVE  /\ SubSeq(s, 1, Len(s) - 1) \in Seq(S)
         /\ Len(s) \in Nat \ {0}
         /\ Len(SubSeq(s, 1, Len(s) - 1)) = Len(s) - 1
         /\ \A i \in 1 .. Len(s) - 1 : SubSeq(s, 1, Len(s) - 1)[i] = s[i]
<1>1. Len(s) \in Nat \ {0}
  BY EmptySeq
<1>2. \A i \in 1 .. Len(s) - 1 : s[i] \in S
  BY <1>1, ElementOfSeq
<1> DEFINE n == Len(s) - 1
<1>3. n \in Nat /\ \A i \in 1 .. n : s[i] \in S
  BY <1>1, <1>2
<1> HIDE DEF n
<1>4. /\ SubSeq(s, 1, n) \in Seq(S)
      /\ Len(SubSeq(s, 1, n)) = IF 1 <= n THEN n - 1 + 1 ELSE 0
      /\ \A i \in 1 .. n - 1 + 1 : SubSeq(s, 1, n)[i] = s[1 + i - 1]
  BY <1>3, SubSeqProperties
<1>5. /\ SubSeq(s, 1, n) \in Seq(S)
      /\ Len(SubSeq(s, 1, n)) = n
      /\ \A i \in 1 .. n : SubSeq(s, 1, n)[i] = s[i]
  BY <1>3, <1>4
<1> QED
  BY <1>1, <1>5 DEF n

\* The guard an acquisition adds comes last; the others keep their places.
LEMMA AddLast ==
  ASSUME NEW S, NEW s \in Seq(S), NEW e \in S
  PROVE  /\ Append(s, e) \in Seq(S)
         /\ Len(s) \in Nat
         /\ Len(Append(s, e)) = Len(s) + 1
         /\ \A i \in 1 .. Len(s) : Append(s, e)[i] = s[i]
         /\ Append(s, e)[Len(s) + 1] = e
         /\ Append(s, e) # <<>>
  OBVIOUS

\* The invariant holds before the first publish and the first guard.
LEMMA InitIInv == Init => IInv
<1> SUFFICES ASSUME Init PROVE IInv
  OBVIOUS
<1>1. TypeOK
  BY RolesAssumption DEF Init, TypeOK, ReaderPCs, WriterPCs, Pointers, Roles
<1>2. DepthCounts /\ FlagsTell /\ HazardCovers
  BY DEF Init, DepthCounts, FlagsTell, HazardCovers, Acquiring
<1>3. Owned /\ ProbedLoadsCurrent /\ MatchProgress
  BY DEF Init, Owned, ProbedLoadsCurrent, MatchProgress
<1> QED
  BY <1>1, <1>2, <1>3 DEF IInv

\* A reader step keeps the types and the reader's own bookkeeping.
LEMMA ReaderKeepsBooks ==
  ASSUME IInv, NEW r \in Roles, ReaderStep(r)
  PROVE  TypeOK' /\ DepthCounts' /\ FlagsTell' /\ HazardCovers'
<1> USE DEF IInv, TypeOK, DepthCounts, FlagsTell, HazardCovers, Move, Acquiring, Releasing,
            ReaderPCs, shared, readers, writer
<1>0. \A q \in Roles : guards[q] \in Seq(Pointers) /\ Len(guards[q]) \in Nat
  OBVIOUS
<1>1. CASE Announce(r)
  BY <1>1, <1>0 DEF Announce
<1>2. CASE Enter(r)
  BY <1>2, <1>0 DEF Enter
<1>3. CASE LoadCurrent(r)
  BY <1>3 DEF LoadCurrent
<1>4. CASE PublishHazard(r)
  <2>1. guards[r] = <<>>
    BY <1>4 DEF PublishHazard
  <2> QED
    BY <1>4, <2>1 DEF PublishHazard
<1>5. CASE ReuseHazard(r)
  BY <1>5 DEF ReuseHazard
<1>6. CASE FinishAcquire(r)
  <2> DEFINE g == Append(guards[r], ptr[r])
  <2>1. /\ g \in Seq(Pointers) /\ Len(g) = Len(guards[r]) + 1 /\ g # <<>>
        /\ \A i \in 1 .. Len(g) : g[i] = hazard[r]
    BY <1>6, <1>0, AddLast DEF FinishAcquire
  <2>2. /\ \A q \in Roles : guards'[q] = IF q = r THEN g ELSE guards[q]
        /\ \A q \in Roles : rpc'[q] = IF q = r THEN "idle" ELSE rpc[q]
        /\ rpc[r] = "acquired"
    BY <1>6 DEF FinishAcquire
  <2> HIDE DEF g
  <2>3. TypeOK'
    BY <1>6, <2>1, <2>2 DEF FinishAcquire
  <2>4. DepthCounts'
    <3> SUFFICES ASSUME NEW q \in Roles
                 PROVE  depth[q] = Len(guards'[q])
                          + IF rpc'[q] \in {"idle", "announced", "lowering"} THEN 0 ELSE 1
      BY <1>6 DEF FinishAcquire
    <3>0. depth[r] = Len(guards[r]) + 1
      BY <1>0, <2>2
    <3>1. CASE q = r
      <4>1. depth[r] = Len(g) + 0
        BY <2>1, <3>0
      <4>2. guards'[r] = g /\ rpc'[r] = "idle"
        BY <2>2
      <4> QED
        BY <3>1, <4>1, <4>2
    <3>2. CASE q # r
      BY <2>2, <3>2
    <3> QED
      BY <3>1, <3>2
  <2>5. FlagsTell' /\ HazardCovers'
    BY <1>6, <2>1, <2>2 DEF FinishAcquire
  <2> QED
    BY <2>3, <2>4, <2>5
<1>7. CASE BeginRelease(r)
  <2> DEFINE g == SubSeq(guards[r], 1, Len(guards[r]) - 1)
  <2>1. /\ g \in Seq(Pointers) /\ Len(g) = Len(guards[r]) - 1
        /\ \A i \in 1 .. Len(g) : g[i] = hazard[r]
    <3>1. guards[r] # <<>>
      BY <1>7 DEF BeginRelease
    <3> QED
      BY <1>0, <3>1, DropLast
  <2>2. /\ \A q \in Roles : guards'[q] = IF q = r THEN g ELSE guards[q]
        /\ \A q \in Roles \ {r} : rpc'[q] = rpc[q]
        /\ rpc[r] = "idle"
        /\ rpc'[r] = IF depth[r] = 1 THEN "lastRelease" ELSE "leaving"
    BY <1>7 DEF BeginRelease
  <2> HIDE DEF g
  <2>4. TypeOK'
    BY <1>7, <2>1, <2>2 DEF BeginRelease
  <2>3. Len(g) \in Nat /\ (g = <<>> <=> Len(g) = 0)
    BY <2>1, EmptySeq
  <2>5. depth[r] = Len(g) + 1
    BY <1>0, <2>1, <2>2
  <2>6. DepthCounts'
    BY <1>0, <1>7, <2>1, <2>2, <2>5, ZenonT(30) DEF BeginRelease
  <2>7. FlagsTell'
    <3>1. rpc'[r] = "lastRelease" => g = <<>>
      BY <2>2, <2>3, <2>5
    <3>2. rpc'[r] = "leaving" => g # <<>>
      BY <2>2, <2>3, <2>5
    <3>3. acquiring' = acquiring
      BY <1>7 DEF BeginRelease
    <3> QED
      BY <2>2, <3>1, <3>2, <3>3
  <2>8. HazardCovers'
    BY <1>7, <2>1, <2>2 DEF BeginRelease
  <2> QED
    BY <2>4, <2>6, <2>7, <2>8
<1>8. CASE RaiseReleasing(r)
  BY <1>8 DEF RaiseReleasing
<1>9. CASE ClearHazard(r)
  <2>1. Len(guards[r]) = 0
    BY <1>9 DEF ClearHazard
  <2>2. HazardCovers'
    BY <1>9, <2>1 DEF ClearHazard
  <2>3. TypeOK' /\ DepthCounts'
    BY <1>9 DEF ClearHazard, Pointers
  <2>4. FlagsTell'
    BY <1>9 DEF ClearHazard
  <2> QED
    BY <2>2, <2>3, <2>4
<1>10. CASE Leave(r)
  <2>1. depth[r] = Len(guards[r]) + 1
    BY <1>10 DEF Leave
  <2>2. TypeOK'
    <3>1. depth[r] - 1 \in Nat
      BY <1>0, <2>1
    <3>2. depth' \in [Roles -> Nat]
      BY <1>10, <3>1 DEF Leave
    <3>3. rpc' \in [Roles -> ReaderPCs]
      BY <1>10 DEF Leave
    <3> QED
      BY <1>10, <3>2, <3>3 DEF Leave
  <2>3. DepthCounts'
    BY <1>0, <1>10, <2>1 DEF Leave
  <2>4. FlagsTell'
    <3>1. CASE rpc[r] = "leaving"
      BY <1>10, <3>1 DEF Leave
    <3>2. CASE rpc[r] = "leavingLast"
      BY <1>10, <3>2 DEF Leave
    <3> QED
      BY <1>10, <3>1, <3>2 DEF Leave
  <2>5. HazardCovers'
    BY <1>10 DEF Leave
  <2> QED
    BY <2>2, <2>3, <2>4, <2>5
<1>11. CASE LowerReleasing(r)
  BY <1>11 DEF LowerReleasing
<1> QED
  BY <1>1, <1>2, <1>3, <1>4, <1>5, <1>6, <1>7, <1>8, <1>9, <1>10, <1>11 DEF ReaderStep

\* A reader step exposes nothing the writer does not own or has decided to free.
LEMMA ReaderKeepsOwned ==
  ASSUME IInv, NEW r \in Roles, ReaderStep(r)
  PROVE  Owned' /\ ProbedLoadsCurrent' /\ MatchProgress'
<1> USE DEF IInv, TypeOK, Owned, ProbedLoadsCurrent, MatchProgress, Move, Pointers,
            shared, readers, writer
<1>1. CASE Announce(r)
  BY <1>1 DEF Announce
<1>2. CASE Enter(r)
  BY <1>2 DEF Enter
<1>3. CASE LoadCurrent(r)
  BY <1>3 DEF LoadCurrent
<1>4. CASE PublishHazard(r)
  BY <1>4, RolesAssumption DEF PublishHazard, Roles
<1>5. CASE ReuseHazard(r)
  BY <1>5 DEF ReuseHazard
<1>6. CASE FinishAcquire(r)
  BY <1>6 DEF FinishAcquire
<1>7. CASE BeginRelease(r)
  BY <1>7 DEF BeginRelease
<1>8. CASE RaiseReleasing(r)
  BY <1>8 DEF RaiseReleasing
<1>9. CASE ClearHazard(r)
  BY <1>9 DEF ClearHazard
<1>10. CASE Leave(r)
  BY <1>10 DEF Leave
<1>11. CASE LowerReleasing(r)
  BY <1>11 DEF LowerReleasing
<1> QED
  BY <1>1, <1>2, <1>3, <1>4, <1>5, <1>6, <1>7, <1>8, <1>9, <1>10, <1>11 DEF ReaderStep

\* A writer step keeps the types, frees nothing that can be dereferenced, and makes the
\* progress of reclaim() that its next step relies on.
LEMMA WriterKeepsIInv ==
  ASSUME IInv, WriterStep
  PROVE  IInv'
<1> USE DEF IInv, TypeOK, Owned, ProbedLoadsCurrent, MatchProgress, WriterPCs, Pointers,
            shared, readers, writer
<1>0. UNCHANGED <<hazard, depth, acquiring, releasing, readers>>
  BY DEF WriterStep, Own, StoreCurrent, StartReclaim, ProbeAcquiring, ProbeReleasing,
         Visit, MatchHazard, Free, FinishSweep
<1>a. DepthCounts' /\ FlagsTell' /\ HazardCovers'
  BY <1>0 DEF DepthCounts, FlagsTell, HazardCovers
<1>1. ASSUME NEW s \in Pointers, Own(s) PROVE IInv'
  BY <1>a, <1>1 DEF Own
<1>2. CASE StoreCurrent
  <2>1. TypeOK'
    BY <1>2, RolesAssumption DEF StoreCurrent
  <2>2. Owned' /\ ProbedLoadsCurrent' /\ MatchProgress'
    BY <1>2, RolesAssumption DEF StoreCurrent, Roles
  <2> QED
    BY <1>a, <2>1, <2>2
<1>3. CASE StartReclaim
  BY <1>a, <1>3, RolesAssumption DEF StartReclaim, Roles
<1>4. CASE ProbeAcquiring
  BY <1>a, <1>4, RolesAssumption DEF ProbeAcquiring, Roles, FlagsTell, Acquiring
<1>5. CASE ProbeReleasing
  BY <1>a, <1>5, RolesAssumption DEF ProbeReleasing, Roles
<1>6. ASSUME NEW o \in Pointers, Visit(o) PROVE IInv'
  BY <1>a, <1>6, RolesAssumption, NullAssumption DEF Visit, Roles
<1>7. CASE MatchHazard
  BY <1>a, <1>7, RolesAssumption DEF MatchHazard, Roles
<1>8. CASE Free
  BY <1>a, <1>8, RolesAssumption DEF Free, Roles
<1>9. CASE FinishSweep
  BY <1>a, <1>9 DEF FinishSweep
<1> QED
  BY <1>1, <1>2, <1>3, <1>4, <1>5, <1>6, <1>7, <1>8, <1>9 DEF WriterStep

\* The invariant is inductive.
THEOREM Invariance == Spec => []IInv
<1>1. IInv /\ [Next]_vars => IInv'
  <2> SUFFICES ASSUME IInv, [Next]_vars PROVE IInv'
    OBVIOUS
  <2>1. ASSUME NEW r \in Roles, ReaderStep(r) PROVE IInv'
    BY <2>1, ReaderKeepsBooks, ReaderKeepsOwned DEF IInv
  <2>2. CASE WriterStep
    BY <2>2, WriterKeepsIInv
  <2>3. CASE UNCHANGED vars
    BY <2>3 DEF IInv, TypeOK, DepthCounts, FlagsTell, HazardCovers, Owned, ProbedLoadsCurrent,
                MatchProgress, vars, shared, readers, writer
  <2> QED
    BY <2>1, <2>2, <2>3 DEF Next
<1> QED
  BY <1>1, InitIInv, PTL DEF Spec

\* Every variable keeps its type.
THEOREM TypeCorrect == Spec => []TypeOK
<1>1. IInv => TypeOK
  BY DEF IInv
<1> QED
  BY <1>1, Invariance, PTL

\* No live guard points to a reclaimed snapshot (RtSnapshotCell.h, reclaim()).
THEOREM Safety == Spec => []GuardedNeverReclaimed
<1>1. IInv => GuardedNeverReclaimed
  BY DEF IInv, HazardCovers, Owned, GuardedNeverReclaimed, Guarded
<1> QED
  BY <1>1, Invariance, PTL

\* Nested guards of a role point to one snapshot (RtSnapshotCell.h, the Reader constructor).
THEOREM Nesting == Spec => []NestedGuardsAgree
<1>1. IInv => NestedGuardsAgree
  <2> SUFFICES ASSUME IInv, NEW r \in Roles, NEW i \in 1 .. Len(guards[r])
               PROVE  guards[r][i] = guards[r][1]
    BY DEF NestedGuardsAgree
  <2>1. 1 \in 1 .. Len(guards[r])
    BY DEF IInv, TypeOK
  <2> QED
    BY <2>1 DEF IInv, HazardCovers
<1> QED
  BY <1>1, Invariance, PTL

-----------------------------------------------------------------------------
(* What a sweep keeps.                                                     *)

\* Readers that come and go during a sweep leave a role's hazard as it was, null or current.
LEMMA ReaderKeepsSweep ==
  ASSUME IInv, SweepKeeps, NEW r \in Roles, ReaderStep(r)
  PROVE  SweepKeeps'
<1> SUFFICES ASSUME wpc' \in {"scan", "match"}
             PROVE  \E before \in [Roles -> Pointers] :
                      /\ Kept' \subseteq {current'} \cup {before[q] : q \in Roles}
                      /\ \A q \in Roles : hazard'[q] \in {before[q], current', Null}
  BY DEF SweepKeeps
<1>1. UNCHANGED <<writer, limbo, current>>
  BY DEF ReaderStep, Announce, Enter, LoadCurrent, PublishHazard, ReuseHazard, FinishAcquire,
         BeginRelease, RaiseReleasing, ClearHazard, Leave, LowerReleasing, shared
<1>2. wpc \in {"scan", "match"} /\ Kept' = Kept /\ current' = current
  BY <1>1 DEF writer, Kept
<1>3. PICK before \in [Roles -> Pointers] :
        /\ Kept \subseteq {current} \cup {before[q] : q \in Roles}
        /\ \A q \in Roles : hazard[q] \in {before[q], current, Null}
  BY <1>2 DEF SweepKeeps
<1>4. \A q \in Roles : hazard'[q] \in {hazard[q], current, Null}
  <2>1. CASE PublishHazard(r)
    <3>1. ptr[r] = current  BY <1>2, <2>1 DEF PublishHazard, Move, IInv, ProbedLoadsCurrent
    <3> QED  BY <2>1, <3>1 DEF PublishHazard, IInv, TypeOK
  <2>2. CASE ClearHazard(r)  BY <2>2 DEF ClearHazard, IInv, TypeOK
  <2>3. CASE ~PublishHazard(r) /\ ~ClearHazard(r)
    BY <2>3 DEF ReaderStep, Announce, Enter, LoadCurrent, ReuseHazard, FinishAcquire,
                BeginRelease, RaiseReleasing, Leave, LowerReleasing, shared
  <2> QED  BY <2>1, <2>2, <2>3
<1>5. \A q \in Roles : hazard'[q] \in {before[q], current, Null}
  BY <1>3, <1>4
<1> QED  BY <1>2, <1>3, <1>5

\* A sweep begins with what the hazards are, and then keeps an owner only for one of them.
LEMMA WriterKeepsSweep ==
  ASSUME IInv, SweepKeeps, WriterStep
  PROVE  SweepKeeps'
<1> USE DEF shared, readers, writer
<1> DEFINE Bounds(before) == /\ Kept \subseteq {current} \cup {before[q] : q \in Roles}
                             /\ \A q \in Roles : hazard[q] \in {before[q], current, Null}
<1>1. ASSUME NEW s \in Pointers, Own(s)  PROVE  SweepKeeps'
  BY <1>1 DEF Own, SweepKeeps
<1>2. CASE StoreCurrent \/ StartReclaim \/ ProbeReleasing \/ FinishSweep
  <2>1. wpc' \notin {"scan", "match"}
    BY <1>2 DEF StoreCurrent, StartReclaim, ProbeReleasing, FinishSweep
  <2> QED  BY <2>1 DEF SweepKeeps
<1>3. CASE ProbeAcquiring
  <2>1. hazard \in [Roles -> Pointers] /\ hazard' = hazard
    BY <1>3 DEF ProbeAcquiring, IInv, TypeOK
  <2>2. wpc' = "scan" => Kept' = {}
    BY <1>3 DEF ProbeAcquiring, Kept
  <2>3. wpc' # "match"
    BY <1>3 DEF ProbeAcquiring
  <2> QED  BY <2>1, <2>2, <2>3 DEF SweepKeeps
<1> DEFINE Sweeping == \/ \E o \in Pointers : Visit(o)
                       \/ MatchHazard \/ Free
<1>4. CASE Sweeping
  <2>1. /\ wpc \in {"scan", "match"} /\ hazard' = hazard /\ current' = current
        /\ hazard \in [Roles -> Pointers]
    BY <1>4 DEF Visit, MatchHazard, Free, IInv, TypeOK
  <2>2. PICK before \in [Roles -> Pointers] : Bounds(before)
    BY <2>1 DEF SweepKeeps
  <2>3. Kept' \subseteq {current} \cup {before[q] : q \in Roles}
    <3>1. ASSUME NEW o \in Pointers, Visit(o)  PROVE  Kept' \subseteq Kept \cup {current}
      BY <3>1 DEF Visit, Kept
    <3>2. CASE MatchHazard
      <4>1. CASE hazard[slot] = owner
        <5>1. slot \in Roles /\ owner # current /\ owner # Null
          BY <3>2, RolesAssumption DEF MatchHazard, IInv, TypeOK, MatchProgress, Roles
        <5>2. owner = before[slot]  BY <2>2, <4>1, <5>1
        <5>3. Kept' \subseteq Kept \cup {owner}  BY <3>2, <4>1 DEF MatchHazard, Kept
        <5> QED  BY <2>2, <5>1, <5>2, <5>3
      <4>2. CASE hazard[slot] # owner
        <5>1. Kept' = Kept  BY <3>2, <4>2 DEF MatchHazard, Kept
        <5> QED  BY <2>2, <5>1
      <4> QED  BY <4>1, <4>2
    <3>3. CASE Free
      <4>1. Kept' \subseteq Kept  BY <3>3 DEF Free, Kept
      <4> QED  BY <2>2, <4>1
    <3> QED  BY <1>4, <2>2, <3>1, <3>2, <3>3
  <2>4. \A q \in Roles : hazard'[q] \in {before[q], current', Null}  BY <2>1, <2>2
  <2> QED  BY <2>1, <2>2, <2>3, <2>4 DEF SweepKeeps
<1> QED  BY <1>1, <1>2, <1>3, <1>4 DEF WriterStep

\* One snapshot per role and the current one are no more than one more than the roles.
LEMMA CountKept ==
  ASSUME NEW S, NEW x, NEW f, S \subseteq {x} \cup {f[r] : r \in Roles}
  PROVE  Cardinality(S) <= 1 + NumRoles
<1> DEFINE T == {f[r] : r \in Roles}
           g == [r \in Roles |-> f[r]]
<1>1. IsFiniteSet(Roles) /\ Cardinality(Roles) = NumRoles
  BY FS_Interval, RolesAssumption DEF Roles
<1>2. g \in Surjection(Roles, T)
  <2>1. g \in [Roles -> T]  OBVIOUS
  <2>2. \A t \in T : \E r \in Roles : g[r] = t  OBVIOUS
  <2> QED  BY <2>1, <2>2 DEF Surjection
<1> HIDE DEF T, g
<1>3. IsFiniteSet(T) /\ Cardinality(T) <= NumRoles
  BY <1>1, <1>2, FS_Surjection
<1>4. IsFiniteSet(T \cup {x}) /\ Cardinality(T \cup {x}) <= 1 + NumRoles
  <2>1. Cardinality(T) \in Nat  BY <1>3, FS_CardinalityType
  <2>2. IsFiniteSet(T \cup {x}) /\ Cardinality(T \cup {x}) <= Cardinality(T) + 1
    <3>1. /\ IsFiniteSet(T \cup {x})
          /\ Cardinality(T \cup {x}) = IF x \in T THEN Cardinality(T) ELSE Cardinality(T) + 1
      BY <1>3, FS_AddElement
    <3> DEFINE c == Cardinality(T)
    <3> HIDE DEF c
    <3>2. c \in Nat /\ Cardinality(T \cup {x}) = IF x \in T THEN c ELSE c + 1
      BY <2>1, <3>1 DEF c
    <3> QED  BY <3>1, <3>2 DEF c
  <2>3. Cardinality(T \cup {x}) \in Nat  BY <2>2, FS_CardinalityType
  <2> QED  BY <1>3, <2>1, <2>2, <2>3, RolesAssumption
<1>5. S \in SUBSET (T \cup {x})
  BY DEF T
<1>6. IsFiniteSet(S) /\ Cardinality(S) <= Cardinality(T \cup {x})
  BY <1>4, <1>5, FS_Subset
<1> QED  BY <1>4, <1>6, FS_CardinalityType, RolesAssumption

\* A sweep that was not deferred leaves at most the current snapshot and one per role, for every
\* number of roles and of snapshots retained before.
THEOREM Retention == Spec => RetentionBound
<1>1. Init => SweepKeeps
  BY DEF Init, SweepKeeps
<1>2. IInv /\ SweepKeeps /\ [Next]_vars => SweepKeeps'
  <2> SUFFICES ASSUME IInv, SweepKeeps, [Next]_vars  PROVE  SweepKeeps'
    OBVIOUS
  <2>1. CASE UNCHANGED vars
    BY <2>1 DEF SweepKeeps, Kept, vars, shared, writer
  <2> QED  BY <2>1, ReaderKeepsSweep, WriterKeepsSweep DEF Next
<1>3. SweepKeeps => [FinishSweep => Cardinality(limbo') <= 1 + NumRoles]_vars
  <2> SUFFICES ASSUME SweepKeeps, FinishSweep  PROVE  Cardinality(limbo') <= 1 + NumRoles
    OBVIOUS
  <2>1. wpc = "scan" /\ unscanned = {} /\ limbo' = limbo
    BY DEF FinishSweep, shared
  <2>2. PICK before : limbo \subseteq {current} \cup {before[r] : r \in Roles}
    BY <2>1 DEF SweepKeeps, Kept
  <2> QED  BY <2>1, <2>2, CountKept
<1> QED  BY <1>1, <1>2, <1>3, Invariance, PTL DEF Spec, RetentionBound

-----------------------------------------------------------------------------
(* The refinement: what a role's guards are in the register.               *)

View == [r \in Roles |-> IF rpc[r] \in {"loaded", "acquired"}
                         THEN Append(guards[r], ptr[r]) ELSE guards[r]]
Alive == limbo \ ({Null} \cup IF wpc = "store" THEN {next} ELSE {})

\* Whatever the register counts as held is a role's hazard, or current while a sweep runs.
LEMMA HeldIsProtected ==
  ASSUME IInv, wpc = "match", slot = NumRoles, NEW r \in Roles, NEW i \in 1 .. Len(View[r])
  PROVE  View[r][i] # owner
<1>1. /\ guards[r] \in Seq(Pointers) /\ ptr[r] \in Pointers /\ Len(guards[r]) \in Nat
      /\ hazard[r] # owner /\ current # owner
  BY RolesAssumption DEF IInv, TypeOK, MatchProgress, Roles
<1>2. \A j \in 1 .. Len(guards[r]) : guards[r][j] # owner
  BY <1>1 DEF IInv, HazardCovers
<1>3. CASE rpc[r] \in {"loaded", "acquired"}
  <2>1. ptr[r] # owner
    BY <1>1, <1>3 DEF IInv, HazardCovers, ProbedLoadsCurrent
  <2>2. View[r] = Append(guards[r], ptr[r])
    BY <1>3 DEF View
  <2> QED
    BY <1>1, <1>2, <2>1, <2>2, AddLast
<1>4. CASE rpc[r] \notin {"loaded", "acquired"}
  BY <1>2, <1>4 DEF View
<1> QED
  BY <1>3, <1>4

\* A reader step is a guard taken or dropped in the register, or a stutter.
LEMMA ReaderRefines ==
  ASSUME IInv, NEW r \in Roles, ReaderStep(r)
  PROVE  /\ UNCHANGED <<current, Alive>>
         /\ \/ UNCHANGED View
            \/ View' = [View EXCEPT ![r] = Append(@, IF @ = <<>> THEN current ELSE @[1])]
            \/ /\ View[r] # <<>>
               /\ View' = [View EXCEPT ![r] = SubSeq(@, 1, Len(@) - 1)]
<1> USE DEF IInv, Move, View, shared, readers, writer
<1>0. UNCHANGED <<current, Alive>>
  BY DEF Alive, ReaderStep, Announce, Enter, LoadCurrent, PublishHazard, ReuseHazard,
         FinishAcquire, BeginRelease, RaiseReleasing, ClearHazard, Leave, LowerReleasing
<1>t. /\ rpc \in [Roles -> ReaderPCs] /\ guards \in [Roles -> Seq(Pointers)]
      /\ ptr \in [Roles -> Pointers]
  BY DEF TypeOK
<1>1. CASE Announce(r)
  BY <1>0, <1>1, <1>t DEF Announce
<1>2. CASE Enter(r)
  BY <1>0, <1>2, <1>t DEF Enter
<1>3. CASE LoadCurrent(r)
  <2>1. View[r] = <<>>
    BY <1>3, <1>t DEF LoadCurrent, FlagsTell
  <2>2. View' = [View EXCEPT ![r] = Append(@, current)]
    BY <1>3, <1>t DEF LoadCurrent
  <2> QED
    BY <1>0, <2>1, <2>2
<1>4. CASE PublishHazard(r)
  BY <1>0, <1>4, <1>t DEF PublishHazard
<1>5. CASE ReuseHazard(r)
  <2>1. View[r] # <<>> /\ View[r] = guards[r]
    BY <1>5, <1>t DEF ReuseHazard, FlagsTell
  <2>2. 1 \in 1 .. Len(guards[r])
    BY <1>t, <2>1, EmptySeq
  <2>3. View[r][1] = hazard[r]
    BY <2>1, <2>2 DEF HazardCovers
  <2>4. View' = [View EXCEPT ![r] = Append(@, hazard[r])]
    BY <1>5, <1>t DEF ReuseHazard
  <2> QED
    BY <1>0, <2>1, <2>3, <2>4
<1>6. CASE FinishAcquire(r)
  BY <1>0, <1>6, <1>t DEF FinishAcquire
<1>7. CASE BeginRelease(r)
  BY <1>0, <1>7, <1>t DEF BeginRelease
<1>8. CASE RaiseReleasing(r)
  BY <1>0, <1>8, <1>t DEF RaiseReleasing
<1>9. CASE ClearHazard(r)
  BY <1>0, <1>9, <1>t DEF ClearHazard
<1>10. CASE Leave(r)
  BY <1>0, <1>10, <1>t DEF Leave
<1>11. CASE LowerReleasing(r)
  BY <1>0, <1>11, <1>t DEF LowerReleasing
<1> QED
  BY <1>1, <1>2, <1>3, <1>4, <1>5, <1>6, <1>7, <1>8, <1>9, <1>10, <1>11 DEF ReaderStep

\* A writer step is a publish or a reclaim of an unheld value in the register, or a stutter.
LEMMA WriterRefines ==
  ASSUME IInv, WriterStep
  PROVE  /\ UNCHANGED View
         /\ \/ UNCHANGED <<current, Alive>>
            \/ /\ next \notin Alive
               /\ current' = next
               /\ Alive' = Alive \cup ({next} \ {Null})
            \/ /\ owner \in Alive /\ owner # current
               /\ \A r \in Roles : owner \notin {View[r][i] : i \in 1 .. Len(View[r])}
               /\ Alive' = Alive \ {owner}
               /\ UNCHANGED current
<1> USE DEF IInv, Alive, shared, readers, writer
<1>0. UNCHANGED View
  BY DEF View, WriterStep, Own, StoreCurrent, StartReclaim, ProbeAcquiring, ProbeReleasing,
         Visit, MatchHazard, Free, FinishSweep
<1>1. ASSUME NEW s \in Pointers, Own(s) PROVE UNCHANGED <<current, Alive>>
  BY <1>1 DEF Own
<1>2. CASE StoreCurrent
  BY <1>0, <1>2 DEF StoreCurrent, Owned
<1>3. CASE StartReclaim \/ ProbeAcquiring \/ ProbeReleasing
  BY <1>0, <1>3 DEF StartReclaim, ProbeAcquiring, ProbeReleasing
<1>4. ASSUME NEW o \in Pointers, Visit(o) PROVE UNCHANGED <<current, Alive>>
  BY <1>4 DEF Visit
<1>5. CASE MatchHazard \/ FinishSweep
  BY <1>0, <1>5 DEF MatchHazard, FinishSweep
<1>6. CASE Free
  <2>1. owner # current /\ owner # Null
    BY <1>6 DEF Free, MatchProgress
  <2>2. \A r \in Roles : owner \notin {View[r][i] : i \in 1 .. Len(View[r])}
    BY <1>6, HeldIsProtected DEF Free
  <2>3. Alive' = Alive \ {owner} /\ UNCHANGED current
    BY <1>6 DEF Free
  <2> QED
    BY <1>0, <2>1, <2>2, <2>3
<1> QED
  BY <1>0, <1>1, <1>2, <1>3, <1>4, <1>5, <1>6 DEF WriterStep

\* The hazard-pointer cell implements the register: publish and the outermost load are atomic
\* to its users, and no reclaim is observable.
THEOREM Refinement == Spec => ImplementsRegister
<1>1. Init => Register!Init
  BY DEF Init, Register!Init
<1>2. IInv /\ [Next]_vars => [Register!Next]_(Register!vars)
  <2> SUFFICES ASSUME IInv, [Next]_vars PROVE [Register!Next]_(Register!vars)
    OBVIOUS
  <2>1. ASSUME NEW r \in Roles, ReaderStep(r) PROVE [Register!Next]_(Register!vars)
    BY <2>1, ReaderRefines
    DEF View, Alive, Register!Next, Register!vars, Register!Acquire, Register!Release
  <2>2. CASE WriterStep
    BY <2>2, WriterRefines
    DEF View, Alive, IInv, TypeOK, Register!Next, Register!vars, Register!Publish,
        Register!Reclaim, Register!Held, Pointers
  <2>3. CASE UNCHANGED vars
    BY <2>3 DEF vars, shared, readers, writer, Register!vars
  <2> QED
    BY <2>1, <2>2, <2>3 DEF Next
<1> QED
  BY <1>1, <1>2, Invariance, PTL DEF Spec, ImplementsRegister, Register!Spec

-----------------------------------------------------------------------------
(* The page cache of a streamed sample.                                    *)

\* The initial state, with its one page in place 0, satisfies the invariant.
LEMMA StreamStarts == StreamInit => StreamInv
<1>1. Generations >= 1 /\ Generations \in Nat /\ MaxAge >= 0 /\ MaxAge \in Nat
  BY RingAssumption
<1>2. SUFFICES ASSUME StreamInit PROVE StreamInv
  OBVIOUS
<1>3. RingTypeOK
  BY <1>1, <1>2, AddressAssumption DEF StreamInit, RingTypeOK, RingPlaces, StatePointers, PCs
<1>4. owners[generation] = published
  BY <1>1, <1>2 DEF StreamInit, RingPlaces
<1>5. Alone /\ PublishedPlace /\ HeldPlace
  BY <1>2, <1>4 DEF StreamInit, Alone, Busy, PublishedPlace, HeldPlace
<1>6. QED
  BY <1>3, <1>5 DEF StreamInv

\* The types of the ring are kept, whatever overlaps.
LEMMA StreamTypes ==
  ASSUME RingTypeOK, [StreamNext]_streamVars
  PROVE  RingTypeOK'
<1>1. Generations \in Nat /\ Generations >= 1 /\ MaxAge \in Nat /\ MaxAge <= Generations - 1
  BY RingAssumption
<1>2. /\ generation \in 0 .. Generations - 1 /\ age \in 0 .. MaxAge
      /\ owners \in [RingPlaces -> StatePointers] /\ published \in Addresses /\ held \in StatePointers
      /\ pc \in [Servicers -> PCs] /\ base \in [Servicers -> StatePointers] /\ built \in [Servicers -> StatePointers]
      /\ \A t \in Servicers : pc[t] \in {"merged", "advanced", "exposed"} => built[t] \in Addresses
      /\ published \in StatePointers /\ NoState \in StatePointers /\ Addresses \subseteq StatePointers
  BY DEF RingTypeOK, RingPlaces, StatePointers
<1> DEFINE Built == \A t \in Servicers : pc[t] \in {"merged", "advanced", "exposed"} => built[t] \in Addresses
<1>3. ASSUME NEW t \in Servicers, NEW from, NEW to \in PCs \ {"merged", "advanced", "exposed"},
             Goto(t, from, to), UNCHANGED built
      PROVE  pc' \in [Servicers -> PCs] /\ Built'
  BY <1>2, <1>3 DEF Goto
<1>a. CASE (\E i \in Indices : MovePlayhead(i)) \/ LoadPointer \/ Lookup \/ UNCHANGED streamVars
  <2>1. UNCHANGED <<owners, generation, published, pc, base, built>>
    BY <1>a DEF MovePlayhead, LoadPointer, Lookup, streamVars, cache, servicer
  <2>2. held' \in StatePointers /\ age' \in 0 .. MaxAge
    BY <1>1, <1>2, <1>a DEF MovePlayhead, LoadPointer, Lookup, streamVars, voice
  <2>3. QED
    BY <1>2, <2>1, <2>2 DEF RingTypeOK, RingPlaces
<1>b. ASSUME NEW t \in Servicers, NEW i \in Indices, RequestZoneStart(t, i) PROVE RingTypeOK'
  <2>1. Goto(t, "idle", "asking") /\ base' = [base EXCEPT ![t] = published] /\ UNCHANGED <<cache, held, age, built>>
    BY <1>b DEF RequestZoneStart, voice
  <2>2. QED
    BY <1>2, <1>3, <2>1 DEF RingTypeOK, RingPlaces, cache, PCs, Busy
<1>c. ASSUME NEW t \in Servicers, LookupZoneStart(t) \/ TakeRequest(t) \/ TakeNothing(t) \/ DropRequest(t) \/ LoadFails(t)
      PROVE  RingTypeOK'
  <2>1. PICK to \in {"asked", "taken", "idle"}, from \in PCs : Goto(t, from, to)
    BY <1>2, <1>c DEF LookupZoneStart, TakeRequest, TakeNothing, DropRequest, LoadFails, Goto, PCs, Busy
  <2>2. UNCHANGED <<cache, held, age, built>> /\ base' \in [Servicers -> StatePointers]
    BY <1>2, <1>c DEF LookupZoneStart, TakeRequest, TakeNothing, DropRequest, LoadFails, Forget, voice
  <2>3. pc' \in [Servicers -> PCs] /\ Built'
    BY <1>3, <2>1, <2>2 DEF PCs
  <2>4. QED
    BY <1>2, <2>2, <2>3 DEF RingTypeOK, RingPlaces, cache
<1>d. ASSUME NEW t \in Servicers, LoadBase(t) PROVE RingTypeOK'
  <2>1. Goto(t, "taken", "reading") /\ base' = [base EXCEPT ![t] = published] /\ UNCHANGED <<cache, held, age, built>>
    BY <1>d DEF LoadBase, voice
  <2>2. QED
    BY <1>2, <1>3, <2>1 DEF RingTypeOK, RingPlaces, cache, PCs, Busy
<1>e. ASSUME NEW t \in Servicers, BuildState(t) PROVE RingTypeOK'
  <2>1. PICK a \in Addresses : built' = [built EXCEPT ![t] = a]
    BY <1>e DEF BuildState
  <2>2. /\ pc[t] = "reading" /\ pc' = [pc EXCEPT ![t] = "merged"]
        /\ base' = [base EXCEPT ![t] = NoState] /\ UNCHANGED <<cache, held, age>>
    BY <1>e DEF BuildState, Goto, Forget, voice
  <2>3. pc' \in [Servicers -> PCs] /\ Built'
    BY <1>2, <2>1, <2>2 DEF PCs, Busy
  <2>4. QED
    BY <1>2, <2>1, <2>2, <2>3 DEF RingTypeOK, RingPlaces, cache
<1>f. ASSUME NEW t \in Servicers, AdvanceRing(t) PROVE RingTypeOK'
  <2>1. /\ pc[t] = "merged" /\ pc' = [pc EXCEPT ![t] = "advanced"] /\ generation' = NextSlot(generation)
        /\ UNCHANGED <<owners, published, held, age, base, built>>
    BY <1>f DEF AdvanceRing, Goto, voice
  <2>2. generation' \in 0 .. Generations - 1
    BY <1>1, <1>2, <2>1 DEF NextSlot
  <2>3. pc' \in [Servicers -> PCs] /\ Built'
    BY <1>2, <2>1 DEF PCs, Busy
  <2>4. QED
    BY <1>2, <2>1, <2>2, <2>3 DEF RingTypeOK, RingPlaces
<1>g. ASSUME NEW t \in Servicers, StorePointer(t) PROVE RingTypeOK'
  <2>1. /\ pc[t] = "advanced" /\ pc' = [pc EXCEPT ![t] = "exposed"]
        /\ age < MaxAge /\ published' = built[t] /\ age' = IF held = NoState THEN 0 ELSE age + 1
        /\ UNCHANGED <<owners, generation, held, base, built>>
    BY <1>g DEF StorePointer, Goto, voice
  <2>2. age' \in 0 .. MaxAge /\ published' \in Addresses
    BY <1>1, <1>2, <2>1
  <2>3. pc' \in [Servicers -> PCs] /\ Built'
    BY <1>2, <2>1 DEF PCs, Busy
  <2>4. QED
    BY <1>2, <2>1, <2>2, <2>3 DEF RingTypeOK, RingPlaces
<1>h. ASSUME NEW t \in Servicers, StoreOwner(t) PROVE RingTypeOK'
  <2>1. /\ pc[t] = "exposed" /\ pc' = [pc EXCEPT ![t] = "idle"]
        /\ owners' = [owners EXCEPT ![generation] = built[t]] /\ built' = [built EXCEPT ![t] = NoState]
        /\ UNCHANGED <<generation, published, held, age, base>>
    BY <1>h DEF StoreOwner, Goto, voice
  <2>2. pc' \in [Servicers -> PCs] /\ Built'
    BY <1>2, <2>1 DEF PCs, Busy
  <2>3. owners' \in [RingPlaces -> StatePointers] /\ built' \in [Servicers -> StatePointers]
    BY <1>2, <2>1
  <2>4. QED
    BY <1>2, <2>1, <2>2, <2>3 DEF RingTypeOK, RingPlaces
<1>4. QED
  BY <1>a, <1>b, <1>c, <1>d, <1>e, <1>f, <1>g, <1>h DEF StreamNext, ServiceStep

\* No step breaks the invariant while the servicers have come one after the other.
LEMMA StreamStep ==
  ASSUME StreamInv, [StreamNext]_streamVars
  PROVE  StreamInv'
<1>1. Generations \in Nat /\ Generations >= 1 /\ MaxAge \in Nat /\ MaxAge <= Generations - 1
  BY RingAssumption
<1>2. RingTypeOK /\ RingTypeOK'
  BY StreamTypes DEF StreamInv
<1>3. SUFFICES ASSUME ~collided' PROVE Alone' /\ PublishedPlace' /\ HeldPlace'
  BY <1>2 DEF StreamInv
<1>4. ~collided
  BY <1>3 DEF StreamNext, ServiceStep, MovePlayhead, LoadPointer, Lookup, RequestZoneStart, LookupZoneStart,
              TakeRequest, TakeNothing, DropRequest, LoadFails, LoadBase, BuildState, AdvanceRing, StorePointer,
              StoreOwner, Enters, streamVars, streamHistory
<1>5. /\ Alone /\ PublishedPlace /\ HeldPlace
      /\ generation \in 0 .. Generations - 1 /\ age \in 0 .. MaxAge
      /\ pc \in [Servicers -> PCs] /\ base \in [Servicers -> StatePointers] /\ built \in [Servicers -> StatePointers]
      /\ owners \in [RingPlaces -> StatePointers]
  BY <1>2, <1>4 DEF StreamInv, RingTypeOK, RingPlaces
<1> DEFINE Quiet == \A u \in Servicers : pc[u] \notin {"advanced", "exposed"}
<1>6. ASSUME NEW t \in Servicers, pc[t] \in Busy
      PROVE  \A u \in Servicers \ {t} : pc[u] \notin Busy
  BY <1>5, <1>6 DEF Alone
\* A servicer that begins to follow the pointer.
<1>7. ASSUME NEW t \in Servicers, NEW to \in {"asking", "reading"}, pc[t] \notin {"advanced", "exposed"},
             pc' = [pc EXCEPT ![t] = to], base' = [base EXCEPT ![t] = published], Enters(t),
             UNCHANGED <<owners, generation, published, held, age, built>>
      PROVE  Alone' /\ PublishedPlace' /\ HeldPlace'
  <2>1. \A u \in Servicers \ {t} : pc[u] \notin Busy
    BY <1>3, <1>7 DEF Enters
  <2>2. Alone'
    BY <1>5, <1>7, <2>1 DEF Alone
  <2>3. Quiet' = Quiet
    BY <1>5, <1>7
  <2>4. PublishedPlace'
    BY <1>5, <1>7, <2>1, <2>3 DEF PublishedPlace, Place, Busy
  <2>5. HeldPlace'
    BY <1>5, <1>7, <2>1, <2>3 DEF HeldPlace, Place, Busy
  <2>6. QED
    BY <2>2, <2>4, <2>5
\* A servicer that goes on or returns without publishing.
<1>8. ASSUME NEW t \in Servicers, NEW to \in {"idle", "asked", "taken", "merged"}, pc[t] \notin {"advanced", "exposed"},
             to = "merged" => pc[t] \in Busy, pc' = [pc EXCEPT ![t] = to],
             \A u \in Servicers \ {t} : base'[u] = base[u] /\ built'[u] = built[u],
             UNCHANGED <<owners, generation, published, held, age>>
      PROVE  Alone' /\ PublishedPlace' /\ HeldPlace'
  <2>1. Alone'
    BY <1>5, <1>8 DEF Alone, Busy
  <2>2. Quiet' = Quiet
    BY <1>5, <1>8
  <2>3. PublishedPlace'
    BY <1>5, <1>8, <2>2 DEF PublishedPlace, Place
  <2>4. HeldPlace'
    BY <1>5, <1>8, <2>2 DEF HeldPlace, Place
  <2>5. QED
    BY <2>1, <2>3, <2>4
<1>a. CASE (\E i \in Indices : MovePlayhead(i)) \/ Lookup \/ UNCHANGED streamVars
  <2>1. UNCHANGED <<owners, generation, published, pc, base, built>>
    BY <1>a DEF MovePlayhead, Lookup, streamVars, cache, servicer
  <2>2. held' = NoState \/ UNCHANGED <<held, age>>
    BY <1>a DEF MovePlayhead, Lookup, streamVars, voice
  <2>3. QED
    BY <1>5, <2>1, <2>2 DEF Alone, PublishedPlace, HeldPlace, Place
<1>b. CASE LoadPointer
  <2>1. held' = published /\ age' = 0 /\ UNCHANGED <<owners, generation, published, pc, base, built>>
    BY <1>b DEF LoadPointer, cache, servicer
  <2>2. Place(generation, 0) = generation /\ Place(generation, 0 + 1) = Place(generation, 1)
    BY <1>5 DEF Place
  <2>3. Alone' /\ PublishedPlace'
    BY <1>5, <2>1 DEF Alone, PublishedPlace, Place
  <2>4. HeldPlace'
    <3>1. Place(generation', age') = generation /\ Place(generation', age' + 1) = Place(generation, 1)
      BY <2>1, <2>2
    <3>2. QED
      BY <1>5, <2>1, <3>1 DEF HeldPlace, PublishedPlace
  <2>5. QED
    BY <2>3, <2>4
<1>c. ASSUME NEW t \in Servicers, NEW i \in Indices, RequestZoneStart(t, i) PROVE Alone' /\ PublishedPlace' /\ HeldPlace'
  BY <1>7, <1>c DEF RequestZoneStart, Goto, cache, voice
<1>d. ASSUME NEW t \in Servicers, LookupZoneStart(t) \/ TakeRequest(t) \/ TakeNothing(t) \/ DropRequest(t) \/ LoadFails(t)
      PROVE  Alone' /\ PublishedPlace' /\ HeldPlace'
  <2>1. PICK to \in {"asked", "taken", "idle"} : pc' = [pc EXCEPT ![t] = to]
    BY <1>d DEF LookupZoneStart, TakeRequest, TakeNothing, DropRequest, LoadFails, Goto
  <2>2. pc[t] \notin {"advanced", "exposed"} /\ UNCHANGED <<owners, generation, published, held, age, built>>
    BY <1>d DEF LookupZoneStart, TakeRequest, TakeNothing, DropRequest, LoadFails, Goto, cache, voice
  <2>3. \A u \in Servicers \ {t} : base'[u] = base[u]
    BY <1>5, <1>d DEF LookupZoneStart, TakeRequest, TakeNothing, DropRequest, LoadFails, Forget
  <2>4. QED
    BY <1>8, <2>1, <2>2, <2>3
<1>e. ASSUME NEW t \in Servicers, LoadBase(t) PROVE Alone' /\ PublishedPlace' /\ HeldPlace'
  BY <1>7, <1>e DEF LoadBase, Goto, cache, voice
<1>f. ASSUME NEW t \in Servicers, BuildState(t) PROVE Alone' /\ PublishedPlace' /\ HeldPlace'
  <2>1. PICK a \in Addresses : built' = [built EXCEPT ![t] = a]
    BY <1>f DEF BuildState
  <2>2. /\ pc[t] = "reading" /\ pc' = [pc EXCEPT ![t] = "merged"]
        /\ base' = [base EXCEPT ![t] = NoState] /\ UNCHANGED <<owners, generation, published, held, age>>
    BY <1>f DEF BuildState, Goto, Forget, cache, voice
  <2>3. \A u \in Servicers \ {t} : base'[u] = base[u] /\ built'[u] = built[u]
    BY <1>5, <2>1, <2>2
  <2>4. QED
    BY <1>8, <2>2, <2>3 DEF Busy
<1>g. ASSUME NEW t \in Servicers, AdvanceRing(t) PROVE Alone' /\ PublishedPlace' /\ HeldPlace'
  <2>1. /\ pc[t] = "merged" /\ pc' = [pc EXCEPT ![t] = "advanced"] /\ generation' = NextSlot(generation)
        /\ UNCHANGED <<owners, published, held, age, base, built>>
    BY <1>g DEF AdvanceRing, Goto, voice
  <2>2. \A u \in Servicers \ {t} : pc[u] \notin Busy /\ pc'[u] = pc[u]
    BY <1>5, <1>6, <2>1 DEF Busy
  <2>3. pc'[t] = "advanced" /\ Quiet
    BY <1>5, <2>1, <2>2 DEF Busy
  <2>4. \A k \in 0 .. Generations - 1 : Place(generation', k + 1) = Place(generation, k)
    BY <1>1, <1>5, <2>1 DEF Place, NextSlot
  <2>5. Place(generation', 1) = generation /\ Place(generation', age' + 1) = Place(generation, age)
    <3>1. Place(generation, 0) = generation /\ 0 + 1 = 1 /\ age' = age /\ age \in 0 .. Generations - 1
      BY <1>1, <1>5, <2>1 DEF Place
    <3>2. QED
      BY <1>1, <2>4, <3>1
  <2>6. published = owners[generation] /\ (held # NoState => held = owners[Place(generation, age)])
    BY <1>5, <2>3 DEF PublishedPlace, HeldPlace
  <2>7. Alone'
    BY <2>2 DEF Alone
  <2>8. PublishedPlace' /\ HeldPlace'
    BY <2>1, <2>2, <2>3, <2>5, <2>6 DEF PublishedPlace, HeldPlace, Busy
  <2>9. QED
    BY <2>7, <2>8
<1>h. ASSUME NEW t \in Servicers, StorePointer(t) PROVE Alone' /\ PublishedPlace' /\ HeldPlace'
  <2>1. /\ pc[t] = "advanced" /\ pc' = [pc EXCEPT ![t] = "exposed"]
        /\ age < MaxAge /\ published' = built[t] /\ age' = IF held = NoState THEN 0 ELSE age + 1
        /\ UNCHANGED <<owners, generation, held, base, built>>
    BY <1>h DEF StorePointer, Goto, voice
  <2>2. \A u \in Servicers \ {t} : pc[u] \notin Busy /\ pc'[u] = pc[u]
    BY <1>5, <1>6, <2>1 DEF Busy
  <2>3. pc'[t] = "exposed" /\ Alone'
    BY <1>5, <2>1, <2>2 DEF Alone
  <2>4. held # NoState => held = owners[Place(generation, age + 1)] /\ age + 1 # 0
    BY <1>1, <1>5, <2>1 DEF HeldPlace
  <2>5. PublishedPlace'
    BY <2>1, <2>2, <2>3 DEF PublishedPlace, Busy
  <2>6. HeldPlace'
    <3>1. SUFFICES ASSUME held # NoState PROVE HeldPlace'
      BY <2>1 DEF HeldPlace
    <3>2. age' = age + 1 /\ age' # 0 /\ Place(generation', age') = Place(generation, age + 1) /\ held' = held
      BY <2>1, <2>4, <3>1
    <3>3. QED
      BY <2>1, <2>2, <2>3, <2>4, <3>1, <3>2 DEF HeldPlace, Busy
  <2>7. QED
    BY <2>3, <2>5, <2>6
<1>i. ASSUME NEW t \in Servicers, StoreOwner(t) PROVE Alone' /\ PublishedPlace' /\ HeldPlace'
  <2>1. /\ pc[t] = "exposed" /\ pc' = [pc EXCEPT ![t] = "idle"]
        /\ owners' = [owners EXCEPT ![generation] = built[t]] /\ built' = [built EXCEPT ![t] = NoState]
        /\ UNCHANGED <<generation, published, held, age, base>>
    BY <1>i DEF StoreOwner, Goto, voice
  <2>2. \A u \in Servicers : pc'[u] \notin Busy
    BY <1>5, <1>6, <2>1 DEF Busy
  <2>3. owners'[generation] = built[t] /\ published = built[t]
    BY <1>5, <2>1 DEF PublishedPlace, RingPlaces
  <2>4. Alone' /\ PublishedPlace'
    BY <2>1, <2>2, <2>3 DEF Alone, PublishedPlace, Busy
  <2>5. held # NoState => held' = owners'[Place(generation', age')]
    <3>1. age # 0 => Place(generation, age) \in RingPlaces /\ Place(generation, age) # generation
      BY <1>1, <1>5 DEF Place, RingPlaces
    <3>2. age = 0 => Place(generation, age) = generation
      BY <1>5 DEF Place
    <3>3. Place(generation', age') = Place(generation, age)
      BY <2>1
    <3>4. held # NoState => held = IF age = 0 THEN built[t] ELSE owners[Place(generation, age)]
      BY <1>5, <2>1 DEF HeldPlace
    <3>5. QED
      BY <1>5, <2>1, <2>3, <3>1, <3>2, <3>3, <3>4
  <2>6. HeldPlace'
    BY <2>1, <2>2, <2>5 DEF HeldPlace, Busy
  <2>7. QED
    BY <2>4, <2>6
<1>9. QED
  BY <1>a, <1>b, <1>c, <1>d, <1>e, <1>f, <1>g, <1>h, <1>i DEF StreamNext, ServiceStep

\* The inductive invariant holds of every behaviour, of any number of servicers: the place of every
\* live state in the ring of owners, until two of them are at work on the source at once.
THEOREM StreamInvariance == StreamSpec => []StreamInv
BY StreamStarts, StreamStep, PTL DEF StreamSpec

\* The audio thread, the published pointer and a servicer's lookup or merge never follow a pointer
\* whose state has lost its owner, until servicers overlap: publishCacheState().
THEOREM PointersLive == StreamSpec => []SerialPointersAreOwned
<1>1. StreamInv => SerialPointersAreOwned
  <2>1. SUFFICES ASSUME StreamInv, ~collided PROVE PointersAreOwned
    BY DEF SerialPointersAreOwned
  <2>2. /\ Generations \in Nat /\ Generations >= 1 /\ MaxAge \in Nat /\ MaxAge <= Generations - 1
        /\ RingTypeOK /\ PublishedPlace /\ HeldPlace
    BY <2>1, RingAssumption DEF StreamInv
  <2>3. \A s \in RingPlaces : InUse(owners[s])
    BY <2>2 DEF InUse, Range, RingTypeOK
  <2>4. \A t \in Servicers : InUse(built[t])
    BY DEF InUse
  <2>5. /\ generation \in RingPlaces /\ Place(generation, 1) \in RingPlaces
        /\ Place(generation, age) \in RingPlaces /\ Place(generation, age + 1) \in RingPlaces
    BY <2>2 DEF RingTypeOK, RingPlaces, Place
  <2>6. InUse(published)
    BY <2>2, <2>3, <2>4, <2>5 DEF PublishedPlace
  <2>7. held # NoState => InUse(held)
    BY <2>2, <2>3, <2>4, <2>5 DEF HeldPlace
  <2>8. \A t \in Servicers : pc[t] \in {"asking", "reading"} => InUse(base[t])
    BY <2>2, <2>6 DEF PublishedPlace
  <2>9. QED
    BY <2>6, <2>7, <2>8 DEF PointersAreOwned
<1>2. QED
  BY <1>1, StreamInvariance, PTL

=============================================================================
