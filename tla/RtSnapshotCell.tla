--------------------------- MODULE RtSnapshotCell ---------------------------
(***************************************************************************)
(* The hazard-pointer cell through which the engine hands immutable        *)
(* snapshots (sample segments, published programs, preview samples) to the *)
(* audio, worker and message roles without a lock.  Every seq_cst atomic   *)
(* access of the code is one step.  One thread stands for each role, as    *)
(* the class requires; the writer is a separate process, so the steps of a *)
(* message-role guard interleave with a publish.  A snapshot's address is  *)
(* a member of Snapshots, and an address is published again once its old   *)
(* owner has been reclaimed, as an allocator may do.                       *)
(***************************************************************************)
EXTENDS Integers, Sequences, FiniteSets

CONSTANTS NumRoles,   \* RtReaderRole::count, the number of reader slots
          Snapshots,  \* addresses that snapshots are allocated at
          Null,       \* the null pointer
          MaxDepth    \* bound on the guards one role nests

ASSUME RolesAssumption == NumRoles \in Nat \ {0}
ASSUME NullAssumption == Null \notin Snapshots
ASSUME DepthAssumption == MaxDepth \in Nat \ {0}

Roles == 0 .. NumRoles - 1
Pointers == Snapshots \cup {Null}

VARIABLES current,     \* current_
          hazard,      \* readerHazards_
          depth,       \* readerDepths_
          acquiring,   \* readerAcquiring_
          releasing,   \* readerReleasing_
          limbo,       \* limbo_, as the set of the owned pointers
          rpc,         \* where each role is in a Reader's constructor or release()
          ptr,         \* ptr_ of the Reader a role is constructing
          guards,      \* ptr_ of every live Reader of a role, outermost first
          wpc,         \* where the writer is in publish() or reclaim()
          next,        \* raw: the pointer publish() is about to expose
          slot,        \* loop index over the reader slots
          unscanned,   \* owners remove_if has still to visit
          owner        \* the owner remove_if is comparing with the hazards

shared == <<current, hazard, depth, acquiring, releasing, limbo>>
readers == <<rpc, ptr, guards>>
writer == <<wpc, next, slot, unscanned, owner>>
vars == <<shared, readers, writer>>

Acquiring == {"announced", "outer", "inner", "loaded", "acquired"}
Releasing == {"clearing", "leavingLast", "lowering"}
ReaderPCs == {"idle", "lastRelease", "leaving"} \cup Acquiring \cup Releasing
WriterPCs == {"idle", "store", "probeAcquiring", "probeReleasing", "scan", "match"}

TypeOK ==
  /\ current \in Pointers
  /\ hazard \in [Roles -> Pointers]
  /\ depth \in [Roles -> Nat]
  /\ acquiring \in [Roles -> BOOLEAN]
  /\ releasing \in [Roles -> BOOLEAN]
  /\ limbo \in SUBSET Pointers
  /\ rpc \in [Roles -> ReaderPCs]
  /\ ptr \in [Roles -> Pointers]
  /\ guards \in [Roles -> Seq(Pointers)]
  /\ wpc \in WriterPCs
  /\ next \in Pointers
  /\ slot \in 0 .. NumRoles
  /\ unscanned \in SUBSET Pointers
  /\ owner \in Pointers

Init ==
  /\ current = Null
  /\ hazard = [r \in Roles |-> Null]
  /\ depth = [r \in Roles |-> 0]
  /\ acquiring = [r \in Roles |-> FALSE]
  /\ releasing = [r \in Roles |-> FALSE]
  /\ limbo = {}
  /\ rpc = [r \in Roles |-> "idle"]
  /\ ptr = [r \in Roles |-> Null]
  /\ guards = [r \in Roles |-> <<>>]
  /\ wpc = "idle"
  /\ next = Null
  /\ slot = 0
  /\ unscanned = {}
  /\ owner = Null

-----------------------------------------------------------------------------
(* Reader(cell, role): the constructor, one atomic access per step.        *)

Move(r, from, to) == rpc[r] = from /\ rpc' = [rpc EXCEPT ![r] = to]

\* Mutant: the window before the hazard is published is not announced.
Announce_NoFlag(r) ==
  /\ Len(guards[r]) < MaxDepth
  /\ Move(r, "idle", "announced")
  /\ UNCHANGED <<shared, ptr, guards, writer>>

Announce(r) ==
  /\ Len(guards[r]) < MaxDepth
  /\ Move(r, "idle", "announced")
  /\ acquiring' = [acquiring EXCEPT ![r] = TRUE]
  /\ UNCHANGED <<current, hazard, depth, releasing, limbo, ptr, guards, writer>>

Enter(r) ==
  /\ Move(r, "announced", IF depth[r] = 0 THEN "outer" ELSE "inner")
  /\ depth' = [depth EXCEPT ![r] = @ + 1]
  /\ UNCHANGED <<current, hazard, acquiring, releasing, limbo, ptr, guards, writer>>

LoadCurrent(r) ==
  /\ Move(r, "outer", "loaded")
  /\ ptr' = [ptr EXCEPT ![r] = current]
  /\ UNCHANGED <<shared, guards, writer>>

PublishHazard(r) ==
  /\ Move(r, "loaded", "acquired")
  /\ hazard' = [hazard EXCEPT ![r] = ptr[r]]
  /\ UNCHANGED <<current, depth, acquiring, releasing, limbo, ptr, guards, writer>>

ReuseHazard(r) ==
  /\ Move(r, "inner", "acquired")
  /\ ptr' = [ptr EXCEPT ![r] = hazard[r]]
  /\ UNCHANGED <<shared, guards, writer>>

FinishAcquire(r) ==
  /\ Move(r, "acquired", "idle")
  /\ acquiring' = [acquiring EXCEPT ![r] = FALSE]
  /\ guards' = [guards EXCEPT ![r] = Append(@, ptr[r])]
  /\ UNCHANGED <<current, hazard, depth, releasing, limbo, ptr, writer>>

-----------------------------------------------------------------------------
(* Reader::release().  Scopes end innermost first.  The guard stops being  *)
(* used when release() starts.                                             *)

BeginRelease(r) ==
  /\ guards[r] # <<>>
  /\ Move(r, "idle", IF depth[r] = 1 THEN "lastRelease" ELSE "leaving")
  /\ guards' = [guards EXCEPT ![r] = SubSeq(@, 1, Len(@) - 1)]
  /\ UNCHANGED <<shared, ptr, writer>>

RaiseReleasing(r) ==
  /\ Move(r, "lastRelease", "clearing")
  /\ releasing' = [releasing EXCEPT ![r] = TRUE]
  /\ UNCHANGED <<current, hazard, depth, acquiring, limbo, ptr, guards, writer>>

ClearHazard(r) ==
  /\ Move(r, "clearing", "leavingLast")
  /\ hazard' = [hazard EXCEPT ![r] = Null]
  /\ UNCHANGED <<current, depth, acquiring, releasing, limbo, ptr, guards, writer>>

Leave(r) ==
  /\ \/ Move(r, "leavingLast", "lowering")
     \/ Move(r, "leaving", "idle")
  /\ depth' = [depth EXCEPT ![r] = @ - 1]
  /\ UNCHANGED <<current, hazard, acquiring, releasing, limbo, ptr, guards, writer>>

LowerReleasing(r) ==
  /\ Move(r, "lowering", "idle")
  /\ releasing' = [releasing EXCEPT ![r] = FALSE]
  /\ UNCHANGED <<current, hazard, depth, acquiring, limbo, ptr, guards, writer>>

-----------------------------------------------------------------------------
(* publish(): own the snapshot first, then expose it, then reclaim.  A     *)
(* push_back that throws leaves every variable as it was.                  *)

Own(s) ==
  /\ wpc = "idle"
  /\ s \notin limbo \ {Null}
  /\ wpc' = "store"
  /\ next' = s
  /\ limbo' = limbo \cup {s}
  /\ UNCHANGED <<current, hazard, depth, acquiring, releasing, readers, slot, unscanned, owner>>

StoreCurrent ==
  /\ wpc = "store"
  /\ wpc' = "probeAcquiring"
  /\ current' = next
  /\ slot' = 0
  /\ UNCHANGED <<hazard, depth, acquiring, releasing, limbo, readers, next, unscanned, owner>>

\* retainedOwnerCountForWriter() and visitRetainedOwnersForWriter() reclaim without a publish.
StartReclaim ==
  /\ wpc = "idle"
  /\ wpc' = "probeAcquiring"
  /\ slot' = 0
  /\ UNCHANGED <<shared, readers, next, unscanned, owner>>

(* reclaim(): defer while any slot is inside a window, else sweep limbo.   *)

ProbeAcquiring ==
  /\ wpc = "probeAcquiring"
  /\ wpc' = IF slot < NumRoles
            THEN IF acquiring[slot] THEN "idle" ELSE "probeReleasing"
            ELSE "scan"
  /\ unscanned' = IF slot < NumRoles THEN unscanned ELSE limbo
  /\ UNCHANGED <<shared, readers, next, slot, owner>>

ProbeReleasing ==
  /\ wpc = "probeReleasing"
  /\ wpc' = IF releasing[slot] THEN "idle" ELSE "probeAcquiring"
  /\ slot' = IF releasing[slot] THEN slot ELSE slot + 1
  /\ UNCHANGED <<shared, readers, next, unscanned, owner>>

\* Mutant: only the hazards keep an owner.
Visit_IgnoresCurrent(o) ==
  /\ wpc = "scan"
  /\ o \in unscanned
  /\ unscanned' = unscanned \ {o}
  /\ wpc' = "match" /\ slot' = 0 /\ owner' = o
  /\ UNCHANGED <<shared, readers, next>>

\* remove_if visits an owner: the current one stays, a null one goes, any other is compared.
Visit(o) ==
  /\ wpc = "scan"
  /\ o \in unscanned
  /\ unscanned' = unscanned \ {o}
  /\ limbo' = IF o = Null THEN limbo \ {o} ELSE limbo
  /\ IF o = Null \/ o = current
     THEN UNCHANGED <<wpc, slot, owner>>
     ELSE wpc' = "match" /\ slot' = 0 /\ owner' = o
  /\ UNCHANGED <<current, hazard, depth, acquiring, releasing, readers, next>>

MatchHazard ==
  /\ wpc = "match"
  /\ slot < NumRoles
  /\ wpc' = IF hazard[slot] = owner THEN "scan" ELSE "match"
  /\ slot' = IF hazard[slot] = owner THEN slot ELSE slot + 1
  /\ UNCHANGED <<shared, readers, next, unscanned, owner>>

\* Mutant: remove_if without the erase.
Free_NoErase ==
  /\ wpc = "match"
  /\ slot = NumRoles
  /\ wpc' = "scan"
  /\ UNCHANGED <<shared, readers, next, slot, unscanned, owner>>

\* No slot matched: the owner is erased and the snapshot it owns freed.
Free ==
  /\ wpc = "match"
  /\ slot = NumRoles
  /\ wpc' = "scan"
  /\ limbo' = limbo \ {owner}
  /\ UNCHANGED <<current, hazard, depth, acquiring, releasing, readers, next, slot, unscanned, owner>>

FinishSweep ==
  /\ wpc = "scan"
  /\ unscanned = {}
  /\ wpc' = "idle"
  /\ UNCHANGED <<shared, readers, next, slot, unscanned, owner>>

-----------------------------------------------------------------------------
ReaderStep(r) ==
  \/ Announce(r) \/ Enter(r) \/ LoadCurrent(r) \/ PublishHazard(r) \/ ReuseHazard(r)
  \/ FinishAcquire(r) \/ BeginRelease(r) \/ RaiseReleasing(r) \/ ClearHazard(r)
  \/ Leave(r) \/ LowerReleasing(r)

WriterStep ==
  \/ \E s \in Pointers : Own(s)
  \/ StoreCurrent \/ StartReclaim \/ ProbeAcquiring \/ ProbeReleasing
  \/ \E o \in Pointers : Visit(o)
  \/ MatchHazard \/ Free \/ FinishSweep

Next == (\E r \in Roles : ReaderStep(r)) \/ WriterStep

Spec == Init /\ [][Next]_vars

-----------------------------------------------------------------------------
(* Properties *)

Guarded(r) == {guards[r][i] : i \in 1 .. Len(guards[r])} \ {Null}

\* No live Reader points to a snapshot whose owner reclaim() has erased, whatever publishes,
\* sweeps and nested guards ran since it was taken.
GuardedNeverReclaimed == \A r \in Roles : Guarded(r) \subseteq limbo

\* Nested guards of one role see one snapshot, however many publishes happen between them: a
\* helper called from render() never pairs a newer generation with its caller's.
NestedGuardsAgree ==
  \A r \in Roles : \A i \in 1 .. Len(guards[r]) : guards[r][i] = guards[r][1]

\* A sweep that was not deferred leaves at most the current snapshot and one per role: guards
\* that come and go while it runs cannot make it keep more.
RetentionBound ==
  [][FinishSweep => Cardinality(limbo') <= 1 + NumRoles]_vars

\* The cell implements the register: a guard counts from the step that loads its pointer, a
\* snapshot as published from the store of current_, and as dropped from its erasure.
Register == INSTANCE SnapshotRegister WITH
  value <- current,
  view <- [r \in Roles |-> IF rpc[r] \in {"loaded", "acquired"}
                           THEN Append(guards[r], ptr[r]) ELSE guards[r]],
  alive <- limbo \ ({Null} \cup IF wpc = "store" THEN {next} ELSE {})

ImplementsRegister == Register!Spec

-----------------------------------------------------------------------------
(* Why it works: an inductive invariant.                                   *)

\* The depth counts the live guards and the one being constructed or destroyed.
DepthCounts ==
  \A r \in Roles :
    depth[r] = Len(guards[r])
               + IF rpc[r] \in {"idle", "announced", "lowering"} THEN 0 ELSE 1

\* Which kind of guard a role is at, and the flags it shows.
FlagsTell ==
  \A r \in Roles :
    /\ acquiring[r] <=> rpc[r] \in Acquiring
    /\ rpc[r] \in {"outer", "loaded", "lastRelease", "clearing", "leavingLast", "lowering"}
         => guards[r] = <<>>
    /\ rpc[r] \in {"inner", "leaving"} => guards[r] # <<>>

\* The hazard of a role is what all its guards point to.
HazardCovers ==
  \A r \in Roles :
    /\ \A i \in 1 .. Len(guards[r]) : guards[r][i] = hazard[r]
    /\ rpc[r] = "acquired" => ptr[r] = hazard[r]

\* Whatever can still be dereferenced is owned.
Owned ==
  /\ current # Null => current \in limbo
  /\ wpc = "store" => next \in limbo
  /\ \A r \in Roles : hazard[r] # Null => hazard[r] \in limbo
  /\ \A r \in Roles : rpc[r] = "loaded" /\ ptr[r] # Null => ptr[r] \in limbo

\* Once the writer has seen a slot outside its acquisition, a pointer loaded there is current.
ProbedLoadsCurrent ==
  \A r \in Roles :
    \/ wpc \in {"idle", "store"}
    \/ wpc = "probeAcquiring" /\ r >= slot
    \/ wpc = "probeReleasing" /\ r > slot
    \/ rpc[r] = "loaded" => ptr[r] = current

\* The owner being compared is neither current nor in a slot that was compared already.
MatchProgress ==
  /\ wpc = "probeReleasing" => slot < NumRoles
  /\ wpc = "match" =>
       /\ owner # current /\ owner # Null
       /\ \A r \in Roles : r < slot => hazard[r] # owner

\* What a sweep has kept so far is current, or was the hazard of a role when the sweep began: a
\* guard that comes while it runs holds what is current.
Kept == limbo \ (unscanned \cup IF wpc = "match" THEN {owner} ELSE {})
SweepKeeps ==
  wpc \in {"scan", "match"} =>
    \E before \in [Roles -> Pointers] :
      /\ Kept \subseteq {current} \cup {before[r] : r \in Roles}
      /\ \A r \in Roles : hazard[r] \in {before[r], current, Null}

IInv == /\ TypeOK /\ DepthCounts /\ FlagsTell /\ HazardCovers
        /\ Owned /\ ProbedLoadsCurrent /\ MatchProgress

=============================================================================
