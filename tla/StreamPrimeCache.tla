-------------------------- MODULE StreamPrimeCache --------------------------
(***************************************************************************)
(* The page cache of a sample that is streamed from disk.  The audio       *)
(* thread looks pages up through a raw pointer and leaves one request in a *)
(* slot; a servicer (the stream worker, and setProgramMetadata() on the    *)
(* message thread) takes the request, reads a window of the file, builds a *)
(* new immutable state of at most PageCount pages and publishes it.  A     *)
(* ring of Generations owners is all that keeps a published state alive.   *)
(* Every access of a shared atomic and of the ring is one step.  A state   *)
(* lives at an address, which is used again once nobody owns it.           *)
(***************************************************************************)
EXTENDS Integers, Sequences, SequencesExt

CONSTANTS Total,        \* totalSamples of the streamed part
          Window,       \* primeWindowSamples
          PageCount,    \* kDiskStreamCachePageCount
          Generations,  \* kCacheStateGenerations
          Addresses,    \* where states are allocated
          NoState,      \* the null pointer
          Servicers,    \* the threads that call servicePendingPrime()
          MaxAge,       \* publications a use of the pointer may span
          MaxEdits      \* bound on the zones whose start mapping edits request

ASSUME SizeAssumption == Total \in Nat \ {0} /\ Window \in 1 .. Total /\ PageCount \in Nat \ {0}
ASSUME RingAssumption == Generations \in Nat \ {0} /\ MaxAge \in 0 .. Generations - 1
ASSUME EditAssumption == MaxEdits \in Nat
ASSUME AddressAssumption == NoState \notin Addresses /\ "audio" \notin Servicers

Indices == 0 .. Total - 1
NoRequest == -1

VARIABLES pendingPrime,    \* pendingPrimeWindowStart
          pages,      \* what lies at each address: the starts of the pages, newest first
          owners,     \* cacheStateOwners_
          generation, \* cacheStateGenerationIndex
          published,  \* cacheStatePtr_
          readable,   \* whether the backing file can be read
          playhead,   \* the index the voices ask for
          held,       \* the pointer the audio thread has loaded
          age,        \* publications since it did
          pc,         \* where each servicer is in servicePendingPrime()
          requested,  \* requestedWindowStart of each servicer, or the sample it asks for
          base,       \* currentCache of each servicer
          built,      \* the state each servicer is about to publish
          edits,      \* a counter for the bound
          collided  \* two servicers have been at work on the source at once
voice == <<playhead, held>>
servicer == <<pc, requested, base, built>>
cache == <<owners, generation, published>>
streamHistory == <<edits, collided>>
streamVars == <<pendingPrime, pages, cache, readable, voice, age, servicer, streamHistory>>

StatePointers == Addresses \cup {NoState}
RingPlaces == 0 .. Generations - 1

\* Mutant: the ring wraps one place early.
NextSlot_Short(s) == IF s = Generations - 2 THEN 0 ELSE s + 1

NextSlot(s) == IF s = Generations - 1 THEN 0 ELSE s + 1

\* StreamCacheState::contains
Covers(starts, i) == \E k \in DOMAIN starts : i \in starts[k] .. starts[k] + Window - 1
Cached(p, i) == p # NoState /\ Covers(pages[p], i)

\* alignPrimeWindowStart: the window is moved back if it would reach past the end.
AlignWindow(i) ==
  LET aligned == (i \div Window) * Window
  IN  IF aligned > Total - Window THEN Total - Window ELSE aligned

\* mergeCacheWindow: the new page first, then the others in order until the array is full.
MergePages(starts, new) ==
  LET kept == <<new>> \o SelectSeq(starts, LAMBDA s : s # new)
  IN  SubSeq(kept, 1, IF Len(kept) < PageCount THEN Len(kept) ELSE PageCount)

\* seedInitialCacheState and the first publishCacheState: one page at the start, in slot 0.
StreamInit ==
  /\ pendingPrime = NoRequest
  /\ published \in Addresses
  /\ owners = [s \in RingPlaces |-> IF s = 0 THEN published ELSE NoState]
  /\ pages = [a \in Addresses |-> IF a = published THEN <<0>> ELSE <<>>]
  /\ generation = 0
  /\ readable \in BOOLEAN
  /\ playhead \in Indices
  /\ held = NoState
  /\ age = 0
  /\ pc = [t \in Servicers |-> "idle"]
  /\ requested = [t \in Servicers |-> NoRequest]
  /\ base = [t \in Servicers |-> NoState]
  /\ built = [t \in Servicers |-> NoState]
  /\ edits = 0 /\ collided = FALSE

-----------------------------------------------------------------------------
(* The audio thread: readSample() and requestPrime() of the rendering voices. *)

\* A voice moves on, jumps to its loop start, or another voice of the sample is rendered.
MovePlayhead(i) ==
  /\ held = NoState
  /\ playhead' = i
  /\ UNCHANGED <<pendingPrime, pages, cache, readable, held, age, servicer, streamHistory>>

LoadPointer ==
  /\ held = NoState
  /\ held' = published
  /\ age' = 0
  /\ UNCHANGED <<pendingPrime, pages, cache, readable, playhead, servicer, streamHistory>>

\* The page is found, or its window is requested in place of any earlier request.
Lookup ==
  /\ held # NoState
  /\ pendingPrime' = IF Cached(held, playhead) THEN pendingPrime ELSE AlignWindow(playhead)
  /\ held' = NoState /\ age' = 0
  /\ UNCHANGED <<pages, cache, readable, playhead, servicer, streamHistory>>

-----------------------------------------------------------------------------
(* servicePendingPrime() and publishCacheState() *)

Goto(t, from, to) == pc[t] = from /\ pc' = [pc EXCEPT ![t] = to]

Forget(t) == requested' = [requested EXCEPT ![t] = NoRequest] /\ base' = [base EXCEPT ![t] = NoState]

\* A servicer that follows the published pointer or is replacing it; one that begins to do so beside
\* another is noted.
Busy == {"asking", "reading", "merged", "advanced", "exposed"}
Enters(t) == collided' = (collided \/ \E u \in Servicers \ {t} : pc[u] \in Busy)

\* setProgramMetadata() requests the start of a zone, as a voice does, ...
RequestZoneStart(t, i) ==
  /\ t # "worker" /\ edits < MaxEdits
  /\ edits' = edits + 1
  /\ Goto(t, "idle", "asking")
  /\ requested' = [requested EXCEPT ![t] = i]
  /\ base' = [base EXCEPT ![t] = published]
  /\ Enters(t)
  /\ UNCHANGED <<pendingPrime, pages, cache, readable, voice, age, built>>

\* ... unless it is cached, ...
LookupZoneStart(t) ==
  /\ Goto(t, "asking", "asked")
  /\ pendingPrime' = IF Cached(base[t], requested[t]) THEN pendingPrime ELSE AlignWindow(requested[t])
  /\ Forget(t)
  /\ UNCHANGED <<pages, cache, readable, voice, age, built, streamHistory>>

\* ... and services the source.  pendingPrimeWindowStart.exchange(-1)
TakeRequest(t) ==
  /\ Goto(t, IF t = "worker" THEN "idle" ELSE "asked", "taken")
  /\ pendingPrime # NoRequest
  /\ requested' = [requested EXCEPT ![t] = pendingPrime]
  /\ pendingPrime' = NoRequest
  /\ UNCHANGED <<pages, cache, readable, voice, age, base, built, streamHistory>>

\* The worker has taken the request of the edit.
TakeNothing(t) ==
  /\ Goto(t, "asked", "idle")
  /\ pendingPrime = NoRequest
  /\ UNCHANGED <<pendingPrime, pages, cache, readable, voice, age, requested, base, built, streamHistory>>

\* Mutant: a request is dropped if any page is cached at all.
DropRequest_AnyPage(t) ==
  /\ Goto(t, "taken", "idle")
  /\ published # NoState
  /\ Forget(t)
  /\ UNCHANGED <<pendingPrime, pages, cache, readable, voice, age, built, streamHistory>>

\* A request whose first sample is cached by now is dropped.
DropRequest(t) ==
  /\ Goto(t, "taken", "idle")
  /\ Cached(published, requested[t])
  /\ Forget(t)
  /\ UNCHANGED <<pendingPrime, pages, cache, readable, voice, age, built, streamHistory>>

LoadBase(t) ==
  /\ Goto(t, "taken", "reading")
  /\ ~Cached(published, requested[t])
  /\ base' = [base EXCEPT ![t] = published]
  /\ Enters(t)
  /\ UNCHANGED <<pendingPrime, pages, cache, readable, voice, age, requested, built, edits>>

\* loadCacheWindow fails: the request is forgotten.
LoadFails(t) ==
  /\ ~readable
  /\ Goto(t, "reading", "idle")
  /\ Forget(t)
  /\ UNCHANGED <<pendingPrime, pages, cache, readable, voice, age, built, streamHistory>>

InUse(a) == a \in Range(owners) \/ \E t \in Servicers : built[t] = a

\* loadCacheWindow and mergeCacheWindow: a new state on an address nobody owns.
BuildState(t) ==
  /\ readable
  /\ Goto(t, "reading", "merged")
  /\ \E a \in Addresses : ~InUse(a)
  /\ LET a == CHOOSE free \in Addresses : ~InUse(free)
     IN  /\ built' = [built EXCEPT ![t] = a]
         /\ pages' = [pages EXCEPT ![a] = MergePages(pages[base[t]], requested[t])]
  /\ Forget(t)
  /\ UNCHANGED <<pendingPrime, cache, readable, voice, age, streamHistory>>

AdvanceRing(t) ==
  /\ Goto(t, "merged", "advanced")
  /\ generation' = NextSlot(generation)
  /\ UNCHANGED <<pendingPrime, pages, owners, published, readable, voice, age, requested, base, built, streamHistory>>

\* The use of a loaded pointer is a handful of instructions: fewer publications fit into it than
\* the ring has places.
StorePointer(t) ==
  /\ age < MaxAge
  /\ Goto(t, "advanced", "exposed")
  /\ published' = built[t]
  /\ age' = IF held = NoState THEN 0 ELSE age + 1
  /\ UNCHANGED <<pendingPrime, pages, owners, generation, readable, voice, requested, base, built, streamHistory>>

\* The owner of Generations publications ago goes, and with it its state.
StoreOwner(t) ==
  /\ Goto(t, "exposed", "idle")
  /\ owners' = [owners EXCEPT ![generation] = built[t]]
  /\ pages' = [a \in Addresses |-> IF a = owners[generation] THEN <<>> ELSE pages[a]]
  /\ built' = [built EXCEPT ![t] = NoState]
  /\ UNCHANGED <<pendingPrime, generation, published, readable, voice, age, requested, base, streamHistory>>

ServiceStep(t) ==
  \/ TakeRequest(t) \/ TakeNothing(t) \/ DropRequest(t) \/ LoadBase(t) \/ LoadFails(t) \/ BuildState(t)
  \/ AdvanceRing(t) \/ StorePointer(t) \/ StoreOwner(t)

StreamNext ==
  \/ \E i \in Indices : MovePlayhead(i)
  \/ LoadPointer \/ Lookup
  \/ \E t \in Servicers, i \in Indices : RequestZoneStart(t, i)
  \/ \E t \in Servicers : LookupZoneStart(t) \/ ServiceStep(t)

\* The host keeps rendering while voices sound, and every servicer's thread runs.
StreamFairness ==
  /\ WF_streamVars(LoadPointer) /\ WF_streamVars(Lookup)
  /\ \A t \in Servicers : WF_streamVars(LookupZoneStart(t) \/ ServiceStep(t))

StreamSpec == StreamInit /\ [][StreamNext]_streamVars /\ StreamFairness

-----------------------------------------------------------------------------
(* Properties *)

PCs == {"idle", "asked", "taken"} \cup Busy

\* The types of the ring, of its readers and of its servicers.
RingTypeOK ==
  /\ owners \in [RingPlaces -> StatePointers]
  /\ generation \in RingPlaces
  /\ published \in Addresses
  /\ held \in StatePointers
  /\ age \in 0 .. MaxAge
  /\ pc \in [Servicers -> PCs]
  /\ base \in [Servicers -> StatePointers]
  /\ built \in [Servicers -> StatePointers]
  /\ \A t \in Servicers : pc[t] \in {"merged", "advanced", "exposed"} => built[t] \in Addresses

\* A pointer the audio thread is using, the published one, and the one a servicer asks or merges
\* from still have an owner: the ring or the servicer that is publishing it.
PointersAreOwned ==
  /\ held # NoState => InUse(held)
  /\ InUse(published)
  /\ \A t \in Servicers : pc[t] \in {"asking", "reading"} => InUse(base[t])

\* The ring of owners keeps every pointer alive that is followed, for as long as the servicers, of
\* which there may be any number, have come one after the other.  Where they overlap, as the
\* stream worker and setProgramMetadata() may, PointersAreOwned is violated: publishCacheState().
SerialPointersAreOwned == ~collided => PointersAreOwned

\* A last window that is moved back into the one before it is taken for cached when that one is.
TailMayBeShadowed(i) == Total % Window # 0 /\ i >= (Total \div Window) * Window

\* A voice that stays at one place of a readable file and keeps asking for it gets it from the
\* cache for good, whatever the slot of one request and mapping edits lose: servicePendingPrime().
\* Not so after servicers collided, when what the pointer leads to may be freed memory.
SettledVoiceIsServed ==
  \A i \in Indices :
    ~TailMayBeShadowed(i) =>
      (<>[](playhead = i /\ readable /\ ~collided) => <>[]Cached(published, i))

\* The place of the ring that was written k publications before place s.
Place(s, k) == IF s >= k THEN s - k ELSE s - k + Generations

\* Where the published state is kept while no two servicers are at work at once.
Alone == \A t, u \in Servicers : pc[t] \in Busy /\ pc[u] \in Busy => t = u

PublishedPlace ==
  /\ (\A t \in Servicers : pc[t] \notin {"advanced", "exposed"}) => published = owners[generation]
  /\ \A t \in Servicers :
       /\ pc[t] = "advanced" => published = owners[Place(generation, 1)]
       /\ pc[t] = "exposed" => published = built[t]
       /\ pc[t] \in {"asking", "reading"} => base[t] = published

\* Where the state is kept that the audio thread loaded age publications ago.
HeldPlace ==
  held # NoState =>
    /\ (\A t \in Servicers : pc[t] \notin {"advanced", "exposed"}) =>
         held = owners[Place(generation, age)]
    /\ \A t \in Servicers :
         /\ pc[t] = "advanced" => held = owners[Place(generation, age + 1)]
         /\ pc[t] = "exposed" => held = IF age = 0 THEN built[t] ELSE owners[Place(generation, age)]

\* The inductive invariant.
StreamInv == RingTypeOK /\ (~collided => Alone /\ PublishedPlace /\ HeldPlace)

=============================================================================
