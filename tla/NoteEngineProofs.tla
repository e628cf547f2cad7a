-------------------------- MODULE NoteEngineProofs --------------------------
(***************************************************************************)
(* For every number of voices, size of the queue, set of zones and control *)
(* settings: voices stay typed, choke groups exclusive, voices belong to   *)
(* the program of their block, a note-on is heard, releases keep their     *)
(* place in the queue, and no note is stuck in blocks the engine was       *)
(* prepared for.                                                           *)
(***************************************************************************)
EXTENDS NoteEngine, FiniteSetTheorems, SequenceTheorems, WellFoundedInduction, TLAPS

-----------------------------------------------------------------------------
(* Induction and recursion, without operator parameters.                   *)

\* Every non-empty set of natural numbers has a least element.
LEMMA Least ==
  ASSUME NEW M, M \subseteq Nat, M # {}
  PROVE  \E x \in M : \A y \in M : x <= y
<1> DEFINE R == OpToRel(<, Nat)
<1>1. \A x, y \in Nat : y < x => <<y, x>> \in R
  BY DEF OpToRel
<1>2. IsWellFoundedOn(R, Nat)
  BY NatLessThanWellFounded
<1> HIDE DEF R
<1>3. PICK x \in M : \A y \in M : ~(<<y, x>> \in R)
  BY <1>2, WFMin
<1>4. \A y \in M : y \in Nat /\ x \in Nat /\ ~(y < x)
  BY <1>1, <1>3
<1> QED
  BY <1>4

\* A set with 0 and every successor has all natural numbers.
LEMMA SetInduction ==
  ASSUME NEW T, 0 \in T, \A n \in Nat : n \in T => n + 1 \in T
  PROVE  Nat \subseteq T
<1> DEFINE M == {n \in Nat : n \notin T}
<1>1. CASE M # {}
  <2>1. PICK x \in M : \A y \in M : x <= y
    <3>1. M \subseteq Nat
      OBVIOUS
    <3> HIDE DEF M
    <3> QED BY <1>1, <3>1, Least
  <2>2. x \in Nat /\ x # 0 /\ x - 1 \in Nat /\ ~(x <= x - 1)
    OBVIOUS
  <2>3. x - 1 \notin M
    BY <2>1, <2>2
  <2> QED
    BY <2>2, <2>3
<1> QED
  BY <1>1

\* A sequence of values: each in the set of its place, each from the one before.
Steps(D, N, step) == \A k \in 1 .. N : \A x \in D[k - 1] : step[<<x, k>>] \in D[k]
Iterates(f, D, N, base, step) ==
  /\ f[0] = base
  /\ \A k \in 1 .. N : f[k] = step[<<f[k - 1], k>>]
  /\ \A k \in 0 .. N : f[k] \in D[k]

\* When every step from one set leads into the next, there is such a sequence.
LEMMA Iterate ==
  ASSUME NEW D, NEW N \in Nat, NEW base, base \in D[0], NEW step, Steps(D, N, step)
  PROVE  \E f : Iterates(f, D, N, base, step)
<1> DEFINE Run(m, f) == Iterates(f, D, m, base, step)
           T == {m \in Nat : m <= N => \E f : Run(m, f)}
<1> USE DEF Steps, Iterates
<1>1. \E f : Run(0, f)
  <2> DEFINE f == [k \in 0 .. 0 |-> base]
  <2>1. Run(0, f)
    OBVIOUS
  <2> HIDE DEF Run, Iterates
  <2> QED
    BY <2>1
<1>2. ASSUME NEW m \in Nat, m + 1 <= N, NEW f, Run(m, f)
      PROVE  \E g : Run(m + 1, g)
  <2> DEFINE next == step[<<f[m], m + 1>>]
             g == [k \in 0 .. m + 1 |-> IF k <= m THEN f[k] ELSE next]
  <2>2. f[m] \in D[m] /\ m + 1 \in 1 .. N /\ (m + 1) - 1 = m
    BY <1>2
  <2>3. next \in D[m + 1]
    BY <2>2
  <2> HIDE DEF next
  <2>4. g[m + 1] = next /\ \A k \in 0 .. m : g[k] = f[k]
    OBVIOUS
  <2> HIDE DEF g
  <2>5. \A k \in 0 .. m + 1 : g[k] \in D[k]
    BY <1>2, <2>3, <2>4
  <2>7. g[0] = base
    BY <1>2, <2>4
  <2>8. ASSUME NEW k \in 1 .. m + 1 PROVE g[k] = step[<<g[k - 1], k>>]
    <3>1. CASE k \in 1 .. m
      <4>1. k \in 0 .. m /\ k - 1 \in 0 .. m
        BY <3>1
      <4> QED BY <1>2, <2>4, <3>1, <4>1
    <3>2. CASE k = m + 1
      <4>1. k - 1 = m /\ m \in 0 .. m
        BY <3>2
      <4>2. g[k] = step[<<f[m], k>>] /\ g[k - 1] = f[m]
        BY <2>4, <3>2, <4>1 DEF next
      <4> QED BY <4>2
    <3> QED BY <3>1, <3>2
  <2>9. Run(m + 1, g)
    BY <2>5, <2>7, <2>8
  <2> HIDE DEF Run, Iterates
  <2> QED
    BY <2>9
<1> HIDE DEF Run, Steps, Iterates
<1>3. 0 \in T
  BY <1>1
<1>4. ASSUME NEW m \in Nat, m \in T PROVE m + 1 \in T
  BY <1>2, <1>4
<1>5. Nat \subseteq T
  <2> HIDE DEF T
  <2> QED BY <1>3, <1>4, SetInduction
<1>6. \E f : Run(N, f)
  BY <1>5
<1> QED
  BY <1>6 DEF Run

-----------------------------------------------------------------------------
(* The voices.                                                             *)

\* What a voice keeps whatever its place in the start order and its level.
Same(x, y) == /\ x.note = y.note /\ x.held = y.held /\ x.gate = y.gate /\ x.env = y.env
              /\ x.choke = y.choke /\ x.zone = y.zone /\ x.since = y.since

\* An array of voices before its start orders are made ranks.
Fresh == [note : Notes, held : BOOLEAN, gate : BOOLEAN, env : {"on", "release"}, choke : Nat,
          zone : BOOLEAN, since : SUBSET Snapshots, level : Levels, order : Nat]
Loose(limit) == {vs \in [Voices -> Fresh \cup {Silent}] :
            /\ \A v \in Active(vs) : v <= limit
            /\ \A v, w \in Active(vs) : vs[v].order = vs[w].order => v = w}

\* The slots of the pool are a finite set of MaxVoices, and so are their subsets.
LEMMA VoicesAreFinite ==
  /\ IsFiniteSet(Voices) /\ Cardinality(Voices) = MaxVoices
  /\ \A T \in SUBSET Voices : IsFiniteSet(T) /\ Cardinality(T) \in 0 .. MaxVoices
<1>1. MaxVoices \in Nat /\ 1 <= MaxVoices
  BY NoteAssumption
<1>2. IsFiniteSet(Voices) /\ Cardinality(Voices) = MaxVoices
  BY <1>1, FS_Interval DEF Voices
<1>3. ASSUME NEW T \in SUBSET Voices PROVE IsFiniteSet(T) /\ Cardinality(T) \in 0 .. MaxVoices
  <2>1. IsFiniteSet(T) /\ Cardinality(T) <= MaxVoices
    BY <1>2, FS_Subset
  <2>2. Cardinality(T) \in Nat
    BY <2>1, FS_CardinalityType
  <2> QED
    BY <1>1, <2>1, <2>2
<1> QED
  BY <1>2, <1>3

\* Ranks are start orders.
LEMMA PoolIsLoose == Pool \subseteq Loose(settings.limit)
BY DEF Pool, Arrays, Loose, Voice, Fresh, Voices, Silent

\* Only a silent voice has no note.
LEMMA VoiceFields ==
  ASSUME NEW limit, NEW vs \in Loose(limit), NEW v \in Voices
  PROVE  /\ v \in Active(vs) => vs[v] \in Fresh
         /\ v \notin Active(vs) => vs[v] = Silent
BY NoteAssumption DEF Loose, Active, Fresh, Silent

\* Start orders made ranks: the voices are the same, and their orders are distinct and in range.
LEMMA RankedPool ==
  ASSUME NEW limit, NEW vs \in Loose(limit)
  PROVE  /\ Ranked(vs) \in Arrays(limit)
         /\ Active(Ranked(vs)) = Active(vs)
         /\ \A v \in Voices : Same(Ranked(vs)[v], vs[v]) /\ (v \notin Active(vs) => Ranked(vs)[v] = Silent)
<1> DEFINE A == Active(vs)
           R(v) == {w \in A : vs[w].order <= vs[v].order}
           r == Ranked(vs)
<1>1. \A v \in A : vs[v] \in Fresh /\ vs[v].order \in Nat /\ v \in Voices /\ v \in R(v)
  BY VoiceFields DEF Active, Fresh
<1>2. ASSUME NEW v \in A PROVE IsFiniteSet(R(v)) /\ Cardinality(R(v)) \in Voices
  <2>1. R(v) \in SUBSET Voices /\ R(v) # {}
    BY <1>1
  <2>2. IsFiniteSet(R(v)) /\ Cardinality(R(v)) \in 0 .. MaxVoices /\ Cardinality(R(v)) # 0
    <3> HIDE DEF R
    <3> QED BY <2>1, VoicesAreFinite, FS_EmptySet
  <2> QED
    BY <2>2 DEF Voices
<1>3. \A v \in Voices : r[v] = IF v \in A THEN [vs[v] EXCEPT !.order = Cardinality(R(v))] ELSE Silent
  <2>1. \A v \in Voices : v \notin A => vs[v] = Silent
    BY VoiceFields
  <2> QED BY <2>1 DEF Ranked
<1>4. r = [v \in Voices |-> r[v]]
  BY DEF Ranked
<1> HIDE DEF r
<1>5. \A v \in A : r[v] \in Voice /\ r[v].note # None /\ r[v].order = Cardinality(R(v)) /\ Same(r[v], vs[v])
  <2> SUFFICES ASSUME NEW v \in A
               PROVE  r[v] \in Voice /\ r[v].note # None /\ r[v].order = Cardinality(R(v)) /\ Same(r[v], vs[v])
    OBVIOUS
  <2>1. vs[v] \in Fresh /\ Cardinality(R(v)) \in Voices
    BY <1>1, <1>2
  <2>2. r[v] = [vs[v] EXCEPT !.order = Cardinality(R(v))]
    BY <1>1, <1>3
  <2> HIDE DEF R, A
  <2> QED BY <2>1, <2>2, NoteAssumption DEF Fresh, Voice, Same
<1>6. \A v \in Voices : v \notin A => r[v] = Silent /\ vs[v] = Silent
  BY <1>3, VoiceFields
<1>7. Active(r) = A
  <2>1. \A v \in Voices : r[v].note # None <=> v \in A
    <3>1. Silent.note = None
      BY DEF Silent
    <3> HIDE DEF A
    <3> QED BY <1>5, <1>6, <3>1
  <2> QED
    BY <2>1 DEF Active
<1>8. ASSUME NEW v \in A, NEW w \in A, vs[v].order <= vs[w].order, Cardinality(R(v)) = Cardinality(R(w))
      PROVE  v = w
  <2>1. R(v) \in SUBSET R(w) /\ IsFiniteSet(R(w))
    <3>1. \A u \in A : vs[u].order <= vs[v].order => vs[u].order <= vs[w].order
      BY <1>1, <1>8
    <3> QED BY <1>2, <3>1
  <2>2. R(v) = R(w)
    <3> HIDE DEF R
    <3> QED BY <1>8, <2>1, FS_Subset
  <2>3. vs[w].order <= vs[v].order
    BY <1>1, <2>2
  <2>4. vs[v].order = vs[w].order
    BY <1>1, <1>8, <2>3
  <2> QED
    BY <2>4 DEF Loose
<1>9. \A v, w \in A : r[v].order = r[w].order => v = w
  <2> SUFFICES ASSUME NEW v \in A, NEW w \in A, r[v].order = r[w].order PROVE v = w
    OBVIOUS
  <2>1. Cardinality(R(v)) = Cardinality(R(w))
    BY <1>5
  <2>2. vs[v].order <= vs[w].order \/ vs[w].order <= vs[v].order
    BY <1>1
  <2> HIDE DEF R, A
  <2> QED BY <1>8, <2>1, <2>2
<1>10. r \in [Voices -> Voice \cup {Silent}]
  <2> HIDE DEF A, R
  <2>1. \A v \in Voices : r[v] \in Voice \cup {Silent}
    BY <1>5, <1>6
  <2> QED BY <1>4, <2>1
<1>11. \A v \in A : v <= limit
  BY DEF Loose
<1> QED
  <2>1. r \in Arrays(limit)
    BY <1>7, <1>9, <1>10, <1>11 DEF Pool, Arrays
  <2>2. \A v \in Voices : Same(r[v], vs[v]) /\ (v \notin A => r[v] = Silent)
    BY <1>5, <1>6 DEF Same
  <2> QED
    BY <1>7, <2>1, <2>2 DEF r

\* Some voices are silenced.
Thinned(ws, vs) == ws = [v \in Voices |-> ws[v]] /\ \A v \in Voices : ws[v] \in {vs[v], Silent}

\* Silencing voices leaves a pool, and no voice that was not there.
LEMMA ThinnedPool ==
  ASSUME NEW vs \in Pool, NEW ws, Thinned(ws, vs)
  PROVE  ws \in Pool /\ Active(ws) \subseteq Active(vs) /\ \A v \in Active(ws) : ws[v] = vs[v]
<1>1. Silent.note = None
  BY DEF Silent
<1>2. \A v \in Active(ws) : ws[v] = vs[v] /\ v \in Active(vs)
  BY <1>1 DEF Thinned, Active
<1>3. ws \in [Voices -> Voice \cup {Silent}]
  <2>1. \A v \in Voices : ws[v] \in Voice \cup {Silent}
    BY DEF Thinned, Pool, Arrays
  <2> QED
    BY <2>1 DEF Thinned
<1> QED
  BY <1>2, <1>3 DEF Pool, Arrays

\* stopNote(), stopChokeGroup() and stopAll() silence voices and do nothing else.
LEMMA SilencingThins ==
  ASSUME NEW vs \in Pool
  PROVE  /\ \A n : Thinned(StopNote(vs, n), vs) /\ \A v \in Voices : StopNote(vs, n)[v].note = n => n = None
         /\ \A group : Thinned(StopChoke(vs, group), vs)
         /\ \A zones : Thinned(ChokeAll(vs, zones), vs)
         /\ Thinned(StopAll, vs) /\ StopAll \in Pool /\ Active(StopAll) = {}
<1>1. Silent.note = None
  BY DEF Silent
<1>2. ASSUME NEW n
      PROVE  Thinned(StopNote(vs, n), vs) /\ \A v \in Voices : StopNote(vs, n)[v].note = n => n = None
  BY <1>1 DEF StopNote, Thinned
<1>3. \A group : Thinned(StopChoke(vs, group), vs)
  BY DEF StopChoke, Thinned
<1>4. \A zones : Thinned(ChokeAll(vs, zones), vs)
  BY DEF ChokeAll, Thinned
<1>5. Thinned(StopAll, vs) /\ Active(StopAll) = {}
  BY <1>1 DEF StopAll, Thinned, Active
<1>6. StopAll \in Pool
  BY <1>5, ThinnedPool
<1> QED
  BY <1>2, <1>3, <1>4, <1>5, <1>6

\* The slot a voice starts in is within the polyphony limit, free or stolen.
LEMMA SlotInLimit ==
  ASSUME NEW vs \in Pool, settings \in Settings
  PROVE  Slot(vs) \in Voices /\ Slot(vs) <= settings.limit
<1> DEFINE slots == 1 .. settings.limit
           free == {v \in slots : vs[v].note = None}
           quiet == {v \in slots : \A w \in slots : vs[v].level <= vs[w].level}
<1>1. settings.limit \in 1 .. MaxVoices /\ MaxVoices \in Nat
  BY NoteAssumption
<1>2. 1 \in slots /\ slots \subseteq Voices /\ slots \subseteq Nat
  BY <1>1 DEF Voices
<1>3. CASE free # {}
  <2>1. free \subseteq Nat
    BY <1>2
  <2> HIDE DEF free
  <2>2. \E v \in free : \A w \in free : v <= w
    BY <1>3, <2>1, Least
  <2>3. Slot(vs) = CHOOSE v \in free : \A w \in free : v <= w
    BY <1>3 DEF Slot, free
  <2>4. Slot(vs) \in free
    BY <2>2, <2>3
  <2> QED
    BY <1>1, <1>2, <2>4 DEF free
<1>4. CASE free = {}
  <2>1. \A v \in slots : vs[v] \in Voice
    BY <1>2, <1>4 DEF Pool, Arrays, Silent
  <2>2. \A v \in slots : vs[v].level \in Nat /\ vs[v].order \in Nat
    BY <1>1, <2>1 DEF Voice, Levels, Voices
  <2> DEFINE levels == {vs[v].level : v \in slots}
             orders == {vs[v].order : v \in quiet}
  <2>3. levels \subseteq Nat /\ levels # {}
    BY <1>2, <2>2
  <2>4. PICK l \in levels : \A m \in levels : l <= m
    <3> HIDE DEF levels
    <3> QED BY <2>3, Least
  <2>5. quiet # {}
    BY <2>4
  <2>6. orders \subseteq Nat /\ orders # {}
    BY <2>2, <2>5
  <2>7. PICK o \in orders : \A p \in orders : o <= p
    <3> HIDE DEF orders
    <3> QED BY <2>6, Least
  <2>8. \E v \in quiet : \A w \in quiet : vs[v].order <= vs[w].order
    <3> HIDE DEF quiet
    <3> QED BY <2>7
  <2>9. Slot(vs) = CHOOSE v \in quiet : \A w \in quiet : vs[v].order <= vs[w].order
    BY <1>4 DEF Slot
  <2>10. Slot(vs) \in quiet
    <3> HIDE DEF quiet
    <3> QED BY <2>8, <2>9
  <2> QED
    BY <1>1, <1>2, <2>10
<1> QED
  BY <1>3, <1>4

\* A voice as startVoice() leaves it, and one taken over.
Begun(x, n, zone) == /\ x.note = n /\ x.held /\ x.gate = zone.gate
                     /\ x.choke = zone.choke /\ x.zone = playing /\ x.since = fresh

\* Starting a zone changes the voice of one slot and no other.
LEMMA StartChangesOne ==
  ASSUME NEW vs \in Pool, NEW n \in Notes, NEW zone \in Zone,
         settings \in Settings, playing \in BOOLEAN, fresh \in SUBSET Snapshots
  PROVE  /\ Start(vs, n, zone) \in Pool
         /\ ~zone.audio => Start(vs, n, zone) = vs
         /\ zone.audio => \E s \in Voices :
              /\ Begun(Start(vs, n, zone)[s], n, zone) /\ Start(vs, n, zone)[s].env = "on"
              /\ \A v \in Voices \ {s} : /\ Same(Start(vs, n, zone)[v], vs[v])
                                         /\ v \notin Active(vs) => v \notin Active(Start(vs, n, zone))
<1>1. CASE ~zone.audio
  BY <1>1 DEF Start
<1>2. CASE zone.audio
  <2> DEFINE s == Slot(vs)
             new == [note |-> n, held |-> TRUE, gate |-> zone.gate, env |-> "on", choke |-> zone.choke,
                     zone |-> playing, since |-> fresh, level |-> 0, order |-> MaxVoices + 1]
             us == [vs EXCEPT ![s] = new]
  <2>1. Start(vs, n, zone) = Ranked(us)
    BY <1>2 DEF Start
  <2>2. s \in Voices /\ s <= settings.limit
    BY SlotInLimit
  <2>3. MaxVoices \in Nat
    BY NoteAssumption
  <2>4. /\ new \in Fresh /\ new.note = n /\ n # None /\ new.order = MaxVoices + 1 /\ Begun(new, n, zone)
        /\ new.env = "on"
    BY <2>3, NoteAssumption DEF Fresh, Zone, Levels, Begun
  <2> HIDE DEF new, s
  <2>5. /\ us = [v \in Voices |-> us[v]]
        /\ us[s] = new
        /\ \A v \in Voices \ {s} : us[v] = vs[v]
    BY <2>2 DEF Pool, Arrays
  <2> HIDE DEF us
  <2>6. vs \in Loose(settings.limit)
    BY PoolIsLoose
  <2>7. \A v \in Active(us) : v \in Voices /\ (v # s => v \in Active(vs) /\ us[v] = vs[v])
    BY <2>5 DEF Active
  <2>8. \A v \in Active(vs) : vs[v].order \in Voices
    BY NoteAssumption DEF Pool, Arrays, Active, Voice, Silent
  <2>9. \A v, w \in Active(us) : us[v].order = us[w].order => v = w
    <3> SUFFICES ASSUME NEW v \in Active(us), NEW w \in Active(us), us[v].order = us[w].order PROVE v = w
      OBVIOUS
    <3>1. CASE v # s /\ w # s
      BY <2>7, <3>1 DEF Pool, Arrays
    <3>2. CASE v # s /\ w = s
      <4>1. us[v].order \in Voices /\ us[w].order = MaxVoices + 1
        BY <2>4, <2>5, <2>7, <2>8, <3>2
      <4> QED BY <2>3, <4>1 DEF Voices
    <3>3. CASE v = s /\ w # s
      <4>1. us[w].order \in Voices /\ us[v].order = MaxVoices + 1
        BY <2>4, <2>5, <2>7, <2>8, <3>3
      <4> QED BY <2>3, <4>1 DEF Voices
    <3> QED
      BY <3>1, <3>2, <3>3
  <2>10. us \in Loose(settings.limit)
    <3>1. \A v \in Voices : us[v] \in Fresh \cup {Silent}
      BY <2>4, <2>5, <2>6 DEF Loose
    <3>2. us \in [Voices -> Fresh \cup {Silent}]
      BY <2>5, <3>1
    <3>3. \A v \in Active(us) : v <= settings.limit
      BY <2>2, <2>7 DEF Pool, Arrays
    <3> QED
      BY <2>9, <3>2, <3>3 DEF Loose
  <2>11. /\ Ranked(us) \in Pool /\ Active(Ranked(us)) = Active(us)
         /\ \A v \in Voices : Same(Ranked(us)[v], us[v])
    BY <2>10, RankedPool DEF Pool
  <2>12. Begun(Ranked(us)[s], n, zone) /\ Ranked(us)[s].env = "on"
    BY <2>2, <2>4, <2>5, <2>11 DEF Begun, Same
  <2>13. \A v \in Voices \ {s} : v \notin Active(vs) => v \notin Active(us)
    BY <2>7
  <2> QED
    BY <1>2, <2>1, <2>2, <2>5, <2>11, <2>12, <2>13
<1> QED
  BY <1>1, <1>2

\* The layers of a note lead from one set of arrays into the next.
LEMMA LayeredStaysIn ==
  ASSUME NEW vs, NEW n, NEW zones, NEW cut, Len(zones) \in Nat, NEW D, vs \in D[0],
         \A k \in 1 .. Len(zones) : \A x \in D[k - 1] : Start(IF cut THEN StopChoke(x, zones[k].choke) ELSE x, n, zones[k]) \in D[k]
  PROVE  Layered(vs, n, zones, cut) \in D[Len(zones)]
<1> DEFINE N == Len(zones)
           Layer(x, k) == Start(IF cut THEN StopChoke(x, zones[k].choke) ELSE x, n, zones[k])
           Is(f) == f = [k \in 0 .. N |-> IF k = 0 THEN vs ELSE Layer(f[k - 1], k)]
           after == CHOOSE f : Is(f)
<1>1. Layered(vs, n, zones, cut) = after[N]
  BY DEF Layered
<1>0. \A k \in 1 .. N : \A x \in D[k - 1] : Layer(x, k) \in D[k]
  OBVIOUS
<1> HIDE DEF Layer
<1>2. \E f : Is(f)
  <2> DEFINE U == UNION {D[k] : k \in 0 .. N}
             step == [p \in U \X (1 .. N) |-> Layer(p[1], p[2])]
  <2>1. \A k \in 1 .. N : \A x \in D[k - 1] : step[<<x, k>>] = Layer(x, k)
    OBVIOUS
  <2> HIDE DEF step
  <2>2. Steps(D, N, step)
    BY <1>0, <2>1 DEF Steps
  <2>3. PICK f : Iterates(f, D, N, vs, step)
    BY <2>2, Iterate
  <2> DEFINE g == [k \in 0 .. N |-> f[k]]
  <2>4. ASSUME NEW k \in 1 .. N PROVE f[k] = Layer(f[k - 1], k)
    <3>1. k - 1 \in 0 .. N
      OBVIOUS
    <3>2. f[k - 1] \in D[k - 1] /\ f[k] = step[<<f[k - 1], k>>]
      BY <2>3, <3>1 DEF Iterates
    <3> HIDE DEF N
    <3> QED BY <2>1, <3>2
  <2>5. \A k \in 0 .. N : g[k] = IF k = 0 THEN vs ELSE Layer(g[k - 1], k)
    BY <2>3, <2>4 DEF Iterates
  <2>6. Is(g)
    <3>1. g = [k \in 0 .. N |-> g[k]]
      OBVIOUS
    <3> HIDE DEF g, N
    <3> QED BY <2>5, <3>1
  <2> HIDE DEF Is
  <2> QED BY <2>6
<1>3. Is(after)
  <2> HIDE DEF Is
  <2> QED BY <1>2
<1> HIDE DEF after
<1>4. \A k \in 0 .. N : after[k] = IF k = 0 THEN vs ELSE Layer(after[k - 1], k)
  BY <1>3
<1> DEFINE T == {k \in Nat : k <= N => after[k] \in D[k]}
<1>5. 0 \in T
  BY <1>4
<1>6. ASSUME NEW k \in Nat, k \in T PROVE k + 1 \in T
  <2> SUFFICES ASSUME k + 1 <= N PROVE after[k + 1] \in D[k + 1]
    OBVIOUS
  <2>1. k + 1 \in 1 .. N /\ k + 1 \in 0 .. N /\ k + 1 # 0 /\ (k + 1) - 1 = k /\ after[k] \in D[k]
    BY <1>6
  <2> HIDE DEF T, N
  <2>2. after[k + 1] = Layer(after[k], k + 1)
    BY <1>4, <2>1
  <2> QED
    BY <1>0, <2>1, <2>2 DEF N
<1>7. Nat \subseteq T
  <2> HIDE DEF T
  <2> QED BY <1>5, <1>6, SetInduction
<1> QED
  BY <1>1, <1>7
\* Legato takes one sounding voice over and leaves the others as they are.
LEMMA RetargetChangesOne ==
  ASSUME NEW vs \in Pool, NEW s \in Active(vs), NEW n \in Notes, NEW zone \in Zone,
         playing \in BOOLEAN, fresh \in SUBSET Snapshots
  PROVE  /\ Retarget(vs, s, n, zone) \in Pool
         /\ ~zone.audio => Retarget(vs, s, n, zone) = vs
         /\ zone.audio => /\ Begun(Retarget(vs, s, n, zone)[s], n, zone)
                          /\ Retarget(vs, s, n, zone)[s].env = vs[s].env
         /\ \A v \in Voices \ {s} : Retarget(vs, s, n, zone)[v] = vs[v]
<1>1. CASE ~zone.audio
  BY <1>1 DEF Retarget
<1>2. CASE zone.audio
  <2> DEFINE ws == Retarget(vs, s, n, zone)
             new == [vs[s] EXCEPT !.note = n, !.held = TRUE, !.gate = zone.gate,
                                  !.choke = zone.choke, !.zone = playing, !.since = fresh]
  <2>1. s \in Voices /\ vs[s] \in Voice
    BY DEF Pool, Arrays, Active, Silent
  <2>2. /\ new \in Voice /\ Begun(new, n, zone) /\ new.note # None /\ new.order = vs[s].order
        /\ new.env = vs[s].env
    BY <2>1, NoteAssumption DEF Voice, Zone, Begun
  <2>3. ws = [vs EXCEPT ![s] = new]
    BY <1>2 DEF Retarget
  <2> HIDE DEF new, ws
  <2>4. /\ ws = [v \in Voices |-> ws[v]]
        /\ ws[s] = new
        /\ \A v \in Voices \ {s} : ws[v] = vs[v]
    BY <2>1, <2>3 DEF Pool, Arrays
  <2>5. \A v \in Voices : ws[v] \in Voice \cup {Silent}
    BY <2>2, <2>4 DEF Pool, Arrays
  <2>6. ws \in [Voices -> Voice \cup {Silent}]
    BY <2>4, <2>5
  <2>7. Active(ws) = Active(vs) /\ \A v \in Active(vs) : ws[v].order = vs[v].order
    BY <2>2, <2>4 DEF Active
  <2>8. ws \in Pool
    BY <2>6, <2>7 DEF Pool, Arrays
  <2> QED
    BY <1>2, <2>2, <2>4, <2>8 DEF ws
<1> QED
  BY <1>1, <1>2

\* The voice legato takes over is one that sounds.
LEMMA FirstIsActive ==
  ASSUME NEW vs, Active(vs) # {}
  PROVE  FirstActive(vs) \in Active(vs)
<1>1. Active(vs) \subseteq Nat
  BY NoteAssumption DEF Active, Voices
<1>2. \E v \in Active(vs) : \A w \in Active(vs) : v <= w
  BY <1>1, Least
<1> QED
  BY <1>2 DEF FirstActive

\* What a note-on leaves: voices of other notes outside its choke groups, as they were, and
\* voices of its own zones.
Struck(ws, vs, n, zones) ==
  \A v \in Active(ws) :
    \/ /\ v \in Active(vs) /\ Same(ws[v], vs[v]) /\ ws[v].note # n
       /\ ws[v].choke > 0 => \A i \in 1 .. Len(zones) : zones[i].choke # ws[v].choke
    \/ /\ ws[v].note = n /\ ws[v].zone = playing /\ ws[v].since = fresh
       /\ \E i \in 1 .. Len(zones) : zones[i].choke = ws[v].choke

\* The note sounds: a voice of it is held, and on, or was releasing when legato took it over.
Sounds(ws, vs, n) ==
  \E v \in Voices : /\ ws[v].note = n /\ ws[v].held
                   /\ (ws[v].env = "on" \/ (settings.mono /\ settings.legato /\ vs[v].env = "release"))

\* Starting one of the zones keeps that, and makes the note sound if the zone has a sample.
LEMMA StartStrikes ==
  ASSUME NEW vs, NEW n \in Notes, NEW zones \in Seq(Zone), NEW k \in 1 .. Len(zones),
         settings \in Settings, playing \in BOOLEAN, fresh \in SUBSET Snapshots,
         NEW ws \in Pool, Struck(ws, vs, n, zones)
  PROVE  /\ Start(ws, n, zones[k]) \in Pool
         /\ Struck(Start(ws, n, zones[k]), vs, n, zones)
         /\ zones[k].audio \/ Sounds(ws, vs, n) => Sounds(Start(ws, n, zones[k]), vs, n)
<1> DEFINE us == Start(ws, n, zones[k])
<1>1. zones[k] \in Zone
  BY ElementOfSeq
<1>2. us \in Pool /\ (~zones[k].audio => us = ws)
  BY <1>1, StartChangesOne
<1>3. CASE ~zones[k].audio
  BY <1>2, <1>3
<1>4. CASE zones[k].audio
  <2>1. PICK s \in Voices :
          /\ Begun(us[s], n, zones[k]) /\ us[s].env = "on"
          /\ \A v \in Voices \ {s} : Same(us[v], ws[v]) /\ (v \notin Active(ws) => v \notin Active(us))
    BY <1>1, <1>4, StartChangesOne
  <2> HIDE DEF us
  <2>2. Sounds(us, vs, n)
    BY <2>1 DEF Sounds, Begun
  <2>3. Struck(us, vs, n, zones)
    <3> SUFFICES ASSUME NEW v \in Active(us)
                 PROVE \/ /\ v \in Active(vs) /\ Same(us[v], vs[v]) /\ us[v].note # n
                          /\ us[v].choke > 0 => \A i \in 1 .. Len(zones) : zones[i].choke # us[v].choke
                       \/ /\ us[v].note = n /\ us[v].zone = playing /\ us[v].since = fresh
                          /\ \E i \in 1 .. Len(zones) : zones[i].choke = us[v].choke
      BY DEF Struck
    <3>1. CASE v = s
      BY <2>1, <3>1 DEF Begun
    <3>2. CASE v # s
      <4>1. v \in Voices /\ v \in Active(ws) /\ Same(us[v], ws[v])
        BY <2>1, <3>2 DEF Active
      <4> QED
        BY <4>1 DEF Struck, Same
    <3> QED
      BY <3>1, <3>2
  <2> QED
    BY <1>2, <2>2, <2>3 DEF us
<1> QED
  BY <1>3, <1>4

\* A note-on, poly, mono or legato, leaves what StartStrikes keeps, and sounds.
LEMMA NoteOnStrikes ==
  ASSUME NEW vs \in Pool, NEW n \in Notes, NEW zones \in Seq(Zone), zones # <<>>,
         settings \in Settings, playing \in BOOLEAN, fresh \in SUBSET Snapshots
  PROVE  /\ NoteOn(vs, n, zones) \in Pool
         /\ Struck(NoteOn(vs, n, zones), vs, n, zones)
         /\ zones[1].audio => Sounds(NoteOn(vs, n, zones), vs, n)
<1> DEFINE choked == ChokeAll(vs, zones)
           quiet == StopNote(choked, n)
<1>1. n # None /\ Len(zones) \in Nat /\ 1 \in 1 .. Len(zones)
  BY NoteAssumption, EmptySeq, LenProperties
<1>2. Thinned(choked, vs) /\ choked \in Pool /\ Active(choked) \subseteq Active(vs)
      /\ \A v \in Active(choked) : choked[v] = vs[v]
  BY SilencingThins, ThinnedPool
<1>3. /\ quiet \in Pool /\ Active(quiet) \subseteq Active(choked)
      /\ \A v \in Active(quiet) : quiet[v] = choked[v]
      /\ \A v \in Voices : quiet[v].note # n
  BY <1>1, <1>2, SilencingThins, ThinnedPool
<1>4. \A v \in Active(choked) : choked[v].choke > 0 => \A i \in 1 .. Len(zones) : zones[i].choke # choked[v].choke
  <2>1. Silent.note = None
    BY DEF Silent
  <2> QED
    BY <2>1 DEF ChokeAll, Active
<1> HIDE DEF choked, quiet
<1>5. Struck(quiet, vs, n, zones)
  <2>1. \A v \in Active(quiet) : v \in Voices /\ v \in Active(choked) /\ quiet[v] = vs[v] /\ quiet[v] = choked[v]
    BY <1>2, <1>3 DEF Active
  <2> QED
    BY <1>2, <1>3, <1>4, <2>1 DEF Struck, Same
<1>6. CASE ~settings.mono
  <2> DEFINE D == [k \in 0 .. Len(zones) |->
               {ws \in Pool : Struck(ws, vs, n, zones) /\ (k > 0 /\ zones[1].audio => Sounds(ws, vs, n))}]
  <2>1. quiet \in D[0]
    BY <1>1, <1>3, <1>5
  <2>2. ASSUME NEW k \in 1 .. Len(zones), NEW x \in D[k - 1] PROVE Start(x, n, zones[k]) \in D[k]
    <3>1. /\ k - 1 \in 0 .. Len(zones) /\ k \in 0 .. Len(zones) /\ (k - 1 > 0 \/ k = 1)
      BY <1>1
    <3>2. x \in Pool /\ Struck(x, vs, n, zones) /\ (k - 1 > 0 /\ zones[1].audio => Sounds(x, vs, n))
      BY <2>2, <3>1
    <3>3. /\ Start(x, n, zones[k]) \in Pool
          /\ Struck(Start(x, n, zones[k]), vs, n, zones)
          /\ zones[k].audio \/ Sounds(x, vs, n) => Sounds(Start(x, n, zones[k]), vs, n)
      BY <3>2, StartStrikes
    <3>4. zones[1].audio => Sounds(Start(x, n, zones[k]), vs, n)
      BY <3>1, <3>2, <3>3
    <3> QED
      BY <3>1, <3>3, <3>4
  <2>3. Layered(quiet, n, zones, FALSE) \in D[Len(zones)]
    <3> HIDE DEF D
    <3>1. \A k \in 1 .. Len(zones) : \A x \in D[k - 1] :
            Start(IF FALSE THEN StopChoke(x, zones[k].choke) ELSE x, n, zones[k]) \in D[k]
      BY <2>2
    <3> QED
      BY <1>1, <2>1, <3>1, LayeredStaysIn
  <2>4. NoteOn(vs, n, zones) = Layered(quiet, n, zones, FALSE)
    BY <1>6 DEF NoteOn, quiet, choked
  <2>5. Len(zones) \in 0 .. Len(zones) /\ Len(zones) > 0
    BY <1>1
  <2>6. D[Len(zones)] = {ws \in Pool : Struck(ws, vs, n, zones) /\ (Len(zones) > 0 /\ zones[1].audio => Sounds(ws, vs, n))}
    BY <2>5
  <2> HIDE DEF D
  <2>7. NoteOn(vs, n, zones) \in {ws \in Pool : Struck(ws, vs, n, zones) /\ (Len(zones) > 0 /\ zones[1].audio => Sounds(ws, vs, n))}
    BY <2>3, <2>4, <2>6
  <2> QED
    BY <2>5, <2>7
<1>7. CASE settings.mono /\ settings.legato /\ Active(quiet) # {}
  <2> DEFINE s == FirstActive(quiet)
             ws == Retarget(quiet, s, n, zones[1])
  <2>1. s \in Active(quiet) /\ s \in Voices
    BY <1>7, FirstIsActive DEF Active
  <2>2. zones[1] \in Zone
    BY <1>1, ElementOfSeq
  <2> HIDE DEF s
  <2>3. /\ ws \in Pool
        /\ ~zones[1].audio => ws = quiet
        /\ zones[1].audio => Begun(ws[s], n, zones[1]) /\ ws[s].env = quiet[s].env
        /\ \A v \in Voices \ {s} : ws[v] = quiet[v]
    BY <1>3, <2>1, <2>2, RetargetChangesOne
  <2> HIDE DEF ws
  <2>6. NoteOn(vs, n, zones) = ws
    BY <1>7 DEF NoteOn, quiet, choked, ws, s
  <2>4. CASE ~zones[1].audio
    BY <1>5, <2>3, <2>4, <2>6
  <2>5. CASE zones[1].audio
    <3>1. Struck(ws, vs, n, zones)
      <4> SUFFICES ASSUME NEW v \in Active(ws)
                   PROVE \/ /\ v \in Active(vs) /\ Same(ws[v], vs[v]) /\ ws[v].note # n
                            /\ ws[v].choke > 0 => \A i \in 1 .. Len(zones) : zones[i].choke # ws[v].choke
                         \/ /\ ws[v].note = n /\ ws[v].zone = playing /\ ws[v].since = fresh
                            /\ \E i \in 1 .. Len(zones) : zones[i].choke = ws[v].choke
        BY DEF Struck
      <4>1. CASE v = s
        BY <1>1, <2>3, <2>5, <4>1 DEF Begun
      <4>2. CASE v # s
        <5>1. ws[v] = quiet[v] /\ v \in Active(quiet)
          BY <2>3, <4>2 DEF Active
        <5> QED
          BY <1>5, <5>1 DEF Struck
      <4> QED
        BY <4>1, <4>2
    <3>2. Sounds(ws, vs, n)
      <4>1. s \in Active(vs) /\ quiet[s] = vs[s]
        BY <1>2, <1>3, <2>1
      <4>2. vs[s].env \in {"on", "release"}
        BY <4>1 DEF Active, Pool, Arrays, Voice, Silent
      <4> QED
        BY <1>7, <2>1, <2>3, <2>5, <4>1, <4>2 DEF Sounds, Begun
    <3> QED
      BY <2>3, <2>5, <2>6, <3>1, <3>2
  <2> QED
    BY <2>4, <2>5
<1>8. CASE settings.mono /\ ~(settings.legato /\ Active(quiet) # {})
  <2>1. StopAll \in Pool /\ Active(StopAll) = {}
    BY SilencingThins
  <2>2. Struck(StopAll, vs, n, zones)
    BY <2>1 DEF Struck
  <2>3. /\ Start(StopAll, n, zones[1]) \in Pool
        /\ Struck(Start(StopAll, n, zones[1]), vs, n, zones)
        /\ zones[1].audio => Sounds(Start(StopAll, n, zones[1]), vs, n)
    BY <1>1, <2>1, <2>2, StartStrikes
  <2>4. NoteOn(vs, n, zones) = Start(StopAll, n, zones[1])
    BY <1>8 DEF NoteOn, quiet, choked
  <2> QED
    BY <2>3, <2>4
<1> QED
  BY <1>6, <1>7, <1>8

Exclusive(vs) ==
  \A v, w \in Active(vs) : vs[v].choke > 0 /\ vs[v].choke = vs[w].choke => vs[v].note = vs[w].note

\* A voice goes on, held or not any more.
Continues(x, y) == /\ x.note = y.note /\ x.gate = y.gate /\ x.choke = y.choke /\ x.zone = y.zone
                   /\ (x.held => y.held) /\ x.since \subseteq y.since \cup fresh'

\* What a note-off leaves: voices that go on, none of the note waiting for it, and release voices.
Relieved(ws, vs, n) ==
  \A v \in Active(ws) :
    \/ v \in Active(vs) /\ Continues(ws[v], vs[v]) /\ ~(ws[v].note = n /\ ws[v].gate /\ ws[v].held)
    \/ ws[v].note = n /\ ~ws[v].gate /\ ws[v].zone = playing /\ ws[v].since = fresh

\* releaseVoicesForNote() changes no choke group and leaves no voice waiting for the note.
LEMMA ReleasedPool ==
  ASSUME NEW vs \in Pool, NEW n \in Notes
  PROVE  /\ Released(vs, n) \in Pool
         /\ Relieved(Released(vs, n), vs, n)
         /\ Exclusive(vs) => Exclusive(Released(vs, n))
<1> DEFINE ws == Released(vs, n)
<1>1. /\ ws = [v \in Voices |-> ws[v]]
      /\ \A v \in Voices : ws[v] = IF vs[v].note = n /\ vs[v].gate
                                   THEN [vs[v] EXCEPT !.held = FALSE, !.env = "release"] ELSE vs[v]
  BY DEF Released
<1> HIDE DEF ws
<1>2. n # None /\ Silent.note = None
  BY NoteAssumption DEF Silent
<1>3. ASSUME NEW v \in Voices
      PROVE  /\ ws[v] \in Voice \cup {Silent} /\ ws[v].note = vs[v].note /\ ws[v].order = vs[v].order
             /\ ws[v].note # None => /\ Continues(ws[v], vs[v])
                                     /\ ~(ws[v].note = n /\ ws[v].gate /\ ws[v].held)
  <2>1. CASE vs[v].note = n /\ vs[v].gate
    <3>1. vs[v] \in Voice
      BY <1>2, <2>1 DEF Pool, Arrays
    <3>2. ws[v] = [vs[v] EXCEPT !.held = FALSE, !.env = "release"]
      BY <1>1, <2>1
    <3> QED
      BY <3>1, <3>2 DEF Voice, Continues
  <2>2. CASE ~(vs[v].note = n /\ vs[v].gate)
    <3>1. ws[v] = vs[v]
      BY <1>1, <2>2
    <3> QED
      BY <2>2, <3>1 DEF Pool, Arrays, Continues
  <2> QED
    BY <2>1, <2>2
<1>4. Active(ws) = Active(vs) /\ Active(ws) \subseteq Voices
  BY <1>3 DEF Active
<1>5. ws \in Pool
  <2>1. ws \in [Voices -> Voice \cup {Silent}]
    BY <1>1, <1>3
  <2> QED
    BY <1>3, <1>4, <2>1 DEF Pool, Arrays
<1>6. \A v \in Active(ws) : v \in Active(vs) /\ v \in Voices /\ ws[v].note # None
  BY <1>4 DEF Active
<1>7. Relieved(ws, vs, n)
  BY <1>3, <1>6 DEF Relieved
<1>8. Exclusive(vs) => Exclusive(ws)
  BY <1>3, <1>4, <1>6 DEF Exclusive, Continues
<1> QED
  BY <1>5, <1>7, <1>8 DEF ws

\* A release zone that starts keeps that.
LEMMA StartRelieves ==
  ASSUME NEW vs, NEW n \in Notes, NEW zone \in Zone, ~zone.gate,
         settings \in Settings, playing \in BOOLEAN, fresh \in SUBSET Snapshots,
         NEW ws \in Pool, Relieved(ws, vs, n), NEW exclusive \in BOOLEAN, exclusive => Exclusive(ws)
  PROVE  /\ Start(StopChoke(ws, zone.choke), n, zone) \in Pool
         /\ Relieved(Start(StopChoke(ws, zone.choke), n, zone), vs, n)
         /\ exclusive => Exclusive(Start(StopChoke(ws, zone.choke), n, zone))
<1> DEFINE xs == StopChoke(ws, zone.choke)
           us == Start(xs, n, zone)
<1>1. xs \in Pool /\ Active(xs) \subseteq Active(ws) /\ \A v \in Active(xs) : xs[v] = ws[v]
  BY SilencingThins, ThinnedPool
<1>2. \A v \in Active(xs) : zone.choke > 0 => xs[v].choke # zone.choke
  <2>1. Silent.note = None
    BY DEF Silent
  <2> QED
    BY <2>1 DEF StopChoke, Active
<1> HIDE DEF xs
<1>3. Relieved(xs, vs, n) /\ (exclusive => Exclusive(xs))
  BY <1>1 DEF Relieved, Exclusive
<1>4. us \in Pool /\ (~zone.audio => us = xs)
  BY <1>1, StartChangesOne
<1>5. CASE ~zone.audio
  BY <1>3, <1>4, <1>5 DEF xs
<1>6. CASE zone.audio
  <2>1. PICK s \in Voices :
          /\ Begun(us[s], n, zone)
          /\ \A v \in Voices \ {s} : Same(us[v], xs[v]) /\ (v \notin Active(xs) => v \notin Active(us))
    BY <1>1, <1>6, StartChangesOne
  <2> HIDE DEF us
  <2>2. \A v \in Active(us) : v # s => v \in Active(xs) /\ Same(us[v], xs[v])
    BY <2>1 DEF Active
  <2>3. Relieved(us, vs, n)
    <3> SUFFICES ASSUME NEW v \in Active(us)
                 PROVE \/ /\ v \in Active(vs) /\ Continues(us[v], vs[v])
                          /\ ~(us[v].note = n /\ us[v].gate /\ us[v].held)
                       \/ us[v].note = n /\ ~us[v].gate /\ us[v].zone = playing /\ us[v].since = fresh
      BY DEF Relieved
    <3>1. CASE v = s
      BY <2>1, <3>1 DEF Begun
    <3>2. CASE v # s
      <4>1. v \in Active(xs) /\ Same(us[v], xs[v])
        BY <2>2, <3>2
      <4> QED
        BY <1>3, <4>1 DEF Relieved, Same, Continues
    <3> QED
      BY <3>1, <3>2
  <2>4. exclusive => Exclusive(us)
    <3> SUFFICES ASSUME Exclusive(xs), NEW v \in Active(us), NEW w \in Active(us),
                        us[v].choke > 0, us[v].choke = us[w].choke
                 PROVE  us[v].note = us[w].note
      BY <1>3 DEF Exclusive
    <3>1. CASE v = s /\ w = s
      BY <3>1
    <3>2. CASE v = s /\ w # s
      BY <1>2, <2>1, <2>2, <3>2 DEF Begun, Same
    <3>3. CASE v # s /\ w = s
      BY <1>2, <2>1, <2>2, <3>3 DEF Begun, Same
    <3>4. CASE v # s /\ w # s
      BY <2>2, <3>4 DEF Exclusive, Same
    <3> QED
      BY <3>1, <3>2, <3>3, <3>4
  <2> QED
    BY <1>4, <2>3, <2>4 DEF us, xs
<1> QED
  BY <1>5, <1>6

\* A note-off with all its release zones, which never wait for a note-off themselves.
LEMMA NoteOffRelieves ==
  ASSUME NEW vs \in Pool, NEW n \in Notes, NEW zones \in Seq(Zone),
         \A i \in 1 .. Len(zones) : ~zones[i].gate, settings \in Settings, playing \in BOOLEAN, fresh \in SUBSET Snapshots
  PROVE  /\ NoteOff(vs, n, zones) \in Pool
         /\ Relieved(NoteOff(vs, n, zones), vs, n)
         /\ Exclusive(vs) => Exclusive(NoteOff(vs, n, zones))
<1> DEFINE good == {ws \in Pool : Relieved(ws, vs, n) /\ (Exclusive(vs) => Exclusive(ws))}
           D == [k \in 0 .. Len(zones) |-> good]
<1>1. Len(zones) \in Nat
  BY LenProperties
<1>2. \A k \in 0 .. Len(zones) : D[k] = good
  OBVIOUS
<1>3. Released(vs, n) \in D[0]
  BY <1>1, ReleasedPool
<1>4. ASSUME NEW k \in 1 .. Len(zones), NEW x \in D[k - 1]
      PROVE  Start(StopChoke(x, zones[k].choke), n, zones[k]) \in D[k]
  <2>1. k - 1 \in 0 .. Len(zones) /\ k \in 0 .. Len(zones) /\ zones[k] \in Zone /\ ~zones[k].gate
    BY <1>1, ElementOfSeq
  <2>2. x \in Pool /\ Relieved(x, vs, n) /\ (Exclusive(vs) => Exclusive(x)) /\ Exclusive(vs) \in BOOLEAN
    BY <1>2, <1>4, <2>1 DEF Exclusive
  <2>3. /\ Start(StopChoke(x, zones[k].choke), n, zones[k]) \in Pool
        /\ Relieved(Start(StopChoke(x, zones[k].choke), n, zones[k]), vs, n)
        /\ Exclusive(vs) => Exclusive(Start(StopChoke(x, zones[k].choke), n, zones[k]))
    BY <2>1, <2>2, StartRelieves
  <2> QED
    BY <1>2, <2>1, <2>3
<1>5. NoteOff(vs, n, zones) \in D[Len(zones)]
  <2>1. \A k \in 1 .. Len(zones) : \A x \in D[k - 1] :
          Start(IF TRUE THEN StopChoke(x, zones[k].choke) ELSE x, n, zones[k]) \in D[k]
    BY <1>4
  <2> HIDE DEF D
  <2>2. Layered(Released(vs, n), n, zones, TRUE) \in D[Len(zones)]
    BY <1>1, <1>3, <2>1, LayeredStaysIn
  <2> QED
    BY <2>2 DEF NoteOff
<1>6. D[Len(zones)] = good
  BY <1>1
<1> HIDE DEF D
<1> QED
  BY <1>5, <1>6

\* While a segment is rendered, voices go on or end.
LEMMA SegmentContinues ==
  ASSUME NEW vs \in Pool, NEW after, after = [v \in Voices |-> after[v]],
         \A v \in Voices : after[v] \in IF v \in Active(vs) THEN Sounded(vs[v]) ELSE {Silent}
  PROVE  /\ Ranked(after) \in Pool
         /\ \A v \in Active(Ranked(after)) : v \in Active(vs) /\ Continues(Ranked(after)[v], vs[v])
<1>1. Silent.note = None
  BY DEF Silent
<1>2. \A v \in Active(vs) : v \in Voices /\ vs[v] \in Voice
  BY <1>1 DEF Pool, Arrays, Active
<1>3. ASSUME NEW x \in Voice, NEW y \in Sounded(x)
      PROVE  y = Silent \/ (y \in Voice /\ y.note # None /\ Continues(y, x) /\ y.order = x.order)
  <2>1. CASE \E l \in Levels : y = [x EXCEPT !.level = l]
    BY <2>1, NoteAssumption DEF Voice, Continues
  <2>2. CASE y = Silent
    BY <2>2
  <2>3. CASE \E l \in Levels : y = [x EXCEPT !.level = l, !.held = FALSE, !.env = "release"]
    <3>1. PICK l \in Levels : y = [x EXCEPT !.level = l, !.held = FALSE, !.env = "release"]
      BY <2>3
    <3>2. y \in Voice
      BY <3>1 DEF Voice
    <3>3. /\ y.note = x.note /\ y.gate = x.gate /\ y.choke = x.choke /\ y.zone = x.zone
          /\ y.since = x.since /\ y.order = x.order
      BY <3>1 DEF Voice
    <3>4. ~y.held /\ x.note # None
      BY <3>1, NoteAssumption DEF Voice
    <3> QED
      BY <3>2, <3>3, <3>4 DEF Continues
  <2> QED
    BY <1>3, <2>1, <2>2, <2>3 DEF Sounded
<1>4. \A v \in Active(after) :
        /\ v \in Active(vs) /\ v \in Voices /\ after[v] \in Voice
        /\ Continues(after[v], vs[v]) /\ after[v].order = vs[v].order
  <2> SUFFICES ASSUME NEW v \in Active(after)
               PROVE  /\ v \in Active(vs) /\ v \in Voices /\ after[v] \in Voice
                      /\ Continues(after[v], vs[v]) /\ after[v].order = vs[v].order
    OBVIOUS
  <2>1. v \in Voices /\ after[v].note # None
    BY DEF Active
  <2>2. v \in Active(vs) /\ after[v] \in Sounded(vs[v])
    BY <1>1, <2>1
  <2> QED
    BY <1>1, <1>2, <1>3, <2>1, <2>2
<1>5. after \in Pool
  <2>1. ASSUME NEW v \in Voices PROVE after[v] \in Voice \cup {Silent}
    <3>1. CASE v \in Active(vs)
      BY <1>2, <1>3, <3>1
    <3>2. CASE v \notin Active(vs)
      BY <3>2
    <3> QED
      BY <3>1, <3>2
  <2>2. after \in [Voices -> Voice \cup {Silent}]
    BY <2>1
  <2>3. \A v \in Active(after) : v <= settings.limit
    BY <1>4 DEF Pool, Arrays
  <2>4. \A v, w \in Active(after) : after[v].order = after[w].order => v = w
    BY <1>4 DEF Pool, Arrays
  <2> QED
    BY <2>2, <2>3, <2>4 DEF Pool, Arrays
<1>6. /\ Ranked(after) \in Pool /\ Active(Ranked(after)) = Active(after)
      /\ \A v \in Voices : Same(Ranked(after)[v], after[v])
  BY <1>5, PoolIsLoose, RankedPool DEF Pool
<1> QED
  BY <1>4, <1>6 DEF Same, Continues

-----------------------------------------------------------------------------
(* The queue.                                                              *)

\* An event taken out of the queue: those behind it move up.
LEMMA WithoutProperties ==
  ASSUME NEW S, NEW q \in Seq(S), NEW i \in 1 .. Len(q)
  PROVE  /\ Without(q, i) \in Seq(S) /\ Len(Without(q, i)) = Len(q) - 1 /\ Len(q) \in Nat
         /\ \A k \in 1 .. Len(q) - 1 : Without(q, i)[k] = IF k < i THEN q[k] ELSE q[k + 1]
<1> DEFINE n == Len(q)
           front == SubSeq(q, 1, i - 1)
           back == SubSeq(q, i + 1, n)
<1>1. n \in Nat /\ i \in 1 .. n /\ \A k \in 1 .. n : q[k] \in S
  BY LenProperties, ElementOfSeq
<1> HIDE DEF n
<1>2. /\ front \in Seq(S) /\ Len(front) = i - 1
      /\ \A k \in 1 .. i - 1 : front[k] = q[k]
  <2>1. \A k \in 1 .. i - 1 : q[k] \in S
    BY <1>1
  <2>2. /\ front \in Seq(S)
        /\ Len(front) = IF 1 <= i - 1 THEN (i - 1) - 1 + 1 ELSE 0
        /\ \A k \in 1 .. (i - 1) - 1 + 1 : front[k] = q[1 + k - 1]
    BY <1>1, <2>1, SubSeqProperties
  <2> HIDE DEF front
  <2> QED
    BY <1>1, <2>2
<1>3. /\ back \in Seq(S) /\ Len(back) = n - i
      /\ \A k \in 1 .. n - i : back[k] = q[i + k]
  <2>1. \A k \in i + 1 .. n : q[k] \in S
    BY <1>1
  <2>2. /\ back \in Seq(S)
        /\ Len(back) = IF i + 1 <= n THEN n - (i + 1) + 1 ELSE 0
        /\ \A k \in 1 .. n - (i + 1) + 1 : back[k] = q[(i + 1) + k - 1]
    BY <1>1, <2>1, SubSeqProperties
  <2> HIDE DEF back
  <2> QED
    BY <1>1, <2>2
<1> HIDE DEF front, back
<1>4. /\ front \o back \in Seq(S) /\ Len(front \o back) = Len(front) + Len(back)
      /\ \A k \in 1 .. Len(front) + Len(back) :
           (front \o back)[k] = IF k <= Len(front) THEN front[k] ELSE back[k - Len(front)]
  BY <1>2, <1>3, ConcatProperties
<1>5. Without(q, i) = front \o back
  BY DEF Without, front, back, n
<1>6. ASSUME NEW k \in 1 .. n - 1 PROVE (front \o back)[k] = IF k < i THEN q[k] ELSE q[k + 1]
  <2>1. CASE k < i
    BY <1>1, <1>2, <1>3, <1>4, <2>1
  <2>2. CASE ~(k < i)
    <3>1. k - (i - 1) \in 1 .. n - i /\ i + (k - (i - 1)) = k + 1
      BY <1>1, <2>2
    <3>2. (front \o back)[k] = back[k - (i - 1)]
      BY <1>1, <1>2, <1>3, <1>4, <2>2
    <3> QED
      BY <1>3, <2>2, <3>1, <3>2
  <2> QED
    BY <2>1, <2>2
<1>7. Len(front \o back) = n - 1
  BY <1>1, <1>2, <1>3, <1>4
<1> QED
  BY <1>1, <1>4, <1>5, <1>6, <1>7 DEF n

\* The newest event that is no release is one, and only releases come behind it.
LEMMA NewestIsPlain ==
  ASSUME NEW q, Len(q) \in Nat, Plain(q) # {}
  PROVE  Newest(q) \in Plain(q) /\ \A j \in Plain(q) : j <= Newest(q)
<1> DEFINE M == {Len(q) - i : i \in Plain(q)}
<1>1. M \subseteq Nat /\ M # {} /\ Plain(q) \subseteq Int
  BY DEF Plain
<1>2. PICK m \in M : \A k \in M : m <= k
  <2> HIDE DEF M
  <2> QED BY <1>1, Least
<1>3. PICK i \in Plain(q) : m = Len(q) - i
  OBVIOUS
<1>4. ASSUME NEW j \in Plain(q) PROVE j <= i
  <2>1. m <= Len(q) - j
    BY <1>2
  <2> QED
    BY <1>1, <1>3, <2>1
<1> QED
  BY <1>4 DEF Newest

\* What enqueuePendingEvent() does to a queue of the capacity.
LEMMA EnqueueKeepsCapacity ==
  ASSUME queue \in Seq(Event), Len(queue) <= Capacity, recovery \in BOOLEAN,
         NEW e \in Event, Enqueue(e)
  PROVE  /\ queue' \in Seq(Event) /\ Len(queue') \in Len(queue) .. Capacity
         /\ recovery' \in BOOLEAN
<1>1. Capacity \in Nat /\ Reserve \in 0 .. Capacity /\ Len(queue) \in Nat
  BY NoteAssumption, LenProperties
<1>2. CASE UNCHANGED queue /\ (recovery' = TRUE \/ UNCHANGED recovery)
  <2>1. recovery' \in BOOLEAN
    BY <1>2
  <2>2. queue' = queue
    BY <1>2
  <2>3. Len(queue) \in Len(queue) .. Capacity
    BY <1>1
  <2> QED
    BY <2>1, <2>2, <2>3
<1>3. CASE /\ Len(queue) < (IF IsSafety(e) THEN Capacity ELSE Capacity - Reserve)
           /\ queue' = Append(queue, e) /\ UNCHANGED recovery
  <2>1. queue' \in Seq(Event) /\ Len(queue') = Len(queue) + 1
    BY <1>3, AppendProperties
  <2> QED
    BY <1>1, <1>3, <2>1
<1>4. CASE /\ Plain(queue) # {}
           /\ queue' = Append(Without(queue, Newest(queue)), e) /\ UNCHANGED recovery
  <2>1. Newest(queue) \in 1 .. Len(queue)
    BY <1>1, <1>4, NewestIsPlain DEF Plain
  <2>2. Without(queue, Newest(queue)) \in Seq(Event) /\ Len(Without(queue, Newest(queue))) = Len(queue) - 1
    BY <2>1, WithoutProperties
  <2>3. queue' \in Seq(Event) /\ Len(queue') = Len(queue) - 1 + 1
    BY <1>4, <2>2, AppendProperties
  <2> QED
    BY <1>1, <1>4, <2>3
<1> QED
  BY <1>2, <1>3, <1>4 DEF Enqueue

\* Every place of the sorted queue is taken by one event.
LEMMA RanksAreUnique ==
  ASSUME NEW q \in Seq(Event)
  PROVE  /\ \A i, j \in 1 .. Len(q) : Rank(q, i) = Rank(q, j) => i = j
         /\ \A k \in 1 .. Len(q) : \E i \in 1 .. Len(q) : Rank(q, i) = k - 1
<1> DEFINE n == Len(q)
           places == 1 .. n
           B(i) == {j \in places : Before(q, j, i)}
<1>1. n \in Nat /\ \A i \in places : q[i].offset \in Nat
  <2>1. \A i \in places : q[i] \in Event
    BY ElementOfSeq
  <2> QED
    BY <2>1, LenProperties DEF Event
<1> HIDE DEF n
<1>2. IsFiniteSet(places) /\ Cardinality(places) = n
  BY <1>1, FS_Interval
<1>3. ASSUME NEW i \in places
      PROVE  IsFiniteSet(B(i)) /\ Cardinality(B(i)) \in 0 .. n - 1 /\ Rank(q, i) = Cardinality(B(i)) /\ i \notin B(i)
  <2>1. B(i) \in SUBSET places /\ i \notin B(i)
    BY <1>1 DEF Before
  <2>2. IsFiniteSet(places \ {i}) /\ Cardinality(places \ {i}) = n - 1
    BY <1>2, FS_RemoveElement
  <2>3. B(i) \in SUBSET (places \ {i})
    BY <2>1
  <2>4. IsFiniteSet(B(i)) /\ Cardinality(B(i)) <= n - 1
    <3> HIDE DEF B, places
    <3> QED BY <2>2, <2>3, FS_Subset
  <2>5. Cardinality(B(i)) \in Nat
    BY <2>4, FS_CardinalityType
  <2>6. Rank(q, i) = Cardinality(B(i))
    BY DEF Rank, n
  <2> QED
    BY <1>1, <2>1, <2>4, <2>5, <2>6
<1>4. ASSUME NEW i \in places, NEW j \in places, Before(q, i, j), Cardinality(B(i)) = Cardinality(B(j))
      PROVE  FALSE
  <2>1. B(i) \in SUBSET B(j)
    BY <1>1, <1>4 DEF Before
  <2>2. B(i) = B(j)
    <3> HIDE DEF B
    <3> QED BY <1>3, <1>4, <2>1, FS_Subset
  <2>3. i \in B(j)
    BY <1>4
  <2> QED
    BY <1>3, <2>2, <2>3
<1>5. \A i, j \in places : i # j => Before(q, i, j) \/ Before(q, j, i)
  BY <1>1 DEF Before
<1>6. \A i, j \in places : Rank(q, i) = Rank(q, j) => i = j
  <2> HIDE DEF B
  <2> QED BY <1>3, <1>4, <1>5
<1>7. \A i \in places : Rank(q, i) \in 0 .. n - 1
  <2> HIDE DEF B
  <2> QED BY <1>3
<1> HIDE DEF B
<1> DEFINE f == [i \in places |-> Rank(q, i) + 1]
<1>8. /\ f \in [places -> places]
      /\ \A i \in places : f[i] = Rank(q, i) + 1
      /\ \A i, j \in places : f[i] = f[j] => i = j
  <2>1. \A i \in places : Rank(q, i) + 1 \in places /\ Rank(q, i) \in Int
    BY <1>1, <1>7
  <2> HIDE DEF places
  <2> QED BY <1>6, <2>1
<1> HIDE DEF f
<1>9. f \in Surjection(places, places)
  <2>1. f \in Injection(places, places)
    <3> HIDE DEF places
    <3> QED BY <1>8 DEF Injection, IsInjective
  <2> QED
    BY <1>2, <2>1, FS_Injection
<1>10. \A k \in places : \E i \in places : f[i] = k
  <2> HIDE DEF places
  <2> QED BY <1>8, <1>9 DEF Surjection
<1>11. ASSUME NEW k \in places PROVE \E i \in places : Rank(q, i) = k - 1
  <2>1. PICK i \in places : f[i] = k
    BY <1>10
  <2>2. f[i] = Rank(q, i) + 1 /\ Rank(q, i) \in Int
    BY <1>1, <1>7, <1>8
  <2> QED
    BY <2>1, <2>2
<1> QED
  BY <1>6, <1>11 DEF n

\* sortPendingEventsByOffset() loses and invents no event.
LEMMA SortedIsQueue ==
  ASSUME NEW q \in Seq(Event)
  PROVE  Sorted(q) \in Seq(Event) /\ Len(Sorted(q)) = Len(q)
<1>1. Len(q) \in Nat /\ \A i \in 1 .. Len(q) : q[i] \in Event
  BY LenProperties, ElementOfSeq
<1>2. \A k \in 1 .. Len(q) : (CHOOSE i \in 1 .. Len(q) : Rank(q, i) = k - 1) \in 1 .. Len(q)
  BY RanksAreUnique
<1>3. Sorted(q) \in [1 .. Len(q) -> Event]
  BY <1>1, <1>2 DEF Sorted
<1>4. Sorted(q) \in Seq(Event)
  BY <1>1, <1>3, SeqDef
<1>5. DOMAIN Sorted(q) = 1 .. Len(q) /\ Len(Sorted(q)) \in Nat /\ DOMAIN Sorted(q) = 1 .. Len(Sorted(q))
  BY <1>3, <1>4, LenProperties
<1> QED
  BY <1>1, <1>4, <1>5

\* A queue that is in order stays as it is.
LEMMA SortedInOrder ==
  ASSUME NEW q \in Seq(Event), \A i, j \in 1 .. Len(q) : i < j => q[i].offset <= q[j].offset
  PROVE  Sorted(q) = q
<1>1. Len(q) \in Nat /\ \A i \in 1 .. Len(q) : q[i] \in Event /\ q[i].offset \in Nat
  <2>1. \A i \in 1 .. Len(q) : q[i] \in Event
    BY ElementOfSeq
  <2> QED
    BY <2>1, LenProperties DEF Event
<1>2. ASSUME NEW i \in 1 .. Len(q) PROVE Rank(q, i) = i - 1
  <2>1. \A j \in 1 .. Len(q) : Before(q, j, i) <=> j < i
    BY <1>1 DEF Before
  <2>2. {j \in 1 .. Len(q) : Before(q, j, i)} = 1 .. i - 1
    BY <1>1, <2>1
  <2>3. Cardinality(1 .. i - 1) = IF 1 > i - 1 THEN 0 ELSE (i - 1) - 1 + 1
    BY <1>1, FS_Interval
  <2>4. Rank(q, i) = Cardinality(1 .. i - 1)
    BY <2>2 DEF Rank
  <2> QED
    BY <1>1, <2>3, <2>4
<1>3. ASSUME NEW k \in 1 .. Len(q) PROVE (CHOOSE i \in 1 .. Len(q) : Rank(q, i) = k - 1) = k
  <2>1. \A i \in 1 .. Len(q) : Rank(q, i) = k - 1 => i = k
    BY <1>1, <1>2
  <2>2. \E i \in 1 .. Len(q) : Rank(q, i) = k - 1
    BY <1>2
  <2> QED
    BY <2>1, <2>2
<1>4. Sorted(q) = [k \in 1 .. Len(q) |-> q[k]]
  <2>1. \A k \in 1 .. Len(q) : q[CHOOSE i \in 1 .. Len(q) : Rank(q, i) = k - 1] = q[k]
    BY <1>3
  <2> QED
    BY <2>1 DEF Sorted
<1>5. q = [k \in 1 .. Len(q) |-> q[k]]
  BY LenProperties
<1> QED
  BY <1>4, <1>5

-----------------------------------------------------------------------------
(* What the steps do to the voices.                                        *)

TypeInv == TypeOK /\ Positioned

\* Ranks leave what was said of the voices true.
LEMMA RankedKeeps ==
  ASSUME NEW ws \in Pool, NEW vs, NEW n \in Notes
  PROVE  /\ Ranked(ws) \in Pool
         /\ \A zones : Struck(ws, vs, n, zones) => Struck(Ranked(ws), vs, n, zones)
         /\ Relieved(ws, vs, n) => Relieved(Ranked(ws), vs, n)
         /\ Exclusive(ws) => Exclusive(Ranked(ws))
         /\ Sounds(ws, vs, n) => Sounds(Ranked(ws), vs, n)
<1> DEFINE R == Ranked(ws)
<1>1. R \in Pool /\ Active(R) = Active(ws) /\ \A v \in Voices : Same(R[v], ws[v])
  BY PoolIsLoose, RankedPool DEF Pool
<1>2. Active(ws) \subseteq Voices  BY DEF Active
<1> HIDE DEF R
<1>3. \A zones : Struck(ws, vs, n, zones) => Struck(R, vs, n, zones)
  <2> SUFFICES ASSUME NEW zones, Struck(ws, vs, n, zones), NEW v \in Active(R)
               PROVE  \/ /\ v \in Active(vs) /\ Same(R[v], vs[v]) /\ R[v].note # n
                         /\ R[v].choke > 0 => \A i \in 1 .. Len(zones) : zones[i].choke # R[v].choke
                      \/ /\ R[v].note = n /\ R[v].zone = playing /\ R[v].since = fresh
                         /\ \E i \in 1 .. Len(zones) : zones[i].choke = R[v].choke
    BY DEF Struck
  <2>1. v \in Active(ws) /\ Same(R[v], ws[v])  BY <1>1, <1>2
  <2>2. /\ R[v].note = ws[v].note /\ R[v].choke = ws[v].choke
        /\ R[v].zone = ws[v].zone /\ R[v].since = ws[v].since
    BY <2>1 DEF Same
  <2>3. Same(ws[v], vs[v]) => Same(R[v], vs[v])  BY <2>1 DEF Same
  <2> QED  BY <2>1, <2>2, <2>3 DEF Struck
<1>4. Relieved(ws, vs, n) => Relieved(R, vs, n)
  BY <1>1, <1>2, Zenon DEF Relieved, Continues, Same
<1>5. Exclusive(ws) => Exclusive(R)
  BY <1>1, <1>2 DEF Exclusive, Same
<1>6. Sounds(ws, vs, n) => Sounds(R, vs, n)
  BY <1>1, <1>2 DEF Sounds, Same
<1> QED  BY <1>1, <1>3, <1>4, <1>5, <1>6 DEF R

\* Every voice there is was there before, and goes on.
Fewer(ws, vs) == \A v \in Active(ws) : v \in Active(vs) /\ Continues(ws[v], vs[v])

\* Doing nothing, silencing and ranking are such changes.
LEMMA FewerVoices ==
  ASSUME NEW vs \in Pool
  PROVE  /\ Fewer(vs, vs)
         /\ \A ws \in Pool : Thinned(ws, vs) => Fewer(ws, vs)
         /\ Fewer(Ranked(vs), vs)
<1>1. Fewer(vs, vs)  BY DEF Fewer, Continues
<1>2. ASSUME NEW ws \in Pool, Thinned(ws, vs)  PROVE  Fewer(ws, vs)
  BY <1>2, ThinnedPool DEF Fewer, Continues
<1>3. Active(Ranked(vs)) = Active(vs) /\ \A v \in Voices : Same(Ranked(vs)[v], vs[v])
  BY PoolIsLoose, RankedPool
<1>4. Fewer(Ranked(vs), vs)
  BY <1>3 DEF Fewer, Continues, Same, Active
<1> QED  BY <1>1, <1>2, <1>4

\* What dispatching an event does to the voices.
Dispatched(e) ==
  \/ e.type = "allNotesOff" /\ voice' = StopAll
  \/ e.type = "control" /\ voice' = voice
  \/ /\ e.type = "noteOff"
     /\ Relieved(voice', voice, e.note)
     /\ Exclusive(voice) => Exclusive(voice')
  \/ /\ e.type = "noteOn"
     /\ Fewer(voice', voice) \/ \E zones \in Seq(Zone) : Struck(voice', voice, e.note, zones)
     /\ (playing => FirstZoneSounds(e.note)) => Sounds(voice', voice, e.note)

\* A single sample is a zone like another.
LEMMA SampleZoneIsZone == SampleZone \in Zone
  BY DEF SampleZone, Zone

\* The event that is due is one of the queue.
LEMMA NextEvent ==
  ASSUME TypeInv, Due
  PROVE  /\ cursor + 1 \in 1 .. Len(queue) /\ queue[cursor + 1] \in Event
         /\ queue[cursor + 1].type \in {"noteOn", "noteOff"} => queue[cursor + 1].note \in Notes
<1>1. cursor + 1 \in 1 .. Len(queue)  BY DEF TypeInv, TypeOK, Due
<1>2. queue[cursor + 1] \in Event  BY <1>1 DEF TypeInv, TypeOK
<1> QED  BY <1>1, <1>2 DEF Event

\* Dispatching keeps the pool, with every selection of zones the program makes.
LEMMA DispatchVoices ==
  ASSUME TypeInv, Dispatch
  PROVE  voice' \in Pool /\ Dispatched(queue[cursor + 1])
<1> DEFINE e == queue[cursor + 1]
<1>1. /\ settings \in Settings /\ playing \in BOOLEAN /\ voice \in Pool /\ fresh \in SUBSET Snapshots
      /\ e.type \in {"noteOn", "noteOff"} => e.note \in Notes
  BY NextEvent DEF TypeInv, TypeOK, Dispatch
<1> HIDE DEF e
<1>2. CASE e.type = "allNotesOff" /\ voice' = StopAll
  BY <1>1, <1>2, SilencingThins DEF Dispatched, e
<1>3. CASE e.type = "control" /\ voice' = voice
  BY <1>1, <1>3 DEF Dispatched, e
<1>4. ASSUME e.type = "noteOn",
             NEW zones \in IF playing THEN AttackZones[e.note] ELSE {<<SampleZone>>},
             voice' = Ranked(NoteOn(voice, e.note, zones))
      PROVE  voice' \in Pool /\ Dispatched(queue[cursor + 1])
  <2>1. zones \in Seq(Zone)
    <3>1. e.note \in Notes  BY <1>1, <1>4
    <3>2. CASE playing
      <4>1. AttackZones[e.note] \in SUBSET Seq(Zone)  BY <3>1, NoteAssumption
      <4> QED  BY <4>1, <3>2, <1>4
    <3>3. CASE ~playing
      <4>1. zones = <<SampleZone>>  BY <3>3, <1>4
      <4> QED  BY <4>1, SampleZoneIsZone
    <3> QED  BY <3>2, <3>3
  <2>2. CASE zones = <<>>
    <3>1. NoteOn(voice, e.note, zones) = voice  BY <2>2 DEF NoteOn
    <3>2. voice' \in Pool /\ Fewer(voice', voice)
      BY <3>1, <1>1, <1>4, RankedKeeps, FewerVoices
    <3>3. ~(playing => FirstZoneSounds(e.note))
      BY <2>2, <1>4 DEF FirstZoneSounds
    <3> QED  BY <3>2, <3>3, <1>4 DEF Dispatched, e
  <2>3. CASE zones # <<>>
    <3>1. /\ NoteOn(voice, e.note, zones) \in Pool
          /\ Struck(NoteOn(voice, e.note, zones), voice, e.note, zones)
          /\ zones[1].audio => Sounds(NoteOn(voice, e.note, zones), voice, e.note)
      BY <2>1, <2>3, <1>1, <1>4, NoteOnStrikes
    <3>2. /\ voice' \in Pool /\ Struck(voice', voice, e.note, zones)
          /\ zones[1].audio => Sounds(voice', voice, e.note)
      BY <3>1, <1>1, <1>4, RankedKeeps
    <3>3. (playing => FirstZoneSounds(e.note)) => zones[1].audio
      BY <1>4, <1>1 DEF FirstZoneSounds, SampleZone
    <3> QED  BY <3>2, <3>3, <2>1, <1>4 DEF Dispatched, e
  <2> QED  BY <2>2, <2>3
<1>5. ASSUME e.type = "noteOff",
             NEW zones \in IF playing THEN ReleaseZones[e.note] ELSE {<<>>},
             voice' = Ranked(NoteOff(voice, e.note, zones))
      PROVE  voice' \in Pool /\ Dispatched(queue[cursor + 1])
  <2>1. zones \in Seq(Zone) /\ \A i \in 1 .. Len(zones) : ~zones[i].gate
    <3>1. e.note \in Notes  BY <1>1, <1>5
    <3>2. CASE playing
      <4>1. ReleaseZones[e.note] \in SUBSET Seq(Zone)
        BY <3>1, NoteAssumption
      <4>2. zones \in ReleaseZones[e.note]  BY <3>2, <1>5
      <4>3. \A i \in 1 .. Len(zones) : ~zones[i].gate  BY <4>2, <3>1, NoteAssumption
      <4> QED  BY <4>1, <4>2, <4>3
    <3>3. CASE ~playing
      <4>1. zones = <<>>  BY <3>3, <1>5
      <4> QED  BY <4>1
    <3> QED  BY <3>2, <3>3
  <2>2. /\ NoteOff(voice, e.note, zones) \in Pool
        /\ Relieved(NoteOff(voice, e.note, zones), voice, e.note)
        /\ Exclusive(voice) => Exclusive(NoteOff(voice, e.note, zones))
    BY <2>1, <1>1, <1>5, NoteOffRelieves
  <2>3. /\ voice' \in Pool /\ Relieved(voice', voice, e.note)
        /\ Exclusive(voice) => Exclusive(voice')
    BY <2>2, <1>1, <1>5, RankedKeeps
  <2> QED  BY <2>3, <1>5 DEF Dispatched, e
<1> QED  BY <1>2, <1>3, <1>4, <1>5, Zenon DEF Dispatch, e

\* setPolyphonyLimit() leaves the voices below the limit.
LEMMA LimitVoices ==
  ASSUME TypeInv, NEW n \in BlockSizes, NEW controls \in Settings, BeginBlock(n, controls)
  PROVE  voice' \in Pool' /\ Fewer(voice', voice)
<1> DEFINE low == [v \in Voices |-> IF v > controls.limit THEN Silent ELSE voice[v]]
<1>1. voice \in Loose(settings.limit) /\ controls.limit \in 1 .. MaxVoices
  BY PoolIsLoose, NoteAssumption DEF TypeInv, TypeOK
<1>2. \A v \in Active(low) : v \in Active(voice) /\ low[v] = voice[v] /\ v <= controls.limit
  BY <1>1 DEF Active, Silent, Voices
<1>3. low \in [Voices -> Fresh \cup {Silent}]  BY <1>1 DEF Loose
<1>4. low \in Loose(controls.limit)  BY <1>1, <1>2, <1>3 DEF Loose
<1>5. voice' = Ranked(low) /\ settings' = controls  BY DEF BeginBlock
<1> HIDE DEF low
<1>6. /\ voice' \in Arrays(controls.limit) /\ Active(voice') = Active(low)
      /\ \A v \in Voices : Same(voice'[v], low[v])
  BY <1>4, <1>5, RankedPool
<1>7. \A v \in Active(voice') : v \in Voices /\ v \in Active(voice) /\ Same(voice'[v], voice[v])
  BY <1>6, <1>2 DEF Active
<1>8. Fewer(voice', voice)  BY <1>7 DEF Fewer, Continues, Same
<1>9. Pool' = Arrays(controls.limit)  BY <1>5 DEF Pool
<1> QED  BY <1>6, <1>8, <1>9

\* The steps, with the events that the user interface and the host may queue.
LEMMA EveryStep ==
  ASSUME TypeInv, [Next]_vars
  PROVE  \/ \E n \in BlockSizes, controls \in Settings : BeginBlock(n, controls)
         \/ \E e \in Event : UiNote(e) \/ HostEvent(e)
         \/ \E panic \in BOOLEAN : ReadLatch(panic)
         \/ ReadSample \/ Oversized \/ ReadProgram \/ Dispatch \/ RenderSegment \/ EndBlock
         \/ \E what \in Snapshots : Publish(what)
         \/ UNCHANGED vars
<1>1. /\ \A type \in {"noteOn", "noteOff"}, n \in Notes, offset \in Nat :
           [type |-> type, note |-> n, offset |-> offset] \in Event
      /\ \A type \in {"allNotesOff", "control"}, offset \in Nat :
           [type |-> type, note |-> None, offset |-> offset] \in Event
  BY DEF Event
<1>2. ASSUME NEW type \in {"noteOn", "noteOff"}, NEW n \in Notes,
             UiNote([type |-> type, note |-> n, offset |-> 0])
      PROVE  \E e \in Event : UiNote(e)
  BY <1>1, <1>2
<1>3. ASSUME NEW offset \in 0 .. size - 1,
             \/ \E type \in {"noteOn", "noteOff"}, n \in Notes :
                  HostEvent([type |-> type, note |-> n, offset |-> offset])
             \/ \E type \in {"allNotesOff", "control"} :
                  HostEvent([type |-> type, note |-> None, offset |-> offset])
      PROVE  \E e \in Event : HostEvent(e)
  <2>1. offset \in Nat  OBVIOUS
  <2>2. ASSUME NEW type \in {"noteOn", "noteOff"}, NEW n \in Notes,
               HostEvent([type |-> type, note |-> n, offset |-> offset])
        PROVE  \E e \in Event : HostEvent(e)
    BY <1>1, <2>1, <2>2
  <2>3. ASSUME NEW type \in {"allNotesOff", "control"},
               HostEvent([type |-> type, note |-> None, offset |-> offset])
        PROVE  \E e \in Event : HostEvent(e)
    BY <1>1, <2>1, <2>3
  <2> QED  BY <1>3, <2>2, <2>3
<1> QED  BY <1>2, <1>3, Zenon DEF Next

\* Every step but the dispatching of an event lets voices go on or ends them.
LEMMA VoicesStep ==
  ASSUME TypeInv, [Next]_vars
  PROVE  /\ voice' \in Pool'
         /\ Fewer(voice', voice) \/ (Dispatch /\ Dispatched(queue[cursor + 1]))
<1>1. voice \in Pool /\ settings \in Settings  BY DEF TypeInv, TypeOK
<1>2. CASE \E n \in BlockSizes, controls \in Settings : BeginBlock(n, controls)
  BY <1>2, LimitVoices
<1> DEFINE Quiet == voice' \in {voice, StopAll} /\ settings' = settings
<1>3. ASSUME Quiet  PROVE  voice' \in Pool' /\ Fewer(voice', voice)
  <2>1. Pool' = Pool  BY <1>3 DEF Pool
  <2> QED  BY <1>1, <1>3, <2>1, SilencingThins, FewerVoices
<1>4. ASSUME NEW e, UiNote(e) \/ HostEvent(e)  PROVE  Quiet
  BY <1>4 DEF UiNote, HostEvent
<1>5. ASSUME NEW panic, ReadLatch(panic)  PROVE  Quiet  BY <1>5 DEF ReadLatch
<1>6. CASE ReadSample \/ Oversized \/ ReadProgram \/ EndBlock
  <2>1. Quiet  BY <1>6 DEF ReadSample, Oversized, ReadProgram, EndBlock
  <2> QED  BY <2>1, <1>3
<1>7. ASSUME NEW what \in Snapshots, Publish(what)  PROVE  voice' \in Pool' /\ Fewer(voice', voice)
  <2>1. Pool' = Pool /\ what \in fresh'  BY <1>7 DEF Publish, Pool
  <2>2. /\ voice' = [v \in Voices |-> voice'[v]]
        /\ \A v \in Voices \ Active(voice) : voice'[v] = voice[v]
        /\ \A v \in Active(voice) : voice'[v] = [voice[v] EXCEPT !.since = @ \cup {what}]
    BY <1>7 DEF Publish, Active
  <2>3. \A v \in Active(voice) : v \in Voices /\ voice[v] \in Voice
    BY <1>1 DEF Pool, Arrays, Active, Silent
  <2>4. ASSUME NEW v \in Active(voice)
        PROVE  /\ voice'[v] \in Voice /\ voice'[v].order = voice[v].order
               /\ Continues(voice'[v], voice[v])
    <3>1. voice[v] \in Voice /\ voice'[v] = [voice[v] EXCEPT !.since = @ \cup {what}]
      BY <2>2, <2>3
    <3>2. voice[v].since \cup {what} \in SUBSET Snapshots  BY <3>1 DEF Voice
    <3>3. voice'[v].since = voice[v].since \cup {what}  BY <3>1 DEF Voice
    <3>4. /\ voice'[v].note = voice[v].note /\ voice'[v].gate = voice[v].gate
          /\ voice'[v].choke = voice[v].choke /\ voice'[v].zone = voice[v].zone
          /\ voice'[v].held = voice[v].held /\ voice'[v].order = voice[v].order
      BY <3>1 DEF Voice
    <3>5. Continues(voice'[v], voice[v])  BY <2>1, <3>3, <3>4 DEF Continues
    <3>6. voice'[v] \in Voice  BY <3>1, <3>2 DEF Voice
    <3> QED  BY <3>4, <3>5, <3>6
  <2>5. Active(voice') \subseteq Active(voice)  BY <2>2 DEF Active
  <2>6. voice' \in [Voices -> Voice \cup {Silent}]
    <3>1. \A v \in Voices : voice'[v] \in Voice \cup {Silent}  BY <1>1, <2>2, <2>4 DEF Pool, Arrays
    <3> QED  BY <2>2, <3>1
  <2>7. voice' \in Pool  BY <1>1, <2>4, <2>5, <2>6 DEF Pool, Arrays
  <2> QED  BY <2>1, <2>4, <2>5, <2>7 DEF Fewer
<1>8. CASE UNCHANGED vars
  <2>1. Quiet  BY <1>8 DEF vars
  <2> QED  BY <2>1, <1>3
<1>9. CASE Dispatch
  <2>1. Pool' = Pool  BY <1>9 DEF Dispatch, Pool
  <2> QED  BY <1>9, <2>1, DispatchVoices
<1>10. CASE RenderSegment
  <2>1. Pool' = Pool  BY <1>10 DEF RenderSegment, Pool
  <2>2. PICK after \in [Voices -> UNION {Sounded(voice[v]) : v \in Voices}] :
          /\ \A v \in Voices : after[v] \in IF v \in Active(voice) THEN Sounded(voice[v]) ELSE {Silent}
          /\ voice' = Ranked(after)
    BY <1>10, Zenon DEF RenderSegment
  <2>3. after = [v \in Voices |-> after[v]]  OBVIOUS
  <2> QED  BY <1>1, <2>1, <2>2, <2>3, SegmentContinues DEF Fewer
<1> HIDE DEF Quiet
<1> QED  BY <1>2, <1>3, <1>4, <1>5, <1>6, <1>7, <1>8, <1>9, <1>10, EveryStep, Zenon

-----------------------------------------------------------------------------
(* Types.                                                                  *)

\* An empty queue fits.
LEMMA EmptyFits ==
  ASSUME NEW q, q = <<>>
  PROVE  q \in Seq(Event) /\ Len(q) = 0 /\ Len(q) <= Capacity /\ 0 \in 0 .. Len(q)
<1>1. Capacity \in Nat  BY NoteAssumption
<1>2. q \in Seq(Event) /\ Len(q) = 0  OBVIOUS
<1> QED  BY <1>1, <1>2

\* Types: the initial states.
LEMMA InitTypes == Init => TypeInv
<1> SUFFICES ASSUME Init  PROVE  TypeInv  OBVIOUS
<1>1. Active(voice) = {} /\ voice \in [Voices -> Voice \cup {Silent}]
  BY DEF Init, Active, Silent
<1>2. voice \in Pool  BY <1>1 DEF Pool, Arrays
<1>3. queue \in Seq(Event) /\ Len(queue) = 0 /\ 0 <= Capacity  BY NoteAssumption DEF Init
<1>4. program \in BOOLEAN  BY NoteAssumption DEF Init
<1>5. size \in Nat /\ at \in 0 .. size /\ cursor \in 0 .. Len(queue)  BY <1>3 DEF Init
<1> QED  BY <1>2, <1>3, <1>4, <1>5 DEF Init, TypeInv, TypeOK, Positioned

\* Events only name notes.
LEMMA KeysAreNotes ==
  ASSUME down \subseteq Notes, NEW e \in Event
  PROVE  Keys(e) \subseteq Notes
  BY DEF Keys, Event

\* Every step keeps the types, the capacity of the queue and the place in the block.
LEMMA StepTypes == TypeInv /\ [Next]_vars => TypeInv'
<1> SUFFICES ASSUME TypeInv, [Next]_vars  PROVE  TypeInv'  OBVIOUS
<1> USE DEF TypeInv, TypeOK, Positioned
<1>0. voice' \in Pool'  BY VoicesStep
<1>1. ASSUME NEW n \in BlockSizes, NEW controls \in Settings, BeginBlock(n, controls)  PROVE  TypeInv'
  BY <1>0, <1>1, NoteAssumption DEF BeginBlock, publication
<1>2. ASSUME NEW e \in Event, UiNote(e)  PROVE  TypeInv'
  BY <1>0, <1>2, EnqueueKeepsCapacity, KeysAreNotes DEF UiNote, publication, block
<1>3. ASSUME NEW e \in Event, HostEvent(e)  PROVE  TypeInv'
  <2>1. e.offset \in Nat  BY DEF Event
  <2> QED  BY <1>0, <1>3, <2>1, EnqueueKeepsCapacity, KeysAreNotes DEF HostEvent, publication
<1>4. ASSUME NEW panic \in BOOLEAN, ReadLatch(panic)  PROVE  TypeInv'
  <2>1. queue' \in Seq(Event) /\ Len(queue') <= Capacity /\ cursor' \in 0 .. Len(queue')
    <3>1. cursor = 0 /\ cursor' = 0  BY <1>4 DEF ReadLatch, block
    <3>2. queue' = queue \/ queue' = <<>>  BY <1>4 DEF ReadLatch
    <3>3. CASE queue' = queue  BY <3>1, <3>3
    <3>4. CASE queue' = <<>>  BY <3>1, <3>4, EmptyFits
    <3> QED  BY <3>2, <3>3, <3>4
  <2>2. down' \subseteq Notes  BY <1>4 DEF ReadLatch
  <2>3. recovery' \in BOOLEAN  BY <1>4 DEF ReadLatch
  <2> QED  BY <1>0, <1>4, <2>1, <2>2, <2>3 DEF ReadLatch, publication, block
<1>5. CASE ReadSample  BY <1>0, <1>5 DEF ReadSample
<1>6. CASE Oversized  BY <1>0, <1>6 DEF Oversized, publication
<1>7. CASE ReadProgram  BY <1>0, <1>7, SortedIsQueue DEF ReadProgram
<1>8. CASE Dispatch  BY <1>0, <1>8, NextEvent DEF Dispatch, publication, Due
<1>9. CASE RenderSegment
  <2>1. NextOffset \in 0 .. size
    <3>1. ASSUME cursor < Len(queue)  PROVE  queue[cursor + 1].offset \in Nat
      <4>1. queue[cursor + 1] \in Event  BY <3>1
      <4> QED  BY <4>1 DEF Event
    <3> QED  BY <3>1 DEF NextOffset
  <2> QED  BY <1>0, <1>9, <2>1 DEF RenderSegment, publication
<1>10. CASE EndBlock
  <2>1. queue' \in Seq(Event) /\ Len(queue') <= Capacity /\ cursor' \in 0 .. Len(queue')
    BY <1>10, EmptyFits DEF EndBlock
  <2> QED  BY <1>0, <1>10, <2>1 DEF EndBlock, publication
<1>11. ASSUME NEW what \in Snapshots, Publish(what)  PROVE  TypeInv'
  BY <1>0, <1>11, NoteAssumption DEF Publish, block
<1>12. CASE UNCHANGED vars  BY <1>12 DEF vars, publication, block, Pool
<1> QED
  BY <1>1, <1>2, <1>3, <1>4, <1>5, <1>6, <1>7, <1>8, <1>9, <1>10, <1>11, <1>12, EveryStep, Zenon

\* The voices, the queue and the place in the block stay what they are made for.
THEOREM Types == Spec => []TypeInv
<1> QED  BY InitTypes, StepTypes, PTL DEF Spec

\* TypeOK holds for every number of voices, queue capacity and set of zones: the polyphony limit
\* and the distinct start orders included.
THEOREM TypesHold == Spec => []TypeOK
<1>1. TypeInv => TypeOK  BY DEF TypeInv
<1> QED  BY <1>1, Types, PTL

-----------------------------------------------------------------------------
(* What a note does to the others.                                         *)

\* Voices that end or go on share no choke group they did not share before.
LEMMA FewerIsExclusive ==
  ASSUME NEW vs, NEW ws, Fewer(ws, vs), Exclusive(vs)
  PROVE  Exclusive(ws)
<1> SUFFICES ASSUME NEW v \in Active(ws), NEW w \in Active(ws),
                    ws[v].choke > 0 /\ ws[v].choke = ws[w].choke
             PROVE  ws[v].note = ws[w].note
  BY DEF Exclusive
<1>1. v \in Active(vs) /\ w \in Active(vs)  BY DEF Fewer
<1>2. /\ ws[v].choke = vs[v].choke /\ ws[v].note = vs[v].note
      /\ ws[w].choke = vs[w].choke /\ ws[w].note = vs[w].note
  BY DEF Fewer, Continues
<1> QED  BY <1>1, <1>2 DEF Exclusive

\* Neither do the voices of a note-on: the groups of its zones were silenced before they start.
LEMMA StruckIsExclusive ==
  ASSUME NEW vs, NEW ws, NEW n, NEW zones, Struck(ws, vs, n, zones), Exclusive(vs)
  PROVE  Exclusive(ws)
<1> SUFFICES ASSUME NEW v \in Active(ws), NEW w \in Active(ws),
                    ws[v].choke > 0 /\ ws[v].choke = ws[w].choke
             PROVE  ws[v].note = ws[w].note
  BY DEF Exclusive
<1> DEFINE Old(x) == x \in Active(vs) /\ Same(ws[x], vs[x])
                     /\ (ws[x].choke > 0 => \A i \in 1 .. Len(zones) : zones[i].choke # ws[x].choke)
           Own(x) == ws[x].note = n /\ \E i \in 1 .. Len(zones) : zones[i].choke = ws[x].choke
<1>1. (Old(v) \/ Own(v)) /\ (Old(w) \/ Own(w))  BY DEF Struck
<1>2. CASE Old(v) /\ Old(w)  BY <1>2 DEF Exclusive, Same
<1>3. CASE Own(v) /\ Own(w)  BY <1>3
<1>4. CASE Old(v) /\ Own(w)  BY <1>4
<1>5. CASE Own(v) /\ Old(w)  BY <1>5
<1> HIDE DEF Old, Own
<1> QED  BY <1>1, <1>2, <1>3, <1>4, <1>5

\* Every step keeps the choke groups exclusive.
LEMMA StepExclusive ==
  ASSUME TypeInv, ChokeGroupsExclusive, [Next]_vars
  PROVE  ChokeGroupsExclusive'
<1>1. Exclusive(voice)  BY DEF ChokeGroupsExclusive, Exclusive
<1>2. CASE Fewer(voice', voice)  BY <1>1, <1>2, FewerIsExclusive DEF ChokeGroupsExclusive, Exclusive
<1>3. CASE Dispatched(queue[cursor + 1])
  <2>1. Exclusive(voice')
    <3> DEFINE e == queue[cursor + 1]
    <3>1. CASE voice' = StopAll
      <4>1. Active(voice') = {}  BY <3>1 DEF Active, StopAll, Silent
      <4> QED  BY <4>1 DEF Exclusive
    <3>2. CASE voice' = voice  BY <3>2, <1>1
    <3>3. CASE Fewer(voice', voice)  BY <3>3, <1>1, FewerIsExclusive
    <3>4. ASSUME NEW zones, Struck(voice', voice, e.note, zones)  PROVE  Exclusive(voice')
      BY <3>4, <1>1, StruckIsExclusive
    <3> QED  BY <1>1, <1>3, <3>1, <3>2, <3>3, <3>4 DEF Dispatched
  <2> QED  BY <2>1 DEF ChokeGroupsExclusive, Exclusive
<1> QED  BY <1>2, <1>3, VoicesStep

\* Voices of one choke group belong to one note, whatever zones are layered, stolen or retargeted.
THEOREM OneNotePerChokeGroup == Spec => []ChokeGroupsExclusive
<1>1. Init => ChokeGroupsExclusive
  BY DEF Init, ChokeGroupsExclusive, Active, Silent
<1>2. TypeInv /\ ChokeGroupsExclusive /\ [Next]_vars => ChokeGroupsExclusive'
  BY StepExclusive
<1> QED  BY <1>1, <1>2, Types, PTL DEF Spec

\* A note-on whose first zone has a sample leaves a voice of its note that is held and whose
\* envelope is on, or one that mono legato took over while it was releasing.
THEOREM NoteOnIsHeard == Spec => NoteOnSounds
<1>1. ASSUME TypeInv, [Next]_vars, phase = "render", cursor' = cursor + 1,
             queue[cursor + 1].type = "noteOn",
             playing => FirstZoneSounds(queue[cursor + 1].note)
      PROVE  \E v \in Voices : /\ voice'[v].note = queue[cursor + 1].note /\ voice'[v].held
                              /\ (voice'[v].env = "on" \/ TakenOver(v))
  <2>1. cursor \in Nat  BY <1>1 DEF TypeInv, TypeOK
  <2>2. Dispatch
    <3>1. CASE \/ \E n \in BlockSizes, controls \in Settings : BeginBlock(n, controls)
               \/ \E e \in Event : UiNote(e) \/ HostEvent(e)
               \/ \E panic \in BOOLEAN : ReadLatch(panic)
               \/ ReadSample \/ Oversized \/ ReadProgram
      BY <1>1, <3>1 DEF BeginBlock, UiNote, HostEvent, ReadLatch, ReadSample, Oversized, ReadProgram
    <3>2. CASE RenderSegment \/ EndBlock
      BY <1>1, <2>1, <3>2 DEF RenderSegment, EndBlock
    <3>3. CASE (\E what \in Snapshots : Publish(what)) \/ UNCHANGED vars
      BY <1>1, <2>1, <3>3 DEF Publish, vars, block
    <3> QED  BY <1>1, <3>1, <3>2, <3>3, EveryStep
  <2>3. Dispatched(queue[cursor + 1])  BY <1>1, <2>2, DispatchVoices
  <2>4. Sounds(voice', voice, queue[cursor + 1].note)  BY <1>1, <2>3 DEF Dispatched
  <2> QED  BY <2>4 DEF Sounds, TakenOver
<1>2. TypeInv /\ [Next]_vars =>
        [phase = "render" /\ cursor' = cursor + 1 /\ queue[cursor + 1].type = "noteOn"
         /\ (playing => FirstZoneSounds(queue[cursor + 1].note)) =>
           \E v \in Voices : /\ voice'[v].note = queue[cursor + 1].note /\ voice'[v].held
                            /\ (voice'[v].env = "on" \/ TakenOver(v))]_vars
  BY <1>1
<1> QED  BY <1>2, Types, PTL DEF Spec, NoteOnSounds

-----------------------------------------------------------------------------
(* What the voices play.                                                   *)

\* Voices that go on play what they played.
LEMMA FewerPlay ==
  ASSUME NEW vs, NEW ws, NEW b, Fewer(ws, vs), \A v \in Active(vs) : vs[v].zone = b
  PROVE  \A v \in Active(ws) : ws[v].zone = b
  BY DEF Fewer, Continues

\* The voices an event leaves in a block play what the block plays, and were started after all
\* that it has read, if that was true before.
LEMMA DispatchPlays ==
  ASSUME NEW e, Dispatched(e), fresh' = fresh,
         \A v \in Active(voice) : voice[v].zone = playing /\ voice[v].since \subseteq fresh
  PROVE  \A v \in Active(voice') : voice'[v].zone = playing /\ voice'[v].since \subseteq fresh
<1>1. CASE voice' = StopAll
  BY <1>1 DEF Active, StopAll, Silent
<1>2. CASE voice' = voice  BY <1>2
<1>3. CASE Fewer(voice', voice)  BY <1>3 DEF Fewer, Continues
<1>4. CASE Relieved(voice', voice, e.note)  BY <1>4 DEF Relieved, Continues
<1>5. ASSUME NEW zones, Struck(voice', voice, e.note, zones)
      PROVE  \A v \in Active(voice') : voice'[v].zone = playing /\ voice'[v].since \subseteq fresh
  BY <1>5 DEF Struck, Same
<1> QED  BY <1>1, <1>2, <1>3, <1>4, <1>5 DEF Dispatched

\* A step that leaves no voice behind a publication it reads.
LEMMA StepHeeds ==
  ASSUME TypeInv, [Next]_vars, \A v \in Active(voice) : voice[v].since \subseteq fresh, ~Dispatch
  PROVE  \A v \in Active(voice') : voice'[v].since \subseteq fresh'
<1>1. Active(StopAll) = {}  BY DEF Active, StopAll, Silent
<1>2. Fewer(voice', voice)  BY VoicesStep
<1>3. CASE fresh \subseteq fresh'
  BY <1>2, <1>3 DEF Fewer, Continues
<1>4. CASE ReadSample
  <2>1. CASE "sample" \in fresh  BY <1>1, <1>4, <2>1 DEF ReadSample
  <2>2. CASE "sample" \notin fresh
    <3>1. fresh \subseteq fresh'  BY <1>4, <2>2 DEF ReadSample
    <3> QED  BY <1>3, <3>1
  <2> QED  BY <2>1, <2>2
<1>5. CASE ReadProgram
  <2>1. CASE "program" \in fresh  BY <1>1, <1>5, <2>1 DEF ReadProgram
  <2>2. CASE "program" \notin fresh
    <3>1. fresh \subseteq fresh'  BY <1>5, <2>2 DEF ReadProgram
    <3> QED  BY <1>3, <3>1
  <2> QED  BY <2>1, <2>2
<1>6. CASE \/ \E n \in BlockSizes, controls \in Settings : BeginBlock(n, controls)
           \/ \E e \in Event : UiNote(e) \/ HostEvent(e)
           \/ \E panic \in BOOLEAN : ReadLatch(panic)
           \/ Oversized \/ RenderSegment \/ EndBlock
           \/ \E what \in Snapshots : Publish(what)
           \/ UNCHANGED vars
  <2>1. fresh \subseteq fresh'
    BY <1>6 DEF BeginBlock, UiNote, HostEvent, ReadLatch, Oversized, RenderSegment, EndBlock, Publish,
                publication, vars
  <2> QED  BY <1>3, <2>1
<1> QED  BY <1>4, <1>5, <1>6, EveryStep

\* Dispatching an event moves the cursor.
LEMMA DispatchMoves ==
  ASSUME TypeInv, Dispatch  PROVE  cursor' # cursor
<1>1. cursor \in Nat  BY DEF TypeInv, TypeOK
<1> QED  BY <1>1 DEF Dispatch

\* Every step keeps the voices with the program, or knows that a new one is published.
LEMMA StepFollows ==
  ASSUME TypeInv, ProgramFollowed, [Next]_vars
  PROVE  ProgramFollowed'
<1> DEFINE Play(b) == \A v \in Active(voice) : voice[v].zone = b
           Played(b) == \A v \in Active(voice') : voice'[v].zone = b
           Heeded == \A v \in Active(voice') : voice'[v].since \subseteq fresh'
<1>1. ASSUME Fewer(voice', voice), NEW b, Play(b)  PROVE  Played(b)  BY <1>1, FewerPlay
<1>2. ~Dispatch => Fewer(voice', voice) /\ Heeded
  BY VoicesStep, StepHeeds DEF ProgramFollowed
<1>3. Active(StopAll) = {}  BY DEF Active, StopAll, Silent
<1>4. phase = "render" => Play(playing) /\ ("program" \notin fresh => playing = program)
  BY DEF ProgramFollowed, VoicesFollowProgram
<1>5. phase # "render" /\ "program" \notin fresh => Play(program)  BY DEF ProgramFollowed
<1>6. ASSUME Heeded,
             phase' = "render" => Played(playing') /\ ("program" \notin fresh' => playing' = program'),
             phase' # "render" /\ "program" \notin fresh' => Played(program')
      PROVE  ProgramFollowed'
  BY <1>6 DEF ProgramFollowed, VoicesFollowProgram
<1>7. CASE \/ \E n \in BlockSizes, controls \in Settings : BeginBlock(n, controls)
           \/ \E e \in Event : UiNote(e) \/ HostEvent(e)
           \/ \E panic \in BOOLEAN : ReadLatch(panic)
           \/ ReadSample \/ Oversized
  <2>1. /\ ~Dispatch /\ phase # "render" /\ phase' # "render" /\ program' = program
        /\ "program" \in fresh' <=> "program" \in fresh
    BY <1>7 DEF BeginBlock, UiNote, HostEvent, ReadLatch, ReadSample, Oversized, publication, Dispatch, Due
  <2> QED  BY <1>1, <1>2, <1>5, <1>6, <2>1
<1>8. CASE ReadProgram
  <2>1. ~Dispatch /\ phase = "read" /\ phase' = "render" /\ playing' = program /\ program' = program
    BY <1>8 DEF ReadProgram, Dispatch, Due
  <2>2. Played(program)
    <3>1. CASE "program" \in fresh  BY <1>3, <1>8, <3>1 DEF ReadProgram
    <3>2. CASE "program" \notin fresh  BY <1>1, <1>2, <1>5, <2>1, <3>2
    <3> QED  BY <3>1, <3>2
  <2> QED  BY <1>2, <1>6, <2>1, <2>2
<1>9. CASE Dispatch
  <2>1. /\ phase = "render" /\ phase' = phase /\ playing' = playing /\ program' = program /\ fresh' = fresh
    BY <1>9 DEF Dispatch, Due, publication
  <2>2. Played(playing) /\ Heeded
    BY <1>4, <1>9, <2>1, DispatchVoices, DispatchPlays DEF ProgramFollowed
  <2> QED  BY <1>4, <1>6, <2>1, <2>2
<1>10. CASE RenderSegment
  <2>1. /\ ~Dispatch /\ phase = "render" /\ phase' = phase /\ playing' = playing
        /\ program' = program /\ fresh' = fresh
    BY <1>10 DEF RenderSegment, Dispatch, publication
  <2> QED  BY <1>1, <1>2, <1>4, <1>6, <2>1
<1>11. CASE EndBlock
  <2>1. /\ ~Dispatch /\ phase = "render" /\ phase' = "idle" /\ program' = program /\ fresh' = fresh
    BY <1>11 DEF EndBlock, publication, Dispatch, Due
  <2> QED  BY <1>1, <1>2, <1>4, <1>6, <2>1
<1>12. ASSUME NEW what \in Snapshots, Publish(what)  PROVE  ProgramFollowed'
  <2>1. /\ ~Dispatch /\ phase' = phase /\ playing' = playing
        /\ "program" \notin fresh' => program' = program /\ "program" \notin fresh
    BY <1>12, DispatchMoves DEF Publish, block
  <2> QED  BY <1>1, <1>2, <1>4, <1>5, <1>6, <2>1
<1>13. CASE UNCHANGED vars
  <2>1. ~Dispatch /\ phase' = phase /\ playing' = playing /\ program' = program /\ fresh' = fresh
    BY <1>13, DispatchMoves DEF vars, publication, block
  <2> QED  BY <1>1, <1>2, <1>4, <1>5, <1>6, <2>1
<1> QED  BY <1>7, <1>8, <1>9, <1>10, <1>11, <1>12, <1>13, EveryStep

\* In a block no voice is left over from before a publication that the block has read, be it of a
\* program or of a sample, however the publications and the blocks fall.
THEOREM OneProgramPerBlock == Spec => []VoicesFollowProgram
<1>1. Init => ProgramFollowed
  BY DEF Init, ProgramFollowed, VoicesFollowProgram, Active, Silent
<1>2. TypeInv /\ ProgramFollowed /\ [Next]_vars => ProgramFollowed'
  BY StepFollows
<1>3. ProgramFollowed => VoicesFollowProgram  BY DEF ProgramFollowed
<1> QED  BY <1>1, <1>2, <1>3, Types, PTL DEF Spec

-----------------------------------------------------------------------------
(* What ends a note stays queued.                                          *)

\* The releases among the first events of a queue, by their number.
Keeps(f, q) ==
  /\ f[0] = <<>>
  /\ \A k \in 1 .. Len(q) : f[k] = IF IsSafety(q[k]) THEN Append(f[k - 1], q[k]) ELSE f[k - 1]
  /\ \A k \in 0 .. Len(q) : f[k] \in Seq(Event)

\* Releases(q) is the last of such a list: the recursion of its definition ends.
LEMMA ReleasesAreCollected ==
  ASSUME NEW q \in Seq(Event)
  PROVE  \E f : Keeps(f, q) /\ Releases(q) = f[Len(q)]
<1> DEFINE N == Len(q)
           More(x, k) == IF IsSafety(q[k]) THEN Append(x, q[k]) ELSE x
           Is(f) == f = [k \in 0 .. N |-> IF k = 0 THEN <<>> ELSE
                           IF IsSafety(q[k]) THEN Append(f[k - 1], q[k]) ELSE f[k - 1]]
           kept == CHOOSE f : Is(f)
           D == [k \in 0 .. N |-> Seq(Event)]
<1>1. Releases(q) = kept[N]
  BY DEF Releases
<1>2. /\ N \in Nat /\ 0 \in 0 .. N /\ <<>> \in Seq(Event)
      /\ \A k \in 0 .. N : D[k] = Seq(Event)
  OBVIOUS
<1>3. \A k \in 1 .. N : \A x \in Seq(Event) : More(x, k) \in Seq(Event)
  OBVIOUS
<1> HIDE DEF More, D, N
<1>4. \E f : Is(f)
  <2> DEFINE step == [p \in Seq(Event) \X (1 .. N) |-> More(p[1], p[2])]
  <2>1. \A k \in 1 .. N : \A x \in Seq(Event) : step[<<x, k>>] = More(x, k)
    OBVIOUS
  <2> HIDE DEF step
  <2>2. Steps(D, N, step)
    <3> SUFFICES ASSUME NEW k \in 1 .. N, NEW x \in D[k - 1]  PROVE  step[<<x, k>>] \in D[k]
      BY DEF Steps
    <3>1. k - 1 \in 0 .. N /\ k \in 0 .. N  BY <1>2
    <3>2. x \in Seq(Event)  BY <1>2, <3>1
    <3>3. step[<<x, k>>] \in Seq(Event)  BY <1>3, <2>1, <3>2
    <3> QED  BY <1>2, <3>1, <3>3
  <2>3. <<>> \in D[0]  BY <1>2
  <2>4. PICK f : Iterates(f, D, N, <<>>, step)
    BY <1>2, <2>2, <2>3, Iterate
  <2> DEFINE g == [k \in 0 .. N |-> f[k]]
  <2>5. ASSUME NEW k \in 1 .. N  PROVE f[k] = More(f[k - 1], k)
    <3>1. k - 1 \in 0 .. N  BY <1>2
    <3>2. f[k - 1] \in Seq(Event) /\ f[k] = step[<<f[k - 1], k>>]
      BY <2>4, <3>1, <1>2 DEF Iterates
    <3> QED  BY <2>1, <3>2
  <2>6. \A k \in 0 .. N : g[k] = IF k = 0 THEN <<>> ELSE
                            IF IsSafety(q[k]) THEN Append(g[k - 1], q[k]) ELSE g[k - 1]
    BY <1>2, <2>4, <2>5 DEF Iterates, More
  <2>7. Is(g)
    <3>1. g = [k \in 0 .. N |-> g[k]]  OBVIOUS
    <3> HIDE DEF g
    <3> QED  BY <2>6, <3>1
  <2> HIDE DEF Is
  <2> QED  BY <2>7
<1>5. Is(kept)
  <2> HIDE DEF Is
  <2> QED  BY <1>4
<1> HIDE DEF kept
<1>6. \A k \in 0 .. N : kept[k] = IF k = 0 THEN <<>> ELSE More(kept[k - 1], k)
  BY <1>5 DEF More
<1> DEFINE T == {k \in Nat : k <= N => kept[k] \in Seq(Event)}
<1>7. 0 \in T
  <2>1. kept[0] = <<>>  BY <1>2, <1>6
  <2> QED  BY <1>2, <2>1
<1>8. ASSUME NEW k \in Nat, k \in T  PROVE  k + 1 \in T
  <2> SUFFICES ASSUME k + 1 <= N  PROVE  kept[k + 1] \in Seq(Event)
    OBVIOUS
  <2>1. k + 1 \in 1 .. N /\ k + 1 \in 0 .. N /\ k + 1 # 0 /\ (k + 1) - 1 = k /\ kept[k] \in Seq(Event)
    BY <1>2, <1>8
  <2> HIDE DEF T
  <2>2. kept[k + 1] = More(kept[k], k + 1)
    BY <1>6, <2>1
  <2> QED  BY <1>3, <2>1, <2>2
<1>9. Nat \subseteq T
  <2> HIDE DEF T
  <2> QED  BY <1>7, <1>8, SetInduction
<1>10. \A k \in 0 .. N : kept[k] \in Seq(Event)
  BY <1>2, <1>9
<1>11. \A k \in 1 .. N : kept[k] = IF IsSafety(q[k]) THEN Append(kept[k - 1], q[k]) ELSE kept[k - 1]
  <2>1. \A k \in 1 .. N : k \in 0 .. N /\ k # 0  BY <1>2
  <2> QED  BY <1>6, <2>1 DEF More
<1>12. kept[0] = <<>>  BY <1>2, <1>6
<1>13. Keeps(kept, q)  BY <1>10, <1>11, <1>12 DEF Keeps, N
<1> QED  BY <1>1, <1>13 DEF N

\* Equal beginnings have equal releases.
LEMMA KeepsAgree ==
  ASSUME NEW q, NEW r, Len(q) \in Nat, Len(r) \in Nat, NEW f, NEW g, Keeps(f, q), Keeps(g, r),
         NEW n \in Nat, n <= Len(q), n <= Len(r), \A k \in 1 .. n : q[k] = r[k]
  PROVE  f[n] = g[n]
<1> DEFINE T == {k \in Nat : k <= n => f[k] = g[k]}
<1>1. 0 \in T  BY DEF Keeps
<1>2. ASSUME NEW k \in Nat, k \in T  PROVE  k + 1 \in T
  <2> SUFFICES ASSUME k + 1 <= n  PROVE  f[k + 1] = g[k + 1]
    OBVIOUS
  <2>1. k + 1 \in 1 .. Len(q) /\ k + 1 \in 1 .. Len(r) /\ k + 1 \in 1 .. n /\ (k + 1) - 1 = k /\ f[k] = g[k]
    BY <1>2
  <2> HIDE DEF T
  <2> QED  BY <2>1 DEF Keeps
<1>3. Nat \subseteq T
  <2> HIDE DEF T
  <2> QED  BY <1>1, <1>2, SetInduction
<1> QED  BY <1>3

\* Queueing an event behind the others.
LEMMA ReleasesAppend ==
  ASSUME NEW q \in Seq(Event), NEW e \in Event
  PROVE  /\ Releases(q) \in Seq(Event)
         /\ Releases(Append(q, e)) = IF IsSafety(e) THEN Append(Releases(q), e) ELSE Releases(q)
<1> DEFINE r == Append(q, e)
<1>1. /\ r \in Seq(Event) /\ Len(r) = Len(q) + 1 /\ Len(q) \in Nat /\ r[Len(q) + 1] = e
      /\ \A k \in 1 .. Len(q) : q[k] = r[k]
  OBVIOUS
<1> HIDE DEF r
<1>2. PICK f : Keeps(f, q) /\ Releases(q) = f[Len(q)]  BY ReleasesAreCollected
<1>3. PICK g : Keeps(g, r) /\ Releases(r) = g[Len(r)]  BY <1>1, ReleasesAreCollected
<1>4. f[Len(q)] = g[Len(q)]  BY <1>1, <1>2, <1>3, KeepsAgree
<1>5. Len(q) + 1 \in 1 .. Len(r) /\ (Len(q) + 1) - 1 = Len(q) /\ Len(q) \in 0 .. Len(q)  BY <1>1
<1>6. g[Len(r)] = IF IsSafety(e) THEN Append(g[Len(q)], e) ELSE g[Len(q)]
  BY <1>1, <1>3, <1>5 DEF Keeps
<1>7. Releases(q) \in Seq(Event)  BY <1>2, <1>5 DEF Keeps
<1> QED  BY <1>2, <1>3, <1>4, <1>6, <1>7 DEF r

\* Displacing an event that is no release leaves the releases as they are.
LEMMA ReleasesWithout ==
  ASSUME NEW q \in Seq(Event), NEW i \in Plain(q)
  PROVE  Releases(Without(q, i)) = Releases(q)
<1> DEFINE r == Without(q, i)
<1>1. i \in 1 .. Len(q) /\ ~IsSafety(q[i])  BY DEF Plain
<1>2. /\ r \in Seq(Event) /\ Len(r) = Len(q) - 1 /\ Len(q) \in Nat
      /\ \A k \in 1 .. Len(q) - 1 : r[k] = IF k < i THEN q[k] ELSE q[k + 1]
  BY <1>1, WithoutProperties
<1> HIDE DEF r
<1>3. PICK f : Keeps(f, q) /\ Releases(q) = f[Len(q)]  BY ReleasesAreCollected
<1>4. PICK g : Keeps(g, r) /\ Releases(r) = g[Len(r)]  BY <1>2, ReleasesAreCollected
<1>5. f[i - 1] = g[i - 1]
  <2>1. i - 1 \in Nat /\ i - 1 <= Len(q) /\ i - 1 <= Len(r) /\ Len(r) \in Nat  BY <1>1, <1>2
  <2>2. \A k \in 1 .. i - 1 : q[k] = r[k]  BY <1>1, <1>2
  <2> QED  BY <1>3, <1>4, <2>1, <2>2, <1>2, KeepsAgree
<1>6. f[i] = f[i - 1]  BY <1>1, <1>3 DEF Keeps
<1> DEFINE T == {k \in Nat : i + k <= Len(q) => f[i + k] = g[(i + k) - 1]}
<1>7. 0 \in T
  <2>1. i + 0 = i /\ (i + 0) - 1 = i - 1  BY <1>1
  <2> QED  BY <1>5, <1>6, <2>1
<1>8. ASSUME NEW k \in Nat, k \in T  PROVE  k + 1 \in T
  <2> SUFFICES ASSUME i + (k + 1) <= Len(q)  PROVE  f[i + (k + 1)] = g[(i + (k + 1)) - 1]
    OBVIOUS
  <2> DEFINE j == i + k
  <2>1. /\ i + (k + 1) = j + 1 /\ (j + 1) - 1 = j /\ j \in 1 .. Len(r) /\ j + 1 \in 1 .. Len(q)
        /\ j \in 1 .. Len(q) - 1 /\ ~(j < i) /\ f[j] = g[j - 1]
    BY <1>1, <1>2, <1>8
  <2> HIDE DEF T, j
  <2>2. r[j] = q[j + 1]  BY <1>2, <2>1
  <2>3. f[j + 1] = IF IsSafety(q[j + 1]) THEN Append(f[j], q[j + 1]) ELSE f[j]
    BY <1>3, <2>1 DEF Keeps
  <2>4. g[j] = IF IsSafety(r[j]) THEN Append(g[j - 1], r[j]) ELSE g[j - 1]
    BY <1>4, <2>1 DEF Keeps
  <2> QED  BY <2>1, <2>2, <2>3, <2>4
<1>9. Nat \subseteq T
  <2> HIDE DEF T
  <2> QED  BY <1>7, <1>8, SetInduction
<1>10. Len(q) - i \in Nat /\ i + (Len(q) - i) = Len(q)  BY <1>1, <1>2
<1>11. f[Len(q)] = g[Len(r)]  BY <1>2, <1>9, <1>10
<1> QED  BY <1>3, <1>4, <1>11 DEF r

\* A sequence is a prefix of itself and of what is appended to it.
LEMMA PrefixOfAppend ==
  ASSUME NEW s \in Seq(Event), NEW e \in Event
  PROVE  IsPrefix(s, s) /\ IsPrefix(s, Append(s, e))
<1>1. SubSeq(s, 1, Len(s)) = s /\ Len(s) <= Len(s)  OBVIOUS
<1>2. Len(Append(s, e)) = Len(s) + 1 /\ SubSeq(Append(s, e), 1, Len(s)) = s  OBVIOUS
<1>3. Len(s) <= Len(s) + 1  OBVIOUS
<1> QED  BY <1>1, <1>2, <1>3 DEF IsPrefix

\* There are events at all.
LEMMA OneEvent == [type |-> "control", note |-> None, offset |-> 0] \in Event
  BY DEF Event

\* enqueuePendingEvent() drops and displaces no release.
LEMMA EnqueueKeepsReleases ==
  ASSUME TypeInv, NEW e \in Event, Enqueue(e)
  PROVE  IsPrefix(Releases(queue), Releases(queue'))
<1>1. queue \in Seq(Event) /\ Len(queue) \in Nat  BY DEF TypeInv, TypeOK
<1>2. Releases(queue) \in Seq(Event)  BY <1>1, ReleasesAppend
<1>3. CASE queue' = queue  BY <1>2, <1>3, PrefixOfAppend
<1>4. CASE queue' = Append(queue, e)
  BY <1>1, <1>2, <1>4, ReleasesAppend, PrefixOfAppend
<1>5. CASE Plain(queue) # {} /\ queue' = Append(Without(queue, Newest(queue)), e)
  <2>1. Newest(queue) \in Plain(queue)  BY <1>1, <1>5, NewestIsPlain
  <2>2. Without(queue, Newest(queue)) \in Seq(Event)
    BY <1>1, <2>1, WithoutProperties DEF Plain
  <2>3. Releases(Without(queue, Newest(queue))) = Releases(queue)
    BY <1>1, <2>1, ReleasesWithout
  <2> QED  BY <1>2, <1>5, <2>2, <2>3, ReleasesAppend, PrefixOfAppend
<1> QED  BY <1>3, <1>4, <1>5 DEF Enqueue

\* "note-off/all-notes-off cannot be silently displaced": while events are queued, for every
\* capacity and reserve.
THEOREM ReleasesStayQueued == Spec => ReleasesAreKept
<1>1. ASSUME TypeInv, [Next]_vars, phase = phase', phase # "render"
      PROVE  IsPrefix(Releases(queue), Releases(queue'))
  <2>1. CASE queue' = queue
    <3>1. Releases(queue) \in Seq(Event)  BY <1>1, ReleasesAppend, OneEvent DEF TypeInv, TypeOK
    <3> QED  BY <2>1, <3>1, PrefixOfAppend, OneEvent
  <2>2. ASSUME NEW e \in Event, UiNote(e) \/ HostEvent(e)
        PROVE  IsPrefix(Releases(queue), Releases(queue'))
    BY <1>1, <2>2, EnqueueKeepsReleases DEF UiNote, HostEvent
  <2>3. CASE \/ \E n \in BlockSizes, controls \in Settings : BeginBlock(n, controls)
             \/ \E panic \in BOOLEAN : ReadLatch(panic)
             \/ ReadSample \/ Oversized \/ ReadProgram \/ Dispatch \/ RenderSegment \/ EndBlock
    BY <1>1, <2>3 DEF BeginBlock, ReadLatch, ReadSample, Oversized, ReadProgram, Dispatch, Due,
                      RenderSegment, EndBlock
  <2>4. CASE (\E what \in Snapshots : Publish(what)) \/ UNCHANGED vars
    BY <2>1, <2>4 DEF Publish, vars
  <2> QED  BY <1>1, <2>2, <2>3, <2>4, EveryStep
<1>2. TypeInv /\ [Next]_vars =>
        [phase = phase' /\ phase /= "render" => IsPrefix(Releases(queue), Releases(queue'))]_vars
  BY <1>1
<1> QED  BY <1>2, Types, PTL DEF Spec, ReleasesAreKept

-----------------------------------------------------------------------------
(* No stuck notes.                                                         *)

\* An event is queued at the end; an event that is no release, the newest one, may be displaced.
Added(e, i) ==
  /\ i \in 1 .. Len(queue) + 1
  /\ Len(queue') = IF i <= Len(queue) THEN Len(queue) ELSE Len(queue) + 1
  /\ queue'[Len(queue')] = e
  /\ \A k \in 1 .. Len(queue') - 1 : queue'[k] = IF k < i THEN queue[k] ELSE queue[k + 1]
  /\ i <= Len(queue) => ~IsSafety(queue[i])
  /\ recovery' = recovery

\* enqueuePendingEvent() queues an event, drops one that is no release, or asks for a recovery when
\* all that is queued are releases.
LEMMA EnqueueCases ==
  ASSUME TypeInv, NEW e \in Event, Enqueue(e)
  PROVE  \/ \E i : Added(e, i) /\ (Len(queue) < Capacity \/ (IsSafety(e) /\ Plain(queue) # {}))
         \/ ~IsSafety(e) /\ queue' = queue /\ recovery' = recovery
         \/ IsSafety(e) /\ queue' = queue /\ recovery' /\ Plain(queue) = {} /\ Len(queue) >= Capacity
<1>1. queue \in Seq(Event) /\ Len(queue) \in Nat  BY DEF TypeInv, TypeOK
<1>2. CASE queue' = Append(queue, e) /\ recovery' = recovery
  <2>1. Added(e, Len(queue) + 1)  BY <1>1, <1>2 DEF Added
  <2>2. Len(queue) < Capacity \/ ~(Len(queue) < (IF IsSafety(e) THEN Capacity ELSE Capacity - Reserve))
    BY <1>1, NoteAssumption
  <2>3. CASE Len(queue) < Capacity  BY <2>1, <2>3
  <2>4. CASE ~(Len(queue) < (IF IsSafety(e) THEN Capacity ELSE Capacity - Reserve))
    <3>1. Plain(queue) # {} => Len(Without(queue, Newest(queue))) = Len(queue) - 1
      BY <1>1, NewestIsPlain, WithoutProperties DEF Plain
    <3>2. queue' # queue  BY <1>1, <1>2
    <3>3. IsSafety(e) /\ Plain(queue) # {}  BY <3>2, <2>4 DEF Enqueue
    <3> QED  BY <2>1, <3>3
  <2> QED  BY <2>2, <2>3, <2>4
<1>3. CASE IsSafety(e) /\ Plain(queue) # {} /\ queue' = Append(Without(queue, Newest(queue)), e)
           /\ recovery' = recovery
  <2> DEFINE i == Newest(queue)
             r == Without(queue, i)
  <2>1. i \in 1 .. Len(queue) /\ ~IsSafety(queue[i])  BY <1>1, <1>3, NewestIsPlain DEF Plain
  <2>2. /\ r \in Seq(Event) /\ Len(r) = Len(queue) - 1
        /\ \A k \in 1 .. Len(queue) - 1 : r[k] = IF k < i THEN queue[k] ELSE queue[k + 1]
    BY <1>1, <2>1, WithoutProperties
  <2> HIDE DEF i, r
  <2>3. Len(Append(r, e)) = Len(queue) /\ Append(r, e)[Len(queue)] = e
        /\ \A k \in 1 .. Len(queue) - 1 : Append(r, e)[k] = r[k]
    BY <1>1, <2>2
  <2>4. queue' = Append(r, e)  BY <1>3 DEF r, i
  <2>5. Len(queue') = Len(queue) /\ queue'[Len(queue)] = e  BY <2>3, <2>4
  <2>6. \A k \in 1 .. Len(queue) - 1 : queue'[k] = IF k < i THEN queue[k] ELSE queue[k + 1]
    BY <2>2, <2>3, <2>4
  <2>7. i \in 1 .. Len(queue) + 1 /\ i <= Len(queue)  BY <1>1, <2>1
  <2>8. Added(e, i)  BY <1>3, <2>1, <2>5, <2>6, <2>7 DEF Added
  <2> QED  BY <1>3, <2>8
<1>4. CASE ~IsSafety(e) /\ queue' = queue /\ recovery' = recovery  BY <1>4
<1>5. CASE /\ ~(Len(queue) < (IF IsSafety(e) THEN Capacity ELSE Capacity - Reserve))
           /\ IsSafety(e) /\ Plain(queue) = {} /\ recovery' = TRUE /\ queue' = queue
  <2>1. Len(queue) >= Capacity  BY <1>1, <1>5, NoteAssumption
  <2> QED  BY <1>5, <2>1
<1> QED  BY <1>2, <1>3, <1>4, <1>5 DEF Enqueue

\* What ends a note ends it after the event is queued, unless it asks for a recovery.
LEMMA AddedKeepsOwed ==
  ASSUME TypeInv, NEW e \in Event, NEW i, Added(e, i), down' = Keys(e), NEW n
  PROVE  /\ Owed(n, 0) => Owed(n, 0)'
         /\ \A k \in 1 .. Len(queue') - 1 :
              Owed(n, IF k < i THEN k ELSE k + 1) => Owed(n, k)'
<1>1. /\ Len(queue) \in Nat /\ i \in 1 .. Len(queue) + 1 /\ Len(queue') \in 1 .. Len(queue) + 1
      /\ Len(queue') = IF i <= Len(queue) THEN Len(queue) ELSE Len(queue) + 1
  BY DEF TypeInv, TypeOK, Added
<1>2. ASSUME NEW place \in 0 .. Len(queue') - 1, NEW old, old = IF place < i THEN place ELSE place + 1,
             Owed(n, old)
      PROVE  Owed(n, place)'
  <2>1. Len(queue') \in place + 1 .. Len(queue')  BY <1>1
  <2>2. CASE n \in down
    <3>1. n \in down' \/ Ends(n, e)  BY <2>2 DEF Keys, Ends, Event
    <3> QED  BY <2>1, <3>1 DEF Owed, Added
  <2>3. ASSUME NEW j \in old + 1 .. Len(queue), Ends(n, queue[j])  PROVE  Owed(n, place)'
    <3>0. place \in Int /\ old \in Int /\ j \in Int  BY <1>1, <1>2
    <3>1. j # i
      <4> SUFFICES ASSUME j = i  PROVE  FALSE  OBVIOUS
      <4>1. i <= Len(queue)  BY <1>1, <3>0
      <4>2. ~IsSafety(queue[i])  BY <4>1 DEF Added
      <4> QED  BY <2>3, <4>2 DEF Ends, IsSafety
    <3>2. CASE j < i
      <4>1. j \in place + 1 .. Len(queue') /\ j \in 1 .. Len(queue') - 1  BY <1>1, <1>2, <3>0, <3>2
      <4>2. queue'[j] = queue[j]  BY <3>2, <4>1 DEF Added
      <4> QED  BY <2>3, <4>1, <4>2 DEF Owed
    <3>3. CASE j > i
      <4>1. /\ j - 1 \in place + 1 .. Len(queue') /\ j - 1 \in 1 .. Len(queue') - 1
            /\ ~(j - 1 < i) /\ (j - 1) + 1 = j
        BY <1>1, <1>2, <3>0, <3>3
      <4>2. queue'[j - 1] = queue[j]  BY <4>1 DEF Added
      <4> QED  BY <2>3, <4>1, <4>2 DEF Owed
    <3> QED  BY <1>1, <3>0, <3>1, <3>2, <3>3
  <2> QED  BY <1>2, <2>2, <2>3 DEF Owed
<1>3. Owed(n, 0) => Owed(n, 0)'
  <2>1. 0 \in 0 .. Len(queue') - 1 /\ 0 = IF 0 < i THEN 0 ELSE 0 + 1  BY <1>1
  <2> QED  BY <1>2, <2>1
<1>4. ASSUME NEW k \in 1 .. Len(queue') - 1, Owed(n, IF k < i THEN k ELSE k + 1)  PROVE Owed(n, k)'
  <2>1. k \in 0 .. Len(queue') - 1  BY <1>1
  <2> QED  BY <1>2, <1>4, <2>1
<1> QED  BY <1>3, <1>4

\* The events of the user interface and of the host keep what notes are owed.
LEMMA EnqueueKeepsOwed ==
  ASSUME TypeInv, cursor = 0, cursor' = 0, voice' = voice, NotesOwed,
         recovery => Plain(queue) = {} /\ Len(queue) >= Capacity,
         NEW e \in Event, Enqueue(e), down' = Keys(e)
  PROVE  NotesOwed'
<1>1. /\ queue \in Seq(Event) /\ Len(queue) \in Nat /\ recovery \in BOOLEAN
      /\ Capacity \in Nat
  BY NoteAssumption DEF TypeInv, TypeOK
<1>2. ASSUME NEW i, Added(e, i)  PROVE  NotesOwed'
  <2>1. ASSUME NEW v \in Active(voice'), voice'[v].held /\ voice'[v].gate, NEW n, n = voice'[v].note
        PROVE  recovery' \/ Owed(n, 0)'
    <3>1. recovery \/ Owed(n, 0)  BY <2>1 DEF NotesOwed
    <3>2. Owed(n, 0) => Owed(n, 0)'  BY <1>2, AddedKeepsOwed
    <3> QED  BY <3>1, <3>2, <1>2 DEF Added
  <2>2. ASSUME NEW k \in 1 .. Len(queue'), queue'[k].type = "noteOn", NEW n, n = queue'[k].note
        PROVE  Owed(n, k)'
    <3>1. /\ i \in 1 .. Len(queue) + 1 /\ Len(queue') \in 1 .. Len(queue) + 1
          /\ Len(queue') = IF i <= Len(queue) THEN Len(queue) ELSE Len(queue) + 1
      BY <1>1, <1>2 DEF Added
    <3>2. CASE k = Len(queue')
      <4>1. queue'[k] = e  BY <1>2, <3>2 DEF Added
      <4>2. n \in down'  BY <2>2, <4>1 DEF Keys
      <4> QED  BY <4>2 DEF Owed
    <3>3. CASE k # Len(queue')
      <4> DEFINE p == IF k < i THEN k ELSE k + 1
      <4>1. k \in 1 .. Len(queue') - 1 /\ p \in 1 .. Len(queue)  BY <1>1, <3>1, <3>3
      <4>2. queue'[k] = queue[p]  BY <1>2, <4>1 DEF Added
      <4>3. Owed(n, p)  BY <2>2, <4>1, <4>2 DEF NotesOwed
      <4> QED  BY <4>1, <4>3, <1>2, AddedKeepsOwed
    <3> QED  BY <3>2, <3>3
  <2> QED  BY <2>1, <2>2 DEF NotesOwed
<1>3. CASE ~IsSafety(e) /\ queue' = queue /\ recovery' = recovery
  <2>1. down \subseteq down'  BY <1>3 DEF Keys, IsSafety
  <2>2. \A n, k : Owed(n, k) => Owed(n, k)'  BY <1>3, <2>1 DEF Owed
  <2> QED  BY <1>3, <2>2 DEF NotesOwed
<1>4. CASE queue' = queue /\ recovery' /\ Plain(queue) = {}
  <2>1. \A k \in 1 .. Len(queue) : queue[k].type # "noteOn"  BY <1>4 DEF Plain, IsSafety
  <2> QED  BY <1>4, <2>1 DEF NotesOwed
<1> QED  BY <1>2, <1>3, <1>4, EnqueueCases

\* An event at or behind the place of the block keeps the queue in order.
LEMMA EnqueueInOrder ==
  ASSUME TypeInv, NEW e \in Event, Enqueue(e), QueueInOrder,
         phase \in {"ui", "host"}, at <= e.offset, e.offset < size,
         at' = e.offset, phase' = phase, size' = size
  PROVE  QueueInOrder'
<1>1. /\ queue \in Seq(Event) /\ Len(queue) \in Nat /\ at \in Nat /\ size \in Nat /\ e.offset \in Nat
      /\ \A k \in 1 .. Len(queue) : queue[k].offset \in Nat
  <2>1. \A x \in Event : x.offset \in Nat  BY DEF Event
  <2> QED  BY <2>1 DEF TypeInv, TypeOK
<1>2. /\ \A j, k \in 1 .. Len(queue) : j < k => queue[j].offset <= queue[k].offset
      /\ \A k \in 1 .. Len(queue) : queue[k].offset <= at
      /\ recovery => Plain(queue) = {} /\ Len(queue) >= Capacity
      /\ size # 0
  BY DEF QueueInOrder
<1>3. ASSUME NEW i, Added(e, i), Len(queue) < Capacity \/ (IsSafety(e) /\ Plain(queue) # {})
      PROVE  QueueInOrder'
  <2>1. /\ i \in 1 .. Len(queue) + 1 /\ Len(queue') \in 1 .. Len(queue) + 1
        /\ Len(queue') = IF i <= Len(queue) THEN Len(queue) ELSE Len(queue) + 1
    BY <1>1, <1>3 DEF Added
  <2>2. ~recovery'
    BY <1>1, <1>2, <1>3, NoteAssumption DEF Added, TypeInv, TypeOK
  <2> DEFINE p(k) == IF k < i THEN k ELSE k + 1
  <2>3. \A k \in 1 .. Len(queue') - 1 : p(k) \in 1 .. Len(queue) /\ queue'[k].offset = queue[p(k)].offset
    BY <1>1, <1>3, <2>1 DEF Added
  <2>4. \A j, k \in 1 .. Len(queue') - 1 : j < k => p(j) < p(k)
    BY <2>1
  <2>5. queue'[Len(queue')].offset = e.offset  BY <1>3 DEF Added
  <2> HIDE DEF p
  <2>6. \A k \in 1 .. Len(queue') : queue'[k].offset <= e.offset /\ queue'[k].offset \in Nat
    <3> SUFFICES ASSUME NEW k \in 1 .. Len(queue')
                 PROVE  queue'[k].offset <= e.offset /\ queue'[k].offset \in Nat
      OBVIOUS
    <3>1. CASE k = Len(queue')  BY <3>1, <2>5, <1>1
    <3>2. CASE k \in 1 .. Len(queue') - 1
      <4>1. queue'[k].offset \in Nat /\ queue'[k].offset <= at  BY <3>2, <2>3, <1>1, <1>2
      <4> QED  BY <4>1, <1>1
    <3> QED  BY <3>1, <3>2, <2>1
  <2>7. \A j, k \in 1 .. Len(queue') : j < k => queue'[j].offset <= queue'[k].offset
    <3> SUFFICES ASSUME NEW j \in 1 .. Len(queue'), NEW k \in 1 .. Len(queue'), j < k
                 PROVE  queue'[j].offset <= queue'[k].offset
      OBVIOUS
    <3>1. CASE k = Len(queue')  BY <3>1, <2>5, <2>6
    <3>2. CASE k # Len(queue')
      <4>1. j \in 1 .. Len(queue') - 1 /\ k \in 1 .. Len(queue') - 1  BY <3>2, <2>1
      <4>2. p(j) < p(k)  BY <4>1, <2>4
      <4> QED  BY <4>1, <4>2, <2>3, <1>2
    <3> QED  BY <3>1, <3>2
  <2>8. \A k \in 1 .. Len(queue') : queue'[k].offset < size
    BY <1>1, <2>6
  <2> QED  BY <1>2, <2>2, <2>6, <2>7, <2>8 DEF QueueInOrder
<1>4. CASE queue' = queue
  <2>1. \A k \in 1 .. Len(queue) : queue[k].offset <= e.offset /\ queue[k].offset < size
    BY <1>1, <1>2
  <2>2. recovery' => Plain(queue) = {} /\ Len(queue) >= Capacity
    <3>1. ASSUME NEW i, Added(e, i)  PROVE  recovery' = recovery  BY <3>1 DEF Added
    <3> QED  BY <1>2, <3>1, EnqueueCases
  <2> QED  BY <1>2, <1>4, <2>1, <2>2 DEF QueueInOrder, Plain
<1> QED  BY <1>3, <1>4, EnqueueCases

\* Every step keeps the queue in order.
LEMMA StepInOrder ==
  ASSUME TypeInv, QueueInOrder, EventsFit, [Next]_vars
  PROVE  QueueInOrder'
<1>1. /\ queue \in Seq(Event) /\ Len(queue) \in Nat /\ at \in 0 .. size /\ size \in Nat
      /\ cursor \in 0 .. Len(queue) /\ recovery \in BOOLEAN
      /\ \A k \in 1 .. Len(queue) : queue[k].offset \in Nat
  <2>1. \A x \in Event : x.offset \in Nat  BY DEF Event
  <2> QED  BY <2>1 DEF TypeInv, TypeOK
<1>2. ASSUME NEW n \in BlockSizes, NEW controls \in Settings, BeginBlock(n, controls)  PROVE  QueueInOrder'
  <2>1. queue' = <<>> /\ ~recovery' /\ size' # 0 /\ phase' = "ui"
    BY <1>2, NoteAssumption DEF BeginBlock, QueueInOrder
  <2> QED  BY <2>1 DEF QueueInOrder
<1>3. ASSUME NEW e \in Event, UiNote(e)  PROVE  QueueInOrder'
  <2>1. at = 0 /\ at' = at /\ e.offset = 0 /\ phase = "ui" /\ phase' = phase /\ size' = size
    BY <1>3 DEF UiNote, TypeInv, Positioned, block
  <2>2. e.offset < size  BY <1>1, <2>1 DEF QueueInOrder
  <2> QED  BY <1>3, <2>1, <2>2, EnqueueInOrder DEF UiNote
<1>4. ASSUME NEW e \in Event, HostEvent(e)  PROVE  QueueInOrder'
  BY <1>4, EnqueueInOrder DEF HostEvent
<1>5. ASSUME NEW panic \in BOOLEAN, ReadLatch(panic)  PROVE  QueueInOrder'
  <2>1. CASE panic
    <3>1. queue' = <<>> /\ ~recovery' /\ phase = "ui" /\ phase' = "host" /\ size' = size
      BY <1>5, <2>1 DEF ReadLatch, block
    <3> QED  BY <3>1 DEF QueueInOrder
  <2>2. CASE ~panic
    <3>1. queue' = queue /\ recovery' = recovery /\ phase = "ui" /\ phase' = "host" /\ size' = size /\ at' = at
      BY <1>5, <2>2 DEF ReadLatch, block
    <3> QED  BY <3>1 DEF QueueInOrder, Plain
  <2> QED  BY <2>1, <2>2
<1>6. CASE ReadSample
  <2>1. queue' = queue /\ recovery' = recovery /\ phase = "host" /\ phase' = "read" /\ size' = size
    BY <1>6 DEF ReadSample
  <2> QED  BY <2>1 DEF QueueInOrder, Plain
<1>7. CASE Oversized
  <2>1. queue = <<>> /\ queue' = <<>> /\ recovery' = recovery /\ phase' = "idle"
    BY <1>7 DEF Oversized, EventsFit
  <2>2. ~recovery
    <3>1. Len(queue) < Capacity  BY <2>1, NoteAssumption
    <3> QED  BY <1>1, <3>1, NoteAssumption DEF QueueInOrder
  <2> QED  BY <2>1, <2>2 DEF QueueInOrder
<1>8. CASE ReadProgram
  <2>1. Sorted(queue) = queue  BY <1>1, SortedInOrder DEF QueueInOrder
  <2>2. /\ queue' = queue /\ ~recovery' /\ phase = "read" /\ phase' = "render" /\ size' = size /\ at' = at
        /\ cursor' = cursor
    BY <1>8, <2>1 DEF ReadProgram
  <2>3. at = 0  BY <2>2 DEF TypeInv, Positioned
  <2>4. \A k \in cursor + 1 .. Len(queue) : at <= queue[k].offset  BY <1>1, <2>3
  <2> QED  BY <2>2, <2>4 DEF QueueInOrder
<1>9. CASE Dispatch
  <2>1. /\ queue' = queue /\ recovery' = recovery /\ phase = "render" /\ phase' = phase /\ size' = size
        /\ at' = at /\ cursor' = cursor + 1
    BY <1>9 DEF Dispatch, Due
  <2>2. \A k \in cursor' + 1 .. Len(queue) : at <= queue[k].offset
    BY <1>1, <2>1 DEF QueueInOrder
  <2> QED  BY <2>1, <2>2 DEF QueueInOrder, Plain
<1>10. CASE RenderSegment
  <2>1. /\ queue' = queue /\ recovery' = recovery /\ phase = "render" /\ phase' = phase /\ size' = size
        /\ at' = NextOffset /\ cursor' = cursor
    BY <1>10 DEF RenderSegment
  <2>2. \A k \in cursor + 1 .. Len(queue) : at' <= queue[k].offset
    <3> SUFFICES ASSUME NEW k \in cursor + 1 .. Len(queue)  PROVE  at' <= queue[k].offset
      OBVIOUS
    <3>1. cursor < Len(queue) /\ cursor + 1 \in 1 .. Len(queue) /\ k \in 1 .. Len(queue)  BY <1>1
    <3>2. queue[cursor + 1].offset < size  BY <3>1 DEF QueueInOrder
    <3>3. at' = queue[cursor + 1].offset  BY <2>1, <3>1, <3>2 DEF NextOffset
    <3>4. CASE k = cursor + 1  BY <3>3, <3>4, <1>1, <3>1
    <3>5. CASE k # cursor + 1
      <4>1. cursor + 1 < k  BY <1>1, <3>5
      <4> QED  BY <3>1, <3>3, <4>1 DEF QueueInOrder
    <3> QED  BY <3>4, <3>5
  <2> QED  BY <2>1, <2>2 DEF QueueInOrder, Plain
<1>11. CASE EndBlock
  <2>1. queue' = <<>> /\ ~recovery' /\ phase' = "idle"
    BY <1>11 DEF EndBlock, QueueInOrder
  <2> QED  BY <2>1 DEF QueueInOrder
<1>12. ASSUME NEW what \in Snapshots, Publish(what)  PROVE  QueueInOrder'
  BY <1>12 DEF Publish, block, QueueInOrder, Plain
<1>13. CASE UNCHANGED vars  BY <1>13 DEF vars, block, QueueInOrder, Plain
<1> QED
  BY <1>2, <1>3, <1>4, <1>5, <1>6, <1>7, <1>8, <1>9, <1>10, <1>11, <1>12, <1>13, EveryStep

\* What is owed stays owed while the queue and the keys stay as they are and voices end or go on.
LEMMA FewerOwed ==
  ASSUME NotesOwed, Fewer(voice', voice), queue' = queue, down' = down, cursor' = cursor,
         recovery' = recovery
  PROVE  NotesOwed'
<1>1. ASSUME NEW n, NEW k, Owed(n, k)  PROVE  Owed(n, k)'  BY <1>1 DEF Owed
<1>2. ASSUME NEW v \in Active(voice'), voice'[v].held /\ voice'[v].gate, NEW n, n = voice'[v].note
      PROVE  recovery' \/ Owed(n, cursor)'
  <2>1. v \in Active(voice) /\ voice[v].held /\ voice[v].gate /\ voice[v].note = n
    BY <1>2 DEF Fewer, Continues
  <2>2. recovery \/ Owed(n, cursor)  BY <2>1 DEF NotesOwed
  <2>3. ASSUME NEW c, c = cursor, Owed(n, c)  PROVE  Owed(n, cursor)'  BY <2>3 DEF Owed
  <2> QED  BY <2>2, <2>3
<1>3. \A i \in cursor + 1 .. Len(queue) : queue[i].type = "noteOn" => Owed(queue[i].note, i)'
  BY <1>1 DEF NotesOwed
<1> QED  BY <1>2, <1>3 DEF NotesOwed

\* The event that is dispatched gives back what it owes.
LEMMA DispatchOwed ==
  ASSUME TypeInv, QueueInOrder, NotesOwed, Dispatch
  PROVE  NotesOwed'
<1>0. PICK p, e : p = cursor + 1 /\ e = queue[p]  OBVIOUS
<1>1. /\ cursor \in Nat /\ p = cursor + 1 /\ p \in 1 .. Len(queue) /\ Len(queue) \in Nat
      /\ e = queue[p] /\ Dispatched(e) /\ cursor' = p /\ queue' = queue /\ down' = down
      /\ ~recovery
  BY <1>0, NextEvent, DispatchVoices DEF TypeInv, TypeOK, QueueInOrder, Dispatch, Due
<1>2. ASSUME NEW n, Owed(n, cursor), ~Ends(n, e)  PROVE  Owed(n, p)'
  <2>1. CASE n \in down  BY <1>1, <2>1 DEF Owed
  <2>2. ASSUME NEW i \in p .. Len(queue), Ends(n, queue[i])  PROVE  Owed(n, p)'
    <3>1. i # p  BY <1>1, <1>2, <2>2
    <3>2. i \in p + 1 .. Len(queue)  BY <1>1, <3>1
    <3> QED  BY <1>1, <2>2, <3>2 DEF Owed
  <2> QED  BY <1>1, <1>2, <2>1, <2>2 DEF Owed
<1>3. ASSUME e.type = "noteOn", NEW n, n = e.note  PROVE  Owed(n, p)'
  <2>1. p \in cursor + 1 .. Len(queue)  BY <1>1
  <2>2. Owed(n, p)  BY <1>1, <1>3, <2>1 DEF NotesOwed
  <2> QED  BY <1>1, <2>2 DEF Owed
<1>4. ASSUME NEW v \in Active(voice'), voice'[v].held /\ voice'[v].gate, NEW n, n = voice'[v].note
      PROVE  Owed(n, p)'
  <2> DEFINE Old == v \in Active(voice) /\ voice[v].held /\ voice[v].gate /\ voice[v].note = n
  <2>0. Old => Owed(n, cursor)  BY <1>1 DEF NotesOwed
  <2>1. CASE e.type = "allNotesOff" /\ voice' = StopAll
    BY <1>4, <2>1 DEF Active, StopAll, Silent
  <2>2. CASE e.type = "control" /\ voice' = voice
    BY <1>2, <1>4, <2>0, <2>2 DEF Ends
  <2>3. CASE e.type = "noteOff" /\ Relieved(voice', voice, e.note)
    <3>1. Old /\ n # e.note  BY <1>4, <2>3 DEF Relieved, Continues
    <3> QED  BY <1>2, <2>0, <2>3, <3>1 DEF Ends
  <2>4. CASE e.type = "noteOn" /\ Fewer(voice', voice)
    <3>1. Old  BY <1>4, <2>4 DEF Fewer, Continues
    <3> QED  BY <1>2, <2>0, <2>4, <3>1 DEF Ends
  <2>5. ASSUME e.type = "noteOn", NEW zones, Struck(voice', voice, e.note, zones)
        PROVE  Owed(n, p)'
    <3>1. CASE n = e.note  BY <1>3, <2>5, <3>1
    <3>2. CASE n # e.note
      <4>1. Old  BY <1>4, <2>5, <3>2 DEF Struck, Same
      <4> QED  BY <1>2, <2>0, <2>5, <4>1 DEF Ends
    <3> QED  BY <3>1, <3>2
  <2> QED  BY <1>1, <2>1, <2>2, <2>3, <2>4, <2>5 DEF Dispatched
<1>5. ASSUME NEW i \in p + 1 .. Len(queue), queue[i].type = "noteOn",
             NEW n, n = queue[i].note
      PROVE  Owed(n, i)'
  <2>1. i \in cursor + 1 .. Len(queue)  BY <1>1
  <2>2. Owed(n, i)  BY <1>5, <2>1 DEF NotesOwed
  <2> QED  BY <1>1, <2>2 DEF Owed
<1>6. ASSUME NEW v \in Active(voice'), voice'[v].held /\ voice'[v].gate, NEW n, n = voice'[v].note
      PROVE  Owed(n, cursor)'
  BY <1>1, <1>4, <1>6 DEF Owed
<1> QED  BY <1>1, <1>5, <1>6 DEF NotesOwed

\* Every step keeps what notes are owed.
LEMMA StepOwed ==
  ASSUME TypeInv, QueueInOrder, NotesOwed, EventsFit, [Next]_vars
  PROVE  NotesOwed'
<1>0. /\ queue \in Seq(Event) /\ Len(queue) \in Nat /\ cursor \in 0 .. Len(queue) /\ recovery \in BOOLEAN
  BY DEF TypeInv, TypeOK
<1>1. ~Dispatch => Fewer(voice', voice)  BY VoicesStep
<1> DEFINE Still == /\ ~Dispatch /\ queue' = queue /\ down' = down /\ cursor' = cursor
                    /\ recovery' = recovery
<1>2. ASSUME Still  PROVE  NotesOwed'  BY <1>1, <1>2, FewerOwed
<1>3. ASSUME NEW n \in BlockSizes, NEW controls \in Settings, BeginBlock(n, controls)  PROVE  Still
  BY <1>3 DEF BeginBlock, Dispatch, Due
<1>4. ASSUME NEW e \in Event, UiNote(e) \/ HostEvent(e)  PROVE  NotesOwed'
  <2>1. /\ cursor = 0 /\ cursor' = cursor /\ voice' = voice /\ Enqueue(e) /\ down' = Keys(e)
        /\ recovery => Plain(queue) = {} /\ Len(queue) >= Capacity
    BY <1>4 DEF UiNote, HostEvent, block, TypeInv, Positioned, QueueInOrder
  <2> QED  BY <2>1, EnqueueKeepsOwed
<1>5. ASSUME NEW panic \in BOOLEAN, ReadLatch(panic)  PROVE  NotesOwed'
  <2>1. CASE panic
    <3>1. voice' = StopAll /\ queue' = <<>> /\ cursor' = 0
      BY <1>5, <2>1 DEF ReadLatch, block, TypeInv, Positioned
    <3> QED  BY <3>1 DEF NotesOwed, Active, StopAll, Silent
  <2>2. CASE ~panic
    <3>1. Still  BY <1>5, <2>2 DEF ReadLatch, block, Dispatch, Due
    <3> QED  BY <1>2, <3>1
  <2> QED  BY <2>1, <2>2
<1>6. CASE ReadSample
  <2>1. Still  BY <1>6 DEF ReadSample, Dispatch, Due
  <2> QED  BY <1>2, <2>1
<1>7. CASE Oversized
  <2>1. Still  BY <1>7 DEF Oversized, Dispatch, Due
  <2> QED  BY <1>2, <2>1
<1>8. CASE ReadProgram
  <2>1. Sorted(queue) = queue  BY <1>0, SortedInOrder DEF QueueInOrder
  <2>2. queue' = queue /\ down' = down /\ cursor' = cursor /\ recovery' = FALSE /\ ~Dispatch
    BY <1>8, <2>1 DEF ReadProgram, Dispatch, Due
  <2>3. CASE recovery
    <3>1. voice' = StopAll  BY <1>8, <2>3 DEF ReadProgram
    <3>2. Active(voice') = {}  BY <3>1 DEF Active, StopAll, Silent
    <3>3. \A i \in cursor + 1 .. Len(queue) : queue[i].type = "noteOn" => Owed(queue[i].note, i)'
      BY <2>2 DEF NotesOwed, Owed
    <3> QED  BY <2>2, <3>2, <3>3 DEF NotesOwed
  <2>4. CASE ~recovery  BY <1>2, <2>2, <2>4, <1>0
  <2> QED  BY <2>3, <2>4
<1>9. CASE Dispatch  BY <1>9, DispatchOwed
<1>10. CASE RenderSegment
  <2>1. Still  BY <1>10 DEF RenderSegment, Dispatch
  <2> QED  BY <1>2, <2>1
<1>11. CASE EndBlock
  <2>1. /\ queue' = <<>> /\ cursor' = 0 /\ down' = down /\ voice' = voice /\ at = size /\ phase = "render"
    BY <1>11 DEF EndBlock
  <2>2. ~recovery /\ cursor = Len(queue)
    <3>1. \A i \in cursor + 1 .. Len(queue) : size <= queue[i].offset /\ queue[i].offset < size
      BY <1>0, <2>1 DEF QueueInOrder
    <3>2. ASSUME cursor < Len(queue)  PROVE  FALSE
      <4>1. cursor + 1 \in cursor + 1 .. Len(queue) /\ cursor + 1 \in 1 .. Len(queue)  BY <1>0, <3>2
      <4>2. queue[cursor + 1] \in Event /\ size \in Nat  BY <1>0, <4>1 DEF TypeInv, TypeOK
      <4>3. queue[cursor + 1].offset \in Nat  BY <4>2 DEF Event
      <4> QED  BY <3>1, <4>1, <4>2, <4>3
    <3> QED  BY <1>0, <2>1, <3>2 DEF QueueInOrder
  <2>3. ASSUME NEW v \in Active(voice), voice[v].held /\ voice[v].gate, NEW n, n = voice[v].note
        PROVE  Owed(n, cursor)'
    <3>1. Owed(n, cursor)  BY <2>2, <2>3 DEF NotesOwed
    <3>2. n \in down  BY <1>0, <2>2, <3>1 DEF Owed
    <3> QED  BY <2>1, <3>2 DEF Owed
  <2> QED  BY <2>1, <2>3 DEF NotesOwed
<1>12. ASSUME NEW what \in Snapshots, Publish(what)  PROVE  Still
  BY <1>0, <1>12 DEF Publish, block, Dispatch, TypeInv, TypeOK
<1>13. CASE UNCHANGED vars
  <2>1. Still  BY <1>0, <1>13 DEF vars, block, Dispatch, TypeInv, TypeOK
  <2> QED  BY <1>2, <2>1
<1> HIDE DEF Still
<1> QED
  BY <1>2, <1>3, <1>4, <1>5, <1>6, <1>7, <1>8, <1>9, <1>10, <1>11, <1>12, <1>13, EveryStep

\* No stuck notes, for every capacity, reserve, polyphony and program, however many events are
\* dropped, displaced or recovered from, as long as the blocks with events are no larger than the
\* engine was prepared for.
THEOREM NoNoteIsStuck == Spec /\ []EventsFit => []NoStuckNotes
<1>1. Init => QueueInOrder /\ NotesOwed
  <2> SUFFICES ASSUME Init  PROVE  QueueInOrder /\ NotesOwed  OBVIOUS
  <2>1. queue = <<>> /\ ~recovery /\ phase = "idle" /\ Active(voice) = {} /\ cursor = 0
    BY DEF Init, Active, Silent
  <2> QED  BY <2>1 DEF QueueInOrder, NotesOwed
<1>2. TypeInv /\ QueueInOrder /\ NotesOwed /\ EventsFit /\ [Next]_vars => QueueInOrder' /\ NotesOwed'
  BY StepInOrder, StepOwed
<1>3. TypeInv /\ QueueInOrder /\ NotesOwed => NoStuckNotes
  <2> SUFFICES ASSUME TypeInv, QueueInOrder, NotesOwed, phase = "idle",
                      NEW v \in Active(voice), voice[v].held /\ voice[v].gate
               PROVE  voice[v].note \in down
    BY DEF NoStuckNotes
  <2>1. ~recovery /\ queue = <<>>  BY DEF QueueInOrder
  <2>2. Owed(voice[v].note, cursor) /\ cursor = 0  BY <2>1 DEF NotesOwed, TypeInv, Positioned
  <2> QED  BY <2>1, <2>2 DEF Owed
<1> QED  BY <1>1, <1>2, <1>3, Types, PTL DEF Spec
=============================================================================
