------------------------ MODULE LibraryBrowserProofs ------------------------
(***************************************************************************)
(* For every set of folders, files and spellings of paths, every size of a *)
(* timer tick, of a batch of previews and of the stored index: the list of *)
(* the browser is one whole scan, previews are of the file of their row,   *)
(* and whatever the browser waits for is under way.                        *)
(***************************************************************************)
EXTENDS LibraryBrowser, FiniteSetTheorems, SequenceTheorems, WellFoundedInduction, TLAPS

-----------------------------------------------------------------------------
(* The inductive invariant.  Its parts are about an editor e, so that they *)
(* can be said of what each handler makes of the editor.                   *)

TypeOK ==
    /\ disk \in [Roots -> [Names \cup {Deep} -> Int]]
    /\ identity \in [Roots -> 0 .. 2]
    /\ partitions \in Seq([root : Roots, entries : Seq(Files)])
    /\ peaks \in [Roots -> Stores]
    /\ savedRoot \in Roots \cup {None}
    /\ ed \in Editors
    /\ posted \in Seq(Posts)

\* The running scan fills the delivery that the list waits for.
Fills(e) == e.scan.job # None /\ e.delivery # None /\ e.delivery.of = e.scan.job.of

\* That scan is the newest one, and nobody has cancelled it while the browser is open.
ScanIsNewest(e) ==
    /\ e.scanning = (e.delivery # None)
    /\ e.delivery # None => e.delivery.of = e.generation /\ e.root # None
    /\ e.scan.job # None => e.scan.job.of <= e.generation
    /\ Fills(e) => /\ e.scan.job.root = e.root /\ ~e.delivery.complete
                   /\ e.open => ~e.scan.job.cancelled
    /\ e.scan.next # None =>
          /\ e.open /\ e.delivery # None /\ ~e.delivery.complete /\ ~Fills(e)
          /\ e.scan.next = ScanJob(e.root, e.generation)
    /\ e.open /\ e.scanning =>
          e.delivery.complete \/ Fills(e) \/ e.scan.next # None

\* A preview on an entry is of its file, and no older than its version.
IsTrue(entry) == entry.state = "ready" =>
    /\ entry.shown.root = entry.root /\ entry.shown.name = entry.name
    /\ entry.version <= entry.shown.version

\* Entries of a folder whose previews nobody waits for.
Ready(r, entries) == \A i \in DOMAIN entries :
    entries[i].root = r /\ IsTrue(entries[i]) /\ entries[i].state # "queued"

\* The list and what is to join or replace it are of the folder shown.
OneFolder(e) ==
    /\ \A i \in DOMAIN e.list : e.list[i].root = e.root /\ IsTrue(e.list[i])
    /\ Ready(e.root, e.staging)
    /\ e.delivery # None => /\ Ready(e.root, e.delivery.pending)
                            /\ Ready(e.root, e.delivery.replacement)
                            /\ Ready(e.root, e.delivery.rollback)

\* The rows on screen are entries of the list.
RowsExist(e) == \A row \in DOMAIN e.visible : e.visible[row] \in DOMAIN e.list

\* The names are those of one scan that went through.
Whole(r, names, done) == names # <<>> => <<r, names>> \in done

\* The list, or what a running scan leaves of it at its end, is whole.
ListIsWhole(e, done) ==
    IF e.delivery = None THEN e.staging = <<>> /\ Whole(e.root, NamesOf(e.list), done)
    ELSE LET d == e.delivery
         IN  /\ ~d.replacementReady => e.staging = <<>>
             /\ d.replacementReady => d.complete /\ ~d.incomplete
             /\ d.rollbackReady => Whole(e.root, NamesOf(d.rollback), done)
             /\ d.incomplete =>
                   d.complete /\ IF d.had THEN d.rollbackReady ELSE d.pending = <<>>
             /\ d.complete /\ ~d.incomplete =>
                   IF d.had
                   THEN d.replacementReady
                        /\ Whole(e.root, NamesOf(e.staging) \o NamesOf(d.replacement), done)
                   ELSE ~d.replacementReady
                        /\ Whole(e.root, NamesOf(e.list) \o NamesOf(d.pending), done)

\* What the scan has found and delivered so far.
ScanIsSound(e, done) ==
    LET job == e.scan.job
        d == e.delivery
    IN  /\ job # None /\ job.at \in {"save", "commit", "publish"} =>
              <<job.root, NamesOf(job.found)>> \in done
        /\ job # None /\ job.at = "warm" => job.warm # <<>>
        /\ Fills(e) =>
              /\ d.had = job.had
              /\ ~job.had => NamesOf(e.list) \o NamesOf(d.pending) = NamesOf(job.found)
              /\ job.at = "warm" =>
                    /\ job.had
                    /\ ~d.rollbackReady =>
                          <<e.root, NamesOf(d.rollback) \o NamesOf(job.warm)>> \in done
              /\ job.at # "warm" /\ job.had => d.rollbackReady
              /\ job.at \in {"warm", "open"} => job.found = <<>>
        /\ e.scan.next # None =>
              /\ e.list = <<>> /\ d.pending = <<>>
              /\ ~d.rollbackReady => d.rollback = <<>>

PartitionsAreWhole(stored, done) ==
    \A i \in DOMAIN stored : <<stored[i].root, NamesOf(stored[i].entries)>> \in done

\* A result is of the file that was asked for, and no older than its stamp; so is a stored preview.
GoodResults(results) == \A k \in DOMAIN results : results[k].ok =>
    /\ results[k].content.root = results[k].root /\ results[k].content.name = results[k].name
    /\ results[k].stamp <= results[k].content.version
GoodStore(r, store) == \A n \in Names : store[n] # None =>
    /\ store[n].content.root = r /\ store[n].content.name = n
    /\ store[n].stamp <= store[n].content.version
GoodJob(job) ==
    /\ \A k \in DOMAIN job.requests : job.requests[k].root = job.root
    /\ GoodResults(job.results) /\ GoodStore(job.root, job.store)

\* The last version a file had.
LastVersion(version) == IF version > 0 THEN version ELSE 0 - version

PreviewsAreGood(w, posts, stored, files) ==
    /\ w.job # None =>
          /\ GoodJob(w.job)
          /\ w.job.at = "build" =>
                LET request == Head(w.job.requests)
                IN  /\ w.job.requests # <<>>
                    /\ w.job.stamp <= LastVersion(files[request.root][request.name])
    /\ w.next # None => GoodJob(w.next)
    /\ \A k \in DOMAIN posts : GoodResults(posts[k].results)
    /\ \A r \in Roots : GoodStore(r, stored[r])

\* A batch of previews that the browser waits for is running, waits or is posted.
Runs(e) == /\ e.preview.job # None /\ ~e.preview.job.cancelled
           /\ e.preview.job.generation = e.previewGeneration
Arrives(e, posts) == {k \in DOMAIN posts : posts[k].generation = e.previewGeneration}

\* There is at most one, and none but while the browser says so.
OneBatch(e, posts) ==
    /\ e.preview.job # None => e.preview.job.generation <= e.previewGeneration
    /\ e.preview.next # None =>
          /\ ~Runs(e) /\ Arrives(e, posts) = {} /\ e.building
          /\ e.preview.next.generation = e.previewGeneration /\ ~e.preview.next.cancelled
    /\ \A k \in DOMAIN posts : posts[k].generation <= e.previewGeneration
    /\ Runs(e) => Arrives(e, posts) = {} /\ e.building
    /\ \A k, l \in Arrives(e, posts) : k = l
    /\ e.open /\ Arrives(e, posts) # {} => e.building
    /\ e.open /\ e.building =>
          e.preview.next # None \/ Runs(e) \/ Arrives(e, posts) # {}

\* A request or a result for entry i of the list.
Concerns(list, i, asked) ==
    \E k \in DOMAIN asked : asked[k].at = i /\ IsFor(list[i], asked[k])

\* Each row that waits is part of the batch.
RowsAreServed(e, posts) == e.open =>
    \A i \in DOMAIN e.list : e.list[i].state = "queued" =>
        /\ e.building
        /\ e.preview.next # None =>
              \/ Concerns(e.list, i, e.preview.next.requests)
              \/ Concerns(e.list, i, e.preview.next.results)
        /\ Runs(e) => \/ Concerns(e.list, i, e.preview.job.requests)
                      \/ Concerns(e.list, i, e.preview.job.results)
        /\ \A k \in Arrives(e, posts) : Concerns(e.list, i, posts[k].results)

\* The part about scans, the part about previews, and all that is said of an editor.
ScanPart(e, done) == ScanIsNewest(e) /\ ListIsWhole(e, done) /\ ScanIsSound(e, done)
PreviewPart(e, posts) == OneBatch(e, posts) /\ RowsAreServed(e, posts)
EditorInv(e, posts, done) == OneFolder(e) /\ ScanPart(e, done) /\ PreviewPart(e, posts)

BrowserInv ==
    /\ TypeOK
    /\ EditorInv(ed, posted, completed) /\ RowsExist(ed)
    /\ PartitionsAreWhole(partitions, completed)
    /\ PreviewsAreGood(ed.preview, posted, peaks, disk)

-----------------------------------------------------------------------------
(* Induction and recursion, without operator parameters.                   *)

\* Every non-empty set of natural numbers has a least element.
LEMMA LeastExists ==
  ASSUME NEW M, M \subseteq Nat, M # {}
  PROVE  \E x \in M : \A y \in M : x <= y
<1> DEFINE R == OpToRel(<, Nat)
<1>1. \A x, y \in Nat : y < x => <<y, x>> \in R
  BY DEF OpToRel
<1>2. IsWellFoundedOn(R, Nat)
  BY NatLessThanWellFounded
<1> HIDE DEF R
<1>3. PICK x \in M : \A y \in M : ~(<<y, x>> \in R)
  BY <1>2, WFMin
<1>4. \A y \in M : y \in Nat /\ x \in Nat /\ ~(y < x)
  BY <1>1, <1>3
<1> QED
  BY <1>4

\* A set with 0 and every successor has all natural numbers.
LEMMA SetInduction ==
  ASSUME NEW T, 0 \in T, \A n \in Nat : n \in T => n + 1 \in T
  PROVE  Nat \subseteq T
<1> DEFINE M == {n \in Nat : n \notin T}
<1>1. CASE M # {}
  <2>1. PICK x \in M : \A y \in M : x <= y
    <3>1. M \subseteq Nat
      OBVIOUS
    <3> HIDE DEF M
    <3> QED BY <1>1, <3>1, LeastExists
  <2>2. x \in Nat /\ x # 0 /\ x - 1 \in Nat /\ ~(x <= x - 1)
    OBVIOUS
  <2>3. x - 1 \notin M
    BY <2>1, <2>2
  <2> QED
    BY <2>2, <2>3
<1> QED
  BY <1>1

\* A sequence of values: each in the set of its place, each from the one before.
Steps(D, N, step) == \A k \in 1 .. N : \A x \in D[k - 1] : step[<<x, k>>] \in D[k]
Iterates(f, D, N, base, step) ==
  /\ f[0] = base
  /\ \A k \in 1 .. N : f[k] = step[<<f[k - 1], k>>]
  /\ \A k \in 0 .. N : f[k] \in D[k]

\* When every step from one set leads into the next, there is such a sequence.
LEMMA Iterate ==
  ASSUME NEW D, NEW N \in Nat, NEW base, base \in D[0], NEW step, Steps(D, N, step)
  PROVE  \E f : Iterates(f, D, N, base, step)
<1> DEFINE Run(m, f) == Iterates(f, D, m, base, step)
           T == {m \in Nat : m <= N => \E f : Run(m, f)}
<1> USE DEF Steps, Iterates
<1>1. \E f : Run(0, f)
  <2> DEFINE f == [k \in 0 .. 0 |-> base]
  <2>1. Run(0, f)
    OBVIOUS
  <2> HIDE DEF Run, Iterates
  <2> QED
    BY <2>1
<1>2. ASSUME NEW m \in Nat, m + 1 <= N, NEW f, Run(m, f)
      PROVE  \E g : Run(m + 1, g)
  <2> DEFINE next == step[<<f[m], m + 1>>]
             g == [k \in 0 .. m + 1 |-> IF k <= m THEN f[k] ELSE next]
  <2>2. f[m] \in D[m] /\ m + 1 \in 1 .. N /\ (m + 1) - 1 = m
    BY <1>2
  <2>3. next \in D[m + 1]
    BY <2>2
  <2> HIDE DEF next
  <2>4. g[m + 1] = next /\ \A k \in 0 .. m : g[k] = f[k]
    OBVIOUS
  <2> HIDE DEF g
  <2>5. \A k \in 0 .. m + 1 : g[k] \in D[k]
    BY <1>2, <2>3, <2>4
  <2>7. g[0] = base
    BY <1>2, <2>4
  <2>8. ASSUME NEW k \in 1 .. m + 1 PROVE g[k] = step[<<g[k - 1], k>>]
    <3>1. CASE k \in 1 .. m
      <4>1. k \in 0 .. m /\ k - 1 \in 0 .. m
        BY <3>1
      <4> QED BY <1>2, <2>4, <3>1, <4>1
    <3>2. CASE k = m + 1
      <4>1. k - 1 = m /\ m \in 0 .. m
        BY <3>2
      <4>2. g[k] = step[<<f[m], k>>] /\ g[k - 1] = f[m]
        BY <2>4, <3>2, <4>1 DEF next
      <4> QED BY <4>2
    <3> QED BY <3>1, <3>2
  <2>9. Run(m + 1, g)
    BY <2>5, <2>7, <2>8
  <2> HIDE DEF Run, Iterates
  <2> QED
    BY <2>9
<1> HIDE DEF Run, Steps, Iterates
<1>3. 0 \in T
  BY <1>1
<1>4. ASSUME NEW m \in Nat, m \in T PROVE m + 1 \in T
  BY <1>2, <1>4
<1>5. Nat \subseteq T
  <2> HIDE DEF T
  <2> QED BY <1>3, <1>4, SetInduction
<1>6. \E f : Run(N, f)
  BY <1>5
<1> QED
  BY <1>6 DEF Run


-----------------------------------------------------------------------------
(* Operators on sequences.                                                 *)

\* The places of a list in the order of their ranks: each is there once.
LEMMA OrderedPlaces ==
  ASSUME NEW n \in Nat, NEW places \in SUBSET (1 .. n), NEW rank \in [places -> Nat]
  PROVE  /\ Ordered(places, rank) \in Seq(Nat)
         /\ \A k \in DOMAIN Ordered(places, rank) : Ordered(places, rank)[k] \in places
         /\ \A i \in places : \E k \in DOMAIN Ordered(places, rank) : Ordered(places, rank)[k] = i
<1> DEFINE m == Cardinality(places)
           Before(j, i) == rank[j] < rank[i] \/ (rank[j] = rank[i] /\ j < i)
           B(i) == {j \in places : Before(j, i)}
           R(i) == Cardinality(B(i))
           s == Ordered(places, rank)
<1>1. s = [k \in 1 .. m |-> CHOOSE i \in places : R(i) = k - 1]
  BY DEF Ordered
<1>2. IsFiniteSet(places) /\ m \in Nat
  <2>1. IsFiniteSet(1 .. n)
    BY FS_Interval
  <2> QED
    BY <2>1, FS_Subset, FS_CardinalityType
<1>3. \A i \in places : i \in Nat /\ rank[i] \in Nat
  OBVIOUS
<1>4. \A i, j \in places : i # j => Before(i, j) \/ Before(j, i)
  BY <1>3
<1>5. \A i, j, l \in places : Before(i, j) /\ Before(j, l) => Before(i, l)
  BY <1>3
<1>6. \A i \in places : ~Before(i, i)
  BY <1>3
<1> HIDE DEF Before, m
<1>7. ASSUME NEW i \in places
      PROVE  IsFiniteSet(B(i)) /\ R(i) \in 0 .. m - 1
  <2>1. IsFiniteSet(places \ {i}) /\ Cardinality(places \ {i}) = m - 1
    BY <1>2, FS_RemoveElement DEF m
  <2>2. B(i) \in SUBSET (places \ {i})
    BY <1>6
  <2>3. IsFiniteSet(B(i)) /\ Cardinality(B(i)) <= m - 1
    <3> HIDE DEF B
    <3> QED BY <2>1, <2>2, FS_Subset
  <2>4. Cardinality(B(i)) \in Nat
    BY <2>3, FS_CardinalityType
  <2> QED
    BY <1>2, <2>3, <2>4
<1>8. ASSUME NEW i \in places, NEW j \in places, Before(i, j), R(i) = R(j)
      PROVE  FALSE
  <2>1. B(i) \in SUBSET B(j)
    BY <1>5, <1>8
  <2>2. B(i) = B(j)
    <3> HIDE DEF B
    <3> QED BY <1>7, <1>8, <2>1, FS_Subset
  <2>3. i \in B(j)
    BY <1>8
  <2> QED
    BY <1>6, <2>2, <2>3
<1>9. \A i, j \in places : R(i) = R(j) => i = j
  <2> HIDE DEF R
  <2> QED BY <1>4, <1>8
<1> HIDE DEF B, R
<1> DEFINE f == [i \in places |-> R(i) + 1]
<1>10. \A k \in 1 .. m : \E i \in places : R(i) = k - 1
  <2>1. IsFiniteSet(1 .. m) /\ Cardinality(1 .. m) = m
    BY <1>2, FS_Interval
  <2>2. /\ f \in [places -> 1 .. m]
        /\ \A i \in places : f[i] = R(i) + 1
        /\ \A i, j \in places : f[i] = f[j] => i = j
    <3>1. \A i \in places : R(i) + 1 \in 1 .. m /\ R(i) \in Int
      BY <1>2, <1>7
    <3> QED BY <1>9, <3>1
  <2> HIDE DEF f
  <2>3. f \in Injection(places, 1 .. m)
    BY <2>2 DEF Injection, IsInjective
  <2>4. f \in Surjection(places, 1 .. m)
    <3>1. Cardinality(places) = Cardinality(1 .. m)
      BY <2>1 DEF m
    <3> QED BY <1>2, <2>1, <2>3, <3>1, FS_Injection
  <2>5. \A k \in 1 .. m : \E i \in places : f[i] = k
    BY <2>2, <2>4 DEF Surjection
  <2>6. \A i \in places : R(i) \in Int
    BY <1>7
  <2> QED
    BY <2>2, <2>5, <2>6
<1> HIDE DEF f
<1>11. DOMAIN s = 1 .. m /\ \A k \in 1 .. m : s[k] \in places /\ R(s[k]) = k - 1
  <2> HIDE DEF s
  <2>1. \A k \in 1 .. m : (CHOOSE i \in places : R(i) = k - 1) \in places
                          /\ R(CHOOSE i \in places : R(i) = k - 1) = k - 1
    BY <1>10
  <2> QED BY <1>1, <2>1
<1>12. s \in Seq(Nat)
  <2> HIDE DEF s
  <2>1. s \in [1 .. m -> Nat]
    <3>1. \A k \in 1 .. m : s[k] \in Nat
      BY <1>3, <1>11
    <3>2. s = [k \in 1 .. m |-> s[k]]
      BY <1>1, <1>11
    <3> QED BY <3>1, <3>2
  <2> QED BY <1>2, <2>1, SeqDef
<1>13. ASSUME NEW i \in places PROVE \E k \in DOMAIN s : s[k] = i
  <2> HIDE DEF s
  <2>1. R(i) + 1 \in 1 .. m /\ R(i) = (R(i) + 1) - 1
    BY <1>2, <1>7
  <2>2. s[R(i) + 1] = i
    BY <1>9, <1>11, <2>1
  <2> QED BY <1>11, <2>1, <2>2
<1> QED
  BY <1>11, <1>12, <1>13


Named(S) == \A x \in S : x.name \in Names

LEMMA EntriesAreNamed == Named(Entries) /\ Named(Files)
BY DEF Named, Entries, Files

\* A sequence whose elements are replaced one by one.
LEMMA Relabelled ==
  ASSUME NEW S, NEW T, NEW s \in Seq(S), NEW t, DOMAIN t = DOMAIN s, t = [i \in DOMAIN s |-> t[i]],
         \A i \in DOMAIN s : t[i] \in T
  PROVE  t \in Seq(T) /\ Len(t) = Len(s)
<1>1. Len(s) \in Nat /\ DOMAIN s = 1 .. Len(s)
  BY LenProperties
<1>2. t \in [1 .. Len(s) -> T]
  BY <1>1
<1>3. t \in Seq(T)
  BY <1>1, <1>2, SeqDef
<1>4. Len(t) \in Nat /\ DOMAIN t = 1 .. Len(t)
  BY <1>3, LenProperties
<1> QED
  BY <1>1, <1>3, <1>4

LEMMA NamesOfProperties ==
  ASSUME NEW S, Named(S), NEW s \in Seq(S)
  PROVE  /\ NamesOf(s) \in Seq(Names) /\ Len(NamesOf(s)) = Len(s)
         /\ DOMAIN NamesOf(s) = DOMAIN s /\ DOMAIN s = 1 .. Len(s) /\ Len(s) \in Nat
         /\ \A i \in DOMAIN s : NamesOf(s)[i] = s[i].name
         /\ NamesOf(s) = <<>> <=> s = <<>>
<1>1. DOMAIN s = 1 .. Len(s) /\ Len(s) \in Nat /\ \A i \in DOMAIN s : s[i].name \in Names
  <2>1. DOMAIN s = 1 .. Len(s) /\ Len(s) \in Nat
    BY LenProperties
  <2>2. \A i \in DOMAIN s : s[i] \in S
    BY <2>1, ElementOfSeq
  <2> QED
    BY <2>1, <2>2 DEF Named
<1>2. /\ DOMAIN NamesOf(s) = DOMAIN s /\ NamesOf(s) = [i \in DOMAIN s |-> NamesOf(s)[i]]
      /\ \A i \in DOMAIN s : NamesOf(s)[i] = s[i].name
  BY DEF NamesOf
<1>3. NamesOf(s) \in Seq(Names) /\ Len(NamesOf(s)) = Len(s)
  BY <1>1, <1>2, Relabelled
<1>4. NamesOf(s) = <<>> <=> s = <<>>
  BY <1>3, EmptySeq
<1> QED
  BY <1>1, <1>2, <1>3, <1>4

LEMMA NamesOfConcat ==
  ASSUME NEW S, Named(S), NEW s \in Seq(S), NEW t \in Seq(S)
  PROVE  NamesOf(s \o t) = NamesOf(s) \o NamesOf(t)
<1>1. /\ s \o t \in Seq(S) /\ Len(s \o t) = Len(s) + Len(t)
      /\ \A i \in 1 .. Len(s) + Len(t) : (s \o t)[i] = IF i <= Len(s) THEN s[i] ELSE t[i - Len(s)]
  BY ConcatProperties
<1> DEFINE n == NamesOf(s)
           m == NamesOf(t)
           u == NamesOf(s \o t)
<1>2. /\ n \in Seq(Names) /\ Len(n) = Len(s) /\ \A i \in 1 .. Len(s) : n[i] = s[i].name
      /\ m \in Seq(Names) /\ Len(m) = Len(t) /\ \A i \in 1 .. Len(t) : m[i] = t[i].name
      /\ Len(s) \in Nat /\ Len(t) \in Nat
  BY NamesOfProperties
<1>3. u \in Seq(Names) /\ Len(u) = Len(s) + Len(t) /\ \A i \in 1 .. Len(s) + Len(t) : u[i] = (s \o t)[i].name
  <2>1. u \in Seq(Names) /\ Len(u) = Len(s \o t) /\ \A i \in 1 .. Len(s \o t) : u[i] = (s \o t)[i].name
    BY <1>1, NamesOfProperties
  <2> QED
    BY <1>1, <2>1
<1> HIDE DEF n, m, u
<1>4. /\ n \o m \in Seq(Names) /\ Len(n \o m) = Len(s) + Len(t)
      /\ \A i \in 1 .. Len(s) + Len(t) : (n \o m)[i] = IF i <= Len(s) THEN n[i] ELSE m[i - Len(s)]
  <2>1. /\ n \o m \in Seq(Names) /\ Len(n \o m) = Len(n) + Len(m)
        /\ \A i \in 1 .. Len(n) + Len(m) : (n \o m)[i] = IF i <= Len(n) THEN n[i] ELSE m[i - Len(n)]
    <3>1. n \in Seq(Names) /\ m \in Seq(Names)
      BY <1>2
    <3> QED BY <3>1, ConcatProperties
  <2> QED
    BY <1>2, <2>1
<1>5. ASSUME NEW i \in 1 .. Len(s) + Len(t) PROVE u[i] = (n \o m)[i]
  <2>1. u[i] = (s \o t)[i].name /\ i \in Nat /\ i >= 1 /\ i <= Len(s) + Len(t)
    BY <1>2, <1>3
  <2>2. CASE i <= Len(s)
    <3>1. i \in 1 .. Len(s)
      BY <1>2, <2>1, <2>2
    <3> QED BY <1>1, <1>2, <1>4, <2>1, <2>2, <3>1
  <2>3. CASE ~(i <= Len(s))
    <3>1. i - Len(s) \in 1 .. Len(t)
      BY <1>2, <2>1, <2>3
    <3>2. (s \o t)[i] = t[i - Len(s)] /\ (n \o m)[i] = m[i - Len(s)]
      BY <1>1, <1>4, <2>3
    <3>3. m[i - Len(s)] = t[i - Len(s)].name
      BY <1>2, <3>1
    <3> QED BY <2>1, <3>2, <3>3
  <2> QED BY <2>2, <2>3
<1>6. u = n \o m
  BY <1>3, <1>4, <1>5, SeqEqual
<1> QED
  BY <1>6 DEF u, n, m

\* An entry more at the end.
LEMMA NamesOfAppend ==
  ASSUME NEW S, Named(S), NEW s \in Seq(S), NEW x \in S
  PROVE  NamesOf(Append(s, x)) = NamesOf(s) \o <<x.name>>
<1>1. Append(s, x) = s \o <<x>> /\ <<x>> \in Seq(S)
  BY AppendIsConcat
<1>2. NamesOf(<<x>>) = <<x.name>>
  BY DEF NamesOf
<1> QED
  BY <1>1, <1>2, NamesOfConcat

\* An entry less at the front.
LEMMA NamesOfTail ==
  ASSUME NEW S, Named(S), NEW s \in Seq(S), s # <<>>
  PROVE  NamesOf(s) = <<Head(s).name>> \o NamesOf(Tail(s))
<1>1. Head(s) \in S /\ Tail(s) \in Seq(S) /\ Len(s) \in Nat /\ Len(s) # 0
  BY HeadTailProperties, LenProperties, EmptySeq
<1>2. s = <<Head(s)>> \o Tail(s)
  <2>1. SubSeq(s, 1, Len(s)) = <<s[1]>> \o SubSeq(s, 2, Len(s))
    <3>1. 1 \in 1 .. Len(s) /\ Len(s) \in 1 .. Len(s) /\ 1 + 1 = 2
      BY <1>1
    <3> QED BY <3>1, SubSeqRecursiveFirst
  <2>2. Head(s) = s[1]
    BY <1>1
  <2> QED
    BY <2>1, <2>2, SubSeqFull, TailIsSubSeq
<1>3. NamesOf(<<Head(s)>>) = <<Head(s).name>> /\ <<Head(s)>> \in Seq(S)
  BY <1>1 DEF NamesOf
<1>4. NamesOf(<<Head(s)>> \o Tail(s)) = NamesOf(<<Head(s)>>) \o NamesOf(Tail(s))
  BY <1>1, <1>3, NamesOfConcat
<1> QED
  BY <1>2, <1>3, <1>4

\* What a timer tick takes of a delivery, and what it leaves.
LEMMA FirstAndRest ==
  ASSUME NEW S, NEW s \in Seq(S)
  PROVE  /\ FirstOf(s) \in Seq(S) /\ Rest(s) \in Seq(S) /\ FirstOf(s) \o Rest(s) = s
         /\ \A i \in DOMAIN FirstOf(s) : \E j \in DOMAIN s : FirstOf(s)[i] = s[j]
         /\ \A i \in DOMAIN Rest(s) : \E j \in DOMAIN s : Rest(s)[i] = s[j]
<1> DEFINE k == Least(MaxTick, Len(s))
           n == Len(s)
<1>1. n \in Nat /\ DOMAIN s = 1 .. n /\ k \in 0 .. n /\ k + 1 \in Int /\ 1 + k - 1 = k
  BY LenProperties, BrowserAssumption DEF Least
<1>2. FirstOf(s) = SubSeq(s, 1, k) /\ Rest(s) = SubSeq(s, k + 1, n)
  BY DEF FirstOf, Rest
<1> HIDE DEF k, n
<1>3. \A i \in 1 .. n : s[i] \in S
  BY ElementOfSeq DEF n
<1>4. /\ SubSeq(s, 1, k) \in Seq(S)
      /\ Len(SubSeq(s, 1, k)) = IF 1 <= k THEN k - 1 + 1 ELSE 0
      /\ \A i \in 1 .. k - 1 + 1 : SubSeq(s, 1, k)[i] = s[1 + i - 1]
  <2>1. \A i \in 1 .. k : s[i] \in S
    BY <1>1, <1>3
  <2>2. 1 \in Int /\ k \in Int
    BY <1>1
  <2> QED BY <2>1, <2>2, SubSeqProperties
<1>5. /\ SubSeq(s, k + 1, n) \in Seq(S)
      /\ Len(SubSeq(s, k + 1, n)) = IF k + 1 <= n THEN n - (k + 1) + 1 ELSE 0
      /\ \A i \in 1 .. n - (k + 1) + 1 : SubSeq(s, k + 1, n)[i] = s[(k + 1) + i - 1]
  <2>1. \A i \in k + 1 .. n : s[i] \in S
    BY <1>1, <1>3
  <2>2. k + 1 \in Int /\ n \in Int
    BY <1>1
  <2> QED BY <2>1, <2>2, SubSeqProperties
<1>6. \A i \in DOMAIN SubSeq(s, 1, k) : i \in 1 .. n /\ SubSeq(s, 1, k)[i] = s[i]
  <2>1. DOMAIN SubSeq(s, 1, k) = 1 .. Len(SubSeq(s, 1, k))
    BY <1>4, LenProperties
  <2> QED BY <1>1, <1>4, <2>1
<1>7. \A i \in DOMAIN SubSeq(s, k + 1, n) : k + i \in 1 .. n /\ SubSeq(s, k + 1, n)[i] = s[k + i]
  <2>1. DOMAIN SubSeq(s, k + 1, n) = 1 .. Len(SubSeq(s, k + 1, n))
    BY <1>5, LenProperties
  <2> QED BY <1>1, <1>5, <2>1
<1>8. SubSeq(s, 1, k) \o SubSeq(s, k + 1, n) = s
  <2>1. 1 \in 1 .. n + 1 /\ k \in 1 - 1 .. n /\ n \in k .. n
    BY <1>1
  <2>2. SubSeq(s, 1, k) \o SubSeq(s, k + 1, n) = SubSeq(s, 1, n)
    BY <2>1, ConcatAdjacentSubSeq DEF n
  <2> QED BY <2>2, SubSeqFull DEF n
<1> QED
  BY <1>1, <1>2, <1>4, <1>5, <1>6, <1>7, <1>8


-----------------------------------------------------------------------------
(* What a change of the list, and of nothing else, leaves as it was.       *)

SameScan(e, f) ==
    /\ f.open = e.open /\ f.root = e.root /\ f.scanning = e.scanning
    /\ f.generation = e.generation /\ f.delivery = e.delivery /\ f.staging = e.staging
    /\ f.scan = e.scan
SamePreview(e, f) ==
    /\ f.open = e.open /\ f.preview = e.preview
    /\ f.previewGeneration = e.previewGeneration /\ f.building = e.building

\* The same files, and the same but for the flags of the metadata.
SameFiles(s, t) ==
    DOMAIN t = DOMAIN s /\ \A i \in DOMAIN s : t[i].root = s[i].root /\ t[i].name = s[i].name
SameRows(s, t) ==
    SameFiles(s, t) /\ \A i \in DOMAIN s :
        t[i].state = s[i].state /\ t[i].shown = s[i].shown /\ t[i].version = s[i].version

\* Entries of t that wait for a preview did so in s.
NoNewWait(s, t) == \A i \in DOMAIN t : t[i].state = "queued" =>
    /\ i \in DOMAIN s /\ s[i].state = "queued"
    /\ t[i].root = s[i].root /\ t[i].name = s[i].name

\* The list of an editor.
LEMMA ListType ==
  ASSUME NEW e \in Editors
  PROVE  /\ e.list \in Seq(Entries) /\ Len(e.list) \in Nat /\ DOMAIN e.list = 1 .. Len(e.list)
         /\ \A i \in DOMAIN e.list : e.list[i] \in Entries
<1>1. e.list \in Seq(Entries)
  BY DEF Editors
<1> QED
  BY <1>1, LenProperties, ElementOfSeq

LEMMA PostType ==
  ASSUME NEW posts \in Seq(Posts)
  PROVE  /\ Len(posts) \in Nat /\ DOMAIN posts = 1 .. Len(posts)
         /\ \A k \in DOMAIN posts : /\ posts[k] \in Posts /\ posts[k].generation \in Nat
                                   /\ posts[k].results \in Seq(Results)
<1>1. Len(posts) \in Nat /\ DOMAIN posts = 1 .. Len(posts) /\ \A k \in DOMAIN posts : posts[k] \in Posts
  BY LenProperties, ElementOfSeq
<1> QED
  BY <1>1 DEF Posts

LEMMA SameNames ==
  ASSUME NEW s \in Seq(Entries), NEW t \in Seq(Entries), SameFiles(s, t)
  PROVE  NamesOf(t) = NamesOf(s) /\ (t = <<>> <=> s = <<>>)
<1>1. NamesOf(t) = NamesOf(s)
  BY DEF NamesOf, SameFiles
<1> QED
  BY <1>1, NamesOfProperties, EntriesAreNamed

LEMMA ScanTransfer ==
  ASSUME NEW e \in Editors, NEW f \in Editors, NEW done,
         SameScan(e, f), SameFiles(e.list, f.list), ScanPart(e, done)
  PROVE  ScanPart(f, done)
<1>1. e.list \in Seq(Entries) /\ f.list \in Seq(Entries)
  BY DEF Editors
<1>2. NamesOf(f.list) = NamesOf(e.list) /\ (f.list = <<>> <=> e.list = <<>>)
  BY <1>1, SameNames
<1>3. Fills(f) <=> Fills(e)
  BY DEF SameScan, Fills
<1>4. ScanIsNewest(f)
  BY <1>3 DEF ScanPart, ScanIsNewest, SameScan
<1>5. ListIsWhole(f, done)
  BY <1>2 DEF ScanPart, ListIsWhole, SameScan
<1>6. ScanIsSound(f, done)
  BY <1>2, <1>3 DEF ScanPart, ScanIsSound, SameScan
<1> QED
  BY <1>4, <1>5, <1>6 DEF ScanPart

LEMMA PreviewTransfer ==
  ASSUME NEW e \in Editors, NEW f \in Editors, NEW posts \in Seq(Posts),
         SamePreview(e, f), NoNewWait(e.list, f.list), PreviewPart(e, posts)
  PROVE  PreviewPart(f, posts)
<1>1. (Runs(f) <=> Runs(e)) /\ Arrives(f, posts) = Arrives(e, posts)
  BY DEF SamePreview, Runs, Arrives
<1>2. OneBatch(f, posts)
  BY <1>1 DEF PreviewPart, OneBatch, SamePreview
<1>3. ASSUME f.open, NEW i \in DOMAIN f.list, f.list[i].state = "queued"
      PROVE  /\ i \in DOMAIN e.list /\ e.list[i].state = "queued"
             /\ \A asked : Concerns(e.list, i, asked) => Concerns(f.list, i, asked)
  BY <1>3 DEF NoNewWait, Concerns, IsFor
<1>4. RowsAreServed(f, posts)
  BY <1>1, <1>3 DEF PreviewPart, RowsAreServed, SamePreview
<1> QED
  BY <1>2, <1>4 DEF PreviewPart

\* The flags of the metadata are not part of the invariant.
LEMMA RowsTransfer ==
  ASSUME NEW e \in Editors, NEW f \in Editors, NEW posts \in Seq(Posts), NEW done,
         SameScan(e, f), SamePreview(e, f), SameRows(e.list, f.list), EditorInv(e, posts, done)
  PROVE  EditorInv(f, posts, done)
<1>1. OneFolder(f)
  BY DEF EditorInv, OneFolder, SameScan, SameRows, SameFiles, IsTrue
<1>2. ScanPart(f, done)
  BY ScanTransfer DEF EditorInv, SameRows
<1>3. NoNewWait(e.list, f.list)
  BY DEF NoNewWait, SameRows, SameFiles
<1>4. PreviewPart(f, posts)
  BY <1>3, PreviewTransfer DEF EditorInv
<1> QED
  BY <1>1, <1>2, <1>4 DEF EditorInv

LEMMA RebuildKeeps ==
  ASSUME NEW e \in Editors
  PROVE  LET f == rebuildVisibleSampleList(e)
         IN  /\ f \in Editors /\ RowsExist(f)
             /\ SameScan(e, f) /\ SamePreview(e, f) /\ f.list = e.list
             /\ \A posts \in Seq(Posts) : \A done : EditorInv(e, posts, done) => EditorInv(f, posts, done)
<1> DEFINE shown == {i \in DOMAIN e.list : ~e.favoritesOnly \/ e.list[i].favorite}
           rank == [i \in shown |-> NameRank[e.list[i].name]]
           v == Ordered(shown, rank)
           f == rebuildVisibleSampleList(e)
<1>1. f = [e EXCEPT !.visible = v]
  BY DEF rebuildVisibleSampleList
<1>2. e.list \in Seq(Entries) /\ Len(e.list) \in Nat /\ DOMAIN e.list = 1 .. Len(e.list)
      /\ \A i \in DOMAIN e.list : e.list[i] \in Entries
  BY ListType
<1>3. \A i \in DOMAIN e.list : e.list[i].name \in Names
  BY <1>2 DEF Entries
<1>4. shown \in SUBSET (1 .. Len(e.list)) /\ rank \in [shown -> Nat]
  BY <1>2, <1>3, BrowserAssumption
<1> HIDE DEF shown, rank
<1>5. v \in Seq(Nat) /\ \A k \in DOMAIN v : v[k] \in shown
  BY <1>2, <1>4, OrderedPlaces
<1> HIDE DEF v, f
<1>6. /\ f \in Editors /\ SameScan(e, f) /\ SamePreview(e, f)
      /\ f.list = e.list /\ f.visible = v
  BY <1>1, <1>5 DEF Editors, SameScan, SamePreview
<1>7. RowsExist(f)
  BY <1>2, <1>4, <1>5, <1>6 DEF RowsExist
<1>8. SameRows(e.list, f.list)
  BY <1>6 DEF SameRows, SameFiles
<1>9. \A posts \in Seq(Posts) : \A done : EditorInv(e, posts, done) => EditorInv(f, posts, done)
  BY <1>6, <1>8, RowsTransfer
<1> QED
  BY <1>6, <1>7, <1>9 DEF f

\* A list with other flags.
LEMMA FlaggedKeeps ==
  ASSUME NEW e \in Editors, NEW flag \in [DOMAIN e.list -> BOOLEAN]
  PROVE  LET f == [e EXCEPT !.list = [i \in DOMAIN @ |-> [@[i] EXCEPT !.favorite = flag[i]]]]
         IN  /\ f \in Editors /\ SameScan(e, f) /\ SamePreview(e, f)
             /\ SameRows(e.list, f.list)
             /\ \A posts \in Seq(Posts) : \A done : EditorInv(e, posts, done) => EditorInv(f, posts, done)
<1> DEFINE l == [i \in DOMAIN e.list |-> [e.list[i] EXCEPT !.favorite = flag[i]]]
           f == [e EXCEPT !.list = l]
<1>1. e.list \in Seq(Entries) /\ DOMAIN e.list = 1 .. Len(e.list)
      /\ \A i \in DOMAIN e.list : e.list[i] \in Entries
  BY ListType
<1>2. DOMAIN l = DOMAIN e.list /\ \A i \in DOMAIN e.list : l[i] \in Entries
  BY <1>1 DEF Entries
<1>3. l \in Seq(Entries)
  BY <1>1, <1>2, Relabelled
<1>4. SameRows(e.list, l)
  BY <1>1 DEF SameRows, SameFiles, Entries
<1> HIDE DEF l
<1>5. f \in Editors /\ SameScan(e, f) /\ SamePreview(e, f) /\ f.list = l
  BY <1>3 DEF Editors, SameScan, SamePreview
<1> HIDE DEF f
<1>6. \A posts \in Seq(Posts) : \A done : EditorInv(e, posts, done) => EditorInv(f, posts, done)
  BY <1>4, <1>5, RowsTransfer
<1> QED
  BY <1>4, <1>5, <1>6 DEF f, l


LEMMA RefreshKeeps ==
  ASSUME NEW e \in Editors
  PROVE  LET f == Refreshed(e)
         IN  /\ f \in Editors /\ RowsExist(f)
             /\ SameScan(e, f) /\ SamePreview(e, f) /\ SameRows(e.list, f.list)
             /\ \A posts \in Seq(Posts) : \A done : EditorInv(e, posts, done) => EditorInv(f, posts, done)
<1> DEFINE flag == [i \in DOMAIN e.list |-> isFavorite(meta, Path(e.list[i]))]
           g == [e EXCEPT !.list = [i \in DOMAIN @ |-> [@[i] EXCEPT !.favorite = flag[i]]]]
           f == rebuildVisibleSampleList(g)
<1>1. flag \in [DOMAIN e.list -> BOOLEAN]
  BY DEF isFavorite, Listed
<1>2. refreshBrowserEntryLibraryFlags(e) = g
  BY DEF refreshBrowserEntryLibraryFlags
<1> HIDE DEF flag
<1>3. /\ g \in Editors /\ SameScan(e, g) /\ SamePreview(e, g) /\ SameRows(e.list, g.list)
      /\ \A posts \in Seq(Posts) : \A done : EditorInv(e, posts, done) => EditorInv(g, posts, done)
  BY <1>1, FlaggedKeeps
<1> HIDE DEF g
<1>4. /\ f \in Editors /\ RowsExist(f)
      /\ SameScan(g, f) /\ SamePreview(g, f) /\ f.list = g.list
      /\ \A posts \in Seq(Posts) : \A done : EditorInv(g, posts, done) => EditorInv(f, posts, done)
  BY <1>3, RebuildKeeps
<1> HIDE DEF f
<1>5. SameScan(e, f) /\ SamePreview(e, f)
  BY <1>3, <1>4 DEF SameScan, SamePreview
<1> QED
  BY <1>2, <1>3, <1>4, <1>5 DEF Refreshed, f

\* The preview worker is told to stop: no batch is live, and the one that ran keeps its results.
LEMMA CancelledWork ==
  ASSUME NEW w \in Workers(PreviewJobs)
  PROVE  LET c == CancelAll(w)
         IN  /\ c \in Workers(PreviewJobs) /\ c.next = None
             /\ (c.job = None <=> w.job = None)
             /\ w.job # None => /\ c.job.cancelled /\ c.job.generation = w.job.generation
             /\ \A posts \in Seq(Posts) : \A stored, files :
                   PreviewsAreGood(w, posts, stored, files) => PreviewsAreGood(c, posts, stored, files)
<1> DEFINE c == CancelAll(w)
<1>1. w.job = None \/ w.job \in PreviewJobs
  BY DEF Workers
<1>2. CASE w.job = None
  BY <1>2 DEF CancelAll, Workers, PreviewsAreGood
<1>3. CASE w.job # None
  <2> DEFINE j == [w.job EXCEPT !.cancelled = TRUE]
  <2>1. c = [job |-> j, next |-> None]
    BY <1>3 DEF CancelAll
  <2>2. /\ j \in PreviewJobs /\ j.cancelled /\ j.generation = w.job.generation /\ j.root = w.job.root
        /\ j.requests = w.job.requests /\ j.results = w.job.results /\ j.store = w.job.store
        /\ j.at = w.job.at /\ j.stamp = w.job.stamp
    BY <1>1, <1>3 DEF PreviewJobs
  <2> HIDE DEF j
  <2>3. j # None
    BY <2>2, BrowserAssumption
  <2>4. \A posts \in Seq(Posts) : \A stored, files :
           PreviewsAreGood(w, posts, stored, files) => PreviewsAreGood(c, posts, stored, files)
    BY <1>3, <2>1, <2>2, <2>3 DEF PreviewsAreGood, GoodJob
  <2> QED
    BY <1>3, <2>1, <2>2, <2>3, <2>4 DEF Workers
<1> QED
  BY <1>2, <1>3

LEMMA AbandonKeeps ==
  ASSUME NEW e \in Editors
  PROVE  LET f == AbandonPreviews(e)
         IN  /\ f \in Editors /\ SameScan(e, f) /\ SameFiles(e.list, f.list)
             /\ f.visible = e.visible /\ (RowsExist(e) => RowsExist(f))
             /\ f.preview = CancelAll(e.preview) /\ ~f.building
             /\ \A i \in DOMAIN f.list : f.list[i].state # "queued"
             /\ \A posts \in Seq(Posts) : \A done : EditorInv(e, posts, done) => EditorInv(f, posts, done)
             /\ \A posts \in Seq(Posts) : \A stored, files : PreviewsAreGood(e.preview, posts, stored, files)
                                          => PreviewsAreGood(f.preview, posts, stored, files)
<1> DEFINE l == [i \in DOMAIN e.list |->
                   IF e.list[i].state = "queued" THEN [e.list[i] EXCEPT !.state = "missing"] ELSE e.list[i]]
           c == CancelAll(e.preview)
           f == AbandonPreviews(e)
<1>1. e.list \in Seq(Entries) /\ \A i \in DOMAIN e.list : e.list[i] \in Entries
  BY ListType
<1>2. DOMAIN l = DOMAIN e.list /\ \A i \in DOMAIN e.list : l[i] \in Entries
  BY <1>1 DEF Entries
<1>3. l \in Seq(Entries)
  BY <1>1, <1>2, Relabelled
<1>4. /\ SameFiles(e.list, l)
      /\ \A i \in DOMAIN l : l[i].state # "queued" /\ (IsTrue(e.list[i]) => IsTrue(l[i]))
  BY <1>1 DEF SameFiles, IsTrue, Entries
<1>5. f = [e EXCEPT !.previewGeneration = e.previewGeneration + 1, !.preview = c,
                    !.building = FALSE, !.list = l]
  BY DEF AbandonPreviews
<1>6. /\ e.preview \in Workers(PreviewJobs) /\ e.previewGeneration \in Nat
      /\ e.previewGeneration + 1 \in Nat
  BY DEF Editors
<1>7. /\ c \in Workers(PreviewJobs) /\ c.next = None /\ (c.job = None <=> e.preview.job = None)
      /\ e.preview.job # None => c.job.cancelled /\ c.job.generation = e.preview.job.generation
      /\ \A posts \in Seq(Posts) : \A stored, files :
             PreviewsAreGood(e.preview, posts, stored, files) => PreviewsAreGood(c, posts, stored, files)
  BY <1>6, CancelledWork
<1> HIDE DEF l, c, f
<1>8. /\ f \in Editors /\ SameScan(e, f) /\ f.list = l /\ f.visible = e.visible
      /\ f.preview = c /\ f.building = FALSE /\ f.previewGeneration = e.previewGeneration + 1
  BY <1>3, <1>5, <1>6, <1>7 DEF Editors, SameScan
<1>9. ASSUME NEW posts \in Seq(Posts), NEW done, EditorInv(e, posts, done) PROVE EditorInv(f, posts, done)
  <2>1. OneFolder(f)
    BY <1>4, <1>8, <1>9 DEF EditorInv, OneFolder, SameScan, SameFiles
  <2>2. ScanPart(f, done)
    BY <1>4, <1>8, <1>9, ScanTransfer DEF EditorInv
  <2>3. ~Runs(f)
    BY <1>7, <1>8 DEF Runs
  <2>4. Arrives(f, posts) = {}
    BY <1>6, <1>8, <1>9 DEF Arrives, EditorInv, PreviewPart, OneBatch
  <2>5. OneBatch(f, posts)
    <3>1. \A k \in DOMAIN posts : posts[k].generation \in Nat
      BY PostType
    <3>2. e.preview.job # None => e.preview.job.generation \in Nat
      BY <1>6 DEF Workers, PreviewJobs
    <3> QED BY <1>6, <1>7, <1>8, <1>9, <2>3, <2>4, <3>1, <3>2 DEF OneBatch, EditorInv, PreviewPart
  <2>6. RowsAreServed(f, posts)
    BY <1>4, <1>8 DEF RowsAreServed
  <2> QED
    BY <2>1, <2>2, <2>5, <2>6 DEF EditorInv, PreviewPart
<1>10. RowsExist(e) => RowsExist(f)
  BY <1>4, <1>8 DEF RowsExist, SameFiles
<1> QED
  BY <1>4, <1>7, <1>8, <1>9, <1>10 DEF f, c


-----------------------------------------------------------------------------
(* Scans begin and are cancelled.                                          *)

\* The scan worker is told to stop.
LEMMA CancelledScan ==
  ASSUME NEW w \in Workers(ScanJobs)
  PROVE  LET c == CancelAll(w)
         IN  /\ c \in Workers(ScanJobs) /\ c.next = None
             /\ (c.job = None <=> w.job = None)
             /\ w.job # None =>
                   /\ c.job \in ScanJobs /\ c.job.cancelled /\ c.job.of = w.job.of
                   /\ c.job.root = w.job.root /\ c.job.at = w.job.at /\ c.job.found = w.job.found
                   /\ c.job.warm = w.job.warm /\ c.job.had = w.job.had
<1> DEFINE c == CancelAll(w)
<1>1. w.job = None \/ w.job \in ScanJobs
  BY DEF Workers
<1>2. CASE w.job = None
  BY <1>2 DEF CancelAll, Workers
<1>3. CASE w.job # None
  <2> DEFINE j == [w.job EXCEPT !.cancelled = TRUE]
  <2>1. c = [job |-> j, next |-> None]
    BY <1>3 DEF CancelAll
  <2>2. /\ j \in ScanJobs /\ j.cancelled /\ j.of = w.job.of /\ j.root = w.job.root
        /\ j.at = w.job.at /\ j.found = w.job.found /\ j.warm = w.job.warm /\ j.had = w.job.had
    BY <1>1, <1>3 DEF ScanJobs
  <2> HIDE DEF j
  <2>3. j # None
    BY <2>2, BrowserAssumption
  <2> QED
    BY <1>3, <2>1, <2>2, <2>3 DEF Workers
<1> QED
  BY <1>2, <1>3

LEMMA DeliveryType ==
  ASSUME NEW e \in Editors, e.delivery # None
  PROVE  LET d == e.delivery
         IN  /\ d \in Deliveries
             /\ d.pending \in Seq(Entries) /\ d.replacement \in Seq(Entries) /\ d.rollback \in Seq(Entries)
             /\ d.replacementReady \in BOOLEAN /\ d.rollbackReady \in BOOLEAN /\ d.had \in BOOLEAN
             /\ d.complete \in BOOLEAN /\ d.incomplete \in BOOLEAN /\ d.of \in Nat
<1>1. e.delivery \in Deliveries
  BY DEF Editors
<1> QED
  BY <1>1 DEF Deliveries

LEMMA EmptySequences ==
  /\ <<>> \in Seq(Entries) /\ <<>> \in Seq(Nat) /\ <<>> \in Seq(Files) /\ <<>> \in Seq(Names)
  /\ <<>> \in Seq(Results) /\ <<>> \in Seq(Posts)
  /\ NamesOf(<<>>) = <<>> /\ DOMAIN <<>> = {}
<1>1. DOMAIN <<>> = {}
  OBVIOUS
<1>2. /\ <<>> \in Seq(Entries) /\ <<>> \in Seq(Nat) /\ <<>> \in Seq(Files) /\ <<>> \in Seq(Names)
      /\ <<>> \in Seq(Results) /\ <<>> \in Seq(Posts)
  OBVIOUS
<1>3. NamesOf(<<>>) = <<>>
  <2>1. <<>> = <<>>
    OBVIOUS
  <2> QED BY <1>2, <2>1, NamesOfProperties, EntriesAreNamed
<1> QED
  BY <1>1, <1>2, <1>3

\* The list of the last whole scan comes back, or none.
LEMMA CancelKeeps ==
  ASSUME NEW e \in Editors, NEW posts \in Seq(Posts), NEW done, NEW stored, NEW files,
         EditorInv(e, posts, done), RowsExist(e), PreviewsAreGood(e.preview, posts, stored, files)
  PROVE  LET f == cancelSampleRootScan(e)
         IN  /\ f \in Editors /\ EditorInv(f, posts, done) /\ RowsExist(f)
             /\ PreviewsAreGood(f.preview, posts, stored, files) /\ f.open = e.open
<1>1. CASE ~e.scanning
  BY <1>1 DEF cancelSampleRootScan
<1>2. CASE e.scanning
  <2> DEFINE whole == e.delivery # None /\ e.delivery.rollbackReady
             l == IF whole THEN e.delivery.rollback ELSE <<>>
             c == CancelAll(e.scan)
             g == [e EXCEPT !.generation = e.generation + 1, !.scan = c, !.scanning = FALSE,
                            !.delivery = None, !.staging = <<>>, !.visible = <<>>, !.list = l]
             a == AbandonPreviews(g)
             f == rebuildVisibleSampleList(a)
  <2>1. cancelSampleRootScan(e) = f
    BY <1>2 DEF cancelSampleRootScan
  <2>2. e.delivery # None
    BY <1>2 DEF EditorInv, ScanPart, ScanIsNewest
  <2>3. e.delivery.rollback \in Seq(Entries) /\ e.delivery.rollbackReady \in BOOLEAN
    BY <2>2, DeliveryType
  <2>4. /\ l \in Seq(Entries)
        /\ \A i \in DOMAIN l : l[i].root = e.root /\ IsTrue(l[i]) /\ l[i].state # "queued"
        /\ Whole(e.root, NamesOf(l), done)
    BY <2>2, <2>3, EmptySequences DEF EditorInv, OneFolder, Ready, ScanPart, ListIsWhole, Whole
  <2> HIDE DEF l
  <2>5. e.scan \in Workers(ScanJobs) /\ e.generation \in Nat /\ e.generation + 1 \in Nat
    BY DEF Editors
  <2>6. /\ c \in Workers(ScanJobs) /\ c.next = None /\ (c.job = None <=> e.scan.job = None)
        /\ e.scan.job # None =>
              /\ c.job \in ScanJobs /\ c.job.cancelled /\ c.job.of = e.scan.job.of
              /\ c.job.root = e.scan.job.root /\ c.job.at = e.scan.job.at
              /\ c.job.found = e.scan.job.found /\ c.job.warm = e.scan.job.warm
    BY <2>5, CancelledScan
  <2> HIDE DEF c
  <2>7. /\ g \in Editors /\ SamePreview(e, g) /\ g.open = e.open /\ g.root = e.root
        /\ g.generation = e.generation + 1 /\ g.scan = c /\ g.scanning = FALSE /\ g.delivery = None
        /\ g.staging = <<>> /\ g.visible = <<>> /\ g.list = l
    BY <2>4, <2>5, <2>6, EmptySequences DEF Editors, SamePreview
  <2> HIDE DEF g
  <2>8. EditorInv(g, posts, done)
    <3>1. OneFolder(g)
      BY <2>4, <2>7, EmptySequences DEF OneFolder, Ready
    <3>2. ~Fills(g)
      BY <2>7 DEF Fills
    <3>3. ScanIsNewest(g)
      <4>1. e.scan.job # None => e.scan.job.of \in Nat /\ e.scan.job.of <= e.generation
        BY <2>5 DEF Workers, ScanJobs, EditorInv, ScanPart, ScanIsNewest
      <4>2. g.scan.job # None => g.scan.job.of <= g.generation
        BY <2>5, <2>6, <2>7, <4>1
      <4> QED
        BY <2>6, <2>7, <3>2, <4>2 DEF ScanIsNewest
    <3>4. ListIsWhole(g, done)
      BY <2>4, <2>7 DEF ListIsWhole
    <3>5. ScanIsSound(g, done)
      BY <2>6, <2>7, <3>2 DEF ScanIsSound, EditorInv, ScanPart
    <3>6. NoNewWait(e.list, g.list)
      BY <2>4, <2>7 DEF NoNewWait
    <3>7. PreviewPart(g, posts)
      BY <2>7, <3>6, PreviewTransfer DEF EditorInv
    <3> QED
      BY <3>1, <3>3, <3>4, <3>5, <3>7 DEF EditorInv, ScanPart
  <2>9. /\ a \in Editors /\ EditorInv(a, posts, done)
        /\ PreviewsAreGood(a.preview, posts, stored, files) /\ a.open = e.open
    <3>1. g.preview = e.preview
      BY <2>7 DEF SamePreview
    <3> QED BY <2>7, <2>8, <3>1, AbandonKeeps DEF SameScan
  <2> HIDE DEF a
  <2>10. /\ f \in Editors /\ EditorInv(f, posts, done) /\ RowsExist(f)
         /\ PreviewsAreGood(f.preview, posts, stored, files) /\ f.open = e.open
    BY <2>9, RebuildKeeps DEF SameScan, SamePreview
  <2> QED
    BY <2>1, <2>10
<1> QED
  BY <1>1, <1>2 DEF Editors

\* A new scan takes the place of whatever runs.
LEMMA ScanKeeps ==
  ASSUME NEW e \in Editors, NEW posts \in Seq(Posts), NEW done, NEW stored, NEW files, NEW r \in Roots,
         EditorInv(e, posts, done), RowsExist(e), PreviewsAreGood(e.preview, posts, stored, files), e.open
  PROVE  LET f == scanSampleRootFolder(e, r)
         IN  /\ f \in Editors /\ EditorInv(f, posts, done) /\ RowsExist(f)
             /\ PreviewsAreGood(f.preview, posts, stored, files)
<1> DEFINE q == AbandonPreviews(e)
           kept == IF ~e.scanning /\ e.root = r THEN q.list ELSE <<>>
           n == e.generation + 1
           d == [of |-> n, pending |-> <<>>, replacement |-> <<>>,
                 replacementReady |-> FALSE, rollback |-> kept,
                 rollbackReady |-> kept # <<>>, had |-> FALSE,
                 complete |-> FALSE, incomplete |-> FALSE]
           c == CancelAll(q.scan)
           s == SubmitTo(q.scan, ScanJob(r, n))
           f == [q EXCEPT !.generation = n, !.root = r, !.scanning = TRUE, !.list = <<>>,
                          !.visible = <<>>, !.staging = <<>>, !.delivery = d, !.scan = s]
<1>1. scanSampleRootFolder(e, r) = f
  BY DEF scanSampleRootFolder
<1>2. /\ q \in Editors /\ SameScan(e, q) /\ EditorInv(q, posts, done)
      /\ PreviewsAreGood(q.preview, posts, stored, files)
      /\ \A i \in DOMAIN q.list : q.list[i].state # "queued"
  BY AbandonKeeps
<1> HIDE DEF q
<1>3. /\ q.generation \in Nat /\ n \in Nat /\ q.generation = e.generation /\ q.scan \in Workers(ScanJobs)
      /\ q.list \in Seq(Entries) /\ q.open
  BY <1>2 DEF Editors, SameScan
<1>4. /\ kept \in Seq(Entries) /\ Ready(r, kept) /\ Whole(r, NamesOf(kept), done)
  <2>1. CASE ~e.scanning /\ e.root = r
    <3>1. q.delivery = None /\ q.root = r
      BY <1>2, <2>1 DEF SameScan, EditorInv, ScanPart, ScanIsNewest
    <3> QED
      BY <1>2, <1>3, <2>1, <3>1 DEF EditorInv, OneFolder, Ready, ScanPart, ListIsWhole
  <2>2. CASE ~(~e.scanning /\ e.root = r)
    BY <2>2, EmptySequences DEF Ready, Whole
  <2> QED BY <2>1, <2>2
<1> HIDE DEF kept
<1>5. /\ d \in Deliveries /\ d # None
      /\ d.of = n /\ d.pending = <<>> /\ d.replacement = <<>> /\ ~d.replacementReady
      /\ d.rollback = kept /\ (d.rollbackReady <=> kept # <<>>) /\ ~d.complete /\ ~d.incomplete
  <2>1. d \in Deliveries
    BY <1>3, <1>4, EmptySequences DEF Deliveries
  <2> QED
    BY <2>1, BrowserAssumption
<1> HIDE DEF d
<1>6. ScanJob(r, n) \in ScanJobs /\ ScanJob(r, n) # None
  <2>1. ScanJob(r, n) \in ScanJobs
    <3>1. <<>> \in Seq(Files) /\ {} \in SUBSET (Names \cup {Deep}) /\ 0 \in 0 .. 2
      BY EmptySequences
    <3> QED BY <1>3, <3>1 DEF ScanJob, ScanJobs
  <2> QED
    BY <2>1, BrowserAssumption
<1>7. /\ c \in Workers(ScanJobs) /\ (c.job = None <=> q.scan.job = None)
      /\ q.scan.job # None =>
            /\ c.job \in ScanJobs /\ c.job.of = q.scan.job.of /\ c.job.root = q.scan.job.root
            /\ c.job.at = q.scan.job.at /\ c.job.found = q.scan.job.found
            /\ c.job.warm = q.scan.job.warm
  BY <1>3, CancelledScan
<1>8. s \in Workers(ScanJobs) /\ s.job = c.job /\ s.next = ScanJob(r, n)
  BY <1>6, <1>7 DEF SubmitTo, Workers
<1> HIDE DEF c, s, n
<1>9. /\ f \in Editors /\ SamePreview(q, f) /\ f.open /\ f.generation = n /\ f.root = r
      /\ f.scanning = TRUE /\ f.list = <<>> /\ f.visible = <<>> /\ f.staging = <<>>
      /\ f.delivery = d /\ f.scan = s
  BY <1>2, <1>3, <1>5, <1>8, EmptySequences DEF Editors, SamePreview
<1> HIDE DEF f
<1>10. q.scan.job # None => q.scan.job.of \in Nat /\ q.scan.job.of <= q.generation
  BY <1>2, <1>3 DEF Workers, ScanJobs, EditorInv, ScanPart, ScanIsNewest
<1>11. ~Fills(f)
  BY <1>3, <1>5, <1>7, <1>8, <1>9, <1>10 DEF Fills, n
<1>12. EditorInv(f, posts, done)
  <2>1. OneFolder(f)
    BY <1>4, <1>5, <1>9, EmptySequences DEF OneFolder, Ready
  <2>2. ScanIsNewest(f)
    <3>1. r # None
      BY BrowserAssumption
    <3>2. f.scan.job # None => f.scan.job.of <= f.generation
      BY <1>3, <1>7, <1>8, <1>9, <1>10 DEF n
    <3> QED BY <1>5, <1>6, <1>8, <1>9, <1>11, <3>1, <3>2 DEF ScanIsNewest
  <2>3. ListIsWhole(f, done)
    BY <1>4, <1>5, <1>9 DEF ListIsWhole
  <2>4. ScanIsSound(f, done)
    <3>1. f.scan.job # None =>
             /\ f.scan.job.at \in {"save", "commit", "publish"} =>
                   <<f.scan.job.root, NamesOf(f.scan.job.found)>> \in done
             /\ f.scan.job.at = "warm" => f.scan.job.warm # <<>>
      BY <1>2, <1>7, <1>8, <1>9 DEF ScanIsSound, EditorInv, ScanPart
    <3> QED BY <1>5, <1>9, <1>11, <3>1 DEF ScanIsSound
  <2>5. NoNewWait(q.list, f.list)
    BY <1>9, EmptySequences DEF NoNewWait
  <2>6. PreviewPart(f, posts)
    BY <1>2, <1>9, <2>5, PreviewTransfer DEF EditorInv
  <2> QED
    BY <2>1, <2>2, <2>3, <2>4, <2>6 DEF EditorInv, ScanPart
<1>13. RowsExist(f)
  BY <1>9, EmptySequences DEF RowsExist
<1>14. PreviewsAreGood(f.preview, posts, stored, files)
  BY <1>2, <1>9 DEF SamePreview
<1> QED
  BY <1>1, <1>9, <1>12, <1>13, <1>14


-----------------------------------------------------------------------------
(* The timer drains the delivery.                                          *)

LEMMA ReadyFirstAndRest ==
  ASSUME NEW r, NEW s \in Seq(Entries), Ready(r, s)
  PROVE  Ready(r, FirstOf(s)) /\ Ready(r, Rest(s))
BY FirstAndRest DEF Ready

LEMMA ReadyConcat ==
  ASSUME NEW r, NEW s \in Seq(Entries), NEW t \in Seq(Entries), Ready(r, s), Ready(r, t)
  PROVE  Ready(r, s \o t)
<1>1. /\ DOMAIN (s \o t) = 1 .. Len(s) + Len(t) /\ DOMAIN s = 1 .. Len(s) /\ DOMAIN t = 1 .. Len(t)
      /\ Len(s) \in Nat /\ Len(t) \in Nat
      /\ \A i \in 1 .. Len(s) + Len(t) : (s \o t)[i] = IF i <= Len(s) THEN s[i] ELSE t[i - Len(s)]
  BY ConcatProperties, LenProperties
<1>2. ASSUME NEW i \in DOMAIN (s \o t)
      PROVE  (\E j \in DOMAIN s : (s \o t)[i] = s[j]) \/ (\E j \in DOMAIN t : (s \o t)[i] = t[j])
  <2>1. CASE i <= Len(s)
    BY <1>1, <2>1
  <2>2. CASE ~(i <= Len(s))
    <3>1. i - Len(s) \in DOMAIN t
      BY <1>1, <2>2
    <3> QED BY <1>1, <2>2, <3>1
  <2> QED BY <2>1, <2>2
<1> QED
  BY <1>2 DEF Ready

LEMMA SplitNames ==
  ASSUME NEW s \in Seq(Entries), NEW t \in Seq(Entries)
  PROVE  /\ s \o FirstOf(t) \in Seq(Entries)
         /\ NamesOf(s \o FirstOf(t)) \o NamesOf(Rest(t)) = NamesOf(s) \o NamesOf(t)
         /\ Rest(t) = <<>> => NamesOf(s \o FirstOf(t)) = NamesOf(s) \o NamesOf(t)
         /\ t = <<>> => FirstOf(t) = <<>> /\ Rest(t) = <<>>
<1>1. FirstOf(t) \in Seq(Entries) /\ Rest(t) \in Seq(Entries) /\ FirstOf(t) \o Rest(t) = t
  BY FirstAndRest
<1>2. s \o FirstOf(t) \in Seq(Entries) /\ (s \o FirstOf(t)) \o Rest(t) = s \o t
  <2>1. s \o FirstOf(t) \in Seq(Entries)
    BY <1>1, ConcatProperties
  <2>2. (s \o FirstOf(t)) \o Rest(t) = s \o (FirstOf(t) \o Rest(t))
    <3>1. FirstOf(t) \in Seq(Entries) /\ Rest(t) \in Seq(Entries)
      BY <1>1
    <3> QED BY <3>1, ConcatAssociative
  <2> QED BY <1>1, <2>1, <2>2
<1>3. NamesOf((s \o FirstOf(t)) \o Rest(t)) = NamesOf(s \o FirstOf(t)) \o NamesOf(Rest(t))
  BY <1>1, <1>2, NamesOfConcat, EntriesAreNamed
<1>4. NamesOf(s \o t) = NamesOf(s) \o NamesOf(t)
  BY NamesOfConcat, EntriesAreNamed
<1>5. Rest(t) = <<>> => FirstOf(t) = t
  <2>1. FirstOf(t) \o <<>> = FirstOf(t)
    BY <1>1, ConcatEmptySeq
  <2> QED BY <1>1, <2>1
<1>6. t = <<>> => FirstOf(t) = <<>> /\ Rest(t) = <<>>
  BY <1>1, ConcatEqualIffEmpty
<1> QED
  BY <1>2, <1>3, <1>4, <1>5, <1>6

\* Entries found join the list.
LEMMA AppendKeeps ==
  ASSUME NEW e \in Editors, NEW found \in Seq(Entries)
  PROVE  LET g == AppendFound(e, found)
         IN  /\ g \in Editors /\ SameScan(e, g) /\ SamePreview(e, g)
             /\ SameRows(e.list \o found, g.list)
             /\ RowsExist(e) => RowsExist(g)
<1> DEFINE grown == [e EXCEPT !.list = e.list \o found]
           new == [i \in DOMAIN found |-> Len(e.list) + i]
           g == AppendFound(e, found)
<1>1. /\ e.list \in Seq(Entries) /\ e.list \o found \in Seq(Entries)
      /\ Len(e.list) \in Nat /\ Len(found) \in Nat /\ DOMAIN found = 1 .. Len(found)
      /\ DOMAIN e.list = 1 .. Len(e.list)
      /\ DOMAIN (e.list \o found) = 1 .. Len(e.list) + Len(found)
  <2>1. e.list \in Seq(Entries) /\ Len(e.list) \in Nat /\ DOMAIN e.list = 1 .. Len(e.list)
    BY ListType
  <2> QED BY <2>1, ConcatProperties, LenProperties
<1>2. /\ grown \in Editors /\ SameScan(e, grown) /\ SamePreview(e, grown)
      /\ grown.list = e.list \o found /\ grown.visible = e.visible
  BY <1>1 DEF Editors, SameScan, SamePreview
<1>3. RowsExist(e) => RowsExist(grown)
  BY <1>1, <1>2 DEF RowsExist
<1>4. SameRows(e.list \o found, e.list \o found)
  BY DEF SameRows, SameFiles
<1>5. CASE found = <<>>
  <2>1. g = e
    BY <1>5 DEF AppendFound
  <2>2. e.list \o found = e.list
    BY <1>1, <1>5, ConcatEmptySeq
  <2> QED
    BY <1>4, <2>1, <2>2 DEF SameScan, SamePreview
<1>6. CASE found # <<>> /\ e.list = <<>>
  <2>1. g = Refreshed(grown)
    BY <1>6 DEF AppendFound
  <2> HIDE DEF grown, g
  <2>2. /\ g \in Editors /\ RowsExist(g) /\ SameScan(grown, g) /\ SamePreview(grown, g)
        /\ SameRows(grown.list, g.list)
    BY <1>2, <2>1, RefreshKeeps
  <2> QED
    BY <1>2, <2>2 DEF SameScan, SamePreview, g
<1>7. CASE found # <<>> /\ e.list # <<>> /\ e.favoritesOnly
  <2>1. g = grown
    BY <1>7 DEF AppendFound
  <2> HIDE DEF grown, g
  <2> QED
    BY <1>2, <1>3, <1>4, <2>1 DEF g
<1>8. CASE found # <<>> /\ e.list # <<>> /\ ~e.favoritesOnly
  <2> DEFINE v == e.visible \o new
  <2>1. g = [grown EXCEPT !.visible = v]
    BY <1>2, <1>8 DEF AppendFound
  <2>2. new \in Seq(Nat) /\ Len(new) = Len(found)
    BY <1>1, Relabelled
  <2>3. e.visible \in Seq(Nat)
    BY DEF Editors
  <2>4. /\ v \in Seq(Nat) /\ DOMAIN v = 1 .. Len(e.visible) + Len(found)
        /\ DOMAIN e.visible = 1 .. Len(e.visible) /\ Len(e.visible) \in Nat
        /\ \A k \in DOMAIN v : v[k] = IF k <= Len(e.visible) THEN e.visible[k] ELSE new[k - Len(e.visible)]
    <3>1. /\ v \in Seq(Nat) /\ Len(v) = Len(e.visible) + Len(new)
          /\ \A k \in 1 .. Len(e.visible) + Len(new) :
                v[k] = IF k <= Len(e.visible) THEN e.visible[k] ELSE new[k - Len(e.visible)]
      BY <2>2, <2>3, ConcatProperties
    <3>2. DOMAIN v = 1 .. Len(v) /\ DOMAIN e.visible = 1 .. Len(e.visible) /\ Len(e.visible) \in Nat
      BY <2>3, <3>1, LenProperties
    <3> QED BY <2>2, <3>1, <3>2
  <2>5. ASSUME RowsExist(e), NEW k \in DOMAIN v PROVE v[k] \in DOMAIN (e.list \o found)
    <3>1. CASE k <= Len(e.visible)
      BY <1>1, <2>4, <2>5, <3>1 DEF RowsExist
    <3>2. CASE ~(k <= Len(e.visible))
      <4>1. k - Len(e.visible) \in DOMAIN found
        BY <1>1, <2>4, <3>2
      <4>2. v[k] = new[k - Len(e.visible)] /\ new[k - Len(e.visible)] = Len(e.list) + (k - Len(e.visible))
        BY <2>4, <3>2, <4>1
      <4>3. Len(e.list) + (k - Len(e.visible)) \in 1 .. Len(e.list) + Len(found)
        BY <1>1, <4>1
      <4> QED BY <1>1, <4>2, <4>3
    <3> QED BY <3>1, <3>2
  <2> HIDE DEF v, new, grown, g
  <2>6. /\ g \in Editors /\ SameScan(grown, g) /\ SamePreview(grown, g)
        /\ g.list = grown.list /\ g.visible = v
    BY <1>2, <2>1, <2>4 DEF Editors, SameScan, SamePreview
  <2>7. RowsExist(e) => RowsExist(g)
    BY <1>2, <2>5, <2>6 DEF RowsExist
  <2> QED
    BY <1>2, <1>4, <2>6, <2>7 DEF SameScan, SamePreview, g
<1> QED
  BY <1>5, <1>6, <1>7, <1>8


\* The tick takes what it may and drops nothing.
LEMMA DrainKeeps ==
  ASSUME NEW e \in Editors, NEW posts \in Seq(Posts), NEW done,
         EditorInv(e, posts, done), RowsExist(e)
  PROVE  LET f == drainSampleScanResults(e)
         IN  f \in Editors /\ EditorInv(f, posts, done) /\ RowsExist(f) /\ SamePreview(e, f)
<1>1. CASE e.delivery = None
  BY <1>1 DEF drainSampleScanResults, SamePreview
<1>2. CASE e.delivery # None
  <2> DEFINE d == e.delivery
             found == FirstOf(d.pending)
             g == AppendFound(e, found)
             replacing == Rest(d.pending) = <<>> /\ d.replacementReady
             staged == IF replacing THEN e.staging \o FirstOf(d.replacement) ELSE e.staging
             last == replacing /\ Rest(d.replacement) = <<>>
             left2 == IF replacing THEN Rest(d.replacement) ELSE d.replacement
             rest == [d EXCEPT !.pending = Rest(d.pending), !.replacement = left2,
                               !.replacementReady = d.replacementReady /\ ~last]
             staging == IF last THEN <<>> ELSE staged
             list == IF last THEN staged ELSE g.list
             shown == [g EXCEPT !.staging = staging, !.list = list, !.delivery = rest]
             ends == rest.complete /\ rest.pending = <<>> /\ ~rest.replacementReady
  <2>1. drainSampleScanResults(e) = IF ends THEN FinishScan(shown, rest) ELSE shown
    <3>1. /\ [g EXCEPT !.staging = IF last THEN <<>> ELSE staged, !.list = IF last THEN staged ELSE @,
                       !.delivery = rest] = shown
          /\ [d EXCEPT !.pending = Rest(@), !.replacement = IF replacing THEN Rest(@) ELSE @,
                       !.replacementReady = @ /\ ~last] = rest
      OBVIOUS
    <3> QED BY <1>2, <3>1 DEF drainSampleScanResults
  <2>2. /\ d \in Deliveries /\ d.pending \in Seq(Entries) /\ d.replacement \in Seq(Entries)
        /\ d.rollback \in Seq(Entries) /\ d.replacementReady \in BOOLEAN /\ d.rollbackReady \in BOOLEAN
        /\ d.had \in BOOLEAN /\ d.complete \in BOOLEAN /\ d.incomplete \in BOOLEAN
    BY <1>2, DeliveryType
  <2>3. /\ e.staging \in Seq(Entries) /\ e.list \in Seq(Entries)
        /\ \A i \in DOMAIN e.list : e.list[i].root = e.root /\ IsTrue(e.list[i])
        /\ Ready(e.root, e.staging) /\ Ready(e.root, d.pending) /\ Ready(e.root, d.replacement)
        /\ Ready(e.root, d.rollback)
    BY <1>2 DEF Editors, EditorInv, OneFolder
  <2>4. /\ found \in Seq(Entries) /\ Rest(d.pending) \in Seq(Entries)
        /\ FirstOf(d.replacement) \in Seq(Entries) /\ Rest(d.replacement) \in Seq(Entries)
        /\ Ready(e.root, found) /\ Ready(e.root, Rest(d.pending))
        /\ Ready(e.root, FirstOf(d.replacement)) /\ Ready(e.root, Rest(d.replacement))
    BY <2>2, <2>3, FirstAndRest, ReadyFirstAndRest
  <2>5. /\ e.list \o found \in Seq(Entries)
        /\ NamesOf(e.list \o found) \o NamesOf(Rest(d.pending)) = NamesOf(e.list) \o NamesOf(d.pending)
        /\ Rest(d.pending) = <<>> => NamesOf(e.list \o found) = NamesOf(e.list) \o NamesOf(d.pending)
        /\ d.pending = <<>> => found = <<>> /\ Rest(d.pending) = <<>>
    BY <2>2, <2>3, SplitNames
  <2>6. /\ e.staging \o FirstOf(d.replacement) \in Seq(Entries)
        /\ NamesOf(e.staging \o FirstOf(d.replacement)) \o NamesOf(Rest(d.replacement))
              = NamesOf(e.staging) \o NamesOf(d.replacement)
        /\ Rest(d.replacement) = <<>> =>
              NamesOf(e.staging \o FirstOf(d.replacement)) = NamesOf(e.staging) \o NamesOf(d.replacement)
    BY <2>2, <2>3, SplitNames
  <2>7. /\ g \in Editors /\ SameScan(e, g) /\ SamePreview(e, g)
        /\ SameRows(e.list \o found, g.list) /\ RowsExist(g)
    BY <2>4, AppendKeeps DEF EditorInv
  <2> HIDE DEF g, found
  <2>8. /\ DOMAIN g.list = DOMAIN (e.list \o found) /\ g.list \in Seq(Entries)
        /\ \A i \in DOMAIN g.list : \/ /\ i \in DOMAIN e.list /\ g.list[i].root = e.list[i].root
                                       /\ g.list[i].name = e.list[i].name
                                       /\ g.list[i].state = e.list[i].state
                                       /\ g.list[i].shown = e.list[i].shown
                                       /\ g.list[i].version = e.list[i].version
                                    \/ \E j \in DOMAIN found :
                                       /\ g.list[i].root = found[j].root
                                       /\ g.list[i].name = found[j].name
                                       /\ g.list[i].state = found[j].state
                                       /\ g.list[i].shown = found[j].shown
                                       /\ g.list[i].version = found[j].version
    <3>1. /\ DOMAIN (e.list \o found) = 1 .. Len(e.list) + Len(found)
          /\ DOMAIN e.list = 1 .. Len(e.list) /\ DOMAIN found = 1 .. Len(found)
          /\ Len(e.list) \in Nat /\ Len(found) \in Nat
      <4>1. Len(e.list \o found) = Len(e.list) + Len(found)
        BY <2>3, <2>4, ConcatProperties
      <4>2. DOMAIN (e.list \o found) = 1 .. Len(e.list \o found)
        BY <2>5, LenProperties
      <4> QED BY <2>3, <2>4, <4>1, <4>2, LenProperties
    <3>2. \A i \in 1 .. Len(e.list) + Len(found) :
             (e.list \o found)[i] = IF i <= Len(e.list) THEN e.list[i] ELSE found[i - Len(e.list)]
      BY <2>3, <2>4, ConcatProperties
    <3>3. ASSUME NEW i \in DOMAIN (e.list \o found)
          PROVE  \/ i \in DOMAIN e.list /\ (e.list \o found)[i] = e.list[i]
                 \/ \E j \in DOMAIN found : (e.list \o found)[i] = found[j]
      <4>1. CASE i <= Len(e.list)
        BY <3>1, <3>2, <4>1
      <4>2. CASE ~(i <= Len(e.list))
        <5>1. i \in Nat /\ i <= Len(e.list) + Len(found) /\ i - Len(e.list) \in 1 .. Len(found)
          BY <3>1, <4>2
        <5> QED BY <3>1, <3>2, <4>2, <5>1
      <4> QED BY <4>1, <4>2
    <3>4. g.list \in Seq(Entries)
      BY <2>7 DEF Editors
    <3>5. DOMAIN g.list = DOMAIN (e.list \o found)
      BY <2>7 DEF SameRows, SameFiles
    <3>6. \A i \in DOMAIN (e.list \o found) :
             /\ g.list[i].root = (e.list \o found)[i].root /\ g.list[i].name = (e.list \o found)[i].name
             /\ g.list[i].state = (e.list \o found)[i].state /\ g.list[i].shown = (e.list \o found)[i].shown
             /\ g.list[i].version = (e.list \o found)[i].version
      BY <2>7 DEF SameRows, SameFiles
    <3>7. ASSUME NEW i \in DOMAIN g.list
          PROVE  \/ /\ i \in DOMAIN e.list /\ g.list[i].root = e.list[i].root
                    /\ g.list[i].name = e.list[i].name /\ g.list[i].state = e.list[i].state
                    /\ g.list[i].shown = e.list[i].shown /\ g.list[i].version = e.list[i].version
                 \/ \E j \in DOMAIN found :
                    /\ g.list[i].root = found[j].root /\ g.list[i].name = found[j].name
                    /\ g.list[i].state = found[j].state /\ g.list[i].shown = found[j].shown
                    /\ g.list[i].version = found[j].version
      <4>1. i \in DOMAIN (e.list \o found)
        BY <3>5
      <4>2. CASE i \in DOMAIN e.list /\ (e.list \o found)[i] = e.list[i]
        BY <3>6, <4>1, <4>2
      <4>3. CASE \E j \in DOMAIN found : (e.list \o found)[i] = found[j]
        <5>1. PICK j \in DOMAIN found : (e.list \o found)[i] = found[j]
          BY <4>3
        <5> QED BY <3>6, <4>1, <5>1
      <4> QED BY <3>3, <4>1, <4>2, <4>3
    <3> QED BY <3>4, <3>5, <3>7
  <2>9. /\ NamesOf(g.list) = NamesOf(e.list \o found)
        /\ (g.list = <<>> <=> e.list \o found = <<>>)
    BY <2>5, <2>7, <2>8, SameNames DEF SameRows
  <2>10. \A i \in DOMAIN g.list : g.list[i].root = e.root /\ IsTrue(g.list[i])
    <3>1. \A j \in DOMAIN found : found[j].root = e.root /\ IsTrue(found[j])
      BY <2>4 DEF Ready
    <3>2. ASSUME NEW i \in DOMAIN g.list, i \in DOMAIN e.list,
                 g.list[i].root = e.list[i].root, g.list[i].name = e.list[i].name,
                 g.list[i].state = e.list[i].state, g.list[i].shown = e.list[i].shown,
                 g.list[i].version = e.list[i].version
          PROVE  g.list[i].root = e.root /\ IsTrue(g.list[i])
      BY <2>3, <3>2 DEF IsTrue
    <3>3. ASSUME NEW i \in DOMAIN g.list, NEW j \in DOMAIN found,
                 g.list[i].root = found[j].root, g.list[i].name = found[j].name,
                 g.list[i].state = found[j].state, g.list[i].shown = found[j].shown,
                 g.list[i].version = found[j].version
          PROVE  g.list[i].root = e.root /\ IsTrue(g.list[i])
      BY <3>1, <3>3 DEF IsTrue
    <3> QED BY <2>8, <3>2, <3>3
  <2>11. NoNewWait(e.list, g.list)
    BY <2>4, <2>8 DEF NoNewWait, Ready
  <2>12. staged \in Seq(Entries) /\ Ready(e.root, staged)
    BY <2>3, <2>4, <2>6, ReadyConcat
  <2>13. left2 \in Seq(Entries) /\ Ready(e.root, left2)
    BY <2>2, <2>3, <2>4
  <2>14. /\ ~d.replacementReady => e.staging = <<>>
         /\ d.replacementReady => d.complete /\ ~d.incomplete
         /\ d.rollbackReady => Whole(e.root, NamesOf(d.rollback), done)
         /\ d.incomplete => d.complete /\ IF d.had THEN d.rollbackReady ELSE d.pending = <<>>
         /\ d.complete /\ ~d.incomplete =>
               IF d.had
               THEN d.replacementReady
                    /\ Whole(e.root, NamesOf(e.staging) \o NamesOf(d.replacement), done)
               ELSE ~d.replacementReady
                    /\ Whole(e.root, NamesOf(e.list) \o NamesOf(d.pending), done)
    BY <1>2 DEF EditorInv, ScanPart, ListIsWhole
  <2>15. /\ rest \in Deliveries /\ rest # None /\ rest.of = d.of
         /\ rest.pending = Rest(d.pending) /\ rest.replacement = left2
         /\ rest.replacementReady = (d.replacementReady /\ ~last) /\ rest.rollback = d.rollback
         /\ rest.rollbackReady = d.rollbackReady /\ rest.had = d.had /\ rest.complete = d.complete
         /\ rest.incomplete = d.incomplete
    <3>1. /\ rest \in Deliveries
          /\ rest.of = d.of /\ rest.pending = Rest(d.pending) /\ rest.replacement = left2
          /\ rest.replacementReady = (d.replacementReady /\ ~last) /\ rest.rollback = d.rollback
          /\ rest.rollbackReady = d.rollbackReady /\ rest.had = d.had /\ rest.complete = d.complete
          /\ rest.incomplete = d.incomplete
      <4> HIDE DEF left2, last
      <4> QED BY <2>2, <2>4, <2>13 DEF Deliveries
    <3> HIDE DEF rest
    <3> QED BY <3>1, BrowserAssumption
  <2> HIDE DEF rest
  <2>16. staging \in Seq(Entries) /\ list \in Seq(Entries) /\ Ready(e.root, staging)
    BY <2>8, <2>12, EmptySequences DEF Ready
  <2>17. /\ shown \in Editors /\ SamePreview(e, shown) /\ shown.open = e.open /\ shown.root = e.root
         /\ shown.scanning = e.scanning /\ shown.generation = e.generation /\ shown.scan = e.scan
         /\ shown.delivery = rest /\ shown.staging = staging /\ shown.list = list
         /\ shown.visible = g.visible
    <3> HIDE DEF staging, list
    <3> QED BY <2>7, <2>15, <2>16 DEF Editors, SameScan, SamePreview
  <2> HIDE DEF shown
  <2>18. CASE ~ends
    <3>1. ~last /\ staging = staged /\ list = g.list
      BY <2>14, <2>15, <2>18
    <3>2. OneFolder(shown)
      <4> HIDE DEF staged, left2, replacing, last, staging, list
      <4> QED BY <2>3, <2>4, <2>10, <2>12, <2>13, <2>15, <2>17, <3>1 DEF OneFolder
    <3>3. Fills(shown) <=> Fills(e)
      BY <1>2, <2>15, <2>17 DEF Fills
    <3>4. ScanIsNewest(shown)
      BY <1>2, <2>15, <2>17, <3>3 DEF EditorInv, ScanPart, ScanIsNewest
    <3>5. ListIsWhole(shown, done)
      <4>1. ~rest.replacementReady => shown.staging = <<>>
        BY <2>14, <2>15, <2>17, <3>1
      <4>2. rest.replacementReady => rest.complete /\ ~rest.incomplete
        BY <2>14, <2>15
      <4>3. rest.incomplete => rest.complete /\ IF rest.had THEN rest.rollbackReady ELSE rest.pending = <<>>
        BY <2>5, <2>14, <2>15
      <4>4. ASSUME rest.complete, ~rest.incomplete, rest.had
            PROVE  /\ rest.replacementReady
                   /\ NamesOf(shown.staging) \o NamesOf(rest.replacement)
                         = NamesOf(e.staging) \o NamesOf(d.replacement)
        BY <2>6, <2>14, <2>15, <2>17, <3>1, <4>4
      <4>5. ASSUME rest.complete, ~rest.incomplete, ~rest.had
            PROVE  /\ ~rest.replacementReady
                   /\ NamesOf(shown.list) \o NamesOf(rest.pending) = NamesOf(e.list) \o NamesOf(d.pending)
        BY <2>5, <2>9, <2>14, <2>15, <2>17, <3>1, <4>5
      <4> HIDE DEF staged, left2, replacing, last, staging, list
      <4> QED BY <2>14, <2>15, <2>17, <4>1, <4>2, <4>3, <4>4, <4>5 DEF ListIsWhole
    <3>6. ScanIsSound(shown, done)
      <4>1. NamesOf(shown.list) \o NamesOf(rest.pending) = NamesOf(e.list) \o NamesOf(d.pending)
        BY <2>5, <2>9, <2>15, <2>17, <3>1
      <4>2. e.list = <<>> /\ d.pending = <<>> => shown.list = <<>> /\ rest.pending = <<>>
        BY <2>3, <2>5, <2>9, <2>15, <2>17, <3>1, ConcatEmptySeq
      <4> HIDE DEF staged, left2, replacing, last, staging, list
      <4> QED BY <1>2, <2>15, <2>17, <3>3, <4>1, <4>2 DEF EditorInv, ScanPart, ScanIsSound
    <3>7. PreviewPart(shown, posts)
      BY <2>11, <2>17, <3>1, PreviewTransfer DEF EditorInv
    <3>8. RowsExist(shown)
      BY <2>7, <2>17, <3>1 DEF RowsExist
    <3> QED
      BY <2>1, <2>17, <2>18, <3>2, <3>4, <3>5, <3>6, <3>7, <3>8 DEF EditorInv, ScanPart
  <2>19. CASE ends
    <3> DEFINE back == IF rest.rollbackReady THEN rest.rollback
                       ELSE IF rest.had THEN shown.list ELSE <<>>
               s == IF rest.incomplete THEN <<>> ELSE shown.staging
               l == IF rest.incomplete THEN back ELSE shown.list
               h == [shown EXCEPT !.delivery = None, !.scanning = FALSE, !.staging = s, !.list = l]
    <3>1. drainSampleScanResults(e) = Refreshed(h)
      <4>1. FinishScan(shown, rest) = Refreshed(h)
        BY DEF FinishScan
      <4> QED BY <2>1, <2>19, <4>1
    <3>2. s = <<>>
      BY <2>14, <2>15, <2>17, <2>19
    <3>3. /\ l \in Seq(Entries) /\ \A i \in DOMAIN l : l[i].root = e.root /\ IsTrue(l[i])
          /\ Whole(e.root, NamesOf(l), done) /\ NoNewWait(e.list, l)
      <4>1. CASE rest.incomplete /\ rest.rollbackReady
        <5>1. l = d.rollback
          BY <2>15, <4>1
        <5> QED BY <2>2, <2>3, <2>14, <2>15, <4>1, <5>1 DEF Ready, NoNewWait
      <4>2. CASE rest.incomplete /\ ~rest.rollbackReady
        <5>1. l = <<>>
          BY <2>14, <2>15, <4>2
        <5> QED BY <5>1, EmptySequences DEF Whole, NoNewWait
      <4>3. CASE ~rest.incomplete /\ last
        <5>1. l = staged /\ staged = e.staging \o FirstOf(d.replacement)
          BY <2>17, <4>3
        <5>2. NamesOf(l) = NamesOf(e.staging) \o NamesOf(d.replacement)
          BY <2>6, <4>3, <5>1
        <5>3. d.had /\ d.complete
          BY <2>14, <2>15, <4>3
        <5>4. \A i \in DOMAIN l : l[i].root = e.root /\ IsTrue(l[i]) /\ l[i].state # "queued"
          <6> HIDE DEF staged, l
          <6> QED BY <2>12, <5>1 DEF Ready
        <5> HIDE DEF l
        <5> QED BY <2>12, <2>14, <2>15, <4>3, <5>1, <5>2, <5>3, <5>4 DEF NoNewWait
      <4>4. CASE ~rest.incomplete /\ ~last
        <5>1. l = g.list /\ ~d.replacementReady /\ ~d.had /\ Rest(d.pending) = <<>>
          BY <2>14, <2>15, <2>17, <2>19, <4>4
        <5>2. NamesOf(l) = NamesOf(e.list) \o NamesOf(d.pending)
          BY <2>5, <2>9, <5>1
        <5> HIDE DEF l
        <5> QED BY <2>8, <2>10, <2>11, <2>14, <2>15, <2>19, <4>4, <5>1, <5>2
      <4> QED BY <4>1, <4>2, <4>3, <4>4
    <3> HIDE DEF l, s, back
    <3>4. /\ h \in Editors /\ SamePreview(shown, h) /\ h.open = e.open /\ h.root = e.root
          /\ h.scanning = FALSE /\ h.generation = e.generation /\ h.scan = e.scan
          /\ h.delivery = None /\ h.staging = <<>> /\ h.list = l
      BY <2>17, <3>2, <3>3, EmptySequences DEF Editors, SamePreview
    <3> HIDE DEF h
    <3>5. SamePreview(e, h) /\ ~Fills(h)
      BY <2>17, <3>4 DEF SamePreview, Fills
    <3>6. e.scan.next = None
      BY <1>2, <2>15, <2>19 DEF EditorInv, ScanPart, ScanIsNewest
    <3>7. OneFolder(h)
      BY <3>3, <3>4, EmptySequences DEF OneFolder, Ready
    <3>8. ScanIsNewest(h)
      BY <3>4, <3>5, <3>6 DEF EditorInv, ScanPart, ScanIsNewest
    <3>9. ListIsWhole(h, done)
      BY <3>3, <3>4 DEF ListIsWhole
    <3>10. ScanIsSound(h, done)
      BY <3>4, <3>5, <3>6 DEF EditorInv, ScanPart, ScanIsSound
    <3>11. PreviewPart(h, posts)
      BY <3>3, <3>4, <3>5, PreviewTransfer DEF EditorInv
    <3>12. EditorInv(h, posts, done)
      BY <3>7, <3>8, <3>9, <3>10, <3>11 DEF EditorInv, ScanPart
    <3>13. /\ Refreshed(h) \in Editors /\ RowsExist(Refreshed(h)) /\ SamePreview(h, Refreshed(h))
           /\ EditorInv(Refreshed(h), posts, done)
      BY <3>4, <3>12, RefreshKeeps
    <3> QED
      BY <3>1, <3>5, <3>13 DEF SamePreview
  <2> QED
    BY <2>18, <2>19
<1> QED
  BY <1>1, <1>2


-----------------------------------------------------------------------------
(* Previews are asked for, and their results are taken.                    *)

LEMMA QueueKeeps ==
  ASSUME NEW e \in Editors, NEW posts \in Seq(Posts), NEW done, NEW stored, NEW files,
         NEW rows \in SUBSET DOMAIN e.visible, e.open,
         EditorInv(e, posts, done), RowsExist(e), PreviewsAreGood(e.preview, posts, stored, files)
  PROVE  LET f == queueVisibleSamplePreviews(e, rows)
         IN  /\ f \in Editors /\ EditorInv(f, posts, done) /\ RowsExist(f)
             /\ PreviewsAreGood(f.preview, posts, stored, files)
<1> DEFINE wanted == {at \in {e.visible[row] : row \in rows} : e.list[at].state = "missing"}
           order == Ordered(wanted, [at \in wanted |-> at])
           requests == [i \in DOMAIN order |-> Request(e, order[i])]
           job == [generation |-> e.previewGeneration, root |-> e.root, requests |-> requests,
                   results |-> <<>>, cancelled |-> FALSE, at |-> "load",
                   store |-> [n \in Names |-> None], stamp |-> 0]
           l == [at \in DOMAIN e.list |->
                   IF at \in wanted THEN [e.list[at] EXCEPT !.state = "queued"] ELSE e.list[at]]
           c == CancelAll(e.preview)
           w == SubmitTo(e.preview, job)
           f == [e EXCEPT !.building = TRUE, !.list = l, !.preview = w]
<1>1. CASE e.root = None \/ e.building \/ wanted = {}
  <2>1. queueVisibleSamplePreviews(e, rows) = e
    BY <1>1 DEF queueVisibleSamplePreviews
  <2> QED
    BY <2>1
<1>2. CASE e.root # None /\ ~e.building /\ wanted # {}
  <2>1. queueVisibleSamplePreviews(e, rows) = f
    BY <1>2 DEF queueVisibleSamplePreviews
  <2>2. /\ e.list \in Seq(Entries) /\ Len(e.list) \in Nat /\ DOMAIN e.list = 1 .. Len(e.list)
        /\ \A i \in DOMAIN e.list : e.list[i] \in Entries
    BY ListType
  <2>3. wanted \in SUBSET DOMAIN e.list
    BY DEF RowsExist
  <2> HIDE DEF wanted
  <2>4. /\ order \in Seq(Nat) /\ \A k \in DOMAIN order : order[k] \in wanted
        /\ \A i \in wanted : \E k \in DOMAIN order : order[k] = i
    <3>1. wanted \in SUBSET (1 .. Len(e.list)) /\ [at \in wanted |-> at] \in [wanted -> Nat]
      BY <2>2, <2>3
    <3> QED BY <2>2, <3>1, OrderedPlaces
  <2> HIDE DEF order
  <2>5. /\ DOMAIN requests = DOMAIN order
        /\ \A k \in DOMAIN order :
              /\ requests[k] \in Requests /\ requests[k].at = order[k] /\ requests[k].root = e.root
              /\ requests[k].root = e.list[order[k]].root /\ requests[k].name = e.list[order[k]].name
    <3>1. ASSUME NEW k \in DOMAIN order
          PROVE  /\ requests[k] \in Requests /\ requests[k].at = order[k] /\ requests[k].root = e.root
                 /\ requests[k].root = e.list[order[k]].root /\ requests[k].name = e.list[order[k]].name
      <4>1. order[k] \in DOMAIN e.list /\ order[k] \in Nat /\ e.list[order[k]] \in Entries
        BY <2>2, <2>3, <2>4
      <4>2. requests[k] = [at |-> order[k], root |-> e.list[order[k]].root, name |-> e.list[order[k]].name]
        BY DEF Request
      <4>3. e.list[order[k]].root = e.root
        BY <4>1 DEF EditorInv, OneFolder
      <4> QED BY <4>1, <4>2, <4>3 DEF Requests, Entries
    <3> QED BY <3>1
  <2>6. requests \in Seq(Requests)
    BY <2>4, <2>5, Relabelled
  <2> HIDE DEF requests
  <2>7. /\ e.root \in Roots /\ e.previewGeneration \in Nat /\ e.preview \in Workers(PreviewJobs)
    BY <1>2 DEF Editors
  <2>8. /\ job \in PreviewJobs /\ job # None /\ job.generation = e.previewGeneration /\ ~job.cancelled
        /\ job.requests = requests /\ job.results = <<>> /\ GoodJob(job)
    <3>1. [n \in Names |-> None] \in Stores
      BY DEF Stores
    <3>2. job \in PreviewJobs
      BY <2>6, <2>7, <3>1, EmptySequences DEF PreviewJobs
    <3>3. GoodJob(job)
      BY <2>5, EmptySequences DEF GoodJob, GoodResults, GoodStore
    <3> QED BY <3>2, <3>3, BrowserAssumption
  <2> HIDE DEF job
  <2>9. /\ c \in Workers(PreviewJobs) /\ (c.job = None <=> e.preview.job = None)
        /\ e.preview.job # None => c.job.cancelled /\ c.job.generation = e.preview.job.generation
        /\ PreviewsAreGood(c, posts, stored, files)
    BY <2>7, CancelledWork
  <2>10. w \in Workers(PreviewJobs) /\ w.job = c.job /\ w.next = job
    BY <2>8, <2>9 DEF SubmitTo, Workers
  <2>11. PreviewsAreGood(w, posts, stored, files)
    BY <2>8, <2>9, <2>10 DEF PreviewsAreGood
  <2>12. /\ DOMAIN l = DOMAIN e.list /\ \A i \in DOMAIN e.list : l[i] \in Entries
    BY <2>2 DEF Entries
  <2>13. l \in Seq(Entries)
    BY <2>2, <2>12, Relabelled
  <2>14. /\ SameFiles(e.list, l) /\ \A i \in DOMAIN l : IsTrue(e.list[i]) => IsTrue(l[i])
         /\ \A i \in DOMAIN l : i \notin wanted => l[i] = e.list[i]
    BY <2>2 DEF SameFiles, IsTrue, Entries
  <2> HIDE DEF l, c, w
  <2>15. /\ f \in Editors /\ SameScan(e, f) /\ f.list = l /\ f.visible = e.visible /\ f.preview = w
         /\ f.building = TRUE /\ f.previewGeneration = e.previewGeneration
    BY <2>10, <2>13 DEF Editors, SameScan
  <2> HIDE DEF f
  <2>16. /\ e.preview.next = None /\ ~Runs(e) /\ Arrives(e, posts) = {}
         /\ \A i \in DOMAIN e.list : e.list[i].state # "queued"
    BY <1>2 DEF EditorInv, PreviewPart, OneBatch, RowsAreServed
  <2>17. ~Runs(f) /\ Arrives(f, posts) = {}
    BY <2>9, <2>10, <2>15, <2>16 DEF Runs, Arrives
  <2>18. OneFolder(f)
    BY <2>14, <2>15 DEF EditorInv, OneFolder, SameScan, SameFiles
  <2>19. ScanPart(f, done)
    BY <2>14, <2>15, ScanTransfer DEF EditorInv
  <2>20. OneBatch(f, posts)
    BY <2>8, <2>9, <2>10, <2>15, <2>17 DEF OneBatch, EditorInv, PreviewPart
  <2>21. ASSUME NEW i \in DOMAIN f.list, f.list[i].state = "queued"
         PROVE  Concerns(f.list, i, f.preview.next.requests)
    <3>1. i \in wanted
      BY <2>14, <2>15, <2>16, <2>21 DEF SameFiles
    <3>2. PICK k \in DOMAIN order : order[k] = i
      BY <2>4, <3>1
    <3>3. k \in DOMAIN requests /\ requests[k].at = i /\ IsFor(f.list[i], requests[k])
      BY <2>3, <2>5, <2>14, <2>15, <3>1, <3>2 DEF IsFor, SameFiles
    <3> QED BY <2>8, <2>10, <2>15, <3>3 DEF Concerns
  <2>22. RowsAreServed(f, posts)
    BY <2>15, <2>17, <2>21 DEF RowsAreServed
  <2>23. RowsExist(f)
    BY <2>14, <2>15 DEF RowsExist, SameFiles
  <2> QED
    BY <2>1, <2>11, <2>15, <2>18, <2>19, <2>20, <2>22, <2>23 DEF EditorInv, PreviewPart
<1> QED
  BY <1>1, <1>2

\* What a list of results makes of the list: each takes its own row, if that is still there.
Taken(list, results, k, t) ==
    /\ t \in Seq(Entries) /\ SameFiles(list, t) /\ NoNewWait(list, t)
    /\ \A i \in DOMAIN t : IsTrue(t[i])
    /\ \A i \in DOMAIN list :
          (\E j \in 1 .. k : results[j].at = i /\ IsFor(list[i], results[j])) => t[i].state # "queued"

LEMMA TakenOne ==
  ASSUME NEW list \in Seq(Entries), NEW results \in Seq(Results), GoodResults(results),
         NEW k \in Nat, k + 1 \in DOMAIN results, NEW t, Taken(list, results, k, t)
  PROVE  Taken(list, results, k + 1, TakeResult(t, results[k + 1]))
<1> DEFINE x == results[k + 1]
           u == TakeResult(t, x)
           y == Answered(t[x.at], x)
<1>1. x \in Results
  BY LenProperties, ElementOfSeq
<1>2. /\ t \in Seq(Entries) /\ Len(t) \in Nat /\ DOMAIN t = 1 .. Len(t)
      /\ \A i \in DOMAIN t : t[i] \in Entries
  BY LenProperties, ElementOfSeq DEF Taken
<1>3. CASE ~(x.at \in DOMAIN t /\ IsFor(t[x.at], x))
  <2>1. u = t
    BY <1>3 DEF TakeResult
  <2>2. ASSUME NEW i \in DOMAIN list, NEW j \in 1 .. k + 1, results[j].at = i, IsFor(list[i], results[j])
        PROVE  t[i].state # "queued"
    <3>1. j # k + 1
      BY <1>3, <2>2 DEF Taken, SameFiles, IsFor
    <3>2. j \in 1 .. k
      BY <3>1
    <3> QED BY <2>2, <3>2 DEF Taken
  <2> QED
    BY <2>1, <2>2 DEF Taken
<1>4. CASE x.at \in DOMAIN t /\ IsFor(t[x.at], x)
  <2>1. u = [t EXCEPT ![x.at] = y]
    BY <1>4 DEF TakeResult
  <2>2. t[x.at] \in Entries
    BY <1>2, <1>4
  <2>3. /\ y \in Entries /\ y.root = t[x.at].root /\ y.name = t[x.at].name /\ y.state # "queued"
        /\ IsTrue(y)
    <3>1. CASE x.ok
      <4>1. y = [t[x.at] EXCEPT !.version = x.stamp, !.shown = x.content, !.state = "ready"]
        BY <3>1 DEF Answered
      <4>2. x.stamp \in Nat /\ x.content \in Contents \cup {None}
        BY <1>1 DEF Results
      <4>3. /\ x.content.root = x.root /\ x.content.name = x.name /\ x.stamp <= x.content.version
        BY <3>1 DEF GoodResults
      <4> HIDE DEF x
      <4>4. /\ y \in Entries /\ y.root = t[x.at].root /\ y.name = t[x.at].name /\ y.state = "ready"
            /\ y.version = x.stamp /\ y.shown = x.content
        BY <2>2, <4>1, <4>2 DEF Entries
      <4> QED BY <1>4, <4>3, <4>4 DEF IsTrue, IsFor
    <3>2. CASE ~x.ok
      <4>1. y = [t[x.at] EXCEPT !.state = "failed"]
        BY <3>2 DEF Answered
      <4> QED BY <2>2, <4>1 DEF Entries, IsTrue
    <3> QED BY <3>1, <3>2
  <2> HIDE DEF y, x, u
  <2>4. /\ u \in Seq(Entries) /\ DOMAIN u = DOMAIN t
        /\ u[x.at] = y /\ \A i \in DOMAIN t : i # x.at => u[i] = t[i]
    BY <1>2, <1>4, <2>1, <2>3, ExceptSeq
  <2>5. SameFiles(list, u)
    BY <2>3, <2>4 DEF Taken, SameFiles
  <2>6. NoNewWait(list, u)
    BY <2>3, <2>4 DEF Taken, NoNewWait
  <2>7. \A i \in DOMAIN u : IsTrue(u[i])
    BY <2>3, <2>4 DEF Taken
  <2>8. ASSUME NEW i \in DOMAIN list, NEW j \in 1 .. k + 1, results[j].at = i, IsFor(list[i], results[j])
        PROVE  u[i].state # "queued"
    <3>1. CASE j = k + 1
      BY <2>3, <2>4, <2>8, <3>1 DEF x
    <3>2. CASE j # k + 1
      <4>1. j \in 1 .. k
        BY <3>2
      <4>2. t[i].state # "queued" /\ i \in DOMAIN t
        BY <2>8, <4>1 DEF Taken, SameFiles
      <4> QED BY <2>3, <2>4, <4>2
    <3> QED BY <3>1, <3>2
  <2>9. Taken(list, results, k + 1, u)
    BY <2>4, <2>5, <2>6, <2>7, <2>8 DEF Taken
  <2> QED
    BY <2>9 DEF u, x
<1> QED
  BY <1>3, <1>4

LEMMA ResultsAreTaken ==
  ASSUME NEW list \in Seq(Entries), NEW results \in Seq(Results), GoodResults(results),
         \A i \in DOMAIN list : IsTrue(list[i])
  PROVE  Taken(list, results, Len(results), TakeResults(list, results))
<1> DEFINE N == Len(results)
           D == [k \in 0 .. N |-> {t \in Seq(Entries) : Taken(list, results, k, t)}]
           Is(f) == f = [k \in 0 .. N |-> IF k = 0 THEN list ELSE TakeResult(f[k - 1], results[k])]
           taken == CHOOSE f : Is(f)
<1>1. TakeResults(list, results) = taken[N]
  BY DEF TakeResults
<1>2. N \in Nat /\ DOMAIN results = 1 .. N
  BY LenProperties
<1>3. list \in D[0]
  <2>1. Taken(list, results, 0, list)
    BY DEF Taken, SameFiles, NoNewWait
  <2> QED
    BY <1>2, <2>1
<1>4. ASSUME NEW k \in 1 .. N, NEW t \in D[k - 1] PROVE TakeResult(t, results[k]) \in D[k]
  <2>1. /\ k - 1 \in Nat /\ (k - 1) + 1 = k /\ k - 1 \in 0 .. N /\ k \in 0 .. N /\ k \in DOMAIN results
    BY <1>2
  <2>2. Taken(list, results, k - 1, t)
    BY <1>4, <2>1
  <2> DEFINE m == k - 1
  <2>3. Taken(list, results, m + 1, TakeResult(t, results[m + 1]))
    <3>1. m \in Nat /\ m + 1 \in DOMAIN results /\ Taken(list, results, m, t)
      BY <2>1, <2>2
    <3> HIDE DEF m
    <3> QED BY <3>1, TakenOne
  <2>4. Taken(list, results, k, TakeResult(t, results[k]))
    BY <2>1, <2>3
  <2> QED
    BY <2>1, <2>4 DEF Taken
<1>5. \E f : Is(f)
  <2> DEFINE U == UNION {D[k] : k \in 0 .. N}
             step == [p \in U \X (1 .. N) |-> TakeResult(p[1], results[p[2]])]
  <2>1. \A k \in 1 .. N : \A t \in D[k - 1] : step[<<t, k>>] = TakeResult(t, results[k])
    <3>1. \A k \in 1 .. N : k - 1 \in 0 .. N
      BY <1>2
    <3> HIDE DEF D, N
    <3> QED BY <3>1
  <2> HIDE DEF step
  <2>2. Steps(D, N, step)
    <3> HIDE DEF D
    <3> QED BY <1>4, <2>1 DEF Steps
  <2>3. PICK f : Iterates(f, D, N, list, step)
    <3> HIDE DEF D
    <3> QED BY <1>2, <1>3, <2>2, Iterate
  <2> DEFINE g == [k \in 0 .. N |-> f[k]]
  <2> HIDE DEF D
  <2>4. ASSUME NEW k \in 1 .. N PROVE f[k] = TakeResult(f[k - 1], results[k])
    <3>1. k - 1 \in 0 .. N
      BY <1>2
    <3>2. f[k - 1] \in D[k - 1] /\ f[k] = step[<<f[k - 1], k>>]
      BY <2>3, <3>1 DEF Iterates
    <3> HIDE DEF N
    <3> QED BY <2>1, <3>2
  <2>5. \A k \in 0 .. N : g[k] = IF k = 0 THEN list ELSE TakeResult(g[k - 1], results[k])
    <3>1. \A k \in 0 .. N : k # 0 => k \in 1 .. N /\ k - 1 \in 0 .. N
      BY <1>2
    <3> QED BY <2>3, <2>4, <3>1 DEF Iterates
  <2>6. Is(g)
    <3>1. g = [k \in 0 .. N |-> g[k]]
      OBVIOUS
    <3> HIDE DEF g, N
    <3> QED BY <2>5, <3>1
  <2> HIDE DEF Is
  <2> QED BY <2>6
<1>6. Is(taken)
  <2> HIDE DEF Is
  <2> QED BY <1>5
<1> HIDE DEF taken, D
<1>7. \A k \in 0 .. N : taken[k] = IF k = 0 THEN list ELSE TakeResult(taken[k - 1], results[k])
  BY <1>6
<1> DEFINE T == {k \in Nat : k <= N => taken[k] \in D[k]}
<1>8. 0 \in T
  BY <1>2, <1>3, <1>7
<1>9. ASSUME NEW k \in Nat, k \in T PROVE k + 1 \in T
  <2> SUFFICES ASSUME k + 1 <= N PROVE taken[k + 1] \in D[k + 1]
    OBVIOUS
  <2>1. k + 1 \in 1 .. N /\ k + 1 \in 0 .. N /\ k + 1 # 0 /\ (k + 1) - 1 = k /\ taken[k] \in D[k]
    BY <1>2, <1>9
  <2> HIDE DEF T, N
  <2>2. taken[k + 1] = TakeResult(taken[k], results[k + 1])
    BY <1>7, <2>1
  <2> QED
    BY <1>4, <2>1, <2>2
<1>10. Nat \subseteq T
  <2> HIDE DEF T
  <2> QED BY <1>8, <1>9, SetInduction
<1>11. taken[N] \in D[N] /\ N \in 0 .. N
  BY <1>2, <1>10
<1> QED
  BY <1>1, <1>2, <1>11 DEF D


-----------------------------------------------------------------------------
(* The stored indices.                                                     *)

Partitions == [root : Roots, entries : Seq(Files)]

\* A stored index of another folder is kept, and none is invented.
LEMMA OthersAreStored ==
  ASSUME partitions \in Seq(Partitions), NEW r
  PROVE  /\ Others(r) \in Seq(Partitions)
         /\ \A i \in DOMAIN Others(r) : \E j \in DOMAIN partitions : Others(r)[i] = partitions[j]
<1> DEFINE N == Len(partitions)
           Kept(s) == \A i \in DOMAIN s : \E j \in DOMAIN partitions : s[i] = partitions[j]
           U == {s \in Seq(Partitions) : Kept(s)}
           Add(s, k) == IF partitions[k].root = r THEN s ELSE Append(s, partitions[k])
           Is(f) == f = [k \in 0 .. N |-> IF k = 0 THEN <<>>
                           ELSE IF partitions[k].root = r THEN f[k - 1] ELSE Append(f[k - 1], partitions[k])]
           kept == CHOOSE f : Is(f)
<1>1. Others(r) = kept[N]
  BY DEF Others
<1>2. N \in Nat /\ DOMAIN partitions = 1 .. N /\ \A k \in 1 .. N : partitions[k] \in Partitions
  BY LenProperties, ElementOfSeq
<1>3. <<>> \in U
  OBVIOUS
<1>4. ASSUME NEW k \in 1 .. N, NEW s \in U PROVE Add(s, k) \in U
  <2>1. CASE partitions[k].root = r
    BY <1>4, <2>1
  <2>2. CASE partitions[k].root # r
    <3> DEFINE t == Append(s, partitions[k])
    <3>1. /\ t \in Seq(Partitions) /\ Len(t) = Len(s) + 1
          /\ \A i \in 1 .. Len(s) : t[i] = s[i] /\ t[Len(s) + 1] = partitions[k]
      <4>1. s \in Seq(Partitions) /\ partitions[k] \in Partitions
        BY <1>2
      <4> QED BY <4>1, AppendProperties
    <3>2. DOMAIN t = 1 .. Len(t) /\ DOMAIN s = 1 .. Len(s) /\ Len(s) \in Nat
      BY <3>1, LenProperties
    <3>3. t[Len(s) + 1] = partitions[k] /\ \A i \in DOMAIN t : i = Len(s) + 1 \/ i \in DOMAIN s
      <4>1. s \in Seq(Partitions) /\ partitions[k] \in Partitions
        BY <1>2
      <4> QED BY <3>1, <3>2, <4>1, AppendProperties
    <3> HIDE DEF t
    <3>4. Kept(t)
      BY <1>2, <3>1, <3>2, <3>3
    <3> QED BY <2>2, <3>1, <3>4 DEF t
  <2> QED BY <2>1, <2>2
<1>5. \E f : Is(f)
  <2> DEFINE D == [k \in 0 .. N |-> U]
             step == [p \in U \X (1 .. N) |-> Add(p[1], p[2])]
  <2>1. \A k \in 1 .. N : \A s \in U : step[<<s, k>>] = Add(s, k)
    OBVIOUS
  <2>2. \A k \in 0 .. N : D[k] = U
    OBVIOUS
  <2>3. \A k \in 1 .. N : k - 1 \in 0 .. N /\ k \in 0 .. N
    BY <1>2
  <2> HIDE DEF step, D, U, Add
  <2>4. Steps(D, N, step)
    <3>1. ASSUME NEW k \in 1 .. N, NEW x \in D[k - 1] PROVE step[<<x, k>>] \in D[k]
      <4>1. x \in U /\ D[k] = U
        BY <2>2, <2>3, <3>1
      <4>2. step[<<x, k>>] = Add(x, k) /\ Add(x, k) \in U
        BY <1>4, <2>1, <4>1
      <4> QED BY <4>1, <4>2
    <3> QED BY <3>1 DEF Steps
  <2>5. <<>> \in D[0]
    BY <1>2, <1>3, <2>2
  <2>6. PICK f : Iterates(f, D, N, <<>>, step)
    BY <1>2, <2>4, <2>5, Iterate
  <2> DEFINE g == [k \in 0 .. N |-> f[k]]
  <2>7. ASSUME NEW k \in 1 .. N PROVE f[k] = Add(f[k - 1], k)
    BY <2>1, <2>2, <2>3, <2>6 DEF Iterates
  <2>8. \A k \in 0 .. N : g[k] = IF k = 0 THEN <<>> ELSE Add(g[k - 1], k)
    <3>1. \A k \in 0 .. N : k # 0 => k \in 1 .. N /\ k - 1 \in 0 .. N
      BY <1>2
    <3> QED BY <2>6, <2>7, <3>1 DEF Iterates
  <2>9. Is(g)
    <3>1. g = [k \in 0 .. N |-> g[k]]
      OBVIOUS
    <3> HIDE DEF g, N
    <3> QED BY <2>8, <3>1 DEF Add
  <2> HIDE DEF Is
  <2> QED BY <2>9
<1>6. Is(kept)
  <2> HIDE DEF Is
  <2> QED BY <1>5
<1>7. \A k \in 0 .. N : kept[k] = IF k = 0 THEN <<>> ELSE Add(kept[k - 1], k)
  <2> HIDE DEF kept
  <2> QED BY <1>6
<1> HIDE DEF kept, Add, U
<1> DEFINE T == {k \in Nat : k <= N => kept[k] \in U}
<1>8. 0 \in T
  BY <1>2, <1>3, <1>7
<1>9. ASSUME NEW k \in Nat, k \in T PROVE k + 1 \in T
  <2> SUFFICES ASSUME k + 1 <= N PROVE kept[k + 1] \in U
    OBVIOUS
  <2>1. k + 1 \in 1 .. N /\ k + 1 \in 0 .. N /\ k + 1 # 0 /\ (k + 1) - 1 = k /\ kept[k] \in U
    BY <1>2, <1>9
  <2> HIDE DEF T, N
  <2>2. kept[k + 1] = Add(kept[k], k + 1)
    BY <1>7, <2>1
  <2> QED
    BY <1>4, <2>1, <2>2
<1>10. Nat \subseteq T
  <2> HIDE DEF T
  <2> QED BY <1>8, <1>9, SetInduction
<1>11. kept[N] \in U
  BY <1>2, <1>10
<1> QED
  BY <1>1, <1>11 DEF U

LEMMA OthersAreWhole ==
  ASSUME partitions \in Seq(Partitions), NEW r, NEW done, PartitionsAreWhole(partitions, done)
  PROVE  Others(r) \in Seq(Partitions) /\ PartitionsAreWhole(Others(r), done)
BY OthersAreStored DEF PartitionsAreWhole

\* An index put in front of the others.
LEMMA FrontIsWhole ==
  ASSUME NEW s \in Seq(Partitions), NEW p \in Partitions, NEW done,
         PartitionsAreWhole(s, done), <<p.root, NamesOf(p.entries)>> \in done
  PROVE  LET t == <<p>> \o s
         IN  t \in Seq(Partitions) /\ PartitionsAreWhole(t, done)
<1> DEFINE t == <<p>> \o s
<1>1. <<p>> \in Seq(Partitions) /\ Len(<<p>>) = 1 /\ <<p>>[1] = p
  OBVIOUS
<1>2. /\ t \in Seq(Partitions) /\ Len(t) = 1 + Len(s)
      /\ \A i \in 1 .. 1 + Len(s) : t[i] = IF i <= 1 THEN <<p>>[i] ELSE s[i - 1]
  BY <1>1, ConcatProperties
<1>3. DOMAIN t = 1 .. Len(t) /\ DOMAIN s = 1 .. Len(s) /\ Len(s) \in Nat
  BY <1>2, LenProperties
<1> HIDE DEF t
<1>4. ASSUME NEW i \in DOMAIN t PROVE <<t[i].root, NamesOf(t[i].entries)>> \in done
  <2>1. CASE i = 1
    <3>1. t[1] = p
      BY <1>1, <1>2, <1>3
    <3> QED BY <2>1, <3>1
  <2>2. CASE i # 1
    <3>1. i - 1 \in DOMAIN s /\ t[i] = s[i - 1]
      BY <1>2, <1>3, <2>2
    <3> QED BY <3>1 DEF PartitionsAreWhole
  <2> QED BY <2>1, <2>2
<1> QED
  BY <1>2, <1>4 DEF t, PartitionsAreWhole

LEMMA PrunedIsWhole ==
  ASSUME NEW s \in Seq(Partitions), NEW done, PartitionsAreWhole(s, done)
  PROVE  pruneIndexPartitions(s) \in Seq(Partitions) /\ PartitionsAreWhole(pruneIndexPartitions(s), done)
<1> DEFINE k == Least(maxRootPartitions, Len(s))
           t == SubSeq(s, 1, k)
<1>1. Len(s) \in Nat /\ DOMAIN s = 1 .. Len(s) /\ k \in 0 .. Len(s)
  BY LenProperties, BrowserAssumption DEF Least
<1>2. pruneIndexPartitions(s) = t
  BY DEF pruneIndexPartitions
<1> HIDE DEF k
<1>3. /\ t \in Seq(Partitions) /\ Len(t) = (IF 1 <= k THEN k - 1 + 1 ELSE 0)
      /\ \A i \in 1 .. k - 1 + 1 : t[i] = s[1 + i - 1]
  <2>1. \A i \in 1 .. k : s[i] \in Partitions
    BY <1>1, ElementOfSeq
  <2>2. 1 \in Int /\ k \in Int
    BY <1>1
  <2> QED BY <2>1, <2>2, SubSeqProperties
<1>4. DOMAIN t = 1 .. Len(t)
  BY <1>3, LenProperties
<1> HIDE DEF t
<1>5. \A i \in DOMAIN t : i \in DOMAIN s /\ t[i] = s[i]
  BY <1>1, <1>3, <1>4
<1> QED
  BY <1>2, <1>3, <1>5 DEF PartitionsAreWhole

-----------------------------------------------------------------------------
(* The scan worker.                                                        *)

LEMMA ScanStepIs ==
  ASSUME ed \in Editors, NEW job \in ScanJobs \cup {None}, NEW d, Attached => d \in Deliveries,
         ScanStep(job, d)
  PROVE  /\ ed' \in Editors /\ SamePreview(ed, ed') /\ ed'.root = ed.root
         /\ ed'.scanning = ed.scanning /\ ed'.generation = ed.generation
         /\ ed'.staging = ed.staging /\ ed'.list = ed.list /\ ed'.visible = ed.visible
         /\ ed'.scan.job = job /\ ed'.scan.next = ed.scan.next
         /\ Attached => ed'.delivery = d
         /\ ~Attached => ed'.delivery = ed.delivery
<1> DEFINE x == IF Attached THEN d ELSE ed.delivery
<1>1. ed' = [ed EXCEPT !.scan.job = job, !.delivery = x]
  BY DEF ScanStep
<1>2. x \in Deliveries \cup {None} /\ (Attached => x = d) /\ (~Attached => x = ed.delivery)
  BY DEF Editors
<1> HIDE DEF x
<1>3. ed.scan \in Workers(ScanJobs)
  BY DEF Editors
<1>4. ed' \in Editors
  BY <1>1, <1>2, <1>3 DEF Editors, Workers
<1>5. /\ SamePreview(ed, ed') /\ ed'.root = ed.root
      /\ ed'.scanning = ed.scanning /\ ed'.generation = ed.generation
      /\ ed'.staging = ed.staging /\ ed'.list = ed.list /\ ed'.visible = ed.visible
      /\ ed'.scan.job = job /\ ed'.scan.next = ed.scan.next /\ ed'.delivery = x
  BY <1>1, <1>3 DEF Editors, Workers, SamePreview
<1> QED
  BY <1>2, <1>4, <1>5

\* A job whose delivery the editor has let go of changes nothing but itself.
LEMMA LetGo ==
  ASSUME ed \in Editors, posted \in Seq(Posts), NEW done, completed \subseteq done,
         EditorInv(ed, posted, completed), RowsExist(ed), Job # None, ~Attached,
         NEW job \in ScanJobs \cup {None}, NEW d, ScanStep(job, d),
         job # None =>
            /\ job.of = Job.of
            /\ job.at \in {"save", "commit", "publish"} => <<job.root, NamesOf(job.found)>> \in done
            /\ job.at = "warm" => job.warm # <<>>
  PROVE  ed' \in Editors /\ EditorInv(ed', posted, done) /\ RowsExist(ed') /\ SamePreview(ed, ed')
<1>1. /\ ed' \in Editors /\ SamePreview(ed, ed') /\ ed'.root = ed.root
      /\ ed'.scanning = ed.scanning /\ ed'.generation = ed.generation
      /\ ed'.staging = ed.staging /\ ed'.list = ed.list /\ ed'.visible = ed.visible
      /\ ed'.scan.job = job /\ ed'.scan.next = ed.scan.next /\ ed'.delivery = ed.delivery
  BY ScanStepIs
<1>2. ed'.open = ed.open
  BY <1>1 DEF SamePreview
<1>3. ~Fills(ed) /\ ~Fills(ed')
  BY <1>1 DEF Fills, Attached, Job
<1>4. OneFolder(ed')
  BY <1>1 DEF EditorInv, OneFolder
<1>5. ScanIsNewest(ed')
  BY <1>1, <1>2, <1>3 DEF EditorInv, ScanPart, ScanIsNewest, Job
<1>6. ListIsWhole(ed', done)
  BY <1>1 DEF EditorInv, ScanPart, ListIsWhole, Whole
<1>7. ScanIsSound(ed', done)
  BY <1>1, <1>3 DEF EditorInv, ScanPart, ScanIsSound
<1>8. NoNewWait(ed.list, ed'.list)
  BY <1>1 DEF NoNewWait
<1>9. PreviewPart(ed', posted)
  BY <1>1, <1>8, PreviewTransfer DEF EditorInv
<1> QED
  BY <1>1, <1>4, <1>5, <1>6, <1>7, <1>9 DEF EditorInv, ScanPart, RowsExist

\* A job that fills its delivery leaves d of it.
LEMMA FillStep ==
  ASSUME ed \in Editors, posted \in Seq(Posts), NEW done, completed \subseteq done,
         EditorInv(ed, posted, completed), RowsExist(ed), Job # None, Attached,
         NEW job \in ScanJobs \cup {None}, NEW d \in Deliveries, ScanStep(job, d),
         d.of = ed.delivery.of,
         Ready(ed.root, d.pending), Ready(ed.root, d.replacement), Ready(ed.root, d.rollback),
         job = None => d.complete \/ ~ed.open,
         job # None => /\ job.of = Job.of /\ job.root = Job.root /\ job.cancelled = Job.cancelled
                       /\ ~d.complete,
         ListIsWhole(ed', done), ScanIsSound(ed', done)
  PROVE  ed' \in Editors /\ EditorInv(ed', posted, done) /\ RowsExist(ed') /\ SamePreview(ed, ed')
<1>1. /\ ed' \in Editors /\ SamePreview(ed, ed') /\ ed'.root = ed.root
      /\ ed'.scanning = ed.scanning /\ ed'.generation = ed.generation
      /\ ed'.staging = ed.staging /\ ed'.list = ed.list /\ ed'.visible = ed.visible
      /\ ed'.scan.job = job /\ ed'.scan.next = ed.scan.next /\ ed'.delivery = d
  BY ScanStepIs
<1>2. ed'.open = ed.open
  BY <1>1 DEF SamePreview
<1>3. Fills(ed) /\ (Fills(ed') <=> job # None) /\ d # None
  BY <1>1, BrowserAssumption DEF Fills, Attached, Job
<1>4. OneFolder(ed')
  BY <1>1 DEF EditorInv, OneFolder
<1>5. ScanIsNewest(ed')
  <2>1. ed.scan.next = None /\ ed.delivery # None
    BY <1>3 DEF EditorInv, ScanPart, ScanIsNewest, Attached
  <2>2. CASE job = None
    BY <1>1, <1>2, <1>3, <2>1, <2>2 DEF EditorInv, ScanPart, ScanIsNewest
  <2>3. CASE job # None
    BY <1>1, <1>2, <1>3, <2>1, <2>3 DEF EditorInv, ScanPart, ScanIsNewest, Job
  <2> QED
    BY <2>2, <2>3
<1>8. NoNewWait(ed.list, ed'.list)
  BY <1>1 DEF NoNewWait
<1>9. PreviewPart(ed', posted)
  BY <1>1, <1>8, PreviewTransfer DEF EditorInv
<1> QED
  BY <1>1, <1>4, <1>5, <1>9 DEF EditorInv, ScanPart, RowsExist


LEMMA JobType ==
  ASSUME ed \in Editors, Job # None
  PROVE  /\ Job \in ScanJobs /\ Job.root \in Roots /\ Job.of \in Nat /\ Job.warm \in Seq(Files)
         /\ Job.found \in Seq(Files) /\ Job.had \in BOOLEAN /\ Job.cancelled \in BOOLEAN
         /\ Job.at \in {"load", "warm", "open", "scan", "save", "commit", "publish"}
<1>1. Job \in ScanJobs
  BY DEF Editors, Workers, Job
<1> QED
  BY <1>1 DEF ScanJobs

LEMMA ListedEntry ==
  ASSUME NEW r \in Roots, NEW x \in Files
  PROVE  LET entry == makeListEntry(r, x)
         IN  /\ entry \in Entries /\ entry.root = r /\ entry.name = x.name
             /\ IsTrue(entry) /\ entry.state # "queued"
BY DEF makeListEntry, Entries, Files, IsTrue

LEMMA ReadyAppend ==
  ASSUME NEW r, NEW s \in Seq(Entries), Ready(r, s), NEW x \in Entries,
         x.root = r, IsTrue(x), x.state # "queued"
  PROVE  Append(s, x) \in Seq(Entries) /\ Ready(r, Append(s, x))
<1>1. <<x>> \in Seq(Entries) /\ Append(s, x) = s \o <<x>>
  BY AppendIsConcat
<1>2. Ready(r, <<x>>)
  BY DEF Ready
<1>3. Append(s, x) \in Seq(Entries)
  BY AppendProperties
<1> QED
  BY <1>1, <1>2, <1>3, ReadyConcat

\* The delivery that the running scan fills is not complete, and nothing is staged.
LEMMA Filling ==
  ASSUME ed \in Editors, EditorInv(ed, posted, completed), Job # None, Attached
  PROVE  LET d == ed.delivery
         IN  /\ Fills(ed) /\ ed.scan.next = None /\ Job.root = ed.root /\ ed.staging = <<>>
             /\ ~d.complete /\ ~d.incomplete /\ ~d.replacementReady /\ d.had = Job.had
             /\ d \in Deliveries /\ d.pending \in Seq(Entries)
             /\ d.replacement \in Seq(Entries) /\ d.rollback \in Seq(Entries)
             /\ Ready(ed.root, d.pending) /\ Ready(ed.root, d.replacement) /\ Ready(ed.root, d.rollback)
             /\ d.rollbackReady => Whole(ed.root, NamesOf(d.rollback), completed)
             /\ Job.cancelled => ~ed.open
<1>1. Fills(ed) /\ ed.delivery # None
  BY DEF Fills, Attached, Job
<1>2. /\ ed.scan.next = None /\ Job.root = ed.root /\ ~ed.delivery.complete
      /\ Job.cancelled => ~ed.open
  BY <1>1 DEF EditorInv, ScanPart, ScanIsNewest, Job
<1>3. /\ ed.staging = <<>> /\ ~ed.delivery.incomplete /\ ~ed.delivery.replacementReady
      /\ ed.delivery.rollbackReady => Whole(ed.root, NamesOf(ed.delivery.rollback), completed)
  BY <1>1, <1>2 DEF EditorInv, ScanPart, ListIsWhole
<1>4. ed.delivery.had = Job.had
  BY <1>1 DEF EditorInv, ScanPart, ScanIsSound, Job
<1>5. Ready(ed.root, ed.delivery.pending) /\ Ready(ed.root, ed.delivery.replacement)
      /\ Ready(ed.root, ed.delivery.rollback)
  BY <1>1 DEF EditorInv, OneFolder
<1> QED
  BY <1>1, <1>2, <1>3, <1>4, <1>5, DeliveryType

\* A step of the scan worker leaves the previews and the files as they are.
LEMMA ScanWorks ==
  ASSUME BrowserInv, UNCHANGED <<disk, identity, peaks, savedRoot, posted>>,
         ed' \in Editors, EditorInv(ed', posted, completed'), RowsExist(ed'), SamePreview(ed, ed'),
         partitions' \in Seq(Partitions), PartitionsAreWhole(partitions', completed')
  PROVE  BrowserInv'
<1>1. PreviewsAreGood(ed'.preview, posted', peaks', disk')
  BY DEF BrowserInv, SamePreview
<1>2. TypeOK'
  BY DEF BrowserInv, TypeOK, Partitions
<1> QED
  BY <1>1, <1>2 DEF BrowserInv

LEMMA BrowserTypes ==
  ASSUME BrowserInv
  PROVE  /\ ed \in Editors /\ posted \in Seq(Posts) /\ EditorInv(ed, posted, completed) /\ RowsExist(ed)
         /\ partitions \in Seq(Partitions) /\ PartitionsAreWhole(partitions, completed)
BY DEF BrowserInv, TypeOK, Partitions


\* A warm batch: the names delivered for a rollback and those still to come
\* are the stored index.
LEMMA WarmKeeps ==
  ASSUME BrowserInv, ScanWarm
  PROVE  BrowserInv'
<1> DEFINE d == ed.delivery
           entry == makeListEntry(Job.root, Head(Job.warm))
           last == Tail(Job.warm) = <<>>
           job == [Job EXCEPT !.warm = Tail(@), !.at = IF last THEN "open" ELSE @]
           e == [d EXCEPT !.pending = Append(@, entry),
                          !.rollback = IF d.rollbackReady THEN @ ELSE Append(@, entry),
                          !.rollbackReady = @ \/ last]
<1>1. /\ ed \in Editors /\ posted \in Seq(Posts) /\ EditorInv(ed, posted, completed) /\ RowsExist(ed)
      /\ partitions \in Seq(Partitions) /\ PartitionsAreWhole(partitions, completed)
  BY BrowserTypes
<1>2. /\ Job # None /\ Job.at = "warm"
      /\ UNCHANGED <<disk, identity, partitions, peaks, savedRoot, posted, completed>>
      /\ Job.cancelled => ScanStep(None, d)
      /\ ~Job.cancelled => ScanStep(job, e)
  BY DEF ScanWarm, outside
<1>3. /\ Job \in ScanJobs /\ Job.root \in Roots /\ Job.of \in Nat /\ Job.warm \in Seq(Files)
      /\ Job.found \in Seq(Files) /\ Job.had \in BOOLEAN /\ Job.cancelled \in BOOLEAN
  BY <1>1, <1>2, JobType
<1>4. SUFFICES ed' \in Editors /\ EditorInv(ed', posted, completed) /\ RowsExist(ed') /\ SamePreview(ed, ed')
  BY <1>1, <1>2, ScanWorks
<1>5. CASE ~Attached /\ Job.cancelled
  BY <1>1, <1>2, <1>5, LetGo
<1>6. CASE ~Attached /\ ~Job.cancelled
  <2>1. Tail(Job.warm) \in Seq(Files)
    <3>1. Job.warm # <<>>
      BY <1>1, <1>2 DEF EditorInv, ScanPart, ScanIsSound, Job
    <3> QED BY <1>3, <3>1, HeadTailProperties
  <2> HIDE DEF e
  <2>2. /\ job \in ScanJobs /\ job.of = Job.of /\ job.at \in {"warm", "open"}
        /\ job.at = "warm" => job.warm # <<>>
    BY <1>2, <1>3, <2>1 DEF ScanJobs
  <2> HIDE DEF job
  <2> QED
    BY <1>1, <1>2, <1>6, <2>2, LetGo
<1>7. CASE Attached
  <2>1. /\ Fills(ed) /\ ed.scan.next = None /\ Job.root = ed.root /\ ed.staging = <<>>
        /\ ~d.complete /\ ~d.incomplete /\ ~d.replacementReady /\ d.had = Job.had
        /\ d \in Deliveries /\ d.pending \in Seq(Entries)
        /\ d.replacement \in Seq(Entries) /\ d.rollback \in Seq(Entries)
        /\ Ready(ed.root, d.pending) /\ Ready(ed.root, d.replacement) /\ Ready(ed.root, d.rollback)
        /\ d.rollbackReady => Whole(ed.root, NamesOf(d.rollback), completed)
        /\ Job.cancelled => ~ed.open
    BY <1>1, <1>2, <1>7, Filling
  <2>2. /\ Job.had /\ Job.warm # <<>> /\ Job.found = <<>>
        /\ ~d.rollbackReady => <<ed.root, NamesOf(d.rollback) \o NamesOf(Job.warm)>> \in completed
    BY <1>1, <1>2, <2>1 DEF EditorInv, ScanPart, ScanIsSound, Job
  <2>3. CASE Job.cancelled
    <3>1. /\ ed'.scan.job = None /\ ed'.scan.next = ed.scan.next /\ ed'.delivery = d
          /\ ed'.staging = ed.staging /\ ed'.list = ed.list /\ ed'.root = ed.root
      BY <1>1, <1>2, <1>7, <2>1, <2>3, ScanStepIs
    <3>2. ListIsWhole(ed', completed)
      BY <1>1, <3>1 DEF EditorInv, ScanPart, ListIsWhole
    <3>3. ScanIsSound(ed', completed)
      BY <2>1, <3>1 DEF ScanIsSound, Fills
    <3> QED
      BY <1>1, <1>2, <1>7, <2>1, <2>3, <3>2, <3>3, FillStep
  <2>4. CASE ~Job.cancelled
    <3>1. Head(Job.warm) \in Files /\ Tail(Job.warm) \in Seq(Files)
      BY <1>3, <2>2, HeadTailProperties
    <3>2. /\ entry \in Entries /\ entry.root = ed.root /\ entry.name = Head(Job.warm).name
          /\ IsTrue(entry) /\ entry.state # "queued"
      BY <1>3, <2>1, <3>1, ListedEntry
    <3> HIDE DEF entry
    <3>3. /\ Append(d.pending, entry) \in Seq(Entries) /\ Ready(ed.root, Append(d.pending, entry))
          /\ Append(d.rollback, entry) \in Seq(Entries) /\ Ready(ed.root, Append(d.rollback, entry))
      BY <2>1, <3>2, ReadyAppend
    <3>4. /\ e \in Deliveries /\ e.of = d.of /\ e.pending = Append(d.pending, entry)
          /\ e.replacement = d.replacement /\ e.complete = d.complete /\ e.incomplete = d.incomplete
          /\ e.replacementReady = d.replacementReady /\ e.had = d.had
          /\ e.rollback = IF d.rollbackReady THEN d.rollback ELSE Append(d.rollback, entry)
          /\ e.rollbackReady = (d.rollbackReady \/ last)
      <4>1. last \in BOOLEAN
        OBVIOUS
      <4> HIDE DEF last
      <4> QED BY <2>1, <3>3, <4>1 DEF Deliveries
    <3>5. /\ job \in ScanJobs /\ job.of = Job.of /\ job.root = Job.root /\ job.cancelled = Job.cancelled
          /\ job.at = (IF last THEN "open" ELSE "warm") /\ job.warm = Tail(Job.warm)
          /\ job.had = Job.had /\ job.found = Job.found
      BY <1>2, <1>3, <3>1 DEF ScanJobs
    <3>6. job # None
      BY <3>5, BrowserAssumption
    <3>7. NamesOf(Append(d.rollback, entry)) \o NamesOf(Tail(Job.warm)) = NamesOf(d.rollback) \o NamesOf(Job.warm)
      <4>1. NamesOf(Append(d.rollback, entry)) = NamesOf(d.rollback) \o <<Head(Job.warm).name>>
        BY <2>1, <3>2, EntriesAreNamed, NamesOfAppend
      <4>2. NamesOf(Job.warm) = <<Head(Job.warm).name>> \o NamesOf(Tail(Job.warm))
        BY <1>3, <2>2, EntriesAreNamed, NamesOfTail
      <4> DEFINE a == NamesOf(d.rollback)
                 b == <<Head(Job.warm).name>>
                 c == NamesOf(Tail(Job.warm))
      <4>3. a \in Seq(Names) /\ c \in Seq(Names)
        BY <2>1, <3>1, EntriesAreNamed, NamesOfProperties
      <4>4. b \in Seq(Names)
        BY <3>1 DEF Files
      <4> HIDE DEF a, b, c
      <4>5. (a \o b) \o c = a \o (b \o c)
        BY <4>3, <4>4, ConcatAssociative
      <4> QED BY <4>1, <4>2, <4>5 DEF a, b, c
    <3>8. last => NamesOf(Append(d.rollback, entry)) = NamesOf(d.rollback) \o NamesOf(Job.warm)
      <4>1. NamesOf(Append(d.rollback, entry)) \in Seq(Names)
        BY <3>3, EntriesAreNamed, NamesOfProperties
      <4>2. NamesOf(Append(d.rollback, entry)) \o <<>> = NamesOf(Append(d.rollback, entry))
        BY <4>1, ConcatEmptySeq
      <4> QED BY <3>7, <4>2, EmptySequences
    <3>9. last <=> job.warm = <<>>
      BY <3>5
    <3> HIDE DEF e, job, last
    <3>10. /\ ed'.scan.job = job /\ ed'.scan.next = ed.scan.next /\ ed'.delivery = e
           /\ ed'.staging = ed.staging /\ ed'.list = ed.list /\ ed'.root = ed.root
      BY <1>1, <1>2, <1>7, <2>4, <3>4, <3>5, ScanStepIs
    <3>11. e # None
      BY <3>4, BrowserAssumption
    <3>12. e.rollbackReady => Whole(ed.root, NamesOf(e.rollback), completed)
      BY <2>1, <2>2, <3>4, <3>8 DEF Whole
    <3>13. ListIsWhole(ed', completed)
      BY <2>1, <3>4, <3>10, <3>11, <3>12 DEF ListIsWhole
    <3>14. ScanIsSound(ed', completed)
      BY <2>1, <2>2, <3>4, <3>5, <3>6, <3>7, <3>9, <3>10, BrowserAssumption DEF ScanIsSound
    <3>15. Ready(ed.root, e.pending) /\ Ready(ed.root, e.replacement) /\ Ready(ed.root, e.rollback)
      BY <2>1, <3>3, <3>4
    <3> QED
      BY <1>1, <1>2, <1>7, <2>1, <2>4, <3>4, <3>5, <3>6, <3>13, <3>14, <3>15, FillStep
  <2> QED
    BY <1>3, <2>3, <2>4
<1> QED
  BY <1>3, <1>5, <1>6, <1>7


\* A step that changes where the scan is, and not what it has found.
LEMMA JobMoves ==
  ASSUME BrowserInv, Job # None, Job.at # "warm", NEW done, completed \subseteq done,
         NEW job \in ScanJobs, ScanStep(job, ed.delivery),
         job.of = Job.of, job.root = Job.root, job.cancelled = Job.cancelled,
         job.had = Job.had, job.found = Job.found, job.at \in {"scan", "save", "commit", "publish"},
         job.at # "scan" => <<Job.root, NamesOf(Job.found)>> \in done
  PROVE  ed' \in Editors /\ EditorInv(ed', posted, done) /\ RowsExist(ed') /\ SamePreview(ed, ed')
<1>1. ed \in Editors /\ posted \in Seq(Posts) /\ EditorInv(ed, posted, completed) /\ RowsExist(ed)
  BY BrowserTypes
<1>2. CASE ~Attached
  BY <1>1, <1>2, LetGo
<1>3. CASE Attached
  <2> DEFINE d == ed.delivery
  <2>1. /\ Fills(ed) /\ ed.scan.next = None /\ Job.root = ed.root /\ ed.staging = <<>>
        /\ ~d.complete /\ ~d.incomplete /\ ~d.replacementReady /\ d \in Deliveries
        /\ Ready(ed.root, d.pending) /\ Ready(ed.root, d.replacement) /\ Ready(ed.root, d.rollback)
    BY <1>1, <1>3, Filling
  <2>2. job # None /\ d # None
    BY <2>1, BrowserAssumption
  <2>3. /\ ed'.scan.job = job /\ ed'.scan.next = ed.scan.next /\ ed'.delivery = d
        /\ ed'.staging = ed.staging /\ ed'.list = ed.list /\ ed'.root = ed.root
    BY <1>1, <1>3, <2>1, ScanStepIs
  <2>4. ListIsWhole(ed', done)
    BY <1>1, <2>3 DEF EditorInv, ScanPart, ListIsWhole, Whole
  <2>5. /\ d.had = Job.had /\ (Job.had => d.rollbackReady)
        /\ ~Job.had => NamesOf(ed.list) \o NamesOf(d.pending) = NamesOf(Job.found)
    BY <1>1, <2>1 DEF EditorInv, ScanPart, ScanIsSound, Job
  <2>6. ScanIsSound(ed', done)
    BY <2>1, <2>2, <2>3, <2>5 DEF ScanIsSound
  <2> QED
    BY <1>1, <1>3, <2>1, <2>2, <2>4, <2>6, FillStep
<1> QED
  BY <1>2, <1>3

\* A cancelled scan ends and delivers no more.
LEMMA JobEnds ==
  ASSUME BrowserInv, Job # None, Job.cancelled, ScanStep(None, ed.delivery)
  PROVE  ed' \in Editors /\ EditorInv(ed', posted, completed) /\ RowsExist(ed') /\ SamePreview(ed, ed')
<1>1. ed \in Editors /\ posted \in Seq(Posts) /\ EditorInv(ed, posted, completed) /\ RowsExist(ed)
  BY BrowserTypes
<1>2. CASE ~Attached
  BY <1>1, <1>2, LetGo
<1>3. CASE Attached
  <2> DEFINE d == ed.delivery
  <2>1. /\ ed.scan.next = None /\ ~ed.open /\ d \in Deliveries
        /\ Ready(ed.root, d.pending) /\ Ready(ed.root, d.replacement) /\ Ready(ed.root, d.rollback)
    BY <1>1, <1>3, Filling
  <2>2. /\ ed'.scan.job = None /\ ed'.scan.next = ed.scan.next /\ ed'.delivery = d
        /\ ed'.staging = ed.staging /\ ed'.list = ed.list /\ ed'.root = ed.root
    BY <1>1, <1>3, <2>1, ScanStepIs
  <2>3. ListIsWhole(ed', completed)
    BY <1>1, <2>2 DEF EditorInv, ScanPart, ListIsWhole
  <2>4. ScanIsSound(ed', completed)
    BY <2>1, <2>2 DEF ScanIsSound, Fills
  <2> QED
    BY <1>1, <1>3, <2>1, <2>3, <2>4, FillStep
<1> QED
  BY <1>2, <1>3

\* A scan that stops early leaves a delivery that goes back to its rollback.
LEMMA IncompleteKeeps ==
  ASSUME BrowserInv, Job # None, Job.at \in {"open", "scan"}, Incomplete,
         UNCHANGED <<disk, identity, partitions, peaks, savedRoot, posted, completed>>
  PROVE  BrowserInv'
<1> DEFINE d == ed.delivery
           e == [d EXCEPT !.replacement = <<>>, !.replacementReady = FALSE,
                          !.pending = IF Job.had THEN @ ELSE <<>>,
                          !.incomplete = TRUE, !.complete = TRUE]
<1>1. /\ ed \in Editors /\ posted \in Seq(Posts) /\ EditorInv(ed, posted, completed) /\ RowsExist(ed)
      /\ partitions \in Seq(Partitions) /\ PartitionsAreWhole(partitions, completed)
  BY BrowserTypes
<1>2. SUFFICES ed' \in Editors /\ EditorInv(ed', posted, completed) /\ RowsExist(ed') /\ SamePreview(ed, ed')
  BY <1>1, ScanWorks
<1>3. ScanStep(None, e)
  BY DEF Incomplete
<1>4. CASE ~Attached
  <2> HIDE DEF e
  <2> QED BY <1>1, <1>3, <1>4, LetGo
<1>5. CASE Attached
  <2>1. /\ Fills(ed) /\ ed.scan.next = None /\ ed.staging = <<>>
        /\ d.had = Job.had /\ d \in Deliveries /\ d.pending \in Seq(Entries)
        /\ d.replacement \in Seq(Entries) /\ d.rollback \in Seq(Entries)
        /\ Ready(ed.root, d.pending) /\ Ready(ed.root, d.replacement) /\ Ready(ed.root, d.rollback)
        /\ d.rollbackReady => Whole(ed.root, NamesOf(d.rollback), completed)
    BY <1>1, <1>5, Filling
  <2>2. Job.had => d.rollbackReady
    BY <1>1, <2>1 DEF EditorInv, ScanPart, ScanIsSound, Job
  <2>3. /\ e \in Deliveries /\ e.of = d.of /\ e.complete /\ e.incomplete /\ ~e.replacementReady
        /\ e.replacement = <<>> /\ e.rollback = d.rollback /\ e.rollbackReady = d.rollbackReady
        /\ e.pending = (IF Job.had THEN d.pending ELSE <<>>) /\ e.had = Job.had
    BY <2>1, EmptySequences DEF Deliveries
  <2> HIDE DEF e
  <2>4. /\ ed'.scan.job = None /\ ed'.scan.next = ed.scan.next /\ ed'.delivery = e
        /\ ed'.staging = ed.staging /\ ed'.list = ed.list /\ ed'.root = ed.root
    BY <1>1, <1>3, <1>5, <2>3, ScanStepIs
  <2>5. e # None
    BY <2>3, BrowserAssumption
  <2>6. ListIsWhole(ed', completed)
    BY <2>1, <2>2, <2>3, <2>4, <2>5 DEF ListIsWhole
  <2>7. ScanIsSound(ed', completed)
    BY <2>1, <2>4 DEF ScanIsSound, Fills
  <2>8. Ready(ed.root, e.pending) /\ Ready(ed.root, e.replacement) /\ Ready(ed.root, e.rollback)
    BY <2>1, <2>3, EmptySequences DEF Ready
  <2> QED
    BY <1>1, <1>3, <1>5, <2>3, <2>6, <2>7, <2>8, FillStep
<1> QED
  BY <1>4, <1>5

LEMMA OpenKeeps ==
  ASSUME BrowserInv, ScanOpen
  PROVE  BrowserInv'
<1> DEFINE job == [Job EXCEPT !.at = "scan", !.todo = Names \cup {Deep}, !.identity = identity[Job.root]]
<1>1. /\ ed \in Editors /\ partitions \in Seq(Partitions) /\ PartitionsAreWhole(partitions, completed)
      /\ identity \in [Roots -> 0 .. 2]
  BY BrowserTypes DEF BrowserInv, TypeOK
<1>2. /\ Job # None /\ Job.at = "open"
      /\ UNCHANGED <<disk, identity, partitions, peaks, savedRoot, posted, completed>>
      /\ Incomplete \/ ScanStep(job, ed.delivery)
  BY DEF ScanOpen, outside
<1>3. CASE Incomplete
  BY <1>2, <1>3, IncompleteKeeps
<1>4. CASE ScanStep(job, ed.delivery)
  <2>1. Job \in ScanJobs /\ Job.root \in Roots
    BY <1>1, <1>2, JobType
  <2>2. /\ job \in ScanJobs /\ job.of = Job.of /\ job.root = Job.root /\ job.cancelled = Job.cancelled
        /\ job.had = Job.had /\ job.found = Job.found /\ job.at = "scan"
    BY <1>1, <2>1 DEF ScanJobs
  <2> HIDE DEF job
  <2>3. ed' \in Editors /\ EditorInv(ed', posted, completed) /\ RowsExist(ed') /\ SamePreview(ed, ed')
    BY <1>2, <1>4, <2>2, JobMoves
  <2> QED
    BY <1>1, <1>2, <2>3, ScanWorks
<1> QED
  BY <1>2, <1>3, <1>4

LEMMA SaveKeeps ==
  ASSUME BrowserInv, ScanSave
  PROVE  BrowserInv'
<1> DEFINE job == [Job EXCEPT !.at = IF SameRoot THEN "commit" ELSE "publish"]
<1>1. /\ ed \in Editors /\ partitions \in Seq(Partitions) /\ PartitionsAreWhole(partitions, completed)
      /\ EditorInv(ed, posted, completed)
  BY BrowserTypes
<1>2. /\ Job # None /\ Job.at = "save"
      /\ UNCHANGED <<disk, identity, partitions, peaks, savedRoot, posted, completed>>
      /\ (Job.cancelled /\ ScanStep(None, ed.delivery)) \/ ScanStep(job, ed.delivery)
  BY DEF ScanSave, outside
<1>3. CASE Job.cancelled /\ ScanStep(None, ed.delivery)
  BY <1>1, <1>2, <1>3, JobEnds, ScanWorks
<1>4. CASE ScanStep(job, ed.delivery)
  <2>1. Job \in ScanJobs
    BY <1>1, <1>2, JobType
  <2>2. /\ job \in ScanJobs /\ job.of = Job.of /\ job.root = Job.root /\ job.cancelled = Job.cancelled
        /\ job.had = Job.had /\ job.found = Job.found /\ job.at \in {"commit", "publish"}
    BY <2>1 DEF ScanJobs
  <2>3. <<Job.root, NamesOf(Job.found)>> \in completed
    BY <1>1, <1>2 DEF EditorInv, ScanPart, ScanIsSound, Job
  <2> HIDE DEF job
  <2>4. ed' \in Editors /\ EditorInv(ed', posted, completed) /\ RowsExist(ed') /\ SamePreview(ed, ed')
    BY <1>2, <1>4, <2>2, <2>3, JobMoves
  <2> QED
    BY <1>1, <1>2, <2>4, ScanWorks
<1> QED
  BY <1>2, <1>3, <1>4

\* The index that is committed is the scan that has just gone through.
LEMMA CommitKeeps ==
  ASSUME BrowserInv, ScanCommit
  PROVE  BrowserInv'
<1> DEFINE job == [Job EXCEPT !.at = "publish"]
           front == [root |-> Job.root, entries |-> Job.found]
<1>1. /\ ed \in Editors /\ partitions \in Seq(Partitions) /\ PartitionsAreWhole(partitions, completed)
      /\ EditorInv(ed, posted, completed)
  BY BrowserTypes
<1>2. /\ Job # None /\ Job.at = "commit" /\ ScanStep(job, ed.delivery)
      /\ UNCHANGED <<disk, identity, peaks, savedRoot, posted, completed>>
      /\ \/ partitions' = partitions
         \/ partitions' = pruneIndexPartitions(<<front>> \o Others(Job.root))
  BY DEF ScanCommit
<1>3. Job \in ScanJobs /\ Job.root \in Roots /\ Job.found \in Seq(Files)
  BY <1>1, <1>2, JobType
<1>4. /\ job \in ScanJobs /\ job.of = Job.of /\ job.root = Job.root /\ job.cancelled = Job.cancelled
      /\ job.had = Job.had /\ job.found = Job.found /\ job.at = "publish"
  BY <1>3 DEF ScanJobs
<1>5. <<Job.root, NamesOf(Job.found)>> \in completed
  BY <1>1, <1>2 DEF EditorInv, ScanPart, ScanIsSound, Job
<1> HIDE DEF job
<1>6. ed' \in Editors /\ EditorInv(ed', posted, completed) /\ RowsExist(ed') /\ SamePreview(ed, ed')
  BY <1>2, <1>4, <1>5, JobMoves
<1>7. front \in Partitions /\ <<front.root, NamesOf(front.entries)>> \in completed
  BY <1>3, <1>5 DEF Partitions
<1> HIDE DEF front
<1>8. Others(Job.root) \in Seq(Partitions) /\ PartitionsAreWhole(Others(Job.root), completed)
  BY <1>1, OthersAreWhole
<1>9. /\ <<front>> \o Others(Job.root) \in Seq(Partitions)
      /\ PartitionsAreWhole(<<front>> \o Others(Job.root), completed)
  BY <1>7, <1>8, FrontIsWhole
<1>10. partitions' \in Seq(Partitions) /\ PartitionsAreWhole(partitions', completed)
  BY <1>1, <1>2, <1>9, PrunedIsWhole
<1> QED
  BY <1>2, <1>6, <1>10, ScanWorks


\* The end of the folder: what was found is a scan that went through.
LEMMA EndKeeps ==
  ASSUME BrowserInv, ScanEnd
  PROVE  BrowserInv'
<1> DEFINE job == [Job EXCEPT !.at = "save"]
           done == completed \cup {<<Job.root, NamesOf(Job.found)>>}
<1>1. /\ ed \in Editors /\ partitions \in Seq(Partitions) /\ PartitionsAreWhole(partitions, completed)
  BY BrowserTypes
<1>2. /\ Job # None /\ Job.at = "scan"
      /\ UNCHANGED <<disk, identity, partitions, peaks, savedRoot, posted>>
      /\ \/ Incomplete /\ completed' = completed
         \/ ScanStep(job, ed.delivery) /\ completed' = done
  BY DEF ScanEnd
<1>3. CASE Incomplete /\ completed' = completed
  BY <1>2, <1>3, IncompleteKeeps
<1>4. CASE ScanStep(job, ed.delivery) /\ completed' = done
  <2>1. Job \in ScanJobs
    BY <1>1, <1>2, JobType
  <2>2. /\ job \in ScanJobs /\ job.of = Job.of /\ job.root = Job.root /\ job.cancelled = Job.cancelled
        /\ job.had = Job.had /\ job.found = Job.found /\ job.at = "save"
    BY <2>1 DEF ScanJobs
  <2>3. completed \subseteq done /\ <<Job.root, NamesOf(Job.found)>> \in done
    OBVIOUS
  <2> HIDE DEF job, done
  <2>4. ed' \in Editors /\ EditorInv(ed', posted, done) /\ RowsExist(ed') /\ SamePreview(ed, ed')
    BY <1>2, <1>4, <2>2, <2>3, JobMoves
  <2>5. PartitionsAreWhole(partitions, done)
    BY <1>1, <2>3 DEF PartitionsAreWhole
  <2> QED
    BY <1>1, <1>2, <1>4, <2>4, <2>5, ScanWorks
<1> QED
  BY <1>2, <1>3, <1>4

\* A warm scan replaces the list by what it found; a cold one has delivered it.
LEMMA PublishKeeps ==
  ASSUME BrowserInv, ScanPublish
  PROVE  BrowserInv'
<1> DEFINE d == ed.delivery
           fresh == [i \in DOMAIN Job.found |-> makeListEntry(Job.root, Job.found[i])]
           e == [d EXCEPT !.replacement = IF Job.had THEN fresh ELSE @,
                          !.replacementReady = Job.had, !.complete = TRUE]
<1>1. /\ ed \in Editors /\ posted \in Seq(Posts) /\ EditorInv(ed, posted, completed) /\ RowsExist(ed)
      /\ partitions \in Seq(Partitions) /\ PartitionsAreWhole(partitions, completed)
  BY BrowserTypes
<1>2. /\ Job # None /\ Job.at = "publish"
      /\ UNCHANGED <<disk, identity, partitions, peaks, savedRoot, posted, completed>>
      /\ (Job.cancelled /\ ScanStep(None, d)) \/ ScanStep(None, e)
  BY DEF ScanPublish, outside
<1>3. SUFFICES ed' \in Editors /\ EditorInv(ed', posted, completed) /\ RowsExist(ed') /\ SamePreview(ed, ed')
  BY <1>1, <1>2, ScanWorks
<1>4. CASE Job.cancelled /\ ScanStep(None, d)
  BY <1>2, <1>4, JobEnds
<1>5. CASE ScanStep(None, e) /\ ~Attached
  <2> HIDE DEF e
  <2> QED BY <1>1, <1>2, <1>5, LetGo
<1>6. CASE ScanStep(None, e) /\ Attached
  <2>1. /\ Fills(ed) /\ ed.scan.next = None /\ Job.root = ed.root /\ ed.staging = <<>>
        /\ ~d.incomplete /\ d.had = Job.had /\ d \in Deliveries /\ d.pending \in Seq(Entries)
        /\ d.replacement \in Seq(Entries) /\ d.rollback \in Seq(Entries)
        /\ Ready(ed.root, d.pending) /\ Ready(ed.root, d.replacement) /\ Ready(ed.root, d.rollback)
        /\ d.rollbackReady => Whole(ed.root, NamesOf(d.rollback), completed)
    BY <1>1, <1>2, <1>6, Filling
  <2>2. /\ <<ed.root, NamesOf(Job.found)>> \in completed
        /\ ~Job.had => NamesOf(ed.list) \o NamesOf(d.pending) = NamesOf(Job.found)
    BY <1>1, <1>2, <2>1 DEF EditorInv, ScanPart, ScanIsSound, Job
  <2>3. Job.root \in Roots /\ Job.found \in Seq(Files) /\ Job.had \in BOOLEAN
    BY <1>1, <1>2, JobType
  <2>4. \A i \in DOMAIN Job.found : Job.found[i] \in Files
    BY <2>3, LenProperties, ElementOfSeq
  <2>5. DOMAIN fresh = DOMAIN Job.found /\ \A i \in DOMAIN Job.found :
           /\ fresh[i] \in Entries /\ fresh[i].root = ed.root /\ fresh[i].name = Job.found[i].name
           /\ IsTrue(fresh[i]) /\ fresh[i].state # "queued"
    BY <2>1, <2>3, <2>4, ListedEntry
  <2>6. fresh = [i \in DOMAIN Job.found |-> fresh[i]]
    OBVIOUS
  <2> HIDE DEF fresh
  <2>7. fresh \in Seq(Entries) /\ Ready(ed.root, fresh)
    BY <2>3, <2>5, <2>6, Relabelled DEF Ready
  <2>8. NamesOf(fresh) = NamesOf(Job.found)
    BY <2>5 DEF NamesOf
  <2>9. /\ e \in Deliveries /\ e.of = d.of /\ e.complete /\ ~e.incomplete /\ e.replacementReady = Job.had
        /\ e.replacement = (IF Job.had THEN fresh ELSE d.replacement)
        /\ e.rollback = d.rollback /\ e.rollbackReady = d.rollbackReady
        /\ e.pending = d.pending /\ e.had = Job.had
    BY <2>1, <2>3, <2>7 DEF Deliveries
  <2> HIDE DEF e
  <2>10. /\ ed'.scan.job = None /\ ed'.scan.next = ed.scan.next /\ ed'.delivery = e
         /\ ed'.staging = ed.staging /\ ed'.list = ed.list /\ ed'.root = ed.root
    BY <1>1, <1>2, <1>6, <2>9, ScanStepIs
  <2>11. e # None
    BY <2>9, BrowserAssumption
  <2>12. NamesOf(<<>>) \o NamesOf(fresh) = NamesOf(fresh)
    <3>1. NamesOf(fresh) \in Seq(Names)
      BY <2>7, EntriesAreNamed, NamesOfProperties
    <3>2. <<>> \o NamesOf(fresh) = NamesOf(fresh)
      BY <3>1, ConcatEmptySeq
    <3> QED BY <3>2, EmptySequences
  <2>13. ListIsWhole(ed', completed)
    BY <2>1, <2>2, <2>8, <2>9, <2>10, <2>11, <2>12 DEF ListIsWhole, Whole
  <2>14. ScanIsSound(ed', completed)
    BY <2>1, <2>10 DEF ScanIsSound, Fills
  <2>15. Ready(ed.root, e.pending) /\ Ready(ed.root, e.replacement) /\ Ready(ed.root, e.rollback)
    BY <2>1, <2>7, <2>9
  <2> QED
    BY <1>1, <1>2, <1>6, <2>9, <2>13, <2>14, <2>15, FillStep
<1> QED
  BY <1>2, <1>4, <1>5, <1>6

\* A file found joins what was found and, in a cold scan, what is delivered.
LEMMA FileKeeps ==
  ASSUME BrowserInv, ScanFile
  PROVE  BrowserInv'
<1>1. /\ ed \in Editors /\ posted \in Seq(Posts) /\ EditorInv(ed, posted, completed) /\ RowsExist(ed)
      /\ partitions \in Seq(Partitions) /\ PartitionsAreWhole(partitions, completed)
      /\ disk \in [Roots -> [Names \cup {Deep} -> Int]]
  BY BrowserTypes DEF BrowserInv, TypeOK
<1>2. /\ Job # None /\ Job.at = "scan"
      /\ UNCHANGED <<disk, identity, partitions, peaks, savedRoot, posted, completed>>
  BY DEF ScanFile, outside
<1>3. CASE Incomplete
  BY <1>2, <1>3, IncompleteKeeps
<1>4. CASE ~Incomplete
  <2>1. PICK n \in Unseen :
           LET indexed == [name |-> n, version |-> disk[Job.root][n]]
               entry == makeListEntry(Job.root, indexed)
           IN  IF Job.cancelled \/ n = Deep \/ ~SameRoot THEN Incomplete
               ELSE ScanStep([Job EXCEPT !.todo = @ \ {n}, !.found = Append(@, indexed)],
                             IF Job.had THEN ed.delivery
                             ELSE [ed.delivery EXCEPT !.pending = Append(@, entry)])
    BY DEF ScanFile
  <2> DEFINE d == ed.delivery
             indexed == [name |-> n, version |-> disk[Job.root][n]]
             entry == makeListEntry(Job.root, indexed)
             job == [Job EXCEPT !.todo = @ \ {n}, !.found = Append(@, indexed)]
             e == IF Job.had THEN d ELSE [d EXCEPT !.pending = Append(@, entry)]
  <2>2. n # Deep /\ ScanStep(job, e)
    BY <1>4, <2>1
  <2>3. /\ Job \in ScanJobs /\ Job.root \in Roots /\ Job.found \in Seq(Files) /\ Job.had \in BOOLEAN
        /\ Job.todo \in SUBSET (Names \cup {Deep})
    BY <1>1, <1>2, JobType DEF ScanJobs
  <2>4. n \in Job.todo /\ IsThere(Job.root, n)
    BY DEF Unseen
  <2>5. n \in Names /\ disk[Job.root][n] \in Nat
    BY <1>1, <2>2, <2>3, <2>4 DEF IsThere
  <2>6. indexed \in Files /\ indexed.name = n
    BY <2>5 DEF Files
  <2> HIDE DEF indexed
  <2>7. Append(Job.found, indexed) \in Seq(Files)
    BY <2>3, <2>6, AppendProperties
  <2>8. /\ job \in ScanJobs /\ job.of = Job.of /\ job.root = Job.root /\ job.cancelled = Job.cancelled
        /\ job.had = Job.had /\ job.found = Append(Job.found, indexed) /\ job.at = "scan"
    BY <1>2, <2>3, <2>7 DEF ScanJobs
  <2>9. job # None
    BY <2>8, BrowserAssumption
  <2> SUFFICES ed' \in Editors /\ EditorInv(ed', posted, completed) /\ RowsExist(ed') /\ SamePreview(ed, ed')
    BY <1>1, <1>2, ScanWorks
  <2>10. CASE ~Attached
    <3> HIDE DEF e, job
    <3> QED BY <1>1, <1>2, <2>2, <2>8, <2>10, LetGo
  <2>11. CASE Attached
    <3>1. /\ Fills(ed) /\ ed.scan.next = None /\ Job.root = ed.root /\ ed.staging = <<>>
          /\ ~d.complete /\ ~d.incomplete /\ ~d.replacementReady
          /\ d.had = Job.had /\ d \in Deliveries /\ d.pending \in Seq(Entries)
          /\ d.replacement \in Seq(Entries) /\ d.rollback \in Seq(Entries)
          /\ Ready(ed.root, d.pending) /\ Ready(ed.root, d.replacement) /\ Ready(ed.root, d.rollback)
          /\ d.rollbackReady => Whole(ed.root, NamesOf(d.rollback), completed)
      BY <1>1, <1>2, <2>11, Filling
    <3>2. /\ Job.had => d.rollbackReady
          /\ ~Job.had => NamesOf(ed.list) \o NamesOf(d.pending) = NamesOf(Job.found)
      BY <1>1, <1>2, <3>1 DEF EditorInv, ScanPart, ScanIsSound, Job
    <3>3. /\ entry \in Entries /\ entry.root = ed.root /\ entry.name = n
          /\ IsTrue(entry) /\ entry.state # "queued"
      BY <2>3, <2>6, <3>1, ListedEntry
    <3> HIDE DEF entry
    <3>4. Append(d.pending, entry) \in Seq(Entries) /\ Ready(ed.root, Append(d.pending, entry))
      BY <3>1, <3>3, ReadyAppend
    <3>5. /\ e \in Deliveries /\ e.of = d.of /\ e.complete = d.complete /\ e.incomplete = d.incomplete
          /\ e.replacementReady = d.replacementReady /\ e.replacement = d.replacement
          /\ e.rollback = d.rollback /\ e.rollbackReady = d.rollbackReady /\ e.had = d.had
          /\ e.pending = IF Job.had THEN d.pending ELSE Append(d.pending, entry)
      BY <3>1, <3>4 DEF Deliveries
    <3>6. ~Job.had => NamesOf(ed.list) \o NamesOf(Append(d.pending, entry))
                        = NamesOf(Append(Job.found, indexed))
      <4> DEFINE a == NamesOf(ed.list)
                 b == NamesOf(d.pending)
                 c == <<n>>
      <4>1. NamesOf(Append(d.pending, entry)) = b \o c
        BY <3>1, <3>3, EntriesAreNamed, NamesOfAppend
      <4>2. NamesOf(Append(Job.found, indexed)) = NamesOf(Job.found) \o c
        BY <2>3, <2>6, EntriesAreNamed, NamesOfAppend
      <4>3. a \in Seq(Names) /\ b \in Seq(Names)
        BY <1>1, <3>1, ListType, EntriesAreNamed, NamesOfProperties
      <4>4. c \in Seq(Names)
        BY <2>5
      <4> HIDE DEF a, b, c
      <4>5. (a \o b) \o c = a \o (b \o c)
        BY <4>3, <4>4, ConcatAssociative
      <4> QED BY <3>2, <4>1, <4>2, <4>5 DEF a, b
    <3> HIDE DEF e, job
    <3>7. /\ ed'.scan.job = job /\ ed'.scan.next = ed.scan.next /\ ed'.delivery = e
          /\ ed'.staging = ed.staging /\ ed'.list = ed.list /\ ed'.root = ed.root
      BY <1>1, <2>2, <2>8, <2>11, <3>5, ScanStepIs
    <3>8. e # None
      BY <3>5, BrowserAssumption
    <3>9. ListIsWhole(ed', completed)
      BY <3>1, <3>5, <3>7, <3>8 DEF ListIsWhole
    <3>10. ScanIsSound(ed', completed)
      BY <2>8, <2>9, <3>1, <3>2, <3>5, <3>6, <3>7 DEF ScanIsSound
    <3>11. Ready(ed.root, e.pending) /\ Ready(ed.root, e.replacement) /\ Ready(ed.root, e.rollback)
      BY <3>1, <3>4, <3>5
    <3> QED
      BY <1>1, <1>2, <2>2, <2>8, <2>9, <2>11, <3>1, <3>5, <3>9, <3>10, <3>11, FillStep
  <2> QED
    BY <2>10, <2>11
<1> QED
  BY <1>3, <1>4


\* The worker takes the scan that waits; a stored index comes to the front
\* and is the list to begin with.
LEMMA LoadKeeps ==
  ASSUME BrowserInv, ScanLoad
  PROVE  BrowserInv'
<1> DEFINE next == ed.scan.next
           used == StoredAt(next.root)
           stored == partitions[CHOOSE i \in used : TRUE]
           entries == IF used = {} THEN <<>> ELSE stored.entries
           had == entries # <<>>
           at == IF entries = <<>> THEN "open" ELSE "warm"
           job == [next EXCEPT !.warm = entries, !.had = had, !.at = at]
           d == ed.delivery
           e == [d EXCEPT !.had = had]
<1>1. /\ ed \in Editors /\ posted \in Seq(Posts) /\ EditorInv(ed, posted, completed) /\ RowsExist(ed)
      /\ partitions \in Seq(Partitions) /\ PartitionsAreWhole(partitions, completed)
  BY BrowserTypes
<1>2. /\ Job = None /\ next # None
      /\ UNCHANGED <<disk, identity, peaks, savedRoot, posted, completed>>
      /\ partitions' = IF used = {} THEN partitions ELSE <<stored>> \o Others(next.root)
      /\ ed' = [ed EXCEPT !.scan = [job |-> job, next |-> None], !.delivery.had = had]
  BY DEF ScanLoad
<1>3. /\ ed.open /\ d # None /\ ~d.complete /\ d.of = ed.generation
      /\ next = ScanJob(ed.root, ed.generation) /\ ed.root # None
      /\ ed.scanning
  BY <1>1, <1>2 DEF EditorInv, ScanPart, ScanIsNewest
<1>4. ed.root \in Roots /\ ed.generation \in Nat /\ next \in ScanJobs
  BY <1>1, <1>2, <1>3 DEF Editors, Workers
<1>5. /\ next.root = ed.root /\ next.of = ed.generation /\ ~next.cancelled /\ next.found = <<>>
  BY <1>3 DEF ScanJob
<1>6. /\ d \in Deliveries /\ d.pending \in Seq(Entries) /\ d.replacement \in Seq(Entries)
      /\ d.rollback \in Seq(Entries)
  BY <1>1, <1>3, DeliveryType
<1>7. DOMAIN partitions = 1 .. Len(partitions) /\ \A i \in DOMAIN partitions : partitions[i] \in Partitions
  BY <1>1, LenProperties, ElementOfSeq
<1>8. used # {} => /\ stored \in Partitions /\ stored.root = ed.root
                   /\ stored.entries \in Seq(Files)
                   /\ <<ed.root, NamesOf(stored.entries)>> \in completed
  <2> SUFFICES ASSUME used # {}
               PROVE  /\ stored \in Partitions /\ stored.root = ed.root
                      /\ stored.entries \in Seq(Files)
                      /\ <<ed.root, NamesOf(stored.entries)>> \in completed
    OBVIOUS
  <2> DEFINE i == CHOOSE i \in used : TRUE
  <2>1. i \in used
    OBVIOUS
  <2> HIDE DEF i
  <2>2. i \in DOMAIN partitions /\ partitions[i].root = ed.root
    BY <1>5, <2>1 DEF StoredAt
  <2>3. partitions[i] \in Partitions /\ <<ed.root, NamesOf(partitions[i].entries)>> \in completed
    BY <1>1, <1>7, <2>2 DEF PartitionsAreWhole
  <2>4. partitions[i].entries \in Seq(Files)
    BY <2>3 DEF Partitions
  <2> QED BY <2>2, <2>3, <2>4 DEF i
<1> HIDE DEF used, stored
<1>9. /\ entries \in Seq(Files)
      /\ entries # <<>> => <<ed.root, NamesOf(entries)>> \in completed
  BY <1>8, EmptySequences
<1>10. partitions' \in Seq(Partitions) /\ PartitionsAreWhole(partitions', completed)
  <2>1. CASE used = {}
    BY <1>1, <1>2, <2>1
  <2>2. CASE used # {}
    <3>1. Others(next.root) \in Seq(Partitions) /\ PartitionsAreWhole(Others(next.root), completed)
      BY <1>1, OthersAreWhole
    <3> QED BY <1>2, <1>8, <2>2, <3>1, FrontIsWhole
  <2> QED BY <2>1, <2>2
<1> HIDE DEF entries
<1>11. /\ job \in ScanJobs /\ job.root = ed.root /\ job.of = ed.generation /\ ~job.cancelled
       /\ job.had = had /\ job.warm = entries /\ job.at = at /\ job.found = <<>>
  <2>1. at \in {"open", "warm"} /\ had \in BOOLEAN
    OBVIOUS
  <2> HIDE DEF at, had, next
  <2> QED BY <1>4, <1>5, <1>9, <2>1 DEF ScanJobs
<1>12. /\ e \in Deliveries /\ e.of = d.of /\ e.complete = d.complete /\ e.incomplete = d.incomplete
       /\ e.replacementReady = d.replacementReady /\ e.replacement = d.replacement
       /\ e.rollback = d.rollback /\ e.rollbackReady = d.rollbackReady /\ e.had = had
       /\ e.pending = d.pending
  <2>1. had \in BOOLEAN
    OBVIOUS
  <2> HIDE DEF had
  <2> QED BY <1>6, <2>1 DEF Deliveries
<1>13. job # None /\ e # None
  BY <1>11, <1>12, BrowserAssumption
<1>14. had <=> entries # <<>>
  OBVIOUS
<1>15. at = IF had THEN "warm" ELSE "open"
  OBVIOUS
<1>16. ed' = [ed EXCEPT !.scan = [job |-> job, next |-> None], !.delivery = e]
  BY <1>2
<1> HIDE DEF job, e, had, at
<1>17. /\ ed' \in Editors /\ SamePreview(ed, ed') /\ ed'.open = ed.open /\ ed'.root = ed.root
       /\ ed'.scanning = ed.scanning /\ ed'.generation = ed.generation
       /\ ed'.staging = ed.staging /\ ed'.list = ed.list /\ ed'.visible = ed.visible
       /\ ed'.scan.job = job /\ ed'.scan.next = None /\ ed'.delivery = e
  BY <1>1, <1>11, <1>12, <1>16 DEF Editors, Workers, SamePreview
<1>18. ScanIsNewest(ed')
  <2>1. Fills(ed') /\ ed'.delivery.of = ed'.generation /\ ed'.root # None
    BY <1>3, <1>11, <1>12, <1>13, <1>17 DEF Fills
  <2>2. ed'.scanning = (ed'.delivery # None)
    <3>1. ed.scanning = (ed.delivery # None)
      BY <1>1 DEF EditorInv, ScanPart, ScanIsNewest
    <3> QED BY <1>3, <1>13, <1>17, <3>1
  <2>3. ed'.scan.job.of <= ed'.generation /\ ed'.scan.next = None
    BY <1>4, <1>11, <1>17
  <2>4. ed'.scan.job.root = ed'.root /\ ~ed'.delivery.complete /\ ~ed'.scan.job.cancelled
    BY <1>3, <1>11, <1>12, <1>17
  <2> QED
    BY <2>1, <2>2, <2>3, <2>4 DEF ScanIsNewest
<1>19. ~d.incomplete /\ ~d.replacementReady /\ ed.staging = <<>>
       /\ (d.rollbackReady => Whole(ed.root, NamesOf(d.rollback), completed))
  BY <1>1, <1>3 DEF EditorInv, ScanPart, ListIsWhole
<1>20. ListIsWhole(ed', completed)
  BY <1>3, <1>12, <1>13, <1>17, <1>19 DEF ListIsWhole
<1>21. /\ ed.list = <<>> /\ d.pending = <<>> /\ (~d.rollbackReady => d.rollback = <<>>)
  BY <1>1, <1>2 DEF EditorInv, ScanPart, ScanIsSound
<1>22. <<>> \o <<>> = <<>> /\ <<>> \o NamesOf(entries) = NamesOf(entries)
  <2>1. NamesOf(entries) \in Seq(Names) /\ <<>> \in Seq(Names)
    BY <1>9, EntriesAreNamed, NamesOfProperties, EmptySequences
  <2> QED BY <2>1, ConcatEmptySeq
<1>23. ScanIsSound(ed', completed)
  BY <1>9, <1>11, <1>12, <1>13, <1>14, <1>15, <1>17, <1>21, <1>22, EmptySequences, ZenonT(30) DEF ScanIsSound
<1>24. OneFolder(ed')
  BY <1>1, <1>3, <1>12, <1>17 DEF EditorInv, OneFolder
<1>25. PreviewPart(ed', posted)
  BY <1>1, <1>17, PreviewTransfer DEF EditorInv, NoNewWait
<1>26. EditorInv(ed', posted, completed) /\ RowsExist(ed')
  BY <1>1, <1>17, <1>18, <1>20, <1>23, <1>24, <1>25 DEF EditorInv, ScanPart, RowsExist
<1> QED
  BY <1>2, <1>10, <1>17, <1>26, ScanWorks


-----------------------------------------------------------------------------
(* The preview worker.                                                     *)

LEMMA BuildType ==
  ASSUME NEW job \in PreviewJobs
  PROVE  /\ job.generation \in Nat /\ job.root \in Roots /\ job.requests \in Seq(Requests)
         /\ job.results \in Seq(Results) /\ job.cancelled \in BOOLEAN /\ job.stamp \in Nat
         /\ job.at \in {"load", "request", "build"} /\ job.store \in Stores
BY DEF PreviewJobs

LEMMA BuildStepIs ==
  ASSUME ed \in Editors, RowsExist(ed), NEW done, NEW job \in PreviewJobs \cup {None}, BuildStep(job),
         OneFolder(ed), ScanPart(ed, done)
  PROVE  /\ ed' \in Editors /\ OneFolder(ed') /\ ScanPart(ed', done) /\ RowsExist(ed')
         /\ ed'.open = ed.open /\ ed'.list = ed.list /\ ed'.building = ed.building
         /\ ed'.previewGeneration = ed.previewGeneration
         /\ ed'.preview.job = job /\ ed'.preview.next = ed.preview.next
<1>1. ed' = [ed EXCEPT !.preview.job = job]
  BY DEF BuildStep
<1>2. ed.preview \in Workers(PreviewJobs)
  BY DEF Editors
<1>3. /\ ed' \in Editors /\ SameScan(ed, ed') /\ ed'.list = ed.list /\ ed'.visible = ed.visible
      /\ ed'.open = ed.open /\ ed'.building = ed.building
      /\ ed'.previewGeneration = ed.previewGeneration
      /\ ed'.preview.job = job /\ ed'.preview.next = ed.preview.next
  BY <1>1, <1>2 DEF Editors, Workers, SameScan
<1>4. SameFiles(ed.list, ed'.list)
  BY <1>3 DEF SameFiles
<1>5. ScanPart(ed', done)
  BY <1>3, <1>4, ScanTransfer
<1>6. OneFolder(ed')
  BY <1>3 DEF OneFolder, SameScan
<1> QED
  BY <1>3, <1>5, <1>6 DEF RowsExist

\* A step of the batch that runs keeps what it owes to the rows.
LEMMA BuildMoves ==
  ASSUME ed \in Editors, RowsExist(ed), NEW posts, NEW done, EditorInv(ed, posts, done),
         Build # None, NEW job \in PreviewJobs, BuildStep(job),
         job.generation = Build.generation, job.cancelled = Build.cancelled,
         \A i \in DOMAIN ed.list :
            Concerns(ed.list, i, Build.requests) \/ Concerns(ed.list, i, Build.results)
            => Concerns(ed.list, i, job.requests) \/ Concerns(ed.list, i, job.results)
  PROVE  ed' \in Editors /\ EditorInv(ed', posts, done) /\ RowsExist(ed')
<1>1. /\ ed' \in Editors /\ OneFolder(ed') /\ ScanPart(ed', done) /\ RowsExist(ed')
      /\ ed'.open = ed.open /\ ed'.list = ed.list /\ ed'.building = ed.building
      /\ ed'.previewGeneration = ed.previewGeneration
      /\ ed'.preview.job = job /\ ed'.preview.next = ed.preview.next
  BY BuildStepIs DEF EditorInv
<1>2. job # None
  BY BrowserAssumption
<1>3. (Runs(ed') <=> Runs(ed)) /\ Arrives(ed', posts) = Arrives(ed, posts)
  BY <1>1, <1>2 DEF Runs, Arrives, Build
<1>4. OneBatch(ed', posts)
  BY <1>1, <1>2, <1>3 DEF EditorInv, PreviewPart, OneBatch, Build
<1>5. RowsAreServed(ed', posts)
  BY <1>1, <1>3 DEF EditorInv, PreviewPart, RowsAreServed, Build
<1> QED
  BY <1>1, <1>4, <1>5 DEF EditorInv, PreviewPart

\* A batch that was cancelled ends, and nobody waits for it.
LEMMA BuildStops ==
  ASSUME ed \in Editors, RowsExist(ed), NEW posts, NEW done, EditorInv(ed, posts, done),
         Build # None, Build.cancelled, BuildStep(None)
  PROVE  ed' \in Editors /\ EditorInv(ed', posts, done) /\ RowsExist(ed')
<1>1. /\ ed' \in Editors /\ OneFolder(ed') /\ ScanPart(ed', done) /\ RowsExist(ed')
      /\ ed'.open = ed.open /\ ed'.list = ed.list /\ ed'.building = ed.building
      /\ ed'.previewGeneration = ed.previewGeneration
      /\ ed'.preview.job = None /\ ed'.preview.next = ed.preview.next
  BY BuildStepIs DEF EditorInv
<1>3. ~Runs(ed) /\ ~Runs(ed') /\ Arrives(ed', posts) = Arrives(ed, posts)
  BY <1>1 DEF Runs, Arrives, Build
<1>4. OneBatch(ed', posts)
  BY <1>1, <1>3 DEF EditorInv, PreviewPart, OneBatch
<1>5. RowsAreServed(ed', posts)
  BY <1>1, <1>3 DEF EditorInv, PreviewPart, RowsAreServed
<1> QED
  BY <1>1, <1>4, <1>5 DEF EditorInv, PreviewPart

\* The result of the first request is owed to the row the request was for.
LEMMA ResultConcerns ==
  ASSUME NEW list, NEW requests \in Seq(Requests), requests # <<>>,
         NEW results \in Seq(Results), NEW result \in Results,
         result.at = Head(requests).at, result.root = Head(requests).root,
         result.name = Head(requests).name,
         NEW i, Concerns(list, i, requests) \/ Concerns(list, i, results)
  PROVE  Concerns(list, i, Tail(requests)) \/ Concerns(list, i, Append(results, result))
<1>1. /\ Len(requests) \in Nat /\ DOMAIN requests = 1 .. Len(requests)
      /\ Head(requests) = requests[1]
  BY LenProperties
<1>2. /\ Tail(requests) \in Seq(Requests) /\ Len(Tail(requests)) = Len(requests) - 1
      /\ \A k \in 1 .. Len(requests) - 1 : Tail(requests)[k] = requests[k + 1]
  BY HeadTailProperties
<1>3. DOMAIN Tail(requests) = 1 .. Len(requests) - 1
  BY <1>2, LenProperties
<1>4. /\ Append(results, result) \in Seq(Results) /\ Len(Append(results, result)) = Len(results) + 1
      /\ \A k \in 1 .. Len(results) : Append(results, result)[k] = results[k]
      /\ Append(results, result)[Len(results) + 1] = result
  BY AppendProperties
<1>5. /\ Len(results) \in Nat /\ DOMAIN results = 1 .. Len(results)
      /\ DOMAIN Append(results, result) = 1 .. Len(results) + 1
  <2>1. DOMAIN Append(results, result) = 1 .. Len(Append(results, result))
    BY <1>4, LenProperties
  <2> QED BY <1>4, <2>1, LenProperties
<1>6. CASE Concerns(list, i, results)
  <2>1. PICK k \in DOMAIN results : results[k].at = i /\ IsFor(list[i], results[k])
    BY <1>6 DEF Concerns
  <2>2. k \in DOMAIN Append(results, result) /\ Append(results, result)[k] = results[k]
    BY <1>4, <1>5
  <2> QED BY <2>1, <2>2 DEF Concerns
<1>7. CASE Concerns(list, i, requests)
  <2>1. PICK k \in DOMAIN requests : requests[k].at = i /\ IsFor(list[i], requests[k])
    BY <1>7 DEF Concerns
  <2>2. CASE k = 1
    <3>1. result.at = i /\ IsFor(list[i], result)
      BY <1>1, <2>1, <2>2 DEF IsFor
    <3>2. Len(results) + 1 \in DOMAIN Append(results, result)
      BY <1>5
    <3> QED BY <1>4, <3>1, <3>2 DEF Concerns
  <2>3. CASE k # 1
    <3>1. k - 1 \in DOMAIN Tail(requests) /\ (k - 1) + 1 = k
      BY <1>1, <1>3, <2>3
    <3>2. Tail(requests)[k - 1] = requests[k]
      BY <1>2, <1>3, <3>1
    <3> QED BY <2>1, <3>1, <3>2 DEF Concerns
  <2> QED BY <2>2, <2>3
<1> QED
  BY <1>6, <1>7

LEMMA GoodAppend ==
  ASSUME NEW results \in Seq(Results), GoodResults(results), NEW result \in Results,
         result.ok => /\ result.content.root = result.root /\ result.content.name = result.name
                      /\ result.stamp <= result.content.version
  PROVE  GoodResults(Append(results, result))
<1>1. /\ Append(results, result) \in Seq(Results) /\ Len(Append(results, result)) = Len(results) + 1
      /\ \A k \in 1 .. Len(results) : Append(results, result)[k] = results[k]
      /\ Append(results, result)[Len(results) + 1] = result
  BY AppendProperties
<1>2. /\ Len(results) \in Nat /\ DOMAIN results = 1 .. Len(results)
      /\ DOMAIN Append(results, result) = 1 .. Len(results) + 1
  <2>1. DOMAIN Append(results, result) = 1 .. Len(Append(results, result))
    BY <1>1, LenProperties
  <2> QED BY <1>1, <2>1, LenProperties
<1> DEFINE t == Append(results, result)
<1> HIDE DEF t
<1>3. \A k \in DOMAIN t : (k \in DOMAIN results /\ t[k] = results[k]) \/ t[k] = result
  BY <1>1, <1>2 DEF t
<1>4. GoodResults(t)
  BY <1>3 DEF GoodResults
<1> QED
  BY <1>4 DEF t

\* A step of the preview worker that posts and stores nothing.
LEMMA PreviewWorks ==
  ASSUME BrowserInv, UNCHANGED <<outside, posted>>,
         ed' \in Editors, EditorInv(ed', posted, completed), RowsExist(ed'),
         PreviewsAreGood(ed'.preview, posted, peaks, disk)
  PROVE  BrowserInv'
<1>1. TypeOK'
  BY DEF BrowserInv, TypeOK, outside
<1> QED
  BY <1>1 DEF BrowserInv, outside

LEMMA PreviewTypes ==
  ASSUME BrowserInv
  PROVE  /\ ed \in Editors /\ posted \in Seq(Posts) /\ EditorInv(ed, posted, completed) /\ RowsExist(ed)
         /\ PreviewsAreGood(ed.preview, posted, peaks, disk) /\ peaks \in [Roots -> Stores]
         /\ disk \in [Roots -> [Names \cup {Deep} -> Int]]
         /\ Build \in PreviewJobs \cup {None} /\ ed.preview.next \in PreviewJobs \cup {None}
<1>1. ed \in Editors
  BY DEF BrowserInv, TypeOK
<1>2. ed.preview \in Workers(PreviewJobs)
  BY <1>1 DEF Editors
<1>3. Build \in PreviewJobs \cup {None} /\ ed.preview.next \in PreviewJobs \cup {None}
  BY <1>2 DEF Workers, Build
<1> QED
  BY <1>3 DEF BrowserInv, TypeOK

LEMMA PreviewLoadKeeps ==
  ASSUME BrowserInv, PreviewLoad
  PROVE  BrowserInv'
<1> DEFINE next == ed.preview.next
           job == [next EXCEPT !.store = peaks[next.root], !.at = "request"]
<1>1. /\ ed \in Editors /\ posted \in Seq(Posts) /\ EditorInv(ed, posted, completed) /\ RowsExist(ed)
      /\ PreviewsAreGood(ed.preview, posted, peaks, disk) /\ peaks \in [Roots -> Stores]
      /\ next \in PreviewJobs \cup {None}
  BY PreviewTypes
<1>2. /\ Build = None /\ next # None /\ UNCHANGED <<outside, posted>>
      /\ ed' = [ed EXCEPT !.preview = [job |-> job, next |-> None]]
  BY DEF PreviewLoad
<1>3. next \in PreviewJobs /\ next.root \in Roots
  BY <1>1, <1>2, BuildType
<1>4. /\ job \in PreviewJobs /\ job.generation = next.generation /\ job.root = next.root
      /\ job.requests = next.requests /\ job.results = next.results
      /\ job.cancelled = next.cancelled /\ job.at = "request" /\ job.store = peaks[next.root]
  BY <1>1, <1>3 DEF PreviewJobs
<1>5. job # None
  BY <1>4, BrowserAssumption
<1> HIDE DEF job
<1>6. /\ ed' \in Editors /\ SameScan(ed, ed') /\ ed'.list = ed.list /\ ed'.visible = ed.visible
      /\ ed'.open = ed.open /\ ed'.building = ed.building
      /\ ed'.previewGeneration = ed.previewGeneration
      /\ ed'.preview.job = job /\ ed'.preview.next = None
  BY <1>1, <1>2, <1>4 DEF Editors, Workers, SameScan
<1>7. ScanPart(ed', completed)
  BY <1>1, <1>6, ScanTransfer DEF EditorInv, SameFiles
<1>8. OneFolder(ed') /\ RowsExist(ed')
  BY <1>1, <1>6 DEF EditorInv, OneFolder, SameScan, RowsExist
<1>9. /\ ~Runs(ed) /\ Arrives(ed, posted) = {} /\ ed.building
      /\ next.generation = ed.previewGeneration /\ ~next.cancelled
  BY <1>1, <1>2 DEF EditorInv, PreviewPart, OneBatch
<1>10. Runs(ed') /\ Arrives(ed', posted) = {}
  BY <1>4, <1>5, <1>6, <1>9 DEF Runs, Arrives
<1>11. ed.previewGeneration \in Nat
  BY <1>1 DEF Editors
<1>12. OneBatch(ed', posted)
  <2>1. \A k \in DOMAIN posted : posted[k].generation <= ed.previewGeneration
    BY <1>1 DEF EditorInv, PreviewPart, OneBatch
  <2> QED
    BY <1>4, <1>6, <1>9, <1>10, <1>11, <2>1 DEF OneBatch
<1>13. RowsAreServed(ed', posted)
  BY <1>1, <1>2, <1>4, <1>6, <1>10 DEF EditorInv, PreviewPart, RowsAreServed
<1>14. PreviewsAreGood(ed'.preview, posted, peaks, disk)
  <2>1. GoodJob(job)
    BY <1>1, <1>2, <1>3, <1>4 DEF PreviewsAreGood, GoodJob
  <2> QED
    BY <1>1, <1>4, <1>6, <2>1 DEF PreviewsAreGood
<1> QED
  BY <1>2, <1>6, <1>7, <1>8, <1>12, <1>13, <1>14, PreviewWorks DEF EditorInv, PreviewPart


\* The request at the front gets its result.
LEMMA Answers ==
  ASSUME BrowserInv, Build # None, Build.requests # <<>>, NEW result \in Results,
         result.at = Asked.at, result.root = Asked.root, result.name = Asked.name,
         result.ok => /\ result.content.root = result.root /\ result.content.name = result.name
                      /\ result.stamp <= result.content.version,
         NEW store \in Stores, GoodStore(Build.root, store),
         BuildStep([WithResult(Build, result) EXCEPT !.store = store]), UNCHANGED <<outside, posted>>
  PROVE  BrowserInv'
<1> DEFINE job == [WithResult(Build, result) EXCEPT !.store = store]
<1>1. /\ ed \in Editors /\ posted \in Seq(Posts) /\ EditorInv(ed, posted, completed) /\ RowsExist(ed)
      /\ PreviewsAreGood(ed.preview, posted, peaks, disk) /\ Build \in PreviewJobs
  BY PreviewTypes
<1>2. /\ Build.requests \in Seq(Requests) /\ Build.results \in Seq(Results)
  BY <1>1, BuildType
<1>3. Tail(Build.requests) \in Seq(Requests) /\ Append(Build.results, result) \in Seq(Results)
  BY <1>2, HeadTailProperties, AppendProperties
<1>4. /\ job \in PreviewJobs /\ job.generation = Build.generation /\ job.root = Build.root
      /\ job.cancelled = Build.cancelled /\ job.requests = Tail(Build.requests)
      /\ job.results = Append(Build.results, result) /\ job.store = store /\ job.at = "request"
  BY <1>1, <1>3 DEF WithResult, PreviewJobs
<1> HIDE DEF job
<1>5. \A i \in DOMAIN ed.list :
         Concerns(ed.list, i, Build.requests) \/ Concerns(ed.list, i, Build.results)
         => Concerns(ed.list, i, job.requests) \/ Concerns(ed.list, i, job.results)
  BY <1>2, <1>4, ResultConcerns DEF Asked
<1>6. BuildStep(job)
  BY DEF job
<1>7. ed' \in Editors /\ EditorInv(ed', posted, completed) /\ RowsExist(ed')
  BY <1>1, <1>4, <1>5, <1>6, BuildMoves
<1>8. ed'.preview.job = job /\ ed'.preview.next = ed.preview.next
  BY <1>1, <1>4, <1>6, BuildStepIs DEF EditorInv
<1>9. GoodJob(Build)
  BY <1>1 DEF PreviewsAreGood, Build
<1>10. GoodJob(job)
  <2>1. GoodResults(job.results)
    BY <1>2, <1>4, <1>9, GoodAppend DEF GoodJob
  <2>2. \A k \in DOMAIN Tail(Build.requests) : Tail(Build.requests)[k].root = Build.root
    <3>1. /\ Len(Build.requests) \in Nat /\ DOMAIN Build.requests = 1 .. Len(Build.requests)
          /\ Len(Tail(Build.requests)) = Len(Build.requests) - 1
          /\ \A k \in 1 .. Len(Build.requests) - 1 : Tail(Build.requests)[k] = Build.requests[k + 1]
      BY <1>2, HeadTailProperties, LenProperties
    <3>2. DOMAIN Tail(Build.requests) = 1 .. Len(Build.requests) - 1
      BY <1>3, <3>1, LenProperties
    <3>3. \A k \in DOMAIN Tail(Build.requests) :
             k + 1 \in DOMAIN Build.requests /\ Tail(Build.requests)[k] = Build.requests[k + 1]
      BY <3>1, <3>2
    <3> QED BY <1>9, <3>3 DEF GoodJob
  <2> QED
    BY <1>4, <2>1, <2>2 DEF GoodJob
<1>11. PreviewsAreGood(ed'.preview, posted, peaks, disk)
  BY <1>1, <1>4, <1>8, <1>10 DEF PreviewsAreGood
<1> QED
  BY <1>7, <1>11, PreviewWorks

\* What is asked for is a file of the folder of the batch.
LEMMA AskedIs ==
  ASSUME BrowserInv, Build # None, Build.requests # <<>>
  PROVE  /\ Asked \in Requests /\ Asked.root \in Roots /\ Asked.name \in Names /\ Asked.at \in Nat
         /\ Asked.root = Build.root /\ disk[Asked.root][Asked.name] \in Int
<1>1. /\ Build \in PreviewJobs /\ PreviewsAreGood(ed.preview, posted, peaks, disk)
      /\ disk \in [Roots -> [Names \cup {Deep} -> Int]]
  BY PreviewTypes
<1>2. Build.requests \in Seq(Requests) /\ Build.root \in Roots
  BY <1>1, BuildType
<1>3. /\ Len(Build.requests) \in Nat /\ DOMAIN Build.requests = 1 .. Len(Build.requests)
      /\ Len(Build.requests) # 0 /\ Asked = Build.requests[1]
  BY <1>2, LenProperties, EmptySeq DEF Asked
<1>4. Asked \in Requests
  BY <1>2, HeadTailProperties DEF Asked
<1>5. Asked.root = Build.root
  BY <1>1, <1>3 DEF PreviewsAreGood, GoodJob, Build
<1>6. Asked.root \in Roots /\ Asked.name \in Names /\ Asked.at \in Nat
  BY <1>4 DEF Requests
<1> QED
  BY <1>1, <1>4, <1>5, <1>6

LEMMA PreviewStampKeeps ==
  ASSUME BrowserInv, PreviewStamp
  PROVE  BrowserInv'
<1> DEFINE now == disk[Asked.root][Asked.name]
           stored == Build.store[Asked.name]
           job == [Build EXCEPT !.at = "build", !.stamp = now, !.store[Asked.name] = None]
<1>1. Build # None /\ Build.requests # <<>> /\ UNCHANGED <<outside, posted>>
  BY DEF PreviewStamp
<1>2. /\ ed \in Editors /\ posted \in Seq(Posts) /\ EditorInv(ed, posted, completed) /\ RowsExist(ed)
      /\ PreviewsAreGood(ed.preview, posted, peaks, disk) /\ Build \in PreviewJobs
  BY <1>1, PreviewTypes
<1>3. /\ Asked \in Requests /\ Asked.root \in Roots /\ Asked.name \in Names /\ Asked.at \in Nat
      /\ Asked.root = Build.root /\ now \in Int
  BY <1>1, AskedIs
<1>4. GoodJob(Build) /\ Build.store \in Stores /\ stored \in Previews \cup {None}
  <2>1. Build.store \in Stores
    BY <1>2, BuildType
  <2> QED BY <1>1, <1>2, <1>3, <2>1 DEF PreviewsAreGood, Build, Stores
<1>5. GoodStore(Build.root, Build.store)
  BY <1>4 DEF GoodJob
<1>6. \A result : WithResult(Build, result) = [WithResult(Build, result) EXCEPT !.store = Build.store]
  BY <1>2 DEF WithResult, PreviewJobs
<1>7. CASE Build.cancelled /\ BuildStep(None)
  <2>1. ed' \in Editors /\ EditorInv(ed', posted, completed) /\ RowsExist(ed')
    BY <1>1, <1>2, <1>7, BuildStops
  <2>2. ed'.preview.job = None /\ ed'.preview.next = ed.preview.next
    BY <1>2, <1>7, BuildStepIs DEF EditorInv
  <2>3. PreviewsAreGood(ed'.preview, posted, peaks, disk)
    BY <1>2, <2>2 DEF PreviewsAreGood
  <2> QED BY <1>1, <2>1, <2>3, PreviewWorks
<1>8. CASE BuildStep(WithResult(Build, Result(None, 0, FALSE)))
  <2>1. LET result == Result(None, 0, FALSE)
        IN  /\ result \in Results /\ result.at = Asked.at /\ result.root = Asked.root
            /\ result.name = Asked.name /\ ~result.ok
    BY <1>3 DEF Result, Results
  <2> QED BY <1>1, <1>4, <1>5, <1>6, <1>8, <2>1, Answers
<1>9. CASE now > 0 /\ stored # None /\ stored.stamp = now
           /\ BuildStep(WithResult(Build, Result(stored.content, now, TRUE)))
  <2>1. stored.content \in Contents /\ now \in Nat
    BY <1>3, <1>4, <1>9 DEF Previews
  <2>2. /\ stored.content.root = Build.root /\ stored.content.name = Asked.name
        /\ now <= stored.content.version
    BY <1>3, <1>5, <1>9 DEF GoodStore
  <2> HIDE DEF now, stored
  <2>3. LET result == Result(stored.content, now, TRUE)
        IN  /\ result \in Results /\ result.at = Asked.at /\ result.root = Asked.root
            /\ result.name = Asked.name /\ result.content = stored.content /\ result.stamp = now
    BY <1>3, <2>1 DEF Result, Results
  <2> QED BY <1>1, <1>3, <1>4, <1>5, <1>6, <1>9, <2>2, <2>3, Answers
<1>10. CASE now > 0 /\ BuildStep(job)
  <2>1. now \in Nat /\ now <= LastVersion(now)
    BY <1>3, <1>10 DEF LastVersion
  <2>2. [Build.store EXCEPT ![Asked.name] = None] \in Stores
    BY <1>3, <1>4 DEF Stores
  <2>3. GoodStore(Build.root, [Build.store EXCEPT ![Asked.name] = None])
    BY <1>3, <1>4, <1>5 DEF GoodStore, Stores
  <2> DEFINE store == [Build.store EXCEPT ![Asked.name] = None]
  <2>4. job = [Build EXCEPT !.at = "build", !.stamp = now, !.store = store]
    OBVIOUS
  <2> HIDE DEF store, job
  <2>5. /\ job \in PreviewJobs /\ job.generation = Build.generation /\ job.root = Build.root
        /\ job.cancelled = Build.cancelled /\ job.requests = Build.requests
        /\ job.results = Build.results /\ job.store = store /\ job.stamp = now
    BY <1>2, <2>1, <2>2, <2>4 DEF PreviewJobs, store
  <2>6. ed' \in Editors /\ EditorInv(ed', posted, completed) /\ RowsExist(ed')
    BY <1>1, <1>2, <1>10, <2>5, BuildMoves
  <2>7. ed'.preview.job = job /\ ed'.preview.next = ed.preview.next
    BY <1>2, <1>10, <2>5, BuildStepIs DEF EditorInv
  <2>8. GoodJob(job)
    BY <1>4, <2>3, <2>5 DEF GoodJob, store
  <2>9. PreviewsAreGood(ed'.preview, posted, peaks, disk)
    BY <1>1, <1>2, <2>1, <2>5, <2>7, <2>8 DEF PreviewsAreGood, Asked
  <2> QED BY <1>1, <2>6, <2>9, PreviewWorks
<1>11. BuildStep(
         CASE Build.cancelled -> None
           [] ~Build.cancelled /\ now <= 0 -> WithResult(Build, Result(None, 0, FALSE))
           [] ~Build.cancelled /\ now > 0 /\ stored # None /\ stored.stamp = now ->
                WithResult(Build, Result(stored.content, now, TRUE))
           [] ~Build.cancelled /\ now > 0 /\ (stored = None \/ stored.stamp # now) -> job)
  BY DEF PreviewStamp
<1>12. (now <= 0 \/ now > 0) /\ (now <= 0 => ~(now > 0))
  BY <1>3
<1> HIDE DEF now, stored, job
<1>13. CASE Build.cancelled
  BY <1>7, <1>11, <1>13
<1>14. CASE ~Build.cancelled /\ now <= 0
  BY <1>8, <1>11, <1>12, <1>14
<1>15. CASE ~Build.cancelled /\ ~(now <= 0) /\ stored # None /\ stored.stamp = now
  BY <1>9, <1>11, <1>12, <1>15
<1>16. CASE ~Build.cancelled /\ ~(now <= 0) /\ (stored = None \/ stored.stamp # now)
  BY <1>10, <1>11, <1>12, <1>16
<1> QED
  BY <1>13, <1>14, <1>15, <1>16

\* The content is read after the stamp, so it is no older.
LEMMA PreviewBuildKeeps ==
  ASSUME BrowserInv, PreviewBuild
  PROVE  BrowserInv'
<1> DEFINE now == disk[Asked.root][Asked.name]
           content == [root |-> Asked.root, name |-> Asked.name, version |-> now]
           ok == ~Build.cancelled /\ now > 0
           result == Result(content, Build.stamp, ok)
           done == WithResult(Build, result)
           preview == [stamp |-> Build.stamp, content |-> content]
           store == [Build.store EXCEPT ![Asked.name] = preview]
<1>1. /\ Build # None /\ Build.at = "build" /\ UNCHANGED <<outside, posted>>
      /\ BuildStep(IF ok THEN [done EXCEPT !.store[Asked.name] = preview] ELSE done)
  BY DEF PreviewBuild
<1>2. /\ ed \in Editors /\ PreviewsAreGood(ed.preview, posted, peaks, disk) /\ Build \in PreviewJobs
  BY <1>1, PreviewTypes
<1>3. Build.requests # <<>> /\ Build.stamp <= LastVersion(now) /\ GoodJob(Build)
  BY <1>1, <1>2 DEF PreviewsAreGood, Build, Asked
<1>4. /\ Asked \in Requests /\ Asked.root \in Roots /\ Asked.name \in Names /\ Asked.at \in Nat
      /\ Asked.root = Build.root /\ now \in Int
  BY <1>1, <1>3, AskedIs
<1>5. Build.store \in Stores /\ Build.stamp \in Nat /\ GoodStore(Build.root, Build.store)
      /\ Build.cancelled \in BOOLEAN
  BY <1>2, <1>3, BuildType DEF GoodJob
<1>6. content \in Contents
  BY <1>4 DEF Contents
<1>7. ok \in BOOLEAN
  OBVIOUS
<1>8. ok => Build.stamp <= content.version
  BY <1>3 DEF LastVersion
<1>9. content.root = Asked.root /\ content.name = Asked.name
  OBVIOUS
<1>10. ok => store \in Stores /\ GoodStore(Build.root, store)
  <2>1. preview \in Previews /\ preview.stamp = Build.stamp /\ preview.content = content
    BY <1>5, <1>6 DEF Previews
  <2> HIDE DEF preview, content, ok
  <2>2. store \in Stores
    BY <1>4, <1>5, <2>1 DEF Stores
  <2>3. \A n \in Names : store[n] = IF n = Asked.name THEN preview ELSE Build.store[n]
    BY <1>5 DEF Stores
  <2> HIDE DEF store
  <2> QED BY <1>4, <1>5, <1>8, <1>9, <2>1, <2>2, <2>3 DEF GoodStore
<1> HIDE DEF content, ok, now
<1>11. /\ result \in Results /\ result.at = Asked.at /\ result.root = Asked.root
       /\ result.name = Asked.name /\ result.content = content /\ result.stamp = Build.stamp
       /\ result.ok = ok
  BY <1>4, <1>5, <1>6, <1>7 DEF Result, Results
<1> HIDE DEF result
<1>12. done.store = Build.store /\ done = [done EXCEPT !.store = Build.store]
  BY <1>2 DEF WithResult, PreviewJobs
<1>13. [done EXCEPT !.store[Asked.name] = preview] = [done EXCEPT !.store = store]
  BY <1>12
<1> HIDE DEF store, preview
<1>14. CASE ok
  <2>1. BuildStep([done EXCEPT !.store = store])
    BY <1>1, <1>13, <1>14
  <2> QED BY <1>1, <1>3, <1>8, <1>9, <1>10, <1>11, <1>14, <2>1, Answers
<1>15. CASE ~ok
  <2>1. BuildStep([done EXCEPT !.store = Build.store])
    BY <1>1, <1>12, <1>15
  <2> QED BY <1>1, <1>3, <1>5, <1>11, <1>15, <2>1, Answers
<1> QED
  BY <1>14, <1>15


\* The batch becomes the results that are posted.
LEMMA PreviewEndKeeps ==
  ASSUME BrowserInv, PreviewEnd
  PROVE  BrowserInv'
<1> DEFINE post == [generation |-> Build.generation, results |-> Build.results]
           n == Len(posted)
<1>1. /\ Build # None /\ Build.at = "request" /\ Build.requests = <<>> /\ BuildStep(None)
      /\ UNCHANGED <<disk, identity, partitions, savedRoot, completed>>
      /\ \/ Build.cancelled /\ UNCHANGED <<peaks, posted>>
         \/ /\ ~Build.cancelled /\ posted' = Append(posted, post)
            /\ peaks' = [peaks EXCEPT ![Build.root] = Build.store]
  BY DEF PreviewEnd
<1>2. /\ ed \in Editors /\ posted \in Seq(Posts) /\ EditorInv(ed, posted, completed) /\ RowsExist(ed)
      /\ PreviewsAreGood(ed.preview, posted, peaks, disk) /\ Build \in PreviewJobs
      /\ peaks \in [Roots -> Stores]
  BY <1>1, PreviewTypes
<1>3. /\ ed' \in Editors /\ OneFolder(ed') /\ ScanPart(ed', completed) /\ RowsExist(ed')
      /\ ed'.open = ed.open /\ ed'.list = ed.list /\ ed'.building = ed.building
      /\ ed'.previewGeneration = ed.previewGeneration
      /\ ed'.preview.job = None /\ ed'.preview.next = ed.preview.next
  BY <1>1, <1>2, BuildStepIs DEF EditorInv
<1>4. CASE Build.cancelled /\ UNCHANGED <<peaks, posted>>
  <2>1. EditorInv(ed', posted, completed)
    BY <1>1, <1>2, <1>4, BuildStops
  <2>2. PreviewsAreGood(ed'.preview, posted, peaks, disk)
    BY <1>2, <1>3 DEF PreviewsAreGood
  <2>3. TypeOK'
    BY <1>1, <1>3, <1>4 DEF BrowserInv, TypeOK
  <2> QED BY <1>1, <1>3, <1>4, <2>1, <2>2, <2>3 DEF BrowserInv
<1>5. CASE /\ ~Build.cancelled /\ posted' = Append(posted, post)
           /\ peaks' = [peaks EXCEPT ![Build.root] = Build.store]
  <2>1. /\ Build.generation \in Nat /\ Build.root \in Roots /\ Build.results \in Seq(Results)
        /\ Build.store \in Stores
    BY <1>2, BuildType
  <2>2. post \in Posts /\ post.generation = Build.generation /\ post.results = Build.results
    BY <2>1 DEF Posts
  <2> HIDE DEF post
  <2>3. /\ posted' \in Seq(Posts) /\ Len(posted') = n + 1 /\ posted'[n + 1] = post
        /\ \A k \in 1 .. n : posted'[k] = posted[k]
    BY <1>2, <1>5, <2>2, AppendProperties
  <2>4. n \in Nat /\ DOMAIN posted = 1 .. n /\ DOMAIN posted' = 1 .. n + 1
    <3>1. DOMAIN posted' = 1 .. Len(posted') /\ n \in Nat /\ DOMAIN posted = 1 .. n
      BY <1>2, <2>3, LenProperties
    <3> QED BY <2>3, <3>1
  <2> HIDE DEF n
  <2>5. \A k \in DOMAIN posted' : \/ k \in DOMAIN posted /\ posted'[k] = posted[k]
                                  \/ k = n + 1 /\ posted'[k] = post
    BY <2>3, <2>4
  <2>6. /\ Runs(ed) <=> Build.generation = ed.previewGeneration
        /\ ~Runs(ed')
    BY <1>1, <1>3, <1>5 DEF Runs, Build
  <2>7. Arrives(ed', posted') = Arrives(ed, posted) \cup (IF Runs(ed) THEN {n + 1} ELSE {})
    <3>1. \A k \in Arrives(ed', posted') : k \in Arrives(ed, posted) \/ (Runs(ed) /\ k = n + 1)
      BY <1>3, <2>2, <2>5, <2>6 DEF Arrives
    <3>2. \A k \in Arrives(ed, posted) : k \in Arrives(ed', posted')
      BY <1>3, <2>3, <2>4 DEF Arrives
    <3>3. Runs(ed) => n + 1 \in Arrives(ed', posted')
      BY <1>3, <2>2, <2>3, <2>4, <2>6 DEF Arrives
    <3> QED BY <3>1, <3>2, <3>3
  <2>8. Build.generation <= ed.previewGeneration
    BY <1>1, <1>2 DEF EditorInv, PreviewPart, OneBatch, Build
  <2>9. OneBatch(ed, posted) /\ RowsAreServed(ed, posted)
    BY <1>2 DEF EditorInv, PreviewPart
  <2>10. OneBatch(ed', posted')
    <3>1. \A k \in DOMAIN posted' : posted'[k].generation <= ed'.previewGeneration
      BY <1>3, <2>2, <2>5, <2>8, <2>9 DEF OneBatch
    <3>2. ed'.preview.next # None => Arrives(ed', posted') = {} /\ ed'.building
             /\ ed'.preview.next.generation = ed'.previewGeneration /\ ~ed'.preview.next.cancelled
      BY <1>3, <2>7, <2>9 DEF OneBatch
    <3>3. \A k, l \in Arrives(ed', posted') : k = l
      BY <2>7, <2>9 DEF OneBatch
    <3>4. ed'.open /\ Arrives(ed', posted') # {} => ed'.building
      BY <1>3, <2>7, <2>9 DEF OneBatch
    <3>5. ed'.open /\ ed'.building => ed'.preview.next # None \/ Arrives(ed', posted') # {}
      BY <1>3, <2>7, <2>9 DEF OneBatch
    <3> QED
      BY <1>3, <2>6, <3>1, <3>2, <3>3, <3>4, <3>5 DEF OneBatch
  <2>11. RowsAreServed(ed', posted')
    <3> SUFFICES ASSUME ed'.open, NEW i \in DOMAIN ed'.list, ed'.list[i].state = "queued"
                 PROVE  /\ ed'.building
                        /\ ed'.preview.next # None =>
                              \/ Concerns(ed'.list, i, ed'.preview.next.requests)
                              \/ Concerns(ed'.list, i, ed'.preview.next.results)
                        /\ \A k \in Arrives(ed', posted') : Concerns(ed'.list, i, posted'[k].results)
      BY <2>6 DEF RowsAreServed
    <3>1. /\ ed.building
          /\ ed.preview.next # None => \/ Concerns(ed.list, i, ed.preview.next.requests)
                                       \/ Concerns(ed.list, i, ed.preview.next.results)
          /\ Runs(ed) => \/ Concerns(ed.list, i, Build.requests)
                         \/ Concerns(ed.list, i, Build.results)
          /\ \A k \in Arrives(ed, posted) : Concerns(ed.list, i, posted[k].results)
      BY <1>3, <2>9 DEF RowsAreServed, Build
    <3>2. ~Concerns(ed.list, i, Build.requests)
      BY <1>1, EmptySequences DEF Concerns
    <3>3. \A k \in Arrives(ed', posted') : Concerns(ed.list, i, posted'[k].results)
      <4> SUFFICES ASSUME NEW k \in Arrives(ed', posted') PROVE Concerns(ed.list, i, posted'[k].results)
        OBVIOUS
      <4>1. CASE k \in Arrives(ed, posted)
        <5>1. posted'[k] = posted[k]
          BY <2>3, <2>4, <4>1 DEF Arrives
        <5> QED BY <3>1, <4>1, <5>1
      <4>2. CASE Runs(ed) /\ k = n + 1
        BY <2>2, <2>3, <3>1, <3>2, <4>2
      <4> QED BY <2>7, <4>1, <4>2
    <3> QED BY <1>3, <3>1, <3>3
  <2>12. PreviewsAreGood(ed'.preview, posted', peaks', disk)
    <3>1. GoodJob(Build)
      BY <1>1, <1>2 DEF PreviewsAreGood, Build
    <3>2. \A k \in DOMAIN posted' : GoodResults(posted'[k].results)
      BY <1>2, <2>2, <2>5, <3>1 DEF PreviewsAreGood, GoodJob
    <3>3. \A r \in Roots : GoodStore(r, peaks'[r])
      <4>1. \A r \in Roots : peaks'[r] = IF r = Build.root THEN Build.store ELSE peaks[r]
        BY <1>2, <1>5
      <4>2. \A r \in Roots : GoodStore(r, peaks[r])
        BY <1>2 DEF PreviewsAreGood
      <4>3. GoodStore(Build.root, Build.store)
        BY <3>1 DEF GoodJob
      <4> QED BY <4>1, <4>2, <4>3
    <3> QED
      BY <1>2, <1>3, <3>2, <3>3 DEF PreviewsAreGood
  <2>13. TypeOK'
    <3>1. peaks' \in [Roots -> Stores]
      BY <1>2, <1>5, <2>1
    <3> QED BY <1>1, <1>3, <2>3, <3>1 DEF BrowserInv, TypeOK
  <2>14. PartitionsAreWhole(partitions', completed')
    BY <1>1 DEF BrowserInv
  <2>15. EditorInv(ed', posted', completed')
    BY <1>1, <1>3, <2>10, <2>11 DEF EditorInv, PreviewPart
  <2> QED BY <1>1, <1>3, <2>12, <2>13, <2>14, <2>15 DEF BrowserInv
<1> QED
  BY <1>1, <1>4, <1>5

-----------------------------------------------------------------------------
(* The callbacks and the timer.                                            *)

\* The callbacks that are left once the first has run.
LEMMA LaterPosts ==
  ASSUME NEW e \in Editors, NEW posts \in Seq(Posts), posts # <<>>
  PROVE  /\ Tail(posts) \in Seq(Posts) /\ Head(posts) = posts[1] /\ 1 \in DOMAIN posts
         /\ \A k \in DOMAIN Tail(posts) : k + 1 \in DOMAIN posts /\ Tail(posts)[k] = posts[k + 1]
         /\ \A k \in DOMAIN posts : k = 1 \/ k - 1 \in DOMAIN Tail(posts)
         /\ \A k \in Arrives(e, Tail(posts)) : k + 1 \in Arrives(e, posts) /\ k \in Nat \ {0}
         /\ \A k \in Arrives(e, posts) : k = 1 \/ k - 1 \in Arrives(e, Tail(posts))
<1>1. /\ Len(posts) \in Nat /\ DOMAIN posts = 1 .. Len(posts) /\ Len(posts) # 0
      /\ Head(posts) = posts[1]
  BY LenProperties, EmptySeq
<1>2. /\ Tail(posts) \in Seq(Posts) /\ Len(Tail(posts)) = Len(posts) - 1
      /\ \A k \in 1 .. Len(posts) - 1 : Tail(posts)[k] = posts[k + 1]
  BY HeadTailProperties
<1>3. DOMAIN Tail(posts) = 1 .. Len(posts) - 1
  BY <1>2, LenProperties
<1>4. \A k \in DOMAIN Tail(posts) : k + 1 \in DOMAIN posts /\ Tail(posts)[k] = posts[k + 1]
                                    /\ k \in Nat \ {0}
  BY <1>1, <1>2, <1>3
<1>5. \A k \in DOMAIN posts : k = 1 \/ (k - 1 \in DOMAIN Tail(posts) /\ (k - 1) + 1 = k)
  BY <1>1, <1>3
<1> QED
  BY <1>1, <1>2, <1>4, <1>5 DEF Arrives

LEMMA CallbackKeeps ==
  ASSUME BrowserInv, PreviewCallback
  PROVE  BrowserInv'
<1> DEFINE done == Head(posted)
           later == Tail(posted)
           list == TakeResults(ed.list, done.results)
           taken == [ed EXCEPT !.list = list, !.building = FALSE]
<1>1. /\ posted # <<>> /\ posted' = later
      /\ UNCHANGED <<disk, identity, partitions, peaks, savedRoot, completed>>
      /\ \/ (~ed.open \/ done.generation # ed.previewGeneration) /\ ed' = ed
         \/ /\ ed.open /\ done.generation = ed.previewGeneration
            /\ \E rows \in Viewports(taken) : ed' = queueVisibleSamplePreviews(taken, rows)
  BY DEF PreviewCallback, outside
<1>2. /\ ed \in Editors /\ posted \in Seq(Posts) /\ EditorInv(ed, posted, completed) /\ RowsExist(ed)
      /\ PreviewsAreGood(ed.preview, posted, peaks, disk)
  BY PreviewTypes
<1>3. /\ later \in Seq(Posts) /\ done = posted[1] /\ 1 \in DOMAIN posted
      /\ \A k \in DOMAIN later : k + 1 \in DOMAIN posted /\ later[k] = posted[k + 1]
      /\ \A k \in Arrives(ed, later) : k + 1 \in Arrives(ed, posted) /\ k \in Nat \ {0}
      /\ \A k \in Arrives(ed, posted) : k = 1 \/ k - 1 \in Arrives(ed, later)
  BY <1>1, <1>2, LaterPosts
<1>4. OneBatch(ed, posted) /\ RowsAreServed(ed, posted)
  BY <1>2 DEF EditorInv, PreviewPart
<1>5. \A k \in DOMAIN later : GoodResults(later[k].results)
  BY <1>2, <1>3 DEF PreviewsAreGood
<1>6. GoodResults(done.results) /\ done \in Posts /\ done.results \in Seq(Results)
  BY <1>2, <1>3, PostType DEF PreviewsAreGood
<1>7. SUFFICES ed' \in Editors /\ EditorInv(ed', later, completed) /\ RowsExist(ed')
               /\ PreviewsAreGood(ed'.preview, later, peaks, disk)
  <2>1. ASSUME ed' \in Editors PROVE TypeOK'
    BY <1>1, <1>3, <2>1 DEF BrowserInv, TypeOK
  <2> QED BY <1>1, <2>1 DEF BrowserInv
<1> HIDE DEF later, done
<1>8. CASE (~ed.open \/ done.generation # ed.previewGeneration) /\ ed' = ed
  <2>1. ed.open => 1 \notin Arrives(ed, posted)
    BY <1>3, <1>8 DEF Arrives
  <2>2. OneBatch(ed, later)
    <3>1. \A k \in DOMAIN later : later[k].generation <= ed.previewGeneration
      BY <1>3, <1>4 DEF OneBatch
    <3>2. Arrives(ed, posted) = {} => Arrives(ed, later) = {}
      BY <1>3
    <3>3. \A k, l \in Arrives(ed, later) : k = l
      <4> SUFFICES ASSUME NEW k \in Arrives(ed, later), NEW l \in Arrives(ed, later) PROVE k = l
        OBVIOUS
      <4>1. k \in Nat /\ l \in Nat /\ k + 1 = l + 1
        BY <1>3, <1>4 DEF OneBatch
      <4> QED BY <4>1
    <3>4. Arrives(ed, later) # {} => Arrives(ed, posted) # {}
      BY <1>3
    <3>5. ed.open /\ Arrives(ed, posted) # {} => Arrives(ed, later) # {}
      BY <1>3, <2>1
    <3> QED
      BY <1>4, <3>1, <3>2, <3>3, <3>4, <3>5 DEF OneBatch
  <2>3. RowsAreServed(ed, later)
    <3> SUFFICES ASSUME ed.open, NEW i \in DOMAIN ed.list, ed.list[i].state = "queued"
                 PROVE  /\ ed.building
                        /\ ed.preview.next # None =>
                              \/ Concerns(ed.list, i, ed.preview.next.requests)
                              \/ Concerns(ed.list, i, ed.preview.next.results)
                        /\ Runs(ed) => \/ Concerns(ed.list, i, ed.preview.job.requests)
                                       \/ Concerns(ed.list, i, ed.preview.job.results)
                        /\ \A k \in Arrives(ed, later) : Concerns(ed.list, i, later[k].results)
      BY DEF RowsAreServed
    <3>1. \A k \in Arrives(ed, posted) : Concerns(ed.list, i, posted[k].results)
      BY <1>4 DEF RowsAreServed
    <3>2. \A k \in Arrives(ed, later) : later[k] = posted[k + 1] /\ k + 1 \in Arrives(ed, posted)
      BY <1>3 DEF Arrives
    <3>3. \A k \in Arrives(ed, later) : Concerns(ed.list, i, later[k].results)
      BY <3>1, <3>2
    <3> QED BY <1>4, <3>3 DEF RowsAreServed
  <2>4. PreviewsAreGood(ed.preview, later, peaks, disk)
    BY <1>2, <1>5 DEF PreviewsAreGood
  <2> QED
    BY <1>2, <1>8, <2>2, <2>3, <2>4 DEF EditorInv, PreviewPart
<1>9. CASE /\ ed.open /\ done.generation = ed.previewGeneration
           /\ \E rows \in Viewports(taken) : ed' = queueVisibleSamplePreviews(taken, rows)
  <2>1. 1 \in Arrives(ed, posted)
    BY <1>3, <1>9 DEF Arrives
  <2>2. ed.preview.next = None /\ ~Runs(ed) /\ Arrives(ed, later) = {}
    <3>1. ed.preview.next = None /\ ~Runs(ed)
      BY <1>4, <2>1 DEF OneBatch
    <3>2. \A k \in Arrives(ed, later) : k + 1 = 1
      BY <1>3, <1>4, <2>1 DEF OneBatch
    <3> QED BY <1>3, <3>1, <3>2
  <2>3. /\ ed.list \in Seq(Entries) /\ \A i \in DOMAIN ed.list : IsTrue(ed.list[i])
    BY <1>2, ListType DEF EditorInv, OneFolder
  <2>4. Taken(ed.list, done.results, Len(done.results), list)
    BY <1>6, <2>3, ResultsAreTaken
  <2>5. \A i \in DOMAIN list : list[i].state # "queued"
    <3> SUFFICES ASSUME NEW i \in DOMAIN list, list[i].state = "queued" PROVE FALSE
      OBVIOUS
    <3>1. i \in DOMAIN ed.list /\ ed.list[i].state = "queued"
      BY <2>4 DEF Taken, NoNewWait
    <3>2. Concerns(ed.list, i, done.results)
      BY <1>3, <1>4, <1>9, <2>1, <3>1 DEF RowsAreServed
    <3>3. DOMAIN done.results = 1 .. Len(done.results)
      BY <1>6, LenProperties
    <3> QED BY <2>4, <3>1, <3>2, <3>3 DEF Taken, Concerns
  <2> HIDE DEF list
  <2>6. /\ taken \in Editors /\ SameScan(ed, taken) /\ taken.list = list /\ taken.visible = ed.visible
        /\ taken.open /\ taken.preview = ed.preview /\ ~taken.building
        /\ taken.previewGeneration = ed.previewGeneration /\ taken.root = ed.root
        /\ taken.delivery = ed.delivery /\ taken.staging = ed.staging
    BY <1>2, <1>9, <2>4 DEF Taken, Editors, SameScan
  <2> HIDE DEF taken
  <2>7. SameFiles(ed.list, taken.list) /\ \A i \in DOMAIN taken.list : IsTrue(taken.list[i])
    BY <2>4, <2>6 DEF Taken
  <2>8. OneFolder(taken) /\ RowsExist(taken)
    BY <1>2, <2>6, <2>7 DEF EditorInv, OneFolder, RowsExist, SameFiles
  <2>9. ScanPart(taken, completed)
    BY <1>2, <2>6, <2>7, ScanTransfer DEF EditorInv
  <2>10. ~Runs(taken) /\ Arrives(taken, later) = {}
    BY <2>2, <2>6 DEF Runs, Arrives
  <2>11. \A k \in DOMAIN later : later[k].generation <= taken.previewGeneration
    BY <1>3, <1>4, <2>6 DEF OneBatch
  <2>12. OneBatch(taken, later)
    BY <1>4, <2>2, <2>6, <2>10, <2>11 DEF OneBatch
  <2>13. RowsAreServed(taken, later)
    BY <2>5, <2>6 DEF RowsAreServed
  <2>14. EditorInv(taken, later, completed)
    BY <2>8, <2>9, <2>12, <2>13 DEF EditorInv, PreviewPart
  <2>15. PreviewsAreGood(taken.preview, later, peaks, disk)
    BY <1>2, <1>5, <2>6 DEF PreviewsAreGood
  <2>16. PICK rows \in Viewports(taken) : ed' = queueVisibleSamplePreviews(taken, rows)
    BY <1>9
  <2>17. rows \in SUBSET DOMAIN taken.visible
    BY DEF Viewports
  <2> QED
    BY <1>3, <2>6, <2>8, <2>14, <2>15, <2>16, <2>17, QueueKeeps
<1> QED
  BY <1>1, <1>8, <1>9


\* What the editor's own handlers leave alone.
LEMMA Handled ==
  ASSUME BrowserInv, UNCHANGED <<disk, identity, partitions, peaks, posted, completed>>,
         savedRoot' \in Roots \cup {None}, ed' \in Editors, EditorInv(ed', posted, completed),
         RowsExist(ed'), PreviewsAreGood(ed'.preview, posted, peaks, disk)
  PROVE  BrowserInv'
<1>1. TypeOK'
  BY DEF BrowserInv, TypeOK
<1> QED
  BY <1>1 DEF BrowserInv

LEMMA TickKeeps ==
  ASSUME BrowserInv, Tick
  PROVE  BrowserInv'
<1> DEFINE e == drainSampleScanResults(ed)
<1>1. /\ ed \in Editors /\ posted \in Seq(Posts) /\ EditorInv(ed, posted, completed) /\ RowsExist(ed)
      /\ PreviewsAreGood(ed.preview, posted, peaks, disk)
  BY PreviewTypes
<1>2. ed.open /\ UNCHANGED <<outside, posted>>
      /\ \E rows \in Viewports(e) : ed' = queueVisibleSamplePreviews(e, rows)
  BY DEF Tick
<1>3. e \in Editors /\ EditorInv(e, posted, completed) /\ RowsExist(e) /\ SamePreview(ed, e)
  BY <1>1, DrainKeeps
<1> HIDE DEF e
<1>4. e.open /\ PreviewsAreGood(e.preview, posted, peaks, disk)
  BY <1>1, <1>2, <1>3 DEF SamePreview
<1>5. PICK rows \in Viewports(e) : ed' = queueVisibleSamplePreviews(e, rows)
  BY <1>2
<1>6. rows \in SUBSET DOMAIN e.visible
  BY DEF Viewports
<1>7. /\ ed' \in Editors /\ EditorInv(ed', posted, completed) /\ RowsExist(ed')
      /\ PreviewsAreGood(ed'.preview, posted, peaks, disk)
  BY <1>1, <1>3, <1>4, <1>5, <1>6, QueueKeeps
<1> QED
  BY <1>2, <1>7, PreviewWorks

LEMMA ScansKeep ==
  ASSUME BrowserInv, NEW r \in Roots, ChooseRoot(r) \/ Rescan(r)
  PROVE  BrowserInv'
<1>1. /\ ed \in Editors /\ posted \in Seq(Posts) /\ EditorInv(ed, posted, completed) /\ RowsExist(ed)
      /\ PreviewsAreGood(ed.preview, posted, peaks, disk)
  BY PreviewTypes
<1>2. /\ ed.open /\ savedRoot' = r
      /\ UNCHANGED <<disk, identity, partitions, peaks, posted, completed>>
      /\ \/ ed' = scanSampleRootFolder(ed, r)
         \/ ed' = scanSampleRootFolder(cancelSampleRootScan(ed), r)
  BY DEF ChooseRoot, Rescan
<1> DEFINE e == cancelSampleRootScan(ed)
<1>3. /\ e \in Editors /\ EditorInv(e, posted, completed) /\ RowsExist(e)
      /\ PreviewsAreGood(e.preview, posted, peaks, disk) /\ e.open
  BY <1>1, <1>2, CancelKeeps
<1> HIDE DEF e
<1>4. /\ ed' \in Editors /\ EditorInv(ed', posted, completed) /\ RowsExist(ed')
      /\ PreviewsAreGood(ed'.preview, posted, peaks, disk)
  <2>1. CASE ed' = scanSampleRootFolder(ed, r)
    BY <1>1, <1>2, <2>1, ScanKeeps
  <2>2. CASE ed' = scanSampleRootFolder(e, r)
    BY <1>1, <1>3, <2>2, ScanKeeps
  <2> QED BY <1>2, <2>1, <2>2 DEF e
<1> QED
  BY <1>2, <1>4, Handled

LEMMA CancelAction ==
  ASSUME BrowserInv, Cancel
  PROVE  BrowserInv'
<1>1. /\ ed \in Editors /\ posted \in Seq(Posts) /\ EditorInv(ed, posted, completed) /\ RowsExist(ed)
      /\ PreviewsAreGood(ed.preview, posted, peaks, disk)
  BY PreviewTypes
<1>2. /\ ed' = cancelSampleRootScan(ed)
      /\ UNCHANGED <<disk, identity, partitions, peaks, savedRoot, posted, completed>>
  BY DEF Cancel
<1>3. /\ ed' \in Editors /\ EditorInv(ed', posted, completed) /\ RowsExist(ed')
      /\ PreviewsAreGood(ed'.preview, posted, peaks, disk)
  BY <1>1, <1>2, CancelKeeps
<1> QED
  BY <1>2, <1>3, Handled DEF BrowserInv, TypeOK

LEMMA RestartKeeps ==
  ASSUME BrowserInv, restartVisibleSamplePreviews
  PROVE  BrowserInv'
<1> DEFINE e == AbandonPreviews(ed)
<1>1. /\ ed \in Editors /\ posted \in Seq(Posts) /\ EditorInv(ed, posted, completed) /\ RowsExist(ed)
      /\ PreviewsAreGood(ed.preview, posted, peaks, disk)
  BY PreviewTypes
<1>2. /\ ed.open /\ UNCHANGED <<disk, identity, partitions, peaks, savedRoot, posted, completed>>
      /\ \E rows \in Viewports(ed) : ed' = queueVisibleSamplePreviews(e, rows)
  BY DEF restartVisibleSamplePreviews
<1>3. /\ e \in Editors /\ SameScan(ed, e) /\ e.visible = ed.visible /\ RowsExist(e)
      /\ EditorInv(e, posted, completed) /\ PreviewsAreGood(e.preview, posted, peaks, disk)
  BY <1>1, AbandonKeeps
<1> HIDE DEF e
<1>4. PICK rows \in Viewports(ed) : ed' = queueVisibleSamplePreviews(e, rows)
  BY <1>2
<1>5. rows \in SUBSET DOMAIN e.visible /\ e.open
  BY <1>2, <1>3 DEF Viewports, SameScan
<1>6. /\ ed' \in Editors /\ EditorInv(ed', posted, completed) /\ RowsExist(ed')
      /\ PreviewsAreGood(ed'.preview, posted, peaks, disk)
  BY <1>1, <1>3, <1>4, <1>5, QueueKeeps
<1> QED
  BY <1>2, <1>6, Handled DEF BrowserInv, TypeOK

LEMMA FilterKeeps ==
  ASSUME BrowserInv, FilterFavorites
  PROVE  BrowserInv'
<1> DEFINE e == [ed EXCEPT !.favoritesOnly = ~@]
<1>1. /\ ed \in Editors /\ posted \in Seq(Posts) /\ EditorInv(ed, posted, completed) /\ RowsExist(ed)
      /\ PreviewsAreGood(ed.preview, posted, peaks, disk)
  BY PreviewTypes
<1>2. /\ UNCHANGED <<disk, identity, partitions, peaks, savedRoot, posted, completed>>
      /\ ed' = rebuildVisibleSampleList(e)
  BY DEF FilterFavorites
<1>3. e \in Editors /\ SameScan(ed, e) /\ SamePreview(ed, e) /\ e.list = ed.list
  BY <1>1 DEF Editors, SameScan, SamePreview
<1> HIDE DEF e
<1>4. SameRows(ed.list, e.list)
  BY <1>3 DEF SameRows, SameFiles
<1>5. EditorInv(e, posted, completed)
  BY <1>1, <1>3, <1>4, RowsTransfer
<1>6. /\ ed' \in Editors /\ EditorInv(ed', posted, completed) /\ RowsExist(ed') /\ SamePreview(e, ed')
  BY <1>1, <1>2, <1>3, <1>5, RebuildKeeps
<1>7. PreviewsAreGood(ed'.preview, posted, peaks, disk)
  BY <1>1, <1>3, <1>6 DEF SamePreview
<1> QED
  BY <1>2, <1>6, <1>7, Handled DEF BrowserInv, TypeOK

LEMMA RowEditKeeps ==
  ASSUME BrowserInv, EditRow
  PROVE  BrowserInv'
<1> DEFINE flag == [i \in DOMAIN ed.list |-> isFavorite(meta', Path(ed.list[i]))]
           e == [ed EXCEPT !.list = [i \in DOMAIN @ |-> [@[i] EXCEPT !.favorite = flag[i]]]]
<1>1. /\ ed \in Editors /\ posted \in Seq(Posts) /\ EditorInv(ed, posted, completed) /\ RowsExist(ed)
      /\ PreviewsAreGood(ed.preview, posted, peaks, disk)
  BY PreviewTypes
<1>2. /\ UNCHANGED <<disk, identity, partitions, peaks, savedRoot, posted, completed>>
      /\ ed' = rebuildVisibleSampleList(
                  [ed EXCEPT !.list = [i \in DOMAIN @ |->
                      [@[i] EXCEPT !.favorite = isFavorite(meta', Path(ed.list[i]))]]])
  BY DEF EditRow
<1>3. flag \in [DOMAIN ed.list -> BOOLEAN]
  BY DEF isFavorite, Listed
<1>4. e = [ed EXCEPT !.list = [i \in DOMAIN @ |->
                      [@[i] EXCEPT !.favorite = isFavorite(meta', Path(ed.list[i]))]]]
  OBVIOUS
<1> HIDE DEF flag
<1>5. e \in Editors /\ SamePreview(ed, e) /\ EditorInv(e, posted, completed)
  BY <1>1, <1>3, FlaggedKeeps
<1>6. ed' = rebuildVisibleSampleList(e)
  BY <1>2, <1>4
<1> HIDE DEF e
<1>7. /\ ed' \in Editors /\ EditorInv(ed', posted, completed) /\ RowsExist(ed') /\ SamePreview(e, ed')
  BY <1>1, <1>5, <1>6, RebuildKeeps
<1>8. PreviewsAreGood(ed'.preview, posted, peaks, disk)
  BY <1>1, <1>5, <1>7 DEF SamePreview
<1> QED
  BY <1>2, <1>7, <1>8, Handled DEF BrowserInv, TypeOK


\* A closed editor waits for nothing.
LEMMA CloseKeeps ==
  ASSUME BrowserInv, Close
  PROVE  BrowserInv'
<1> DEFINE s == CancelAll(ed.scan)
           p == CancelAll(ed.preview)
<1>1. /\ ed \in Editors /\ posted \in Seq(Posts) /\ EditorInv(ed, posted, completed) /\ RowsExist(ed)
      /\ PreviewsAreGood(ed.preview, posted, peaks, disk)
  BY PreviewTypes
<1>2. /\ UNCHANGED <<disk, identity, partitions, peaks, savedRoot, posted, completed>>
      /\ ed' = [ed EXCEPT !.open = FALSE, !.scan = s, !.preview = p]
  BY DEF Close
<1>3. ed.scan \in Workers(ScanJobs) /\ ed.preview \in Workers(PreviewJobs)
  BY <1>1 DEF Editors
<1>4. /\ s \in Workers(ScanJobs) /\ s.next = None /\ (s.job = None <=> ed.scan.job = None)
      /\ ed.scan.job # None =>
            /\ s.job.of = ed.scan.job.of /\ s.job.root = ed.scan.job.root
            /\ s.job.at = ed.scan.job.at /\ s.job.found = ed.scan.job.found
            /\ s.job.warm = ed.scan.job.warm /\ s.job.had = ed.scan.job.had
  BY <1>3, CancelledScan
<1>5. /\ p \in Workers(PreviewJobs) /\ p.next = None /\ (p.job = None <=> ed.preview.job = None)
      /\ ed.preview.job # None => p.job.cancelled /\ p.job.generation = ed.preview.job.generation
      /\ PreviewsAreGood(p, posted, peaks, disk)
  BY <1>1, <1>3, CancelledWork
<1> HIDE DEF s, p
<1>6. /\ ed' \in Editors /\ ~ed'.open /\ ed'.root = ed.root /\ ed'.scanning = ed.scanning
      /\ ed'.generation = ed.generation /\ ed'.delivery = ed.delivery /\ ed'.staging = ed.staging
      /\ ed'.list = ed.list /\ ed'.visible = ed.visible /\ ed'.scan = s /\ ed'.preview = p
      /\ ed'.previewGeneration = ed.previewGeneration /\ ed'.building = ed.building
  BY <1>1, <1>2, <1>4, <1>5 DEF Editors
<1>7. OneFolder(ed') /\ RowsExist(ed')
  BY <1>1, <1>6 DEF EditorInv, OneFolder, RowsExist
<1>8. Fills(ed') <=> Fills(ed)
  BY <1>4, <1>6 DEF Fills
<1>9. ScanIsNewest(ed')
  BY <1>1, <1>4, <1>6, <1>8 DEF EditorInv, ScanPart, ScanIsNewest, Fills
<1>10. ListIsWhole(ed', completed)
  BY <1>1, <1>6 DEF EditorInv, ScanPart, ListIsWhole
<1>11. ScanIsSound(ed', completed)
  BY <1>1, <1>4, <1>6, <1>8 DEF EditorInv, ScanPart, ScanIsSound, Fills
<1>12. ~Runs(ed') /\ Arrives(ed', posted) = Arrives(ed, posted)
  BY <1>5, <1>6 DEF Runs, Arrives
<1>13. OneBatch(ed', posted)
  BY <1>1, <1>5, <1>6, <1>12 DEF EditorInv, PreviewPart, OneBatch
<1>14. RowsAreServed(ed', posted)
  BY <1>6 DEF RowsAreServed
<1>15. EditorInv(ed', posted, completed)
  BY <1>7, <1>9, <1>10, <1>11, <1>13, <1>14 DEF EditorInv, ScanPart, PreviewPart
<1> QED
  BY <1>2, <1>5, <1>6, <1>7, <1>15, Handled DEF BrowserInv, TypeOK

\* An editor that lists nothing, or the whole of a scan, and asks for nothing.
LEMMA QuietEditor ==
  ASSUME NEW r \in Roots \cup {None}, NEW list \in Seq(Entries), NEW done, NEW stored, NEW files,
         Ready(r, list), Whole(r, NamesOf(list), done), \A q \in Roots : GoodStore(q, stored[q])
  PROVE  LET e == [NewEditor EXCEPT !.root = r, !.list = list]
         IN  /\ e \in Editors /\ EditorInv(e, <<>>, done) /\ RowsExist(e) /\ e.open
             /\ PreviewsAreGood(e.preview, <<>>, stored, files)
<1> DEFINE e == [NewEditor EXCEPT !.root = r, !.list = list]
<1>1. /\ e.open /\ e.root = r /\ ~e.scanning /\ e.scanning \in BOOLEAN /\ e.generation = 0 /\ e.delivery = None
      /\ e.staging = <<>> /\ e.list = list /\ e.visible = <<>> /\ ~e.building
      /\ e.previewGeneration = 0 /\ e.scan.job = None /\ e.scan.next = None
      /\ e.preview.job = None /\ e.preview.next = None
  BY DEF NewEditor, Idle
<1>2. Idle \in Workers(ScanJobs) /\ Idle \in Workers(PreviewJobs)
  BY DEF Idle, Workers
<1>3. e \in Editors
  BY <1>2, EmptySequences DEF NewEditor, Editors
<1> HIDE DEF e
<1>4. OneFolder(e)
  BY <1>1, EmptySequences DEF OneFolder, Ready
<1>5. RowsExist(e)
  BY <1>1, EmptySequences DEF RowsExist
<1>6. ScanIsNewest(e)
  BY <1>1 DEF ScanIsNewest, Fills
<1>7. ListIsWhole(e, done)
  BY <1>1 DEF ListIsWhole
<1>8. ScanIsSound(e, done)
  BY <1>1 DEF ScanIsSound, Fills
<1>9. ~Runs(e) /\ Arrives(e, <<>>) = {}
  BY <1>1, EmptySequences DEF Runs, Arrives
<1>10. OneBatch(e, <<>>)
  BY <1>1, <1>9, EmptySequences DEF OneBatch
<1>11. RowsAreServed(e, <<>>)
  BY <1>1 DEF RowsAreServed, Ready
<1>12. PreviewsAreGood(e.preview, <<>>, stored, files)
  BY <1>1, EmptySequences DEF PreviewsAreGood
<1> QED
  BY <1>1, <1>3, <1>4, <1>5, <1>6, <1>7, <1>8, <1>10, <1>11, <1>12
     DEF EditorInv, ScanPart, PreviewPart, e

LEMMA ReopenKeeps ==
  ASSUME BrowserInv, Reopen
  PROVE  BrowserInv'
<1>1. /\ PreviewsAreGood(ed.preview, posted, peaks, disk) /\ savedRoot \in Roots \cup {None}
  BY DEF BrowserInv, TypeOK
<1>2. /\ posted' = <<>> /\ UNCHANGED outside
      /\ \/ savedRoot # None /\ ed' = scanSampleRootFolder(NewEditor, savedRoot)
         \/ ed' = NewEditor
  BY DEF Reopen
<1> DEFINE e == [NewEditor EXCEPT !.root = None, !.list = <<>>]
<1>3. e = NewEditor
  <2>1. NewEditor.root = None /\ NewEditor.list = <<>>
    BY DEF NewEditor
  <2>2. NewEditor = [x \in DOMAIN NewEditor |-> NewEditor[x]]
    BY DEF NewEditor
  <2> QED BY <2>1, <2>2
<1>4. Ready(None, <<>>) /\ Whole(None, NamesOf(<<>>), completed)
  BY EmptySequences DEF Ready, Whole
<1>5. \A r \in Roots : GoodStore(r, peaks[r])
  BY <1>1 DEF PreviewsAreGood
<1>6. /\ e \in Editors /\ EditorInv(e, <<>>, completed) /\ RowsExist(e) /\ e.open
      /\ PreviewsAreGood(e.preview, <<>>, peaks, disk)
  BY <1>4, <1>5, EmptySequences, QuietEditor
<1> HIDE DEF e
<1>7. /\ ed' \in Editors /\ EditorInv(ed', <<>>, completed) /\ RowsExist(ed')
      /\ PreviewsAreGood(ed'.preview, <<>>, peaks, disk)
  <2>1. CASE ed' = NewEditor
    BY <1>3, <1>6, <2>1
  <2>2. CASE savedRoot # None /\ ed' = scanSampleRootFolder(NewEditor, savedRoot)
    <3>1. savedRoot \in Roots
      BY <1>1, <2>2
    <3> QED BY <1>3, <1>6, <2>2, <3>1, EmptySequences, ScanKeeps
  <2> QED BY <1>2, <2>1, <2>2
<1>8. TypeOK'
  BY <1>2, <1>7, EmptySequences DEF BrowserInv, TypeOK, outside
<1> QED
  BY <1>2, <1>7, <1>8 DEF BrowserInv, outside

\* The versions of a file go forward.
LEMMA FileEdits ==
  ASSUME BrowserInv, NEW r \in Roots, NEW n \in Names \cup {Deep}, EditFile(r, n)
  PROVE  BrowserInv'
<1> DEFINE last == IF IsThere(r, n) THEN disk[r][n] ELSE 0 - disk[r][n]
<1>1. /\ disk \in [Roots -> [Names \cup {Deep} -> Int]] /\ ed \in Editors
      /\ PreviewsAreGood(ed.preview, posted, peaks, disk) /\ Build \in PreviewJobs \cup {None}
  BY PreviewTypes
<1>2. /\ UNCHANGED <<identity, partitions, peaks, savedRoot, ed, posted, completed>>
      /\ \E v \in (last + 1 .. MaxVersion) \cup {0 - last} : disk' = [disk EXCEPT ![r][n] = v]
  BY DEF EditFile
<1>3. PICK v \in (last + 1 .. MaxVersion) \cup {0 - last} : disk' = [disk EXCEPT ![r][n] = v]
  BY <1>2
<1>4. disk[r][n] \in Int /\ MaxVersion \in Int
  BY <1>1, BrowserAssumption
<1>5. /\ v \in Int /\ LastVersion(disk[r][n]) <= LastVersion(v)
      /\ LastVersion(disk[r][n]) \in Int /\ LastVersion(v) \in Int
  BY <1>4 DEF IsThere, LastVersion
<1> HIDE DEF last
<1>6. disk' \in [Roots -> [Names \cup {Deep} -> Int]]
  BY <1>1, <1>3, <1>5
<1>7. \A q \in Roots : \A m \in Names : disk'[q][m] = IF q = r /\ m = n THEN v ELSE disk[q][m]
  BY <1>1, <1>3
<1>8. ASSUME Build # None, Build.at = "build"
      PROVE  Build.stamp <= LastVersion(disk'[Asked.root][Asked.name])
  <2>1. Build.requests # <<>> /\ Build.stamp <= LastVersion(disk[Asked.root][Asked.name])
    BY <1>1, <1>8 DEF PreviewsAreGood, Build, Asked
  <2>2. Asked.root \in Roots /\ Asked.name \in Names /\ Build.stamp \in Nat
    BY <1>1, <1>8, <2>1, AskedIs, BuildType
  <2>3. CASE Asked.root = r /\ Asked.name = n
    BY <1>5, <1>7, <2>1, <2>2, <2>3
  <2>4. CASE ~(Asked.root = r /\ Asked.name = n)
    BY <1>7, <2>1, <2>2, <2>4
  <2> QED BY <2>3, <2>4
<1>9. PreviewsAreGood(ed.preview, posted, peaks, disk')
  BY <1>1, <1>8 DEF PreviewsAreGood, Build, Asked
<1>10. TypeOK'
  BY <1>2, <1>6 DEF BrowserInv, TypeOK
<1> QED
  BY <1>2, <1>9, <1>10 DEF BrowserInv

\* The other changes from outside: of what the user remembers, of a folder, of an index.
LEMMA OutsideKeeps ==
  ASSUME BrowserInv, \/ EditMetadata \/ ReloadMetadata
                     \/ \E r \in Roots : ReplaceRoot(r) \/ DamageIndex(r)
  PROVE  BrowserInv'
<1>1. CASE EditMetadata \/ ReloadMetadata
  BY <1>1 DEF EditMetadata, ReloadMetadata, BrowserInv, TypeOK
<1>2. ASSUME NEW r \in Roots, ReplaceRoot(r) PROVE BrowserInv'
  <2>1. /\ UNCHANGED <<disk, partitions, peaks, savedRoot, ed, posted, completed>>
        /\ \E i \in {0, 2} : identity' = [identity EXCEPT ![r] = i]
    BY <1>2 DEF ReplaceRoot
  <2>2. identity' \in [Roots -> 0 .. 2]
    BY <2>1 DEF BrowserInv, TypeOK
  <2> QED BY <2>1, <2>2 DEF BrowserInv, TypeOK
<1>3. ASSUME NEW r \in Roots, DamageIndex(r) PROVE BrowserInv'
  <2>1. /\ partitions' = Others(r)
        /\ UNCHANGED <<disk, identity, peaks, savedRoot, ed, posted, completed>>
    BY <1>3 DEF DamageIndex
  <2>2. partitions' \in Seq(Partitions) /\ PartitionsAreWhole(partitions', completed)
    BY <2>1, BrowserTypes, OthersAreWhole
  <2>3. TypeOK'
    BY <2>1, <2>2 DEF BrowserInv, TypeOK, Partitions
  <2> QED BY <2>1, <2>2, <2>3 DEF BrowserInv
<1> QED
  BY <1>1, <1>2, <1>3

LEMMA BrowserStep ==
  ASSUME BrowserInv, [Next]_vars
  PROVE  BrowserInv'
<1>1. CASE Tick
  BY <1>1, TickKeeps
<1>2. CASE PreviewCallback
  BY <1>2, CallbackKeeps
<1>3. CASE ScanWorker
  BY <1>3, LoadKeeps, WarmKeeps, OpenKeeps, FileKeeps, EndKeeps, SaveKeeps, CommitKeeps, PublishKeeps
     DEF ScanWorker
<1>4. CASE PreviewWorker
  BY <1>4, PreviewLoadKeeps, PreviewStampKeeps, PreviewBuildKeeps, PreviewEndKeeps DEF PreviewWorker
<1>5. CASE \E r \in Roots : ChooseRoot(r) \/ Rescan(r)
  BY <1>5, ScansKeep
<1>6. CASE \E r \in Roots : ReplaceRoot(r) \/ DamageIndex(r)
  BY <1>6, OutsideKeeps
<1>7. CASE \E r \in Roots, n \in Names \cup {Deep} : EditFile(r, n)
  BY <1>7, FileEdits
<1>8. CASE Cancel \/ restartVisibleSamplePreviews \/ FilterFavorites
  BY <1>8, CancelAction, RestartKeeps, FilterKeeps
<1>9. CASE Close \/ Reopen
  BY <1>9, CloseKeeps, ReopenKeeps
<1>10. CASE EditRow \/ EditMetadata \/ ReloadMetadata
  BY <1>10, RowEditKeeps, OutsideKeeps
<1>11. CASE UNCHANGED vars
  BY <1>11 DEF vars, BrowserInv, TypeOK
<1> QED
  BY <1>1, <1>2, <1>3, <1>4, <1>5, <1>6, <1>7, <1>8, <1>9, <1>10, <1>11 DEF Next


-----------------------------------------------------------------------------
(* What an earlier session left.                                           *)

LEMMA FirstIndexType ==
  ASSUME NEW r
  PROVE  FirstIndex(r) \in Seq(Files)
<1> DEFINE there == {n \in Names : <<r, n>> \in Present}
           k == Cardinality(there)
           found == SetToSeq(there)
           index == [i \in DOMAIN found |-> [name |-> found[i], version |-> 1]]
<1>1. FirstIndex(r) = index
  BY DEF FirstIndex
<1>2. IsFiniteSet(there)
  BY BrowserAssumption, FS_Subset
<1>3. k \in Nat /\ ExistsBijection(1 .. k, there)
  BY <1>2, FS_CardinalityType
<1>4. \E f \in [1 .. k -> there] : IsInjective(f)
  BY <1>3 DEF ExistsBijection, Bijection, Injection
<1>5. found \in [1 .. k -> there]
  BY <1>4 DEF SetToSeq
<1> HIDE DEF found, k
<1>6. /\ index \in [1 .. k -> Files]
  <2>1. \A i \in 1 .. k : found[i] \in Names
    BY <1>5
  <2> QED BY <1>5, <2>1 DEF Files
<1> HIDE DEF index
<1> QED
  BY <1>1, <1>3, <1>6, SeqDef

\* An editor that shows what it has scanned.
LEMMA ShownIs ==
  ASSUME NEW r \in Roots, NEW done, <<r, NamesOf(FirstIndex(r))>> \in done,
         NEW stored, NEW files, \A q \in Roots : GoodStore(q, stored[q])
  PROVE  /\ Shown(r) \in Editors /\ EditorInv(Shown(r), <<>>, done) /\ RowsExist(Shown(r))
         /\ PreviewsAreGood(Shown(r).preview, <<>>, stored, files)
<1> DEFINE index == FirstIndex(r)
           list == [i \in DOMAIN index |-> makeListEntry(r, index[i])]
           e == [NewEditor EXCEPT !.root = r, !.list = list]
<1>1. index \in Seq(Files) /\ \A i \in DOMAIN index : index[i] \in Files
  BY FirstIndexType, LenProperties, ElementOfSeq
<1>2. Shown(r) = rebuildVisibleSampleList(e)
  BY DEF Shown
<1>3. DOMAIN list = DOMAIN index /\ \A i \in DOMAIN index :
         /\ list[i] \in Entries /\ list[i].root = r /\ list[i].name = index[i].name
         /\ IsTrue(list[i]) /\ list[i].state # "queued"
  BY <1>1, ListedEntry
<1>4. list = [i \in DOMAIN index |-> list[i]]
  OBVIOUS
<1> HIDE DEF list, index
<1>5. list \in Seq(Entries) /\ Ready(r, list)
  BY <1>1, <1>3, <1>4, Relabelled DEF Ready
<1>6. NamesOf(list) = NamesOf(index)
  BY <1>3 DEF NamesOf
<1>7. Whole(r, NamesOf(list), done)
  BY <1>6 DEF Whole, index
<1>8. /\ e \in Editors /\ EditorInv(e, <<>>, done) /\ RowsExist(e) /\ e.open
      /\ PreviewsAreGood(e.preview, <<>>, stored, files)
  BY <1>5, <1>7, QuietEditor
<1> HIDE DEF e
<1>9. /\ Shown(r) \in Editors /\ EditorInv(Shown(r), <<>>, done) /\ RowsExist(Shown(r))
      /\ SamePreview(e, Shown(r))
  BY <1>2, <1>8, EmptySequences, RebuildKeeps
<1> QED
  BY <1>8, <1>9 DEF SamePreview

LEMMA BrowserStarts == Init => BrowserInv
<1> SUFFICES ASSUME Init PROVE BrowserInv
  OBVIOUS
<1>1. PICK earlier \in Earlier :
         /\ savedRoot = earlier.shown
         /\ partitions = IF earlier.indexed = None THEN <<>>
                         ELSE <<[root |-> earlier.indexed, entries |-> FirstIndex(earlier.indexed)]>>
  BY DEF Init
<1>2. earlier.shown \in Roots \cup {None} /\ earlier.indexed \in Roots \cup {None}
  BY BrowserAssumption
<1>3. /\ disk = [r \in Roots |-> [n \in Names \cup {Deep} |-> IF <<r, n>> \in Present THEN 1 ELSE 0]]
      /\ identity = [r \in Roots |-> 1] /\ peaks = [r \in Roots |-> [n \in Names |-> None]]
      /\ posted = <<>> /\ ed = (IF savedRoot = None THEN NewEditor ELSE Shown(savedRoot))
      /\ completed = {<<r, NamesOf(FirstIndex(r))>> : r \in Roots}
  BY DEF Init
<1>4. disk \in [Roots -> [Names \cup {Deep} -> Int]] /\ identity \in [Roots -> 0 .. 2]
      /\ peaks \in [Roots -> Stores]
  BY <1>3 DEF Stores
<1>5. \A r \in Roots : <<r, NamesOf(FirstIndex(r))>> \in completed
  BY <1>3
<1>6. \A r \in Roots : GoodStore(r, peaks[r])
  BY <1>3 DEF GoodStore
<1>7. partitions \in Seq(Partitions) /\ PartitionsAreWhole(partitions, completed)
  <2>1. CASE earlier.indexed = None
    BY <1>1, <2>1 DEF PartitionsAreWhole
  <2>2. CASE earlier.indexed # None
    <3> DEFINE front == [root |-> earlier.indexed, entries |-> FirstIndex(earlier.indexed)]
    <3>1. earlier.indexed \in Roots /\ partitions = <<front>>
      BY <1>1, <1>2, <2>2
    <3>2. front \in Partitions /\ <<front.root, NamesOf(front.entries)>> \in completed
      BY <1>5, <3>1, FirstIndexType DEF Partitions
    <3> HIDE DEF front
    <3> QED BY <3>1, <3>2 DEF PartitionsAreWhole
  <2> QED BY <2>1, <2>2
<1>8. /\ ed \in Editors /\ EditorInv(ed, <<>>, completed) /\ RowsExist(ed)
      /\ PreviewsAreGood(ed.preview, <<>>, peaks, disk)
  <2>1. CASE savedRoot = None
    <3> DEFINE e == [NewEditor EXCEPT !.root = None, !.list = <<>>]
    <3>1. e = NewEditor
      <4>1. NewEditor.root = None /\ NewEditor.list = <<>>
        BY DEF NewEditor
      <4>2. NewEditor = [x \in DOMAIN NewEditor |-> NewEditor[x]]
        BY DEF NewEditor
      <4> QED BY <4>1, <4>2
    <3>2. Ready(None, <<>>) /\ Whole(None, NamesOf(<<>>), completed)
      BY EmptySequences DEF Ready, Whole
    <3>3. /\ e \in Editors /\ EditorInv(e, <<>>, completed) /\ RowsExist(e)
          /\ PreviewsAreGood(e.preview, <<>>, peaks, disk)
      BY <1>6, <3>2, EmptySequences, QuietEditor
    <3> HIDE DEF e
    <3> QED BY <1>3, <2>1, <3>1, <3>3
  <2>2. CASE savedRoot # None
    <3>1. savedRoot \in Roots
      BY <1>1, <1>2, <2>2
    <3> QED BY <1>3, <1>5, <1>6, <2>2, <3>1, ShownIs
  <2> QED BY <2>1, <2>2
<1>9. TypeOK
  BY <1>1, <1>2, <1>3, <1>4, <1>7, <1>8, EmptySequences DEF TypeOK, Partitions
<1> QED
  BY <1>3, <1>7, <1>8, <1>9 DEF BrowserInv

-----------------------------------------------------------------------------
(* What follows from the invariant.                                        *)

LEMMA ListsAreWhole == BrowserInv => OnlyWholeScans
<1> SUFFICES ASSUME BrowserInv PROVE OnlyWholeScans
  OBVIOUS
<1>1. /\ ed \in Editors /\ EditorInv(ed, posted, completed) /\ PartitionsAreWhole(partitions, completed)
  BY BrowserTypes
<1>2. ASSUME ~ed.scanning, ed.list # <<>> PROVE <<ed.root, NamesOf(ed.list)>> \in completed
  <2>1. ed.delivery = None
    BY <1>1, <1>2 DEF EditorInv, ScanPart, ScanIsNewest
  <2>2. Whole(ed.root, NamesOf(ed.list), completed)
    BY <1>1, <2>1 DEF EditorInv, ScanPart, ListIsWhole
  <2>3. NamesOf(ed.list) # <<>>
    BY <1>1, <1>2, ListType, EntriesAreNamed, NamesOfProperties
  <2> QED BY <2>2, <2>3 DEF Whole
<1>3. \A i \in DOMAIN ed.list : ed.list[i].root = ed.root
  BY <1>1 DEF EditorInv, OneFolder
<1> QED
  BY <1>1, <1>2, <1>3 DEF OnlyWholeScans, PartitionsAreWhole

LEMMA PreviewsTrue == BrowserInv => PreviewsAreTrue
<1> SUFFICES ASSUME BrowserInv PROVE PreviewsAreTrue
  OBVIOUS
<1>1. /\ ed \in Editors /\ EditorInv(ed, posted, completed) /\ RowsExist(ed)
      /\ PreviewsAreGood(ed.preview, posted, peaks, disk)
  BY PreviewTypes
<1>2. Range(ed.visible) \subseteq DOMAIN ed.list
  BY <1>1 DEF RowsExist, Range
<1>3. \A i \in DOMAIN ed.list : IsTrue(ed.list[i])
  BY <1>1 DEF EditorInv, OneFolder
<1>4. \A r \in Roots : GoodStore(r, peaks[r])
  BY <1>1 DEF PreviewsAreGood
<1> QED
  BY <1>2, <1>3, <1>4 DEF PreviewsAreTrue, IsTrue, GoodStore

LEMMA WaitsAreServed == BrowserInv => EveryWaitIsServed
<1> SUFFICES ASSUME BrowserInv, ed.open PROVE
      /\ ed.scanning => ed.delivery # None /\ (ed.delivery.complete \/ LiveScans # {})
      /\ ed.building => LiveBuilds # {} \/ LivePosts # {}
      /\ \A i \in DOMAIN ed.list : ed.list[i].state = "queued" =>
            \E request \in Served : request.at = i /\ IsFor(ed.list[i], request)
  BY DEF EveryWaitIsServed
<1>1. /\ ed \in Editors /\ posted \in Seq(Posts) /\ EditorInv(ed, posted, completed)
      /\ ed.preview.next \in PreviewJobs \cup {None}
  BY PreviewTypes
<1>2. ed.scanning => ed.delivery # None /\ (ed.delivery.complete \/ LiveScans # {})
  <2> SUFFICES ASSUME ed.scanning, ~ed.delivery.complete PROVE ed.delivery # None /\ LiveScans # {}
    BY <1>1 DEF EditorInv, ScanPart, ScanIsNewest
  <2>1. ScanIsNewest(ed)
    BY <1>1 DEF EditorInv, ScanPart
  <2>2. ed.delivery # None /\ (Fills(ed) \/ ed.scan.next # None)
    BY <2>1 DEF ScanIsNewest
  <2>3. CASE Fills(ed)
    <3>1. ed.scan.job # None /\ ~ed.scan.job.cancelled /\ ed.scan.job.of = ed.delivery.of
      BY <2>1, <2>3 DEF ScanIsNewest, Fills
    <3>2. ed.scan.job \in LiveScans
      BY <3>1 DEF LiveScans, Live
    <3> QED BY <2>2, <3>2
  <2>4. CASE ed.scan.next # None
    <3>1. ed.scan.next = ScanJob(ed.root, ed.generation) /\ ed.delivery.of = ed.generation
      BY <2>1, <2>4 DEF ScanIsNewest
    <3>2. ~ed.scan.next.cancelled /\ ed.scan.next.of = ed.delivery.of
      BY <3>1 DEF ScanJob
    <3>3. ed.scan.next \in LiveScans
      BY <2>4, <3>2 DEF LiveScans, Live
    <3> QED BY <2>2, <3>3
  <2> QED BY <2>2, <2>3, <2>4
<1>3. /\ Runs(ed) => ed.preview.job \in LiveBuilds
      /\ ed.preview.next # None => ed.preview.next \in LiveBuilds
      /\ \A k \in Arrives(ed, posted) : posted[k] \in LivePosts
  <2>1. Runs(ed) => ed.preview.job \in LiveBuilds
    BY DEF Runs, LiveBuilds, Live
  <2>2. ed.preview.next # None => ed.preview.next \in LiveBuilds
    BY <1>1 DEF EditorInv, PreviewPart, OneBatch, LiveBuilds, Live
  <2>3. \A k \in Arrives(ed, posted) : posted[k] \in LivePosts
    BY DEF Arrives, LivePosts, Range
  <2> QED BY <2>1, <2>2, <2>3
<1>4. ed.building => ed.preview.next # None \/ Runs(ed) \/ Arrives(ed, posted) # {}
  BY <1>1 DEF EditorInv, PreviewPart, OneBatch
<1>5. ed.building => LiveBuilds # {} \/ LivePosts # {}
  BY <1>3, <1>4
<1>6. \A job \in LiveBuilds : Range(job.requests) \cup Range(job.results) \subseteq Served
  BY DEF Served
<1>7. \A done \in LivePosts : Range(done.results) \subseteq Served
  BY DEF Served
<1>8. ASSUME NEW i \in DOMAIN ed.list, ed.list[i].state = "queued"
      PROVE  \E request \in Served : request.at = i /\ IsFor(ed.list[i], request)
  <2>1. \A asked : Concerns(ed.list, i, asked) =>
           \E request \in Range(asked) : request.at = i /\ IsFor(ed.list[i], request)
    BY DEF Concerns, Range
  <2>2. /\ ed.building
        /\ ed.preview.next # None => \/ Concerns(ed.list, i, ed.preview.next.requests)
                                     \/ Concerns(ed.list, i, ed.preview.next.results)
        /\ Runs(ed) => \/ Concerns(ed.list, i, ed.preview.job.requests)
                       \/ Concerns(ed.list, i, ed.preview.job.results)
        /\ \A k \in Arrives(ed, posted) : Concerns(ed.list, i, posted[k].results)
    BY <1>1, <1>8 DEF EditorInv, PreviewPart, RowsAreServed
  <2>3. CASE ed.preview.next # None
    <3>1. \/ Concerns(ed.list, i, ed.preview.next.requests)
          \/ Concerns(ed.list, i, ed.preview.next.results)
      BY <2>2, <2>3
    <3>2. Range(ed.preview.next.requests) \cup Range(ed.preview.next.results) \subseteq Served
      BY <1>3, <1>6, <2>3
    <3> QED BY <2>1, <3>1, <3>2
  <2>4. CASE Runs(ed)
    <3>1. \/ Concerns(ed.list, i, ed.preview.job.requests)
          \/ Concerns(ed.list, i, ed.preview.job.results)
      BY <2>2, <2>4
    <3>2. Range(ed.preview.job.requests) \cup Range(ed.preview.job.results) \subseteq Served
      BY <1>3, <1>6, <2>4
    <3> QED BY <2>1, <3>1, <3>2
  <2>5. CASE Arrives(ed, posted) # {}
    <3>1. PICK k \in Arrives(ed, posted) : TRUE
      BY <2>5
    <3>2. Concerns(ed.list, i, posted[k].results) /\ Range(posted[k].results) \subseteq Served
      BY <1>3, <1>7, <2>2
    <3> QED BY <2>1, <3>2
  <2> QED BY <1>4, <2>2, <2>3, <2>4, <2>5
<1> QED
  BY <1>2, <1>5, <1>8

-----------------------------------------------------------------------------
\* Whatever the user, the workers and other programs do, and whenever a scan
\* or a batch of previews is cancelled, replaced or late, the browser is in
\* a state of this kind.
THEOREM BrowserInvariance == Spec => []BrowserInv
<1>1. Init => BrowserInv
  BY BrowserStarts
<1>2. BrowserInv /\ [Next]_vars => BrowserInv'
  BY BrowserStep
<1> QED
  BY <1>1, <1>2, PTL DEF Spec

\* Files, stores, the editor with its workers and posted results keep their types.
THEOREM BrowserTypeCorrect == Spec => []TypeOK
<1>1. BrowserInv => TypeOK
  BY DEF BrowserInv
<1> QED
  BY <1>1, BrowserInvariance, PTL

\* A list that no scan is filling, and a stored index, is what one scan that
\* went through found in its folder: cancelSampleRootScan() and
\* drainSampleScanResults() never leave a part or a mixture.
THEOREM OnlyWholeScansAreShown == Spec => []OnlyWholeScans
BY ListsAreWhole, BrowserInvariance, PTL

\* A preview is of the file of its row and no older than the version on
\* record, on the list and in the store, and the rows are entries of the list.
THEOREM PreviewsStayTrue == Spec => []PreviewsAreTrue
BY PreviewsTrue, BrowserInvariance, PTL

\* While the open browser says that it scans, builds or waits for the preview
\* of a row, something under way or already posted will tell it the end.
THEOREM WaitsStayServed == Spec => []EveryWaitIsServed
BY WaitsAreServed, BrowserInvariance, PTL
=============================================================================
