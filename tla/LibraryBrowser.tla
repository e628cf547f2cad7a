--------------------------- MODULE LibraryBrowser ---------------------------
(***************************************************************************)
(* The library browser of the editor: it scans a folder on a worker,       *)
(* receives the files found in batches on its timer, keeps an index of     *)
(* each folder on disk, and asks a second worker for the previews of the   *)
(* rows in view (src/plugin/PluginEditor.cpp, LibraryFileIndex.cpp and     *)
(* PeakPreviewCache.cpp).                                                  *)
(*                                                                         *)
(* A file is its root and its name; disk[r][f] is the version of its       *)
(* content, which size and modification time tell apart.  Versions go      *)
(* forward; 0 is a file that never was there, and -v one that was removed  *)
(* at version v.  Deep is a folder below the depth limit of a scan.  The   *)
(* editor is a record, so that handlers compose the way the code calls     *)
(* them; it owns both workers, each with a running job and at most one     *)
(* that waits.                                                             *)
(***************************************************************************)
EXTENDS LibraryMetadata

CONSTANTS Roots, Names, NameRank, Instruments, Deep, None,
          MaxVersion,       \* bound on the versions of a file
          MaxTick,          \* entries one timer tick takes from a delivery
          MaxPreviewBatch,  \* previews asked for at once
          maxRootPartitions,
          Present,          \* the files there at the start
          Earlier,          \* what an earlier session left
          Sessions          \* bounds on what the user and other programs do

\* Entries of a list, files of an index, and what the workers are given and give back.
Contents == [root : Roots, name : Names, version : Int]
Entries == [root : Roots, name : Names, version : Nat, favorite : BOOLEAN,
            state : {"missing", "queued", "ready", "failed", "notApplicable"},
            shown : Contents \cup {None}]
Files == [name : Names, version : Nat]
Deliveries == [of : Nat, pending : Seq(Entries), replacement : Seq(Entries),
               rollback : Seq(Entries), replacementReady : BOOLEAN, rollbackReady : BOOLEAN,
               had : BOOLEAN, complete : BOOLEAN, incomplete : BOOLEAN]
ScanJobs == [root : Roots, of : Nat, cancelled : BOOLEAN, had : BOOLEAN, identity : 0 .. 2,
             at : {"load", "warm", "open", "scan", "save", "commit", "publish"},
             warm : Seq(Files), todo : SUBSET (Names \cup {Deep}), found : Seq(Files)]
Requests == [at : Nat, root : Roots, name : Names]
Results == [at : Nat, root : Roots, name : Names, content : Contents \cup {None},
            stamp : Nat, ok : BOOLEAN]
Previews == [stamp : Nat, content : Contents]
Stores == [Names -> Previews \cup {None}]
PreviewJobs == [generation : Nat, root : Roots, requests : Seq(Requests), results : Seq(Results),
                cancelled : BOOLEAN, at : {"load", "request", "build"}, store : Stores, stamp : Nat]
Posts == [generation : Nat, results : Seq(Results)]
Workers(jobs) == [job : jobs \cup {None}, next : jobs \cup {None}]
Editors == [open : BOOLEAN, root : Roots \cup {None}, scanning : BOOLEAN, generation : Nat,
            delivery : Deliveries \cup {None}, staging : Seq(Entries), list : Seq(Entries),
            visible : Seq(Nat), favoritesOnly : BOOLEAN, previewGeneration : Nat,
            building : BOOLEAN, scan : Workers(ScanJobs), preview : Workers(PreviewJobs)]

ASSUME BrowserAssumption ==
    /\ Roots \X Names \subseteq Paths /\ Roots \subseteq Paths
    /\ Earlier \subseteq [shown : Roots \cup {None}, indexed : Roots \cup {None}]
    /\ Present \subseteq Roots \X Names
    /\ NameRank \in [Names -> Nat]
    /\ Instruments \subseteq Names /\ Deep \notin Names
    /\ MaxVersion \in Nat \ {0} /\ MaxTick \in Nat \ {0}
    /\ MaxPreviewBatch \in Nat \ {0} /\ maxRootPartitions \in Nat \ {0}
    /\ Sessions \subseteq [{"scan", "view", "edit", "change"} -> Nat]
    /\ IsFiniteSet(Names)
    /\ None \notin Roots \cup Contents \cup Previews \cup Deliveries \cup ScanJobs \cup PreviewJobs

VARIABLES disk,       \* the version of each name under each root
          identity,   \* of the folder at each root, 0 if there is none
          partitions, \* the stored indices, the one used last in front
          peaks,      \* the stored previews of each root
          meta,       \* libraryMetadata_ of the processor
          savedRoot,  \* the root folder the processor remembers
          ed,         \* the editor
          posted,     \* the callbacks a preview job has posted
          completed,  \* history: the scans that went through, with their files
          left        \* what the user and other programs may still do

vars == <<disk, identity, partitions, peaks, meta, savedRoot, ed, posted, completed, left>>
outside == <<disk, identity, partitions, peaks, meta, savedRoot, completed, left>>

Idle == [job |-> None, next |-> None]

NewEditor == [open |-> TRUE, root |-> None, scanning |-> FALSE, generation |-> 0,
              delivery |-> None, staging |-> <<>>, list |-> <<>>, visible |-> <<>>,
              favoritesOnly |-> FALSE, previewGeneration |-> 0, building |-> FALSE,
              scan |-> Idle, preview |-> Idle]

Path(entry) == <<entry.root, entry.name>>
NamesOf(entries) == [i \in DOMAIN entries |-> entries[i].name]

\* An indexed file as an entry of the list.
makeListEntry(r, indexed) ==
    [root |-> r, name |-> indexed.name, version |-> indexed.version,
     state |-> IF indexed.name \in Instruments THEN "notApplicable" ELSE "missing",
     shown |-> None, favorite |-> FALSE]

StoredAt(r) == {i \in DOMAIN partitions : partitions[i].root = r}

\* The stored indices of the other folders.
Others(r) ==
    LET kept[k \in 0 .. Len(partitions)] ==
          IF k = 0 THEN <<>>
          ELSE IF partitions[k].root = r THEN kept[k - 1] ELSE Append(kept[k - 1], partitions[k])
    IN  kept[Len(partitions)]

IsThere(r, n) == disk[r][n] > 0

-----------------------------------------------------------------------------
(* An owned worker: submit() cancels what runs and replaces what waits.    *)

CancelAll(w) ==
    [job |-> IF w.job = None THEN None ELSE [w.job EXCEPT !.cancelled = TRUE],
     next |-> None]

SubmitTo(w, job) == [CancelAll(w) EXCEPT !.next = job]

-----------------------------------------------------------------------------
(* The list and its rows.                                                  *)

refreshBrowserEntryLibraryFlags(e) ==
    [e EXCEPT !.list = [i \in DOMAIN @ |->
        [@[i] EXCEPT !.favorite = isFavorite(meta, Path(e.list[i]))]]]

\* A set of places in the order of their ranks, equal ranks in the order of the places.
Ordered(places, rank) ==
    LET before(i) == {j \in places : rank[j] < rank[i] \/ (rank[j] = rank[i] /\ j < i)}
    IN  [k \in 1 .. Cardinality(places) |-> CHOOSE i \in places : Cardinality(before(i)) = k - 1]

rebuildVisibleSampleList(e) ==
    LET shown == {i \in DOMAIN e.list : ~e.favoritesOnly \/ e.list[i].favorite}
    IN  [e EXCEPT !.visible = Ordered(shown, [i \in shown |-> NameRank[e.list[i].name]])]

Refreshed(e) == rebuildVisibleSampleList(refreshBrowserEntryLibraryFlags(e))

\* Mutant: the rows that had asked go on waiting.
AbandonPreviews_KeepsQueued(e) ==
    [e EXCEPT !.previewGeneration = @ + 1, !.preview = CancelAll(@), !.building = FALSE]

\* What every replacement of the preview work does.
AbandonPreviews(e) ==
    [e EXCEPT !.previewGeneration = @ + 1, !.preview = CancelAll(@), !.building = FALSE,
              !.list = [i \in DOMAIN @ |->
                 IF @[i].state = "queued" THEN [@[i] EXCEPT !.state = "missing"] ELSE @[i]]]

\* The list goes back to the last whole scan of this folder, or is emptied.
cancelSampleRootScan(e) ==
    IF ~e.scanning THEN e
    ELSE LET whole == e.delivery # None /\ e.delivery.rollbackReady
         IN  rebuildVisibleSampleList(AbandonPreviews(
               [e EXCEPT !.generation = @ + 1, !.scan = CancelAll(@), !.scanning = FALSE,
                         !.delivery = None, !.staging = <<>>, !.visible = <<>>,
                         !.list = IF whole THEN e.delivery.rollback ELSE <<>>]))

ScanJob(r, generation) ==
    [root |-> r, of |-> generation, cancelled |-> FALSE, at |-> "load", had |-> FALSE,
     warm |-> <<>>, todo |-> {}, found |-> <<>>, identity |-> 0]

\* A new scan.  The list of the same folder, if it is whole, is what a
\* cancellation goes back to.
scanSampleRootFolder(e, r) ==
    LET quiet == AbandonPreviews(e)
        kept == IF ~e.scanning /\ e.root = r THEN quiet.list ELSE <<>>
        generation == e.generation + 1
    IN  [quiet EXCEPT
            !.generation = generation, !.root = r, !.scanning = TRUE,
            !.list = <<>>, !.visible = <<>>, !.staging = <<>>,
            !.delivery = [of |-> generation, pending |-> <<>>, replacement |-> <<>>,
                          replacementReady |-> FALSE, rollback |-> kept,
                          rollbackReady |-> kept # <<>>, had |-> FALSE,
                          complete |-> FALSE, incomplete |-> FALSE],
            !.scan = SubmitTo(@, ScanJob(r, generation))]

-----------------------------------------------------------------------------
(* drainSampleScanResults(), on every timer tick.  The replacement is      *)
(* staged until the last of it has arrived.                                *)

Least(a, b) == IF a < b THEN a ELSE b
FirstOf(entries) == SubSeq(entries, 1, Least(MaxTick, Len(entries)))
Rest(entries) == SubSeq(entries, Least(MaxTick, Len(entries)) + 1, Len(entries))

\* Entries found so far join the list; the rows are rebuilt for the first of
\* them, and grow with the list unless a filter is on.
AppendFound(e, found) ==
    LET grown == [e EXCEPT !.list = @ \o found]
        new == [i \in DOMAIN found |-> Len(e.list) + i]
    IN  CASE found = <<>> -> e
          [] found # <<>> /\ e.list = <<>> -> Refreshed(grown)
          [] found # <<>> /\ e.list # <<>> ->
               IF e.favoritesOnly THEN grown ELSE [grown EXCEPT !.visible = @ \o new]

\* The end of a scan; one that stopped early goes back to the rollback.
FinishScan(e, d) ==
    LET back == IF d.rollbackReady THEN d.rollback
                ELSE IF d.had THEN e.list ELSE <<>>
    IN  Refreshed([e EXCEPT !.delivery = None, !.scanning = FALSE,
                            !.staging = IF d.incomplete THEN <<>> ELSE @,
                            !.list = IF d.incomplete THEN back ELSE @])

drainSampleScanResults(e) ==
    IF e.delivery = None THEN e
    ELSE LET d == e.delivery
             found == FirstOf(d.pending)
             replacing == Rest(d.pending) = <<>> /\ d.replacementReady
             staged == IF replacing THEN e.staging \o FirstOf(d.replacement) ELSE e.staging
             last == replacing /\ Rest(d.replacement) = <<>>
             rest == [d EXCEPT !.pending = Rest(@),
                               !.replacement = IF replacing THEN Rest(@) ELSE @,
                               !.replacementReady = @ /\ ~last]
             shown == [AppendFound(e, found) EXCEPT
                          !.staging = IF last THEN <<>> ELSE staged,
                          !.list = IF last THEN staged ELSE @,
                          !.delivery = rest]
         IN  IF rest.complete /\ rest.pending = <<>> /\ ~rest.replacementReady
             THEN FinishScan(shown, rest)
             ELSE shown

-----------------------------------------------------------------------------
(* Previews of the rows in view.                                           *)

Request(e, at) == [at |-> at, root |-> e.list[at].root, name |-> e.list[at].name]

\* One batch at a time, for the rows chosen; rows that have a preview, or
\* have asked for one, are passed over.
queueVisibleSamplePreviews(e, rows) ==
    IF e.root = None \/ e.building THEN e
    ELSE LET wanted == {at \in {e.visible[row] : row \in rows} : e.list[at].state = "missing"}
             order == Ordered(wanted, [at \in wanted |-> at])
             requests == [i \in DOMAIN order |-> Request(e, order[i])]
         IN  IF wanted = {} THEN e
             ELSE [e EXCEPT
                    !.building = TRUE,
                    !.list = [at \in DOMAIN @ |->
                        IF at \in wanted THEN [@[at] EXCEPT !.state = "queued"] ELSE @[at]],
                    !.preview = SubmitTo(@,
                        [generation |-> e.previewGeneration, root |-> e.root,
                         requests |-> requests, results |-> <<>>, cancelled |-> FALSE,
                         at |-> "load", store |-> [n \in Names |-> None], stamp |-> 0])]

Viewports(e) == {rows \in SUBSET DOMAIN e.visible : Cardinality(rows) <= MaxPreviewBatch}

\* The result of a request on the entry it was for.
Answered(entry, result) ==
    IF result.ok
    THEN [entry EXCEPT !.version = result.stamp, !.shown = result.content, !.state = "ready"]
    ELSE [entry EXCEPT !.state = "failed"]

IsFor(entry, result) == entry.root = result.root /\ entry.name = result.name

\* Mutant: a result lands on whatever entry is at its place.
TakeResult_ByPlace(list, result) ==
    IF result.at \in DOMAIN list
    THEN [list EXCEPT ![result.at] = Answered(@, result)]
    ELSE list

\* A result whose place now holds another file is dropped.
TakeResult(list, result) ==
    IF result.at \in DOMAIN list /\ IsFor(list[result.at], result)
    THEN [list EXCEPT ![result.at] = Answered(@, result)]
    ELSE list

TakeResults(list, results) ==
    LET taken[k \in 0 .. Len(results)] ==
          IF k = 0 THEN list ELSE TakeResult(taken[k - 1], results[k])
    IN  taken[Len(results)]

-----------------------------------------------------------------------------
(* The timer, the posted callbacks and the user.                           *)

Spend(kind) == left[kind] > 0 /\ left' = [left EXCEPT ![kind] = @ - 1]

\* timerCallback(): the scan is drained, and previews are asked for at its
\* end and while the browser is shown.
Tick ==
    /\ ed.open
    /\ LET drained == drainSampleScanResults(ed)
       IN  \E rows \in Viewports(drained) : ed' = queueVisibleSamplePreviews(drained, rows)
    /\ UNCHANGED <<outside, posted>>

PreviewCallback ==
    /\ posted # <<>>
    /\ posted' = Tail(posted)
    /\ LET done == Head(posted)
           taken == [ed EXCEPT !.list = TakeResults(@, done.results),
                               !.building = FALSE]
       IN  IF ~ed.open \/ done.generation # ed.previewGeneration THEN UNCHANGED ed
           ELSE \E rows \in Viewports(taken) : ed' = queueVisibleSamplePreviews(taken, rows)
    /\ UNCHANGED outside

\* chooseSampleRootFolder() scans without cancelling what runs; Refresh and
\* the bookmarks cancel first.
ChooseRoot(r) ==
    /\ ed.open /\ identity[r] # 0 /\ Spend("scan")
    /\ ed' = scanSampleRootFolder(ed, r)
    /\ savedRoot' = r
    /\ UNCHANGED <<disk, identity, partitions, peaks, meta, posted, completed>>

Rescan(r) ==
    /\ ed.open /\ identity[r] # 0 /\ Spend("scan")
    /\ r = ed.root \/ Listed(meta.bookmarks, r)
    /\ ed' = scanSampleRootFolder(cancelSampleRootScan(ed), r)
    /\ savedRoot' = r
    /\ UNCHANGED <<disk, identity, partitions, peaks, meta, posted, completed>>

Cancel ==
    /\ ed.open /\ ed.scanning /\ Spend("scan")
    /\ ed' = cancelSampleRootScan(ed)
    /\ UNCHANGED <<disk, identity, partitions, peaks, meta, savedRoot, posted, completed>>

\* selectedRowsChanged(): the previews start again around the selection.
restartVisibleSamplePreviews ==
    /\ ed.open /\ ed.visible # <<>> /\ Spend("view")
    /\ \E rows \in Viewports(ed) :
          ed' = queueVisibleSamplePreviews(AbandonPreviews(ed), rows)
    /\ UNCHANGED <<disk, identity, partitions, peaks, meta, savedRoot, posted, completed>>

FilterFavorites ==
    /\ ed.open /\ Spend("view")
    /\ ed' = rebuildVisibleSampleList([ed EXCEPT !.favoritesOnly = ~@])
    /\ UNCHANGED <<disk, identity, partitions, peaks, meta, savedRoot, posted, completed>>

\* The editor's window closes: its destructor cancels both workers and waits.
Close ==
    /\ ed.open /\ Spend("scan")
    /\ ed' = [ed EXCEPT !.open = FALSE, !.scan = CancelAll(@), !.preview = CancelAll(@)]
    /\ UNCHANGED <<disk, identity, partitions, peaks, meta, savedRoot, posted, completed>>

\* A new editor scans the folder the processor remembers.  A callback for
\* the old one finds it gone.
Reopen ==
    /\ ~ed.open /\ ed.scan.job = None /\ ed.preview.job = None
    /\ ed' = IF savedRoot # None /\ identity[savedRoot] # 0
             THEN scanSampleRootFolder(NewEditor, savedRoot) ELSE NewEditor
    /\ posted' = <<>>
    /\ UNCHANGED outside

\* An edit of the metadata of a row is followed by a refresh of the list.
EditRow ==
    /\ ed.open /\ Spend("edit")
    /\ \E row \in DOMAIN ed.visible :
          LET path == Path(ed.list[ed.visible[row]])
          IN  \/ \E favorite \in BOOLEAN : meta' = setFavorite(meta, path, favorite)
              \/ \E tags \in SUBSET Tags : meta' = setTags(meta, path, tags)
              \/ meta' = markRecent(meta, path)
    /\ ed' = rebuildVisibleSampleList(
                [ed EXCEPT !.list = [i \in DOMAIN @ |->
                    [@[i] EXCEPT !.favorite = isFavorite(meta', Path(ed.list[i]))]]])
    /\ UNCHANGED <<disk, identity, partitions, peaks, savedRoot, posted, completed>>

\* A file loaded from elsewhere, in any spelling; a bookmark set or removed.
EditMetadata ==
    /\ Spend("edit")
    /\ \/ \E path \in Paths \ Roots : meta' = markRecent(meta, path)
       \/ ed.root # None /\ meta' = addBookmark(meta, ed.root)
       \/ \E r \in Roots : Listed(meta.bookmarks, r) /\ meta' = removeBookmark(meta, r)
    /\ UNCHANGED <<disk, identity, partitions, peaks, savedRoot, ed, posted, completed>>

\* A host project is stored and restored.
ReloadMetadata ==
    /\ Spend("edit")
    /\ meta' = fromValueTree(toValueTree(meta))
    /\ UNCHANGED <<disk, identity, partitions, peaks, savedRoot, ed, posted, completed>>

-----------------------------------------------------------------------------
(* The file system, changed by other programs.                             *)

EditFile(r, n) ==
    /\ Spend("change")
    /\ LET last == IF IsThere(r, n) THEN disk[r][n] ELSE 0 - disk[r][n]
       IN  \E v \in (last + 1 .. MaxVersion) \cup {0 - last} :
              /\ v # disk[r][n]
              /\ disk' = [disk EXCEPT ![r][n] = v]
    /\ UNCHANGED <<identity, partitions, peaks, meta, savedRoot, ed, posted, completed>>

\* The folder goes away, or another takes its name.
ReplaceRoot(r) ==
    /\ Spend("change")
    /\ \E i \in {0, 2} \ {identity[r]} : identity' = [identity EXCEPT ![r] = i]
    /\ UNCHANGED <<disk, partitions, peaks, meta, savedRoot, ed, posted, completed>>

\* A stored index is damaged: load() refuses the whole of it.
DamageIndex(r) ==
    /\ Spend("change") /\ StoredAt(r) # {}
    /\ partitions' = Others(r)
    /\ UNCHANGED <<disk, identity, peaks, meta, savedRoot, ed, posted, completed>>

-----------------------------------------------------------------------------
(* The scan worker.  It fills the delivery it was given, which the editor  *)
(* may have let go of.                                                     *)

Job == ed.scan.job
Attached == ed.delivery # None /\ ed.delivery.of = Job.of

\* What a step makes of the job and of its delivery.
ScanStep(job, delivery) ==
    ed' = [ed EXCEPT !.scan.job = job,
                     !.delivery = IF Attached THEN delivery ELSE @]

\* The worker takes the job that waits; load() counts as a use of the index.
ScanLoad ==
    /\ Job = None /\ ed.scan.next # None
    /\ LET job == ed.scan.next
           used == StoredAt(job.root)
           stored == partitions[CHOOSE i \in used : TRUE]
           entries == IF used = {} THEN <<>> ELSE stored.entries
       IN  /\ partitions' = IF used = {} THEN partitions ELSE <<stored>> \o Others(job.root)
           /\ ed' = [ed EXCEPT
                !.scan = [job |-> [job EXCEPT !.warm = entries, !.had = entries # <<>>,
                                              !.at = IF entries = <<>> THEN "open" ELSE "warm"],
                          next |-> None],
                !.delivery.had = entries # <<>>]
    /\ UNCHANGED <<disk, identity, peaks, meta, savedRoot, completed, left, posted>>

\* Mutant: the rollback is ready as soon as it has an entry.
ScanWarm_ReadyEarly ==
    /\ Job # None /\ Job.at = "warm"
    /\ LET entry == makeListEntry(Job.root, Head(Job.warm))
           last == Tail(Job.warm) = <<>>
           d == ed.delivery
       IN  IF Job.cancelled THEN ScanStep(None, d)
           ELSE ScanStep([Job EXCEPT !.warm = Tail(@), !.at = IF last THEN "open" ELSE @],
                         [d EXCEPT !.pending = Append(@, entry),
                                   !.rollback = IF d.rollbackReady THEN @ ELSE Append(@, entry),
                                   !.rollbackReady = TRUE])
    /\ UNCHANGED <<outside, posted>>

\* A batch of the stored index, shown at once and kept for a rollback.
ScanWarm ==
    /\ Job # None /\ Job.at = "warm"
    /\ LET entry == makeListEntry(Job.root, Head(Job.warm))
           last == Tail(Job.warm) = <<>>
           d == ed.delivery
       IN  IF Job.cancelled THEN ScanStep(None, d)
           ELSE ScanStep([Job EXCEPT !.warm = Tail(@), !.at = IF last THEN "open" ELSE @],
                         [d EXCEPT !.pending = Append(@, entry),
                                   !.rollback = IF d.rollbackReady THEN @ ELSE Append(@, entry),
                                   !.rollbackReady = @ \/ last])
    /\ UNCHANGED <<outside, posted>>

\* A scan that stops early drops what a cold one has delivered.
Incomplete ==
    ScanStep(None, [ed.delivery EXCEPT !.replacement = <<>>, !.replacementReady = FALSE,
                                       !.pending = IF Job.had THEN @ ELSE <<>>,
                                       !.incomplete = TRUE, !.complete = TRUE])

\* scanRootIncrementally(): the folder is opened and its identity noted.
ScanOpen ==
    /\ Job # None /\ Job.at = "open"
    /\ IF identity[Job.root] = 0 THEN Incomplete
       ELSE ScanStep([Job EXCEPT !.at = "scan", !.todo = Names \cup {Deep},
                                 !.identity = identity[Job.root]], ed.delivery)
    /\ UNCHANGED <<outside, posted>>

SameRoot == identity[Job.root] = Job.identity

\* What the folder holds and the scan has not seen.
Unseen == IF identity[Job.root] = 0 THEN {} ELSE {n \in Job.todo : IsThere(Job.root, n)}

\* The next item of the folder, in any order; a cold scan shows what it
\* finds.  A folder replaced meanwhile, or too deep, ends it.
ScanFile ==
    /\ Job # None /\ Job.at = "scan"
    /\ \E n \in Unseen :
          LET indexed == [name |-> n, version |-> disk[Job.root][n]]
              entry == makeListEntry(Job.root, indexed)
          IN  IF Job.cancelled \/ n = Deep \/ ~SameRoot THEN Incomplete
              ELSE ScanStep([Job EXCEPT !.todo = @ \ {n}, !.found = Append(@, indexed)],
                            IF Job.had THEN ed.delivery
                            ELSE [ed.delivery EXCEPT !.pending = Append(@, entry)])
    /\ UNCHANGED <<outside, posted>>

ScanEnd ==
    /\ Job # None /\ Job.at = "scan" /\ (Unseen = {} \/ Job.cancelled)
    /\ IF Job.cancelled \/ ~SameRoot
       THEN Incomplete /\ UNCHANGED completed
       ELSE /\ ScanStep([Job EXCEPT !.at = "save"], ed.delivery)
            /\ completed' = completed \cup {<<Job.root, NamesOf(Job.found)>>}
    /\ UNCHANGED <<disk, identity, partitions, peaks, meta, savedRoot, left, posted>>

\* The index in front, and no more than the limit beside it.
pruneIndexPartitions(stored) == SubSeq(stored, 1, Least(maxRootPartitions, Len(stored)))

\* saveCompletedScan() up to its last look at the cancellation flag.
ScanSave ==
    /\ Job # None /\ Job.at = "save"
    /\ ScanStep(IF Job.cancelled THEN None
                ELSE [Job EXCEPT !.at = IF SameRoot THEN "commit" ELSE "publish"], ed.delivery)
    /\ UNCHANGED <<outside, posted>>

\* The temporary file takes the place of the index, or the write fails.
ScanCommit ==
    /\ Job # None /\ Job.at = "commit"
    /\ \/ UNCHANGED partitions
       \/ partitions' = pruneIndexPartitions(
              <<[root |-> Job.root, entries |-> Job.found]>>
              \o Others(Job.root))
    /\ ScanStep([Job EXCEPT !.at = "publish"], ed.delivery)
    /\ UNCHANGED <<disk, identity, peaks, meta, savedRoot, completed, left, posted>>

\* A warm scan replaces the list in one piece.
ScanPublish ==
    /\ Job # None /\ Job.at = "publish"
    /\ IF Job.cancelled THEN ScanStep(None, ed.delivery)
       ELSE ScanStep(None, [ed.delivery EXCEPT
                !.replacement = IF Job.had
                                THEN [i \in DOMAIN Job.found |->
                                         makeListEntry(Job.root, Job.found[i])] ELSE @,
                !.replacementReady = Job.had,
                !.complete = TRUE])
    /\ UNCHANGED <<outside, posted>>

-----------------------------------------------------------------------------
(* The preview worker.  A stored preview is used while the size and time   *)
(* of its file are those it was stored with.                               *)

Build == ed.preview.job
BuildStep(job) == ed' = [ed EXCEPT !.preview.job = job]
Asked == Head(Build.requests)

\* The worker takes the job that waits and loads the stored previews.
PreviewLoad ==
    /\ Build = None /\ ed.preview.next # None
    /\ LET job == ed.preview.next
       IN  ed' = [ed EXCEPT !.preview =
             [job |-> [job EXCEPT !.store = peaks[job.root], !.at = "request"], next |-> None]]
    /\ UNCHANGED <<outside, posted>>

Result(content, stamp, ok) ==
    [at |-> Asked.at, root |-> Asked.root, name |-> Asked.name,
     content |-> content, stamp |-> stamp, ok |-> ok]

WithResult(job, result) ==
    [job EXCEPT !.results = Append(@, result), !.requests = Tail(@), !.at = "request"]

\* A request: its file's size and time are read, and a stored preview that
\* is of that version is the result.
PreviewStamp ==
    /\ Build # None /\ Build.at = "request" /\ Build.requests # <<>>
    /\ LET now == disk[Asked.root][Asked.name]
           stored == Build.store[Asked.name]
       IN  BuildStep(
             CASE Build.cancelled -> None
               [] ~Build.cancelled /\ now <= 0 -> WithResult(Build, Result(None, 0, FALSE))
               [] ~Build.cancelled /\ now > 0 /\ stored # None /\ stored.stamp = now ->
                    WithResult(Build, Result(stored.content, now, TRUE))
               [] ~Build.cancelled /\ now > 0 /\ (stored = None \/ stored.stamp # now) ->
                    [Build EXCEPT !.at = "build", !.stamp = now, !.store[Asked.name] = None])
    /\ UNCHANGED <<outside, posted>>

\* buildPreviewAndMetadata(): the content is read later than its stamp.
PreviewBuild ==
    /\ Build # None /\ Build.at = "build"
    /\ LET now == disk[Asked.root][Asked.name]
           content == [root |-> Asked.root, name |-> Asked.name, version |-> now]
           ok == ~Build.cancelled /\ now > 0
           done == WithResult(Build, Result(content, Build.stamp, ok))
       IN  BuildStep(IF ok THEN [done EXCEPT !.store[Asked.name] =
                                   [stamp |-> Build.stamp, content |-> content]]
                     ELSE done)
    /\ UNCHANGED <<outside, posted>>

\* The previews are stored and the results posted, unless cancelled.
PreviewEnd ==
    /\ Build # None /\ Build.at = "request" /\ Build.requests = <<>>
    /\ IF Build.cancelled THEN UNCHANGED <<peaks, posted>>
       ELSE /\ peaks' = [peaks EXCEPT ![Build.root] = Build.store]
            /\ posted' = Append(posted, [generation |-> Build.generation,
                                         results |-> Build.results])
    /\ BuildStep(None)
    /\ UNCHANGED <<disk, identity, partitions, meta, savedRoot, completed, left>>

-----------------------------------------------------------------------------
FirstIndex(r) ==
    LET found == SetToSeq({n \in Names : <<r, n>> \in Present})
    IN  [i \in DOMAIN found |-> [name |-> found[i], version |-> 1]]

\* An editor that has scanned a root whole.
Shown(r) ==
    LET index == FirstIndex(r)
    IN  rebuildVisibleSampleList(
          [NewEditor EXCEPT !.root = r,
                            !.list = [i \in DOMAIN index |-> makeListEntry(r, index[i])]])

\* Earlier scans may have left an index, and a list that is shown.
Init ==
    /\ disk = [r \in Roots |-> [n \in Names \cup {Deep} |->
                                   IF <<r, n>> \in Present THEN 1 ELSE 0]]
    /\ identity = [r \in Roots |-> 1]
    /\ peaks = [r \in Roots |-> [n \in Names |-> None]]
    /\ meta = EmptyMetadata /\ posted = <<>>
    /\ \E earlier \in Earlier :
          /\ savedRoot = earlier.shown
          /\ partitions = IF earlier.indexed = None THEN <<>>
                          ELSE <<[root |-> earlier.indexed, entries |-> FirstIndex(earlier.indexed)]>>
    /\ ed = IF savedRoot = None THEN NewEditor ELSE Shown(savedRoot)
    /\ completed = {<<r, NamesOf(FirstIndex(r))>> : r \in Roots}
    /\ left \in Sessions

ScanWorker == \/ ScanLoad \/ ScanWarm \/ ScanOpen \/ ScanFile \/ ScanEnd
              \/ ScanSave \/ ScanCommit \/ ScanPublish
PreviewWorker == PreviewLoad \/ PreviewStamp \/ PreviewBuild \/ PreviewEnd

Next ==
    \/ Tick \/ PreviewCallback \/ ScanWorker \/ PreviewWorker
    \/ \E r \in Roots : ChooseRoot(r) \/ Rescan(r) \/ ReplaceRoot(r) \/ DamageIndex(r)
    \/ \E r \in Roots, n \in Names \cup {Deep} : EditFile(r, n)
    \/ Cancel \/ restartVisibleSamplePreviews \/ FilterFavorites \/ Close \/ Reopen
    \/ EditRow \/ EditMetadata \/ ReloadMetadata

Spec == Init /\ [][Next]_vars

-----------------------------------------------------------------------------
\* What the list shows when no scan runs, and what is stored as the index of
\* a folder, is what one scan that went through found in that folder: never
\* part of one, a mixture of two or of two folders
\* (cancelSampleRootScan(), drainSampleScanResults(), saveCompletedScan()).
OnlyWholeScans ==
    /\ (~ed.scanning /\ ed.list # <<>>) =>
          /\ \A i \in DOMAIN ed.list : ed.list[i].root = ed.root
          /\ <<ed.root, NamesOf(ed.list)>> \in completed
    /\ \A i \in DOMAIN partitions :
          <<partitions[i].root, NamesOf(partitions[i].entries)>> \in completed

\* A preview on a row is of the file of that row, however the list changed
\* while it was built, and neither the row nor the stored preview takes an
\* older content for the version it has on record.  A row on screen is always
\* an entry of the list (queueVisibleSamplePreviews() does not look).
PreviewsAreTrue ==
    /\ Range(ed.visible) \subseteq DOMAIN ed.list
    /\ \A i \in DOMAIN ed.list : ed.list[i].state = "ready" =>
          /\ ed.list[i].shown.root = ed.list[i].root
          /\ ed.list[i].shown.name = ed.list[i].name
          /\ ed.list[i].version <= ed.list[i].shown.version
    /\ \A r \in Roots, n \in Names : peaks[r][n] # None =>
          peaks[r][n].stamp <= peaks[r][n].content.version

Live(jobs) == {job \in jobs : job # None /\ ~job.cancelled}
LiveScans == {job \in Live({ed.scan.job, ed.scan.next}) : job.of = ed.delivery.of}
LiveBuilds == {job \in Live({ed.preview.job, ed.preview.next}) :
                  job.generation = ed.previewGeneration}
LivePosts == {done \in Range(posted) : done.generation = ed.previewGeneration}
Served == UNION ({Range(job.requests) \cup Range(job.results) : job \in LiveBuilds}
                 \cup {Range(done.results) : done \in LivePosts})

\* Whoever waits is waited on: while the browser says that it scans, a scan
\* that nobody cancelled is under way or has ended; while it says that it
\* builds previews, and asks for no others, a batch of them is under way or
\* its results are posted; and each row that shows "queued" is part of it
\* (sampleScanInProgress_, samplePreviewBuildInProgress_, previewState).
EveryWaitIsServed == ed.open =>
    /\ ed.scanning => ed.delivery # None /\ (ed.delivery.complete \/ LiveScans # {})
    /\ ed.building => LiveBuilds # {} \/ LivePosts # {}
    /\ \A i \in DOMAIN ed.list : ed.list[i].state = "queued" =>
          \E request \in Served : request.at = i /\ IsFor(ed.list[i], request)
=============================================================================
