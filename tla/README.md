# Audiocity: a formal model

Audiocity is a sampler (a JUCE VST3 plug-in and a standalone program). This directory holds TLA+
specifications of the parts of it whose correctness depends on the order in which threads, events
or user actions happen, or on many small rules meeting in one place; the TLC runs that check them
on small instances; and proofs, checked by TLAPS, of the most important results for instances of
every size. Paths such as `PluginProcessor.cpp` are below `src/src/plugin` or `src/src/engine`.

Run a check with `tlc -config MCNoteEngine.cfg MCNoteEngine.tla`, or, where the component needs no
instance module, with `tlc -config MCBackgroundImport.cfg BackgroundImport.tla`; a proof with
`tlapm PublicationProofs.tla`. `PROJECT.json` lists every run, theorem, mapped definition,
hazard and finding.

## 1. The system

Threads: the **message thread** (editor, loading, most writes), the **audio thread**
(`processBlock`), one **stream worker** per processor, and the editor's three background workers
(import, sample scan, previews). `docs/02-real-time-rules.md` says who owns what; the audio thread
takes no lock and never allocates, so everything it shares is an atomic, a ring or a snapshot cell.

| Component | State | Operations | Talks to |
|---|---|---|---|
| Snapshot cell (`RtSnapshotCell.h`) | current pointer, owners in limbo, per role a hazard, a depth and two window flags | `read`, `release`, `publish`, `reclaim` | holds programs, sample segments and preview samples: written by the message thread, read by the audio thread, the stream worker and the message thread |
| Owned job worker (`OwnedJobWorker.h`) | pending entry, the active job's cancellation flag, stopping flag | `submit`, `cancelAll`, `shutdown`, `run` | the editor owns three of them |
| Background import (`PluginEditor.cpp`, `PluginInstrumentWorkspace.cpp`) | generation, in-progress flag, the owed completion, the captured and the previous sound | load, choose, cancel, deliver, restore, close | submits jobs to a worker, posts callbacks to the message queue, publishes through the processor |
| Note engine (`EngineCore.cpp`, `VoicePool.cpp`) | pending events, recovery flag, voices, publication generations seen | enqueue, sort, dispatch, start, steal, retarget, choke, release, render a segment, panic | gets notes from the FIFO and the host, zones from the published program |
| Zone selection (`EngineCore.cpp`) | a cursor per round robin group | choose the zones of a note | called by the note engine |
| Audition FIFOs and panic latch (`PluginProcessor.cpp`) | three rings of 256, the latch, two preview flags | push, pop, panic, start and stop previews, the early part of `processBlock` | message thread to audio thread (notes), audio thread to editor (controllers, external notes) |
| Disk stream page cache (`EngineCore.cpp`) | a slot of one request, cached pages, ring of retained states | request, service, look up | audio thread asks, stream worker and mapping edits load |
| Imported program store and mapping edits (`ImportedProgramStore.cpp`, `ProgramMappingModel.cpp`) | program, its path, whether it is of slices; the editor's rows and sliders | 20 edits of zones, groups, samples and slices, delayed apply, save, load | publishes to the engine |
| Undo history (`PluginEditor.cpp`) | two stacks, a coalescing key, a limit | record, undo, redo | settings and mappings |
| Project state and presets (`PluginProcessor.cpp`) | the source, its flags, region, shape and pads; state trees | load each kind of source, save, reopen, load a preset, roll back, restore the previous sound | resolver, codec, program store |
| Asset resolver, audio codec (`ImportedAssetResolver.cpp`, `AudioStateCodec.cpp`) | none between calls | find a folder that holds an instrument; refuse audio that cannot be kept | called by save and restore |
| Input capture (`PluginProcessor.cpp`) | storage, recording flag, count of audio readers, sample count | start, stop, trim, cut, silence, normalise, preview, load, clear | audio thread writes, message thread edits and releases |
| Sample scan and previews (`PluginEditor.cpp`, `LibraryFileIndex.cpp`, `PeakPreviewCache.cpp`) | list, folder, generations, indices and previews on disk | choose, refresh, cancel, drain, preview | two workers |
| Library metadata (`LibraryMetadata.cpp`) | favourites, recent files, bookmarks, tags, two indices | set, touch, tag, save and load | browser, host project |
| SFZ importer and exporter | none between calls | read, expand, inherit, build; write | background job, save |
| Importers of other formats | none between calls | DecentSampler, SoundFont 2, Bitwig, Ableton, 1010music, TAL, Renoise, disting EX, Korg KMP, Logic EXS, NKI, NN-XT, REX, plain audio | background job, or the message thread on restore |
| DecentSampler exporter, slicing | copies of samples on disk; none | export; slice a sample | importer of the same format; mapping editor |
| Signal processing, editor pages, tools | none that matters to control | | |

What makes the code hard: pointers handed over without a lock while readers nest; jobs that are
cancelled while their callback is already queued; an event queue that overflows inside a block;
voices that outlive the program or the mode they were started under; rings whose producer moves
the consumer's position or frees what a reader follows; one request slot for all the voices of a
sample; a preview that keeps the engine from running; numbers (zones, groups, assets) that name a
place in a list other edits move; a sound that is published in parts, each of which resets some of
what the next restores; files that move between saving and opening; formats that share samples by
number and inherit settings over four levels.

What correctness means, component by component:

* cell: no guard outlives its snapshot; nested guards agree; memory is bounded;
* worker: only the newest job proceeds; nothing runs after the join; no lost wakeup; shutdown returns;
* import: a cancelled load leaves no trace; one answer per load, and always one; restore goes back
  to a sound that was heard before the load;
* note engine: no stuck notes, whatever overflowed; choke groups exclusive; a note-on is heard;
  voices never outlive their program; every zone of a group gets its turn;
* FIFOs: in order, only the oldest is lost; a panic is taken and what it silenced stays silent;
* stream cache: a pointer that is followed has an owner; a voice that waits is served;
* mapping: zones and groups fit each other after any sequence of edits; undo gives back what was heard;
* project state: reopening gives back what was saved; a failed preset changes nothing; the previous
  sound and the present one swap; no instrument in part;
* capture: takes do not mix; storage is used by one thread; what is loaded is what was shown;
* browser: what is listed comes from one whole scan; a preview is of its file; nobody waits in vain;
* formats: a zone plays the file it names, with the settings it inherits; saved libraries reopen.

## 2. Modules

| Module | Role |
|---|---|
| `SnapshotRegister` | abstract: a register whose old values live as long as somebody holds them |
| `RtSnapshotCell` | the cell, one seq_cst access per step; implements `SnapshotRegister` |
| `JobService` | abstract: one active job, one waiting, submit cancels |
| `OwnedJobWorker` | mutex, condition variable, owner and worker thread; implements `JobService` |
| `BackgroundImport` | the import, composed with an INSTANCE of `JobService`, and the replacement history |
| `NoteEngine` | blocks, queue, dispatch and voices |
| `DropOldestQueue` | abstract: a queue that loses its oldest event to make room |
| `MidiFifo` | the ring behind the three FIFOs; implements `DropOldestQueue` unless a pop overlaps the making of room |
| `AuditionPath` | extends `MidiFifo` with the panic latch, previews and the first part of `processBlock` |
| `StreamPrimeCache` | request slot, the two servicers, published state and the ring of its owners |
| `ProgramMapping`, `MappingSession` | the edits of a program as operators; the editor's session with them |
| `SavedSound`, `ProjectState` | the processor's handlers for a sound as operators; a session with files that move |
| `InputCapture` | takes, edits and the handshake with the audio thread |
| `LibraryMetadata`, `LibraryBrowser` | metadata as operators; the browser, its two workers and the disk |
| `ZoneSelection` | zones of a note and the cursors of round robin |
| `SfzFormat`, `SfzLibrary` | opcodes to zones and back; reading lines, importing, playing, saving, reopening |
| `MidiRanges`, `ImportedZones` | key ranges; what all importers of other formats build |
| `DecentSampler`, `SoundFont`, `XmlMultisample`, `BinaryMultisample`, `NkiProbe`, `SlicePrograms` | one module per family of formats |
| `ForeignLibrary` | the life of an instrument of such a format: load, publish, save, load again |
| `PublicationProofs` | the theorems of `RtSnapshotCell` and `StreamPrimeCache`, the two ways a pointer reaches the audio thread |
| `HandoffProofs` | the theorems of `OwnedJobWorker` and `AuditionPath`, the two ways work is handed to another thread |
| `...Proofs` | the theorems of `BackgroundImport`, `NoteEngine`, `MappingSession`, `ProjectState`, `InputCapture`, `LibraryBrowser` |
| `MC...` | instances for TLC, of the modules whose constants a `.cfg` cannot write down; three of them set two systems that share no state beside each other: `MCHandoffs` the worker and the audition path, `MCAudioBuffers` the capture and the stream cache, `MCInstrumentFiles` `SfzLibrary` and `ForeignLibrary` |

A definition named `X_Something` with the comment "Mutant:" is a wrong variant of `X`, kept beside
it to show that a property notices the mistake. It takes no part in the specification.

### RtSnapshotCell

Each role of `RtReaderRole` is a process with a program counter through `Reader`'s constructor
(`Announce`, `Enter`, `LoadCurrent`, `PublishHazard` or `ReuseHazard`, `FinishAcquire`) and
`release()` (`BeginRelease` to `LowerReleasing`). The writer is another (`Own`, `StoreCurrent`, and
the sweep `ProbeAcquiring` to `FinishSweep`). The class demands one thread per role
(`RtSnapshotCell.h:98`); message-role guards and publishes run on one thread in the program, and the
model allows more interleavings than that. Addresses are reused once their owner was erased, so an
ABA reuse is in the state space. All accesses in the code are seq_cst, so interleaving of single
steps is the right memory model.

### OwnedJobWorker, JobService

A critical section is a step; `notify_one` comes after it and reaches the worker only if it sleeps;
`condition_.wait` may wake for no reason; the job may return at any moment or run on until its flag
is set. The owner is one thread: submitting while another thread shuts down is not in the contract.

### BackgroundImport

A handler of the message thread is a step, including everything it calls:
`startBackgroundInstrumentLoad` cancels and answers the previous load and may capture the sound in
the same step. The job's check, preparation and post are steps of the worker, interleaved with them.
Posted callbacks are a set: JUCE delivers in order for one thread, and the set allows every order,
which is more. A sound is abstracted to the load it came from, the change that brought its source
and its last edit, which is what the properties tell apart; `played`, a history no action reads, is
what has sounded since the newest load was asked for. Preparing may succeed, fail, or give a program
that the engine rejects when it is published.

### NoteEngine

A block goes through controls, notes of the user interface, latch, notes of the host, read of the
published sample, read of the published program, and then segments. A program selects zones by note,
velocity and round robin: the model gives for every note the set of selections possible
(`AttackZones`, `ReleaseZones`) and chooses. A voice keeps its note, its held flag, whether a
note-off releases it, its envelope (on or releasing), choke group, whether a program's zone or the
single sample feeds it, a level and a start order; `since`, a history no action reads, says whether
a sample or a program was published after it was given its sound. Levels and ends of samples are
chosen freely when a segment sounds. Start orders are kept as ranks, since the code only compares
them. `Publish` may happen between any two steps of a block. `at` is how far a block has come: the
offset of the last event of the host put in, and then the frame rendered next.

### MidiFifo, AuditionPath

All loads and stores of push and pop are steps, and so are the accesses of a slot. A full push loads
the read position once more and stores it one further. In `AuditionPath` the message thread pushes
notes, panics (stop the previews, then set the latch), and starts and stops previews; `processBlock`
checks the two preview flags, returns early when one is set, else drains, exchanges the latch and
renders. Notes are told apart by the order of their pushes, and a note sounds until a panic, so that
a replayed or reordered note shows. `overlapped`, a history no action reads, remembers that room was
made while a pop was in progress, until the ring has run empty with no push in progress.

### StreamPrimeCache

The audio thread loads the published pointer, looks its page up and, when it is not there, leaves a
request in the slot; loading and following the pointer are steps of their own. A servicer takes the
request, drops it if its start is cached by now, reads a window, which may fail, builds a state with
the page added, and publishes it in three steps: index, pointer, owner. States live at addresses that
are used again once nobody owns them. The servicers are the stream worker and the message thread: a
mapping edit asks for the start of each zone as a voice does and then services the source itself
(`setProgramMetadata()`, `EngineCore.cpp:1489`), step by step beside the worker. `collided`, a history
no action reads, remembers that two servicers were following or replacing the published state at
once, which the comment at `EngineCore.cpp:744` rules out and the code does not (section 5).

### ProgramMapping, MappingSession

An operation of `ProgramMappingModel` is an operator that gives the set of its results, empty when
it is refused. `MappingSession` is the page: it keeps the rows and sliders made of the program at
the last refresh, the edit that the sliders will apply 250 ms after they rest, and the history of
settings and mappings, which coalesces entries of one kind. The host may restore another program
between any two callbacks, and the editor learns of it at its next refresh. Of a zone the model keeps
asset, group, keys, root, window, loop and gain, since the other fields are copied as they are.
History values that no action reads say what a property compares with: `origin` is the program as it
was loaded, `library` counts the programs loaded, `trusted` says that the zones loaded fitted their
samples and that none came from another program, and an entry of the history carries the program it
was made in and the `sound` of its zones.

### SavedSound, ProjectState

A processor is a record and each handler an operator from processors to processors, composed as the
code calls them: loading a file clears the program, the store and the flags, sets the region to the
length and resets the shape; a restore publishes the source and then sets what was saved, clamped.
Files lie in folders and are whole, broken or absent there; a moved file is found again when a root
that is known, or that the user picks, holds all of it. What cannot be encoded is left out of a tree.
Every saved tree carries the sound heard when it was saved, a history value no action reads.

### InputCapture

The audio thread announces itself as a reader, looks at the flag, writes a block, counts it and
leaves, in steps of their own. A call of the page takes the flag down, waits for readers and then
does its work on the storage. With `delayed` a store of the flag may reach the audio thread later
than the message thread's next load, which is what release and acquire allow; without it stores are
seen in order. A cell of the storage says of which take and which moment it is.

### LibraryMetadata, LibraryBrowser

The browser's two workers have a running job and one that waits; a scan lists its folder file by
file, may be told to stop at any of them, and takes what it can from the index of an earlier one;
a batch of previews reads files that may change meanwhile. Lists are drained by the timer in
batches. The folder on disk changes between any two steps. Size and modification time tell the
contents of a file apart and are modelled as a version that goes forward, also over a removal: a
program that puts back an older time is not in the model.

### ZoneSelection, SfzFormat, SfzLibrary

What an SFZ file says is chosen when it is first read, line by line: headers, opcodes, includes of
other files and of itself, variables. The import is cancellable between lines. Opcodes end in zones
and groups as `SfzImporter.cpp` builds them; the program is then played, which moves the cursors,
saved, and opened again. The two hashes of random round robin are constants, given their real values.

### ForeignLibrary and the formats

A document is its elements, chunks or tables after tokenising; a module turns each into assets,
groups and zones with the importer's order of steps, its ways to pass over an element, its sharing
of samples and its limits. `ForeignLibrary` looks files up as the code does (beside the document, in
the folder a user chose, by base name where the format says so), publishes through the worker's path
or the message thread's, saves as DecentSampler, with copies that get fresh names and an export that
may fail after any copy, and loads again. A disting EX file is read line by line, by the worker and by
the message thread, which compare and store one static number (`ReadLine`, `StoreIndex`); `crossed`, a
history no action reads, remembers that both were reading at once. The other importers keep what they
read to themselves, so that each is one step.

## 3. Runs

Deadlock is checked in every run but those whose bounds end a behaviour while the program itself
would go on (`audio_buffers`, `mapping_session`, `project_state`, `capture_race`, `instrument_files`).

| Run | Bounds | Distinct states | What it shows |
|---|---|---|---|
| `snapshot_cell` | 2 roles, 4 addresses, nesting 2 | 1,386,323 | guards protect, a sweep keeps at most the current snapshot and one per role, refinement |
| `handoffs` | worker: 4 jobs; FIFO: 3 slots, 4 events, 2 panics, 2 previews | 343,527 | only the newest job proceeds, wakeups, shutdown, refinement; the ring drops its oldest event until a pop overlaps the making of room; the latch is pending until its notes are silent, and is taken |
| `background_import` | 4 loads, 1 edit or change | 553,950 | no trace of a cancelled load, one answer and always one, Restore goes back to a sound that played since the load was asked for |
| `note_engine` | 2 keys, 2 voices, queue of 3 with a reserve of 1, blocks of 1, 2 and 3 (too large), five settings | 1,168,552 | overflow leaves no stuck note and loses no release, choke groups, note-ons heard, voices never play into another program |
| `full_queue` | 3 slots, 4 events, 1 panic, 1 preview | violation, a trace of 22 states | a finding, below |
| `audio_buffers` | capture: 3 frames, 2 takes, both orders of stores; stream: sample of 5, window of 2, 2 pages, ring of 3, 5 addresses, worker and 1 edit | 1,059,012 | takes do not mix, the selection shown is loaded, waits end; pointers have owners unless servicers collide; a voice that stays is served |
| `stream_servicers` | the same stream | violation, a trace of 17 states | a finding, below |
| `mapping_session` | 2 edits, 3 zones, 2 history entries, keys 0 and 3, points 1 and 3 | 368,842 | zones and groups fit, undo is exact, slices keep their audio |
| `project_state` | 7 sources of every kind, 3 folders, 5 steps of loading, editing, saving and moving | 693,009 | reopening, rollback of a preset, Restore, no instrument in part |
| `capture_race` | the same capture, stores delayed | violation, a trace of 10 states | a finding, below |
| `library` | 2 folders, 2 names and a second spelling, five kinds of session | 1,131,846 | only whole scans, previews of their files, no wait in vain |
| `instrument_files` | SFZ: 3 lines of 11 kinds in 2 files, 2 imports, 2 notes; others: 30 documents, 2 loads, 2 saves | 983,027 | inheritance, round trips, round robin, sharing of samples, slices |

Why the bounds suffice. *Cell:* two roles and four addresses give every pattern of current, hazarded
and reused address, and one address more than a sweep may keep (`1 + NumRoles`); nesting of two is
what distinguishes outer and inner guards. *Jobs and loads:* four allow one delivered, one queued,
one active and one waiting at once, and a submit that replaces both. *Notes:* the queue of three
with a reserve of one has room for one event of every class and overflows in every order. The
constraint `Region` explores two situations: programs with one event at a time, where what matters
is carried from block to block, and a full queue with the single sample and one voice. Layers that
share two choke groups in opposite order, a missing sample, an empty selection and a release zone
exercise each branch of the dispatch, and with two voices a layered note steals. *FIFO:* four events
fill and overflow a ring of three places (two events) and wrap it. Pops overlap the making of room,
and `overlapped` tells where. Two panics are needed for one requested while an earlier one is being
taken. *Stream:* five samples in windows of two have two whole windows and a tail, which is moved
back into the one before it; two pages evict; a ring of three and uses that span up to two
publications meet at the limit; five addresses are the three of the ring and one that each servicer
builds. In both runs of two systems one of them moves, chosen at the start (`system`), and the other
rests: they share no variable, so no behaviour is lost. *Mapping:* a program with a looped zone in a
group and a free zone of another sample, two slices, and an empty library; two edits of any kind
give an edit and one that undoes, shifts or merges what it made, with a limit of two on the history
to reach dropping. One slider is moved at a time. *Project:* five steps are enough to load, edit,
save, move and open. *Capture:* a take is longer than a block and a block may be cut at the end of
the storage. *Browser:* each kind of session exhausts one pair of causes (two scans, a scan and
previews, a scan and a change on disk, a scan and an edit of metadata, edits alone), since all of
them together are beyond TLC. *Formats:* three SFZ lines are header, region and one thing that meets
them; each importer has at least one document for each of its ways to pass over, share or limit,
among them one that is damaged, one whose sample is missing and one larger than `Capacity`. The two
halves of this run do not move at once: `SfzFiles` runs while nothing of the other kind was loaded,
and conversely. Two loads are enough for one in the worker beside one on the message thread.

### Fairness

`OwnedJobWorker`: the worker thread runs and every job ends, by itself or at a cancellation check
(every job of the editor polls its flag); the owner's call goes on to notify and join. No fairness
on the owner's decisions. `BackgroundImport`: the worker runs, the message loop runs each posted
callback (JUCE does not drop them), and the join of the destructor returns. `AuditionPath`: the host
keeps calling `processBlock`, a call of the message thread returns, and a file's preview ends after
finitely many blocks (strong fairness, as other blocks come in between); a generated wave's preview
loops until it is stopped, so nothing is assumed of it and `PanicIsTaken` says so.
`StreamPrimeCache`: the audio thread goes on with a look-up it has begun, the worker services what
it finds and an edit returns; nothing forces a voice to move, and `SettledVoiceIsServed` speaks of
one that stays. `InputCapture`: blocks go on, the waiting call looks again, and a delayed store
arrives. The other specifications have no fairness. The browser's liveness is stated as a state
invariant, `EveryWaitIsServed`: whoever shows that it waits has a job, a result or a cancellation on
its way.

## 4. Proofs

Proved for every number of roles, addresses, guards, jobs, loads, notes, voices, layers, slots,
events, panics, pages, sounds, zones, edits, history entries, files, folders, frames, takes, scans
and previews.

**The cell** (`PublicationProofs`), from `RolesAssumption`, `NullAssumption`, `DepthAssumption`.
`GuardedNeverReclaimed` is not inductive: it says nothing of a reader between its load of `current`
and its store of the hazard. `IInv` adds what closes that gap. `DepthCounts` and `FlagsTell` tie the
depth and flags to where a role is, so that a role whose flag the writer saw low is not between the
two; `HazardCovers` makes the hazard stand for all guards of a role; `Owned` says that whatever can
still be dereferenced has an owner; `ProbedLoadsCurrent` is the heart: a slot the writer has probed
in this sweep can only have loaded what is current now, since the writer is the only one to change
it; `MatchProgress` says that the owner being compared is in no slot compared so far. A reader that
stores a hazard behind the writer's back therefore stores the current snapshot, which a sweep never
frees. From it: `Invariance`, `TypeCorrect`, `Safety`, `Nesting`, and `Refinement`, which maps each
step to a step of `SnapshotRegister` or a stutter (a guard counts from the load of its pointer).
`Retention`, that memory is bounded, counts: by `SweepKeeps` what a sweep has kept so far is the
current owner or was the hazard of a role when the sweep began, because a guard that comes while it
runs holds what is current; and one hazard for each role is no more owners than roles.

**The worker** (`HandoffProofs`), from `JobsAssumption`. `IInv` is `WorkerTypeOK`; `EntryHasFlag`:
the flag that `submit` sets belongs to the job at work; `JobsInOrder`: what waits is the newest and
not cancelled, and a job at work that is not cancelled is the newest with nothing waiting; `Stopped`:
after `shutdown` has begun nothing waits and what runs is cancelled. From it: `WorkerInvariance`,
`NewestOnly`, `JoinedIsQuiet`, `WorkerRefinement`.

**The import** (`BackgroundImportProofs`), from `ImportAssumption`. That a cancelled load leaves no
trace needs to know where a load can be: `InOnePlace` says that it waits, is at work, is posted, or is
none of these, and that it has at most one result posted; `Numbered`, that no number is used before
its turn; `NewestIsOwed`, that the newest in flight is the one whose answer is owed, because every
cancellation moves the generation on; `SoundsWereRun`, that the current, captured and previous sounds
come from loads answered as run; `PendingWasPlayed`, that the captured sound was playing since the
load was asked for. From it: `NoTrace`, `AnsweredOnce`, `PlayedIsKept`, and `UsesTheService`: every
step of the editor and the job is a step of `JobService` or a stutter, so that the theorems of the
worker carry over to what the import relies on.

**The notes** (`NoteEngineProofs`), from `NoteAssumption`. Each property has its own invariant, on
top of `TypeOK` and `Positioned`. `ChokeGroupsExclusive` is inductive, because a start chokes before
it strikes and what silences or thins the pool keeps it exclusive. `NoteOnSounds` follows from
`StartStrikes`: whatever slot a layer takes, free or stolen, becomes a voice of its own note, so
that layers which steal from each other still leave the last, with its envelope on; a voice that
mono legato takes over from its release is the one exception, named by `TakenOver`.
`VoicesFollowProgram` needs `ProgramFollowed`: what was published since a voice was given its sound
has not been read, so that reading it, which stops every voice, comes before any segment that plays
by it. `NoStuckNotes` needs the most. `NotesOwed` says that every voice that waits for its note-off
has its key down or an end queued behind the cursor, and that the same holds for every note-on still
queued, or else a recovery is pending; `QueueInOrder`, that the queue is in the order of offsets, so
that rendering never passes over an event, and that a full queue which asks for a recovery holds
nothing but releases, since `enqueueEvent` throws out a plain event to make room for a release.
`NoNoteIsStuck` has the hypothesis `[]EventsFit`, that a block larger than the engine was prepared
for is without events: the code returns from such a block with its queue untouched (section 5), and
a host that keeps to the size it announced sends none. Sorting and the search for a voice are folds
and choices in the code's order; the proofs go through ranks (`RanksAreUnique`, `SortedIsQueue`,
`SortedInOrder`) and recursive functions, and induct over finite sets by means of the least
counterexample (`Least`, `SetInduction`, `Iterate`). From them: `TypesHold`, `OneNotePerChokeGroup`,
`NoteOnIsHeard`, `OneProgramPerBlock`, `ReleasesStayQueued`, `NoNoteIsStuck`.

**The FIFO and the latch** (`HandoffProofs`), from `FifoAssumption` and `PathAssumption`. Until a
pop overlaps the making of room the ring is in order: `PopIsOldest` says that a pop in progress
holds the place and, once copied, the value of the oldest event; `RoomIsMade`, that a push that
found the ring full holds the position it will move, with no pop in between; `InOrder`, that events
waiting are in the order of their pushes. `Behind` says that what sounds, or sounded at a panic, is
older than what waits, so that what a panic is for does not come again; once a pop has overlapped, a
note that the ring delivers twice sounds anew and is no longer one the panic was for. The latch
itself then holds in every behaviour. Ring arithmetic comes down to `Remainder`, from which the
backlog is shown to lose its head or gain a tail. From it: `Invariance`, `PanicIsRemembered`, and
`Refinement`: every step is one of `DropOldestQueue` or a stutter while `overlapped` is false.

**The stream cache** (`PublicationProofs`), from `SizeAssumption`, `RingAssumption`,
`AddressAssumption`, for any set of servicers. Until two of them collide, `Alone` says that at most one
follows or replaces the published state; `PublishedPlace` gives the place in the ring of that state in
each phase of a publication; `HeldPlace`, that a pointer loaded `age` publications ago is `age` places
back, which is less than the ring's size. From it: `StreamInvariance`, `PointersLive`.

**The mapping** (`MappingSessionProofs`), from `MappingAssumption` and `SessionAssumption`.
`SessionInv` has three parts. `StoreOK`: the program is one, whose zones name assets and groups that
are there, they fit if they are `trusted`, and `GroupCoversZones`. `ViewOK`: what the rows show may
be of an older program and is no more than typed, but each row selected is there and the sliders are
set, so that an edit made from a stale row still has the fields `applyProgramZoneEdit` reads.
`HistoryOK`: an entry made in this program keeps a state whose assets and groups the program has,
and which sounds and fits as it did (`OfProgram`). That survives every edit, because none removes an
asset or a group or changes one's sample. So the proof needs one relation: each operation leads to a
program that `Evolves` from the one before. It keeps groups and assets and may add assets, its zones
fit if those before did, and a group's range is made tight or stays with zones of the ranges they
had. One lemma for each operation shows it (`EditsEvolve`, `Created`, `Duplicated`, `Deleted`,
`SplitByKeyEvolves`, `RemapEvolves`, `SpreadEvolves`, `SliceSplit`, `SliceMerged`, `Restored`...),
on lemmas on clamping a window and a loop (`Windowed`, `Looped`), on recomputing ranges
(`Recomputed`) and on sorting by rank (`Ordered`). Slices need what cutting one zone in two, or
joining two that meet, leaves of the samples covered (`CutAnew`, `Sliced`). From it:
`SessionInvariance`, `ZonesStayWellFormed`, `UndoStaysTrue`, `SliceEditsStayTrue`. The proof
corrected the model: an earlier `ZonesAreWellFormed` claimed that zones fit their samples in every
program, which is not so of a window that an importer did not clamp, nor after an undo into another
program of the same path (section 5). No instance then checked had such a program. `trusted` says
where it does hold.

**The session** (`ProjectStateProofs`), from `AudioAssumption`. `SoundInv` says that the parts of a
processor agree (`Consistent`): the store remembers the program that plays, a flag vouches for the
audio that is shown, a path names it, the region lies inside it. `SessionInv` adds that each saved
tree was made of such a processor. The one corner is a recording put back over an instrument, which
goes on playing: `OverlayOK` says how it can come about and `Refuses` which trees the session can put
by for Restore beside it. The proofs go handler by handler: what each way of publishing leaves
(`PublishFile`, `PublishProgram`, `PublishOver`), what a tree keeps (`StateTree`), what a restore
makes of a tree, source by source in the code's order (`SourceOutcome`), and `Regained`, that a tree
restored where its files are gives the sound it was made of. From them: `SoundsAgree`,
`WholeInstruments`, `ProjectsComeBack`, `FailedPresetsRollBack`, `PreviousSoundsComeBack`.

**The capture** (`InputCaptureProofs`), from `CaptureAssumption`, for stores seen in order.
`Announced` ties the reader count and the flag to where the two threads are; `Exclusion` is the
handshake: the flag goes down before the wait and a block announces itself before it looks, so one of
them sees the other; `CellsOK` and `WrittenIsWhole` say that what is counted was written, is of the
last take and in the order it came, through every edit. From it: `TakesAreWhole` and
`WriterHasStorageInOrder`: the property that `capture_race` violates holds if both accesses are
sequentially consistent. What the page shows does not depend on the order of stores: `PageInv` says
that it shows the head of the storage and that its selection lies inside, also while a call waits for
readers, and gives `PageShowsTake` and `LoadsAreSelections` for every behaviour.

**The browser** (`LibraryBrowserProofs`), from `BrowserAssumption`: names are finitely many, and
`None` is none of the things it stands beside. The three properties speak of a browser at rest, of
rows that are ready and of flags; what makes them true is spread over the list, the delivery, a
running and a waiting scan, a running and a waiting batch of previews, posted results and the
stores. `BrowserInv` says it of an editor `e`, so that one lemma for each handler
(`cancelSampleRootScan`, `scanSampleRootFolder`, `drainSampleScanResults`,
`queueVisibleSamplePreviews`...) serves all actions that call it. `OneFolder`: the list and all that
may join or replace it are of the folder shown. `ScanIsNewest`: the job that fills the delivery is
the newest, is not cancelled while the editor is open, and one that waits has not begun.
`ListIsWhole`: once a scan has marked its end, what the list will be when that is drained (what is
staged with what is to replace it, the list with what is pending, or the rollback) is a scan that
went through; `ScanIsSound`: what a cold scan has found is what the list shows with what is pending,
and what a warm one has put by, with what it has still to read, is the stored index. A
`rollbackReady` one batch too early breaks the last of these. `PreviewsAreGood`: a result or stored
preview is of the file asked for and has a stamp no newer than its content, because the stamp is
read first and versions go forward. `OneBatch`: at most one batch, running, waiting or posted, has
the current generation, and there is one whenever the editor says so; `RowsAreServed`: each row that
waits is among its requests or results at its own place, which is why a list may only be replaced
after `AbandonPreviews`, or by one in which nothing is queued. Sequences filtered, ranked and folded
are treated as recursive functions with the lemmas on them (`Others`, `Ordered`, `TakeResults`).
From it: `BrowserTypeCorrect`, `OnlyWholeScansAreShown`, `PreviewsStayTrue`, `WaitsStayServed`.

Only model-checked:

* every liveness property: the prover has neither fairness nor ENABLED;
* the type of the library's metadata in `LibraryBrowser`: a restored project folds over its tree, and
  nothing proved of the browser depends on what the metadata hold;
* `SfzLibrary` and `ForeignLibrary`: the importers walk documents recursively, and what such a
  definition computes for every document needs induction over data, for which the library's
  theorems take an operator that the installed provers cannot instantiate. No module that has a
  theorem reaches a recursive operator.

## 5. Where the code and its documents part

Three runs are expected to fail.

`capture_race`: `clearInputCapture()` takes the recording flag down with a release store and then
reads the number of readers with an acquire load (`PluginProcessor.cpp:4694`). Neither orders the
one against the other, so that the load may find no reader before the store is seen; a block then
announces itself, still sees the flag raised, and writes storage that is being released.
ENHANCEMENT_ROADMAP_2026-09-05.md:59 says "bounded buffers exist only while armed and release after
clear/commit" and :229 "publish its storage to the audio thread".

`full_queue`: the comment at `PluginProcessor.cpp:5294` says "If full, drop oldest by advancing read
pos", and a full push moves the consumer's read position (5296, and 5320 for the notes). When the
consumer drains the ring between the producer's comparison and its load, the position is moved past
the end of an empty ring, and the event just pushed is lost; when two full pushes fall within a pop,
it stores an older position over theirs, and the whole backlog is lost. Two pops between the load
and the store of a full push are undone, and an event comes twice.

`stream_servicers`: the comment at `EngineCore.cpp:744` says "Only one thread ever calls
publishCacheState() on a given instance at a time" and calls the worker "the single serialized caller
of servicePendingPrime() thereafter". A mapping edit calls it on the message thread
(`EngineCore.cpp:1490`) for the sources of the published program, which the worker services: the index
of the ring and its owners are written by two threads, and what one of them, or a voice, still follows
loses its owner.

The following were met while modelling. Where a property would contradict one of them, its comment
says what it leaves out.

*Import and history.*
The sound that Restore goes back to is captured when a load is asked for; edits made while it is
prepared are not in it (`PluginEditor.cpp:8008`; USER_GUIDE.md:83, "It includes unsaved settings and
mappings."). Slicing, restoring, a new empty instrument and "Use sample" leave a pending import
running (`PluginInstrumentWorkspace.cpp:707`; USER_GUIDE.md:35, "Starting another source workflow
cancels a pending import."). `publishPreparedBackgroundImport` replaces the display sample although
the program is rejected after it (`PluginProcessor.cpp:3927`).

*Notes.*
In mono legato a new note takes over a voice that is releasing and dies with it (`EngineCore.cpp:3542`;
06-roadmap.md:72, "Gate (plays while held)"). A one-shot voice keeps its rule when the mode changes
(`EngineCore.cpp:2403`). A block larger than prepared is left silent while its events stay queued
(`EngineCore.cpp:1804`). Notes of the host do not reach the engine while a preview plays
(`PluginProcessor.cpp:1309`). A random cycle that would begin with the zone the last one ended with is
moved on at its first position only, and then plays one zone twice and another not at all, in cycles
that the test does not meet (`ProgramSnapshot.h:511`; OfflineRenderTests.cpp:6715 asserts that each
zone plays once in every cycle).

*FIFOs, previews, capture.*
A note pushed after the drain and before the exchange of the latch, followed by a panic, sounds in
the next block (`PluginProcessor.cpp:1353`; PresetRuntimeSmoke.cpp:1116, a panic "must still clear
both the queued requests and live voices"). The end of a file preview, stored by the audio thread,
may stop the next preview (`PluginProcessor.cpp:5723`). A take stopped and started again within one
block is a take that the audio thread does not tell apart (`PluginProcessor.cpp:1362`).

*Stream cache.* A last window that is moved back into the page before it is taken for cached when that
page is, so that a voice in the tail asks in vain until the page is evicted (`EngineCore.cpp:591`).

*Mapping.*
A second library from scratch has the path of the first, and the history is cleared only when the
path changes (`PluginEditor.cpp:6176`): undo then puts the zones of the first on the samples of the
second, with windows that may lie outside them. The window of an SFZ region is taken as the file
gives it (`SfzImporter.cpp:697`) and is clamped only when it is edited. Selecting another zone
within 250 ms sets the sliders to that zone and drops the adjustment (`PluginEditor.cpp:6771`;
USER_GUIDE.md:73, "Single-zone edits apply by themselves a moment after you stop adjusting"). An
instrument that is read again, when a project is opened or a preset rolled back, drops the zones of
samples that were added to it, which its file does not have (`ProgramMappingModel.cpp:1181`). A
project stores the mapping as it is in memory beside the path of the file it was saved to: after
zones were deleted, or a program was saved as a DecentSampler preset, that file numbers zones,
groups and assets otherwise, and zones come back with other samples or not at all
(`ImportedProgramStore.cpp:204` and 223, `ProgramMappingModel.cpp:1013`;
ENHANCEMENT_ROADMAP_2026-09-05.md:63 and 289). The runs of mappings and of files being apart, no run
shows it.

*Project state.*
A preset of a single sample, loaded over an instrument, leaves that instrument in the merged state
and playing, and is reported as loaded (`PluginProcessor.cpp:2315`). A recording put back over an
instrument leaves the instrument playing (`PluginProcessor.cpp:1995`). A project that is saved while
its instrument waits to be relinked names it no more (`PluginProcessor.cpp:1640`). Properties of
`ProjectState` leave these cases out by name, and are violated when they do not.

*Browser.*
A preview begun before its file changed overwrites the newer size and time in the list
(ENHANCEMENT_ROADMAP_2026-09-05.md:217). Entries given back when a warm scan is cancelled are without
their favourite and recent flags until a refresh. `promptForNki` and two handlers of
`PluginInstrumentWorkspace.cpp` (733, 765) note a recent file without refreshing the list.

*Formats.*
`seq_position` is written plus one and read as it is, so that a turn moves with every save
(`SfzExporter.cpp:325`; 16-library-authoring-plan.md:37, "Round-trippable"). The gain, pan and
crossfades of an SFZ group are given to the group and again to each of its zones
(`SfzImporter.cpp:570`), and a zone in a group plays with both gains (`ProgramSnapshot.h:340`). The
export writes no groups (`SfzExporter.cpp:238`): what a zone took from its group and not from an
opcode of its own is lost, and its gain counts once, against "No data loss"
(16-library-authoring-plan.md:43). `RoundTripKeepsZones` leaves both out by name (`GroupShapes`).
Positions beyond a `seq_length`, or shared by two zones, may never be played. A pan of one percent
saved as a DecentSampler preset reopens hard right, because numbers up to one are read as fractions
(ENHANCEMENT_ROADMAP_2026-05-31.md:132); sustain loops, one-shots, turns without a position and root
keys moved off the keyboard are lost on the way; an export that fails leaves its copies, and a
linear volume of 0 is imported as 0 dB. An SF2 preset's global and local generators are both added,
though "Audio Sample Library File Format Specification.md":910 has the local one replace the global
(no property speaks of the sum); two key ranges that do not meet are swapped into a range of the
keys between them (15-multisample-import-plan.md:151). The last index of a disting EX file is a
static variable, shared between threads and carried over to the next file
(`BinaryMultisampleImporters.cpp:190`): when the worker and the message thread each read one, a
number stored by the other hides the change of a sample and a zone is lost (`ZonesPlayTheirFiles`
leaves such files out, by `crossed`). Bitwig and Korg files settle for another file with the same
base name.

## 6. What is left out

* Signal processing (filters, modulation, interpolation, delay, reverb, saturation): floating-point
  arithmetic without control state.
* Layout, painting and control wiring of the editor's pages; names, colours, wording.
* `tools/PresetAuthor.cpp` and `tools/PresetAuditioner.cpp`: command-line programs that write and
  render the factory presets once, in one thread. `SettingsUndoHistory.h`, which only tests use.
* Reading bytes: tokens, XML syntax, chunk headers, the codecs' encodings. A document is given as its
  elements; a damaged one is a value of its own.
* Twins: velocity ranges follow key ranges, and crossfade, pan, tune and root opcodes follow gain,
  through every operation, so one of each pair is kept. Effects and fades of a format are dropped by
  the importers with a warning, and here.
* In `BackgroundImport` the preparation of a file is one step with an outcome; `ForeignLibrary` and
  `SfzLibrary` have its inside. In `NoteEngine` the selection of zones is a choice; `ZoneSelection`
  has its inside. In `ProjectState` the numeric parameters are one region and one shape.
* The resolver's matching by size, date and hash is one verdict per copy; the depth of its search is
  left out, as is relinking within `MappingSession`.
* Compositions that were not made: mapping edits with the stream cache (apart from the requests
  they make of it), and
  project state with the formats. Each is larger than TLC can explore together.
