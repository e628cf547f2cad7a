---------------------------- MODULE ProjectState ----------------------------
(***************************************************************************)
(* A sound on its way through a session: it is loaded, edited, saved in    *)
(* the host's project and in a preset, replaced and restored in the        *)
(* editor, and its files are moved and damaged in the meantime.  The       *)
(* handlers are those of PluginProcessor.cpp (SavedSound) and of           *)
(* src/plugin/PluginInstrumentWorkspace.cpp.                               *)
(*                                                                         *)
(* Every saved tree carries the sound that was heard when it was saved, a  *)
(* history value no action reads.                                          *)
(***************************************************************************)
EXTENDS SavedSound

CONSTANTS
    Home,           \* the folder the files lie in at first
    MaxLoads,       \* new sources taken in one behaviour
    MaxEdits,       \* edits of the current sound
    MaxMoves,       \* changes of the disk and of preset files
    MaxSaves,       \* projects and presets saved
    MaxSpent        \* all of these together

VARIABLES
    proc,       \* the processor
    disk,       \* where the files are
    project,    \* the host's project, with the sound it was saved with
    preset,     \* a preset file, likewise
    previous,   \* the editor's one-step replacement history, likewise
    spent       \* what is used up of each bound

vars == <<proc, disk, project, preset, previous, spent>>

\* What is heard, and with which settings.
Sound(p) == [heard |-> IF p.program # None THEN p.program ELSE p.audio,
             window |-> p.window, shape |-> p.shape, pads |-> p.pads]

Saved(tree) == [tree |-> tree, sound |-> Sound(proc)]

\* A loaded single sample is embedded, so that it outlives its file.
captureSoundRecovery(p) ==
    LET t == getStateInformation(p)
        asset == createPlaybackPresetXml(p).embedded
    IN  IF p.store # None \/ p.path = None \/ asset = None
        THEN t ELSE [t EXCEPT !.embedded = asset]

Init ==
    /\ proc = Fresh
    /\ disk = [f \in Files |-> [at \in Places |-> IF at = Home THEN "whole"
                                                  ELSE "missing"]]
    /\ project = None /\ preset = None /\ previous = None
    /\ spent = [loads |-> 0, edits |-> 0, moves |-> 0, saves |-> 0]

Limit == [loads |-> MaxLoads, edits |-> MaxEdits, moves |-> MaxMoves,
          saves |-> MaxSaves]

Spend(kind) ==
    /\ spent[kind] < Limit[kind]
    /\ spent.loads + spent.edits + spent.moves + spent.saves < MaxSpent
    /\ spent' = [spent EXCEPT ![kind] = @ + 1]

-----------------------------------------------------------------------------
(* A new source, after the current sound has been put by.                  *)

Replace(p) ==
    /\ Spend("loads")
    /\ previous' = Saved(captureSoundRecovery(proc))
    /\ proc' = p
    /\ UNCHANGED <<disk, project, preset>>

LoadSample == \E f \in Samples : \E at \in WholeAt(disk, f) :
    Replace(publishFile(proc, f, at))

ImportInstrument == \E f \in Libraries : \E at \in WholeAt(disk, f) :
    Replace(publishProgram(proc, f, at, WholeMap(f)))

autoSliceLoadedSample ==
    /\ proc.store = None /\ proc.path # None
    /\ proc.path.at \in WholeAt(disk, proc.path.file)
    /\ Replace(publishProgram(proc, proc.path.file, proc.path.at,
                              WholeMap(proc.path.file)))

Generate == \E w \in Waves : Replace(loadGeneratedWaveformAsSample(proc, w))

Record == \E t \in Takes : Replace(loadCapturedAudioAsSample(proc, t))

(* Edits of the current sound. *)

Edit(p) ==
    /\ Spend("edits")
    /\ p # proc
    /\ proc' = p
    /\ UNCHANGED <<disk, project, preset, previous>>

SetRegion == \E end \in 0..LastFrame(proc) : Edit(setSampleWindow(proc, end))

Shape == Edit([proc EXCEPT !.shape = "shaped", !.pads = "custom"])

WithMap(p, map) == [p EXCEPT !.program.map = map, !.store.map = map]

DeleteZones ==
    /\ proc.program # None
    /\ \E map \in (SUBSET proc.store.map) \ {{}} : Edit(WithMap(proc, map))

\* An added sample becomes an asset of the loaded program, not of its file.
AddSample ==
    /\ proc.program # None
    /\ Edit(WithMap(proc, proc.store.map \cup {Assets[proc.store.file] + 1}))

-----------------------------------------------------------------------------
(* The host. *)

SaveProject ==
    /\ Spend("saves")
    /\ project' = Saved(getStateInformation(proc))
    /\ UNCHANGED <<proc, disk, preset, previous>>

\* A project is opened in a new processor, and by a new editor.
ReopenProject ==
    /\ project # None
    /\ UNCHANGED <<disk, project, preset, spent>>
    /\ previous' = None
    /\ proc' = setStateInformation(Fresh, project.tree, disk)

(* The editor. *)

SavePreset ==
    /\ Spend("saves")
    /\ preset' = Saved(createPlaybackPresetXml(proc))
    /\ UNCHANGED <<proc, disk, project, previous>>

\* The editor keeps the current sound before it loads a preset file, and
\* puts it back when the preset's source could not be had.
replaceSoundFromPreset ==
    /\ preset # None
    /\ LET loaded == loadPlaybackPresetXml(proc, preset.tree, disk)
       IN  /\ ~RestoreFailed(loaded)
           /\ proc' = loaded
    /\ previous' = Saved(captureSoundRecovery(proc))
    /\ UNCHANGED <<disk, project, preset, spent>>

RollBackPreset_Keeps ==
    /\ preset # None
    /\ LET loaded == loadPlaybackPresetXml(proc, preset.tree, disk)
       IN  /\ RestoreFailed(loaded)
           /\ proc' = loaded
    /\ UNCHANGED <<disk, project, preset, previous, spent>>

RollBackPreset ==
    /\ preset # None
    /\ UNCHANGED <<disk, project, preset, previous, spent>>
    /\ LET loaded == loadPlaybackPresetXml(proc, preset.tree, disk)
       IN  /\ RestoreFailed(loaded)
           /\ proc' = setStateInformation(loaded, captureSoundRecovery(proc), disk)

restorePreviousSound ==
    /\ previous # None
    /\ UNCHANGED <<disk, project, preset, spent>>
    /\ previous' = Saved(captureSoundRecovery(proc))
    /\ proc' = setStateInformation(proc, previous.tree, disk)

Relink ==
    /\ proc.pending # None
    /\ \E root \in Places :
        proc' = relinkPendingImportedProgramFromFolder(proc, root, disk)
    /\ UNCHANGED <<disk, project, preset, previous, spent>>

-----------------------------------------------------------------------------
(* The world outside: files are moved, copied and damaged, and so is the   *)
(* audio inside a preset file.                                             *)

ChangeDisk(f, where) ==
    /\ Spend("moves")
    /\ disk[f] # where
    /\ disk' = [disk EXCEPT ![f] = where]
    /\ UNCHANGED <<proc, project, preset, previous>>

DamageFile == \E f \in Files : \E at \in WholeAt(disk, f) :
    ChangeDisk(f, [disk[f] EXCEPT ![at] = "broken"])

CopyFile == \E f \in Files, at \in Places :
    WholeAt(disk, f) # {} /\ ChangeDisk(f, [disk[f] EXCEPT ![at] = "whole"])

MoveFile == \E f \in Files, to \in Places : \E at \in WholeAt(disk, f) \ {to} :
    ChangeDisk(f, [disk[f] EXCEPT ![at] = "missing", ![to] = "whole"])

Broken(asset) == IF asset = None THEN None ELSE [asset EXCEPT !.whole = FALSE]

DamagePreset ==
    /\ Spend("moves")
    /\ preset # None
    /\ preset' = [preset EXCEPT !.tree.embedded = Broken(@),
                                !.tree.generated = Broken(@),
                                !.tree.captured = Broken(@)]
    /\ UNCHANGED <<proc, disk, project, previous>>

Next == \/ LoadSample \/ ImportInstrument \/ autoSliceLoadedSample \/ Generate \/ Record
        \/ SetRegion \/ Shape \/ DeleteZones \/ AddSample
        \/ SaveProject \/ ReopenProject \/ SavePreset
        \/ replaceSoundFromPreset \/ RollBackPreset \/ restorePreviousSound \/ Relink
        \/ DamageFile \/ CopyFile \/ MoveFile
        \/ DamagePreset

Spec == Init /\ [][Next]_vars

-----------------------------------------------------------------------------
\* The audio a tree names can be had: it holds it itself, or every file it
\* needs is where a restore looks, in one copy only.  A tree that names a
\* recording beside an instrument is not the tree of one sound.
InPlace(t) ==
    \/ Decodes(t.embedded)
    \/ /\ t.imported # None
       /\ t.captured = None /\ t.manifest # None
       /\ LET roots == KnownRoots \cup {t.manifest.root}
          IN  /\ roots \cap Huge = {}
              /\ Cardinality(WholeAt(disk, t.imported.file) \cap roots) = 1
       /\ t.map \subseteq WholeMap(t.imported.file)
    \/ /\ t.imported = None
       /\ IF t.path \notin {None, Absent} THEN disk[t.path.file][t.path.at] = "whole"
          ELSE Decodes(t.generated) \/ Decodes(t.captured)

\* A project opened while its files are in place gives back what was heard
\* when it was saved: the source, the mapping edits, the region, the shaping
\* and the pads, although publishing a source resets most of them.
ReopenGivesBack ==
    [][ReopenProject /\ InPlace(project.tree) => Sound(proc') = project.sound]_vars

\* When the restore of a preset ends without a source, or waits for files to
\* be relinked, the rollback leaves the sound and its settings as they were,
\* whatever became of the files of the current sound.  Left out: an
\* instrument with an added sample, which the rollback reads again without
\* it, and one a recording was put over.  Not claimed: that every preset
\* whose source cannot be had is rolled back.  The merge gives it what the
\* current sound has, and when that restores the preset counts as loaded.
FailedPresetRollsBack ==
    [][/\ RollBackPreset
       /\ proc.store # None => /\ proc.captured = None
                               /\ proc.store.map \subseteq WholeMap(proc.store.file)
       => Sound(proc') = Sound(proc)]_vars

\* Restore previous sound gives back the replaced sound with its unsaved
\* edits, and can be repeated; a single sample comes back even when its
\* file is gone, up to the limits of the codec.  A recording put back over
\* an instrument is left out: the instrument goes on playing.
RestoreSwaps ==
    [][/\ restorePreviousSound
       /\ \/ InPlace(previous.tree)
          \/ /\ previous.tree.path # None
             /\ previous.sound.heard \in Audio \ Unencodable
       /\ previous.tree.captured = None \/ proc.program = None
       => Sound(proc') = previous.sound]_vars

\* An instrument is published only from a folder that holds all its files:
\* a search never settles for a part of them.
NoPartialInstrument ==
    [][LET at(p) == IF p.store = None THEN None ELSE [file |-> p.store.file, at |-> p.store.at]
       IN  at(proc') # at(proc) /\ at(proc') # None
           => disk[proc'.store.file][proc'.store.at] = "whole"]_vars

-----------------------------------------------------------------------------
(* The inductive invariant: what the processor remembers agrees with what  *)
(* the engine plays.                                                       *)

\* No zone of the mapping plays an asset of the file itself.
Hollow(file, map) == map # None /\ map \cap WholeMap(file) = {}

\* A recording was put back over an instrument, which goes on playing.
Overlaid(p) == p.store # None /\ p.audio # p.store.file

\* A flag vouches for the audio, a path names it, and the store is the program's.
Agrees(p) ==
    /\ (p.program = None) = (p.store = None)
    /\ p.store # None => /\ p.program = [file |-> p.store.file, map |-> p.store.map]
                         /\ p.store.map # {} /\ p.audio # None
    /\ p.generated # None => p.audio = p.generated /\ p.store = None /\ p.path = None /\ p.captured = None
    /\ p.captured # None => p.audio = p.captured /\ p.path = None
    /\ p.embedded # None => p.audio = p.embedded /\ p.store = None /\ p.path = None
                            /\ p.generated = None /\ p.captured = None
    /\ p.path # None => p.audio = p.path.file
    /\ p.path # None /\ p.store # None => p.path = [file |-> p.store.file, at |-> p.store.at]

\* Only a recording that can be stored is put over an instrument, and its flag goes only when
\* the mapping was read back and refused.
OverlayOK(p) ==
    Overlaid(p) => \/ p.captured = p.audio /\ p.audio \notin Unencodable
                   \/ Hollow(p.store.file, p.store.map)

WindowOK(p) == p.window \in 1..LastFrame(p) \cup {LastFrame(p)}

Consistent(p) == p \in Processors /\ Agrees(p) /\ OverlayOK(p) /\ WindowOK(p)

\* Over a recording put on an instrument, only a tree of an instrument is restored, and one that
\* would be refused for its mapping does not meet a mapping that would not.
Refuses(t, p) ==
    Overlaid(p) => /\ t.imported # None /\ t.manifest # None
                   /\ Hollow(t.manifest.file, t.map) => Hollow(p.store.file, p.store.map)

\* The type of the sound's state, and that its parts agree.
SoundInv ==
    /\ disk \in Disks
    /\ Consistent(proc)
    /\ previous # None => Refuses(previous.tree, proc)

=============================================================================
