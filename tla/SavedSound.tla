----------------------------- MODULE SavedSound -----------------------------
(***************************************************************************)
(* The sound a processor holds, and the two ways it leaves and enters it:  *)
(* the state tree of a host project (getStateInformation and               *)
(* setStateInformation) and the tree of a playback preset                  *)
(* (createPlaybackPresetXml and loadPlaybackPresetXml), both in            *)
(* src/plugin/PluginProcessor.cpp.                                         *)
(*                                                                         *)
(* A processor is a record, so that the handlers can be composed the way   *)
(* the code calls them.  `audio' is the display sample of the engine,      *)
(* `program' its published program and `store' the imported program the    *)
(* processor remembers; the fields generated, captured and embedded join   *)
(* a flag with the audio it vouches for.  Files lie in places (folders):   *)
(* disk[f][at] tells whether f is there whole, broken (unreadable, or an   *)
(* instrument without some of its samples) or not at all.                  *)
(*                                                                         *)
(* `window' is the end of the playback region and stands for the region,   *)
(* loop and fade parameters, all reset and clamped alike; `shape' for the  *)
(* parameters that a file load resets and an instrument load keeps;        *)
(* `pads' for the pad and CC children, which a tree replaces as a whole.   *)
(***************************************************************************)
EXTENDS Naturals, FiniteSets

CONSTANTS
    Samples,        \* audio files that load as one sample, or as slices
    Libraries,      \* instrument files with their own sample files
    Waves,          \* generated waveforms
    Takes,          \* recordings
    Length,         \* frames of each audio, by its name
    Assets,         \* number of sample assets of each importable file
    Unencodable,    \* audio the state codec refuses (too long, not finite)
    Places,         \* folders
    KnownRoots,     \* the folders a restore searches by itself
    Huge,           \* folders too large for a bounded search
    None, Absent

Files == Samples \cup Libraries
Audio == Files \cup Waves \cup Takes

Located == [file : Files, at : Places]
Zones == UNION {1..(Assets[f] + 1) : f \in Files}
Programs == [file : Files, map : SUBSET Zones]
Stores == [file : Files, at : Places, map : SUBSET Zones]
Manifests == [file : Files, root : Places]
Maps == {None} \cup SUBSET Zones
Relinks == [file : Files, map : Maps]
StateAssets == [audio : Audio \ Unencodable, whole : BOOLEAN]

ASSUME AudioAssumption ==
    /\ Samples \cap Libraries = {}
    /\ Waves \cap (Files \cup Takes) = {}
    /\ Takes \cap Files = {}
    /\ Length \in [Audio -> Nat \ {0}]
    /\ Assets \in [Files -> Nat \ {0}]
    /\ Unencodable \subseteq Audio
    /\ KnownRoots \subseteq Places
    /\ None \notin Audio /\ Absent \notin Audio /\ None # Absent
    /\ None \notin Located \cup Programs \cup Stores \cup Manifests \cup Relinks \cup StateAssets
    /\ \A map \in SUBSET Zones : None # map
    /\ Absent \notin Located
    /\ \A a \in Audio : a \notin Programs

Shapes == {"flat", "shaped"}
PadLayouts == {"default", "custom"}

Processors ==
    [audio : Audio \cup {None}, path : Located \cup {None},
     program : Programs \cup {None}, store : Stores \cup {None},
     generated : Audio \cup {None}, captured : Audio \cup {None}, embedded : Audio \cup {None},
     window : Nat, shape : Shapes, pads : PadLayouts,
     pending : Relinks \cup {None}, source : 0..5]

Trees ==
    [path : Located \cup {None, Absent}, imported : Located \cup {None}, map : Maps,
     manifest : Manifests \cup {None}, generated : StateAssets \cup {None},
     captured : StateAssets \cup {None}, embedded : StateAssets \cup {None},
     window : Nat, shape : Shapes, pads : PadLayouts]

Disks == [Files -> [Places -> {"whole", "broken", "missing"}]]

Fresh == [audio |-> None, path |-> None, program |-> None, store |-> None,
          generated |-> None, captured |-> None, embedded |-> None,
          window |-> 0, shape |-> "flat", pads |-> "default",
          pending |-> None, source |-> 0]

LastFrame(p) == IF p.audio = None THEN 0 ELSE Length[p.audio] - 1

setSampleWindow(p, end) ==
    LET last == LastFrame(p)
    IN  [p EXCEPT !.window = IF end \in 1..last THEN end ELSE last]

-----------------------------------------------------------------------------
(* Publication of a new source.  Every path resets the region; a file      *)
(* resets the shaping parameters as well.                                  *)

publishAudio(p, a) == setSampleWindow([p EXCEPT !.audio = a], Length[a] - 1)

NoFlags(p) ==
    [p EXCEPT !.generated = None, !.captured = None, !.embedded = None]

WithoutProgram(p) == [p EXCEPT !.program = None, !.store = None]

publishFile(p, f, place) ==
    [WithoutProgram(NoFlags(publishAudio(p, f)))
        EXCEPT !.path = [file |-> f, at |-> place], !.shape = "flat"]

\* The zones that play sample asset i are zone set i of the instrument, so
\* a mapping is the set of assets its zones play.
WholeMap(f) == 1..Assets[f]

\* Slices of a sample file keep the file as their display sample.
publishProgram(p, f, place, map) ==
    LET q == [NoFlags(publishAudio(p, f))
                EXCEPT !.program = [file |-> f, map |-> map],
                       !.store = [file |-> f, at |-> place, map |-> map]]
    IN  IF f \in Samples
        THEN [q EXCEPT !.path = [file |-> f, at |-> place], !.shape = "flat"]
        ELSE [q EXCEPT !.path = None]

loadGeneratedWaveformAsSample(p, w) ==
    [WithoutProgram(NoFlags(publishAudio(p, w)))
        EXCEPT !.path = None, !.generated = w]

loadCapturedAudioAsSample(p, t) ==
    [WithoutProgram(NoFlags(publishAudio(p, t)))
        EXCEPT !.path = None, !.captured = t]

loadEmbeddedSampleAsSample_KeepsProgram(p, a) ==
    [NoFlags(publishAudio(p, a)) EXCEPT !.path = None, !.embedded = a]

loadEmbeddedSampleAsSample(p, a) ==
    [WithoutProgram(NoFlags(publishAudio(p, a)))
        EXCEPT !.path = None, !.embedded = a]

-----------------------------------------------------------------------------
(* The state tree.                                                         *)

encodeAudioStateAsset(a) ==
    IF a = None \/ a \in Unencodable THEN None ELSE [audio |-> a, whole |-> TRUE]

Decodes(asset) == asset # None /\ asset.whole

createImportedAssetManifest(store) == [file |-> store.file, root |-> store.at]

\* The instrument, its mapping and its manifest are written together.
appendImportedProgramState(t, store) ==
    IF store = None THEN t
    ELSE [t EXCEPT !.imported = [file |-> store.file, at |-> store.at],
                   !.map = store.map,
                   !.manifest = createImportedAssetManifest(store)]

SaveParameters(t, p) == [t EXCEPT !.window = p.window, !.shape = p.shape]

SavePads(t, p) == [t EXCEPT !.pads = p.pads]

getStateInformation(p) ==
    LET sources ==
          [path |-> p.path, imported |-> None, map |-> None, manifest |-> None,
           generated |-> encodeAudioStateAsset(p.generated),
           captured |-> encodeAudioStateAsset(p.captured),
           embedded |-> IF p.embedded = None THEN None
                        ELSE encodeAudioStateAsset(p.audio),
           window |-> 0, shape |-> "flat", pads |-> "default"]
    IN  SavePads(SaveParameters(appendImportedProgramState(sources, p.store), p), p)

WholeAt(disk, f) == {at \in Places : disk[f][at] = "whole"}

resolveImportedAssetManifest_Partial(file, roots, disk) ==
    LET found == {at \in roots : disk[file][at] # "missing"}
    IN  IF Cardinality(found) = 1 /\ roots \cap Huge = {} THEN found ELSE {}

\* A restore needs one complete copy in the folders it searches, and gives
\* up when a folder is too large to rule a second copy out.
resolveImportedAssetManifest(file, roots, disk) ==
    LET found == WholeAt(disk, file) \cap roots
    IN  IF Cardinality(found) = 1 /\ roots \cap Huge = {} THEN found ELSE {}

setPendingImportedAssetRelink(p, file, map) ==
    [p EXCEPT !.pending = [file |-> file, map |-> map]]

clearPendingImportedAssetRelink(p) == [p EXCEPT !.pending = None]

\* Zones whose asset the file does not have are dropped; a mapping left
\* with no zone is rejected and the current instrument stays.
restoreImportedProgramFromState(p, file, place, map) ==
    LET kept == IF map = None THEN WholeMap(file) ELSE map \cap WholeMap(file)
    IN  IF kept = {} THEN p
        ELSE [publishProgram(p, file, place, kept) EXCEPT !.source = 4]

RestoreImported(p, t, disk) ==
    LET roots == KnownRoots \cup {t.manifest.root}
                    \cup (IF t.path = None THEN {} ELSE {t.path.at})
        found == resolveImportedAssetManifest(t.manifest.file, roots, disk)
        stored == disk[t.imported.file][t.imported.at]
    IN  CASE t.manifest # None /\ found # {} ->
                restoreImportedProgramFromState(
                    p, t.manifest.file, CHOOSE at \in found : TRUE, t.map)
          [] t.manifest # None /\ found = {} ->
                setPendingImportedAssetRelink(p, t.manifest.file, t.map)
          [] t.manifest = None /\ stored = "whole" ->
                restoreImportedProgramFromState(
                    p, t.imported.file, t.imported.at, t.map)
          [] t.manifest = None /\ stored = "broken" -> p
          [] t.manifest = None /\ stored = "missing" ->
                setPendingImportedAssetRelink(p, t.imported.file, t.map)

RestoreFile(p, t, disk) ==
    IF t.path # None /\ t.path.at \in WholeAt(disk, t.path.file)
    THEN [publishFile(p, t.path.file, t.path.at) EXCEPT !.source = 1] ELSE p

RestoreGenerated(p, t) ==
    IF Decodes(t.generated)
    THEN [loadGeneratedWaveformAsSample(p, t.generated.audio)
            EXCEPT !.source = 2]
    ELSE p

\* Neither the engine's program nor the remembered one is cleared here.
RestoreCaptured(p, t) ==
    IF Decodes(t.captured)
    THEN [NoFlags(publishAudio(p, t.captured.audio))
            EXCEPT !.path = None, !.captured = t.captured.audio, !.source = 3]
    ELSE p

RestoreEmbedded(p, t) ==
    IF Decodes(t.embedded)
    THEN [loadEmbeddedSampleAsSample(p, t.embedded.audio) EXCEPT !.source = 5]
    ELSE p

\* With no source at all the flags go and the engine keeps what it plays.
RestoreNothing(p) == NoFlags(p)

Settled(p) == p.source # 0 \/ p.pending # None

RestoreSource(p, t, disk) ==
    LET cleared   == [clearPendingImportedAssetRelink(p) EXCEPT !.source = 0]
        embedded  == RestoreEmbedded(cleared, t)
        imported  == IF Settled(embedded) \/ t.imported = None THEN embedded
                     ELSE RestoreImported(embedded, t, disk)
        file      == IF Settled(imported) THEN imported
                     ELSE RestoreFile(imported, t, disk)
        generated == IF Settled(file) THEN file ELSE RestoreGenerated(file, t)
        captured  == IF Settled(generated) THEN generated
                     ELSE RestoreCaptured(generated, t)
    IN  IF Settled(captured) THEN captured ELSE RestoreNothing(captured)

RestoreParameters(p, t) == [setSampleWindow(p, t.window) EXCEPT !.shape = t.shape]

RestorePads(p, t) == [p EXCEPT !.pads = t.pads]

RestoreSettings(p, t) == RestorePads(RestoreParameters(p, t), t)

setStateInformation_SettingsFirst(p, t, disk) ==
    RestoreSource(RestoreSettings(p, t), t, disk)

setStateInformation(p, t, disk) ==
    RestoreSettings(RestoreSource(p, t, disk), t)

\* Whether anything was restored, as the editor asks afterwards.
RestoreFailed(p) == p.pending # None \/ p.source = 0

relinkPendingImportedProgramFromFolder(p, root, disk) ==
    LET found == resolveImportedAssetManifest(p.pending.file, {root}, disk)
        q == restoreImportedProgramFromState(
                [p EXCEPT !.source = 0], p.pending.file, root, p.pending.map)
    IN  IF found = {} \/ q.source # 4 THEN p
        ELSE clearPendingImportedAssetRelink(q)

-----------------------------------------------------------------------------
(* The preset tree.                                                        *)

\* A single sample is embedded instead of being named, when it encodes.
createPlaybackPresetXml(p) ==
    LET t     == getStateInformation(p)
        asset == encodeAudioStateAsset(p.audio)
    IN  IF t.path # None /\ t.imported = None /\ asset # None
        THEN [t EXCEPT !.embedded = asset, !.path = Absent] ELSE t

\* What the preset does not hold stays as the current sound has it.  The
\* tree's properties and the pad and CC children are merged; the children
\* that hold the mapping and the manifest are not.
MergePreset(current, preset) ==
    LET Or(field) == IF preset[field] = None THEN current[field]
                     ELSE preset[field]
    IN  [preset EXCEPT
            !.path = IF preset.path = Absent THEN current.path ELSE preset.path,
            !.imported = Or("imported"), !.generated = Or("generated"),
            !.captured = Or("captured"), !.embedded = Or("embedded"),
            !.map = current.map, !.manifest = current.manifest]

loadPlaybackPresetXml(p, preset, disk) ==
    setStateInformation(p, MergePreset(getStateInformation(p), preset), disk)
=============================================================================
