------------------------- MODULE ProjectStateProofs -------------------------
(***************************************************************************)
(* Proofs about the sound of a session (ProjectState, SavedSound): what    *)
(* the processor remembers agrees with what the engine plays, and a sound  *)
(* that is saved, put by or rolled back to is the one that comes back.     *)
(*                                                                         *)
(* The proofs go handler by handler.  First what each way of publishing a  *)
(* source makes of the processor, then what a state tree holds, then what  *)
(* a restore makes of a tree: the sources are tried in a fixed order, and  *)
(* each has a predicate (PlaysOnly, PlaysFile, PlaysProgram, PlaysOver,    *)
(* Forgets) for the processor it leaves.  Regained puts the three          *)
(* together; the theorems follow from it and from SessionInv.              *)
(***************************************************************************)
EXTENDS ProjectState, FiniteSetTheorems, TLAPS

-----------------------------------------------------------------------------
(* What each way of publishing a source makes of the processor.            *)

\* The region is kept within the audio.
LEMMA SetWindow ==
  ASSUME NEW p \in Processors, NEW end \in Nat
  PROVE  /\ setSampleWindow(p, end) \in Processors
         /\ WindowOK(setSampleWindow(p, end))
         /\ setSampleWindow(p, end) = [p EXCEPT !.window = setSampleWindow(p, end).window]
<1> DEFINE last == LastFrame(p)
           w == IF end \in 1..last THEN end ELSE last
<1>1. p.audio \in Audio \cup {None}
  BY DEF Processors
<1>2. last \in Nat
  <2>1. CASE p.audio = None  BY <2>1 DEF LastFrame
  <2>2. CASE p.audio # None
    <3>1. Length[p.audio] \in Nat \ {0}  BY <1>1, <2>2, AudioAssumption
    <3> QED  BY <2>2, <3>1 DEF LastFrame
  <2> QED  BY <2>1, <2>2
<1>3. w \in Nat /\ w \in 1..last \cup {last}
  BY <1>2
<1>4. setSampleWindow(p, end) = [p EXCEPT !.window = w]
  BY DEF setSampleWindow
<1> HIDE DEF w
<1>5. [p EXCEPT !.window = w] \in Processors /\ [p EXCEPT !.window = w].window = w /\ [p EXCEPT !.window = w].audio = p.audio
  BY <1>3 DEF Processors
<1> HIDE DEF last
<1>6. LastFrame([p EXCEPT !.window = w]) = last
  BY <1>5 DEF LastFrame, last
<1> QED  BY <1>3, <1>4, <1>5, <1>6 DEF WindowOK

\* publishAudio(): another display sample, and all of it.
LEMMA PublishAudio ==
  ASSUME NEW p \in Processors, NEW a \in Audio
  PROVE  /\ publishAudio(p, a) \in Processors
         /\ WindowOK(publishAudio(p, a))
         /\ publishAudio(p, a) = [p EXCEPT !.audio = a, !.window = publishAudio(p, a).window]
<1> DEFINE q == [p EXCEPT !.audio = a]
<1>1. q \in Processors
  BY DEF Processors
<1>2. Length[a] - 1 \in Nat
  BY AudioAssumption
<1>3. /\ setSampleWindow(q, Length[a] - 1) \in Processors
      /\ WindowOK(setSampleWindow(q, Length[a] - 1))
      /\ setSampleWindow(q, Length[a] - 1) = [q EXCEPT !.window = setSampleWindow(q, Length[a] - 1).window]
  BY <1>1, <1>2, SetWindow
<1>4. ASSUME NEW w  PROVE [q EXCEPT !.window = w] = [p EXCEPT !.audio = a, !.window = w]
  OBVIOUS
<1>5. publishAudio(p, a) = setSampleWindow(q, Length[a] - 1)
  BY DEF publishAudio
<1> HIDE DEF q
<1> QED  BY <1>3, <1>4, <1>5

\* The flags go, and the audio stays.
LEMMA ClearFlags ==
  ASSUME NEW p \in Processors
  PROVE  NoFlags(p) \in Processors
BY DEF NoFlags, Processors

\* publishPreparedSampleImport(): a file alone, every flag down.
LEMMA PublishFile ==
  ASSUME NEW p \in Processors, NEW f \in Files, NEW at \in Places
  PROVE  LET q == publishFile(p, f, at)
         IN  /\ q \in Processors /\ WindowOK(q)
             /\ q.audio = f /\ q.path = [file |-> f, at |-> at] /\ q.program = None /\ q.store = None
             /\ q.generated = None /\ q.captured = None /\ q.embedded = None
             /\ q.pads = p.pads /\ q.pending = p.pending /\ q.source = p.source
<1> DEFINE a == publishAudio(p, f)
           q == publishFile(p, f, at)
<1>1. f \in Audio  BY DEF Audio
<1>2. a \in Processors /\ WindowOK(a) /\ a = [p EXCEPT !.audio = f, !.window = a.window]
  BY <1>1, PublishAudio
<1>3. a.audio = f /\ a.pads = p.pads /\ a.pending = p.pending /\ a.source = p.source
  BY <1>2 DEF Processors
<1>4. q = [a EXCEPT !.generated = None, !.captured = None, !.embedded = None, !.program = None, !.store = None,
                    !.path = [file |-> f, at |-> at], !.shape = "flat"]
  BY DEF publishFile, NoFlags, WithoutProgram
<1> HIDE DEF a, q
<1>5. [file |-> f, at |-> at] \in Located  BY DEF Located
<1>6. q \in Processors
  BY <1>2, <1>4, <1>5 DEF Processors, Shapes
<1>7. /\ q.audio = f /\ q.path = [file |-> f, at |-> at] /\ q.program = None /\ q.store = None
      /\ q.generated = None /\ q.captured = None /\ q.embedded = None /\ q.window = a.window
      /\ q.pads = p.pads /\ q.pending = p.pending /\ q.source = p.source
  BY <1>2, <1>3, <1>4 DEF Processors
<1>8. WindowOK(q)
  BY <1>2, <1>3, <1>7 DEF WindowOK, LastFrame
<1> QED  BY <1>6, <1>7, <1>8 DEF q

\* publishPreparedBackgroundImport(): a program, the store that remembers it and its file.
LEMMA PublishProgram ==
  ASSUME NEW p \in Processors, NEW f \in Files, NEW at \in Places, NEW map \in SUBSET Zones
  PROVE  LET q == publishProgram(p, f, at, map)
         IN  /\ q \in Processors /\ WindowOK(q)
             /\ q.audio = f /\ q.path \in {None, [file |-> f, at |-> at]}
             /\ q.program = [file |-> f, map |-> map] /\ q.store = [file |-> f, at |-> at, map |-> map]
             /\ q.generated = None /\ q.captured = None /\ q.embedded = None
             /\ q.pads = p.pads /\ q.pending = p.pending /\ q.source = p.source
<1> DEFINE a == publishAudio(p, f)
           here == [file |-> f, at |-> at]
           played == [file |-> f, map |-> map]
           kept == [file |-> f, at |-> at, map |-> map]
           b == [a EXCEPT !.generated = None, !.captured = None, !.embedded = None,
                          !.program = played, !.store = kept]
           q == publishProgram(p, f, at, map)
<1>1. f \in Audio  BY DEF Audio
<1>2. a \in Processors /\ WindowOK(a) /\ a = [p EXCEPT !.audio = f, !.window = a.window]
  BY <1>1, PublishAudio
<1>3. a.audio = f /\ a.pads = p.pads /\ a.pending = p.pending /\ a.source = p.source
  BY <1>2 DEF Processors
<1>4. q = IF f \in Samples THEN [b EXCEPT !.path = here, !.shape = "flat"] ELSE [b EXCEPT !.path = None]
  BY DEF publishProgram, NoFlags
<1>5. here \in Located /\ played \in Programs /\ kept \in Stores
  BY DEF Located, Programs, Stores
<1> HIDE DEF a, q, here, played, kept
<1>6. /\ b \in Processors /\ b.audio = f /\ b.program = played /\ b.store = kept
      /\ b.generated = None /\ b.captured = None /\ b.embedded = None /\ b.window = a.window
      /\ b.pads = p.pads /\ b.pending = p.pending /\ b.source = p.source
  <2>1. b \in Processors
    BY <1>2, <1>5 DEF Processors
  <2> QED  BY <1>2, <1>3, <2>1 DEF Processors
<1> HIDE DEF b
<1>7. /\ q \in Processors /\ q.audio = f /\ q.path \in {None, here}
      /\ q.program = played /\ q.store = kept
      /\ q.generated = None /\ q.captured = None /\ q.embedded = None /\ q.window = a.window
      /\ q.pads = p.pads /\ q.pending = p.pending /\ q.source = p.source
  <2>1. CASE f \in Samples
    <3>1. q = [b EXCEPT !.path = here, !.shape = "flat"]  BY <1>4, <2>1
    <3> QED  BY <1>5, <1>6, <3>1 DEF Processors, Shapes
  <2>2. CASE f \notin Samples
    <3>1. q = [b EXCEPT !.path = None]  BY <1>4, <2>2
    <3> QED  BY <1>6, <3>1 DEF Processors
  <2> QED  BY <2>1, <2>2
<1>8. WindowOK(q)
  BY <1>2, <1>3, <1>7 DEF WindowOK, LastFrame
<1> QED  BY <1>7, <1>8 DEF q, here, played, kept

\* Audio that is no file: a waveform, a recording or embedded audio.
LEMMA PublishOther ==
  ASSUME NEW p \in Processors, NEW x \in Audio,
         NEW q, q \in {loadGeneratedWaveformAsSample(p, x), loadCapturedAudioAsSample(p, x),
                       loadEmbeddedSampleAsSample(p, x)}
  PROVE  /\ q \in Processors /\ WindowOK(q)
         /\ q.audio = x /\ q.path = None /\ q.program = None /\ q.store = None
         /\ q.generated = (IF q = loadGeneratedWaveformAsSample(p, x) THEN x ELSE q.generated)
         /\ \/ q.generated = x /\ q.captured = None /\ q.embedded = None
            \/ q.generated = None /\ q.captured = x /\ q.embedded = None
            \/ q.generated = None /\ q.captured = None /\ q.embedded = x
         /\ q.pads = p.pads /\ q.pending = p.pending /\ q.source = p.source
<1> DEFINE a == publishAudio(p, x)
           b == [a EXCEPT !.generated = None, !.captured = None, !.embedded = None, !.program = None,
                          !.store = None, !.path = None]
<1>2. a \in Processors /\ WindowOK(a) /\ a = [p EXCEPT !.audio = x, !.window = a.window]
  BY PublishAudio
<1>3. a.audio = x /\ a.pads = p.pads /\ a.pending = p.pending /\ a.source = p.source
  BY <1>2 DEF Processors
<1>4. /\ loadGeneratedWaveformAsSample(p, x) = [b EXCEPT !.generated = x]
      /\ loadCapturedAudioAsSample(p, x) = [b EXCEPT !.captured = x]
      /\ loadEmbeddedSampleAsSample(p, x) = [b EXCEPT !.embedded = x]
  BY DEF loadGeneratedWaveformAsSample, loadCapturedAudioAsSample, loadEmbeddedSampleAsSample, NoFlags, WithoutProgram
<1> HIDE DEF a
<1>5. /\ b \in Processors /\ b.audio = x /\ b.path = None /\ b.program = None /\ b.store = None
      /\ b.generated = None /\ b.captured = None /\ b.embedded = None /\ b.window = a.window
      /\ b.pads = p.pads /\ b.pending = p.pending /\ b.source = p.source
  BY <1>2, <1>3 DEF Processors
<1> HIDE DEF b
<1>6. q \in {[b EXCEPT !.generated = x], [b EXCEPT !.captured = x], [b EXCEPT !.embedded = x]}
  BY <1>4
<1>7. /\ q \in Processors
      /\ q.audio = x /\ q.path = None /\ q.program = None /\ q.store = None /\ q.window = a.window
      /\ \/ q.generated = x /\ q.captured = None /\ q.embedded = None
         \/ q.generated = None /\ q.captured = x /\ q.embedded = None
         \/ q.generated = None /\ q.captured = None /\ q.embedded = x
      /\ q.pads = p.pads /\ q.pending = p.pending /\ q.source = p.source
  BY <1>5, <1>6 DEF Processors
<1>8. q = loadGeneratedWaveformAsSample(p, x) => q.generated = x
  BY <1>4, <1>5 DEF Processors
<1>9. WindowOK(q)
  BY <1>2, <1>3, <1>7 DEF WindowOK, LastFrame
<1> QED  BY <1>7, <1>8, <1>9

\* A restored recording leaves the program where it is.
LEMMA PublishOver ==
  ASSUME NEW p \in Processors, NEW x \in Audio
  PROVE  LET q == [NoFlags(publishAudio(p, x)) EXCEPT !.path = None, !.captured = x, !.source = 3]
         IN  /\ q \in Processors /\ WindowOK(q)
             /\ q.audio = x /\ q.path = None /\ q.program = p.program /\ q.store = p.store
             /\ q.generated = None /\ q.captured = x /\ q.embedded = None
             /\ q.pads = p.pads /\ q.pending = p.pending /\ q.source = 3
<1> DEFINE a == publishAudio(p, x)
           q == [NoFlags(a) EXCEPT !.path = None, !.captured = x, !.source = 3]
<1>2. a \in Processors /\ WindowOK(a) /\ a = [p EXCEPT !.audio = x, !.window = a.window]
  BY PublishAudio
<1>3. /\ a.audio = x /\ a.pads = p.pads /\ a.pending = p.pending
      /\ a.program = p.program /\ a.store = p.store
  BY <1>2 DEF Processors
<1>4. q = [a EXCEPT !.generated = None, !.captured = x, !.embedded = None, !.path = None, !.source = 3]
  BY DEF NoFlags
<1> HIDE DEF a, q
<1>6. q \in Processors
  <2> DEFINE b == [a EXCEPT !.generated = None, !.captured = x, !.embedded = None, !.path = None]
  <2>1. b \in Processors  BY <1>2 DEF Processors
  <2>2. q = [b EXCEPT !.source = 3]  BY <1>4
  <2> HIDE DEF b
  <2>3. 3 \in 0..5  OBVIOUS
  <2> QED  BY <2>1, <2>2, <2>3 DEF Processors
<1>5. /\ q \in Processors
      /\ q.audio = x /\ q.path = None /\ q.program = p.program /\ q.store = p.store /\ q.window = a.window
      /\ q.generated = None /\ q.captured = x /\ q.embedded = None
      /\ q.pads = p.pads /\ q.pending = p.pending /\ q.source = 3
  BY <1>2, <1>3, <1>4, <1>6 DEF Processors
<1>9. WindowOK(q)
  BY <1>2, <1>3, <1>5 DEF WindowOK, LastFrame
<1> QED  BY <1>5, <1>9 DEF q, a

-----------------------------------------------------------------------------
(* What is saved.                                                          *)

\* encodeAudioStateAsset() gives an asset, or nothing.
LEMMA Encoded ==
  ASSUME NEW a \in Audio \cup {None}
  PROVE  /\ encodeAudioStateAsset(a) \in StateAssets \cup {None}
         /\ Decodes(encodeAudioStateAsset(a)) = (encodeAudioStateAsset(a) # None)
         /\ (encodeAudioStateAsset(a) # None) = (a # None /\ a \notin Unencodable)
         /\ encodeAudioStateAsset(a) # None => encodeAudioStateAsset(a).audio = a
<1>1. CASE a = None \/ a \in Unencodable
  BY <1>1 DEF encodeAudioStateAsset, Decodes
<1>2. CASE ~(a = None \/ a \in Unencodable)
  <2>1. encodeAudioStateAsset(a) = [audio |-> a, whole |-> TRUE]
    BY <1>2 DEF encodeAudioStateAsset
  <2>2. [audio |-> a, whole |-> TRUE] \in StateAssets
    BY <1>2 DEF StateAssets
  <2>3. [audio |-> a, whole |-> TRUE] # None
    BY <2>2, AudioAssumption
  <2> QED  BY <1>2, <2>1, <2>2, <2>3 DEF Decodes
<1> QED  BY <1>1, <1>2

\* The fields of the tree of a project.
LEMMA StateTree ==
  ASSUME NEW p \in Processors
  PROVE  LET t == getStateInformation(p)
         IN  /\ t \in Trees /\ t.path = p.path
             /\ p.store = None => t.imported = None /\ t.map = None /\ t.manifest = None
             /\ p.store # None => /\ t.imported = [file |-> p.store.file, at |-> p.store.at]
                                  /\ t.map = p.store.map
                                  /\ t.manifest = [file |-> p.store.file, root |-> p.store.at]
             /\ t.generated = encodeAudioStateAsset(p.generated)
             /\ t.captured = encodeAudioStateAsset(p.captured)
             /\ t.embedded = IF p.embedded = None THEN None ELSE encodeAudioStateAsset(p.audio)
             /\ t.window = p.window /\ t.shape = p.shape /\ t.pads = p.pads
<1> DEFINE g == encodeAudioStateAsset(p.generated)
           c == encodeAudioStateAsset(p.captured)
           e == IF p.embedded = None THEN None ELSE encodeAudioStateAsset(p.audio)
           s == [path |-> p.path, imported |-> None, map |-> None, manifest |-> None,
                 generated |-> g, captured |-> c, embedded |-> e, window |-> 0, shape |-> "flat", pads |-> "default"]
           i == appendImportedProgramState(s, p.store)
           t == getStateInformation(p)
<1>1. g \in StateAssets \cup {None} /\ c \in StateAssets \cup {None} /\ e \in StateAssets \cup {None}
  <2>1. p.generated \in Audio \cup {None} /\ p.captured \in Audio \cup {None} /\ p.audio \in Audio \cup {None}
    BY DEF Processors
  <2> QED  BY <2>1, Encoded
<1> HIDE DEF g, c, e
<1>2. s \in Trees
  BY <1>1 DEF Trees, Processors, Maps, Shapes, PadLayouts
<1>3. t = [i EXCEPT !.window = p.window, !.shape = p.shape, !.pads = p.pads]
  BY DEF getStateInformation, SaveParameters, SavePads, g, c, e
<1> HIDE DEF t
<1>4. CASE p.store = None
  <2>1. i = s  BY <1>4 DEF appendImportedProgramState
  <2> HIDE DEF i
  <2> QED  BY <1>1, <1>2, <1>3, <1>4, <2>1, ZenonT(30) DEF Trees, Processors, t, g, c, e
<1>5. CASE p.store # None
  <2>1. i = [s EXCEPT !.imported = [file |-> p.store.file, at |-> p.store.at], !.map = p.store.map,
                      !.manifest = [file |-> p.store.file, root |-> p.store.at]]
    BY <1>5 DEF appendImportedProgramState, createImportedAssetManifest
  <2>2. p.store \in Stores  BY <1>5 DEF Processors
  <2>3. /\ [file |-> p.store.file, at |-> p.store.at] \in Located /\ p.store.map \in Maps
        /\ [file |-> p.store.file, root |-> p.store.at] \in Manifests
    BY <2>2 DEF Stores, Located, Maps, Manifests
  <2> HIDE DEF i
  <2>4. /\ t = [s EXCEPT !.imported = [file |-> p.store.file, at |-> p.store.at], !.map = p.store.map,
                         !.manifest = [file |-> p.store.file, root |-> p.store.at],
                         !.window = p.window, !.shape = p.shape, !.pads = p.pads]
    BY <1>3, <2>1
  <2>5. /\ t \in Trees /\ t.path = p.path
        /\ t.imported = [file |-> p.store.file, at |-> p.store.at] /\ t.map = p.store.map
        /\ t.manifest = [file |-> p.store.file, root |-> p.store.at]
        /\ t.generated = g /\ t.captured = c /\ t.embedded = e
        /\ t.window = p.window /\ t.shape = p.shape /\ t.pads = p.pads
    BY <1>2, <2>3, <2>4 DEF Trees, Processors
  <2> QED  BY <1>5, <2>5 DEF t, g, c, e
<1> QED  BY <1>4, <1>5

-----------------------------------------------------------------------------
(* What a restore makes of the processor.                                  *)

\* The source is the same, whatever became of settings and bookkeeping.
SameSource(q, p) ==
  /\ q.audio = p.audio /\ q.path = p.path /\ q.program = p.program /\ q.store = p.store
  /\ q.generated = p.generated /\ q.captured = p.captured /\ q.embedded = p.embedded

\* A sample that is no file and has no instrument beside it.
PlaysOnly(q, a) ==
  /\ q.audio = a /\ q.path = None /\ q.program = None /\ q.store = None
  /\ \/ q.generated = a /\ q.captured = None /\ q.embedded = None
     \/ q.generated = None /\ q.captured = a /\ q.embedded = None
     \/ q.generated = None /\ q.captured = None /\ q.embedded = a

\* A file alone, at the place it was loaded from.
PlaysFile(q, where) ==
  /\ q.audio = where.file /\ q.path = where /\ q.program = None /\ q.store = None
  /\ q.generated = None /\ q.captured = None /\ q.embedded = None

\* A program read from a file, and remembered with its place.
PlaysProgram(q, f, at, map) ==
  /\ q.audio = f /\ q.path \in {None, [file |-> f, at |-> at]}
  /\ q.program = [file |-> f, map |-> map] /\ q.store = [file |-> f, at |-> at, map |-> map]
  /\ q.generated = None /\ q.captured = None /\ q.embedded = None

\* A recording put over the program of p.
PlaysOver(q, p, a) ==
  /\ q.audio = a /\ q.path = None /\ q.program = p.program /\ q.store = p.store
  /\ q.generated = None /\ q.captured = a /\ q.embedded = None

\* The flags are down.
Forgets(q, p) ==
  /\ q.audio = p.audio /\ q.path = p.path /\ q.program = p.program /\ q.store = p.store
  /\ q.generated = None /\ q.captured = None /\ q.embedded = None

\* Where the source came from does not matter to it.
LEMMA WithSource ==
  ASSUME NEW q \in Processors, WindowOK(q), NEW n \in 0..5, NEW r, r = [q EXCEPT !.source = n]
  PROVE  /\ r \in Processors /\ WindowOK(r) /\ SameSource(r, q) /\ r.source = n /\ r.pending = q.pending
<1>1. r \in Processors  BY DEF Processors
<1>2. SameSource(r, q) /\ r.source = n /\ r.window = q.window /\ r.pending = q.pending
  BY DEF Processors, SameSource
<1>3. WindowOK(r)  BY <1>2 DEF WindowOK, LastFrame, SameSource
<1> QED  BY <1>1, <1>2, <1>3

\* Audio the tree holds itself comes back alone.
LEMMA EmbeddedOutcome ==
  ASSUME NEW c \in Processors, NEW t \in Trees, Decodes(t.embedded), NEW q, q = RestoreEmbedded(c, t)
  PROVE  /\ q \in Processors /\ WindowOK(q) /\ PlaysOnly(q, t.embedded.audio)
         /\ q.source = 5 /\ q.pending = c.pending
<1>1. t.embedded.audio \in Audio
  BY DEF Trees, Decodes, StateAssets
<1> DEFINE x == t.embedded.audio
           l == loadEmbeddedSampleAsSample(c, x)
<1>2. q = [l EXCEPT !.source = 5]  BY DEF RestoreEmbedded
<1>3. l \in Processors /\ WindowOK(l) /\ PlaysOnly(l, x) /\ l.pending = c.pending
  BY <1>1, PublishOther DEF PlaysOnly
<1> HIDE DEF l, x
<1>4. q \in Processors /\ WindowOK(q) /\ SameSource(q, l) /\ q.source = 5 /\ q.pending = l.pending
  <2>1. 5 \in 0..5  OBVIOUS
  <2> QED  BY <1>2, <1>3, <2>1, WithSource
<1>5. PlaysOnly(q, x)  BY <1>3, <1>4 DEF PlaysOnly, SameSource
<1> QED  BY <1>3, <1>4, <1>5 DEF x

\* So does a generated waveform.
LEMMA GeneratedOutcome ==
  ASSUME NEW c \in Processors, NEW t \in Trees, Decodes(t.generated), NEW q, q = RestoreGenerated(c, t)
  PROVE  /\ q \in Processors /\ WindowOK(q) /\ PlaysOnly(q, t.generated.audio)
         /\ q.source = 2 /\ q.pending = c.pending
<1>1. t.generated.audio \in Audio
  BY DEF Trees, Decodes, StateAssets
<1> DEFINE x == t.generated.audio
           l == loadGeneratedWaveformAsSample(c, x)
<1>2. q = [l EXCEPT !.source = 2]  BY DEF RestoreGenerated
<1>3. l \in Processors /\ WindowOK(l) /\ PlaysOnly(l, x) /\ l.pending = c.pending
  BY <1>1, PublishOther DEF PlaysOnly
<1> HIDE DEF l, x
<1>4. q \in Processors /\ WindowOK(q) /\ SameSource(q, l) /\ q.source = 2 /\ q.pending = l.pending
  <2>1. 2 \in 0..5  OBVIOUS
  <2> QED  BY <1>2, <1>3, <2>1, WithSource
<1>5. PlaysOnly(q, x)  BY <1>3, <1>4 DEF PlaysOnly, SameSource
<1> QED  BY <1>3, <1>4, <1>5 DEF x

\* A file that is where the tree says is loaded from there.
LEMMA FileOutcome ==
  ASSUME NEW c \in Processors, NEW t \in Trees, NEW d, t.path \in Located, t.path.at \in WholeAt(d, t.path.file),
         NEW q, q = RestoreFile(c, t, d)
  PROVE  /\ q \in Processors /\ WindowOK(q) /\ PlaysFile(q, t.path) /\ q.source = 1 /\ q.pending = c.pending
<1> DEFINE l == publishFile(c, t.path.file, t.path.at)
<1>1. t.path.file \in Files /\ t.path.at \in Places /\ t.path = [file |-> t.path.file, at |-> t.path.at] /\ t.path # None
  BY AudioAssumption DEF Located
<1>2. q = [l EXCEPT !.source = 1]  BY <1>1 DEF RestoreFile
<1>3. l \in Processors /\ WindowOK(l) /\ PlaysFile(l, t.path) /\ l.pending = c.pending
  BY <1>1, PublishFile DEF PlaysFile
<1> HIDE DEF l
<1>4. q \in Processors /\ WindowOK(q) /\ SameSource(q, l) /\ q.source = 1 /\ q.pending = l.pending
  <2>1. 1 \in 0..5  OBVIOUS
  <2> QED  BY <1>2, <1>3, <2>1, WithSource
<1>5. PlaysFile(q, t.path)  BY <1>3, <1>4 DEF PlaysFile, SameSource
<1> QED  BY <1>3, <1>4, <1>5

\* A recording is put over whatever program there is.
LEMMA CapturedOutcome ==
  ASSUME NEW c \in Processors, NEW t \in Trees, Decodes(t.captured), NEW q, q = RestoreCaptured(c, t)
  PROVE  /\ q \in Processors /\ WindowOK(q) /\ PlaysOver(q, c, t.captured.audio)
         /\ t.captured.audio \in Audio \ Unencodable
         /\ q.source = 3 /\ q.pending = c.pending
<1>1. t.captured.audio \in Audio \ Unencodable
  BY DEF Trees, Decodes, StateAssets
<1> DEFINE x == t.captured.audio
           l == [NoFlags(publishAudio(c, x)) EXCEPT !.path = None, !.captured = x, !.source = 3]
<1>2. q = l
  BY DEF RestoreCaptured
<1> HIDE DEF x
<1>3. /\ l \in Processors /\ WindowOK(l)
      /\ l.audio = x /\ l.path = None /\ l.program = c.program /\ l.store = c.store
      /\ l.generated = None /\ l.captured = x /\ l.embedded = None
      /\ l.pending = c.pending /\ l.source = 3
  <2>1. x \in Audio  BY <1>1 DEF x
  <2> QED  BY <2>1, PublishOver
<1> HIDE DEF l
<1>4. PlaysOver(q, c, x)  BY <1>2, <1>3 DEF PlaysOver
<1> QED  BY <1>1, <1>2, <1>3, <1>4 DEF x

\* An instrument is read again with the zones whose assets its file has.
LEMMA ImportedOutcome ==
  ASSUME NEW c \in Processors, NEW f \in Files, NEW at \in Places, NEW map \in Maps,
         NEW q, q = restoreImportedProgramFromState(c, f, at, map)
  PROVE  \/ q = c /\ Hollow(f, map)
         \/ \E kept \in SUBSET Zones :
              /\ kept = (IF map = None THEN WholeMap(f) ELSE map \cap WholeMap(f)) /\ kept # {}
              /\ q \in Processors /\ WindowOK(q) /\ PlaysProgram(q, f, at, kept)
              /\ q.source = 4 /\ q.pending = c.pending
<1> DEFINE kept == IF map = None THEN WholeMap(f) ELSE map \cap WholeMap(f)
           l == publishProgram(c, f, at, kept)
<1>1. WholeMap(f) \in SUBSET Zones /\ WholeMap(f) # {}
  <2>1. Assets[f] \in Nat \ {0}  BY AudioAssumption
  <2>2. 1..Assets[f] \subseteq 1..(Assets[f] + 1) /\ 1 \in 1..Assets[f]  BY <2>1
  <2> QED  BY <2>2 DEF Zones, WholeMap
<1>2. kept \in SUBSET Zones  BY <1>1 DEF Maps
<1>3. CASE kept = {}
  BY <1>1, <1>3 DEF restoreImportedProgramFromState, Hollow
<1>4. CASE kept # {}
  <2>1. q = [l EXCEPT !.source = 4]  BY <1>4 DEF restoreImportedProgramFromState
  <2> HIDE DEF kept
  <2>2. l \in Processors /\ WindowOK(l) /\ PlaysProgram(l, f, at, kept) /\ l.pending = c.pending
    BY <1>2, PublishProgram DEF PlaysProgram
  <2> HIDE DEF l
  <2>3. q \in Processors /\ WindowOK(q) /\ SameSource(q, l) /\ q.source = 4 /\ q.pending = l.pending
    <3>1. 4 \in 0..5  OBVIOUS
    <3> QED  BY <2>1, <2>2, <3>1, WithSource
  <2>4. PlaysProgram(q, f, at, kept)  BY <2>2, <2>3 DEF PlaysProgram, SameSource
  <2> QED  BY <1>2, <1>4, <2>2, <2>3, <2>4 DEF kept
<1> QED  BY <1>3, <1>4

\* The folders a restore searches.
Roots(t) == KnownRoots \cup {t.manifest.root} \cup (IF t.path = None THEN {} ELSE {t.path.at})
Found(t, d) == resolveImportedAssetManifest(t.manifest.file, Roots(t), d)

\* The instrument of a tree is read from a folder that holds it whole, remembered as missing, or
\* refused for its mapping.
LEMMA ImportOutcome ==
  ASSUME NEW c \in Processors, NEW t \in Trees, t.imported # None, NEW d \in Disks,
         NEW q, q = RestoreImported(c, t, d)
  PROVE  \/ \E f \in Files, at \in Places, kept \in SUBSET Zones :
              /\ at \in WholeAt(d, f) /\ kept # {}
              /\ t.manifest # None => /\ f = t.manifest.file
                                      /\ kept = (IF t.map = None THEN WholeMap(f) ELSE t.map \cap WholeMap(f))
              /\ q \in Processors /\ WindowOK(q) /\ PlaysProgram(q, f, at, kept)
              /\ q.source = 4 /\ q.pending = c.pending
         \/ /\ \E wanted \in Relinks : q = [c EXCEPT !.pending = wanted]
            /\ t.manifest # None => Found(t, d) = {}
         \/ /\ q = c
            /\ t.manifest # None => Hollow(t.manifest.file, t.map)
<1>1. t.map \in Maps  BY DEF Trees
<1>2. CASE t.manifest # None
  <2> DEFINE f == t.manifest.file
             found == Found(t, d)
  <2>1. f \in Files
    BY <1>2 DEF Trees, Manifests
  <2>2. CASE found = {}
    <3>1. q = [c EXCEPT !.pending = [file |-> f, map |-> t.map]]
      BY <1>2, <2>2 DEF RestoreImported, setPendingImportedAssetRelink, Found, Roots
    <3>2. [file |-> f, map |-> t.map] \in Relinks
      BY <1>1, <2>1 DEF Relinks
    <3> QED  BY <1>2, <2>2, <3>1, <3>2
  <2>3. CASE found # {}
    <3> DEFINE at == CHOOSE x \in found : TRUE
    <3>1. at \in found  BY <2>3
    <3>2. found \subseteq WholeAt(d, f)
      BY DEF Found, resolveImportedAssetManifest
    <3>3. at \in WholeAt(d, f) /\ at \in Places
      BY <3>1, <3>2 DEF WholeAt
    <3> DEFINE map == t.map
    <3>4. q = restoreImportedProgramFromState(c, f, at, map) /\ map \in Maps
      BY <1>1, <1>2, <2>3 DEF RestoreImported, Found, Roots
    <3> HIDE DEF at, found, f, map
    <3>7. \/ q = c /\ Hollow(f, map)
          \/ \E kept \in SUBSET Zones :
              /\ kept = (IF map = None THEN WholeMap(f) ELSE map \cap WholeMap(f)) /\ kept # {}
              /\ q \in Processors /\ WindowOK(q) /\ PlaysProgram(q, f, at, kept)
              /\ q.source = 4 /\ q.pending = c.pending
      BY <2>1, <3>3, <3>4, ImportedOutcome
    <3> USE DEF f, map
    <3>5. CASE q = c /\ Hollow(f, t.map)
      BY <3>5
    <3>6. CASE \E kept \in SUBSET Zones :
              /\ kept = (IF t.map = None THEN WholeMap(f) ELSE t.map \cap WholeMap(f)) /\ kept # {}
              /\ q \in Processors /\ WindowOK(q) /\ PlaysProgram(q, f, at, kept)
              /\ q.source = 4 /\ q.pending = c.pending
      <4>1. PICK kept \in SUBSET Zones :
              /\ kept = (IF t.map = None THEN WholeMap(f) ELSE t.map \cap WholeMap(f)) /\ kept # {}
              /\ q \in Processors /\ WindowOK(q) /\ PlaysProgram(q, f, at, kept)
              /\ q.source = 4 /\ q.pending = c.pending
        BY <3>6
      <4> QED  BY <2>1, <3>3, <4>1
    <3> QED  BY <3>5, <3>6, <3>7
  <2> QED  BY <2>2, <2>3
<1>3. CASE t.manifest = None
  <2> DEFINE f == t.imported.file
             at == t.imported.at
  <2>1. f \in Files /\ at \in Places
    BY DEF Trees, Located
  <2>2. d[f][at] \in {"whole", "broken", "missing"}
    BY <2>1 DEF Disks
  <2>3. CASE d[f][at] = "whole"
    <3> DEFINE map == t.map
    <3>1. q = restoreImportedProgramFromState(c, f, at, map) /\ at \in WholeAt(d, f) /\ map \in Maps
      BY <1>1, <1>3, <2>1, <2>3 DEF RestoreImported, WholeAt
    <3> HIDE DEF at, f, map
    <3>7. \/ q = c /\ Hollow(f, map)
          \/ \E kept \in SUBSET Zones :
              /\ kept = (IF map = None THEN WholeMap(f) ELSE map \cap WholeMap(f)) /\ kept # {}
              /\ q \in Processors /\ WindowOK(q) /\ PlaysProgram(q, f, at, kept)
              /\ q.source = 4 /\ q.pending = c.pending
      BY <2>1, <3>1, ImportedOutcome
    <3>2. CASE q = c
      BY <1>3, <3>2
    <3>3. CASE \E kept \in SUBSET Zones :
              /\ kept # {}
              /\ q \in Processors /\ WindowOK(q) /\ PlaysProgram(q, f, at, kept)
              /\ q.source = 4 /\ q.pending = c.pending
      BY <1>3, <2>1, <3>1, <3>3
    <3> QED  BY <3>2, <3>3, <3>7
  <2>4. CASE d[f][at] = "broken"
    <3>1. q = c  BY <1>3, <2>4 DEF RestoreImported
    <3> QED  BY <1>3, <3>1
  <2>5. CASE d[f][at] = "missing"
    <3>1. q = [c EXCEPT !.pending = [file |-> f, map |-> t.map]]
      BY <1>3, <2>5 DEF RestoreImported, setPendingImportedAssetRelink
    <3>2. [file |-> f, map |-> t.map] \in Relinks
      BY <1>1, <2>1 DEF Relinks
    <3> QED  BY <1>3, <3>1, <3>2
  <2> QED  BY <2>2, <2>3, <2>4, <2>5
<1> QED  BY <1>2, <1>3

\* What a restore starts from.
Cleared(p) == [clearPendingImportedAssetRelink(p) EXCEPT !.source = 0]

\* The order in which a restore tries the sources of a tree, and what it makes of each.
LEMMA SourceOutcome ==
  ASSUME NEW p \in Processors, WindowOK(p), NEW t \in Trees, t.path # Absent, NEW d \in Disks,
         NEW q, q = RestoreSource(p, t, d)
  PROVE  /\ q \in Processors /\ WindowOK(q)
         /\ \/ Decodes(t.embedded) /\ PlaysOnly(q, t.embedded.audio) /\ q.source = 5 /\ q.pending = None
            \/ /\ ~Decodes(t.embedded) /\ t.imported # None /\ q.source = 4 /\ q.pending = None
               /\ \E f \in Files, at \in Places, kept \in SUBSET Zones :
                    /\ at \in WholeAt(d, f) /\ kept # {} /\ PlaysProgram(q, f, at, kept)
                    /\ t.manifest # None => /\ f = t.manifest.file
                                            /\ kept = (IF t.map = None THEN WholeMap(f) ELSE t.map \cap WholeMap(f))
            \/ /\ ~Decodes(t.embedded) /\ t.imported # None /\ SameSource(q, p) /\ q.source = 0 /\ q.pending # None
               /\ t.manifest # None => Found(t, d) = {}
            \/ /\ ~Decodes(t.embedded)
               /\ t.imported # None /\ t.manifest # None => Hollow(t.manifest.file, t.map)
               /\ q.pending = None
               /\ \/ t.path # None /\ t.path.at \in WholeAt(d, t.path.file) /\ PlaysFile(q, t.path) /\ q.source = 1
                  \/ /\ t.path # None => t.path.at \notin WholeAt(d, t.path.file)
                     /\ \/ Decodes(t.generated) /\ PlaysOnly(q, t.generated.audio) /\ q.source = 2
                        \/ /\ ~Decodes(t.generated) /\ Decodes(t.captured) /\ PlaysOver(q, p, t.captured.audio)
                           /\ t.captured.audio \in Audio \ Unencodable /\ q.source = 3
                        \/ ~Decodes(t.generated) /\ ~Decodes(t.captured) /\ Forgets(q, p) /\ q.source = 0
<1> DEFINE c == Cleared(p)
           e == RestoreEmbedded(c, t)
           i == IF Settled(e) \/ t.imported = None THEN e ELSE RestoreImported(e, t, d)
           f == IF Settled(i) THEN i ELSE RestoreFile(i, t, d)
           g == IF Settled(f) THEN f ELSE RestoreGenerated(f, t)
           k == IF Settled(g) THEN g ELSE RestoreCaptured(g, t)
<1>1. q = IF Settled(k) THEN k ELSE RestoreNothing(k)
  BY DEF RestoreSource, Cleared
<1>2. /\ c \in Processors /\ SameSource(c, p) /\ c.source = 0 /\ c.pending = None /\ c.window = p.window
  <2>1. c = [p EXCEPT !.pending = None, !.source = 0]  BY DEF Cleared, clearPendingImportedAssetRelink
  <2>2. 0 \in 0..5  OBVIOUS
  <2>3. c \in Processors  BY <2>1, <2>2 DEF Processors
  <2> QED  BY <2>1, <2>3 DEF Processors, SameSource
<1>3. WindowOK(c)
  BY <1>2 DEF WindowOK, LastFrame, SameSource
<1>4. ~Settled(c)
  BY <1>2 DEF Settled
<1> HIDE DEF c
<1>5. CASE Decodes(t.embedded)
  <2>1. e \in Processors /\ WindowOK(e) /\ PlaysOnly(e, t.embedded.audio) /\ e.source = 5 /\ e.pending = None
    BY <1>2, <1>5, EmbeddedOutcome
  <2> HIDE DEF e
  <2>2. Settled(e)  BY <2>1 DEF Settled
  <2>3. i = e /\ f = e /\ g = e /\ k = e  BY <2>2
  <2> HIDE DEF i, f, g, k
  <2> QED  BY <1>1, <1>5, <2>1, <2>2, <2>3
<1>6. CASE ~Decodes(t.embedded)
  <2>1. e = c  BY <1>6 DEF RestoreEmbedded
  <2> HIDE DEF e
  <2>2. CASE Settled(i)
    <3>1. t.imported # None /\ i = RestoreImported(c, t, d)
      BY <1>4, <2>1, <2>2
    <3>2. f = i /\ g = i /\ k = i /\ q = i
      BY <1>1, <2>2
    <3> HIDE DEF i, f, g, k
    <3>3. CASE \E wanted \in Relinks : i = [c EXCEPT !.pending = wanted]
      <4>1. PICK wanted \in Relinks : i = [c EXCEPT !.pending = wanted]  BY <3>3
      <4>2. wanted # None  BY AudioAssumption
      <4>3. i \in Processors /\ SameSource(i, c) /\ i.source = 0 /\ i.pending # None /\ i.window = c.window
        BY <1>2, <4>1, <4>2 DEF Processors, SameSource
      <4>4. SameSource(i, p)  BY <1>2, <4>3 DEF SameSource
      <4>5. WindowOK(i)  BY <1>3, <4>3 DEF WindowOK, LastFrame, SameSource
      <4>6. t.manifest # None => Found(t, d) = {}
        <5>1. i # c  BY <1>4, <2>2
        <5>2. i.source # 4  BY <4>3
        <5> QED  BY <1>2, <3>1, <5>1, <5>2, ImportOutcome
      <4> QED  BY <1>6, <3>1, <3>2, <4>3, <4>4, <4>5, <4>6
    <3>4. CASE \E ff \in Files, at \in Places, kept \in SUBSET Zones :
              /\ at \in WholeAt(d, ff) /\ kept # {}
              /\ t.manifest # None => /\ ff = t.manifest.file
                                      /\ kept = (IF t.map = None THEN WholeMap(ff) ELSE t.map \cap WholeMap(ff))
              /\ i \in Processors /\ WindowOK(i) /\ PlaysProgram(i, ff, at, kept)
              /\ i.source = 4 /\ i.pending = c.pending
      <4>1. i \in Processors /\ WindowOK(i) /\ i.source = 4 /\ i.pending = None
        BY <1>2, <3>4
      <4> QED  BY <1>6, <3>1, <3>2, <3>4, <4>1
    <3>5. i # c  BY <1>4, <2>2
    <3> QED  BY <1>2, <3>1, <3>3, <3>4, <3>5, ImportOutcome
  <2>3. CASE ~Settled(i)
    <3>1. i = c /\ (t.imported # None /\ t.manifest # None => Hollow(t.manifest.file, t.map))
      <4>1. CASE t.imported = None
        BY <2>1, <4>1
      <4>2. CASE t.imported # None
        <5>1. i = RestoreImported(c, t, d)
          BY <1>4, <2>1, <4>2
        <5> HIDE DEF i
        <5>2. i.source # 4  BY <2>3 DEF Settled
        <5>3. ~\E wanted \in Relinks : i = [c EXCEPT !.pending = wanted]
          <6> SUFFICES ASSUME NEW wanted \in Relinks, i = [c EXCEPT !.pending = wanted]  PROVE FALSE
            OBVIOUS
          <6>1. wanted # None  BY AudioAssumption
          <6>2. i.pending # None  BY <1>2, <6>1 DEF Processors
          <6> QED  BY <2>3, <6>2 DEF Settled
        <5> QED  BY <1>2, <4>2, <5>1, <5>2, <5>3, ImportOutcome
      <4> QED  BY <4>1, <4>2
    <3> HIDE DEF i
    <3>2. f = RestoreFile(c, t, d)  BY <1>4, <3>1
    <3>3. CASE t.path # None /\ t.path.at \in WholeAt(d, t.path.file)
      <4>1. t.path \in Located  BY <3>3 DEF Trees
      <4>2. f \in Processors /\ WindowOK(f) /\ PlaysFile(f, t.path) /\ f.source = 1 /\ f.pending = None
        BY <1>2, <3>2, <3>3, <4>1, FileOutcome
      <4>3. Settled(f)  BY <4>2 DEF Settled
      <4>4. g = f /\ k = f /\ q = f  BY <1>1, <4>3
      <4> HIDE DEF f, g, k
      <4> QED  BY <1>6, <3>1, <3>3, <4>2, <4>4
    <3>4. CASE ~(t.path # None /\ t.path.at \in WholeAt(d, t.path.file))
      <4>1. f = c  BY <3>2, <3>4 DEF RestoreFile
      <4> HIDE DEF f
      <4>2. g = RestoreGenerated(c, t)  BY <1>4, <4>1
      <4>3. CASE Decodes(t.generated)
        <5>1. g \in Processors /\ WindowOK(g) /\ PlaysOnly(g, t.generated.audio) /\ g.source = 2 /\ g.pending = None
          BY <1>2, <4>2, <4>3, GeneratedOutcome
        <5>2. Settled(g)  BY <5>1 DEF Settled
        <5>3. k = g /\ q = g  BY <1>1, <5>2
        <5> HIDE DEF g, k
        <5> QED  BY <1>6, <3>1, <3>4, <4>3, <5>1, <5>3
      <4>4. CASE ~Decodes(t.generated)
        <5>1. g = c  BY <4>2, <4>4 DEF RestoreGenerated
        <5> HIDE DEF g
        <5>2. k = RestoreCaptured(c, t)  BY <1>4, <5>1
        <5>3. CASE Decodes(t.captured)
          <6>1. /\ k \in Processors /\ WindowOK(k) /\ PlaysOver(k, c, t.captured.audio)
                /\ t.captured.audio \in Audio \ Unencodable /\ k.source = 3 /\ k.pending = None
            BY <1>2, <5>2, <5>3, CapturedOutcome
          <6>2. Settled(k)  BY <6>1 DEF Settled
          <6>3. q = k  BY <1>1, <6>2
          <6>4. PlaysOver(k, p, t.captured.audio)  BY <1>2, <6>1 DEF PlaysOver, SameSource
          <6> HIDE DEF k
          <6> QED  BY <1>6, <3>1, <3>4, <4>4, <5>3, <6>1, <6>3, <6>4
        <5>4. CASE ~Decodes(t.captured)
          <6>1. k = c  BY <5>2, <5>4 DEF RestoreCaptured
          <6> HIDE DEF k
          <6>2. q = NoFlags(c)  BY <1>1, <1>4, <6>1 DEF RestoreNothing
          <6>3. q = [c EXCEPT !.generated = None, !.captured = None, !.embedded = None]
            BY <6>2 DEF NoFlags
          <6>4. q \in Processors  BY <1>2, <6>3 DEF Processors
          <6>5. Forgets(q, c) /\ q.window = c.window /\ q.source = 0 /\ q.pending = None
            BY <1>2, <6>3 DEF Processors, Forgets
          <6>6. WindowOK(q)  BY <1>3, <6>5 DEF WindowOK, LastFrame, Forgets
          <6>7. Forgets(q, p)  BY <1>2, <6>5 DEF Forgets, SameSource
          <6> QED  BY <1>6, <3>1, <3>4, <4>4, <5>4, <6>4, <6>5, <6>6, <6>7
        <5> QED  BY <5>3, <5>4
      <4> QED  BY <4>3, <4>4
    <3> QED  BY <3>3, <3>4
  <2> QED  BY <2>2, <2>3
<1> QED  BY <1>5, <1>6

\* A region that fits the audio is taken as it is.
LEMMA WindowKept ==
  ASSUME NEW p \in Processors, WindowOK(p), NEW q, q.audio = p.audio
  PROVE  setSampleWindow(q, p.window) = [q EXCEPT !.window = p.window]
<1>1. LastFrame(q) = LastFrame(p)  BY DEF LastFrame
<1>2. (IF p.window \in 1..LastFrame(p) THEN p.window ELSE LastFrame(p)) = p.window
  BY DEF WindowOK
<1> QED  BY <1>1, <1>2 DEF setSampleWindow

\* The source is restored first, and the settings on top of it.
LEMMA StateOutcome ==
  ASSUME NEW p \in Processors, WindowOK(p), NEW t \in Trees, t.path # Absent, NEW d \in Disks,
         NEW r, r = setStateInformation(p, t, d)
  PROVE  LET q == RestoreSource(p, t, d)
         IN  /\ r \in Processors /\ WindowOK(r) /\ SameSource(r, q)
             /\ r.source = q.source /\ r.pending = q.pending
             /\ r.window = setSampleWindow(q, t.window).window /\ r.shape = t.shape /\ r.pads = t.pads
<1> DEFINE q == RestoreSource(p, t, d)
           w == setSampleWindow(q, t.window)
<1>1. q \in Processors  BY SourceOutcome
<1>2. t.window \in Nat /\ t.shape \in Shapes /\ t.pads \in PadLayouts  BY DEF Trees
<1>3. r = [w EXCEPT !.shape = t.shape, !.pads = t.pads]
  BY DEF setStateInformation, RestoreSettings, RestoreParameters, RestorePads
<1> HIDE DEF q
<1>4. w \in Processors /\ WindowOK(w) /\ w = [q EXCEPT !.window = w.window]
  BY <1>1, <1>2, SetWindow
<1> HIDE DEF w
<1>5. SameSource(w, q) /\ w.source = q.source /\ w.pending = q.pending
  BY <1>1, <1>4 DEF SameSource, Processors
<1>6. r \in Processors  BY <1>2, <1>3, <1>4 DEF Processors
<1>7. /\ SameSource(r, w) /\ r.source = w.source /\ r.pending = w.pending
      /\ r.window = w.window /\ r.shape = t.shape /\ r.pads = t.pads
  BY <1>3, <1>4 DEF SameSource, Processors
<1>8. WindowOK(r)  BY <1>4, <1>7 DEF WindowOK, LastFrame, SameSource
<1>9. SameSource(r, q)  BY <1>5, <1>7 DEF SameSource
<1> QED  BY <1>5, <1>6, <1>7, <1>8, <1>9 DEF q, w

\* What agrees and is not overlaid depends on the source alone.
LEMMA ConsistentSource ==
  ASSUME NEW p, Agrees(p), OverlayOK(p), NEW q \in Processors, WindowOK(q), SameSource(q, p)
  PROVE  Consistent(q) /\ Overlaid(q) = Overlaid(p)
BY DEF Consistent, Agrees, OverlayOK, Overlaid, SameSource

\* A source of its own agrees with itself, and nothing is put over it.
LEMMA OnlyConsistent ==
  ASSUME NEW q \in Processors, WindowOK(q), NEW a \in Audio, PlaysOnly(q, a)
  PROVE  Consistent(q) /\ ~Overlaid(q) /\ q.store = None
BY DEF PlaysOnly, Consistent, Agrees, OverlayOK, Overlaid

\* So does a file.
LEMMA FileConsistent ==
  ASSUME NEW q \in Processors, WindowOK(q), NEW where \in Located, PlaysFile(q, where)
  PROVE  Consistent(q) /\ ~Overlaid(q) /\ q.store = None
BY DEF PlaysFile, Consistent, Agrees, OverlayOK, Overlaid

\* So does a program, with the mapping that was kept.
LEMMA ProgramConsistent ==
  ASSUME NEW q \in Processors, WindowOK(q), NEW f \in Files, NEW at \in Places, NEW kept \in SUBSET Zones, kept # {},
         PlaysProgram(q, f, at, kept)
  PROVE  Consistent(q) /\ ~Overlaid(q) /\ q.store # None /\ q.store.file = f /\ q.store.at = at /\ q.store.map = kept
<1> DEFINE program == [file |-> f, map |-> kept]
           store == [file |-> f, at |-> at, map |-> kept]
           here == [file |-> f, at |-> at]
<1>1. store # None /\ program # None /\ f # None
  <2>1. store \in Stores /\ program \in Programs /\ f \in Audio  BY DEF Stores, Programs, Audio
  <2> QED  BY <2>1, AudioAssumption
<1>2. store.file = f /\ store.at = at /\ store.map = kept /\ here.file = f
  OBVIOUS
<1>3. program = [file |-> store.file, map |-> store.map] /\ here = [file |-> store.file, at |-> store.at]
  OBVIOUS
<1>4. /\ q.audio = f /\ q.path \in {None, here} /\ q.program = program /\ q.store = store
      /\ q.generated = None /\ q.captured = None /\ q.embedded = None
  BY DEF PlaysProgram
<1> HIDE DEF program, store, here
<1>5. Agrees(q)
  BY <1>1, <1>2, <1>3, <1>4 DEF Agrees
<1>6. ~Overlaid(q)  BY <1>2, <1>4 DEF Overlaid
<1> QED  BY <1>1, <1>2, <1>4, <1>5, <1>6 DEF OverlayOK, Consistent

\* A restore leaves a processor that agrees with itself.
LEMMA Restored ==
  ASSUME NEW p, Consistent(p), NEW t \in Trees, t.path # Absent, NEW d \in Disks, Refuses(t, p),
         NEW r, r = setStateInformation(p, t, d)
  PROVE  /\ Consistent(r)
         /\ Overlaid(r) => r.store = p.store
         /\ r.store = p.store \/ r.store = None \/ r.store.at \in WholeAt(d, r.store.file)
         /\ RestoreFailed(r) => /\ r.audio = p.audio /\ r.path = p.path /\ r.program = p.program
                                /\ r.store = p.store
                                /\ r.captured = None \/ r.captured = p.captured
<1> DEFINE q == RestoreSource(p, t, d)
<1>1. p \in Processors /\ WindowOK(p) /\ Agrees(p) /\ OverlayOK(p)
  BY DEF Consistent
<1>2. /\ r \in Processors /\ WindowOK(r) /\ SameSource(r, q)
      /\ r.source = q.source /\ r.pending = q.pending
  BY <1>1, StateOutcome
<1>3. /\ q \in Processors /\ WindowOK(q)
      /\ \/ Decodes(t.embedded) /\ PlaysOnly(q, t.embedded.audio) /\ q.source = 5 /\ q.pending = None
         \/ /\ ~Decodes(t.embedded) /\ t.imported # None /\ q.source = 4 /\ q.pending = None
            /\ \E f \in Files, at \in Places, kept \in SUBSET Zones :
                 /\ at \in WholeAt(d, f) /\ kept # {} /\ PlaysProgram(q, f, at, kept)
                 /\ t.manifest # None => /\ f = t.manifest.file
                                         /\ kept = (IF t.map = None THEN WholeMap(f) ELSE t.map \cap WholeMap(f))
         \/ /\ ~Decodes(t.embedded) /\ t.imported # None /\ SameSource(q, p) /\ q.source = 0 /\ q.pending # None
            /\ t.manifest # None => Found(t, d) = {}
         \/ /\ ~Decodes(t.embedded)
            /\ t.imported # None /\ t.manifest # None => Hollow(t.manifest.file, t.map)
            /\ q.pending = None
            /\ \/ t.path # None /\ t.path.at \in WholeAt(d, t.path.file) /\ PlaysFile(q, t.path) /\ q.source = 1
               \/ /\ t.path # None => t.path.at \notin WholeAt(d, t.path.file)
                  /\ \/ Decodes(t.generated) /\ PlaysOnly(q, t.generated.audio) /\ q.source = 2
                     \/ /\ ~Decodes(t.generated) /\ Decodes(t.captured) /\ PlaysOver(q, p, t.captured.audio)
                        /\ t.captured.audio \in Audio \ Unencodable /\ q.source = 3
                     \/ ~Decodes(t.generated) /\ ~Decodes(t.captured) /\ Forgets(q, p) /\ q.source = 0
  BY <1>1, SourceOutcome
<1> DEFINE Goal == /\ Agrees(q) /\ OverlayOK(q)
                   /\ Overlaid(q) => q.store = p.store
                   /\ q.store = p.store \/ q.store = None \/ q.store.at \in WholeAt(d, q.store.file)
                   /\ q.source = 0 \/ q.pending # None =>
                        /\ q.audio = p.audio /\ q.path = p.path /\ q.program = p.program /\ q.store = p.store
                        /\ q.captured = None \/ q.captured = p.captured
<1>4. Goal
  <2> HIDE DEF q
  <2>1. ASSUME NEW a \in Audio, PlaysOnly(q, a), q.source # 0, q.pending = None  PROVE Goal
    BY <1>3, <2>1, OnlyConsistent DEF Consistent
  <2>2. CASE Decodes(t.embedded) /\ PlaysOnly(q, t.embedded.audio) /\ q.source = 5 /\ q.pending = None
    <3>1. t.embedded.audio \in Audio  BY <2>2 DEF Decodes, Trees, StateAssets
    <3> QED  BY <2>1, <2>2, <3>1
  <2>3. ASSUME NEW f \in Files, NEW at \in Places, NEW kept \in SUBSET Zones, at \in WholeAt(d, f), kept # {},
               PlaysProgram(q, f, at, kept), q.source = 4, q.pending = None
        PROVE  Goal
    <3>1. Agrees(q) /\ OverlayOK(q) /\ ~Overlaid(q) /\ q.store.file = f /\ q.store.at = at
      BY <1>3, <2>3, ProgramConsistent DEF Consistent
    <3> QED  BY <2>3, <3>1
  <2>4. CASE SameSource(q, p)
    BY <1>1, <2>4 DEF SameSource, Agrees, OverlayOK, Overlaid
  <2>5. CASE t.path # None /\ PlaysFile(q, t.path) /\ q.source = 1 /\ q.pending = None
    <3>1. t.path \in Located  BY <2>5 DEF Trees
    <3> QED  BY <2>5 DEF PlaysFile, Agrees, OverlayOK, Overlaid
  <2>6. CASE Decodes(t.generated) /\ PlaysOnly(q, t.generated.audio) /\ q.source = 2 /\ q.pending = None
    <3>1. t.generated.audio \in Audio  BY <2>6 DEF Decodes, Trees, StateAssets
    <3> QED  BY <2>1, <2>6, <3>1
  <2>7. CASE /\ PlaysOver(q, p, t.captured.audio) /\ t.captured.audio \in Audio \ Unencodable
             /\ q.source = 3 /\ q.pending = None
    <3>1. t.captured.audio # None  BY <2>7, AudioAssumption
    <3> QED  BY <1>1, <2>7, <3>1 DEF PlaysOver, Agrees, OverlayOK, Overlaid
  <2>8. CASE /\ Forgets(q, p)
             /\ t.imported # None /\ t.manifest # None => Hollow(t.manifest.file, t.map)
             /\ q.source = 0
    <3>1. Agrees(q)  BY <1>1, <2>8 DEF Forgets, Agrees
    <3>2. Overlaid(q) = Overlaid(p) /\ q.store = p.store  BY <2>8 DEF Forgets, Overlaid
    <3>3. Overlaid(p) => Hollow(p.store.file, p.store.map)  BY <2>8 DEF Refuses
    <3>4. OverlayOK(q)  BY <3>2, <3>3 DEF OverlayOK
    <3> QED  BY <2>8, <3>1, <3>2, <3>4 DEF Forgets
  <2> HIDE DEF Goal
  <2> QED  BY <1>3, <2>2, <2>3, <2>4, <2>5, <2>6, <2>7, <2>8
<1> HIDE DEF q
<1>5. Consistent(r) /\ Overlaid(r) = Overlaid(q)
  BY <1>2, <1>4, ConsistentSource
<1>6. RestoreFailed(r) = (q.source = 0 \/ q.pending # None)
  BY <1>2 DEF RestoreFailed
<1> QED  BY <1>2, <1>4, <1>5, <1>6 DEF SameSource

-----------------------------------------------------------------------------
(* What a saved tree holds, and what comes back of it.                     *)

\* A tree of the sound of p: the host's, or the editor's, which embeds a single sample.
Keeps(t, p) ==
  /\ t \in Trees /\ t.path = p.path /\ t.path # Absent
  /\ p.store = None => t.imported = None
  /\ p.store # None => /\ t.imported = [file |-> p.store.file, at |-> p.store.at]
                       /\ t.map = p.store.map
                       /\ t.manifest = [file |-> p.store.file, root |-> p.store.at]
  /\ t.generated = encodeAudioStateAsset(p.generated)
  /\ t.captured = encodeAudioStateAsset(p.captured)
  /\ t.embedded # None => p.store = None /\ t.embedded = encodeAudioStateAsset(p.audio)
  /\ t.window = p.window /\ t.shape = p.shape /\ t.pads = p.pads

\* What getStateInformation() writes.
LEMMA StateKeeps ==
  ASSUME NEW p, Consistent(p)
  PROVE  /\ Keeps(getStateInformation(p), p)
         /\ p.embedded = None => getStateInformation(p).embedded = None
         /\ p.store = None => getStateInformation(p).map = None /\ getStateInformation(p).manifest = None
<1> DEFINE t == getStateInformation(p)
<1>1. p \in Processors /\ Agrees(p)  BY DEF Consistent
<1>2. /\ t \in Trees /\ t.path = p.path
      /\ p.store = None => t.imported = None /\ t.map = None /\ t.manifest = None
      /\ p.store # None => /\ t.imported = [file |-> p.store.file, at |-> p.store.at]
                           /\ t.map = p.store.map
                           /\ t.manifest = [file |-> p.store.file, root |-> p.store.at]
      /\ t.generated = encodeAudioStateAsset(p.generated)
      /\ t.captured = encodeAudioStateAsset(p.captured)
      /\ t.embedded = IF p.embedded = None THEN None ELSE encodeAudioStateAsset(p.audio)
      /\ t.window = p.window /\ t.shape = p.shape /\ t.pads = p.pads
  BY <1>1, StateTree
<1> HIDE DEF t
<1>3. p.path # Absent  BY <1>1, AudioAssumption DEF Processors
<1>4. t.embedded # None => p.store = None /\ t.embedded = encodeAudioStateAsset(p.audio)
  BY <1>1, <1>2 DEF Agrees
<1> QED  BY <1>2, <1>3, <1>4 DEF Keeps, t

\* What the editor keeps before it replaces a sound.
LEMMA RecoveryKeeps ==
  ASSUME NEW p, Consistent(p)
  PROVE  /\ Keeps(captureSoundRecovery(p), p)
         /\ p.store = None /\ p.path # None /\ p.audio \notin Unencodable
              => Decodes(captureSoundRecovery(p).embedded)
<1> DEFINE t == getStateInformation(p)
           x == encodeAudioStateAsset(p.audio)
           asset == createPlaybackPresetXml(p).embedded
           c == captureSoundRecovery(p)
<1>1. /\ Keeps(t, p)
      /\ p.embedded = None => t.embedded = None
  BY StateKeeps
<1>2. p \in Processors /\ Agrees(p)  BY DEF Consistent
<1>3. p.audio \in Audio \cup {None}  BY <1>2 DEF Processors
<1>4. x \in StateAssets \cup {None} /\ Decodes(x) = (x # None) /\ (x # None) = (p.audio # None /\ p.audio \notin Unencodable)
  BY <1>3, Encoded
<1>5. createPlaybackPresetXml(p) = IF t.path # None /\ t.imported = None /\ x # None
                                   THEN [t EXCEPT !.embedded = x, !.path = Absent] ELSE t
  BY DEF createPlaybackPresetXml
<1>6. c = IF p.store # None \/ p.path = None \/ asset = None THEN t ELSE [t EXCEPT !.embedded = asset]
  BY DEF captureSoundRecovery
<1> HIDE DEF t, c, x, asset
<1>7. CASE p.store # None \/ p.path = None
  BY <1>1, <1>6, <1>7 DEF c
<1>8. CASE p.store = None /\ p.path # None
  <2>1. p.embedded = None /\ p.audio # None
    <3>1. p.path \in Located  BY <1>2, <1>8 DEF Processors
    <3>2. p.path.file \in Audio  BY <3>1 DEF Located, Audio
    <3>3. p.path.file # None  BY <3>2, AudioAssumption
    <3> QED  BY <1>2, <1>8, <3>3 DEF Agrees
  <2>2. t \in Trees /\ t.path # None /\ t.imported = None /\ t.embedded = None
    BY <1>1, <1>8, <2>1 DEF Keeps
  <2>3. asset = x
    <3>1. CASE x = None  BY <1>5, <2>2, <3>1 DEF asset
    <3>2. CASE x # None  BY <1>5, <2>2, <3>2 DEF asset, Trees
    <3> QED  BY <3>1, <3>2
  <2>4. CASE x = None
    <3>1. c = t  BY <1>6, <2>3, <2>4
    <3> QED  BY <1>1, <1>4, <2>1, <2>4, <3>1 DEF c
  <2>5. CASE x # None
    <3>1. c = [t EXCEPT !.embedded = x]  BY <1>6, <1>8, <2>3, <2>5
    <3>2. c \in Trees  BY <1>4, <2>2, <3>1 DEF Trees
    <3>3. /\ c.path = t.path /\ c.imported = t.imported /\ c.map = t.map /\ c.manifest = t.manifest
          /\ c.generated = t.generated /\ c.captured = t.captured /\ c.embedded = x
          /\ c.window = t.window /\ c.shape = t.shape /\ c.pads = t.pads
      BY <2>2, <3>1 DEF Trees
    <3>4. Keeps(c, p)  BY <1>1, <1>8, <3>2, <3>3 DEF Keeps, x
    <3> QED  BY <1>4, <2>5, <3>3, <3>4 DEF c
  <2> QED  BY <2>4, <2>5
<1> QED  BY <1>7, <1>8

\* Over a recording on an instrument, a tree of that instrument is refused only for the mapping
\* that is there.
LEMMA KeepsRefuses ==
  ASSUME NEW p, Consistent(p), NEW t, Keeps(t, p), NEW r, Overlaid(r) => r.store = p.store
  PROVE  Refuses(t, r)
<1>1. CASE Overlaid(r)
  <2>1. p.store # None /\ r.store = p.store  BY <1>1 DEF Overlaid
  <2>2. /\ t.imported = [file |-> p.store.file, at |-> p.store.at]
        /\ t.manifest = [file |-> p.store.file, root |-> p.store.at] /\ t.map = p.store.map
    BY <2>1 DEF Keeps
  <2>3. t.manifest.file = p.store.file  BY <2>2
  <2>4. p.store \in Stores  BY <2>1 DEF Consistent, Processors
  <2>5. t.imported \in Located /\ t.manifest \in Manifests
    BY <2>2, <2>4 DEF Stores, Located, Manifests
  <2>6. t.imported # None /\ t.manifest # None  BY <2>5, AudioAssumption
  <2> QED  BY <2>1, <2>2, <2>3, <2>6 DEF Refuses
<1> QED  BY <1>1 DEF Refuses

\* What a restore gives back.  Either it is the sound that was saved, or the processor n did not
\* play its source and one of these holds: the instrument is not where it is looked for, a
\* recording is put over an instrument, or the tree has nothing that can be had.
LEMMA Regained ==
  ASSUME NEW p, Consistent(p), NEW t, Keeps(t, p),
         p.store # None => t.captured = None /\ p.store.map \subseteq WholeMap(p.store.file),
         NEW n \in Processors, WindowOK(n), NEW d \in Disks, NEW r, r = setStateInformation(n, t, d)
  PROVE  \/ Sound(r) = Sound(p)
         \/ /\ n.audio # p.audio \/ n.program # p.program
            /\ ~Decodes(t.embedded)
            /\ \/ p.store # None /\ Found(t, d) = {}
               \/ p.store = None /\ Decodes(t.captured) /\ n.program # None
               \/ /\ p.store = None /\ ~Decodes(t.generated) /\ ~Decodes(t.captured)
                  /\ t.path # None => t.path.at \notin WholeAt(d, t.path.file)
<1> DEFINE q == RestoreSource(n, t, d)
<1>1. /\ p \in Processors /\ WindowOK(p) /\ Agrees(p) /\ OverlayOK(p)
  BY DEF Consistent
<1>2. t \in Trees /\ t.path # Absent /\ t.path = p.path /\ t.window = p.window /\ t.shape = p.shape /\ t.pads = p.pads
  BY DEF Keeps
<1>3. /\ r \in Processors /\ SameSource(r, q)
      /\ r.window = setSampleWindow(q, t.window).window /\ r.shape = t.shape /\ r.pads = t.pads
  BY <1>2, StateOutcome
<1>4. /\ q \in Processors
      /\ \/ Decodes(t.embedded) /\ PlaysOnly(q, t.embedded.audio)
         \/ /\ ~Decodes(t.embedded) /\ t.imported # None
            /\ \E f \in Files, at \in Places, kept \in SUBSET Zones :
                 /\ PlaysProgram(q, f, at, kept)
                 /\ t.manifest # None => /\ f = t.manifest.file
                                         /\ kept = (IF t.map = None THEN WholeMap(f) ELSE t.map \cap WholeMap(f))
         \/ /\ ~Decodes(t.embedded) /\ t.imported # None /\ SameSource(q, n)
            /\ t.manifest # None => Found(t, d) = {}
         \/ /\ ~Decodes(t.embedded)
            /\ t.imported # None /\ t.manifest # None => Hollow(t.manifest.file, t.map)
            /\ \/ t.path # None /\ PlaysFile(q, t.path)
               \/ /\ t.path # None => t.path.at \notin WholeAt(d, t.path.file)
                  /\ \/ Decodes(t.generated) /\ PlaysOnly(q, t.generated.audio)
                     \/ /\ Decodes(t.captured) /\ PlaysOver(q, n, t.captured.audio)
                     \/ ~Decodes(t.generated) /\ ~Decodes(t.captured) /\ Forgets(q, n)
  BY <1>2, SourceOutcome
<1> HIDE DEF q
<1>5. ASSUME q.audio = p.audio, q.program = p.program  PROVE Sound(r) = Sound(p)
  <2>1. setSampleWindow(q, p.window) = [q EXCEPT !.window = p.window]
    BY <1>1, <1>5, WindowKept
  <2>2. r.window = p.window  BY <1>2, <1>3, <1>4, <2>1 DEF Processors
  <2>3. r.audio = p.audio /\ r.program = p.program /\ r.shape = p.shape /\ r.pads = p.pads
    BY <1>2, <1>3, <1>5 DEF SameSource
  <2> QED  BY <2>2, <2>3 DEF Sound
<1>6. ASSUME p.store # None
      PROVE  /\ t.imported # None /\ t.manifest # None /\ t.manifest.file = p.store.file /\ t.map = p.store.map
             /\ p.audio = p.store.file /\ p.program = [file |-> p.store.file, map |-> p.store.map]
             /\ ~Hollow(p.store.file, p.store.map) /\ ~Decodes(t.embedded)
             /\ (IF t.map = None THEN WholeMap(p.store.file) ELSE t.map \cap WholeMap(p.store.file)) = p.store.map
  <2>1. p.store \in Stores  BY <1>1, <1>6 DEF Processors
  <2>2. /\ t.imported = [file |-> p.store.file, at |-> p.store.at]
        /\ t.manifest = [file |-> p.store.file, root |-> p.store.at] /\ t.map = p.store.map
    BY <1>6 DEF Keeps
  <2>3. t.imported \in Located /\ t.manifest \in Manifests
    BY <2>1, <2>2 DEF Stores, Located, Manifests
  <2>4. t.imported # None /\ t.manifest # None /\ t.manifest.file = p.store.file
    BY <2>2, <2>3, AudioAssumption
  <2>5. p.store.map # None /\ p.store.map # {} /\ p.store.map \cap WholeMap(p.store.file) = p.store.map
    <3>1. p.store.map \in SUBSET Zones  BY <2>1 DEF Stores
    <3> QED  BY <1>1, <1>6, <3>1, AudioAssumption DEF Agrees
  <2>6. ~Hollow(p.store.file, p.store.map)  BY <2>5 DEF Hollow
  <2>7. ~Overlaid(p)
    <3> SUFFICES ASSUME Overlaid(p) PROVE FALSE  OBVIOUS
    <3>1. p.captured = p.audio /\ p.audio \notin Unencodable  BY <1>1, <2>6 DEF OverlayOK
    <3>2. p.audio \in Audio  BY <1>1, <1>6 DEF Agrees, Processors
    <3>3. encodeAudioStateAsset(p.captured) # None  BY <3>1, <3>2, Encoded, AudioAssumption
    <3> QED  BY <1>6, <3>3 DEF Keeps
  <2>8. ~Decodes(t.embedded)  BY <1>6 DEF Keeps, Decodes
  <2> QED  BY <1>1, <1>6, <2>2, <2>4, <2>5, <2>6, <2>7, <2>8 DEF Agrees, Overlaid
<1>7. ASSUME p.store = None  PROVE p.program = None /\ t.imported = None
  BY <1>1, <1>7 DEF Agrees, Keeps
<1>8. /\ Decodes(t.embedded) => p.store = None /\ t.embedded.audio = p.audio
      /\ Decodes(t.generated) => t.generated.audio = p.audio
      /\ Decodes(t.captured) => t.captured.audio = p.audio
  <2>1. p.audio \in Audio \cup {None} /\ p.generated \in Audio \cup {None} /\ p.captured \in Audio \cup {None}
    BY <1>1 DEF Processors
  <2>2. Decodes(t.embedded) => p.store = None /\ t.embedded.audio = p.audio
    BY <2>1, Encoded DEF Keeps, Decodes
  <2>3. Decodes(t.generated) => p.generated # None /\ t.generated.audio = p.generated
    BY <2>1, Encoded DEF Keeps, Decodes
  <2>4. Decodes(t.captured) => p.captured # None /\ t.captured.audio = p.captured
    BY <2>1, Encoded DEF Keeps, Decodes
  <2> QED  BY <1>1, <2>2, <2>3, <2>4 DEF Agrees
<1>9. CASE Decodes(t.embedded) /\ PlaysOnly(q, t.embedded.audio)
  BY <1>5, <1>7, <1>8, <1>9 DEF PlaysOnly
<1>10. CASE /\ ~Decodes(t.embedded) /\ t.imported # None
            /\ \E f \in Files, at \in Places, kept \in SUBSET Zones :
                 /\ PlaysProgram(q, f, at, kept)
                 /\ t.manifest # None => /\ f = t.manifest.file
                                         /\ kept = (IF t.map = None THEN WholeMap(f) ELSE t.map \cap WholeMap(f))
  <2>1. p.store # None  BY <1>7, <1>10
  <2>2. PICK f \in Files, at \in Places, kept \in SUBSET Zones :
                 /\ PlaysProgram(q, f, at, kept)
                 /\ t.manifest # None => /\ f = t.manifest.file
                                         /\ kept = (IF t.map = None THEN WholeMap(f) ELSE t.map \cap WholeMap(f))
    BY <1>10
  <2>3. f = p.store.file /\ kept = p.store.map
    BY <1>6, <2>1, <2>2
  <2>4. q.audio = p.audio /\ q.program = p.program
    BY <1>6, <2>1, <2>2, <2>3 DEF PlaysProgram
  <2> QED  BY <1>5, <2>4
<1>11. CASE /\ ~Decodes(t.embedded) /\ t.imported # None /\ SameSource(q, n)
            /\ t.manifest # None => Found(t, d) = {}
  <2>1. p.store # None  BY <1>7, <1>11
  <2>2. Found(t, d) = {}  BY <1>6, <1>11, <2>1
  <2>3. q.audio = n.audio /\ q.program = n.program  BY <1>11 DEF SameSource
  <2> QED  BY <1>5, <1>11, <2>1, <2>2, <2>3
<1>12. CASE /\ ~Decodes(t.embedded)
            /\ t.imported # None /\ t.manifest # None => Hollow(t.manifest.file, t.map)
            /\ \/ t.path # None /\ PlaysFile(q, t.path)
               \/ /\ t.path # None => t.path.at \notin WholeAt(d, t.path.file)
                  /\ \/ Decodes(t.generated) /\ PlaysOnly(q, t.generated.audio)
                     \/ /\ Decodes(t.captured) /\ PlaysOver(q, n, t.captured.audio)
                     \/ ~Decodes(t.generated) /\ ~Decodes(t.captured) /\ Forgets(q, n)
  <2>1. p.store = None /\ p.program = None  BY <1>6, <1>7, <1>12
  <2>2. CASE t.path # None /\ PlaysFile(q, t.path)
    <3>1. q.audio = p.audio  BY <1>1, <1>2, <2>2 DEF PlaysFile, Agrees
    <3> QED  BY <1>5, <2>1, <2>2, <3>1 DEF PlaysFile
  <2>3. CASE Decodes(t.generated) /\ PlaysOnly(q, t.generated.audio)
    BY <1>5, <1>8, <2>1, <2>3 DEF PlaysOnly
  <2>4. CASE Decodes(t.captured) /\ PlaysOver(q, n, t.captured.audio)
    <3>1. q.audio = p.audio /\ q.program = n.program  BY <1>8, <2>4 DEF PlaysOver
    <3> QED  BY <1>5, <1>12, <2>1, <2>4, <3>1
  <2>5. CASE /\ t.path # None => t.path.at \notin WholeAt(d, t.path.file)
             /\ ~Decodes(t.generated) /\ ~Decodes(t.captured) /\ Forgets(q, n)
    <3>1. q.audio = n.audio /\ q.program = n.program  BY <2>5 DEF Forgets
    <3> QED  BY <1>5, <1>12, <2>1, <2>5, <3>1
  <2> QED  BY <1>12, <2>2, <2>3, <2>4, <2>5
<1> QED  BY <1>4, <1>9, <1>10, <1>11, <1>12

-----------------------------------------------------------------------------
(* Presets, rollbacks, relinks and edits.                                  *)

\* createPlaybackPresetXml() gives a tree.
LEMMA PresetTree ==
  ASSUME NEW p, Consistent(p)
  PROVE  createPlaybackPresetXml(p) \in Trees
<1> DEFINE t == getStateInformation(p)
           x == encodeAudioStateAsset(p.audio)
<1>1. t \in Trees  BY StateKeeps DEF Keeps
<1>2. x \in StateAssets \cup {None}  BY Encoded DEF Consistent, Processors
<1>3. createPlaybackPresetXml(p) = IF t.path # None /\ t.imported = None /\ x # None
                                   THEN [t EXCEPT !.embedded = x, !.path = Absent] ELSE t
  BY DEF createPlaybackPresetXml
<1> HIDE DEF t, x
<1>4. x # None => [t EXCEPT !.embedded = x, !.path = Absent] \in Trees
  BY <1>1, <1>2 DEF Trees
<1> QED  BY <1>1, <1>3, <1>4

\* What a preset leaves out is what the processor has, its instrument above all.
LEMMA Merged ==
  ASSUME NEW p, Consistent(p), NEW saved \in Trees, NEW m, m = MergePreset(getStateInformation(p), saved)
  PROVE  m \in Trees /\ m.path # Absent /\ Refuses(m, p)
<1> DEFINE t == getStateInformation(p)
           path == IF saved.path = Absent THEN t.path ELSE saved.path
           imported == IF saved.imported = None THEN t.imported ELSE saved.imported
           generated == IF saved.generated = None THEN t.generated ELSE saved.generated
           captured == IF saved.captured = None THEN t.captured ELSE saved.captured
           embedded == IF saved.embedded = None THEN t.embedded ELSE saved.embedded
<1>1. Keeps(t, p)  BY StateKeeps
<1>2. m = [saved EXCEPT !.path = path, !.imported = imported, !.generated = generated,
                          !.captured = captured, !.embedded = embedded,
                          !.map = t.map, !.manifest = t.manifest]
  BY DEF MergePreset
<1>3. t \in Trees /\ t.path # Absent  BY <1>1 DEF Keeps
<1> HIDE DEF t
<1>4. path \in (Located \cup {None, Absent}) \ {Absent}
  BY <1>3 DEF Trees
<1>5. /\ imported \in Located \cup {None} /\ generated \in StateAssets \cup {None}
      /\ captured \in StateAssets \cup {None} /\ embedded \in StateAssets \cup {None}
      /\ (t.imported # None => imported # None)
  BY <1>3 DEF Trees
<1> HIDE DEF path, imported, generated, captured, embedded
<1>6. m \in Trees  BY <1>2, <1>3, <1>4, <1>5, ZenonT(30) DEF Trees
<1>7. m.path = path /\ m.imported = imported /\ m.map = t.map /\ m.manifest = t.manifest
  BY <1>2 DEF Trees
<1>8. Refuses(t, p)  BY <1>1, KeepsRefuses
<1>9. Refuses(m, p)  BY <1>5, <1>7, <1>8 DEF Refuses
<1> QED  BY <1>4, <1>6, <1>7, <1>9

\* Put back after a restore that failed, a sound is not put over another instrument.
LEMMA RolledBack ==
  ASSUME NEW p, Consistent(p), NEW n, Consistent(n),
         n.audio = p.audio, n.program = p.program, n.store = p.store,
         NEW d \in Disks, NEW r, r = setStateInformation(n, captureSoundRecovery(p), d)
  PROVE  /\ Consistent(r)
         /\ Overlaid(r) => Overlaid(p) /\ r.store = p.store
         /\ r.store = p.store \/ r.store = None \/ r.store.at \in WholeAt(d, r.store.file)
<1> DEFINE t == captureSoundRecovery(p)
           q == RestoreSource(n, t, d)
<1>1. Keeps(t, p)  BY RecoveryKeeps
<1> HIDE DEF t
<1>2. t \in Trees /\ t.path # Absent  BY <1>1 DEF Keeps
<1>3. Overlaid(n) => n.store = p.store  OBVIOUS
<1>4. Refuses(t, n)  BY <1>1, <1>3, KeepsRefuses
<1>5. /\ Consistent(r) /\ (Overlaid(r) => r.store = p.store)
      /\ r.store = p.store \/ r.store = None \/ r.store.at \in WholeAt(d, r.store.file)
  BY <1>2, <1>4, Restored DEF t
<1>6. n \in Processors /\ WindowOK(n)  BY DEF Consistent
<1>7. SameSource(r, q)  BY <1>2, <1>6, StateOutcome DEF t
<1>8. /\ q \in Processors /\ WindowOK(q)
      /\ \/ Decodes(t.embedded) /\ PlaysOnly(q, t.embedded.audio)
         \/ \E f \in Files, at \in Places, kept \in SUBSET Zones : kept # {} /\ PlaysProgram(q, f, at, kept)
         \/ SameSource(q, n)
         \/ t.path # None /\ PlaysFile(q, t.path)
         \/ Decodes(t.generated) /\ PlaysOnly(q, t.generated.audio)
         \/ Decodes(t.captured) /\ PlaysOver(q, n, t.captured.audio)
         \/ Forgets(q, n)
  BY <1>2, <1>6, SourceOutcome
<1> HIDE DEF q
<1>9. q.store = None \/ ~Overlaid(q) \/ q.audio = p.audio
  <2>1. CASE Decodes(t.embedded) /\ PlaysOnly(q, t.embedded.audio)
    BY <2>1 DEF PlaysOnly
  <2>2. CASE \E f \in Files, at \in Places, kept \in SUBSET Zones : kept # {} /\ PlaysProgram(q, f, at, kept)
    BY <1>8, <2>2, ProgramConsistent
  <2>3. CASE SameSource(q, n)  BY <2>3 DEF SameSource
  <2>4. CASE t.path # None /\ PlaysFile(q, t.path)  BY <2>4 DEF PlaysFile
  <2>5. CASE Decodes(t.generated) /\ PlaysOnly(q, t.generated.audio)
    BY <2>5 DEF PlaysOnly
  <2>6. CASE Decodes(t.captured) /\ PlaysOver(q, n, t.captured.audio)
    <3>1. p.captured \in Audio \cup {None}  BY DEF Consistent, Processors
    <3>2. p.captured # None /\ t.captured.audio = p.captured
      BY <1>1, <2>6, <3>1, Encoded DEF Keeps, Decodes
    <3>3. p.captured = p.audio  BY <3>2 DEF Consistent, Agrees
    <3> QED  BY <2>6, <3>2, <3>3 DEF PlaysOver
  <2>7. CASE Forgets(q, n)  BY <2>7 DEF Forgets
  <2> QED  BY <1>8, <2>1, <2>2, <2>3, <2>4, <2>5, <2>6, <2>7
<1>10. Overlaid(r) => Overlaid(p)
  BY <1>5, <1>7, <1>9 DEF Overlaid, SameSource
<1> QED  BY <1>5, <1>10

\* A relink takes the instrument from the folder, whole, or changes nothing.
LEMMA Relinked ==
  ASSUME NEW p, Consistent(p), p.pending # None, NEW root \in Places, NEW d \in Disks,
         NEW r, r = relinkPendingImportedProgramFromFolder(p, root, d)
  PROVE  \/ r = p
         \/ Consistent(r) /\ ~Overlaid(r) /\ r.store.at \in WholeAt(d, r.store.file)
<1> DEFINE f == p.pending.file
           map == p.pending.map
           found == resolveImportedAssetManifest(f, {root}, d)
           c == [p EXCEPT !.source = 0]
           q == restoreImportedProgramFromState(c, f, root, map)
<1>1. p \in Processors /\ p.pending \in Relinks  BY DEF Consistent, Processors
<1>2. f \in Files /\ map \in Maps  BY <1>1 DEF Relinks
<1>3. c \in Processors /\ c.source = 0
  <2>1. 0 \in 0..5  OBVIOUS
  <2> QED  BY <1>1, <2>1 DEF Processors
<1>4. r = IF found = {} \/ q.source # 4 THEN p ELSE clearPendingImportedAssetRelink(q)
  BY DEF relinkPendingImportedProgramFromFolder
<1>5. found # {} => root \in WholeAt(d, f)
  BY DEF resolveImportedAssetManifest
<1> HIDE DEF c, f, map, found
<1>6. \/ q = c /\ Hollow(f, map)
      \/ \E kept \in SUBSET Zones :
           /\ kept = (IF map = None THEN WholeMap(f) ELSE map \cap WholeMap(f)) /\ kept # {}
           /\ q \in Processors /\ WindowOK(q) /\ PlaysProgram(q, f, root, kept)
           /\ q.source = 4 /\ q.pending = c.pending
  BY <1>2, <1>3, ImportedOutcome
<1> HIDE DEF q
<1>7. CASE found = {} \/ q.source # 4
  BY <1>4, <1>7
<1>8. CASE ~(found = {} \/ q.source # 4)
  <2>1. PICK kept \in SUBSET Zones :
           /\ kept # {}
           /\ q \in Processors /\ WindowOK(q) /\ PlaysProgram(q, f, root, kept)
    BY <1>3, <1>6, <1>8
  <2>2. r = [q EXCEPT !.pending = None]  BY <1>4, <1>8 DEF clearPendingImportedAssetRelink
  <2>3. r \in Processors /\ SameSource(r, q) /\ r.window = q.window
    BY <2>1, <2>2 DEF Processors, SameSource
  <2>4. WindowOK(r)  BY <2>1, <2>3 DEF WindowOK, LastFrame, SameSource
  <2>5. PlaysProgram(r, f, root, kept)  BY <2>1, <2>3 DEF PlaysProgram, SameSource
  <2>6. Consistent(r) /\ ~Overlaid(r) /\ r.store.file = f /\ r.store.at = root
    BY <1>2, <2>1, <2>3, <2>4, <2>5, ProgramConsistent
  <2> QED  BY <1>5, <1>8, <2>6
<1> QED  BY <1>7, <1>8

\* Edits of the region, of the shaping and of the pads leave the source alone.
LEMMA Reshaped ==
  ASSUME NEW p, Consistent(p), NEW end \in Nat,
         NEW r, r \in {setSampleWindow(p, end), [p EXCEPT !.shape = "shaped", !.pads = "custom"]}
  PROVE  Consistent(r) /\ SameSource(r, p) /\ Overlaid(r) = Overlaid(p)
<1>1. p \in Processors /\ WindowOK(p)  BY DEF Consistent
<1>2. r \in Processors /\ WindowOK(r) /\ SameSource(r, p)
  <2>1. CASE r = setSampleWindow(p, end)
    <3>1. r \in Processors /\ WindowOK(r) /\ r = [p EXCEPT !.window = r.window]
      BY <1>1, <2>1, SetWindow
    <3> QED  BY <1>1, <3>1 DEF SameSource, Processors
  <2>2. CASE r = [p EXCEPT !.shape = "shaped", !.pads = "custom"]
    <3>1. r \in Processors /\ SameSource(r, p) /\ r.window = p.window
      BY <1>1, <2>2 DEF Processors, SameSource, Shapes, PadLayouts
    <3> QED  BY <1>1, <3>1 DEF WindowOK, LastFrame, SameSource
  <2> QED  BY <2>1, <2>2
<1>3. Consistent(r) /\ Overlaid(r) = Overlaid(p)
  BY <1>2, ConsistentSource DEF Consistent
<1> QED  BY <1>2, <1>3

\* Edits of the mapping keep a mapping that would be refused one that would be refused.
LEMMA Remapped ==
  ASSUME NEW p, Consistent(p), p.program # None, NEW map \in SUBSET Zones, map # {},
         Hollow(p.store.file, p.store.map) => Hollow(p.store.file, map),
         NEW r, r = WithMap(p, map)
  PROVE  /\ Consistent(r) /\ Overlaid(r) = Overlaid(p)
         /\ r.store # None /\ r.store.file = p.store.file /\ r.store.at = p.store.at /\ r.store.map = map
<1>1. p \in Processors /\ WindowOK(p) /\ Agrees(p) /\ OverlayOK(p)  BY DEF Consistent
<1>2. p.program \in Programs /\ p.store \in Stores
  BY <1>1 DEF Processors, Agrees
<1> DEFINE program == [p.program EXCEPT !.map = map]
           store == [p.store EXCEPT !.map = map]
<1>3. /\ program \in Programs /\ store \in Stores
      /\ store.file = p.store.file /\ store.at = p.store.at /\ store.map = map
      /\ program = [file |-> p.program.file, map |-> map] /\ p.program.file = p.store.file
  BY <1>1, <1>2 DEF Programs, Stores, Agrees
<1>4. store # None /\ program # None /\ p.store # None  BY <1>2, <1>3, AudioAssumption
<1>5. r = [p EXCEPT !.program = program, !.store = store]
  BY <1>1 DEF WithMap, Processors
<1> HIDE DEF program, store
<1>6. r \in Processors  BY <1>1, <1>3, <1>5 DEF Processors
<1>7. /\ r.audio = p.audio /\ r.path = p.path /\ r.program = program /\ r.store = store
      /\ r.generated = p.generated /\ r.captured = p.captured /\ r.embedded = p.embedded /\ r.window = p.window
  BY <1>1, <1>5 DEF Processors
<1>8. WindowOK(r)  BY <1>1, <1>7 DEF WindowOK, LastFrame
<1>9. Agrees(r)  BY <1>1, <1>3, <1>4, <1>7 DEF Agrees
<1>10. Overlaid(r) = Overlaid(p)  BY <1>3, <1>4, <1>7 DEF Overlaid
<1>11. OverlayOK(r)  BY <1>1, <1>3, <1>7, <1>10 DEF OverlayOK
<1> QED  BY <1>3, <1>4, <1>6, <1>7, <1>8, <1>9, <1>10, <1>11 DEF Consistent

-----------------------------------------------------------------------------
(* The inductive invariant of a session.                                   *)

\* The folder an instrument was published from.
Where(p) == IF p.store = None THEN None ELSE [file |-> p.store.file, at |-> p.store.at]

\* An instrument published anew lies whole in its folder.
Published(d, p, q) ==
  Where(q) # Where(p) /\ Where(q) # None => d[q.store.file][q.store.at] = "whole"

\* The saved trees are those of sounds that could be heard; only the audio in a preset can be damaged.
ProjectOf(s) ==
  s # None => \E p : Consistent(p) /\ s.tree = getStateInformation(p) /\ s.sound = Sound(p)

PreviousOf(s) ==
  s # None => \E p : Consistent(p) /\ s.tree = captureSoundRecovery(p) /\ s.sound = Sound(p)

PresetOf(s) == s # None => s = [tree |-> s.tree, sound |-> s.sound] /\ s.tree \in Trees

SessionInv == SoundInv /\ ProjectOf(project) /\ PreviousOf(previous) /\ PresetOf(preset)

\* The engine starts with nothing at all.
LEMMA FreshConsistent == Consistent(Fresh) /\ ~Overlaid(Fresh)
<1>1. Fresh \in Processors
  <2>1. 0 \in 0..5 /\ 0 \in Nat  OBVIOUS
  <2> QED  BY <2>1 DEF Fresh, Processors, Shapes, PadLayouts
<1>2. WindowOK(Fresh)  BY DEF Fresh, WindowOK, LastFrame
<1>3. Agrees(Fresh) /\ OverlayOK(Fresh) /\ ~Overlaid(Fresh)
  BY DEF Fresh, Agrees, OverlayOK, Overlaid
<1> QED  BY <1>1, <1>2, <1>3 DEF Consistent

\* The invariant holds at first.
LEMMA InitInv == Init => SessionInv
BY FreshConsistent DEF Init, SessionInv, SoundInv, Disks, ProjectOf, PreviousOf, PresetOf

\* What makes a publication a whole one.
LEMMA WholeStore ==
  ASSUME NEW d, NEW p, NEW q,
         q.store = p.store \/ q.store = None \/ q.store.at \in WholeAt(d, q.store.file)
  PROVE  Published(d, p, q)
BY DEF Published, Where, WholeAt

\* What the editor puts by is remembered with the sound it came from.
LEMMA PutBy ==
  ASSUME Consistent(proc), NEW r, Overlaid(r) => r.store = proc.store
  PROVE  LET s == Saved(captureSoundRecovery(proc))
         IN  PreviousOf(s) /\ Refuses(s.tree, r)
<1> DEFINE t == captureSoundRecovery(proc)
           s == Saved(t)
<1>1. s.tree = t /\ s.sound = Sound(proc)  BY DEF Saved
<1>2. Refuses(t, r)  BY RecoveryKeeps, KeepsRefuses
<1> HIDE DEF s, t
<1>3. PreviousOf(s)  BY <1>1 DEF PreviousOf, t
<1> QED  BY <1>1, <1>2, <1>3 DEF s, t

\* A new source keeps the invariant, whichever it is.
LEMMA ReplaceStep ==
  ASSUME SessionInv, NEW p, Consistent(p), ~Overlaid(p), Replace(p),
         p.store = None \/ p.store.at \in WholeAt(disk, p.store.file)
  PROVE  SessionInv' /\ Published(disk, proc, proc')
<1>1. /\ proc' = p /\ previous' = Saved(captureSoundRecovery(proc))
      /\ disk' = disk /\ project' = project /\ preset' = preset
  BY DEF Replace
<1>2. disk \in Disks /\ Consistent(proc)  BY DEF SessionInv, SoundInv
<1>3. PreviousOf(previous') /\ Refuses(previous'.tree, p)
  BY <1>1, <1>2, PutBy
<1>4. SoundInv'  BY <1>1, <1>2, <1>3 DEF SoundInv
<1>5. ProjectOf(project)' /\ PresetOf(preset)' /\ PreviousOf(previous)'
  BY <1>1, <1>3 DEF SessionInv
<1>6. Published(disk, proc, proc')  BY <1>1, WholeStore
<1> QED  BY <1>4, <1>5, <1>6 DEF SessionInv

\* LoadSample, ImportInstrument, autoSliceLoadedSample, Generate and Record.
LEMMA LoadStep ==
  ASSUME SessionInv, LoadSample \/ ImportInstrument \/ autoSliceLoadedSample \/ Generate \/ Record
  PROVE  SessionInv' /\ Published(disk, proc, proc')
<1>1. disk \in Disks /\ Consistent(proc) /\ proc \in Processors  BY DEF SessionInv, SoundInv, Consistent
<1>2. ASSUME NEW f \in Files, NEW at \in WholeAt(disk, f), Replace(publishProgram(proc, f, at, WholeMap(f)))
      PROVE  SessionInv' /\ Published(disk, proc, proc')
  <2> DEFINE map == WholeMap(f)
             q == publishProgram(proc, f, at, map)
  <2>1. Assets[f] \in Nat \ {0}  BY AudioAssumption
  <2>2. 1..Assets[f] \subseteq 1..(Assets[f] + 1) /\ 1 \in 1..Assets[f]  BY <2>1
  <2>3. map \in SUBSET Zones /\ map # {} /\ at \in Places
    BY <2>2 DEF Zones, WholeMap, WholeAt
  <2> HIDE DEF map
  <2>4. q \in Processors /\ WindowOK(q) /\ PlaysProgram(q, f, at, map)
    BY <1>1, <2>3, PublishProgram DEF PlaysProgram
  <2>5. Replace(q)  BY <1>2 DEF map
  <2> HIDE DEF q
  <2>6. Consistent(q) /\ ~Overlaid(q) /\ q.store.at \in WholeAt(disk, q.store.file)
    BY <1>2, <2>3, <2>4, ProgramConsistent
  <2> QED  BY <2>5, <2>6, ReplaceStep
<1>3. ASSUME NEW x \in Audio, NEW q, Replace(q),
             q \in {loadGeneratedWaveformAsSample(proc, x), loadCapturedAudioAsSample(proc, x)}
      PROVE  SessionInv' /\ Published(disk, proc, proc')
  <2>1. q \in Processors /\ WindowOK(q) /\ PlaysOnly(q, x)
    BY <1>1, <1>3, PublishOther DEF PlaysOnly
  <2>2. Consistent(q) /\ ~Overlaid(q) /\ q.store = None  BY <2>1, OnlyConsistent
  <2> QED  BY <1>3, <2>2, ReplaceStep
<1>4. CASE LoadSample
  <2>1. PICK f \in Samples : \E at \in WholeAt(disk, f) : Replace(publishFile(proc, f, at))
    BY <1>4 DEF LoadSample
  <2>7. PICK at \in WholeAt(disk, f) : Replace(publishFile(proc, f, at))
    BY <2>1
  <2> DEFINE q == publishFile(proc, f, at)
             where == [file |-> f, at |-> at]
  <2>2. f \in Files /\ at \in Places  BY DEF Files, WholeAt
  <2>3. where \in Located /\ where.file = f  BY <2>2 DEF Located
  <2>4. q \in Processors /\ WindowOK(q) /\ PlaysFile(q, where)
    BY <1>1, <2>2, <2>3, PublishFile DEF PlaysFile
  <2>5. Replace(q)  BY <2>7
  <2> HIDE DEF q, where
  <2>6. Consistent(q) /\ ~Overlaid(q) /\ q.store = None  BY <2>3, <2>4, FileConsistent
  <2> QED  BY <2>5, <2>6, ReplaceStep
<1>5. CASE ImportInstrument
  BY <1>2, <1>5 DEF ImportInstrument, Files
<1>6. CASE autoSliceLoadedSample
  <2>1. /\ proc.path # None /\ proc.path.at \in WholeAt(disk, proc.path.file)
        /\ Replace(publishProgram(proc, proc.path.file, proc.path.at, WholeMap(proc.path.file)))
    BY <1>6 DEF autoSliceLoadedSample
  <2>2. proc.path.file \in Files  BY <1>1, <2>1 DEF Processors, Located
  <2> QED  BY <1>2, <2>1, <2>2
<1>7. CASE Generate
  <2>1. PICK w \in Waves : Replace(loadGeneratedWaveformAsSample(proc, w))  BY <1>7 DEF Generate
  <2>2. w \in Audio  BY DEF Audio
  <2> QED  BY <1>3, <2>1, <2>2
<1>8. CASE Record
  <2>1. PICK t \in Takes : Replace(loadCapturedAudioAsSample(proc, t))  BY <1>8 DEF Record
  <2>2. t \in Audio  BY DEF Audio
  <2> QED  BY <1>3, <2>1, <2>2
<1> QED  BY <1>4, <1>5, <1>6, <1>7, <1>8

\* An edit that leaves the overlay and what would be refused as they are keeps the invariant.
LEMMA EditInv ==
  ASSUME SessionInv, NEW p, Consistent(p), Edit(p),
         Overlaid(p) => /\ Overlaid(proc)
                        /\ Hollow(proc.store.file, proc.store.map) => Hollow(p.store.file, p.store.map)
  PROVE  SessionInv' /\ proc' = p
<1>1. /\ proc' = p /\ disk' = disk /\ project' = project /\ preset' = preset /\ previous' = previous
  BY DEF Edit
<1>2. disk \in Disks /\ Consistent(proc) /\ (previous # None => Refuses(previous.tree, proc))
  BY DEF SessionInv, SoundInv
<1>3. previous # None => Refuses(previous.tree, p)  BY <1>2 DEF Refuses
<1>4. SoundInv'  BY <1>1, <1>2, <1>3 DEF SoundInv
<1>5. ProjectOf(project)' /\ PresetOf(preset)' /\ PreviousOf(previous)'
  BY <1>1 DEF SessionInv
<1> QED  BY <1>1, <1>4, <1>5 DEF SessionInv

\* SetRegion, Shape, DeleteZones and AddSample.
LEMMA EditStep ==
  ASSUME SessionInv, SetRegion \/ Shape \/ DeleteZones \/ AddSample
  PROVE  SessionInv' /\ Published(disk, proc, proc')
<1>1. Consistent(proc) /\ proc \in Processors /\ Agrees(proc)  BY DEF SessionInv, SoundInv, Consistent
<1>2. ASSUME NEW end \in Nat, NEW r, Edit(r),
             r \in {setSampleWindow(proc, end), [proc EXCEPT !.shape = "shaped", !.pads = "custom"]}
      PROVE  SessionInv' /\ Published(disk, proc, proc')
  <2>1. Consistent(r) /\ SameSource(r, proc) /\ Overlaid(r) = Overlaid(proc)  BY <1>1, <1>2, Reshaped
  <2>2. r.store = proc.store  BY <2>1 DEF SameSource
  <2>3. SessionInv' /\ proc' = r  BY <1>2, <2>1, <2>2, EditInv
  <2> QED  BY <2>2, <2>3, WholeStore
<1>3. ASSUME NEW map \in SUBSET Zones, map # {}, proc.program # None, Edit(WithMap(proc, map)),
             Hollow(proc.store.file, proc.store.map) => Hollow(proc.store.file, map)
      PROVE  SessionInv' /\ Published(disk, proc, proc')
  <2> DEFINE r == WithMap(proc, map)
  <2>1. /\ Consistent(r) /\ Overlaid(r) = Overlaid(proc)
        /\ r.store # None /\ r.store.file = proc.store.file /\ r.store.at = proc.store.at /\ r.store.map = map
    BY <1>1, <1>3, Remapped
  <2>2. Edit(r)  BY <1>3
  <2> HIDE DEF r
  <2>3. SessionInv' /\ proc' = r  BY <1>3, <2>1, <2>2, EditInv
  <2>4. proc.store # None  BY <1>1, <1>3 DEF Agrees
  <2> QED  BY <2>1, <2>3, <2>4 DEF Published, Where
<1>4. CASE SetRegion
  <2>1. PICK end \in 0..LastFrame(proc) : Edit(setSampleWindow(proc, end))  BY <1>4 DEF SetRegion
  <2>2. end \in Nat
    <3>1. CASE proc.audio = None  BY <3>1 DEF LastFrame
    <3>2. CASE proc.audio # None
      <4>1. Length[proc.audio] \in Nat \ {0}  BY <1>1, <3>2, AudioAssumption DEF Processors
      <4> QED  BY <3>2, <4>1 DEF LastFrame
    <3> QED  BY <3>1, <3>2
  <2> QED  BY <1>2, <2>1, <2>2
<1>5. CASE Shape
  <2>1. 0 \in Nat /\ Edit([proc EXCEPT !.shape = "shaped", !.pads = "custom"])  BY <1>5 DEF Shape
  <2> QED  BY <1>2, <2>1
<1>6. ASSUME proc.program # None
      PROVE  proc.store \in Stores /\ proc.store.file \in Files /\ proc.store.map \in SUBSET Zones
  <2>1. proc.store \in Stores  BY <1>1, <1>6 DEF Agrees, Processors
  <2> QED  BY <2>1 DEF Stores
<1>7. CASE DeleteZones
  <2>1. PICK map \in (SUBSET proc.store.map) \ {{}} : Edit(WithMap(proc, map))  BY <1>7 DEF DeleteZones
  <2>2. proc.program # None  BY <1>7 DEF DeleteZones
  <2>3. map \in SUBSET Zones /\ map # {}  BY <1>6, <2>2
  <2>4. Hollow(proc.store.file, proc.store.map) => Hollow(proc.store.file, map)
    BY <2>3, AudioAssumption DEF Hollow
  <2> QED  BY <1>3, <2>1, <2>2, <2>3, <2>4
<1>8. CASE AddSample
  <2> DEFINE added == Assets[proc.store.file] + 1
             map == proc.store.map \cup {added}
  <2>1. proc.program # None /\ Edit(WithMap(proc, map))  BY <1>8 DEF AddSample
  <2>2. Assets[proc.store.file] \in Nat \ {0}  BY <1>6, <2>1, AudioAssumption
  <2>3. added \in 1..added /\ added \notin WholeMap(proc.store.file)
    BY <2>2 DEF WholeMap
  <2>4. map \in SUBSET Zones /\ map # {}
    BY <1>6, <2>1, <2>3 DEF Zones
  <2>5. Hollow(proc.store.file, proc.store.map) => Hollow(proc.store.file, map)
    BY <2>3, <2>4, AudioAssumption DEF Hollow
  <2> QED  BY <1>3, <2>1, <2>4, <2>5
<1> QED  BY <1>4, <1>5, <1>7, <1>8

-----------------------------------------------------------------------------
(* Saving and restoring.                                                   *)

\* A preset is loaded over the sound that plays.
LEMMA Reloaded ==
  ASSUME NEW p, Consistent(p), NEW saved \in Trees, NEW d \in Disks, NEW r, r = loadPlaybackPresetXml(p, saved, d)
  PROVE  /\ Consistent(r)
         /\ Overlaid(r) => r.store = p.store
         /\ r.store = p.store \/ r.store = None \/ r.store.at \in WholeAt(d, r.store.file)
         /\ RestoreFailed(r) => r.audio = p.audio /\ r.program = p.program /\ r.store = p.store
<1> DEFINE m == MergePreset(getStateInformation(p), saved)
<1>1. m \in Trees /\ m.path # Absent /\ Refuses(m, p)  BY Merged
<1>2. r = setStateInformation(p, m, d)  BY DEF loadPlaybackPresetXml
<1> HIDE DEF m
<1> QED  BY <1>1, <1>2, Restored

\* SaveProject and SavePreset.
LEMMA SaveStep ==
  ASSUME SessionInv, SaveProject \/ SavePreset
  PROVE  SessionInv' /\ Published(disk, proc, proc')
<1>1. Consistent(proc)  BY DEF SessionInv, SoundInv
<1>2. CASE SaveProject
  <2> DEFINE t == getStateInformation(proc)
  <2>1. /\ project' = Saved(t) /\ proc' = proc /\ disk' = disk /\ preset' = preset /\ previous' = previous
    BY <1>2 DEF SaveProject
  <2> HIDE DEF t
  <2>2. project'.tree = t /\ project'.sound = Sound(proc)  BY <2>1 DEF Saved
  <2>3. ProjectOf(project')  BY <1>1, <2>2 DEF ProjectOf, t
  <2>4. SoundInv'  BY <2>1 DEF SessionInv, SoundInv
  <2>5. ProjectOf(project)' /\ PresetOf(preset)' /\ PreviousOf(previous)'  BY <2>1, <2>3 DEF SessionInv
  <2> QED  BY <2>1, <2>4, <2>5, WholeStore DEF SessionInv
<1>3. CASE SavePreset
  <2> DEFINE t == createPlaybackPresetXml(proc)
  <2>1. /\ preset' = Saved(t) /\ proc' = proc /\ disk' = disk /\ project' = project /\ previous' = previous
    BY <1>3 DEF SavePreset
  <2>2. t \in Trees  BY <1>1, PresetTree
  <2> HIDE DEF t
  <2>3. PresetOf(preset')  BY <2>1, <2>2 DEF PresetOf, Saved
  <2>4. SoundInv'  BY <2>1 DEF SessionInv, SoundInv
  <2>5. ProjectOf(project)' /\ PresetOf(preset)' /\ PreviousOf(previous)'  BY <2>1, <2>3 DEF SessionInv
  <2> QED  BY <2>1, <2>4, <2>5, WholeStore DEF SessionInv
<1> QED  BY <1>2, <1>3

\* A project is opened in a processor that has nothing to lose.
LEMMA ReopenStep ==
  ASSUME SessionInv, ReopenProject
  PROVE  SessionInv' /\ Published(disk, proc, proc')
<1> DEFINE t == project.tree
<1>1. /\ project # None /\ proc' = setStateInformation(Fresh, t, disk) /\ previous' = None
      /\ disk' = disk /\ project' = project /\ preset' = preset
  BY DEF ReopenProject
<1>2. disk \in Disks /\ ProjectOf(project) /\ PresetOf(preset)  BY DEF SessionInv, SoundInv
<1>3. PICK p : Consistent(p) /\ t = getStateInformation(p)
  BY <1>1, <1>2 DEF ProjectOf
<1>4. t \in Trees /\ t.path # Absent  BY <1>3, StateKeeps, ZenonT(30) DEF Keeps
<1>5. Refuses(t, Fresh)  BY FreshConsistent DEF Refuses
<1> HIDE DEF t
<1>6. /\ Consistent(proc')
      /\ proc'.store = Fresh.store \/ proc'.store = None \/ proc'.store.at \in WholeAt(disk, proc'.store.file)
  BY <1>1, <1>2, <1>4, <1>5, FreshConsistent, Restored
<1>7. Fresh.store = None  BY DEF Fresh
<1>8. Published(disk, proc, proc')  BY <1>6, <1>7, WholeStore
<1>9. SoundInv'  BY <1>1, <1>2, <1>6 DEF SoundInv
<1>10. ProjectOf(project)' /\ PresetOf(preset)' /\ PreviousOf(previous)'
  BY <1>1, <1>2 DEF PreviousOf
<1> QED  BY <1>8, <1>9, <1>10 DEF SessionInv

\* replaceSoundFromPreset and restorePreviousSound put the current sound by.
LEMMA SwapStep ==
  ASSUME SessionInv, replaceSoundFromPreset \/ restorePreviousSound
  PROVE  SessionInv' /\ Published(disk, proc, proc')
<1>1. /\ disk \in Disks /\ Consistent(proc) /\ ProjectOf(project) /\ PresetOf(preset) /\ PreviousOf(previous)
      /\ previous # None => Refuses(previous.tree, proc)
  BY DEF SessionInv, SoundInv
<1>2. ASSUME NEW r, Consistent(r), Overlaid(r) => r.store = proc.store,
             r.store = proc.store \/ r.store = None \/ r.store.at \in WholeAt(disk, r.store.file),
             proc' = r, previous' = Saved(captureSoundRecovery(proc)),
             disk' = disk, project' = project, preset' = preset
      PROVE  SessionInv' /\ Published(disk, proc, proc')
  <2>1. PreviousOf(previous') /\ Refuses(previous'.tree, r)
    BY <1>1, <1>2, PutBy
  <2>2. SoundInv'  BY <1>1, <1>2, <2>1 DEF SoundInv
  <2>3. ProjectOf(project)' /\ PresetOf(preset)' /\ PreviousOf(previous)'  BY <1>1, <1>2, <2>1
  <2>4. Published(disk, proc, proc')  BY <1>2, WholeStore
  <2> QED  BY <2>2, <2>3, <2>4 DEF SessionInv
<1>3. CASE replaceSoundFromPreset
  <2> DEFINE r == loadPlaybackPresetXml(proc, preset.tree, disk)
  <2>1. /\ preset # None /\ proc' = r /\ previous' = Saved(captureSoundRecovery(proc))
        /\ disk' = disk /\ project' = project /\ preset' = preset
    BY <1>3 DEF replaceSoundFromPreset
  <2>2. preset.tree \in Trees  BY <1>1, <2>1 DEF PresetOf
  <2>3. /\ Consistent(r) /\ (Overlaid(r) => r.store = proc.store)
        /\ r.store = proc.store \/ r.store = None \/ r.store.at \in WholeAt(disk, r.store.file)
    BY <1>1, <2>2, Reloaded
  <2> HIDE DEF r
  <2> QED  BY <1>2, <2>1, <2>3
<1>4. CASE restorePreviousSound
  <2> DEFINE t == previous.tree
             r == setStateInformation(proc, t, disk)
  <2>1. /\ previous # None /\ proc' = r /\ previous' = Saved(captureSoundRecovery(proc))
        /\ disk' = disk /\ project' = project /\ preset' = preset
    BY <1>4 DEF restorePreviousSound
  <2>2. t \in Trees /\ t.path # Absent /\ Refuses(t, proc)
    BY <1>1, <2>1, RecoveryKeeps, ZenonT(30) DEF PreviousOf, Keeps
  <2> HIDE DEF t
  <2>3. /\ Consistent(r) /\ (Overlaid(r) => r.store = proc.store)
        /\ r.store = proc.store \/ r.store = None \/ r.store.at \in WholeAt(disk, r.store.file)
    BY <1>1, <2>2, Restored
  <2> HIDE DEF r
  <2> QED  BY <1>2, <2>1, <2>3
<1> QED  BY <1>3, <1>4

\* RollBackPreset and Relink leave what was put by as it is.
LEMMA RollBackStep ==
  ASSUME SessionInv, RollBackPreset \/ Relink
  PROVE  SessionInv' /\ Published(disk, proc, proc')
<1>1. /\ disk \in Disks /\ Consistent(proc) /\ ProjectOf(project) /\ PresetOf(preset) /\ PreviousOf(previous)
      /\ previous # None => Refuses(previous.tree, proc)
  BY DEF SessionInv, SoundInv
<1>2. ASSUME NEW r, Consistent(r), Overlaid(r) => Overlaid(proc) /\ r.store = proc.store,
             r.store = proc.store \/ r.store = None \/ r.store.at \in WholeAt(disk, r.store.file),
             proc' = r, previous' = previous, disk' = disk, project' = project, preset' = preset
      PROVE  SessionInv' /\ Published(disk, proc, proc')
  <2>1. previous # None => Refuses(previous.tree, r)  BY <1>1, <1>2 DEF Refuses
  <2>2. SoundInv'  BY <1>1, <1>2, <2>1 DEF SoundInv
  <2>3. ProjectOf(project)' /\ PresetOf(preset)' /\ PreviousOf(previous)'  BY <1>1, <1>2
  <2>4. Published(disk, proc, proc')  BY <1>2, WholeStore
  <2> QED  BY <2>2, <2>3, <2>4 DEF SessionInv
<1>3. CASE RollBackPreset
  <2> DEFINE n == loadPlaybackPresetXml(proc, preset.tree, disk)
             r == setStateInformation(n, captureSoundRecovery(proc), disk)
  <2>1. /\ preset # None /\ RestoreFailed(n) /\ proc' = r
        /\ previous' = previous /\ disk' = disk /\ project' = project /\ preset' = preset
    BY <1>3 DEF RollBackPreset
  <2>2. preset.tree \in Trees  BY <1>1, <2>1 DEF PresetOf
  <2>3. Consistent(n) /\ n.audio = proc.audio /\ n.program = proc.program /\ n.store = proc.store
    BY <1>1, <2>1, <2>2, Reloaded
  <2> HIDE DEF n
  <2>4. /\ Consistent(r) /\ (Overlaid(r) => Overlaid(proc) /\ r.store = proc.store)
        /\ r.store = proc.store \/ r.store = None \/ r.store.at \in WholeAt(disk, r.store.file)
    BY <1>1, <2>3, RolledBack
  <2> HIDE DEF r
  <2> QED  BY <1>2, <2>1, <2>4
<1>4. CASE Relink
  <2>1. PICK root \in Places : proc' = relinkPendingImportedProgramFromFolder(proc, root, disk)
    BY <1>4 DEF Relink
  <2>2. proc.pending # None /\ previous' = previous /\ disk' = disk /\ project' = project /\ preset' = preset
    BY <1>4 DEF Relink
  <2> DEFINE r == relinkPendingImportedProgramFromFolder(proc, root, disk)
  <2>3. r = proc \/ (Consistent(r) /\ ~Overlaid(r) /\ r.store.at \in WholeAt(disk, r.store.file))
    BY <1>1, <2>2, Relinked
  <2>4. proc' = r  BY <2>1
  <2> HIDE DEF r
  <2>5. /\ Consistent(r) /\ (Overlaid(r) => Overlaid(proc) /\ r.store = proc.store)
        /\ r.store = proc.store \/ r.store = None \/ r.store.at \in WholeAt(disk, r.store.file)
    BY <1>1, <2>3
  <2> QED  BY <1>2, <2>2, <2>4, <2>5
<1> QED  BY <1>3, <1>4

\* Files that move, and a preset that is damaged, are no matter of the processor's.
LEMMA OutsideStep ==
  ASSUME SessionInv, DamageFile \/ CopyFile \/ MoveFile \/ DamagePreset
  PROVE  SessionInv' /\ Published(disk, proc, proc')
<1>1. disk \in Disks /\ PresetOf(preset)  BY DEF SessionInv, SoundInv
<1>2. ASSUME NEW f \in Files, NEW where \in [Places -> {"whole", "broken", "missing"}], ChangeDisk(f, where)
      PROVE  SessionInv' /\ Published(disk, proc, proc')
  <2>1. disk' = [disk EXCEPT ![f] = where] /\ proc' = proc /\ project' = project /\ preset' = preset /\ previous' = previous
    BY <1>2 DEF ChangeDisk
  <2>2. disk' \in Disks  BY <1>1, <2>1 DEF Disks
  <2>3. SoundInv'  BY <2>1, <2>2 DEF SessionInv, SoundInv
  <2>4. ProjectOf(project)' /\ PresetOf(preset)' /\ PreviousOf(previous)'  BY <2>1 DEF SessionInv
  <2> QED  BY <2>1, <2>3, <2>4, WholeStore DEF SessionInv
<1>3. CASE DamageFile
  <2>1. PICK f \in Files : \E at \in WholeAt(disk, f) : ChangeDisk(f, [disk[f] EXCEPT ![at] = "broken"])
    BY <1>3 DEF DamageFile
  <2>2. PICK at \in WholeAt(disk, f) : ChangeDisk(f, [disk[f] EXCEPT ![at] = "broken"])  BY <2>1
  <2>3. [disk[f] EXCEPT ![at] = "broken"] \in [Places -> {"whole", "broken", "missing"}]
    BY <1>1 DEF Disks
  <2> QED  BY <1>2, <2>2, <2>3
<1>4. CASE CopyFile
  <2>1. PICK f \in Files, at \in Places : ChangeDisk(f, [disk[f] EXCEPT ![at] = "whole"])
    BY <1>4 DEF CopyFile
  <2>2. [disk[f] EXCEPT ![at] = "whole"] \in [Places -> {"whole", "broken", "missing"}]
    BY <1>1 DEF Disks
  <2> QED  BY <1>2, <2>1, <2>2
<1>5. CASE MoveFile
  <2>1. PICK f \in Files, to \in Places : \E at \in WholeAt(disk, f) \ {to} :
            ChangeDisk(f, [disk[f] EXCEPT ![at] = "missing", ![to] = "whole"])
    BY <1>5 DEF MoveFile
  <2>2. PICK at \in WholeAt(disk, f) \ {to} : ChangeDisk(f, [disk[f] EXCEPT ![at] = "missing", ![to] = "whole"])
    BY <2>1
  <2>3. [disk[f] EXCEPT ![at] = "missing", ![to] = "whole"] \in [Places -> {"whole", "broken", "missing"}]
    BY <1>1 DEF Disks
  <2> QED  BY <1>2, <2>2, <2>3
<1>6. CASE DamagePreset
  <2> DEFINE t == preset.tree
             s == preset.sound
  <2>1. /\ preset # None /\ proc' = proc /\ disk' = disk /\ project' = project /\ previous' = previous
    BY <1>6 DEF DamagePreset
  <2>2. preset = [tree |-> t, sound |-> s] /\ t \in Trees  BY <1>1, <2>1 DEF PresetOf
  <2>3. preset' = [preset EXCEPT !.tree.embedded = Broken(@), !.tree.generated = Broken(@), !.tree.captured = Broken(@)]
    BY <1>6 DEF DamagePreset
  <2> HIDE DEF t, s
  <2>4. /\ Broken(t.embedded) \in StateAssets \cup {None} /\ Broken(t.generated) \in StateAssets \cup {None}
        /\ Broken(t.captured) \in StateAssets \cup {None}
    <3>1. ASSUME NEW a \in StateAssets \cup {None}  PROVE Broken(a) \in StateAssets \cup {None}
      BY DEF Broken, StateAssets
    <3> QED  BY <2>2, <3>1 DEF Trees
  <2> DEFINE u == [t EXCEPT !.embedded = Broken(@), !.generated = Broken(@), !.captured = Broken(@)]
  <2>5. preset' = [tree |-> u, sound |-> s]
    BY <2>2, <2>3 DEF Trees
  <2>6. u \in Trees  BY <2>2, <2>4 DEF Trees
  <2> HIDE DEF u
  <2>7. PresetOf(preset')  BY <2>5, <2>6 DEF PresetOf
  <2>8. SoundInv'  BY <2>1 DEF SessionInv, SoundInv
  <2>9. ProjectOf(project)' /\ PresetOf(preset)' /\ PreviousOf(previous)'  BY <2>1, <2>7 DEF SessionInv
  <2> QED  BY <2>1, <2>8, <2>9, WholeStore DEF SessionInv
<1> QED  BY <1>3, <1>4, <1>5, <1>6

\* The invariant is inductive, and no step publishes a part of an instrument.
LEMMA Step ==
  ASSUME SessionInv, [Next]_vars
  PROVE  SessionInv' /\ Published(disk, proc, proc')
<1>1. CASE UNCHANGED vars
  <2>1. /\ proc' = proc /\ disk' = disk /\ project' = project /\ preset' = preset /\ previous' = previous
    BY <1>1 DEF vars
  <2>2. SoundInv'  BY <2>1 DEF SessionInv, SoundInv
  <2>3. ProjectOf(project)' /\ PresetOf(preset)' /\ PreviousOf(previous)'  BY <2>1 DEF SessionInv
  <2> QED  BY <2>1, <2>2, <2>3, WholeStore DEF SessionInv
<1>2. CASE Next
  BY <1>2, LoadStep, EditStep, SaveStep, ReopenStep, SwapStep, RollBackStep, OutsideStep DEF Next
<1> QED  BY <1>1, <1>2

-----------------------------------------------------------------------------
(* What the session promises.                                              *)

\* The processor agrees with itself in every session, and so do all that is put by and saved.
THEOREM SoundsAgree == Spec => []SessionInv
<1>1. Init => SessionInv  BY InitInv
<1>2. SessionInv /\ [Next]_vars => SessionInv'  BY Step
<1> QED  BY <1>1, <1>2, PTL DEF Spec

\* An instrument is never published from a folder that holds a part of it, whichever of a load, a
\* project, a preset, a rollback, the replacement history and a relink publishes it.
THEOREM WholeInstruments == Spec => NoPartialInstrument
<1>1. ASSUME SessionInv, [Next]_vars
      PROVE  LET at(p) == IF p.store = None THEN None ELSE [file |-> p.store.file, at |-> p.store.at]
             IN  at(proc') # at(proc) /\ at(proc') # None
                 => disk[proc'.store.file][proc'.store.at] = "whole"
  BY <1>1, Step DEF Published, Where
<1>2. SessionInv /\ [Next]_vars
      => [LET at(p) == IF p.store = None THEN None ELSE [file |-> p.store.file, at |-> p.store.at]
          IN  at(proc') # at(proc) /\ at(proc') # None
              => disk[proc'.store.file][proc'.store.at] = "whole"]_vars
  BY <1>1
<1> QED  BY <1>2, SoundsAgree, PTL DEF Spec, NoPartialInstrument

\* The files of a tree in place are found, and its recording does not hide its instrument.
LEMMA InPlaceFound ==
  ASSUME SessionInv, NEW p, Consistent(p), NEW t, Keeps(t, p), p.store # None, InPlace(t)
  PROVE  /\ Found(t, disk) # {}
         /\ t.captured = None /\ p.store.map \subseteq WholeMap(p.store.file)
<1>1. ~Decodes(t.embedded)  BY DEF Keeps, Decodes
<1>2. p.store \in Stores  BY DEF Consistent, Processors
<1>3. /\ t.imported = [file |-> p.store.file, at |-> p.store.at]
      /\ t.manifest = [file |-> p.store.file, root |-> p.store.at] /\ t.map = p.store.map /\ t.path = p.path
  BY DEF Keeps
<1>4. t.imported \in Located /\ t.manifest \in Manifests  BY <1>2, <1>3 DEF Stores, Located, Manifests
<1>5. t.imported # None /\ t.manifest # None  BY <1>4, AudioAssumption
<1>6. t.imported.file = p.store.file /\ t.manifest.file = p.store.file /\ t.manifest.root = p.store.at
  BY <1>3
<1>7. /\ t.captured = None /\ t.map \subseteq WholeMap(t.imported.file)
      /\ (KnownRoots \cup {t.manifest.root}) \cap Huge = {}
      /\ Cardinality(WholeAt(disk, t.imported.file) \cap (KnownRoots \cup {t.manifest.root})) = 1
  BY <1>1, <1>5 DEF InPlace
<1>8. Roots(t) = KnownRoots \cup {t.manifest.root}
  <2>1. CASE t.path = None  BY <2>1 DEF Roots
  <2>2. CASE t.path # None
    <3>1. t.path = [file |-> p.store.file, at |-> p.store.at]  BY <1>3, <2>2 DEF Consistent, Agrees
    <3>2. t.path.at = p.store.at  BY <3>1
    <3> QED  BY <1>6, <2>2, <3>2 DEF Roots
  <2> QED  BY <2>1, <2>2
<1> DEFINE found == WholeAt(disk, t.manifest.file) \cap Roots(t)
<1>9. Cardinality(found) = 1 /\ Roots(t) \cap Huge = {}  BY <1>6, <1>7, <1>8
<1>10. Found(t, disk) = found  BY <1>9 DEF Found, resolveImportedAssetManifest
<1>11. found # {}
  <2> HIDE DEF found
  <2>1. Cardinality({}) = 0  BY FS_EmptySet
  <2> QED  BY <1>9, <2>1
<1> QED  BY <1>3, <1>6, <1>7, <1>10, <1>11

\* A single source in place can be had.
LEMMA InPlaceHad ==
  ASSUME NEW p, Consistent(p), NEW t, Keeps(t, p), p.store = None, InPlace(t), ~Decodes(t.embedded),
         ~Decodes(t.generated), ~Decodes(t.captured)
  PROVE  t.path # None /\ t.path.at \in WholeAt(disk, t.path.file)
<1>1. t.imported = None /\ t.path # Absent /\ t.path = p.path  BY DEF Keeps
<1>2. t.path # None /\ disk[t.path.file][t.path.at] = "whole"  BY <1>1 DEF InPlace
<1>3. t.path \in Located  BY <1>1, <1>2 DEF Consistent, Processors
<1>4. t.path.at \in Places  BY <1>3 DEF Located
<1> QED  BY <1>2, <1>4 DEF WholeAt

\* A project reopened while its files are in place gives back the sound it was saved with, for
\* every session that led to it.
THEOREM ProjectsComeBack == Spec => ReopenGivesBack
<1>1. ASSUME SessionInv, ReopenProject, InPlace(project.tree)
      PROVE  Sound(proc') = project.sound
  <2> DEFINE t == project.tree
  <2>1. project # None /\ proc' = setStateInformation(Fresh, t, disk)  BY <1>1 DEF ReopenProject
  <2>2. disk \in Disks  BY <1>1 DEF SessionInv, SoundInv
  <2>3. PICK p : Consistent(p) /\ t = getStateInformation(p) /\ project.sound = Sound(p)
    BY <1>1, <2>1 DEF SessionInv, ProjectOf
  <2>4. Keeps(t, p)  BY <2>3, StateKeeps
  <2>5. InPlace(t)  BY <1>1
  <2> HIDE DEF t
  <2>6. p.store # None => /\ Found(t, disk) # {}
                          /\ t.captured = None /\ p.store.map \subseteq WholeMap(p.store.file)
    BY <1>1, <2>3, <2>4, <2>5, InPlaceFound
  <2>7. p.store = None /\ ~Decodes(t.embedded) /\ ~Decodes(t.generated) /\ ~Decodes(t.captured)
          => t.path # None /\ t.path.at \in WholeAt(disk, t.path.file)
    BY <2>3, <2>4, <2>5, InPlaceHad
  <2>8. Fresh \in Processors /\ WindowOK(Fresh) /\ Fresh.program = None
    BY FreshConsistent DEF Consistent, Fresh
  <2>9. \/ Sound(proc') = Sound(p)
        \/ /\ ~Decodes(t.embedded)
           /\ \/ p.store # None /\ Found(t, disk) = {}
              \/ p.store = None /\ Decodes(t.captured) /\ Fresh.program # None
              \/ /\ p.store = None /\ ~Decodes(t.generated) /\ ~Decodes(t.captured)
                 /\ t.path # None => t.path.at \notin WholeAt(disk, t.path.file)
    BY <2>1, <2>2, <2>3, <2>4, <2>6, <2>8, Regained
  <2> QED  BY <2>3, <2>6, <2>7, <2>8, <2>9
<1>2. SessionInv /\ [Next]_vars
      => [ReopenProject /\ InPlace(project.tree) => Sound(proc') = project.sound]_vars
  BY <1>1
<1> QED  BY <1>2, SoundsAgree, PTL DEF Spec, ReopenGivesBack

\* A preset that the editor rolls back, because its restore ended without a source or waits for a
\* relink, leaves what was heard and its settings, whatever has become of the files of the sound.
THEOREM FailedPresetsRollBack == Spec => FailedPresetRollsBack
<1>1. ASSUME SessionInv, RollBackPreset,
             proc.store # None => /\ proc.captured = None
                                  /\ proc.store.map \subseteq WholeMap(proc.store.file)
      PROVE  Sound(proc') = Sound(proc)
  <2> DEFINE n == loadPlaybackPresetXml(proc, preset.tree, disk)
             t == captureSoundRecovery(proc)
  <2>1. preset # None /\ RestoreFailed(n) /\ proc' = setStateInformation(n, t, disk)
    BY <1>1 DEF RollBackPreset
  <2>2. disk \in Disks /\ Consistent(proc) /\ preset.tree \in Trees
    BY <1>1, <2>1 DEF SessionInv, SoundInv, PresetOf
  <2>3. Consistent(n) /\ n.audio = proc.audio /\ n.program = proc.program
    BY <2>1, <2>2, Reloaded
  <2>4. Keeps(t, proc)  BY <2>2, RecoveryKeeps
  <2> HIDE DEF n, t
  <2>5. n \in Processors /\ WindowOK(n)  BY <2>3 DEF Consistent
  <2>6. proc.store # None => t.captured = None
    BY <1>1, <2>4, Encoded DEF Keeps
  <2>7. Sound(proc') = Sound(proc) \/ (n.audio # proc.audio \/ n.program # proc.program)
    BY <1>1, <2>1, <2>2, <2>4, <2>5, <2>6, Regained
  <2> QED  BY <2>3, <2>7
<1>2. SessionInv /\ [Next]_vars
      => [/\ RollBackPreset
          /\ proc.store # None => /\ proc.captured = None
                                  /\ proc.store.map \subseteq WholeMap(proc.store.file)
          => Sound(proc') = Sound(proc)]_vars
  BY <1>1
<1> QED  BY <1>2, SoundsAgree, PTL DEF Spec, FailedPresetRollsBack

\* The replaced sound comes back with its edits and can be swapped again; a single sample comes
\* back without its file when the codec takes it.
THEOREM PreviousSoundsComeBack == Spec => RestoreSwaps
<1>1. ASSUME SessionInv, restorePreviousSound,
             \/ InPlace(previous.tree)
             \/ /\ previous.tree.path # None
                /\ previous.sound.heard \in Audio \ Unencodable,
             previous.tree.captured = None \/ proc.program = None
      PROVE  Sound(proc') = previous.sound
  <2> DEFINE t == previous.tree
  <2>1. previous # None /\ proc' = setStateInformation(proc, t, disk)  BY <1>1 DEF restorePreviousSound
  <2>2. disk \in Disks /\ proc \in Processors /\ WindowOK(proc)  BY <1>1 DEF SessionInv, SoundInv, Consistent
  <2>3. PICK p : Consistent(p) /\ t = captureSoundRecovery(p) /\ previous.sound = Sound(p)
    BY <1>1, <2>1 DEF SessionInv, PreviousOf
  <2>4. /\ Keeps(t, p)
        /\ p.store = None /\ p.path # None /\ p.audio \notin Unencodable => Decodes(t.embedded)
    BY <2>3, RecoveryKeeps
  <2>5. InPlace(t) \/ (t.path # None /\ previous.sound.heard \in Audio \ Unencodable)
    BY <1>1
  <2>6. t.captured = None \/ proc.program = None  BY <1>1
  <2> HIDE DEF t
  <2>7. CASE InPlace(t)
    <3>1. p.store # None => /\ Found(t, disk) # {}
                            /\ t.captured = None /\ p.store.map \subseteq WholeMap(p.store.file)
      BY <1>1, <2>3, <2>4, <2>7, InPlaceFound
    <3>2. p.store = None /\ ~Decodes(t.embedded) /\ ~Decodes(t.generated) /\ ~Decodes(t.captured)
            => t.path # None /\ t.path.at \in WholeAt(disk, t.path.file)
      BY <2>3, <2>4, <2>7, InPlaceHad
    <3>3. \/ Sound(proc') = Sound(p)
          \/ /\ ~Decodes(t.embedded)
             /\ \/ p.store # None /\ Found(t, disk) = {}
                \/ p.store = None /\ Decodes(t.captured) /\ proc.program # None
                \/ /\ p.store = None /\ ~Decodes(t.generated) /\ ~Decodes(t.captured)
                   /\ t.path # None => t.path.at \notin WholeAt(disk, t.path.file)
      BY <2>1, <2>2, <2>3, <2>4, <3>1, Regained
    <3>4. Decodes(t.captured) => t.captured # None  BY DEF Decodes
    <3> QED  BY <2>3, <2>6, <3>1, <3>2, <3>3, <3>4
  <2>8. CASE t.path # None /\ previous.sound.heard \in Audio \ Unencodable
    <3>1. p \in Processors /\ Agrees(p)  BY <2>3 DEF Consistent
    <3>2. Sound(p).heard = IF p.program # None THEN p.program ELSE p.audio  BY DEF Sound
    <3>3. p.program = None /\ p.audio \notin Unencodable
      <4>1. CASE p.program = None  BY <2>3, <2>8, <3>2, <4>1
      <4>2. CASE p.program # None
        <5>1. p.program \in Programs  BY <3>1, <4>2 DEF Processors
        <5>2. p.program \in Audio  BY <2>3, <2>8, <3>2, <4>2
        <5> QED  BY <5>1, <5>2, AudioAssumption
      <4> QED  BY <4>1, <4>2
    <3>4. p.store = None /\ p.path # None  BY <2>4, <2>8, <3>1, <3>3 DEF Agrees, Keeps
    <3>5. Decodes(t.embedded)  BY <2>4, <3>3, <3>4
    <3>6. Sound(proc') = Sound(p) \/ ~Decodes(t.embedded)
      BY <2>1, <2>2, <2>3, <2>4, <3>4, Regained
    <3> QED  BY <2>3, <3>5, <3>6
  <2> QED  BY <2>5, <2>7, <2>8
<1>2. SessionInv /\ [Next]_vars
      => [/\ restorePreviousSound
          /\ \/ InPlace(previous.tree)
             \/ /\ previous.tree.path # None
                /\ previous.sound.heard \in Audio \ Unencodable
          /\ previous.tree.captured = None \/ proc.program = None
          => Sound(proc') = previous.sound]_vars
  BY <1>1
<1> QED  BY <1>2, SoundsAgree, PTL DEF Spec, RestoreSwaps

=============================================================================
