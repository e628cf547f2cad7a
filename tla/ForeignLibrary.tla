---------------------------- MODULE ForeignLibrary ----------------------------
(***************************************************************************)
(* The life of an instrument that came from another sampler: its file is   *)
(* prepared by the worker or, when a project is restored and for the       *)
(* formats that are not loaded in the background, by the message thread,   *)
(* the program is published, saved as a DecentSampler preset and loaded    *)
(* again.  SFZ libraries are SfzLibrary's, and the handing over of a       *)
(* prepared load is BackgroundImport's.                                    *)
(*                                                                         *)
(* A document is [format, folder, content, selection, search], with the    *)
(* selection of a bank's preset and the folder a user chose for the        *)
(* samples of an NKI.  A preset that was saved has also the program that   *)
(* was written, and a bank that its tables encode, which are history.      *)
(***************************************************************************)
EXTENDS DecentSampler, SoundFont, XmlMultisample, BinaryMultisample, NkiProbe, SlicePrograms

CONSTANTS Documents,   \* the files of other samplers
          Waves,       \* the samples on disk at first
          Folders,     \* where the program may be saved
          Capacity,    \* ProgramSnapshot::validateCapacity: assets, groups, zones
          SavedPreset, \* names the preset that was saved last
          NoDocument,
          Sequels,     \* bound: the documents that may be loaded after another
          MaxLoads, MaxSaves  \* bounds

VARIABLES wavs,        \* the samples on disk
          preset,      \* the document that was saved last, or NoDocument
          loading,     \* the document of the background load, SavedPreset or NoDocument
          prepared,    \* PreparedBackgroundImport, or NoDocument before there is one
          stopped,     \* its ImportCancellationScope
          lastIndex,   \* the number of a disting EX sample that was read last, of any file
          reading,     \* what each thread has read of a disting EX file
          crossed,     \* history: both threads were reading one at a time
          instrument,  \* the published program
          source,      \* the document it was read from
          shown,       \* the audio of the display sample
          loads, saves \* counters for their bounds

loadVars == <<loading, prepared, stopped>>
playVars == <<instrument, source, shown>>
diskVars == <<wavs, preset>>
readVars == <<lastIndex, reading, crossed>>
foreignVars == <<diskVars, loadVars, playVars, readVars, loads, saves>>

Threads == {"worker", "message"}
Silence == "no audio"
NotReading == [document |-> NoDocument, line |-> 0, result |-> Nothing, values |-> NoValues, numbered |-> FALSE]

ForeignInit ==
  /\ wavs = Waves /\ preset = NoDocument
  /\ loading = NoDocument /\ prepared = NoDocument /\ stopped = FALSE
  /\ lastIndex = -1 /\ reading = [t \in Threads |-> NotReading] /\ crossed = FALSE
  /\ instrument = Nothing.program /\ source = NoDocument /\ shown = Silence
  /\ loads = 0 /\ saves = 0

-----------------------------------------------------------------------------
(* Preparing.                                                              *)

readAudioFileToBuffer(path) == path \in DOMAIN wavs /\ wavs[path].length > 0

\* A disting EX file is read line by line, below.
ReadInLines(d) == d.format = "distingExPreset" /\ d.content # Damaged
Idle(t) == reading[t] = NotReading

\* The other importers, by format.
importProgram(d) ==
  LET c == d.content
      f == d.folder
  IN  IF c = Damaged THEN failed(Nothing) ELSE
      CASE d.format = "sf2" -> importFilePreset(c, Max2(d.selection, 0))
        [] d.format = "decentSampler" -> importDecentSampler(c, f, wavs)
        [] d.format = "bitwigMultisample" -> importBitwig(c)
        [] d.format = "mpcKeygroup" -> importMpc(c, f, wavs)
        [] d.format = "bento1010" -> importBento(c, f, wavs)
        [] d.format = "talSampler" -> importTal(c, f, wavs)
        [] d.format = "tx16wx" -> importTx(c, f, wavs)
        [] d.format = "korgMultisample" -> importKorg(c)
        [] d.format = "abletonSampler" -> importAbleton(c, f, wavs)
        [] d.format = "korgKmp" -> importKmp(c, f, wavs)
        [] d.format = "logicExs24" -> importExs(c, f, wavs)
        [] d.format = "nnxt" -> importNnxt
        [] d.format = "nki" -> importNki(c, f, d.search, wavs)
        [] d.format = "rex" -> buildChromaticSliceProgram(f, c)
        [] d.format = "sampleSlices" -> IF readAudioFileToBuffer(c) THEN buildTransientSliceProgram(c, wavs[c])
                                        ELSE failed(Nothing)

\* The whole file as a sample: EngineCore::prepareSampleFile.
prepareSampleFile(d) ==
  CASE d.content = Damaged -> Silence
    [] d.content # Damaged /\ d.format = "rex" -> d.content.audio
    [] OTHER -> IF readAudioFileToBuffer(d.content) THEN wavs[d.content].audio ELSE Silence

NotPrepared(d) ==
  [ok |-> FALSE, document |-> d, program |-> Nothing.program, display |-> Silence]

\* prepareBackgroundImportedProgramResult: a program without errors that plays something, and
\* its first sample with audio to show.
preparedResult(d, r) ==
  LET audible == SelectInSeq(r.program.assets, LAMBDA a : a.length > 0)
  IN  IF r.errors \/ r.program.zones = <<>> \/ audible = 0 THEN NotPrepared(d)
      ELSE [ok |-> TRUE, document |-> d, program |-> r.program, display |-> r.program.assets[audible].audio]

\* Slices are shown as the file that they are taken from.
sliceResult(d, r) ==
  IF preparedResult(d, r).ok THEN [preparedResult(d, r) EXCEPT !.display = prepareSampleFile(d)] ELSE NotPrepared(d)

\* prepareBackgroundImportJob
prepareBackgroundImportJob(d) ==
  CASE d.format = "unknown" -> [NotPrepared(d) EXCEPT !.ok = prepareSampleFile(d) # Silence,
                                                      !.display = prepareSampleFile(d)]
    [] d.format \in {"rex", "sampleSlices"} -> sliceResult(d, importProgram(d))
    [] OTHER -> preparedResult(d, importProgram(d))

-----------------------------------------------------------------------------
(* Publishing.                                                             *)

\* EngineCore::validateProgramForPublish
validateProgramForPublish(p) ==
  /\ Len(p.assets) <= Capacity.assets
  /\ Len(p.groups) <= Capacity.groups
  /\ Len(p.zones) <= Capacity.zones

\* publishPreparedBackgroundImport: the display sample goes first, so that it is replaced also
\* when the program is rejected.  A sample takes the program away.
publishSampleData(audio) == shown' = audio
publishPreparedBackgroundImport(result) ==
  /\ IF result.ok THEN publishSampleData(result.display) ELSE UNCHANGED shown
  /\ IF result.ok /\ validateProgramForPublish(result.program)
     THEN /\ instrument' = result.program
          /\ source' = result.document
     ELSE UNCHANGED <<instrument, source>>

Document(d) == IF d = SavedPreset THEN preset ELSE d
Known(d) == d # SavedPreset \/ preset # NoDocument

-----------------------------------------------------------------------------
(* Loading by the worker.                                                  *)

supportsBackgroundImport(format) == format \notin {"nnxt", "sampleSlices"}

\* startBackgroundInstrumentLoad()
Load(d) ==
  /\ Idle("message") /\ loading = NoDocument /\ loads < MaxLoads
  /\ Known(d) /\ supportsBackgroundImport(Document(d).format)
  /\ loading' = d /\ prepared' = NoDocument /\ stopped' = FALSE
  /\ loads' = loads + 1
  /\ UNCHANGED <<diskVars, playVars, readVars, saves>>

\* cancelBackgroundInstrumentLoad()
StopLoading ==
  /\ Idle("message") /\ loading # NoDocument /\ prepared = NoDocument /\ ~ stopped
  /\ stopped' = TRUE
  /\ UNCHANGED <<diskVars, loading, prepared, playVars, readVars, loads, saves>>

\* The worker reads the file as it is now.
Prepare ==
  /\ loading # NoDocument /\ prepared = NoDocument /\ Idle("worker")
  /\ LET d == Document(loading)
     IN  \/ stopped /\ prepared' = NotPrepared(d)
         \/ ~ stopped /\ ~ ReadInLines(d) /\ prepared' = prepareBackgroundImportJob(d)
  /\ UNCHANGED <<diskVars, loading, stopped, playVars, readVars, loads, saves>>

PublishPrepared ==
  /\ Idle("message") /\ loading # NoDocument /\ prepared # NoDocument
  /\ publishPreparedBackgroundImport(prepared)
  /\ loading' = NoDocument /\ prepared' = NoDocument
  /\ UNCHANGED <<diskVars, stopped, readVars, loads, saves>>

-----------------------------------------------------------------------------
(* Reading a disting EX file.  The number of the sample before is static,  *)
(* so that both threads compare and replace the same one.                  *)

opened(d) == [document |-> d, line |-> 1, result |-> distingStart, values |-> NoValues, numbered |-> FALSE]
OpenDisting(t, d) ==
  /\ Idle(t) /\ ReadInLines(d)
  /\ reading' = [reading EXCEPT ![t] = opened(d)]
  /\ crossed' = (crossed \/ \E u \in Threads : ~ Idle(u))
  /\ UNCHANGED lastIndex

WorkerOpens ==
  /\ loading # NoDocument /\ prepared = NoDocument /\ ~ stopped
  /\ OpenDisting("worker", Document(loading))
  /\ UNCHANGED <<diskVars, loadVars, playVars, loads, saves>>

MessageOpens(d) ==
  /\ loads < MaxLoads /\ OpenDisting("message", d)
  /\ loads' = loads + 1
  /\ UNCHANGED <<diskVars, loadVars, playVars, saves>>

stopsReading(t) == (t = "worker" /\ stopped) \/ reading[t].line > Len(reading[t].document.content)
flushed(r) ==
  LET f == flushZone([result |-> r.result, values |-> r.values], r.document.folder, wavs)
  IN  [r EXCEPT !.result = f.result, !.values = f.values]

\* One line.  At a new number the sample before ends, and the number is stored next.
ReadLine(t) ==
  LET r == reading[t]
      l == r.document.content[r.line]
      kept == [r EXCEPT !.values = setKv(@, l.key, l.value), !.line = @ + 1]
  IN  /\ ~ Idle(t) /\ ~ r.numbered /\ ~ stopsReading(t)
      /\ reading' = [reading EXCEPT ![t] = IF l.kind = "section" THEN [flushed(r) EXCEPT !.line = @ + 1]
                                          ELSE IF l.kind = "sample" /\ l.index # lastIndex
                                          THEN [flushed(r) EXCEPT !.numbered = TRUE]
                                          ELSE kept]
      /\ UNCHANGED <<lastIndex, crossed, diskVars, loadVars, playVars, loads, saves>>

StoreIndex(t) ==
  LET r == reading[t]
      l == r.document.content[r.line]
  IN  /\ r.numbered
      /\ lastIndex' = l.index
      /\ reading' = [reading EXCEPT ![t] = [r EXCEPT !.values = setKv(@, l.key, l.value), !.line = @ + 1,
                                                   !.numbered = FALSE]]
      /\ UNCHANGED <<crossed, diskVars, loadVars, playVars, loads, saves>>

\* The end of the file, or of the worker's patience.
EndDisting(t) ==
  LET d == reading[t].document
      result == preparedResult(d, flushed(reading[t]).result)
  IN  /\ ~ Idle(t) /\ ~ reading[t].numbered /\ stopsReading(t)
      /\ reading' = [reading EXCEPT ![t] = NotReading]
      /\ IF t = "worker"
         THEN /\ prepared' = IF stopped THEN NotPrepared(d) ELSE result
              /\ UNCHANGED playVars
         ELSE /\ publishPreparedBackgroundImport(result)
              /\ UNCHANGED prepared
      /\ UNCHANGED <<lastIndex, crossed, diskVars, loading, stopped, loads, saves>>

ReadDisting == WorkerOpens \/ \E t \in Threads : ReadLine(t) \/ StoreIndex(t) \/ EndDisting(t)

-----------------------------------------------------------------------------
(* Importing on the message thread, which loads and restores a project     *)
(* whether or not the worker is at work.                                   *)

Unsearched(d) == [d EXCEPT !.search = <<>>]

\* Most formats are read and published without the job, each by functions of its own.  These
\* judge what they read, and choose the sample to show, as the job does.
importSf2Program(d, presetIndex) == preparedResult(d, importFilePreset(d.content, presetIndex))
importDecentSamplerProgram(d) == preparedResult(d, importDecentSampler(d.content, d.folder, wavs))
importBitwigMultisampleProgram(d) == preparedResult(d, importBitwig(d.content))
prepareXmlMultisampleImport(d, r) == preparedResult(d, r)

\* importMpcKeygroupProgram() and nine others after its model.
importMultisampleProgram(d) == prepareXmlMultisampleImport(d, importProgram(d))

\* The extension of a file goes before its format, and no folder is searched.
importInstrumentFileByFormat(d) ==
  CASE d.format = "sf2" -> importSf2Program(d, Max2(d.selection, 0))
    [] d.format = "decentSampler" -> importDecentSamplerProgram(d)
    [] d.format = "bitwigMultisample" -> importBitwigMultisampleProgram(d)
    [] d.format \in {"nki", "rex", "unknown"} -> prepareBackgroundImportJob(Unsearched(d))
    [] OTHER -> importMultisampleProgram(d)

publishNow(d, result) ==
  /\ Idle("message") /\ ~ ReadInLines(d) /\ loads < MaxLoads
  /\ loads' = loads + 1
  /\ publishPreparedBackgroundImport(result)
  /\ UNCHANGED <<diskVars, loadVars, readVars, saves>>

\* loadFileAsInstrument() when the worker does not take the load.
ImportFile(d) ==
  /\ Known(d) /\ Document(d).format # "sampleSlices"
  /\ MessageOpens(Document(d)) \/ publishNow(Document(d), importInstrumentFileByFormat(Document(d)))

\* promptForNkiSampleFolder() in the same case.
ImportSearched(d) == d # SavedPreset /\ d.format = "nki" /\ d.search # <<>> /\ publishNow(d, prepareBackgroundImportJob(d))

\* restoreImportedProgramFromState(), of a project that keeps no folder to search.
Restore(d) ==
  /\ Known(d) /\ Document(d).format # "unknown"
  /\ MessageOpens(Document(d)) \/ publishNow(Document(d), prepareBackgroundImportJob(Unsearched(Document(d))))

\* autoSliceLoadedSample(), of a sample that is loaded and not yet sliced.
AutoSlice(d) ==
  /\ d # SavedPreset /\ d.format = "sampleSlices"
  /\ source # NoDocument /\ source.format = "unknown" /\ source.content = d.content
  /\ publishNow(d, prepareBackgroundImportJob(d))

-----------------------------------------------------------------------------

\* saveImportedProgramAsDecentSampler(): the samples are copied first, and what was copied stays
\* there when a later copy fails.  The preset replaces the one before at once or not at all.
SaveLibrary(folder, copies, replaced) ==
  /\ Idle("message") /\ instrument.zones # <<>> /\ saves < MaxSaves
  /\ copies \in 0 .. Len(instrument.assets)
  /\ replaced => copies = Len(instrument.assets)
  /\ LET done == copied(instrument, copies, folder, wavs)
         saved == [format |-> "decentSampler", folder |-> folder, selection |-> 0, search |-> <<>>,
                   content |-> exportProgramToDecentSampler(instrument, done.paths), written |-> instrument]
     IN  /\ wavs' = done.disk
         /\ preset' = IF replaced THEN saved ELSE preset
  /\ saves' = saves + 1
  /\ UNCHANGED <<loadVars, playVars, readVars, loads>>

ForeignNext ==
  \/ \E d \in (IF loads = 0 THEN Documents ELSE Sequels) \cup {SavedPreset} :
       Load(d) \/ ImportFile(d) \/ ImportSearched(d) \/ Restore(d) \/ AutoSlice(d)
  \/ StopLoading \/ Prepare \/ PublishPrepared \/ ReadDisting
  \/ \E folder \in Folders, copies \in 0 .. Capacity.assets, replaced \in BOOLEAN :
       SaveLibrary(folder, copies, replaced)

ForeignSpec == ForeignInit /\ [][ForeignNext]_foreignVars

-----------------------------------------------------------------------------
(* A saved preset.                                                         *)

\* The zones of p that a preset holds, in its order: the groups by their first zone, then the
\* zones without a group.
InPresetOrder(p) ==
  LET audible == {i \in DOMAIN p.zones : isValid(effectiveKeys(p, p.zones[i]))}
      first(g) == CHOOSE i \in audible : p.zones[i].group = g /\ \A j \in audible : p.zones[j].group = g => i <= j
      before(i, j) == LET g == p.zones[i].group
                          h == p.zones[j].group
                      IN  \/ g > 0 /\ h = 0
                          \/ g = h /\ i < j
                          \/ g > 0 /\ h > 0 /\ g # h /\ first(g) < first(h)
  IN  SetToSortSeq(audible, before)

InTurns(p, z) == z.rrPosition > 0 \/ (groupOf(p, z).rrGroup > 0 /\ z.rrGroup > 0)

\* What a preset keeps of the sound of a zone: a one-shot counts as a gate and a loop with
\* sustain as one without.
Heard(p, z) ==
  LET g == groupOf(p, z)
      loops == z.loopMode # "no_loop" /\ z.loop[1] >= 0 /\ z.loop[2] > z.loop[1]
      trigger(x) == IF x.trigger = "oneShot" THEN "gate" ELSE x.trigger
  IN  [audio |-> p.assets[z.sample].audio, keys |-> effectiveKeys(p, z),
       window |-> <<z.start, z.end>>, loop |-> IF loops THEN z.loop ELSE <<>>,
       gains |-> <<g.gain, z.gain>>, triggers |-> <<trigger(g), trigger(z)>>,
       choke |-> effectiveChokeGroup(p, z),
       turn |-> IF InTurns(p, z) THEN <<effectiveRoundRobinMode(p, z), z.rrPosition>> ELSE <<>>]

\* A pan of up to one percent is written as a number that is read as a fraction.
Pans(p, z) == <<groupOf(p, z).pan, z.pan>>
Faint(pan) == pan \in -10 .. 10 \ {0}

\* The semitones of a tuning move the root key, which stays on the keyboard.
pitch(z) == 100 * z.root - z.tune
Clamped(z) == z.root - semitones(z.tune) \notin 0 .. 127

\* Zone y of p sounds as a saved preset keeps of zone z of q.
SoundsAs(p, y, q, z) ==
  /\ Heard(p, y) = Heard(q, z)
  /\ Clamped(z) \/ pitch(y) = pitch(z)
  /\ \A n \in 1 .. 2 : Faint(Pans(q, z)[n]) \/ Pans(p, y)[n] = Pans(q, z)[n]

WasSaved(d) == d # NoDocument /\ "written" \in DOMAIN d

\* A library that was saved as a DecentSampler preset can be loaded again, and its zones then
\* have the audio, window, loop, keys, pitch, gains, pans, triggers, choke groups and turns they
\* had: also when the same folder was saved to since, with or without success, and whether the
\* file was read before that or after (DecentSamplerExporter.cpp:190 writes the copies).  It does
\* not claim what a preset loses: one-shots come back as gates and loops with sustain as
\* continuous ones (ENHANCEMENT_ROADMAP_2026-05-31.md:132 names both), a pan of up to one percent
\* comes back as a wide one, a root key that its tuning moves out of the keyboard as the last
\* key, a turn without a position or a group in turns not at all, and the zones of a group share
\* the longest length of their sequences.
SavedPresetReopens ==
  /\ WasSaved(source) =>
       LET order == InPresetOrder(source.written)
       IN  /\ Len(instrument.zones) = Len(order)
           /\ \A k \in DOMAIN order :
                SoundsAs(instrument, instrument.zones[k], source.written, source.written.zones[order[k]])
  /\ prepared # NoDocument /\ WasSaved(prepared.document) =>
       prepared.ok \/ stopped \/ InPresetOrder(prepared.document.written) = <<>>

-----------------------------------------------------------------------------
(* The files that a document names, one for each zone.                     *)

RECURSIVE Descendants(_)
Descendants(el) == <<el>> \o FlattenSeq([k \in DOMAIN el.children |-> Descendants(el.children[k])])
Tagged(els, tags) == SelectSeq(els, LAMBDA el : el.tag \in tags)
Values(els) == [k \in DOMAIN els |-> fileNamed(els[k].attributes)]

RECURSIVE PresetSamples(_)
PresetSamples(group) ==
  group.samples \o FlattenSeq([k \in DOMAIN group.groups |-> PresetSamples(group.groups[k])])

\* The lines of a disting EX preset that name the file of a sample: the last before it ends.
DistingFiles(text) ==
  LET starts(i) == \/ text[i].kind = "section"
                   \/ /\ text[i].kind = "sample"
                      /\ \E j \in 1 .. i - 1 : text[j].kind = "sample"
                      /\ \A j \in 1 .. i - 1 : text[j].kind = "sample" /\ text[j].index = text[i].index
                           => \E k \in j .. i : text[k].kind = "sample" /\ text[k].index # text[i].index
      names(i) == text[i].kind # "section" /\ text[i].key = "file"
      last(i) == \A j \in i + 1 .. Len(text) : names(j) => \E k \in i + 1 .. j : starts(k)
  IN  {i \in DOMAIN text : names(i) /\ last(i)}

\* The samples that the zones of a SoundFont preset name through its instruments, of a bank
\* [presets, instruments] whose zones are sequences of generators.
Said(zone, op) == {zone[k].amount : k \in {k \in DOMAIN zone : zone[k].op = op}}
BankSamples(bank, chosen) ==
  LET naming(zones, op) == SelectSeq(zones, LAMBDA z : Said(z, op) # {})
      the(z, op) == (CHOOSE n \in Said(z, op) : TRUE) + 1
      samples(z) == LET zones == naming(bank.instruments[the(z, "instrument")], "sampleID")
                    IN  [k \in DOMAIN zones |-> <<bank.samples[the(zones[k], "sampleID")].name>>]
      outer == naming(bank.presets[chosen + 1].zones, "instrument")
  IN  FlattenSeq([k \in DOMAIN outer |-> samples(outer[k])])

References(d) ==
  LET c == d.content
  IN  CASE d.format = "decentSampler" ->
             LET els == FlattenSeq([k \in DOMAIN c.groups |-> PresetSamples(c.groups[k])])
                        \o FlattenSeq([k \in DOMAIN c.containers |->
                                         FlattenSeq([n \in DOMAIN c.containers[k] |-> PresetSamples(c.containers[k][n])])])
                        \o c.samples
             IN  [k \in DOMAIN els |-> attribute(els[k], "path", <<>>)]
        [] d.format = "sf2" -> BankSamples(d.bank, d.selection)
        [] d.format = "mpcKeygroup" ->
             LET els == FlattenSeq([k \in DOMAIN c |-> attribute(c[k], "layers", <<>>)])
             IN  [k \in DOMAIN els |-> mpcReference(els[k])]
        [] d.format = "bento1010" -> Values(Descendants(c))
        [] d.format = "talSampler" -> Values(Tagged(Descendants(c), {"sample"}))
        [] d.format = "korgMultisample" -> Values(Tagged(Descendants(c.manifest), {"sample"}))
        [] d.format = "bitwigMultisample" ->
             Values(Tagged(c.manifest.children, {"sample"})
                    \o FlattenSeq([k \in DOMAIN c.manifest.children |-> Tagged(c.manifest.children[k].children, {"sample"})]))
        [] d.format = "tx16wx" ->
             LET groups == Tagged(c.children, {"group"})
             IN  Values(IF groups = <<>> THEN Tagged(c.children, {"region"})
                        ELSE FlattenSeq([k \in DOMAIN groups |-> Tagged(groups[k].children, {"region"})]))
        [] d.format = "abletonSampler" ->
             LET els == Tagged(Descendants(c), {"MultiSamplePart"})
             IN  [k \in DOMAIN els |-> readAbletonSamplePath(els[k].attributes)]
        [] d.format = "distingExPreset" ->
             LET lines == SetToSortSeq(DistingFiles(c), <)
             IN  [k \in DOMAIN lines |-> c[lines[k]].value]
        [] d.format = "korgKmp" ->
             [k \in DOMAIN kmpEntries(c) |-> IF c.entries[k].file = "" THEN <<>> ELSE <<c.entries[k].stem>>]
        [] d.format = "logicExs24" ->
             [k \in DOMAIN c.zones |-> IF c.zones[k].sample \in 0 .. Len(c.samples) - 1
                                       THEN c.samples[c.zones[k].sample + 1].file ELSE <<>>]
        [] OTHER -> <<>>

Named == {"decentSampler", "mpcKeygroup", "bento1010", "talSampler", "korgMultisample", "bitwigMultisample", "tx16wx",
          "abletonSampler", "distingExPreset", "korgKmp", "logicExs24", "sf2"}

EveryFileIsPlayed ==
  source # NoDocument /\ source.format \in Named /\ (crossed => ~ ReadInLines(source)) =>
    LET named == SelectSeq(References(source), LAMBDA f : f # <<>>)
        plays(n) == instrument.assets[instrument.zones[n].sample].name
    IN  /\ Len(named) = Len(instrument.zones)
        /\ WasSaved(source) \/
           \A name \in {Last(named[k]) : k \in DOMAIN named} :
             Cardinality({k \in DOMAIN named : Last(named[k]) = name})
               = Cardinality({n \in DOMAIN instrument.zones : plays(n) = name})

SplitsCoverKeys ==
  LET zones == instrument.zones
      ends(k) == IF k = Len(zones) THEN instrument.assets[1].length ELSE zones[k + 1].start
      ascend(e) == \A i, j \in DOMAIN e : i < j => e[i].top < e[j].top /\ e[i].file # ""
  IN  source # NoDocument =>
        /\ source.format = "sampleSlices" =>
             /\ zones[1].start = 0
             /\ \A k \in DOMAIN zones : zones[k].end = ends(k) /\ zones[k].keys = <<BaseNote + k - 1, BaseNote + k - 1>>
        /\ source.format = "korgKmp" /\ ascend(source.content.entries) =>
             \A key \in 0 .. Last(source.content.entries).top :
               Cardinality({k \in DOMAIN zones : zones[k].keys[1] <= key /\ key <= zones[k].keys[2]}) = 1

\* A published program has a zone for every sample that its document names, and the zones play
\* the files of these names: none is lost, read twice or taken for another where a format
\* numbers, nests, groups or shares its samples (BinaryMultisampleImporters.cpp:605).  Formats
\* that split a keyboard or a sample leave no gap and play nothing twice: the slices of a sample
\* follow each other to its end on successive keys, also when there are more slices than keys,
\* and up to the last top key of a KMP every key plays one zone (TransientSliceProgram.h:150).
\* It does not hold of disting EX files that the worker and the message thread read at a time:
\* they share the number that tells samples apart (BinaryMultisampleImporters.cpp:190), and a
\* sample is lost when the other thread stores the number that comes next.
ZonesPlayTheirFiles == EveryFileIsPlayed /\ SplitsCoverKeys
=============================================================================
