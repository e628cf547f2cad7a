-------------------------- MODULE BinaryMultisample --------------------------
(***************************************************************************)
(* Multisamples that are not XML: the text of a disting EX, the chunks of  *)
(* a Korg KMP and of a Logic EXS24, and NN-XT patches, which are known but *)
(* not read.                                                               *)
(***************************************************************************)
EXTENDS ImportedZones

-----------------------------------------------------------------------------
(* disting EX: lines [kind, index, key, value], of which only sections and *)
(* numbered lines have a meaning by their kind.                            *)

NoValues == <<>>

pendingZone(values) ==
  [NewZone EXCEPT !.group = 1, !.root = note(values, "root", 60),
                  !.keys = fromUnordered(note(values, "low", 0), note(values, "high", 127)),
                  !.gain = attribute(values, "gain", 0),
                  !.pan = clamp(attribute(values, "pan", 0), -1000, 1000),
                  !.tune = attribute(values, "fine", 0) + 100 * attribute(values, "coarse", 0)]

\* Values without a file are kept for the next sample.
flushZone(acc, folder, disk) ==
  LET path == resolveSamplePath(acc.values["file"], folder, disk)
  IN  IF "file" \notin DOMAIN acc.values THEN acc
      ELSE [acc EXCEPT !.values = NoValues,
                       !.result = withSample(loadSampleAssetFromFile(@, path, disk), pendingZone(acc.values))]

\* Tunings of one sample add up, all other values replace each other.
setKv(values, key, value) ==
  LET said == IF key \in {"fine", "coarse"} THEN attribute(values, key, 0) + value ELSE value
  IN  [k \in DOMAIN values \cup {key} |-> IF k = key THEN said ELSE values[k]]

\* The lines are read one at a time by ForeignLibrary.
distingStart == addGroup(Nothing, NewGroup)

-----------------------------------------------------------------------------
(* Korg KMP: entries [top, root, tune, gain, pan, file, stem], of which    *)
(* each plays from above the top key of the one before it.                 *)

\* A declared number of 0 is none.
kmpEntries(kmp) == SubSeq(kmp.entries, 1, Min2(Len(kmp.entries), IF kmp.declared > 0 THEN kmp.declared ELSE 128))

\* A file beside the instrument that was converted goes by the stem of the name.
kmpPath(e, folder, disk) ==
  LET direct == resolveSamplePath(<<e.file>>, folder, disk)
  IN  IF direct # <<>> THEN direct ELSE resolveSamplePath(<<e.stem>>, folder, disk)

kmpKeys(prevTop, top) == <<clamp(prevTop + 1, 0, 127), clamp(top, clamp(prevTop + 1, 0, 127), 127)>>

\* An entry without a name leaves its keys to the next one.
kmpEntry(acc, e, folder, disk) ==
  LET z == [NewZone EXCEPT !.group = 1, !.root = e.root, !.keys = kmpKeys(acc.prevTop, e.top), !.tune = e.tune,
                           !.gain = e.gain, !.pan = clamp(e.pan, -1000, 1000)]
  IN  IF e.file = "" THEN acc
      ELSE [result |-> withSample(loadSampleAssetFromFile(acc.result, kmpPath(e, folder, disk), disk), z),
            prevTop |-> e.top]

importKmp(kmp, folder, disk) ==
  FoldLeft(LAMBDA acc, e : kmpEntry(acc, e, folder, disk),
           [result |-> addGroup(Nothing, NewGroup), prevTop |-> -1], kmpEntries(kmp)).result

-----------------------------------------------------------------------------
(* Logic EXS24: zones that name samples [path, file] by their number.      *)

exsPath(s, folder, disk) ==
  LET parent == SubSeq(folder, 1, Len(folder) - 1)
      places == <<folder \o s.file, folder \o <<"Samples">> \o s.file, folder \o <<"Sampler Files">> \o s.file,
                  parent \o <<"Samples">> \o s.file>>
      found == SelectSeq(places, LAMBDA p : p \in DOMAIN disk)
      absolute == resolveSamplePath(s.path, folder, disk)
  IN  CASE absolute # <<>> -> absolute
        [] absolute = <<>> /\ found # <<>> -> found[1]
        [] OTHER -> resolveSamplePath(s.file, folder, disk)

exsZone(e, asset) ==
  LET z == [NewZone EXCEPT !.group = 1, !.sample = asset, !.root = clampMidiNote(e.root),
                           !.keys = fromUnordered(e.low, e.high),
                           !.start = Max2(0, e.start), !.end = IF e.end > e.start THEN e.end ELSE @,
                           !.pan = clamp(e.pan, -1000, 1000), !.tune = 100 * e.coarse + e.fine, !.gain = e.gain]
  IN  IF e.loopOn /\ e.loopEnd > e.loopStart /\ e.loopStart >= 0
      THEN withLoop(z, "loop_continuous", e.loopStart, e.loopEnd) ELSE z

addExsZone_LastAsset(acc, e, samples, folder, disk) ==
  LET loaded == loadSampleAssetFromFile(acc.result, exsPath(samples[e.sample + 1], folder, disk), disk)
  IN  CASE e.sample \notin 0 .. Len(samples) - 1 -> acc
        [] e.sample \in DOMAIN acc.known -> [acc EXCEPT !.result = addZone(@, exsZone(e, lastAsset(@)))]
        [] loaded.asset = 0 -> [acc EXCEPT !.result = loaded.result]
        [] OTHER -> [result |-> addZone(loaded.result, exsZone(e, loaded.asset)),
                     known |-> [i \in DOMAIN acc.known \cup {e.sample} |-> loaded.asset]]

\* Each sample is loaded once, and tried again by every zone if that failed.
addExsZone(acc, e, samples, folder, disk) ==
  LET loaded == IF e.sample \in DOMAIN acc.known THEN [result |-> acc.result, asset |-> acc.known[e.sample]]
                ELSE loadSampleAssetFromFile(acc.result, exsPath(samples[e.sample + 1], folder, disk), disk)
  IN  CASE e.sample \notin 0 .. Len(samples) - 1 -> acc
        [] e.sample \in 0 .. Len(samples) - 1 /\ loaded.asset = 0 -> [acc EXCEPT !.result = loaded.result]
        [] OTHER -> [result |-> addZone(loaded.result, exsZone(e, loaded.asset)),
                     known |-> [i \in DOMAIN acc.known \cup {e.sample} |->
                                  IF i = e.sample THEN loaded.asset ELSE acc.known[i]]]

importExs(exs, folder, disk) ==
  FoldLeft(LAMBDA acc, e : addExsZone(acc, e, exs.samples, folder, disk),
           [result |-> addGroup(Nothing, NewGroup), known |-> <<>>], exs.zones).result

-----------------------------------------------------------------------------

\* Recognised, but not read.
importNnxt == failed(Nothing)
=============================================================================
