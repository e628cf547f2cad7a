------------------------------ MODULE SoundFont ------------------------------
(***************************************************************************)
(* SoundFont 2 files: presets, whose zones name instruments, whose zones   *)
(* name samples.  Presets, instruments and samples are tables that end in  *)
(* a terminal record; the zones are bags, each a run of generators.        *)
(*   phdr: records of bank, preset and bag       inst: bags                *)
(*   pbag, ibag: the first generators of bags    pgen, igen: generators    *)
(*   shdr: the samples, places in smpl           smpl: its length          *)
(* Indices inside the file count from 0.  A generator is an operation and  *)
(* an amount, of which keyRange, instrument and sampleID are special.      *)
(* Gains are in tenths of a dB and pans in tenths of a percent.            *)
(***************************************************************************)
EXTENDS ImportedZones, TLC

Tables == {"phdr", "pbag", "pgen", "inst", "ibag", "igen", "shdr", "smpl"}

at(table, i) == table[i + 1]

\* A bag range of every preset and instrument, none beyond the bags.
validateBagRange(records, bags) ==
  \A i \in 1 .. Len(records) - 1 :
    /\ records[i] < Len(bags) /\ records[i + 1] < Len(bags)
    /\ records[i] <= records[i + 1]

presetBags(file) == [i \in DOMAIN file.phdr |-> file.phdr[i].bag]

\* parseSf2Container, validateSf2Tables
isValidFile(file) ==
  /\ file # Damaged
  /\ Tables \subseteq DOMAIN file
  /\ \A t \in {"phdr", "inst", "shdr"} : Len(file[t]) >= 2
  /\ \A t \in {"pbag", "pgen", "ibag", "igen"} : Len(file[t]) >= 1
  /\ validateBagRange(presetBags(file), file.pbag)
  /\ validateBagRange(file.inst, file.ibag)

-----------------------------------------------------------------------------
(* Generators.                                                             *)

\* The last of two of one kind counts.
GenSet(gens) ==
  [op \in {gens[k].op : k \in DOMAIN gens} |-> gens[SelectLastInSeq(gens, LAMBDA g : g.op = op)].amount]

\* The zones that bags [from, to) make, and the first one that names nothing, which is global.
\* A bag whose generators do not lie in the table is passed over.
collectZoneGens(bags, gens, from, to, terminator) ==
  LET within(b) == bags[b] <= bags[b + 1] /\ bags[b + 1] <= Len(gens)
      numbers == SelectSeq([k \in 1 .. to - from |-> from + k], LAMBDA b : b < Len(bags) /\ within(b))
      sets == [k \in DOMAIN numbers |-> GenSet(SubSeq(gens, bags[numbers[k]] + 1, bags[numbers[k] + 1]))]
      others == SelectSeq(sets, LAMBDA s : terminator \notin DOMAIN s)
  IN  [zones |-> SelectSeq(sets, LAMBDA s : terminator \in DOMAIN s),
       global |-> IF others = <<>> THEN <<>> ELSE others[1]]

links == {"instrument", "sampleID"}

clamp16(n) == clamp(n, -32768, 32767)

\* What a preset says is added to what the instrument says; ranges are intersected.
mergePresetOverlay(zone, preset) ==
  LET added(op) == CASE op \notin DOMAIN zone -> preset[op]
                     [] op \in DOMAIN zone /\ op = "keyRange" -> intersectRanges(zone[op], preset[op])
                     [] OTHER -> clamp16(zone[op] + preset[op])
  IN  [op \in DOMAIN preset \ links |-> added(op)] @@ zone

\* An instrument's global zone has the defaults of its zones; both of the preset's are added.
effectiveGens(zone, instGlobal, presetZone, presetGlobal) ==
  mergePresetOverlay(mergePresetOverlay(zone @@ instGlobal, presetGlobal), presetZone)

-----------------------------------------------------------------------------
(* A preset.                                                               *)

sampleLength(shdr) == shdr.end - shdr.start

SoundFontZone(e, shdr, asset, g) ==
  LET amount(op) == attribute(e, op, 0)
      length == sampleLength(shdr)
      root == attribute(e, "rootKey", -1)
      start == clamp(amount("startOffset") + 32768 * amount("startCoarse"), 0, length)
      end == clamp(length + amount("endOffset") + 32768 * amount("endCoarse"), start, length)
      loopStart == Max2(0, shdr.startLoop - shdr.start + amount("startLoopOffset"))
      loopEnd == clamp(shdr.endLoop - shdr.start + amount("endLoopOffset"), loopStart + 1, length)
      mode == CASE amount("sampleModes") = 1 -> "loop_continuous"
                [] amount("sampleModes") = 3 -> "loop_sustain"
                [] OTHER -> "no_loop"
      played == withWindow([NewZone EXCEPT
                  !.sample = asset, !.group = g,
                  !.keys = IF "keyRange" \in DOMAIN e THEN fromUnordered(e["keyRange"][1], e["keyRange"][2]) ELSE @,
                  !.root = clampMidiNote(clampMidiNote(IF root >= 0 THEN root ELSE shdr.originalPitch)
                                         - amount("coarseTune")),
                  !.tune = amount("fineTune") + shdr.pitchCorrection,
                  !.pan = clamp(2 * amount("pan"), -1000, 1000),
                  !.gain = -amount("attenuation")], start, end)
  IN  IF mode = "no_loop" THEN played ELSE withLoop(played, mode, loopStart, loopEnd)

\* decodeSample: a sample without frames is passed over, one beyond the pool is an error.
loadSample(acc, file, id) ==
  LET shdr == at(file.shdr, id)
      asset == [path |-> <<>>, name |-> shdr.name, audio |-> shdr.name, length |-> sampleLength(shdr)]
  IN  CASE id \in DOMAIN acc.known -> acc
        [] id \notin DOMAIN acc.known /\ shdr.end <= shdr.start -> acc
        [] id \notin DOMAIN acc.known /\ shdr.end > shdr.start /\ shdr.end > file.smpl ->
             [acc EXCEPT !.result = failed(@)]
        [] OTHER -> [result |-> addAsset(acc.result, asset),
                     known |-> (id :> lastAsset(acc.result) + 1) @@ acc.known]

addInstrumentZone(acc, file, e) ==
  LET id == e["sampleID"]
      loaded == loadSample(acc, file, id)
  IN  IF id \notin 0 .. Len(file.shdr) - 2 THEN acc
      ELSE IF id \notin DOMAIN loaded.known THEN loaded
      ELSE [loaded EXCEPT !.result = addZone(@, SoundFontZone(e, at(file.shdr, id), loaded.known[id],
                                                              lastGroup(@)))]

\* A group for every zone of the preset that names an instrument there is.
addPresetZone(acc, file, zone, presetGlobal) ==
  LET inst == zone["instrument"]
      bags == collectZoneGens(file.ibag, file.igen, at(file.inst, inst), at(file.inst, inst + 1), "sampleID")
  IN  IF inst \notin 0 .. Len(file.inst) - 2 THEN acc
      ELSE FoldLeft(LAMBDA a, z : addInstrumentZone(a, file, effectiveGens(z, bags.global, zone, presetGlobal)),
                    [acc EXCEPT !.result = addGroup(@, NewGroup)], bags.zones)

importSinglePreset(file, index) ==
  LET bags == collectZoneGens(file.pbag, file.pgen, at(file.phdr, index).bag,
                              at(file.phdr, index + 1).bag, "instrument")
  IN  requireZones(FoldLeft(LAMBDA acc, z : addPresetZone(acc, file, z, bags.global),
                            [result |-> Nothing, known |-> <<>>], bags.zones).result)

-----------------------------------------------------------------------------
(* A file.                                                                 *)

\* The presets as the chooser lists them, without the terminal record.
enumeratePresets(file) ==
  SortSeq(SubSeq(file.phdr, 1, Len(file.phdr) - 1),
          LAMBDA a, b : a.bank < b.bank \/ (a.bank = b.bank /\ a.preset < b.preset))

\* The first record with the bank and number of the chosen one.
presetRecord(file, chosen) ==
  SelectInSeq(file.phdr, LAMBDA p : p.bank = chosen.bank /\ p.preset = chosen.preset) - 1

importFilePreset(file, presetIndex) ==
  IF file = Damaged \/ ~ isValidFile(file) \/ presetIndex \notin 0 .. Len(file.phdr) - 2 THEN failed(Nothing)
  ELSE importSinglePreset(file, presetRecord(file, at(enumeratePresets(file), presetIndex)))
=============================================================================
