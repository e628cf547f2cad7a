------------------------------ MODULE NkiProbe ------------------------------
(***************************************************************************)
(* Legacy NKI instruments, of which only the printable strings are read.   *)
(* A string is [tag, value]: "group" and "zone" begin one, "sample" names  *)
(* an audio file, "container" a container of them, every other tag is a    *)
(* value for the zone at hand.  A group is named by a number, 0 for none.  *)
(***************************************************************************)
EXTENDS ImportedZones, TLC

NoZone == [sample |-> <<>>, group |-> 0, fields |-> <<>>]

\* A zone that names no sample yet goes on.
commitZoneMetadata(acc) ==
  IF acc.pending.sample = <<>> THEN acc
  ELSE [acc EXCEPT !.pending = NoZone,
                   !.zones = Append(@, [acc.pending EXCEPT !.group = IF @ = 0 THEN acc.group ELSE @])]

\* A second sample is one of a zone of its own.
enumerateString(acc, s) ==
  LET done == commitZoneMetadata(acc)
  IN  CASE s.tag = "group" -> [done EXCEPT !.group = s.value]
        [] s.tag = "zone" -> [done EXCEPT !.pending = [NoZone EXCEPT !.group = acc.group]]
        [] s.tag = "container" -> acc
        [] s.tag = "sample" ->
             [done EXCEPT !.pending.sample = s.value,
                          !.pending.group = IF @ = 0 THEN acc.group ELSE @]
        [] OTHER -> [acc EXCEPT !.pending.fields = (s.tag :> s.value) @@ @]

enumerateZoneMetadata(strings) ==
  commitZoneMetadata(FoldLeft(enumerateString, [zones |-> <<>>, pending |-> NoZone, group |-> 0], strings)).zones

\* probeFile
isLegacyCandidate(strings) == \E k \in DOMAIN strings : strings[k].tag = "sample"

-----------------------------------------------------------------------------

\* A path beside the instrument or its folder, or in a sample folder there; else any file of
\* the name below.
resolveSampleReference(reference, folder, disk) ==
  LET parent == SubSeq(folder, 1, Len(folder) - 1)
      variants == <<reference>> \o (IF reference[1] = "Samples" THEN <<Tail(reference)>> ELSE <<>>) \o <<<<Last(reference)>>>>
      places == <<folder, parent, folder \o <<"Samples">>, parent \o <<"Samples">>>>
      candidates == <<reference>> \o FlattenSeq([i \in DOMAIN places |->
                                       [k \in DOMAIN variants |-> places[i] \o variants[k]]])
      found == SelectSeq(candidates, LAMBDA c : c \in DOMAIN disk)
      below(place) == {p \in DOMAIN disk : IsStrictPrefix(place, p)}
      samples == below(places[3]) \cup below(places[4])
      searched == {p \in IF samples = {} THEN below(folder) ELSE samples : Last(p) = Last(reference)}
  IN  CASE found # <<>> -> found[1]
        [] found = <<>> /\ searched # {} -> CHOOSE p \in searched : TRUE
        [] OTHER -> <<>>

\* The folder the user chose is asked last.
nkiPath(reference, folder, searchFolder, disk) ==
  LET resolved == resolveSampleReference(reference, folder, disk)
      below == {p \in DOMAIN disk : IsStrictPrefix(searchFolder, p) /\ Last(p) = Last(reference)}
      direct == searchFolder \o <<Last(reference)>>
  IN  CASE resolved # <<>> \/ searchFolder = <<>> -> resolved
        [] resolved = <<>> /\ searchFolder # <<>> /\ direct \in below -> direct
        [] OTHER -> IF below = {} THEN <<>> ELSE CHOOSE p \in below : TRUE

said(f, name) == IF name \in DOMAIN f THEN {f[name]} ELSE {}

\* One limit, or else the root, makes a range of one key.
makeKeyRange(f) ==
  LET limits == said(f, "low") \cup said(f, "high")
      key == CHOOSE n \in IF limits # {} THEN limits ELSE said(f, "root") : TRUE
  IN  CASE {"low", "high"} \subseteq DOMAIN f -> fromUnordered(f["low"], f["high"])
        [] ~ ({"low", "high"} \subseteq DOMAIN f) /\ limits \cup said(f, "root") # {} ->
             <<clampMidiNote(key), clampMidiNote(key)>>
        [] OTHER -> <<0, 127>>

chooseRootMidiNote(f) == clampMidiNote(attribute(f, "root", attribute(f, "low", attribute(f, "high", 60))))

\* Ends are inclusive in the file.
nkiZone(metadata, group) ==
  LET f == metadata.fields
      start == attribute(f, "start", 0)
      from == attribute(f, "loopStart", -1)
  IN  [NewZone EXCEPT !.group = group, !.keys = makeKeyRange(f), !.root = chooseRootMidiNote(f), !.start = start,
                      !.end = IF "end" \in DOMAIN f THEN Max2(start + 1, f["end"] + 1) ELSE @,
                      !.loop = <<from, IF "loopEnd" \in DOMAIN f THEN Max2(Max2(from, 0) + 1, f["loopEnd"] + 1) ELSE -1>>,
                      !.gain = attribute(f, "gain", 0), !.pan = attribute(f, "pan", 0),
                      !.tune = attribute(f, "tune", 0) + 100 * attribute(f, "transpose", 0),
                      !.trigger = attribute(f, "trigger", @), !.loopMode = attribute(f, "loop", @)]

\* One asset for a path; a sample that cannot be found or read is passed over with its zone.
nkiAsset(r, path, disk) ==
  LET known == SelectInSeq(r.program.assets, LAMBDA a : a.path = path)
  IN  CASE path = <<>> -> [result |-> r, asset |-> 0]
        [] path # <<>> /\ known > 0 -> [result |-> r, asset |-> known]
        [] path # <<>> /\ known = 0 /\ disk[path].length = 0 -> [result |-> r, asset |-> 0]
        [] OTHER -> loadSampleAssetFromFile(r, path, disk)

ensureGroup(acc, g) ==
  IF g = 0 \/ g \in DOMAIN acc.groups THEN acc
  ELSE [result |-> addGroup(acc.result, NewGroup), groups |-> (g :> lastGroup(acc.result) + 1) @@ acc.groups]

addNkiZone(acc, metadata, folder, searchFolder, disk) ==
  LET loaded == nkiAsset(acc.result, nkiPath(metadata.sample, folder, searchFolder, disk), disk)
      grouped == ensureGroup([acc EXCEPT !.result = loaded.result], metadata.group)
      z == nkiZone(metadata, IF metadata.group = 0 THEN 0 ELSE grouped.groups[metadata.group])
  IN  IF loaded.asset = 0 THEN acc ELSE [grouped EXCEPT !.result = addZone(@, [z EXCEPT !.sample = loaded.asset])]

\* What is no legacy instrument of loose samples stays without zones, which is not an error.
importNki(strings, folder, searchFolder, disk) ==
  IF ~ isLegacyCandidate(strings) THEN Nothing
  ELSE FoldLeft(LAMBDA acc, m : addNkiZone(acc, m, folder, searchFolder, disk),
                [result |-> Nothing, groups |-> <<>>], enumerateZoneMetadata(strings)).result
=============================================================================
