---------------------------- MODULE DecentSampler ----------------------------
(***************************************************************************)
(* DecentSampler presets, read and written.  A preset is                   *)
(*   [containers |-> the groups of each <groups>, groups |-> those outside *)
(*    of any, samples |-> the <sample> elements outside of groups]         *)
(* and a group has attributes, samples and nested groups.                  *)
(*                                                                         *)
(* Gains are in dB, tunings in cents and pans in tenths of a percent.  A   *)
(* linear volume and a note given by its name are other ways to write the  *)
(* numbers, and Unreadable is what is neither.  Of a list of tags the      *)
(* choke group that it names counts, 0 if it names none.  Effects and      *)
(* fades are left out with a warning.                                      *)
(***************************************************************************)
EXTENDS ImportedZones, TLC

-----------------------------------------------------------------------------
(* Import.                                                                 *)

\* The presets have copies of parseMidiNoteText() and resolveSamplePath() of their own.
parseMidiNote(node, name, default) == note(node, name, default)
presetSamplePath(raw, folder, disk) == resolveSamplePath(raw, folder, disk)

\* A linear volume that is not positive, which text also is, changes nothing.
parseVolume(node) == LET raw == attribute(node, "volume", 0) IN IF raw = Unreadable THEN 0 ELSE raw

parseTrigger(value, fallback) ==
  CASE value = "release" -> "release"
    [] value \in {"first", "legato", "normal", "attack"} -> "gate"
    [] OTHER -> fallback

parseSeqMode(value, fallback) ==
  CASE value = "round_robin" -> "ordered"
    [] value \in {"random", "true_random"} -> "random"
    [] OTHER -> fallback

parseChokeGroup(node, allowTagFallback) ==
  LET explicit == Max2(0, attribute(node, "choke", 0))
      tag == attribute(node, "tags", 0)
  IN  CASE explicit > 0 -> explicit
        [] explicit = 0 /\ ~ allowTagFallback -> 0
        [] explicit = 0 /\ allowTagFallback /\ tag > 0 -> tag
        [] OTHER -> attribute(node, "silencedByTags", 0)

\* Numbers up to one are fractions, all others percentages.
parsePan(node) ==
  LET raw == attribute(node, "pan", 0)
  IN  IF -10 <= raw /\ raw <= 10 THEN raw * 100 ELSE clamp(raw, -1000, 1000)

\* The part of a tuning that moves the root key.
semitones(cents) == IF cents >= 0 THEN cents \div 100 ELSE -((-cents) \div 100)

NoTurn == [active |-> FALSE, group |-> 0, mode |-> "ordered", position |-> 0, length |-> 0]

\* What a <sample> says of its turn goes before what its group says.
withTurn(z, node, turn) ==
  LET mode == parseSeqMode(attribute(node, "seqMode", ""), "none")
  IN  IF turn.active \/ mode # "none" \/ {"seqPosition", "seqLength"} \cap DOMAIN node # {}
      THEN [z EXCEPT !.rrGroup = IF turn.group > 0 THEN turn.group ELSE Max2(1, z.group),
                     !.rrMode = IF mode # "none" THEN mode ELSE turn.mode,
                     !.rrPosition = Max2(0, attribute(node, "seqPosition", turn.position)),
                     !.rrLength = Max2(0, attribute(node, "seqLength", turn.length))]
      ELSE z

SampleZone(node, asset, g, turn, explicitChoke) ==
  LET rootNote == parseMidiNote(node, "rootNote", 60)
      key(name) == parseMidiNote(node, name, rootNote)
      tuning == attribute(node, "tuning", 0)
      end == attribute(node, "end", -1)
      from == attribute(node, "loopStart", -1)
      to == attribute(node, "loopEnd", -1)
      played == withWindow(NewZone, Max2(0, attribute(node, "start", 0)), IF end > 0 THEN end ELSE -1)
      looped == IF attribute(node, "loopEnabled", FALSE) /\ from >= 0 /\ to > from
                THEN withLoop(played, "loop_continuous", from, to) ELSE played
  IN  withTurn([looped EXCEPT !.sample = asset, !.group = g,
                              !.keys = fromUnordered(key("loNote"), key("hiNote")),
                              !.root = clampMidiNote(rootNote - semitones(tuning)),
                              !.tune = tuning - 100 * semitones(tuning),
                              !.gain = parseVolume(node), !.pan = parsePan(node),
                              !.trigger = parseTrigger(attribute(node, "trigger", ""), "gate"),
                              !.choke = parseChokeGroup(node, ~ explicitChoke)],
               node, turn)

\* One asset for a path.
presetAsset(r, path, disk) ==
  LET known == SelectInSeq(r.program.assets, LAMBDA a : a.path = path)
  IN  IF known > 0 THEN [result |-> r, asset |-> known] ELSE loadSampleAssetFromFile(r, path, disk)

\* A sample without a path is skipped, one that cannot be found or read is an error.
processSample(r, node, g, turn, explicitChoke, folder, disk) ==
  LET path == presetSamplePath(node["path"], folder, disk)
      loaded == presetAsset(r, path, disk)
  IN  CASE "path" \notin DOMAIN node -> r
        [] "path" \in DOMAIN node /\ path = <<>> -> failed(r)
        [] "path" \in DOMAIN node /\ path # <<>> /\ loaded.asset = 0 -> loaded.result
        [] OTHER -> addZone(loaded.result, SampleZone(node, loaded.asset, g, turn, explicitChoke))

NoParent == [trigger |-> "gate", gain |-> 0, pan |-> 0]

\* Nested groups add to the gain and pan of those around them and take over their trigger;
\* they follow the samples of their group.
RECURSIVE processGroup(_, _, _, _, _)
processGroup(r, node, parent, folder, disk) ==
  LET own == node.attributes
      mode == parseSeqMode(attribute(own, "seqMode", ""), "none")
      position == Max2(0, attribute(own, "seqPosition", 0))
      length == Max2(0, attribute(own, "seqLength", 0))
      active == mode # "none" \/ position > 0 \/ length > 0
      index == lastGroup(r) + 1
      g == [NewGroup EXCEPT !.gain = parent.gain + parseVolume(own),
                            !.pan = clamp(parent.pan + parsePan(own), -1000, 1000),
                            !.trigger = parseTrigger(attribute(own, "trigger", ""), parent.trigger),
                            !.choke = parseChokeGroup(own, TRUE),
                            !.rrMode = IF mode # "none" THEN mode ELSE @,
                            !.rrGroup = IF active THEN index ELSE 0]
      turn == IF active THEN [active |-> TRUE, group |-> index, mode |-> g.rrMode,
                              position |-> position, length |-> length]
              ELSE NoTurn
      withSamples == FoldLeft(LAMBDA acc, s : processSample(acc, s, index, turn, "choke" \in DOMAIN own,
                                                            folder, disk),
                              addGroup(r, g), node.samples)
  IN  FoldLeft(LAMBDA acc, n : processGroup(acc, n, g, folder, disk), withSamples, node.groups)

importDecentSampler(preset, folder, disk) ==
  IF preset = Damaged THEN failed(Nothing)
  ELSE LET groups == FoldLeft(LAMBDA acc, n : processGroup(acc, n, NoParent, folder, disk),
                              Nothing, FlattenSeq(preset.containers) \o preset.groups)
       IN  requireZones(FoldLeft(LAMBDA acc, s : processSample(acc, s, 0, NoTurn, FALSE, folder, disk),
                                 groups, preset.samples))

-----------------------------------------------------------------------------
(* Export.                                                                 *)

groupOf(p, z) == IF z.group > 0 THEN p.groups[z.group] ELSE NewGroup

effectiveRoundRobinMode(p, z) ==
  IF "random" \in {z.rrMode, groupOf(p, z).rrMode} THEN "random" ELSE "ordered"
effectiveChokeGroup(p, z) == IF z.choke > 0 THEN z.choke ELSE groupOf(p, z).choke

effectiveKeys(p, z) == IF z.group > 0 THEN intersectRanges(z.keys, groupOf(p, z).keys) ELSE z.keys

seqMode(mode) == IF mode = "random" THEN "random" ELSE "round_robin"
only(value, said) == [k \in {k \in DOMAIN value : said[k]} |-> value[k]]

\* The longest sequence of the zones of a group is the length of its own.
GroupAttributes(p, g) ==
  LET longest == FoldSet(LAMBDA i, n : IF p.zones[i].group = g THEN Max2(p.zones[i].rrLength, n) ELSE n,
                         0, DOMAIN p.zones)
      own == p.groups[g]
      turns == own.rrGroup > 0 \/ own.rrMode # "ordered"
  IN  only([volume |-> own.gain, pan |-> own.pan, seqMode |-> seqMode(own.rrMode), seqLength |-> longest,
            trigger |-> own.trigger, choke |-> own.choke],
           [volume |-> own.gain # 0, pan |-> own.pan # 0, seqMode |-> turns,
            seqLength |-> turns /\ longest > 1, trigger |-> own.trigger = "release", choke |-> own.choke > 0])

\* Sustain loops are written as continuous ones, and one-shots not at all.
SampleAttributes(p, z, path) ==
  LET keys == effectiveKeys(p, z)
      tag == effectiveChokeGroup(p, z)
      loops == z.loopMode # "no_loop" /\ z.loop[1] >= 0 /\ z.loop[2] > z.loop[1]
      turns == z.rrPosition > 0
  IN  only([path |-> path, rootNote |-> z.root, loNote |-> keys[1], hiNote |-> keys[2], choke |-> z.choke,
            tags |-> tag, silencedByTags |-> tag, start |-> z.start, end |-> z.end, tuning |-> z.tune,
            volume |-> z.gain, pan |-> z.pan, seqMode |-> seqMode(effectiveRoundRobinMode(p, z)),
            seqPosition |-> z.rrPosition, seqLength |-> z.rrLength, loopEnabled |-> TRUE,
            loopStart |-> z.loop[1], loopEnd |-> z.loop[2], trigger |-> "release"],
           [path |-> TRUE, rootNote |-> TRUE, loNote |-> TRUE, hiNote |-> TRUE, choke |-> z.choke > 0,
            tags |-> tag > 0, silencedByTags |-> tag > 0, start |-> z.start > 0, end |-> z.end > 0,
            tuning |-> z.tune # 0, volume |-> z.gain # 0, pan |-> z.pan # 0, seqMode |-> turns,
            seqPosition |-> turns, seqLength |-> turns /\ z.rrLength > 1, loopEnabled |-> loops,
            loopStart |-> loops, loopEnd |-> loops, trigger |-> z.trigger = "release"])

\* Copies go to the sample folder, under a name that no file there has.
freshName_Reused(folder, name, disk) == name
freshName(folder, name, disk) ==
  LET numbered(n) == IF n = 1 THEN name ELSE name \o "_" \o ToString(n)
      taken(n) == folder \o <<numbered(n)>> \in DOMAIN disk
  IN  numbered(CHOOSE n \in 1 .. Cardinality(DOMAIN disk) + 1 :
                 ~ taken(n) /\ \A m \in 1 .. n - 1 : taken(m))

\* The first n samples copied: their paths from the preset's folder, and the disk.  Nobody asks
\* for the onsets of a copy.
copied(p, n, folder, disk) ==
  FoldLeft(LAMBDA acc, a :
             LET name == freshName(folder \o <<"Samples">>, a.name, acc.disk)
             IN  [paths |-> Append(acc.paths, <<"Samples", name>>),
                  disk |-> (folder \o <<"Samples", name>> :> [audio |-> a.audio, length |-> a.length, onsets |-> <<>>])
                           @@ acc.disk],
           [paths |-> <<>>, disk |-> disk], SubSeq(p.assets, 1, n))

\* Zones that no note reaches are left out.  A group comes with the first of its zones.
exportProgramToDecentSampler(p, paths) ==
  LET written == SelectSeq([i \in DOMAIN p.zones |-> i],
                           LAMBDA i : p.zones[i].sample \in DOMAIN p.assets /\ isValid(effectiveKeys(p, p.zones[i])))
      in(g) == SelectSeq(written, LAMBDA i : p.zones[i].group = g)
      samples(g) == [k \in DOMAIN in(g) |->
                       LET z == p.zones[in(g)[k]] IN SampleAttributes(p, z, paths[z.sample])]
      firsts == SelectSeq(written, LAMBDA i : p.zones[i].group > 0 /\ in(p.zones[i].group)[1] = i)
  IN  [containers |-> IF firsts = <<>> THEN <<>> ELSE
                      <<[k \in DOMAIN firsts |->
                           LET g == p.zones[firsts[k]].group
                           IN  [attributes |-> GroupAttributes(p, g), samples |-> samples(g), groups |-> <<>>]]>>,
       groups |-> <<>>, samples |-> samples(0)]
=============================================================================
