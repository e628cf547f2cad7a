--------------------------- MODULE XmlMultisample ---------------------------
(***************************************************************************)
(* Multisamples of other samplers that are described in XML.  An element   *)
(* is [tag, attributes, children]; the different names that presets have   *)
(* for one attribute are one name here.  Linear volumes stand for the      *)
(* gains they make, pans are in tenths of a percent, tunings in cents, and *)
(* file names leave out their extension.  The elements that a format must  *)
(* have before its samples make the difference from a Damaged file.        *)
(***************************************************************************)
EXTENDS ImportedZones

CONSTANT Root  \* the first name of every absolute path

\* The order of a walk with a stack: the children of an element last to first.
RECURSIVE walk(_)
walk(el) == <<el>> \o FlattenSeq([k \in DOMAIN el.children |-> walk(Reverse(el.children)[k])])

parseLoopText(text) ==
  CASE text = "sustain" -> "loop_sustain"
    [] text \in {"forward", "ping_pong"} -> "loop_continuous"
    [] OTHER -> "no_loop"

positive(n) == IF n > 0 THEN n ELSE -1
centred(pan) == clamp(2 * (pan - 500), -1000, 1000)

looped(z, mode, from, to) ==
  IF mode # "no_loop" /\ from >= 0 /\ to > from THEN withLoop(z, mode, from, to) ELSE z

\* What most formats say in the same way; keys that are not said are the root.
commonZone(a, group, mode) ==
  LET root == note(a, "root", 60)
      z == [NewZone EXCEPT !.group = group, !.root = root,
                           !.keys = fromUnordered(note(a, "low", root), note(a, "high", root)),
                           !.start = Max2(0, attribute(a, "start", 0)),
                           !.end = positive(attribute(a, "end", 0)),
                           !.gain = attribute(a, "gain", 0),
                           !.pan = clamp(attribute(a, "pan", 0), -1000, 1000)]
  IN  looped(z, mode, attribute(a, "loopStart", -1), attribute(a, "loopEnd", -1))

\* Fine and coarse tuning.
tuned(z, a) == [z EXCEPT !.tune = attribute(a, "fine", 0) + 100 * attribute(a, "coarse", 0)]

fileNamed(a) == attribute(a, "file", <<>>)

withFile(r, a, z, folder, disk) ==
  IF fileNamed(a) = <<>> THEN r
  ELSE withSample(loadSampleAssetFromFile(r, resolveSamplePath(fileNamed(a), folder, disk), disk), z)

oneGroup == addGroup(Nothing, NewGroup)

-----------------------------------------------------------------------------
(* Akai MPC keygroups: instruments, each a group of layers.                *)

mpcReference(layer) == attribute(layer, "file", attribute(layer, "sampleName", <<>>))

\* PlayMode goes before Loop.
mpcLoopMode(layer) ==
  IF "playMode" \in DOMAIN layer THEN parseLoopText(layer["playMode"])
  ELSE IF attribute(layer, "loop", FALSE) THEN "loop_continuous" ELSE "no_loop"

\* A loop without a start counts from before the sample.
mpcLayer(layer, group, keys) ==
  LET z == [tuned(NewZone, layer) EXCEPT
              !.group = group, !.keys = keys, !.root = clampMidiNote(attribute(layer, "root", 60)),
              !.start = Max2(0, attribute(layer, "start", 0)), !.end = positive(attribute(layer, "end", 0)),
              !.gain = attribute(layer, "gain", 0), !.pan = centred(attribute(layer, "pan", 500))]
      from == IF "loopStart" \in DOMAIN layer THEN Max2(0, layer["loopStart"]) ELSE -1
      to == attribute(layer, "loopEnd", -1)
  IN  IF mpcLoopMode(layer) = "no_loop" THEN z
      ELSE withLoop(z, IF to > from THEN mpcLoopMode(layer) ELSE "no_loop", from, to)

addInstrument(r, inst, folder, disk) ==
  LET keys == fromUnordered(attribute(inst, "low", 0), attribute(inst, "high", 127))
      grouped == addGroup(r, [NewGroup EXCEPT !.keys = keys])
      add(acc, layer) ==
        withFile(acc, [file |-> mpcReference(layer)], mpcLayer(layer, lastGroup(grouped), keys), folder, disk)
  IN  FoldLeft(add, grouped, attribute(inst, "layers", <<>>))

importMpc(instruments, folder, disk) ==
  FoldLeft(LAMBDA acc, inst : addInstrument(acc, inst, folder, disk), Nothing, instruments)

-----------------------------------------------------------------------------
(* One group of samples anywhere in the document.                          *)

\* 1010music: whatever element names an audio file.
bentoZone(a) == tuned(commonZone(a, 1, parseLoopText(attribute(a, "loopMode", ""))), a)
importBento(root, folder, disk) ==
  FoldLeft(LAMBDA acc, el : withFile(acc, el.attributes, bentoZone(el.attributes), folder, disk),
           oneGroup, walk(root))

\* TAL Sampler: loops are continuous, whatever mode makes them active.
talZone(a) ==
  LET active == attribute(a, "loopActive", FALSE) \/ parseLoopText(attribute(a, "loopMode", "")) # "no_loop"
      z == commonZone(a, 1, IF active THEN "loop_continuous" ELSE "no_loop")
  IN  [tuned(z, a) EXCEPT !.pan = centred(attribute(a, "pan", 500))]
importTal(root, folder, disk) ==
  FoldLeft(LAMBDA acc, el : IF el.tag = "sample"
                            THEN withFile(acc, el.attributes, talZone(el.attributes), folder, disk) ELSE acc,
           oneGroup, walk(root))

\* TX16Wx: regions in groups, or if there is no group in a default one.
txZone(a, group) ==
  LET z == [commonZone(a, group, parseLoopText(attribute(a, "loopMode", ""))) EXCEPT !.tune = attribute(a, "fine", 0)]
      key == note(a, "key", z.root)
  IN  IF "key" \in DOMAIN a THEN [z EXCEPT !.keys = <<key, key>>] ELSE z
importTx(program, folder, disk) ==
  LET regions(el, tag) == SelectSeq(el.children, LAMBDA c : c.tag = tag)
      add(r, el) == LET grouped == addGroup(r, NewGroup)
                    IN  FoldLeft(LAMBDA acc, c : withFile(acc, c.attributes,
                                                          txZone(c.attributes, lastGroup(grouped)), folder, disk),
                                 grouped, regions(el, "region"))
      groups == regions(program, "group")
  IN  FoldLeft(add, Nothing, IF groups = <<>> THEN <<program>> ELSE groups)

\* Ableton: the path of a sample, from what its reference says of it.
readAbletonSamplePath(a) ==
  CASE "path" \in DOMAIN a -> a["path"]
    [] "path" \notin DOMAIN a /\ "relative" \in DOMAIN a -> a["relative"]
    [] {"path", "relative"} \cap DOMAIN a = {} /\ {"folders", "name"} \subseteq DOMAIN a -> a["folders"] \o a["name"]
    [] OTHER -> attribute(a, "name", fileNamed(a))

mapAbletonLoopMode(mode) ==
  CASE mode \in {1, 2} -> "loop_continuous" [] mode = 3 -> "loop_sustain" [] OTHER -> "no_loop"

\* A key range that is given lacks nothing: its limits are by default those of the keyboard.
abletonZone(a) ==
  LET root == clampMidiNote(attribute(a, "root", 60))
      z == [commonZone(a, 1, "no_loop") EXCEPT
              !.root = root, !.tune = attribute(a, "detune", 0),
              !.keys = IF "keyRange" \in DOMAIN a
                       THEN fromUnordered(attribute(a["keyRange"], "low", 0), attribute(a["keyRange"], "high", 127))
                       ELSE <<root, root>>]
      from == attribute(a, "loopStart", 0)
      to == attribute(a, "loopEnd", -1)
      mode == mapAbletonLoopMode(attribute(a, "loopMode", 0))
  IN  IF to > from THEN looped(z, mode, Max2(0, from), to) ELSE z
importAbleton(root, folder, disk) ==
  FoldLeft(LAMBDA acc, el : IF el.tag = "MultiSamplePart"
                            THEN withFile(acc, [file |-> readAbletonSamplePath(el.attributes)],
                                          abletonZone(el.attributes), folder, disk) ELSE acc,
           oneGroup, walk(root))

-----------------------------------------------------------------------------
(* Archives, whose samples are entries [name, wave] beside the manifest.   *)

isSafeArchiveRelativePath(raw) == raw # <<>> /\ raw[1] # Root /\ {"", ".", ".."} \cap ToSet(raw) = {}

\* The entry of the name, else the first whose last name is the same.
findEntryByName(name, entries) ==
  LET safe(k) == isSafeArchiveRelativePath(entries[k].name)
      exact == SelectSeq([k \in DOMAIN entries |-> k], LAMBDA k : safe(k) /\ entries[k].name = name)
      alike == SelectSeq([k \in DOMAIN entries |-> k], LAMBDA k : safe(k) /\ Last(entries[k].name) = Last(name))
  IN  IF exact \o alike = <<>> THEN 0 ELSE (exact \o alike)[1]

\* An entry that is missing, unsafe, too large or empty is an error.
loadFromZipEntry(r, name, entries) ==
  LET entry == IF isSafeArchiveRelativePath(name) THEN findEntryByName(name, entries) ELSE 0
  IN  IF entry = 0 \/ (entry > 0 /\ entries[entry].wave.length = 0) THEN [result |-> failed(r), asset |-> 0]
      ELSE [result |-> addAsset(r, FileAsset(name, entries[entry].wave)), asset |-> lastAsset(r) + 1]

\* Korg: samples anywhere in the manifest, each an asset of its own.
korgZone(a) ==
  [commonZone(a, 1, parseLoopText(attribute(a, "loopMode", ""))) EXCEPT !.tune = attribute(a, "fine", 0)]
importKorg(archive) ==
  FoldLeft(LAMBDA acc, el : IF el.tag = "sample" /\ fileNamed(el.attributes) # <<>>
                            THEN withSample(loadFromZipEntry(acc, fileNamed(el.attributes), archive.entries),
                                            korgZone(el.attributes)) ELSE acc,
           oneGroup, walk(archive.manifest))

\* Bitwig: one asset for a name.
bitwigAsset(r, name, entries) ==
  LET known == SelectInSeq(r.program.assets, LAMBDA a : a.path = name)
  IN  IF known > 0 THEN [result |-> r, asset |-> known] ELSE loadFromZipEntry(r, name, entries)

bitwigLoopMode(text) ==
  CASE text \in {"loop", "ping_pong"} -> "loop_continuous"
    [] text = "sustain" -> "loop_sustain"
    [] OTHER -> "no_loop"

bitwigZone(a, group) ==
  LET root == clampMidiNote(attribute(a, "root", 60))
      z == [NewZone EXCEPT !.group = group, !.root = root,
                           !.keys = fromUnordered(attribute(a, "low", root), attribute(a, "high", root)),
                           !.start = Max2(0, attribute(a, "start", 0)),
                           !.end = positive(attribute(a, "end", -1)),
                           !.gain = attribute(a, "gain", 0), !.tune = 100 * attribute(a, "coarse", 0)]
  IN  looped(z, bitwigLoopMode(attribute(a, "loopMode", "off")), attribute(a, "loopStart", -1), attribute(a, "loopEnd", -1))

\* Samples outside of layers share a group, which goes before those of the layers.
runBitwig(manifest, entries) ==
  LET samples(el) == SelectSeq(el.children, LAMBDA c : c.tag = "sample")
      add(r, el) == LET grouped == addGroup(r, NewGroup)
                    IN  FoldLeft(LAMBDA acc, c : IF fileNamed(c.attributes) = <<>> THEN acc ELSE
                                   withSample(bitwigAsset(acc, fileNamed(c.attributes), entries),
                                              bitwigZone(c.attributes, lastGroup(grouped))),
                                 grouped, samples(el))
      layers == SelectSeq(manifest.children, LAMBDA c : c.tag = "layer")
  IN  requireZones(FoldLeft(add, Nothing, IF samples(manifest) = <<>> THEN layers ELSE <<manifest>> \o layers))

\* An archive that is none, or has no manifest that can be read, is an error.
importBitwig(archive) ==
  IF archive = Damaged \/ archive.manifest = Damaged THEN failed(Nothing) ELSE runBitwig(archive.manifest, archive.entries)
=============================================================================
