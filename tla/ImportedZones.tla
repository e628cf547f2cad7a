---------------------------- MODULE ImportedZones ----------------------------
(***************************************************************************)
(* What the importers of foreign formats build: a program of assets,       *)
(* groups and zones, beside the remark that something was wrong.  Elements *)
(* and headers of a file are functions from names to values, and a file    *)
(* that cannot be read as its format at all is Damaged.  A disk is a       *)
(* function from paths, which are sequences of names, to waves, each the   *)
(* audio and its length; nothing can be read from a wave of length 0.      *)
(*                                                                         *)
(* Indices count from 1, with 0 for the code's -1.  The velocity range     *)
(* follows the key range everywhere and is left out.  The importers poll   *)
(* for cancellation between elements and then leave a part of the program: *)
(* the flag is never lowered, so that what they leave is not used.         *)
(***************************************************************************)
EXTENDS MidiRanges, SequencesExt

CONSTANTS Damaged,
          Unreadable  \* the value of a key that is neither a number nor the name of a note

\* parseMidiNoteText
note(node, name, default) ==
  IF name \in DOMAIN node /\ node[name] # Unreadable THEN clampMidiNote(node[name]) ELSE default

attribute(node, name, default) == IF name \in DOMAIN node THEN node[name] ELSE default

NewZone ==
  [sample |-> 0, group |-> 0, keys |-> <<0, 127>>, root |-> 60, start |-> 0, end |-> -1,
   loop |-> <<-1, -1>>, loopMode |-> "no_loop", gain |-> 0, pan |-> 0, tune |-> 0,
   rrGroup |-> 0, rrPosition |-> 0, rrLength |-> 0, rrMode |-> "ordered",
   trigger |-> "gate", choke |-> 0]

NewGroup ==
  [keys |-> <<0, 127>>, gain |-> 0, pan |-> 0, rrGroup |-> 0, rrMode |-> "ordered",
   trigger |-> "gate", choke |-> 0]

Nothing == [program |-> [assets |-> <<>>, groups |-> <<>>, zones |-> <<>>], errors |-> FALSE]

failed(r) == [r EXCEPT !.errors = TRUE]
addAsset(r, a) == [r EXCEPT !.program.assets = Append(@, a)]
addGroup(r, g) == [r EXCEPT !.program.groups = Append(@, g)]
addZone(r, z) == [r EXCEPT !.program.zones = Append(@, z)]

lastAsset(r) == Len(r.program.assets)
lastGroup(r) == Len(r.program.groups)

\* hasErrors, hasPlayableProgram
requireZones(r) == IF r.program.zones = <<>> THEN failed(r) ELSE r

\* The name of an asset that is inside the file it was read from is not that of its path.
FileAsset(path, wave) ==
  [path |-> path, name |-> Last(path), audio |-> wave.audio, length |-> wave.length]

\* The file that a preset names: an absolute path, else one beside the preset, in its sample
\* folder, or up to two folders higher.  No other paths begin as an absolute path does.
resolveSamplePath(raw, folder, disk) ==
  LET up(n) == SubSeq(folder, 1, Len(folder) - n)
      candidates == <<raw>> \o FlattenSeq([n \in 1 .. Min2(3, Len(folder)) |->
                                  <<up(n - 1) \o raw, up(n - 1) \o <<"Samples", Last(raw)>>>>])
      found == SelectSeq(candidates, LAMBDA c : c \in DOMAIN disk)
  IN  IF raw = <<>> \/ found = <<>> THEN <<>> ELSE found[1]

\* A file that is missing or holds no audio is an error, and its asset 0.
loadSampleAssetFromFile(r, path, disk) ==
  IF path \notin DOMAIN disk \/ disk[path].length = 0 THEN [result |-> failed(r), asset |-> 0]
  ELSE [result |-> addAsset(r, FileAsset(path, disk[path])), asset |-> lastAsset(r) + 1]

withSample(loaded, z) ==
  IF loaded.asset = 0 THEN loaded.result ELSE addZone(loaded.result, [z EXCEPT !.sample = loaded.asset])

withWindow(z, start, end) == [z EXCEPT !.start = start, !.end = end]
withLoop(z, mode, start, end) == [z EXCEPT !.loopMode = mode, !.loop = <<start, end>>]
=============================================================================
