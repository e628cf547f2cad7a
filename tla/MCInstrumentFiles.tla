-------------------------- MODULE MCInstrumentFiles --------------------------
(***************************************************************************)
(* The two ways into a library beside each other: SFZ files, read line by  *)
(* line, and the files of other samplers, one or two of each kind.         *)
(***************************************************************************)
EXTENDS SfzLibrary, ForeignLibrary

-----------------------------------------------------------------------------
(* The lines of an SFZ file.                                               *)

\* The hashes of groups 1 to 3 for 2 and 3 contenders, cycles 0 to 5.
offsets == << << <<0, 0, 1, 1, 1, 0>>, <<1, 0, 1, 0, 1, 0>>, <<0, 0, 1, 0, 1, 1>> >>,
              << <<1, 1, 2, 0, 0, 1>>, <<0, 0, 0, 2, 2, 2>>, <<2, 2, 2, 2, 2, 1>> >> >>
strides == << << <<1, 1, 1, 1, 1, 1>>, <<1, 1, 1, 1, 1, 1>>, <<1, 1, 1, 1, 1, 1>> >>,
              << <<1, 1, 2, 2, 1, 2>>, <<2, 1, 2, 1, 1, 2>>, <<1, 2, 2, 2, 1, 2>> >> >>
HashOffset(g, cycle, n) == offsets[n - 1][g][cycle + 1]
HashStride(g, cycle, n) == strides[n - 1][g][cycle + 1]

CONSTANTS Key  \* a variable
A == <<"a">>
B == <<"S", "b">>
SomeAudio == {A, B}
TwoKeys == {1}

define1 == [kind |-> "define", name |-> Key, value |-> 1]
include(f) == [kind |-> "include", file |-> f]

\* Every kind of line, and the opcodes that meet in a region.
SomeLines ==
  {define1, include("main"), include("part"),
   line(<<section("global", [volume |-> 6]), section("master", [volume |-> 3, trigger |-> "release"])>>),
   line(<<section("group", [seq_mode |-> "random", sample |-> A]), section("region", [loop_end |-> 4])>>),
   line(<<section("group", [lokey |-> 2, hikey |-> 0, off_by |-> 1])>>),
   line(<<section("region", [sample |-> A, key |-> Key])>>),
   line(<<section("region", [sample |-> A, seq_position |-> 1, loop_mode |-> "one_shot"])>>),
   line(<<section("region", [sample |-> B, seq_position |-> 2, loop_mode |-> "loop_sustain",
                             loop_start |-> 0, loop_end |-> 4])>>),
   line(<<section("control", [default_path |-> <<"S">>]),
          section("region", [sample |-> <<"b">>, offset |-> 2, end |-> 1])>>),
   line(<<section("none", [seq_length |-> 2, volume |-> 0]),
          section("unknown", [loop_mode |-> "loop_continuous", volume |-> 1])>>)}

-----------------------------------------------------------------------------
(* The disk.  In the second sample are more onsets than keys remain, some  *)
(* of them too near to each other or quiet only far back.                  *)

library == <<"root", "lib">>
inSamples(name) == library \o <<"Samples", name>>
wave(name, length) == [audio |-> name, length |-> length, onsets |-> <<>>]
onset(position, before) == [at |-> position, quiet |-> before]
drum == [wave("b", 40) EXCEPT !.onsets = <<onset(5, 4), onset(7, 7), onset(16, 5), onset(24, 23), onset(33, 33)>>]
SomeWaves == (library \o <<"a">> :> wave("a", 8)) @@ (inSamples("b") :> drum)
             @@ (inSamples("b_2") :> wave("c", 8)) @@ (inSamples("empty") :> wave("e", 0))
             @@ (<<"root", "elsewhere", "far">> :> wave("f", 8))
SomeFolders == {library, <<"root", "out">>}
SomeCapacity == [assets |-> 3, groups |-> 3, zones |-> 4]

-----------------------------------------------------------------------------
(* The documents.                                                          *)

document(format, content) ==
  [format |-> format, folder |-> library, content |-> content, selection |-> 0, search |-> <<>>]
element(tag, attributes, children) == [tag |-> tag, attributes |-> attributes, children |-> children]
group(attributes, samples, groups) == [attributes |-> attributes, samples |-> samples, groups |-> groups]

\* Nested groups, turns also without a position, tags that choke each other, and what is outside of groups.
decent ==
  [containers |-> <<<<group([volume |-> -6, seqMode |-> "random", seqLength |-> 2, tags |-> 1, pan |-> 300],
                            <<[path |-> <<"a">>, rootNote |-> 60, hiNote |-> 62, seqPosition |-> 2, tuning |-> 150],
                              [path |-> <<"b">>, rootNote |-> 60, seqPosition |-> 1, silencedByTags |-> 2, end |-> 6,
                               loopEnabled |-> TRUE, loopStart |-> 1, loopEnd |-> 4]>>,
                            <<group([trigger |-> "release", silencedByTags |-> 2, volume |-> 3],
                                    <<[path |-> <<"a">>, rootNote |-> 60, loNote |-> 63, trigger |-> "release", start |-> 2]>>,
                                    <<>>)>>)>>>>,
   groups |-> <<>>, samples |-> <<[path |-> <<"a">>, rootNote |-> 64, loNote |-> Unreadable, volume |-> Unreadable, choke |-> 3, tags |-> 1, pan |-> -500,
                 seqMode |-> "random"]>>]

\* Zones after zones of later groups, and zones whose keys lie outside of their group's.
mpc == <<[low |-> 0, high |-> 59, layers |-> <<[file |-> <<"a">>, playMode |-> "forward", loopStart |-> 1, loopEnd |-> 4],
                                               [sampleName |-> <<"b">>, pan |-> 250, coarse |-> -1]>>],
         [low |-> 127, high |-> 60, layers |-> <<[file |-> <<"a">>, loop |-> TRUE, loopEnd |-> 4]>>]>>

sampleElement(attributes) == element("sample", attributes, <<>>)
bento == element("document", <<>>,
  <<element("cell", [file |-> <<"a">>, low |-> Unreadable, high |-> 70, root |-> 65],
            <<element("params", [file |-> <<"b">>, loopMode |-> "sustain", loopStart |-> 2, loopEnd |-> 6], <<>>)>>),
    sampleElement([root |-> 1])>>)
tal == element("tal", <<>>,
  <<element("layer", <<>>, <<sampleElement([file |-> <<"a">>, low |-> 10, high |-> 20, loopActive |-> TRUE, loopStart |-> 4, loopEnd |-> 2]),
                             sampleElement([file |-> <<"b">>, low |-> 40, high |-> 30, pan |-> 750])>>)>>)
talWithoutFile == element("tal", <<>>, <<sampleElement([file |-> <<"a">>]), sampleElement([file |-> <<"gone">>])>>)
tx(grouped) ==
  LET regions == <<element("region", [file |-> <<"b">>, low |-> 10, high |-> 20, fine |-> 20], <<>>),
                   element("region", [file |-> <<"a">>, root |-> 30, key |-> 31], <<>>)>>
  IN  element("program", <<>>, IF grouped THEN <<element("group", <<>>, regions), element("group", <<>>, <<regions[1]>>)>>
                               ELSE regions)
archive(manifest) == [manifest |-> manifest, entries |-> <<[name |-> <<"x">>, wave |-> wave("x", 8)],
                                                           [name |-> <<"..", "y">>, wave |-> wave("z", 8)],
                                                           [name |-> <<"y">>, wave |-> wave("y", 8)]>>]
korg == archive(element("multisample", <<>>,
  <<sampleElement([file |-> <<"y">>, root |-> 50]), sampleElement([file |-> <<"x">>, loopMode |-> "ping_pong", loopStart |-> 0, loopEnd |-> 5])>>))
bitwig(repeats) == archive(element("multisample", <<>>,
  <<element("layer", <<>>, [k \in 1 .. repeats |-> sampleElement([file |-> <<"y">>, low |-> k, high |-> k, gain |-> -3])]),
    sampleElement([file |-> <<"x">>, root |-> 72, loopMode |-> "loop", loopStart |-> 1, loopEnd |-> 3]),
    sampleElement([file |-> <<"y">>, end |-> 4])>>))
ableton == element("rack", <<>>,
  <<element("MultiSamplePart", [relative |-> <<"Samples", "b">>, keyRange |-> [high |-> 40], detune |-> -30, loopMode |-> 3,
                                loopEnd |-> 6], <<>>),
    element("other", <<>>, <<element("MultiSamplePart", [folders |-> <<"Samples">>, name |-> <<"b_2">>, root |-> 70], <<>>)>>)>>)

numbered(index, key, value) == [kind |-> "sample", index |-> index, key |-> key, value |-> value]
disting == <<[kind |-> "section", index |-> 0, key |-> "", value |-> 0],
             [kind |-> "other", index |-> 0, key |-> "coarse", value |-> 1],
             numbered(1, "file", <<"a">>), numbered(1, "high", 40), numbered(1, "fine", 10),
             numbered(2, "file", <<"b">>), numbered(2, "low", 41), numbered(2, "coarse", -2)>>

kmpEntry1(key, file, stem) == [top |-> key, root |-> key, tune |-> -20, gain |-> 0, pan |-> 0, file |-> file, stem |-> stem]
kmp == [declared |-> 0, entries |-> <<kmpEntry1(40, "a", "a"), kmpEntry1(41, "b", "b"), [kmpEntry1(127, "b.ksf", "b") EXCEPT !.tune = -120]>>]
kmpDeclared == [declared |-> 3, entries |-> <<kmpEntry1(40, "a", "a"), kmpEntry1(50, "", ""), kmpEntry1(60, "b", "b"), kmpEntry1(127, "a", "a")>>]

exsZone1(n, key) == [sample |-> n, root |-> key, low |-> key + 2, high |-> key, start |-> 1, end |-> 6, pan |-> 200,
                          coarse |-> 1, fine |-> -30, gain |-> 2, loopOn |-> TRUE, loopStart |-> 1, loopEnd |-> 5]
exs == [samples |-> <<[path |-> <<"root", "gone">>, file |-> <<"a">>], [path |-> inSamples("b"), file |-> <<"b">>]>>,
        zones |-> <<exsZone1(1, 30), exsZone1(0, 33), [exsZone1(1, 36) EXCEPT !.pan = 10]>>]
exsSkipped == [exs EXCEPT !.zones = <<exsZone1(2, 30), exsZone1(0, 33)>>]

\* Groups named late, a value before its sample, and a sample that is nowhere.
nki == <<[tag |-> "zone", value |-> 1], [tag |-> "low", value |-> 20], [tag |-> "sample", value |-> <<"Samples", "b">>],
         [tag |-> "end", value |-> 5], [tag |-> "group", value |-> 2], [tag |-> "sample", value |-> <<"a">>],
         [tag |-> "container", value |-> 0], [tag |-> "root", value |-> 70], [tag |-> "sample", value |-> <<"gone">>],
         [tag |-> "sample", value |-> <<"far">>], [tag |-> "transpose", value |-> 1]>>

loop == [audio |-> "loop", channels |-> 2, slices |-> <<4, 3, 5, 2>>]

-----------------------------------------------------------------------------
(* A bank: its tables end in a terminal record, and its presets stand in   *)
(* the file in the reverse of the chooser's order.                         *)

gen(op, amount) == [op |-> op, amount |-> amount]
sums(ns) == FoldLeft(LAMBDA acc, n : Append(acc, Last(acc) + n), <<0>>, ns)
lengths(parts) == [k \in DOMAIN parts |-> Len(parts[k])]
ranges(owners) == sums(lengths(owners))
bags(owners) == sums(lengths(FlattenSeq(owners)))
generators(owners) == FlattenSeq(FlattenSeq(owners))
encoded(bank) ==
  LET presets == Reverse(bank.presets)
      zones == [k \in DOMAIN presets |-> presets[k].zones]
  IN  [phdr |-> [k \in 1 .. Len(presets) + 1 |->
                   [bank |-> IF k > Len(presets) THEN 0 ELSE presets[k].bank,
                    preset |-> IF k > Len(presets) THEN 255 ELSE presets[k].preset, bag |-> ranges(zones)[k]]],
       pbag |-> bags(zones), pgen |-> Append(generators(zones), gen("end", 0)),
       inst |-> ranges(bank.instruments), ibag |-> bags(bank.instruments),
       igen |-> Append(generators(bank.instruments), gen("end", 0)),
       shdr |-> Append(bank.samples, [name |-> "EOS", start |-> 0, end |-> 0, startLoop |-> 0, endLoop |-> 0,
                                      originalPitch |-> 0, pitchCorrection |-> 0]),
       smpl |-> 16]

shdr1(name, start, end) == [name |-> name, start |-> start, end |-> end, startLoop |-> start + 1, endLoop |-> end - 1,
                            originalPitch |-> 60, pitchCorrection |-> 5]
\* Global zones on both levels, values said twice, beyond sixteen bits and on few keys.
bankOf ==
  [presets |->
     <<[bank |-> 0, preset |-> 3,
        zones |-> <<<<gen("attenuation", 30000), gen("keyRange", <<10, 90>>)>>,
                    <<gen("attenuation", 2000), gen("attenuation", 3000), gen("instrument", 0)>>>>],
       [bank |-> 0, preset |-> 7,
        zones |-> <<<<gen("keyRange", <<0, 40>>), gen("attenuation", 15), gen("instrument", 1)>>,
                    <<gen("pan", 300), gen("instrument", 0)>>>>]>>,
   instruments |->
     <<<<<<gen("attenuation", 50), gen("keyRange", <<0, 60>>), gen("fineTune", 30)>>,
         <<gen("attenuation", 5), gen("sampleModes", 1), gen("startOffset", 1), gen("sampleID", 0)>>,
         <<gen("keyRange", <<61, 100>>), gen("coarseTune", 2), gen("sampleID", 1)>>>>,
       <<<<gen("rootKey", 72), gen("sampleModes", 3), gen("endOffset", -2), gen("sampleID", 1)>>>>>>,
   samples |-> <<shdr1("s1", 0, 8), shdr1("s2", 8, 16)>>]
sf2(chosen) == [bank |-> bankOf] @@ [document("sf2", encoded(bankOf)) EXCEPT !.selection = chosen]
\* A sample beyond the pool.
cutBank == [sf2(0) EXCEPT !.content.smpl = 12]

SomeDocuments ==
  {document("decentSampler", decent), document("mpcKeygroup", mpc), document("mpcKeygroup", Damaged),
   document("bento1010", bento), document("talSampler", tal), document("talSampler", talWithoutFile),
   document("tx16wx", tx(TRUE)), document("tx16wx", tx(FALSE)), document("korgMultisample", korg),
   document("bitwigMultisample", bitwig(1)), document("bitwigMultisample", bitwig(3)),
   document("abletonSampler", ableton), document("distingExPreset", disting), document("korgKmp", kmp),
   document("korgKmp", kmpDeclared), document("logicExs24", exs), document("logicExs24", exsSkipped),
   document("nnxt", 0), [document("nki", nki) EXCEPT !.search = <<"root">>],
   document("bitwigMultisample", [bitwig(1) EXCEPT !.manifest = Damaged]),
   [document("rex", loop) EXCEPT !.folder = library \o <<"loop">>],
   [document("rex", [loop EXCEPT !.slices[2] = 0]) EXCEPT !.folder = library \o <<"cut">>],
   document("sampleSlices", inSamples("b")), document("sampleSlices", library \o <<"a">>),
   document("unknown", library \o <<"a">>), document("unknown", inSamples("b")), document("unknown", inSamples("empty")),
   sf2(0), sf2(1), cutBank}

\* What the load before may matter to: the number of disting EX, samples beside their copies,
\* the sample that is sliced, and what is left when a load fails.
SomeSequels ==
  {document("decentSampler", decent), document("distingExPreset", disting), document("mpcKeygroup", Damaged),
   document("unknown", inSamples("b")), document("sampleSlices", inSamples("b")), sf2(1),
   [document("nki", nki) EXCEPT !.search = <<"root">>], document("bitwigMultisample", bitwig(3))}

-----------------------------------------------------------------------------

SfzFiles == loads = 0 /\ Next /\ UNCHANGED foreignVars
OtherFiles == imports = 0 /\ ForeignNext /\ UNCHANGED vars

FilesInit == Init /\ ForeignInit
FilesNext == SfzFiles \/ OtherFiles
FilesSpec == FilesInit /\ [][FilesNext]_<<vars, foreignVars>>
=============================================================================
