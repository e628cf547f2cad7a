----------------------------- MODULE SfzLibrary -----------------------------
(***************************************************************************)
(* The life of an SFZ library: files with includes and variables are read  *)
(* into lines, the lines into a program, the program is played, saved as   *)
(* SFZ and opened again.  A background job imports, and may be cancelled   *)
(* between any two lines.                                                  *)
(*                                                                         *)
(* What a file says is chosen when it is read for the first time: at most  *)
(* MaxLines lines, taken from Lines.  A line is an include, a definition,  *)
(* or a text of sections, each a header (or none) followed by opcodes.  A  *)
(* path is a sequence of names; the last one stands for the audio there.   *)
(***************************************************************************)
EXTENDS ZoneSelection, SfzFormat

CONSTANTS Files,      \* the SFZ files
          Main, Saved,  \* the library's own file, and the one it is saved to
          Lines,      \* the lines they may hold
          Variables,  \* the names #define may define
          AudioFiles, \* the paths of readable samples at first
          Notes,
          MaxLines, MaxImports, MaxPlays  \* bounds

ASSUME FilesAssumption == Main \in Files /\ Saved \in Files /\ Main # Saved

VARIABLES text, ended,   \* the lines read so far of each file, and the files read to their end
          phase,         \* of the import
          stack,         \* includeStack, each file with the number of its next line
          defines,
          lines,         \* the preprocessed lines
          next,          \* the number of the next of them
          job,           \* the ParserState
          cancelled,     \* ImportCancellationScope
          program,       \* the published program
          cursors,       \* roundRobinCursors_
          disk,          \* the paths of readable samples
          origin,        \* the file the program was loaded from
          written,       \* the program that was saved last
          turns,         \* what was played since the program was published
          imports        \* counter for its bound

files == <<text, ended, disk>>
import == <<phase, stack, defines, lines, next, job, cancelled>>
playing == <<program, cursors, turns, origin>>
vars == <<files, import, playing, written, imports>>

NoProgram == [assets |-> <<>>, groups |-> <<>>, zones |-> <<>>]
NoJob == [header |-> "none", control |-> NoOpcodes, global |-> NoOpcodes, master |-> NoOpcodes,
          group |-> NoOpcodes, region |-> NoOpcodes, active |-> FALSE, current |-> 0,
          program |-> NoProgram, errors |-> FALSE, source |-> Main]

Init ==
  /\ text = [f \in Files |-> <<>>] /\ ended = {}
  /\ phase = "idle" /\ stack = <<>> /\ defines = NoOpcodes /\ lines = <<>> /\ next = 1
  /\ job = NoJob /\ cancelled = FALSE
  /\ program = NoProgram /\ cursors = NoCursors /\ turns = <<>>
  /\ disk = AudioFiles /\ origin = Main /\ written = NoProgram
  /\ imports = 0

-----------------------------------------------------------------------------
(* Preprocessing: includes and variables.                                  *)

\* importFile() on the library's file, or on the one it was saved to.
Open(f) ==
  /\ phase = "idle" /\ imports < MaxImports
  /\ f = Main \/ (f = Saved /\ f \in ended)
  /\ phase' = "preprocess"
  /\ stack' = <<[file |-> f, line |-> 1]>>
  /\ defines' = NoOpcodes /\ lines' = <<>> /\ next' = 1 /\ job' = [NoJob EXCEPT !.source = f]
  /\ cancelled' = FALSE
  /\ imports' = imports + 1
  /\ UNCHANGED <<files, playing, written>>

top == Last(stack)
revealed == FoldSet(LAMBDA f, n : n + Len(text[f]), 0, Files \ {Saved})

\* The lines that may come next: the one known, or any if the file was not read so far.
NextLines ==
  IF top.line <= Len(text[top.file]) THEN {text[top.file][top.line]}
  ELSE IF top.file \in ended \/ revealed = MaxLines THEN {} ELSE Lines
AtEnd == top.line > Len(text[top.file])

\* An unknown variable stays as it is written, which is neither a number nor a path.
expandVariables(value) ==
  IF value \notin Variables THEN value
  ELSE IF value \in DOMAIN defines THEN defines[value] ELSE Unresolved
expanded(s) ==
  [s EXCEPT !.opcodes = [k \in DOMAIN @ |-> expandVariables(@[k])]]

define(l) == defines' = overlayOpcodes(defines, [n \in {l.name} |-> expandVariables(l.value)])

moved == [stack EXCEPT ![Len(stack)].line = @ + 1]

\* A file in the stack is a cycle, an error like a missing file; the import goes on.
included(f) ==
  IF f \notin Files \/ \E k \in DOMAIN stack : stack[k].file = f
  THEN [stack |-> moved, error |-> TRUE]
  ELSE [stack |-> Append(moved, [file |-> f, line |-> 1]), error |-> FALSE]

Preprocess ==
  /\ phase = "preprocess" /\ stack # <<>> /\ ~ cancelled
  /\ \E l \in NextLines :
       /\ text' = IF AtEnd THEN [text EXCEPT ![top.file] = Append(@, l)] ELSE text
       /\ \/ /\ l.kind = "define" /\ define(l)
             /\ stack' = moved /\ UNCHANGED <<lines, job>>
          \/ /\ l.kind = "include"
             /\ stack' = included(l.file).stack
             /\ job' = [job EXCEPT !.errors = @ \/ included(l.file).error]
             /\ UNCHANGED <<lines, defines>>
          \/ /\ l.kind = "text"
             /\ lines' = Append(lines, [k \in DOMAIN l.sections |-> expanded(l.sections[k])])
             /\ stack' = moved /\ UNCHANGED <<defines, job>>
  /\ UNCHANGED <<ended, disk, phase, next, cancelled, playing, written, imports>>

\* At the end of a file, and when the import is cancelled.
LeaveFile ==
  /\ phase = "preprocess" /\ stack # <<>>
  /\ \/ cancelled /\ UNCHANGED ended
     \/ ~ cancelled /\ AtEnd /\ ended' = ended \cup {top.file}
  /\ stack' = Front(stack)
  /\ phase' = IF Len(stack) = 1 THEN "parse" ELSE phase
  /\ UNCHANGED <<text, disk, defines, lines, next, job, cancelled, playing, written, imports>>

-----------------------------------------------------------------------------
(* Parsing.                                                                *)

groupInheritedOpcodes_GlobalLast(j) == overlayOpcodes(overlayOpcodes(j.master, j.global), j.group)
groupInheritedOpcodes(j) == overlayOpcodes(overlayOpcodes(j.global, j.master), j.group)

resolveSampleFile(j, path) ==
  IF path = Unresolved THEN Unresolved
  ELSE IF "default_path" \in DOMAIN j.control THEN j.control["default_path"] \o path ELSE path

\* A group enters the program with its first region.
ensureCurrentGroup(j) ==
  IF ~ j.active \/ j.current > 0 THEN j
  ELSE LET index == Len(j.program.groups) + 1
       IN  [j EXCEPT !.current = index,
                     !.program.groups = Append(@, makeGroupFromOpcodes(groupInheritedOpcodes(j), index))]

getOrAddSampleAsset(p, file) ==
  IF SelectInSeq(p.assets, LAMBDA a : a = file) > 0 THEN p
  ELSE [p EXCEPT !.assets = Append(@, file)]

\* A region without opcodes of its own or without a sample is skipped; a sample that is
\* missing is an error, one that a cancelled import did not read is not.
finishRegion(j) ==
  LET o == overlayOpcodes(groupInheritedOpcodes(j), j.region)
      file == resolveSampleFile(j, o["sample"])
      done == [j EXCEPT !.region = NoOpcodes]
      k == ensureCurrentGroup(done)
      p == getOrAddSampleAsset(k.program, file)
      zone == ZoneOf(o, SelectInSeq(p.assets, LAMBDA a : a = file), k.current)
  IN  CASE j.region = NoOpcodes \/ "sample" \notin DOMAIN o -> done
        [] "sample" \in DOMAIN o /\ file \notin disk -> [done EXCEPT !.errors = TRUE]
        [] cancelled -> done
        [] OTHER -> [k EXCEPT !.program = [p EXCEPT !.zones = Append(@, zone)]]

finished(j) == IF j.header = "region" THEN finishRegion(j) ELSE j

\* A header ends the region before it and the opcodes of the headers inside its scope.  The
\* opcodes that follow an unknown header go on with the header before.
setHeader(j, header) ==
  LET k == IF header \in {"none", "unknown"} THEN j ELSE [finished(j) EXCEPT !.header = header]
      left == [k EXCEPT !.group = NoOpcodes, !.current = 0, !.active = header = "group"]
  IN  CASE header = "global" -> [left EXCEPT !.global = NoOpcodes, !.master = NoOpcodes]
        [] header = "master" -> [left EXCEPT !.master = NoOpcodes]
        [] header = "group" -> left
        [] header = "region" -> [k EXCEPT !.region = NoOpcodes]
        [] OTHER -> k

applyOpcodeTokens(j, opcodes) ==
  IF j.header = "none" THEN j ELSE [j EXCEPT ![j.header] = overlayOpcodes(@, opcodes)]

Parse ==
  /\ phase = "parse" /\ ~ cancelled /\ next <= Len(lines)
  /\ job' = FoldLeft(LAMBDA j, s : applyOpcodeTokens(setHeader(j, s.header), s.opcodes),
                     job, lines[next])
  /\ next' = next + 1
  /\ UNCHANGED <<files, phase, stack, defines, lines, cancelled, playing, written, imports>>

\* The last region ends with the lines.  A program is published when nothing was wrong with
\* it, and the audio thread sets its cursors back.
Publish ==
  /\ phase = "parse" /\ (cancelled \/ next > Len(lines))
  /\ job' = finished(job)
  /\ phase' = "idle"
  /\ IF ~ cancelled /\ ~ job'.errors /\ job'.program.zones # <<>>
     THEN /\ program' = job'.program /\ cursors' = NoCursors /\ turns' = <<>>
          /\ origin' = job.source
     ELSE UNCHANGED playing
  /\ UNCHANGED <<files, stack, defines, lines, next, cancelled, written, imports>>

Cancel ==
  /\ phase # "idle" /\ ~ cancelled
  /\ cancelled' = TRUE
  /\ UNCHANGED <<files, phase, stack, defines, lines, next, job, playing, written, imports>>

-----------------------------------------------------------------------------
(* Playing and saving.                                                     *)

\* A note-on, or with release a note-off.
Play(note, release) ==
  LET choice == chooseProgramZoneIndices(program, note, release, cursors)
  IN  /\ phase = "idle" /\ program.zones # <<>> /\ Len(turns) < MaxPlays
      /\ cursors' = choice.cursors
      /\ turns' = Append(turns, [note |-> note, release |-> release, chosen |-> choice.chosen])
      /\ UNCHANGED <<files, import, program, origin, written, imports>>

section(header, opcodes) == [header |-> header, opcodes |-> opcodes]
line(sections) == [kind |-> "text", sections |-> sections]

\* Without copies the regions name the files of the samples; with copies the default path
\* leads to them.  The number that keeps two copies of one name apart is left out.
exportProgramToSfz(p, copySamples) ==
  LET copy(file) == <<"Samples", Last(file)>>
      path(z) == IF copySamples THEN <<Last(p.assets[z.sample])>> ELSE p.assets[z.sample]
      control == IF copySamples THEN [k \in {"default_path"} |-> <<"Samples">>] ELSE NoOpcodes
      regions == [i \in DOMAIN p.zones |->
                    section("region", RegionOpcodes(p.zones[i], path(p.zones[i])))]
  IN  [text |-> <<line(<<section("control", control), section("global", NoOpcodes)>> \o regions)>>,
       copies |-> IF copySamples THEN {copy(p.assets[i]) : i \in DOMAIN p.assets} ELSE {}]

Save(copySamples) ==
  /\ phase = "idle" /\ program.zones # <<>> /\ written # program
  /\ text' = [text EXCEPT ![Saved] = exportProgramToSfz(program, copySamples).text]
  /\ disk' = disk \cup exportProgramToSfz(program, copySamples).copies
  /\ ended' = ended \cup {Saved}
  /\ written' = program
  /\ UNCHANGED <<import, playing, imports>>

Import == Preprocess \/ LeaveFile \/ Parse \/ Publish

Next ==
  \/ Import
  \/ \E f \in {Main, Saved} : Open(f)
  \/ Cancel
  \/ \E note \in Notes, release \in BOOLEAN : Play(note, release)
  \/ \E copySamples \in BOOLEAN : Save(copySamples)

Spec == Init /\ [][Next]_vars

-----------------------------------------------------------------------------
(* Inheritance, as the format says it: of the headers before a region the  *)
(* last one of each kind counts, unless one that encloses it came between; *)
(* a region's value is that of the innermost header that has one.          *)

headers == {"control", "global", "master", "group", "region"}
encloses == [global |-> {}, master |-> {"global"}, group |-> {"global", "master"}]

\* The header that section i of sections s belongs to, or 0.
HeaderOf(s, i) == Max({h \in 1 .. i : s[h].header \in headers} \cup {0})

\* The header of a kind that region r is in, or 0.
Enclosing(s, kind, r) ==
  LET h == Max({i \in 1 .. r : s[i].header = kind} \cup {0})
  IN  IF \E i \in h + 1 .. r : s[i].header \in encloses[kind] THEN 0 ELSE h

\* The opcodes that header h has, the last one of each key.
ScopeOpcodes(s, h) ==
  LET mine == {i \in DOMAIN s : h > 0 /\ HeaderOf(s, i) = h}
      keys == UNION {DOMAIN s[i].opcodes : i \in mine}
  IN  [k \in keys |-> s[Max({i \in mine : k \in DOMAIN s[i].opcodes})].opcodes[k]]

RegionValues(s, r) ==
  LET levels == <<ScopeOpcodes(s, r)>>
                \o [n \in 1 .. 3 |-> ScopeOpcodes(s, Enclosing(s, <<"group", "master", "global">>[n], r))]
      keys == UNION {DOMAIN levels[n] : n \in DOMAIN levels}
  IN  [k \in keys |-> levels[Min({n \in DOMAIN levels : k \in DOMAIN levels[n]})][k]]

\* A region says something of its own and has a sample.
Regions(s) == SelectSeq([i \in DOMAIN s |-> i],
                        LAMBDA i : /\ s[i].header = "region" /\ DOMAIN ScopeOpcodes(s, i) # {}
                                   /\ "sample" \in DOMAIN RegionValues(s, i))

\* An import that was not cancelled and met no error has made one zone of every region with a
\* sample, in their order, and each has the values of its innermost headers (parsing keeps the
\* opcodes of four levels and clears them as headers pass, SfzImporter.cpp:748).
InheritanceIsNearest ==
  phase = "idle" /\ ~ cancelled /\ ~ job.errors =>
    LET s == FlattenSeq(lines)
        regions == Regions(s)
        zones == job.program.zones
        group(n) == Enclosing(s, "group", regions[n])
    IN  /\ Len(zones) = Len(regions)
        /\ \A n \in DOMAIN zones :
             zones[n] = ZoneOf(RegionValues(s, regions[n]), zones[n].sample, zones[n].group)
        /\ \A m, n \in DOMAIN zones :
             /\ zones[m].group = 0 <=> group(m) = 0
             /\ zones[m].group = zones[n].group <=> group(m) = group(n)

-----------------------------------------------------------------------------

\* The keys that reach a zone, which are those of its group as well.
PlayedKeys(p, z) ==
  IF z.group = 0 THEN z.keys[1] .. z.keys[2]
  ELSE (z.keys[1] .. z.keys[2]) \cap (p.groups[z.group].keys[1] .. p.groups[z.group].keys[2])

\* The group adds volume or takes keys away, or chokes or triggers what the zone does not.
GroupShapes(p, z) ==
  LET g == p.groups[z.group]
  IN  /\ z.group > 0
      /\ \/ g.gain # 0
         \/ PlayedKeys(p, z) # z.keys[1] .. z.keys[2]
         \/ z.choke <= 0 /\ g.choke > 0
         \/ z.trigger = "gate" /\ g.trigger # "gate"

\* What a zone plays in its program, apart from its turn: the window, the keys, the loop if it
\* has one, and what it has with its group.
Sound(p, z) ==
  [audio |-> Last(p.assets[z.sample]), keys |-> PlayedKeys(p, z), start |-> z.start, end |-> z.end,
   loop |-> IF HasLoop(z) THEN z.loop ELSE <<>>, loopMode |-> z.loopMode, gain |-> getZoneGainDb(p, z),
   trigger |-> getZoneTriggerMode(p, z), choke |-> getZoneChokeGroup(p, z)]

Reopened == origin = Saved /\ phase = "idle"

\* A library that was saved and opened again has its zones, in their order.  A zone on which its
\* group has no effect sounds as it did, and any other as it would without its group: the
\* exporter writes no groups (SfzExporter.cpp:238), so that their volume, which is added to the
\* zones' (ProgramSnapshot.h:340), their keys, trigger and choke group are lost.  Turns are not
\* compared: a position comes back one later (SfzExporter.cpp:325), or not at all when there is
\* no length.  The authoring plan says of both "No data loss"
\* (16-library-authoring-plan.md:43).
RoundTripKeepsZones ==
  Reopened => /\ Len(program.zones) = Len(written.zones)
              /\ \A i \in DOMAIN program.zones :
                   LET z == written.zones[i]
                   IN  Sound(program, program.zones[i])
                         = Sound(written, IF GroupShapes(written, z) THEN [z EXCEPT !.group = 0] ELSE z)

-----------------------------------------------------------------------------

\* The zones of round robin group g that a turn has the choice of, and the turns it was asked.
Contenders(turn, g) ==
  SelectSeq(Candidates(program, turn.note, turn.release),
            LAMBDA i : getZoneRoundRobinGroup(program, program.zones[i]) = g)
Asked(g) == SelectSeq(turns, LAMBDA turn : Contenders(turn, g) # <<>>)
RoundRobinGroups == {getZoneRoundRobinGroup(program, program.zones[i]) : i \in DOMAIN program.zones} \ {0}

\* A group in sequence whose zones name no length plays each of them in every full round of
\* turns for one note, wherever the round starts, with notes for other groups, note-offs and
\* imports in between, as long as no turn is short of voices (EngineCore.cpp:3194).  With a
\* length, a round has that many turns and plays a zone of every position from 1 up to it that
\* some zone has.  Zones without such a position, and all but one of those that share it, may
\* then never play: among them the last zone of a sequence that was saved as SFZ and opened
\* again, whose position is one beyond the length.
PlaysInTurn(g) ==
  LET asked == Asked(g)
      contenders == Contenders(asked[1], g)
      longest == Max({number(program.zones[i].rrLength) : i \in ToSet(contenders)})
      round == IF longest > 0 THEN longest ELSE Len(contenders)
      positions(zones) == {program.zones[i].rrPosition : i \in zones}
      played(m) == UNION {ToSet(asked[k].chosen) : k \in m .. m + round - 1}
  IN  /\ asked # <<>> /\ \A k \in DOMAIN asked :
                           Contenders(asked[k], g) = contenders /\ Len(asked[k].chosen) < MaxVoices
      /\ getZoneRoundRobinMode(program, program.zones[contenders[1]]) = "ordered"
      => \A m \in DOMAIN asked :
           m + round - 1 \in DOMAIN asked
           => IF round = longest
              THEN positions(ToSet(contenders)) \cap 1 .. longest \subseteq positions(played(m))
              ELSE ToSet(contenders) \subseteq played(m)

OrderedPlaysEveryZone == \A g \in RoundRobinGroups : PlaysInTurn(g)

=============================================================================
