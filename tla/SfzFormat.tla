------------------------------ MODULE SfzFormat ------------------------------
(***************************************************************************)
(* Between the opcodes of an SFZ file and the zones of a program: what the *)
(* importer makes of the opcodes a region ends up with, and what the       *)
(* exporter writes for a zone.  Opcodes are a function from keys to        *)
(* values.  The velocity twins of the keys, the crossfades, and pan, tune  *)
(* and root key, which are read and written as the gain is, are left out.  *)
(***************************************************************************)
EXTENDS MidiRanges, Sequences, FiniteSets, TLC

CONSTANT Unresolved  \* the value of an opcode that names an unknown variable

NoOpcodes == <<>>

\* parseInt(), parseFloat(): a key that is missing or not a number has its default.
Value(o, key, default) == IF key \in DOMAIN o /\ o[key] # Unresolved THEN o[key] ELSE default

overlayOpcodes(target, source) == source @@ target

\* The limits may be given in either order; a single key goes before both.
parseKeyRange(o) ==
  fromUnordered(Value(o, "key", Value(o, "lokey", 0)), Value(o, "key", Value(o, "hikey", 127)))

parseRoundRobinMode(o) == IF Value(o, "seq_mode", "") = "random" THEN "random" ELSE "ordered"

parseLoopMode(o) ==
  LET mode == Value(o, "loop_mode", "")
  IN  IF mode \in {"loop_sustain", "loop_continuous"} THEN mode ELSE "no_loop"

parseTriggerMode(o) ==
  CASE Value(o, "loop_mode", "") = "one_shot" -> "oneShot"
    [] Value(o, "trigger", "") = "release" -> "release"
    [] OTHER -> "gate"

\* A group of random zones without positions is a round robin group by its number.
makeGroupFromOpcodes(o, index) ==
  [keys |-> parseKeyRange(o), gain |-> Value(o, "volume", 0), choke |-> Value(o, "off_by", 0),
   trigger |-> parseTriggerMode(o), rrMode |-> parseRoundRobinMode(o),
   rrGroup |-> IF parseRoundRobinMode(o) = "random" THEN index ELSE 0]

\* The end and the loop's end are inclusive in the file and exclusive in the zone.
ZoneOf(o, sample, group) ==
  LET start == Max2(0, Value(o, "offset", 0))
      position == Value(o, "seq_position", 0)
  IN  [sample |-> sample, group |-> group, keys |-> parseKeyRange(o),
       start |-> start,
       end |-> IF "end" \in DOMAIN o /\ o["end"] # Unresolved
               THEN Max2(start + 1, o["end"] + 1) ELSE -1,
       loop |-> <<Value(o, "loop_start", -1),
                  IF Value(o, "loop_end", -1) >= 0 THEN o["loop_end"] + 1 ELSE -1>>,
       gain |-> Value(o, "volume", 0), choke |-> Value(o, "off_by", 0),
       rrPosition |-> position, rrLength |-> Max2(0, Value(o, "seq_length", 0)),
       rrMode |-> parseRoundRobinMode(o),
       rrGroup |-> IF position > 0 \/ parseRoundRobinMode(o) = "random" THEN Max2(1, group) ELSE 0,
       loopMode |-> parseLoopMode(o), trigger |-> parseTriggerMode(o)]

-----------------------------------------------------------------------------

HasLoop(z) == z.loopMode # "no_loop" /\ z.loop[1] >= 0 /\ z.loop[2] > z.loop[1]

\* Ends are exclusive in a zone and inclusive in a file.
inclusive_Kept(end) == end
inclusive(end) == end - 1

\* What exportProgramToSfz() writes for a zone: every opcode it has, when it has to be said.
\* A one-shot zone gets a second loop_mode, which replaces the first.
RegionOpcodes(z, path) ==
  LET value == [sample |-> path, lokey |-> z.keys[1], hikey |-> z.keys[2], volume |-> z.gain,
                offset |-> z.start, end |-> inclusive(z.end),
                loop_mode |-> IF z.trigger = "oneShot" THEN "one_shot" ELSE z.loopMode,
                loop_start |-> z.loop[1], loop_end |-> inclusive(z.loop[2]),
                trigger |-> "release", off_by |-> z.choke, seq_length |-> z.rrLength,
                seq_position |-> Max2(1, z.rrPosition + 1), seq_mode |-> "random"]
      said(k) == CASE k = "volume" -> z.gain # 0
                   [] k = "offset" -> z.start > 0
                   [] k = "end" -> z.end > 0
                   [] k \in {"loop_start", "loop_end"} -> HasLoop(z)
                   [] k = "trigger" -> z.trigger = "release"
                   [] k = "off_by" -> z.choke > 0
                   [] k \in {"seq_length", "seq_position"} -> z.rrLength > 1
                   [] k = "seq_mode" -> z.rrLength > 1 /\ z.rrMode = "random"
                   [] OTHER -> TRUE
  IN  [k \in {k \in DOMAIN value : said(k)} |-> value[k]]
=============================================================================
