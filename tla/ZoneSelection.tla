---------------------------- MODULE ZoneSelection ----------------------------
(***************************************************************************)
(* Which zones of a program a note starts.  A zone takes part when the     *)
(* note lies in its keys and in those of its group; the zones of one round *)
(* robin group share a cursor, and the cursor's step picks one of them.    *)
(*                                                                         *)
(* A program is a record of assets, groups and zones (sequences).  Indices *)
(* count from 1 and 0 stands for the code's -1.  The velocity range, which *)
(* is tested as the key range is, is left out.                             *)
(***************************************************************************)
EXTENDS Integers, FiniteSets, SequencesExt

CONSTANTS MaxVoices,       \* VoicePool::maxVoices
          MaxCursors,      \* ProgramSnapshot::maxZones, the cursors of the engine
          Offset(_, _, _), \* hashRoundRobinValue for a group and a cycle, modulo the count,
          Stride(_, _, _)  \* and the hash of the stride modulo the count - 1, plus 1

\* What a zone has of its own goes before what its group says.
own(p, z, field, unset) ==
  IF z[field] # unset THEN z[field] ELSE IF z.group > 0 THEN p.groups[z.group][field] ELSE unset

\* A group number of 0 or less is no group.
number(n) == IF n > 0 THEN n ELSE 0
getZoneRoundRobinGroup(p, z) == number(own(p, [z EXCEPT !.rrGroup = number(@)], "rrGroup", 0))
getZoneChokeGroup(p, z) == number(own(p, [z EXCEPT !.choke = number(@)], "choke", 0))
getZoneRoundRobinMode(p, z) == own(p, z, "rrMode", "ordered")
getZoneTriggerMode(p, z) == own(p, z, "trigger", "gate")
getZoneGainDb(p, z) == z.gain + (IF z.group > 0 THEN p.groups[z.group].gain ELSE 0)

isZonePlayableMatch(p, i, note) ==
  LET z == p.zones[i]
      within(keys) == keys[1] <= note /\ note <= keys[2]
  IN  /\ z.sample \in DOMAIN p.assets
      /\ within(z.keys)
      /\ z.group > 0 => within(p.groups[z.group].keys)

\* Zones with a position come first, by position; the others follow by index.
roundRobinSortsBefore(p, left, right) ==
  LET l == p.zones[left].rrPosition
      r == p.zones[right].rrPosition
  IN  IF l > 0 /\ r > 0 /\ l # r THEN l < r
      ELSE IF (l > 0) /= (r > 0) THEN l > 0 ELSE left < right

-----------------------------------------------------------------------------
(* The cursors: the next step of every group that has been played.         *)

NoCursors == <<>>

consumeRoundRobinStep_StartsTwice(cursors, g) ==
  IF g \in DOMAIN cursors
  THEN [step |-> cursors[g], cursors |-> [cursors EXCEPT ![g] = @ + 1]]
  ELSE [step |-> 0, cursors |-> [h \in DOMAIN cursors \cup {g} |-> IF h = g THEN 0 ELSE cursors[h]]]

consumeRoundRobinStep(cursors, g) ==
  IF g \in DOMAIN cursors
  THEN [step |-> cursors[g], cursors |-> [cursors EXCEPT ![g] = @ + 1]]
  ELSE [step |-> 0,
        cursors |-> IF Cardinality(DOMAIN cursors) < MaxCursors
                    THEN [h \in DOMAIN cursors \cup {g} |-> IF h = g THEN 1 ELSE cursors[h]]
                    ELSE cursors]

\* The stride is turned until it visits every candidate.
greatestCommonDivisor(a, b) == CHOOSE d \in 1 .. b :
                                 /\ a % d = 0 /\ b % d = 0
                                 /\ \A e \in d + 1 .. b : ~ (a % e = 0 /\ b % e = 0)
coprimeStride(g, cycle, n) ==
  LET turned(k) == ((Stride(g, cycle, n) - 1 + k) % (n - 1)) + 1
  IN  turned(CHOOSE k \in 0 .. n - 2 : /\ greatestCommonDivisor(turned(k), n) = 1
                                       /\ \A j \in 0 .. k - 1 : greatestCommonDivisor(turned(j), n) # 1)

\* A cycle that would start with the zone the last one ended with starts one further.
cycleRandomCandidateIndexForCycle(g, cycle, position, n) ==
  LET plain(c, k) == (Offset(g, c, n) + k * coprimeStride(g, c, n)) % n
  IN  IF position = 0 /\ cycle > 0 /\ Offset(g, cycle, n) = plain(cycle - 1, n - 1)
      THEN (Offset(g, cycle, n) + 1) % n
      ELSE plain(cycle, position)

cycleRandomCandidateIndex(g, step, n) ==
  IF n <= 1 THEN 0 ELSE cycleRandomCandidateIndexForCycle(g, step \div n, step % n, n)

-----------------------------------------------------------------------------
(* The choice.                                                             *)

\* Release zones start when the note ends, all others when it begins.
Candidates(p, note, release) ==
  SelectSeq([i \in DOMAIN p.zones |-> i],
            LAMBDA i : /\ isZonePlayableMatch(p, i, note)
                       /\ (getZoneTriggerMode(p, p.zones[i]) = "release") = release)

\* With a sequence length a position that no zone has stays silent: 0.
Choice(p, group, g, mode, step) ==
  LET lengths == {number(p.zones[group[k]].rrLength) : k \in DOMAIN group}
      longest == CHOOSE n \in lengths : \A m \in lengths : m <= n
      at == SelectSeq(group, LAMBDA i : p.zones[i].rrPosition = (step % longest) + 1)
  IN  CASE mode = "random" -> group[cycleRandomCandidateIndex(g, step, Len(group)) + 1]
        [] mode = "ordered" /\ longest > 0 -> IF at = <<>> THEN 0 ELSE at[1]
        [] OTHER -> SortSeq(group, LAMBDA l, r : roundRobinSortsBefore(p, l, r))
                      [(step % Len(group)) + 1]

\* Every group is asked once, for the first of its zones, and steps even when it is silent.
chooseProgramZoneIndices(p, note, release, cursors) ==
  LET candidates == Candidates(p, note, release)
      groupOf(i) == getZoneRoundRobinGroup(p, p.zones[i])
      add(chosen, i) == IF i = 0 \/ Len(chosen) >= MaxVoices THEN chosen ELSE Append(chosen, i)
      visit(acc, i) ==
        LET g == groupOf(i)
            taken == consumeRoundRobinStep(acc.cursors, g)
        IN  CASE Len(acc.chosen) >= MaxVoices \/ g \in acc.handled -> acc
              [] g = 0 -> [acc EXCEPT !.chosen = add(@, i)]
              [] OTHER ->
                   [chosen |-> add(acc.chosen,
                                   Choice(p, SelectSeq(candidates, LAMBDA j : groupOf(j) = g), g,
                                          getZoneRoundRobinMode(p, p.zones[i]), taken.step)),
                    handled |-> IF Cardinality(acc.handled) < MaxVoices THEN acc.handled \cup {g}
                                ELSE acc.handled,
                    cursors |-> taken.cursors]
  IN  FoldLeft(visit, [chosen |-> <<>>, handled |-> {}, cursors |-> cursors], candidates)
=============================================================================
