--------------------------- MODULE ProgramMapping ---------------------------
(***************************************************************************)
(* The operations of the mapping editor on a program: a sequence of zones  *)
(* that play assets over ranges of keys, and groups whose range bounds     *)
(* their zones.  An operation gives the set of its results: empty when the *)
(* code refuses it, for nothing is then changed.  Indices start at 1; 0    *)
(* stands for -1, no zone, asset or group.  A velocity range takes every   *)
(* step a key range takes and is left out; gain stands for the attributes  *)
(* (gain, pan, fades, choke, round robin, modes) that an edit only sets.   *)
(***************************************************************************)
EXTENDS Integers, SequencesExt

CONSTANTS MaxKey,   \* kMidiNoteMax
          Samples,  \* the sample files
          Length    \* lengthSamples of each

ASSUME MappingAssumption ==
  /\ MaxKey \in Nat
  /\ Length \in [Samples -> Nat \ {0}]

Unset == -1

\* juce::jlimit
limit(lo, hi, x) == IF x < lo THEN lo ELSE IF hi < x THEN hi ELSE x
key(x) == limit(0, MaxKey, x)

\* MidiRange::fromUnordered
fromUnordered(z, a, b) ==
  [z EXCEPT !.lo = Min({key(a), key(b)}), !.hi = Max({key(a), key(b)})]

middle(z) == z.lo + (z.hi - z.lo) \div 2

resolveSampleLength(p, z) ==
  IF z.asset \in DOMAIN p.assets THEN Length[p.assets[z.asset]]
  ELSE IF z.end > z.start THEN z.end ELSE Max({1, z.start + 1})

resolveSampleEndInclusive(z, length) ==
  IF z.end > z.start THEN limit(z.start, length - 1, z.end - 1) ELSE length - 1

resolveZoneSampleEndExclusive(p, z) ==
  LET length == resolveSampleLength(p, z)
  IN  IF z.end > z.start THEN limit(z.start + 1, length, z.end) ELSE length

\* The loop within a window, by its first and last sample; Unset when there is none.
resolveLoopRange(z, first, last) ==
  IF z.ls < 0 \/ z.le <= z.ls THEN [ls |-> Unset, le |-> Unset]
  ELSE LET ls == limit(first, last, z.ls)
       IN  [ls |-> ls, le |-> limit(ls, last, z.le - 1)]

\* What the zone list shows and the single-zone controls are set from.
row(p, z) ==
  LET length == resolveSampleLength(p, z)
      first == limit(0, length - 1, z.start)
      last == resolveSampleEndInclusive(z, length)
      loop == resolveLoopRange(z, first, last)
  IN  [asset |-> z.asset, lo |-> z.lo, hi |-> z.hi, root |-> z.root, gain |-> z.gain,
       start |-> first, end |-> last, ls |-> loop.ls, le |-> loop.le]

buildProgramZoneListRows(p) == [i \in DOMAIN p.zones |-> row(p, p.zones[i])]

zonesOf(p, g) == {z \in ToSet(p.zones) : z.group = g}

\* recomputeGroupRangeFromZones, of each group of G.
recompute(p, G) ==
  [p EXCEPT !.groups =
    [g \in DOMAIN @ |->
      IF g \notin G \/ zonesOf(p, g) = {} THEN @[g]
      ELSE [lo |-> Min({z.lo : z \in zonesOf(p, g)}), hi |-> Max({z.hi : z \in zonesOf(p, g)})]]]

groupsOf(p, I) == {p.zones[i].group : i \in I}

\* The zones of new take the places it has in a program, which their groups then follow.
put(p, new) == [p EXCEPT !.zones = [i \in DOMAIN @ |-> IF i \in DOMAIN new THEN new[i] ELSE @[i]]]
change(p, new) == recompute(put(p, new), groupsOf(p, DOMAIN new))

\* How many of the places I come before i: by their ranks, equal ranks in their own order.
place(I, rank, i) == Cardinality({j \in I : rank[j] < rank[i] \/ (rank[j] = rank[i] /\ j < i)})

ordered(I, rank) == [k \in 1 .. Cardinality(I) |-> CHOOSE i \in I : place(I, rank, i) = k - 1]

\* What a sequence has at the places I.
select(s, I) == LET order == ordered(I, [i \in I |-> i]) IN [k \in DOMAIN order |-> s[order[k]]]

\* An edit names a zone and gives its range and root; the other fields are
\* Unset where the has- flag of the code is not raised, and the asset 0.
window(p, z, e) ==
  LET last == resolveSampleLength(p, z) - 1
      first == limit(0, last, IF e.start = Unset THEN z.start ELSE e.start)
  IN  [z EXCEPT !.start = first,
                !.end = 1 + limit(first, last,
                  IF e.end = Unset THEN resolveSampleEndInclusive(z, last + 1) ELSE e.end)]

loop(p, z, e) ==
  LET last == resolveSampleEndInclusive(z, resolveSampleLength(p, z))
      old == resolveLoopRange(z, z.start, last)
      or(value, default) == IF value = Unset THEN default ELSE value
      first == limit(z.start, last, or(e.ls, or(old.ls, z.start)))
  IN  [z EXCEPT !.ls = first, !.le = 1 + limit(first, last, or(e.le, or(old.le, last)))]

edited(p, e) ==
  LET old == p.zones[e.zone]
      moved == e.asset # 0 /\ e.asset # old.asset
      mapped == [fromUnordered(old, e.lo, e.hi) EXCEPT !.root = key(e.root),
                   !.asset = IF e.asset = 0 THEN @ ELSE e.asset,
                   !.gain = IF e.gain = Unset THEN @ ELSE e.gain]
      windowed == IF moved \/ e.start # Unset \/ e.end # Unset THEN window(p, mapped, e) ELSE mapped
  IN  IF moved \/ e.ls # Unset \/ e.le # Unset THEN loop(p, windowed, e) ELSE windowed

\* All edits, or none.  They name different zones, as the selected rows do,
\* and an edit looks at its zone and the assets only: their order is of no effect.
applyProgramZoneEditsAtomic(p, E) ==
  LET I == {e.zone : e \in E}
      of(i) == CHOOSE e \in E : e.zone = i
      possible == I \subseteq DOMAIN p.zones /\ \A e \in E : e.asset \in DOMAIN p.assets \cup {0}
  IN  IF E = {} \/ ~possible THEN {} ELSE {change(p, [i \in I |-> edited(p, of(i))])}

applyProgramZoneEdit(p, e) == applyProgramZoneEditsAtomic(p, {e})

findDefaultSampleAssetIndex(p, preferred) ==
  IF preferred \in DOMAIN p.assets THEN preferred
  ELSE IF p.assets = <<>> THEN 0 ELSE 1

createProgramZoneForSampleAsset(p, asset, seed) ==
  LET seeded == seed \in DOMAIN p.zones
      a == findDefaultSampleAssetIndex(p,
             IF asset = 0 /\ seeded THEN p.zones[seed].asset ELSE asset)
      root == IF seeded THEN p.zones[seed].root ELSE MaxKey \div 2
      group == IF seeded /\ p.zones[seed].group # 0 THEN p.zones[seed].group
               ELSE IF Len(p.groups) = 1 THEN 1 ELSE 0
      zone == [asset |-> a, group |-> group, lo |-> root, hi |-> root, root |-> root,
               start |-> 0, end |-> Length[p.assets[a]], ls |-> Unset, le |-> Unset, gain |-> 0]
  IN  IF a = 0 THEN {} ELSE {recompute([p EXCEPT !.zones = Append(@, zone)], {group})}

duplicateProgramZone(p, i) ==
  IF i \notin DOMAIN p.zones THEN {}
  ELSE {recompute([p EXCEPT !.zones = Append(@, @[i])], {p.zones[i].group})}

\* collectUniqueValidZoneIndices
available(p, I) == I # {} /\ I \subseteq DOMAIN p.zones

deleteProgramZonesAtomic_Keeps(p, I) ==
  IF ~available(p, I) THEN {} ELSE {[p EXCEPT !.zones = select(@, DOMAIN @ \ I)]}

deleteProgramZonesAtomic(p, I) ==
  IF ~available(p, I) THEN {}
  ELSE {recompute([p EXCEPT !.zones = select(@, DOMAIN @ \ I)], groupsOf(p, I))}

splitProgramZoneByKey(p, i) ==
  LET z == p.zones[i]
      halved == put(p, [k \in {i} |-> fromUnordered(z, z.lo, middle(z))])
      upper == fromUnordered(z, middle(z) + 1, z.hi)
  IN  IF i \notin DOMAIN p.zones \/ z.hi <= z.lo THEN {}
      ELSE {recompute([halved EXCEPT !.zones = Append(@, upper)], {z.group})}

\* remapProgramZonesChromatically: the zones at I, in the order of their ranks, get consecutive keys.
remap(p, I, rank, base) ==
  LET target(i) == key(base) + place(I, rank, i)
      on(z, note) == [z EXCEPT !.lo = note, !.hi = note, !.root = note]
  IN  IF ~available(p, I) \/ Cardinality(I) > MaxKey - key(base) + 1 THEN {}
      ELSE {change(p, [i \in I |-> on(p.zones[i], target(i))])}

mapProgramZonesToRootNotes(p, I) ==
  IF ~available(p, I) THEN {}
  ELSE {change(p, [i \in I |-> fromUnordered(p.zones[i], p.zones[i].root, p.zones[i].root)])}

\* Ranges stay as they are, and so do the groups.
deriveProgramZoneRootNotesFromKeyRanges(p, I) ==
  IF ~available(p, I) THEN {}
  ELSE {put(p, [i \in I |-> [p.zones[i] EXCEPT !.root = key(middle(p.zones[i]))]])}

\* The zones at I, by their ranges, share out the keys from the lowest to
\* the highest of them; the first ones get the keys that are left over.
spreadProgramZonesAcrossKeyRange(p, I) ==
  LET z == p.zones
      byRange == [i \in I |-> z[i].lo * (MaxKey + 1) + z[i].hi]
      n == Cardinality(I)
      low == Min({z[i].lo : i \in I})
      notes == Max({z[i].hi : i \in I}) - low + 1
      next(k) == low + k * (notes \div n) + Min({k, notes % n})
      placed(i) == LET k == place(I, byRange, i)
                       r == fromUnordered(z[i], next(k), next(k + 1) - 1)
                   IN  [r EXCEPT !.root = key(middle(r))]
  IN  IF ~available(p, I) \/ n < 2 \/ notes < n THEN {}
      ELSE {change(p, [i \in I |-> placed(i)])}

---------------------------------------------------------------------------
(* Slices: zones of one key each that cut one sample. *)

bySampleStart(p) == [i \in DOMAIN p.zones |-> p.zones[i].start]

lowestKey_Root(p) == Min({z.root : z \in ToSet(p.zones)})
lowestKey(p) == Min({z.lo : z \in ToSet(p.zones)})

\* A loop that begins past the end of its window, or ends past it, loses that end.
clipLoopEnd(z) ==
  [z EXCEPT !.ls = IF @ >= z.end THEN Unset ELSE @, !.le = IF @ > z.end THEN Unset ELSE @]

clipLoopStart(z) ==
  [z EXCEPT !.ls = IF @ >= 0 /\ @ < z.start THEN z.start ELSE @,
            !.le = IF @ > 0 /\ @ <= z.start THEN Unset ELSE @]

splitProgramSliceAtSample(p, sample) ==
  LET end(z) == resolveZoneSampleEndExclusive(p, z)
      around == {i \in DOMAIN p.zones : p.zones[i].start < sample /\ sample < end(p.zones[i])}
      at == Min(around)
      z == p.zones[at]
      left == clipLoopEnd([z EXCEPT !.end = sample])
      right == clipLoopStart([z EXCEPT !.start = sample, !.end = end(z)])
      split == [p EXCEPT !.zones = InsertAt([@ EXCEPT ![at] = left], at + 1, right)]
      refused == \E i \in 1 .. at :
        p.zones[i].asset # 1 \/ p.zones[i].lo # p.zones[i].hi \/ end(p.zones[i]) <= p.zones[i].start + 1
  IN  IF Len(p.assets) # 1 \/ around = {} \/ refused THEN {}
      ELSE remap(split, DOMAIN split.zones, bySampleStart(split), lowestKey(p))

mergeProgramSlicesAtSampleBoundary(p, boundary) ==
  LET order == ordered(DOMAIN p.zones, bySampleStart(p))
      end(i) == resolveZoneSampleEndExclusive(p, p.zones[i])
      slice(i) == p.zones[i].asset = 1 /\ p.zones[i].lo = p.zones[i].hi
      meet == {k \in 1 .. Len(order) - 1 :
                 end(order[k]) = boundary /\ p.zones[order[k + 1]].start = boundary}
      k == Min(meet)
      left == clipLoopEnd([p.zones[order[k]] EXCEPT !.end = end(order[k + 1])])
      merged == [p EXCEPT !.zones = select([@ EXCEPT ![order[k]] = left], DOMAIN @ \ {order[k + 1]})]
  IN  IF Len(p.zones) < 2 \/ Len(p.assets) # 1 \/ meet = {} \/ (\E j \in 1 .. k + 1 : ~slice(order[j])) THEN {}
      ELSE remap(merged, DOMAIN merged.zones, bySampleStart(merged), lowestKey(p))

---------------------------------------------------------------------------
(* The mapping state: what undo entries, presets and sessions keep. *)

createProgramZoneMappingState_Rows(p) ==
  [i \in DOMAIN p.zones |-> [row(p, p.zones[i]) EXCEPT !.asset = @] @@ [group |-> p.zones[i].group]]

\* A start is kept as the row shows it, the ends as they are.
createProgramZoneMappingState(p) ==
  [i \in DOMAIN p.zones |->
    LET z == p.zones[i]
        shown == row(p, z)
    IN  [z EXCEPT !.start = shown.start,
                  !.ls = IF shown.ls >= 0 /\ shown.le >= shown.ls THEN shown.ls ELSE Unset]]

\* Zones whose asset or group the program does not have are dropped.
restoreProgramZoneStructureFromState(p, state) ==
  LET kept == {i \in DOMAIN state : state[i].asset \in DOMAIN p.assets /\ state[i].group <= Len(p.groups)}
  IN  recompute([p EXCEPT !.zones = select(state, kept)], DOMAIN p.groups)

---------------------------------------------------------------------------
(* The edit that a drag in the overview makes of a row: it moves the zone by a distance, or an end to a key. *)

rowEdit(rows, i) ==
  [zone |-> i, asset |-> 0, lo |-> rows[i].lo, hi |-> rows[i].hi, root |-> rows[i].root,
   start |-> Unset, end |-> Unset, ls |-> Unset, le |-> Unset, gain |-> Unset]

makeProgramZoneOverviewEdit(rows, i, mode, by) ==
  LET r == rows[i]
      e == rowEdit(rows, i)
      lo == Min({key(r.lo + by), MaxKey - (r.hi - r.lo)})
  IN  CASE mode = "move" -> [e EXCEPT !.lo = lo, !.hi = lo + r.hi - r.lo]
        [] mode = "keyLow" -> [e EXCEPT !.lo = Min({key(by), r.hi})]
        [] mode = "keyHigh" -> [e EXCEPT !.hi = Max({r.lo, key(by)})]
=============================================================================
