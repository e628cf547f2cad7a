--------------------------- MODULE MappingSession ---------------------------
(***************************************************************************)
(* A session of the mapping editor: the imported program in its store, the *)
(* rows and sliders that the editor made of it, the edit that the sliders  *)
(* apply a moment after they rest, and the history that undo and redo take *)
(* mapping edits and settings from.  All of it runs on the message thread, *)
(* one callback an action; between two of them the host may restore a      *)
(* session, and the editor learns of it at its next refresh.  The store    *)
(* publishes to the engine and commits under its lock, so an edit is one   *)
(* step, and an edit that the engine refuses is no step.                   *)
(***************************************************************************)
EXTENDS ProgramMapping

CONSTANTS Programs,     \* what an import or a restored session loads: [program, path, slices]
          NewPath,      \* the path of a library made from scratch
          SavedPath,    \* the path it is saved to
          None,
          Keys, Points, \* the keys and samples that sliders and drags are moved to
          MaxZones,     \* capacity of a program snapshot
          MaxEntries,   \* maxEntries_ of the history
          MaxEdits      \* bound on the edits of a behaviour

VARIABLES program, path, slices,        \* ImportedProgramStore
          library, origin,              \* history values: how many programs were loaded before
                                        \* this one, and this one as it was loaded
          trusted,                      \* history value: its zones fitted their samples, and
                                        \* no zones of another program were put into it
          rows, selection,              \* mappingZoneRows_ and the rows selected
          control,                      \* the sliders, as the edit they would make
          armed,                        \* a delayed apply is outstanding
          settings,                     \* the parameters of the sound
          history,                      \* editorUndoHistory_ and what it is kept in step with
          edits

store == <<program, path, slices, library, origin, trusted>>
view == <<rows, selection, control>>
vars == <<store, view, armed, settings, history, edits>>

Empty == [zones |-> <<>>, assets |-> <<>>, groups |-> <<>>]

Zones == {z \in [asset : Nat \ {0}, group : Nat, lo : 0 .. MaxKey, hi : 0 .. MaxKey, root : 0 .. MaxKey,
                  start : Nat, end : Int, ls : Int, le : Int, gain : Int] : z.lo <= z.hi}

\* A program of zones whose assets and groups it has.
Has(p, z) == z.asset \in DOMAIN p.assets /\ z.group <= Len(p.groups)
IsProgram(p) ==
  /\ p \in [zones : Seq(Zones), assets : Seq(Samples), groups : Seq([lo : 0 .. MaxKey, hi : 0 .. MaxKey])]
  /\ \A i \in DOMAIN p.zones : Has(p, p.zones[i])
  /\ Len(p.zones) <= MaxZones

ASSUME SessionAssumption ==
  /\ \A s \in Programs :
       IsProgram(s.program) /\ (s.path = None => s.program = Empty) /\ s.slices \in BOOLEAN
  /\ NewPath # None /\ SavedPath # None
  /\ Keys \subseteq Int /\ Points \subseteq Nat
  /\ MaxZones \in Nat /\ MaxEntries \in Nat \ {0}

\* An end that is not past the start stands for the end of the sample.  A zone
\* fits its sample when its window is a part of it that is not empty, and its
\* loop, if it has one, is a part of its window.
windowEnd(p, z) == IF z.end > z.start THEN z.end ELSE Length[p.assets[z.asset]]
fits(p, z) ==
  /\ z.start < windowEnd(p, z) /\ windowEnd(p, z) <= Length[p.assets[z.asset]]
  /\ z.ls >= 0 /\ z.le > z.ls => z.start <= z.ls /\ z.le <= windowEnd(p, z)
Fits(p) == \A i \in DOMAIN p.zones : fits(p, p.zones[i])

\* What a player hears of each zone.
sound(p) == [i \in DOMAIN p.zones |-> [row(p, p.zones[i]) EXCEPT !.asset = p.assets[@]]]

(* The history. *)

push(stack, entry) ==
  IF Len(stack) = MaxEntries THEN Append(Tail(stack), entry) ELSE Append(stack, entry)

Cleared(now, currentPath) ==
  [undo |-> <<>>, redo |-> <<>>, after |-> Unset, last |-> now, path |-> currentPath]

\* syncImportedProgramMappingUndoContext
Synced(h, now, currentPath) == IF h.path = currentPath THEN h ELSE Cleared(now, currentPath)

\* recordSettingsChange: a change of the same gesture joins the entry of the last one.
recordPendingSettingsChange(h, now, sameGesture) ==
  LET joins == /\ sameGesture /\ h.redo = <<>> /\ h.after = h.last
               /\ h.undo # <<>> /\ Last(h.undo).kind = "settings"
      entry == [kind |-> "settings", value |-> h.last]
  IN  IF now = h.last THEN h
      ELSE [h EXCEPT !.undo = IF joins THEN @ ELSE push(@, entry),
                     !.redo = <<>>, !.after = now, !.last = now]

\* library and sound are kept to compare what an entry gives back with.
snapshot(p) ==
  [kind |-> "mapping", path |-> path, state |-> createProgramZoneMappingState(p),
   library |-> library, sound |-> sound(p)]

recordMappingChange(h, before, after) ==
  IF before = after THEN h
  ELSE [h EXCEPT !.undo = push(@, before), !.redo = <<>>, !.after = Unset, !.path = path]

(* The view. *)

\* What the sliders show when one row is selected.
shown(R, S) ==
  IF Cardinality(S) # 1 THEN None
  ELSE LET i == CHOOSE k \in S : TRUE
           r == R[i]
       IN  [rowEdit(R, i) EXCEPT !.start = r.start, !.end = r.end, !.gain = r.gain,
              !.ls = IF r.ls >= 0 THEN r.ls ELSE r.start,
              !.le = IF r.le >= 0 THEN r.le ELSE r.end]

\* refreshMappingZoneRows, with the rows S selected where they exist.
Show(p, S) ==
  /\ rows' = buildProgramZoneListRows(p)
  /\ selection' = IF S \cap DOMAIN p.zones = {} /\ p.zones # <<>> THEN {1} ELSE S \cap DOMAIN p.zones
  /\ control' = shown(rows', selection')

Init ==
  /\ \E s \in Programs :
       /\ program = s.program
       /\ path = s.path
       /\ slices = s.slices
  /\ library = 0
  /\ origin = program
  /\ trusted = Fits(program)
  /\ rows = buildProgramZoneListRows(program)
  /\ selection = IF program.zones = <<>> THEN {} ELSE {1}
  /\ control = shown(rows, selection)
  /\ armed = FALSE
  /\ settings = 0
  /\ history = Cleared(0, path)
  /\ edits = 0

Count == edits < MaxEdits /\ edits' = edits + 1

\* ImportedProgramStore::edit, then the recording and the refresh that every
\* edit of the editor ends in; refused, the sliders are set back to the row.
Edited(results) ==
  /\ Count
  /\ UNCHANGED <<path, slices, library, origin, trusted, settings>>
  /\ LET accepted == {r \in results : program.assets # <<>> /\ Len(r.program.zones) <= MaxZones}
     IN  \/ /\ accepted = {}
            /\ control' = shown(rows, selection)
            /\ UNCHANGED <<program, rows, selection, history>>
         \/ \E r \in accepted :
              /\ program' = r.program
              /\ history' = recordMappingChange(history, snapshot(program), snapshot(r.program))
              /\ Show(r.program, r.selected)

result(p, S) == [program |-> p, selected |-> S]
Commit(programs, S) == Edited({result(p, S) : p \in programs}) /\ UNCHANGED armed

one == Cardinality(selection) = 1
only == CHOOSE i \in selection : TRUE

---------------------------------------------------------------------------
(* Selecting and adjusting, while an edit may still follow. *)

Select(S) ==
  /\ edits < MaxEdits
  /\ S # selection
  /\ selection' = S
  /\ control' = shown(rows, S)
  /\ UNCHANGED <<store, rows, armed, settings, history, edits>>

\* A slider of a single zone is moved and schedules an apply.  One at a time
\* is moved away from what the row has.
Adjust(field, value) ==
  /\ edits < MaxEdits
  /\ one
  /\ control = shown(rows, selection)
  /\ control[field] # value
  /\ control' = [control EXCEPT ![field] = value]
  /\ armed' = TRUE
  /\ UNCHANGED <<store, rows, selection, settings, history, edits>>

applySelectedMappingZoneEdit ==
  Edited({result(p, {control.zone}) : p \in applyProgramZoneEdit(program, control)})

ApplyNow == one /\ applySelectedMappingZoneEdit /\ UNCHANGED armed

\* The delayed apply takes the sliders as they are when it comes.
LiveApply ==
  /\ armed
  /\ armed' = FALSE
  /\ \/ one /\ applySelectedMappingZoneEdit
     \/ ~one /\ UNCHANGED <<store, view, settings, history, edits>>

\* An attribute set for all the rows selected; the ranges go in as the rows have them.
ApplyBatch(gain) ==
  /\ Cardinality(selection) > 1
  /\ Commit(applyProgramZoneEditsAtomic(program,
              {[rowEdit(rows, i) EXCEPT !.gain = gain] : i \in selection}), selection)

DragInOverview(i, mode, by) ==
  Commit(applyProgramZoneEdit(program, makeProgramZoneOverviewEdit(rows, i, mode, by)), {i})

---------------------------------------------------------------------------
(* The other edits *)

CreateZone(asset) ==
  LET seed == IF one THEN only ELSE 0
  IN  Commit(createProgramZoneForSampleAsset(program, asset, seed), {Len(program.zones) + 1})

Duplicate == one /\ Commit(duplicateProgramZone(program, only), {Len(program.zones) + 1})
SplitByKey == one /\ Commit(splitProgramZoneByKey(program, only), {Len(program.zones) + 1})

\* The row that takes the place of the first one deleted is selected.
Delete ==
  /\ selection # {}
  /\ LET left == Len(rows) - Cardinality(selection)
     IN  Commit(deleteProgramZonesAtomic(program, selection), {limit(1, left, Min(selection))})

\* The processor refuses these for a program without zones.
OfZones(results) == IF program.zones = <<>> THEN {} ELSE results

remapImportedProgramZonesChromatically(S) ==
  OfZones(remap(program, S, [i \in S |-> i], MaxKey \div 3))
mapImportedProgramZonesToRootNotes(S) == OfZones(mapProgramZonesToRootNotes(program, S))
deriveImportedProgramZoneRootsFromKeyRanges(S) ==
  OfZones(deriveProgramZoneRootNotesFromKeyRanges(program, S))
spreadImportedProgramZonesAcrossKeyRange(S) ==
  OfZones(spreadProgramZonesAcrossKeyRange(program, S))

RemapChromatically ==
  selection # {} /\ Commit(remapImportedProgramZonesChromatically(selection), selection)
MapToRoots == selection # {} /\ Commit(mapImportedProgramZonesToRootNotes(selection), selection)
DeriveRoots ==
  selection # {} /\ Commit(deriveImportedProgramZoneRootsFromKeyRanges(selection), selection)
Spread ==
  Cardinality(selection) > 1 /\ Commit(spreadImportedProgramZonesAcrossKeyRange(selection), selection)

SplitSlice(sample) ==
  /\ slices
  /\ Edited({result(p, {i \in DOMAIN p.zones : p.zones[i].start = sample}) :
               p \in splitProgramSliceAtSample(program, sample)})
  /\ UNCHANGED armed

MergeSlices(boundary) ==
  /\ slices
  /\ Edited({result(p, {i \in DOMAIN p.zones :
                          p.zones[i].start < boundary /\ boundary < p.zones[i].end}) :
               p \in mergeProgramSlicesAtSampleBoundary(program, boundary)})
  /\ UNCHANGED armed

---------------------------------------------------------------------------
(* Samples and libraries *)

\* ensureImportedProgramSampleAsset: the asset of a sample, added if there is none.
ensure(p, s) == IF s \in ToSet(p.assets) THEN p ELSE [p EXCEPT !.assets = Append(@, s)]
assetOf(p, s) == CHOOSE a \in DOMAIN p.assets : p.assets[a] = s

\* Not in the history; without room for a zone the asset stays.
AddSample(s) ==
  LET p == ensure(program, s)
      created == createProgramZoneForSampleAsset(p, assetOf(p, s), 0)
  IN  /\ path # None
      /\ Count
      /\ IF Len(p.zones) = MaxZones
         THEN program' = p /\ UNCHANGED view
         ELSE /\ program' \in created
              /\ Show(program', selection)
      /\ UNCHANGED <<path, slices, library, origin, trusted, armed, settings, history>>

\* A sample dropped on a zone of the list: the snapshot to go back to is
\* taken with the sample already added.
DropOnZone(s, i) ==
  LET p == ensure(program, s)
      results == applyProgramZoneEdit(p, [rowEdit(rows, i) EXCEPT !.asset = assetOf(p, s)])
  IN  /\ path # None
      /\ Count
      /\ IF results = {}
         THEN program' = p /\ control' = shown(rows, selection) /\ UNCHANGED <<rows, selection, history>>
         ELSE /\ program' \in results
              /\ history' = recordMappingChange(history, snapshot(p), snapshot(program'))
              /\ Show(program', {i})
      /\ UNCHANGED <<path, slices, library, origin, trusted, armed, settings>>

\* createEmptyImportedSfzProgram
NewLibrary ==
  /\ Count
  /\ program' = Empty
  /\ path' = NewPath
  /\ slices' = FALSE
  /\ library' = library + 1
  /\ origin' = Empty
  /\ trusted' = TRUE
  /\ history' = Synced(history, settings, NewPath)
  /\ Show(Empty, {})
  /\ UNCHANGED <<armed, settings>>

\* A sample dropped on a key: a zone for it there, in a new library if none is loaded.
DropOnKey(s, note) ==
  LET base == IF path = None THEN Empty ELSE program
      here == IF path = None THEN NewPath ELSE path
      p == ensure(base, s)
      zone(q) == [rowEdit(buildProgramZoneListRows(q), Len(q.zones)) EXCEPT !.lo = note, !.hi = note, !.root = note]
      results == UNION {applyProgramZoneEdit(q, zone(q)) : q \in createProgramZoneForSampleAsset(p, assetOf(p, s), 0)}
      synced == Synced(history, settings, here)
      entry(q) == [snapshot(q) EXCEPT !.path = here]
  IN  /\ Count
      /\ path' = here
      /\ slices' = (slices /\ path # None)
      /\ IF Len(p.zones) = MaxZones
         THEN /\ program' = p
              /\ history' = synced
              /\ UNCHANGED view
         ELSE /\ program' \in results
              /\ history' = [recordMappingChange(synced, entry(p), entry(program')) EXCEPT !.path = here]
              /\ Show(program', {Len(program'.zones)})
      /\ UNCHANGED <<library, origin, trusted, armed, settings>>

\* setSavedLocation
SaveAs ==
  /\ path \notin {None, SavedPath}
  /\ path' = SavedPath
  /\ slices' = FALSE
  /\ UNCHANGED <<program, library, origin, trusted, view, armed, settings, history, edits>>

\* The host restores a session: a program of the same path or of another one.
HostRestores(s) ==
  /\ Count
  /\ program' = s.program
  /\ path' = s.path
  /\ slices' = s.slices
  /\ library' = library + 1
  /\ origin' = s.program
  /\ trusted' = Fits(s.program)
  /\ UNCHANGED <<view, armed, settings, history>>

Refresh ==
  /\ history' = Synced(history, settings, path)
  /\ Show(program, selection)
  /\ UNCHANGED <<store, armed, settings, edits>>

---------------------------------------------------------------------------
(* Settings, undo and redo *)

ChangeSettings(value) ==
  /\ value # settings
  /\ Count
  /\ settings' = value
  /\ UNCHANGED <<store, view, armed, history>>

\* The editor's timer.
Tick(sameGesture) ==
  /\ history' = recordPendingSettingsChange(Synced(history, settings, path), settings, sameGesture)
  /\ UNCHANGED <<store, view, armed, settings, edits>>

applyImportedProgramMappingState(state) ==
  IF program.assets = <<>> THEN {} ELSE {restoreProgramZoneStructureFromState(program, state)}

\* The last entry of one stack is taken, and the present goes on the other.
\* A mapping entry of another path, or refused by the store, is lost.
Step(from, to, sameGesture) ==
  LET h == recordPendingSettingsChange(Synced(history, settings, path), settings, sameGesture)
      entry == Last(h[from])
      present == IF entry.kind = "settings" THEN [kind |-> "settings", value |-> settings] ELSE snapshot(program)
      stepped == [h EXCEPT ![from] = Front(@), ![to] = Append(@, present), !.after = Unset]
      restored == applyImportedProgramMappingState(entry.state)
  IN  /\ IF h[from] = <<>>
         THEN history' = h /\ UNCHANGED <<program, trusted, view, settings>>
         ELSE IF entry.kind = "settings"
         THEN /\ settings' = entry.value
              /\ history' = [stepped EXCEPT !.last = entry.value]
              /\ UNCHANGED <<program, trusted, view>>
         ELSE /\ history' = stepped
              /\ UNCHANGED settings
              /\ IF entry.path = path /\ restored # {}
                 THEN /\ program' \in restored
                      /\ trusted' = (trusted /\ entry.library = library)
                      /\ Show(program', selection)
                 ELSE UNCHANGED <<program, trusted, view>>
      /\ UNCHANGED <<path, slices, library, origin, armed, edits>>

Undo(sameGesture) == Step("undo", "redo", sameGesture)
Redo(sameGesture) == Step("redo", "undo", sameGesture)

---------------------------------------------------------------------------
Cuts == UNION {1 .. Length[s] - 1 : s \in Samples}

Next ==
  \/ \E S \in SUBSET DOMAIN rows : Select(S)
  \/ \E field \in {"lo", "hi", "root"}, value \in Keys : Adjust(field, value)
  \/ \E field \in {"start", "end", "ls", "le"}, value \in Points : Adjust(field, value)
  \/ ApplyNow \/ LiveApply \/ ApplyBatch(1)
  \/ \E i \in DOMAIN rows :
       \/ \E by \in {-1, 1} : DragInOverview(i, "move", by)
       \/ \E mode \in {"keyLow", "keyHigh"}, note \in Keys : DragInOverview(i, mode, note)
  \/ \E a \in DOMAIN program.assets \cup {0} : CreateZone(a)
  \/ Duplicate \/ SplitByKey \/ Delete
  \/ RemapChromatically \/ MapToRoots \/ DeriveRoots \/ Spread
  \/ \E sample \in Cuts : SplitSlice(sample) \/ MergeSlices(sample)
  \/ \E s \in Samples : AddSample(s)
  \/ \E s \in Samples, i \in DOMAIN rows : DropOnZone(s, i)
  \/ \E s \in Samples, note \in Keys : DropOnKey(s, note)
  \/ NewLibrary \/ SaveAs \/ Refresh
  \/ \E s \in Programs : HostRestores(s)
  \/ \E value \in 0 .. 1 : ChangeSettings(value)
  \/ \E sameGesture \in BOOLEAN : Tick(sameGesture) \/ Undo(sameGesture) \/ Redo(sameGesture)

Spec == Init /\ [][Next]_vars

---------------------------------------------------------------------------
(* Properties *)

ranges(p, g) == {<<z.lo, z.hi>> : z \in zonesOf(p, g)}

Tight(p, g) ==
  zonesOf(p, g) # {} =>
    /\ p.groups[g].lo = Min({z.lo : z \in zonesOf(p, g)})
    /\ p.groups[g].hi = Max({z.hi : z \in zonesOf(p, g)})

\* A note is first matched with the range of a zone's group.  That range is the
\* one of its zones, so that it silences none of them and reaches no further,
\* or the file gave it to zones of just these ranges.
GroupCoversZones ==
  \A g \in DOMAIN program.groups :
    \/ Tight(program, g)
    \/ program.groups[g] = origin.groups[g] /\ ranges(program, g) = ranges(origin, g)

\* Whatever is edited, dropped on a zone, restored, undone or redone, from rows
\* however old: every zone names an asset and a group that are there and has its
\* keys in order, and every zone fits its sample, if those that were loaded did.
\* The zones of another program of the same path, that undo may bring, are the exception.
ZonesAreWellFormed ==
  /\ Len(program.zones) <= MaxZones
  /\ \A i \in DOMAIN program.zones :
       LET z == program.zones[i]
       IN  /\ Has(program, z)
           /\ 0 <= z.lo /\ z.lo <= z.hi /\ z.hi <= MaxKey /\ z.root \in 0 .. MaxKey
           /\ trusted => fits(program, z)
  /\ GroupCoversZones

\* Every entry of the history made in this program still gives back what was
\* heard when it was recorded, whatever has been added to the program and
\* however often it was saved, undone and redone since.
UndoGivesBack ==
  \A entry \in ToSet(history.undo) \cup ToSet(history.redo) :
    trusted /\ entry.kind = "mapping" /\ entry.library = library /\ entry.path = path
      => sound(restoreProgramZoneStructureFromState(program, entry.state)) = entry.sound

covered(p) == UNION {{<<z.asset, n>> : n \in z.start .. windowEnd(p, z) - 1} : z \in ToSet(p.zones)}
struck(p) == UNION {z.lo .. z.hi : z \in ToSet(p.zones)}

\* Splitting and merging slices moves boundaries only: the slices cover the
\* part of the sample they covered before, and their keys stay without a gap
\* from the lowest one up, a key for each slice.
SliceEditsKeepAudio ==
  [][slices /\ trusted /\ program' # program /\ (\E sample \in Cuts : SplitSlice(sample) \/ MergeSlices(sample))
       => /\ covered(program') = covered(program)
          /\ struck(program') = Min(struck(program)) .. Min(struck(program)) + Len(program'.zones) - 1]_vars

=============================================================================
