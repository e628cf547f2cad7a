---------------------------- MODULE SlicePrograms ----------------------------
(***************************************************************************)
(* Programs of slices, each on a key of its own from BaseNote upwards: the *)
(* slices of a REX loop, and those between the onsets of one sample.  A    *)
(* sample has the onsets [at, quiet] that its envelopes show, in order,    *)
(* and before each of them the last place that was quiet.                  *)
(***************************************************************************)
EXTENDS ImportedZones, TLC

CONSTANTS BaseNote, MaxSlices, MinSlice, MaxBacktrack

ASSUME SliceAssumption == /\ BaseNote \in 0 .. 127 /\ MaxSlices \in Nat
                          /\ MinSlice \in Nat \ {0} /\ MaxBacktrack \in Nat

\* An onset begins a slice at the quiet place before it, not too far back, unless that leaves
\* the slice before it too short.
sliceStart(last, onset) == Max2(onset.quiet, Max2(last + MinSlice \div 2, onset.at - Min2(MaxBacktrack, MinSlice)))

detectTransientSliceStarts(wave) ==
  FoldLeft(LAMBDA starts, onset :
             IF /\ Len(starts) < Max2(1, MaxSlices)
                /\ onset.at - Last(starts) >= MinSlice
                /\ sliceStart(Last(starts), onset) - Last(starts) >= MinSlice
             THEN Append(starts, sliceStart(Last(starts), onset)) ELSE starts,
           <<0>>, wave.onsets)

\* One slice for every key there is.
mappedCount(n) == Min2(n, 127 - BaseNote + 1)

sliceZone(k, asset, start, end) ==
  [NewZone EXCEPT !.sample = asset, !.keys = <<BaseNote + k - 1, BaseNote + k - 1>>, !.root = BaseNote + k - 1,
                  !.start = start, !.end = end, !.trigger = "oneShot"]

\* The slice on the last key goes to the end of the sample.
nextSliceStart(starts, k, n, wave) == IF k < n THEN starts[k + 1] ELSE wave.length

\* One slice is none.
buildTransientSliceProgram(path, wave) ==
  LET starts == detectTransientSliceStarts(wave)
      n == mappedCount(Len(starts))
  IN  IF wave.length = 0 \/ n <= 1 THEN failed(Nothing)
      ELSE FoldLeft(LAMBDA r, k : addZone(r, sliceZone(k, 1, starts[k], nextSliceStart(starts, k, n, wave))),
                    addAsset(Nothing, FileAsset(path, wave)), [k \in 1 .. n |-> k])

\* The slices of a mono or stereo loop, all of which must have a length.
decodeFile(loop) ==
  IF loop.channels \in 1 .. 2 /\ \A k \in DOMAIN loop.slices : loop.slices[k] > 0 THEN loop.slices ELSE <<>>

buildChromaticSliceProgram(path, loop) ==
  LET slices == decodeFile(loop)
      asset(k) == [path |-> path, name |-> Last(path), audio |-> loop.audio \o " " \o ToString(k), length |-> slices[k]]
      n == mappedCount(Len(slices))
  IN  IF n = 0 THEN failed(Nothing)
      ELSE FoldLeft(LAMBDA r, k : addZone(addAsset(r, asset(k)), sliceZone(k, k, 0, slices[k])),
                    Nothing, [k \in 1 .. n |-> k])
=============================================================================
