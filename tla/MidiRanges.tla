----------------------------- MODULE MidiRanges -----------------------------
(***************************************************************************)
(* Keys, and the ranges of keys that zones and groups play, each a pair of *)
(* its lowest and its highest key.                                         *)
(***************************************************************************)
EXTENDS Integers

Max2(a, b) == IF a >= b THEN a ELSE b
Min2(a, b) == IF a <= b THEN a ELSE b
\* juce::jlimit(), also for limits in the wrong order.
clamp(n, low, high) == IF n < low THEN low ELSE Min2(n, high)

clampMidiNote(n) == clamp(n, 0, 127)

\* Limits that may be given in either order.
fromUnordered(first, second) ==
  <<Min2(clampMidiNote(first), clampMidiNote(second)), Max2(clampMidiNote(first), clampMidiNote(second))>>

intersectRanges(r, s) == <<Max2(r[1], s[1]), Min2(r[2], s[2])>>
isValid(r) == 0 <= r[1] /\ r[1] <= r[2] /\ r[2] <= 127
=============================================================================
