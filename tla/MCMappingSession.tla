--------------------------- MODULE MCMappingSession ---------------------------
EXTENDS MappingSession

CONSTANTS wave1, wave2

MCSamples == {wave1, wave2}
MCLength == (wave1 :> 4) @@ (wave2 :> 2)

Zone(asset, group, lo, hi, start, end, ls, le) ==
  [asset |-> asset, group |-> group, lo |-> lo, hi |-> hi, root |-> lo, start |-> start, end |-> end,
   ls |-> ls, le |-> le, gain |-> 0]

\* An imported program of two samples: a zone of a group with a loop, and one
\* without a group that plays to the end of its sample.
Imported ==
  [program |-> [zones |-> <<Zone(1, 1, 0, 1, 0, 4, 1, 3), Zone(2, 0, 2, 3, 0, Unset, Unset, Unset)>>,
                assets |-> <<wave1, wave2>>, groups |-> <<[lo |-> 0, hi |-> 1]>>],
   path |-> "imported", slices |-> FALSE]

Sliced ==
  [program |-> [zones |-> <<Zone(1, 0, 1, 1, 0, 2, Unset, Unset), Zone(1, 0, 2, 2, 2, 4, Unset, Unset)>>,
                assets |-> <<wave1>>, groups |-> <<>>],
   path |-> "sliced", slices |-> TRUE]

Nothing == [program |-> Empty, path |-> None, slices |-> FALSE]

MCPrograms == {Imported, Sliced, Nothing}
=============================================================================
