-------------------------- MODULE MCRtSnapshotCell --------------------------
EXTENDS RtSnapshotCell, TLC

Sym == Permutations(Snapshots)
=============================================================================
