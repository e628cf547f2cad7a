---------------------------- MODULE MCNoteEngine ----------------------------
EXTENDS NoteEngine

Keys2 == {"a", "b"}

\* Zones of a small program: two layers of one choke group, a layer without one, and a zone
\* whose sample is missing; and a release zone of the same choke group.
Hat == [gate |-> TRUE, choke |-> 1, audio |-> TRUE]
Bell == [gate |-> FALSE, choke |-> 2, audio |-> TRUE]
Lost == [gate |-> TRUE, choke |-> 0, audio |-> FALSE]
Damper == [gate |-> FALSE, choke |-> 1, audio |-> TRUE]

SmallAttack == [n \in Keys2 |-> IF n = "a" THEN {<<Hat, Bell>>} ELSE {<<Bell, Hat>>, <<Lost, Hat>>, <<>>}]
SmallRelease == [n \in Keys2 |-> IF n = "a" THEN {<<>>} ELSE {<<Damper>>}]

Poly == [mode |-> "gate", mono |-> FALSE, legato |-> FALSE, limit |-> 2]
Legato == [mode |-> "gate", mono |-> TRUE, legato |-> TRUE, limit |-> 2]
MonoLoop == [mode |-> "loop", mono |-> TRUE, legato |-> FALSE, limit |-> 1]
Single == [mode |-> "gate", mono |-> FALSE, legato |-> FALSE, limit |-> 1]
OneShot == [mode |-> "oneShot", mono |-> FALSE, legato |-> FALSE, limit |-> 1]

ProgramSettings == {Poly, Legato, MonoLoop}
QueueSettings == {Single, OneShot}
AllSettings == ProgramSettings \cup QueueSettings

\* Two regions are explored: programs and samples with an event at a time, and a full queue
\* with a single voice.  A block larger than prepared has no events.
FewEvents == settings \in ProgramSettings /\ Len(queue) <= 1
FewVoices ==
  /\ settings \in QueueSettings /\ ~program /\ fresh = {}
  /\ \A v \in Voices : ~voice[v].zone
Region == (FewEvents \/ FewVoices) /\ EventsFit
=============================================================================
