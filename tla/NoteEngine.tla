----------------------------- MODULE NoteEngine -----------------------------
(***************************************************************************)
(* How the engine turns note events into voices.  Everything here belongs  *)
(* to the audio thread; only the publication of a sample or program comes  *)
(* from outside.  A block goes through the phases "ui", where the notes of *)
(* the user interface are queued, "host", where the host's MIDI is, "read",*)
(* where the published sample is known but not yet the program, and        *)
(* "render", where the queue is dispatched one event a step with the       *)
(* voices sounding in between; "idle" is between blocks.                   *)
(*                                                                         *)
(* The sound of a voice is left out: a voice has an envelope that is on or *)
(* releasing, a level, and a sample that may end.  Which zones a note      *)
(* selects is given by constants (velocity and round robin make it a       *)
(* choice), and a zone that loops is one whose sample happens not to end.  *)
(***************************************************************************)
EXTENDS Integers, SequencesExt

CONSTANTS
  Notes,
  MaxVoices,     \* VoicePool::maxVoices
  Capacity,      \* pendingEventCapacity
  Reserve,       \* pendingSafetyEventReserve
  BlockSizes,    \* the block lengths the host uses
  Prepared,      \* the block length the buffers were prepared for
  AttackZones,   \* the selections of zones a note-on can make in a program, by note
  ReleaseZones,  \* the selections a note-off can make; their zones do not wait for a note-off
  Settings,      \* the controls a block may find: playback mode, mono, legato, polyphony
  Programs,      \* whether what is published is a program
  None

Zone == [gate : BOOLEAN, choke : Nat, audio : BOOLEAN]

ASSUME NoteAssumption ==
  /\ MaxVoices \in Nat \ {0}
  /\ Capacity \in Nat \ {0} /\ Reserve \in 0 .. Capacity
  /\ Prepared \in Nat \ {0} /\ BlockSizes \subseteq Nat \ {0}
  /\ Settings \subseteq [mode : {"gate", "oneShot", "loop"}, mono : BOOLEAN,
                        legato : BOOLEAN, limit : 1 .. MaxVoices]
  /\ Programs \subseteq BOOLEAN /\ None \notin Notes
  /\ AttackZones \in [Notes -> SUBSET Seq(Zone)]
  /\ ReleaseZones \in [Notes -> SUBSET Seq(Zone)]
  /\ \A n \in Notes : \A zones \in ReleaseZones[n] : \A i \in 1 .. Len(zones) : ~zones[i].gate

Voices == 1 .. MaxVoices
Levels == 0 .. 1  \* silent and audible

VARIABLES
  voice,      \* the voices: VoicePool::voices_ and EngineCore::voices_
  queue,      \* pendingEvents_, in the order of their sequence numbers
  recovery,   \* pendingSafetyRecoveryRequested_
  settings,   \* the controls last applied
  program,    \* a program is published, not a sample alone
  fresh,      \* what was published since the audio thread last looked
  phase, size, at, cursor,  \* the block: numSamples, metadata.samplePosition and then segmentStart,
                            \* pendingEventCursor
  playing,    \* this block plays a program
  down        \* history: the keys that are down, as the events say

Snapshots == {"sample", "program"}  \* what is published, each with a generation of its own
publication == <<program, fresh>>
block == <<size, at, cursor, playing>>
vars == <<voice, queue, recovery, settings, publication, phase, block, down>>

Silent == [note |-> None, held |-> FALSE, gate |-> TRUE, env |-> "off", choke |-> 0,
           zone |-> FALSE, since |-> {}, level |-> 0, order |-> 0]
Voice == [note : Notes, held : BOOLEAN, gate : BOOLEAN, env : {"on", "release"}, choke : Nat,
          zone : BOOLEAN, since : SUBSET Snapshots, level : Levels, order : Voices]
Event == [type : {"noteOn", "noteOff"}, note : Notes, offset : Nat]
         \cup [type : {"allNotesOff", "control"}, note : {None}, offset : Nat]

Active(vs) == {v \in Voices : vs[v].note # None}

\* The voices beyond the polyphony limit are silent, and start orders are distinct.
Arrays(limit) ==
  {vs \in [Voices -> Voice \cup {Silent}] :
     /\ \A v \in Active(vs) : v <= limit
     /\ \A v, w \in Active(vs) : vs[v].order = vs[w].order => v = w}
Pool == Arrays(settings.limit)

TypeOK ==
  /\ voice \in Pool
  /\ queue \in Seq(Event) /\ Len(queue) <= Capacity
  /\ recovery \in BOOLEAN /\ settings \in Settings
  /\ program \in BOOLEAN /\ fresh \subseteq Snapshots /\ playing \in BOOLEAN
  /\ phase \in {"idle", "ui", "host", "read", "render"}
  /\ size \in Nat /\ at \in 0 .. size /\ cursor \in 0 .. Len(queue)
  /\ down \subseteq Notes

Init ==
  /\ voice = [v \in Voices |-> Silent]
  /\ queue = <<>> /\ recovery = FALSE /\ settings \in Settings
  /\ program \in Programs /\ fresh = {}
  /\ phase = "idle" /\ size = 0 /\ at = 0 /\ cursor = 0 /\ playing = FALSE
  /\ down = {}

-----------------------------------------------------------------------------
(* The voices.  A function of voices stands for both arrays; start orders  *)
(* are only compared, so they are kept as ranks.  A voice plays what the   *)
(* block has read when it is given its zone or sample; its history "since" *)
(* tells what has been published after that.                               *)

\* startCounter_ only matters as an order.
Ranked(vs) ==
  [v \in Voices |->
     IF v \notin Active(vs) THEN vs[v]
     ELSE [vs[v] EXCEPT !.order = Cardinality({w \in Active(vs) : vs[w].order <= vs[v].order})]]

StopAll == [v \in Voices |-> Silent]

StopNote(vs, n) == [v \in Voices |-> IF vs[v].note = n THEN Silent ELSE vs[v]]

StopChoke(vs, group) ==
  [v \in Voices |-> IF group > 0 /\ vs[v].choke = group THEN Silent ELSE vs[v]]

\* findInactiveSlot() or else findStealCandidate(): quietest, then oldest.
Slot(vs) ==
  LET slots == 1 .. settings.limit
      free == {v \in slots : vs[v].note = None}
      quiet == {v \in slots : \A w \in slots : vs[v].level <= vs[w].level}
  IN IF free # {} THEN CHOOSE v \in free : \A w \in free : v <= w
     ELSE CHOOSE v \in quiet : \A w \in quiet : vs[v].order <= vs[w].order

\* startVoice() in a slot of the pool; a zone whose sample is missing starts nothing.
Start(vs, n, zone) ==
  IF ~zone.audio THEN vs
  ELSE Ranked([vs EXCEPT ![Slot(vs)] =
         [note |-> n, held |-> TRUE, gate |-> zone.gate, env |-> "on", choke |-> zone.choke,
          zone |-> playing, since |-> fresh, level |-> 0, order |-> MaxVoices + 1]])

\* retargetVoiceLegato(): the envelope, the level and the start order stay as they are.
Retarget(vs, v, n, zone) ==
  IF ~zone.audio THEN vs
  ELSE [vs EXCEPT ![v].note = n, ![v].held = TRUE, ![v].gate = zone.gate,
                  ![v].choke = zone.choke, ![v].zone = playing, ![v].since = fresh]

\* Mutant: only the first selected zone silences its choke group.
ChokeAll_FirstOnly(vs, zones) == StopChoke(vs, zones[1].choke)

\* The choke groups of all selected zones are silenced.
ChokeAll(vs, zones) ==
  [v \in Voices |-> IF vs[v].choke > 0 /\ \E i \in 1 .. Len(zones) : zones[i].choke = vs[v].choke
                    THEN Silent ELSE vs[v]]

\* The selected zones start one after the other; release zones silence their group first.
Layered(vs, n, zones, cut) ==
  LET after[k \in 0 .. Len(zones)] ==
        IF k = 0 THEN vs
        ELSE Start(IF cut THEN StopChoke(after[k - 1], zones[k].choke) ELSE after[k - 1], n, zones[k])
  IN after[Len(zones)]

FirstActive(vs) == CHOOSE v \in Active(vs) : \A w \in Active(vs) : v <= w

\* Mutant: the voices of the note are stopped once its layers have started.
NoteOn_StopsLast(vs, n, zones) ==
  LET started == IF ~settings.mono THEN Layered(vs, n, zones, FALSE)
                 ELSE IF settings.legato /\ Active(vs) # {} THEN Retarget(vs, FirstActive(vs), n, zones[1])
                 ELSE Start(StopAll, n, zones[1])
  IN IF zones = <<>> THEN vs ELSE StopNote(started, n)

\* A note-on with the zones it selected; a single sample is one zone without choke group.
NoteOn(vs, n, zones) ==
  LET quiet == StopNote(ChokeAll(vs, zones), n)
  IN CASE zones = <<>> -> vs
       [] zones # <<>> /\ ~settings.mono -> Layered(quiet, n, zones, FALSE)
       [] zones # <<>> /\ settings.mono ->
            IF settings.legato /\ Active(quiet) # {} THEN Retarget(quiet, FirstActive(quiet), n, zones[1])
            ELSE Start(StopAll, n, zones[1])

\* releaseVoicesForNote()
Released(vs, n) ==
  [v \in Voices |-> IF vs[v].note = n /\ vs[v].gate
                    THEN [vs[v] EXCEPT !.held = FALSE, !.env = "release"] ELSE vs[v]]

\* A note-off: the voices of the note release, then its release zones start.
NoteOff(vs, n, zones) == Layered(Released(vs, n), n, zones, TRUE)

SampleZone == [gate |-> settings.mode # "oneShot", choke |-> 0, audio |-> TRUE]

-----------------------------------------------------------------------------
(* The queue of a block.                                                   *)

IsSafety(e) == e.type \in {"noteOff", "allNotesOff"}
Releases(q) ==
  LET kept[k \in 0 .. Len(q)] ==
        IF k = 0 THEN <<>> ELSE IF IsSafety(q[k]) THEN Append(kept[k - 1], q[k]) ELSE kept[k - 1]
  IN kept[Len(q)]
Without(q, i) == SubSeq(q, 1, i - 1) \o SubSeq(q, i + 1, Len(q))
Plain(q) == {i \in 1 .. Len(q) : ~IsSafety(q[i])}
Newest(q) == CHOOSE i \in Plain(q) : \A j \in Plain(q) : j <= i

\* Mutant: an event that finds no room is dropped without a recovery.
Enqueue_NoRecovery(e) ==
  IF Len(queue) < (IF IsSafety(e) THEN Capacity ELSE Capacity - Reserve)
  THEN queue' = Append(queue, e) /\ UNCHANGED recovery
  ELSE IF IsSafety(e) /\ Plain(queue) # {}
  THEN queue' = Append(Without(queue, Newest(queue)), e) /\ UNCHANGED recovery
  ELSE UNCHANGED <<queue, recovery>>

\* Mutant: the newest event makes room, whatever it is.
Enqueue_DisplacesAny(e) ==
  IF Len(queue) < (IF IsSafety(e) THEN Capacity ELSE Capacity - Reserve)
  THEN queue' = Append(queue, e) /\ UNCHANGED recovery
  ELSE IF IsSafety(e)
  THEN queue' = Append(Without(queue, Len(queue)), e) /\ UNCHANGED recovery
  ELSE UNCHANGED <<queue, recovery>>

\* enqueuePendingEvent(): a release event may use the reserve, then displaces the newest event
\* that is none, and asks for a recovery when there is none to displace.
Enqueue(e) ==
  IF Len(queue) < (IF IsSafety(e) THEN Capacity ELSE Capacity - Reserve)
  THEN queue' = Append(queue, e) /\ UNCHANGED recovery
  ELSE IF ~IsSafety(e) THEN UNCHANGED <<queue, recovery>>
  ELSE IF Plain(queue) # {}
  THEN queue' = Append(Without(queue, Newest(queue)), e) /\ UNCHANGED recovery
  ELSE recovery' = TRUE /\ UNCHANGED queue

\* What the event says about the keys.
Keys(e) ==
  CASE e.type = "noteOn" -> down \cup {e.note}
    [] e.type = "noteOff" -> down \ {e.note}
    [] e.type = "allNotesOff" -> {}
    [] OTHER -> down

\* sortPendingEventsByOffset(): by offset, then by sequence number.
Before(q, i, j) == q[i].offset < q[j].offset \/ (q[i].offset = q[j].offset /\ i < j)
Rank(q, i) == Cardinality({j \in 1 .. Len(q) : Before(q, j, i)})
Sorted(q) == [k \in 1 .. Len(q) |-> q[CHOOSE i \in 1 .. Len(q) : Rank(q, i) = k - 1]]

\* findNextPendingEventOffset()
NextOffset ==
  IF cursor < Len(queue) /\ queue[cursor + 1].offset < size
  THEN queue[cursor + 1].offset ELSE size

-----------------------------------------------------------------------------
(* The block.                                                              *)

\* syncEngineFromAutomatableParameters(): the controls reach the engine before the notes, and
\* setPolyphonyLimit() stops the voices above it.
BeginBlock(n, controls) ==
  /\ phase = "idle"
  /\ phase' = "ui" /\ size' = n /\ settings' = controls
  /\ voice' = Ranked([v \in Voices |-> IF v > controls.limit THEN Silent ELSE voice[v]])
  /\ UNCHANGED <<queue, recovery, publication, at, cursor, playing, down>>

UiNote(e) ==
  /\ phase = "ui" /\ e.offset = 0 /\ e.type \in {"noteOn", "noteOff"}
  /\ Enqueue(e)
  /\ down' = Keys(e)
  /\ UNCHANGED <<voice, settings, publication, phase, block>>

\* The panic latch is read when the notes of the user interface are in; engine_.panic().
ReadLatch(panic) ==
  /\ phase = "ui"
  /\ phase' = "host"
  /\ IF panic THEN /\ voice' = StopAll /\ queue' = <<>> /\ recovery' = FALSE
                   /\ down' = {}
     ELSE UNCHANGED <<voice, queue, recovery, down>>
  /\ UNCHANGED <<settings, publication, block>>

\* The host's events come in order, at offsets inside the block.
HostEvent(e) ==
  /\ phase = "host" /\ at <= e.offset /\ e.offset < size
  /\ at' = e.offset
  /\ Enqueue(e)
  /\ down' = Keys(e)
  /\ UNCHANGED <<voice, settings, publication, phase, size, cursor, playing>>

\* render() reads the published sample first: a new one stops every voice.
ReadSample ==
  /\ phase = "host"
  /\ phase' = "read"
  /\ voice' = IF "sample" \in fresh THEN StopAll ELSE voice
  /\ fresh' = fresh \ {"sample"}
  /\ at' = 0
  /\ UNCHANGED <<queue, recovery, settings, program, size, cursor, playing, down>>

\* A block larger than prepared is left silent, and its events stay queued.
Oversized ==
  /\ phase = "read" /\ size > Prepared
  /\ phase' = "idle" /\ size' = 0
  /\ UNCHANGED <<voice, queue, recovery, settings, publication, at, cursor, playing, down>>

\* Mutant: a program that takes the place of another does not stop the voices.
ReadProgram_SameKind ==
  /\ phase = "read" /\ size <= Prepared
  /\ phase' = "render" /\ queue' = Sorted(queue)
  /\ playing' = program
  /\ voice' = IF recovery \/ \E v \in Active(voice) : voice[v].zone # program THEN StopAll ELSE voice
  /\ fresh' = fresh \ {"program"} /\ recovery' = FALSE
  /\ UNCHANGED <<settings, program, size, at, cursor, down>>

\* Then the program: a new one, or a recovery, stops every voice, and the queue is sorted.
ReadProgram ==
  /\ phase = "read" /\ size <= Prepared
  /\ phase' = "render" /\ queue' = Sorted(queue)
  /\ playing' = program
  /\ voice' = IF "program" \in fresh \/ recovery THEN StopAll ELSE voice
  /\ fresh' = fresh \ {"program"} /\ recovery' = FALSE
  /\ UNCHANGED <<settings, program, size, at, cursor, down>>

\* flushPendingEventsAtOffset(): the next event of this offset.
Due == phase = "render" /\ at < size /\ cursor < Len(queue) /\ queue[cursor + 1].offset = at

Dispatch ==
  /\ Due
  /\ cursor' = cursor + 1
  /\ LET e == queue[cursor + 1]
     IN \/ /\ e.type = "allNotesOff"
           /\ voice' = StopAll
        \/ /\ e.type = "noteOn"
           /\ \E zones \in IF playing THEN AttackZones[e.note] ELSE {<<SampleZone>>} :
                voice' = Ranked(NoteOn(voice, e.note, zones))
        \/ /\ e.type = "noteOff"
           /\ \E zones \in IF playing THEN ReleaseZones[e.note] ELSE {<<>>} :
                voice' = Ranked(NoteOff(voice, e.note, zones))
        \/ /\ e.type = "control"
           /\ UNCHANGED voice
  /\ UNCHANGED <<queue, recovery, settings, publication, phase, size, at, playing, down>>

\* What a segment does to a voice: it sounds on, reaches the end of its sample (unless a single
\* sample loops for a held key) and then releases, or is over.
Sounded(x) ==
  {[x EXCEPT !.level = l] : l \in Levels} \cup {Silent}
  \cup (IF ~x.held \/ (~x.zone /\ settings.mode = "loop") THEN {}
        ELSE {[x EXCEPT !.level = l, !.held = FALSE, !.env = "release"] : l \in Levels})

\* renderActiveVoices(), up to the next event or the end of the block.
RenderSegment ==
  /\ phase = "render" /\ at < size /\ ~Due
  /\ at' = NextOffset
  /\ \E after \in [Voices -> UNION {Sounded(voice[v]) : v \in Voices}] :
       /\ \A v \in Voices : after[v] \in IF v \in Active(voice) THEN Sounded(voice[v]) ELSE {Silent}
       /\ voice' = Ranked(after)
  /\ UNCHANGED <<queue, recovery, settings, publication, phase, size, cursor, playing, down>>

EndBlock ==
  /\ phase = "render" /\ at = size
  /\ phase' = "idle" /\ queue' = <<>>
  /\ size' = 0 /\ at' = 0 /\ cursor' = 0 /\ playing' = FALSE
  /\ UNCHANGED <<voice, recovery, settings, publication, down>>

\* A structural writer publishes a sample or a program (RtSnapshotCell).
Publish(what) ==
  /\ fresh' = fresh \cup {what}
  /\ IF what = "program" THEN program' \in Programs ELSE UNCHANGED program
  /\ voice' = [v \in Voices |-> IF v \in Active(voice) THEN [voice[v] EXCEPT !.since = @ \cup {what}]
                               ELSE voice[v]]
  /\ UNCHANGED <<queue, recovery, settings, phase, block, down>>

Next ==
  \/ \E n \in BlockSizes, controls \in Settings : BeginBlock(n, controls)
  \/ \E type \in {"noteOn", "noteOff"}, n \in Notes :
       UiNote([type |-> type, note |-> n, offset |-> 0])
  \/ \E panic \in BOOLEAN : ReadLatch(panic)
  \/ \E offset \in 0 .. size - 1 :
       \/ \E type \in {"noteOn", "noteOff"}, n \in Notes :
            HostEvent([type |-> type, note |-> n, offset |-> offset])
       \/ \E type \in {"allNotesOff", "control"} :
            HostEvent([type |-> type, note |-> None, offset |-> offset])
  \/ ReadSample \/ Oversized \/ ReadProgram \/ Dispatch \/ RenderSegment \/ EndBlock
  \/ \E what \in Snapshots : Publish(what)

Spec == Init /\ [][Next]_vars

-----------------------------------------------------------------------------
(* Properties *)

\* No stuck notes: between blocks, a voice that waits for its note-off belongs to a key that is
\* still down, however many events were dropped, displaced or recovered from.
NoStuckNotes ==
  phase = "idle" => \A v \in Active(voice) : voice[v].held /\ voice[v].gate => voice[v].note \in down

\* "note-off/all-notes-off cannot be silently displaced": what is queued to end a note stays
\* queued until it is dispatched or a panic makes it superfluous.
ReleasesAreKept ==
  [][phase = phase' /\ phase /= "render" => IsPrefix(Releases(queue), Releases(queue'))]_vars

\* Voices of one choke group belong to one note: a note silences the others of its groups, the
\* groups of all its layers included.
ChokeGroupsExclusive ==
  \A v, w \in Active(voice) :
    voice[v].choke > 0 /\ voice[v].choke = voice[w].choke => voice[v].note = voice[w].note

\* In a block no voice is left over from before a publication: each plays a zone of the program
\* or the sample that the block plays, and nothing that the block has read was published after
\* the voice was given its sound, a sample for a sample and a program for a program included.
VoicesFollowProgram ==
  phase = "render" => \A v \in Active(voice) : voice[v].zone = playing /\ voice[v].since \subseteq fresh

FirstZoneSounds(n) == \A zones \in AttackZones[n] : zones # <<>> /\ zones[1].audio

\* A voice that is releasing and that mono legato takes over for the next note.
TakenOver(v) == settings.mono /\ settings.legato /\ voice[v].env = "release"

\* A note-on is heard: whatever it chokes, steals or retargets, it leaves a voice of its note that
\* is held and whose envelope is on, provided that its first zone has a sample.  One case is left
\* out: retargetVoiceLegato() does not start the envelope again, so that a voice that was releasing
\* is held for the new key and dies all the same.
NoteOnSounds ==
  [][phase = "render" /\ cursor' = cursor + 1 /\ queue[cursor + 1].type = "noteOn"
     /\ (playing => FirstZoneSounds(queue[cursor + 1].note)) =>
       \E v \in Voices : /\ voice'[v].note = queue[cursor + 1].note /\ voice'[v].held
                        /\ (voice'[v].env = "on" \/ TakenOver(v))]_vars

-----------------------------------------------------------------------------
(* Why it works: inductive invariants.                                     *)

\* Only the rendering moves through the queue, and only the host's events and it through the block.
Positioned ==
  /\ phase # "render" => cursor = 0
  /\ phase \in {"idle", "ui", "read"} => at = 0

\* In a block the voices play what the block plays; between its end and the next reading of the
\* program they play what is published, unless that is known to be new.  What was published
\* since a voice was given its sound has not been read.
ProgramFollowed ==
  /\ VoicesFollowProgram
  /\ \A v \in Active(voice) : voice[v].since \subseteq fresh
  /\ phase = "render" /\ "program" \notin fresh => playing = program
  /\ phase # "render" /\ "program" \notin fresh => \A v \in Active(voice) : voice[v].zone = program

Ends(n, e) == e.type = "allNotesOff" \/ (e.type = "noteOff" /\ e.note = n)

\* The note is given back: its key is down, or an event queued behind the place ends it.
Owed(n, place) == n \in down \/ \E i \in place + 1 .. Len(queue) : Ends(n, queue[i])

\* A host that keeps to the length it prepared the engine for: a larger block is without events.
EventsFit == size > Prepared => queue = <<>>

\* The queue is in the order of the offsets, inside the block, and its part behind the cursor
\* ahead of the rendering; a full queue that asks for a recovery holds releases only.
QueueInOrder ==
  /\ \A i, j \in 1 .. Len(queue) : i < j => queue[i].offset <= queue[j].offset
  /\ \A i \in 1 .. Len(queue) : queue[i].offset < size
  /\ phase = "idle" => queue = <<>>
  /\ phase \in {"ui", "host"} => \A i \in 1 .. Len(queue) : queue[i].offset <= at
  /\ phase = "render" => \A i \in cursor + 1 .. Len(queue) : at <= queue[i].offset
  /\ phase # "idle" => size # 0
  /\ phase \in {"idle", "render"} => ~recovery
  /\ recovery => Plain(queue) = {} /\ Len(queue) >= Capacity

\* Whatever waits for a note-off will be given one, or a recovery.
NotesOwed ==
  /\ \A v \in Active(voice) :
       voice[v].held /\ voice[v].gate => recovery \/ Owed(voice[v].note, cursor)
  /\ \A i \in cursor + 1 .. Len(queue) :
       queue[i].type = "noteOn" => Owed(queue[i].note, i)

=============================================================================
