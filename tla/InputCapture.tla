---------------------------- MODULE InputCapture ----------------------------
(* Recording of the input: the message thread starts, stops, edits, previews, *)
(* loads and clears a take while processBlock writes it.  The message thread  *)
(* takes the recording flag down and waits until no capture is in progress    *)
(* before it touches the storage.  A sample stands for the frames of a block  *)
(* of the smallest size; its value says which take and which moment it is of. *)
EXTENDS Integers, Sequences, SequencesExt

CONSTANTS
  MaxSamples,      \* kCaptureMaxSamplesPerChannel
  BlockSizes,      \* the lengths of a block
  MaxTakes,        \* bound: how often recording is started
  Delays,          \* whether stores of the flag are delayed: {FALSE}, {TRUE} or both
  Junk             \* what memory holds that was not written

Frame == [take : Nat, at : Nat, scaled : BOOLEAN]

ASSUME CaptureAssumption ==
  /\ MaxSamples \in Nat \ {0} /\ MaxTakes \in Nat
  /\ BlockSizes \subseteq Nat \ {0} /\ BlockSizes # {} /\ Delays \subseteq BOOLEAN
  /\ Junk \notin Frame

VARIABLES
  recording,  \* captureRecording_
  delayed,    \* whether others may see a store of the flag after the loads that follow it
  buffered,   \* a false the message thread has stored and the audio thread does not see yet
  readers,    \* captureAudioReaders_
  storage,    \* whether captureInputLeft_ and captureInputRight_ are allocated
  content,    \* what they hold
  samples,    \* captureInputSamples_
  overflow,   \* captureOverflow_
  call,       \* the call the message thread is in, and how far it has come
  audio,      \* the block of the audio thread
  page,       \* what the capture page shows: samples, flag, selection
  loaded,     \* the samples last loaded as the sound
  take        \* history: the takes started, and the frames captured of the last one

flags == <<recording, delayed, buffered>>
store == <<storage, content, samples, overflow>>
vars == <<flags, readers, store, call, audio, page, loaded, take>>

Blank == [i \in 1 .. MaxSamples |-> Junk]
Held == IF storage THEN SubSeq(content, 1, samples) ELSE <<>>
Limited(low, high, n) == IF n < low THEN low ELSE IF n > high THEN high ELSE n

\* isInputCaptureRecording(), as the message thread sees its own store.
MessageSees == IF buffered THEN FALSE ELSE recording

Init ==
  /\ recording = FALSE /\ delayed \in Delays /\ buffered = FALSE /\ readers = 0
  /\ storage = FALSE /\ content = Blank /\ samples = 0 /\ overflow = FALSE
  /\ call = [what |-> "none", at |-> "idle"]
  /\ audio = [at |-> "idle", size |-> 0, armed |-> FALSE, input |-> FALSE, done |-> FALSE]
  /\ page = [shown |-> <<>>, recording |-> FALSE, from |-> 0, to |-> 0]
  /\ loaded = <<>>
  /\ take = [number |-> 0, frames |-> 0]

-----------------------------------------------------------------------------
(* The capture page *)

\* refreshCaptureWaveform(true), updateCaptureUiState(): the selection is kept within the take.
Refreshed(p, samplesNow, flag) ==
  LET from == Limited(0, Len(samplesNow), p.from)
  IN  [shown |-> samplesNow, recording |-> flag, from |-> from, to |-> Limited(from, Len(samplesNow), p.to)]

\* timerCallback(): refreshCaptureWaveform(false) looks at the length and the flag only.
Tick ==
  /\ call.at = "idle"
  /\ MessageSees \/ Len(page.shown) # samples \/ page.recording # MessageSees
  /\ page' = Refreshed(page, Held, MessageSees)
  /\ UNCHANGED <<flags, readers, store, call, audio, loaded, take>>

Select(from, to) ==
  /\ call.at = "idle" /\ from <= to /\ to <= Len(page.shown)
  /\ <<from, to>> # <<page.from, page.to>>
  /\ page' = [page EXCEPT !.from = from, !.to = to]
  /\ UNCHANGED <<flags, readers, store, call, audio, loaded, take>>

Selected == page.to > page.from

\* The calls the enabled buttons make, and the one of setStateInformation().
Offered(what) ==
  CASE what = "start" -> ~MessageSees /\ take.number < MaxTakes
    [] what \in {"cut", "trim"} -> Selected /\ ~page.recording
    [] what = "load" -> (Selected \/ page.shown # <<>>) /\ ~page.recording
    [] what = "clear" -> page.shown # <<>> /\ ~page.recording
    [] what \in {"normalize", "preview", "restore"} -> TRUE

-----------------------------------------------------------------------------
(* The message thread *)

\* captureRecording_.store(false).
StoreFalse ==
  /\ IF delayed THEN buffered' = TRUE /\ UNCHANGED recording ELSE recording' = FALSE /\ UNCHANGED buffered
  /\ UNCHANGED delayed

\* The store reaches the other threads.
Drain ==
  /\ buffered
  /\ buffered' = FALSE /\ recording' = FALSE
  /\ UNCHANGED <<delayed, readers, store, call, audio, page, loaded, take>>

\* stopInputCapture() of the record button, or of the page that is left.
Stop ==
  /\ call.at = "idle" /\ MessageSees
  /\ StoreFalse
  /\ \E shown \in BOOLEAN : page' = IF shown THEN Refreshed(page, Held, FALSE) ELSE page
  /\ UNCHANGED <<readers, store, call, audio, loaded, take>>

\* Every other call takes the flag down first.
Call(what) ==
  /\ call.at = "idle" /\ ~buffered /\ Offered(what)
  /\ StoreFalse
  /\ call' = [what |-> what, at |-> "wait"]
  /\ UNCHANGED <<readers, store, audio, page, loaded, take>>

\* Mutant: the storage is touched without waiting.
WaitForReaders_Not ==
  /\ call.at = "wait"
  /\ call' = [call EXCEPT !.at = "act"]
  /\ UNCHANGED <<flags, readers, store, audio, page, loaded, take>>

\* waitForCaptureAudioReaders()
WaitForReaders ==
  /\ call.at = "wait" /\ readers = 0
  /\ call' = [call EXCEPT !.at = "act"]
  /\ UNCHANGED <<flags, readers, store, audio, page, loaded, take>>

Acts(what) == call = [what |-> what, at |-> "act"] /\ call' = [what |-> "none", at |-> "idle"]

\* releaseCaptureWorkingStorage()
Release == storage' = FALSE /\ content' = Blank

\* startInputCapture(): the storage is allocated if there is none, which may fail.
Start ==
  /\ Acts("start") /\ ~buffered
  /\ \/ /\ ~storage
        /\ Release
        /\ overflow' = TRUE
        /\ page' = Refreshed(page, <<>>, FALSE)
        /\ UNCHANGED <<samples, recording, take>>
     \/ /\ storage' = TRUE /\ samples' = 0 /\ overflow' = FALSE /\ recording' = TRUE
        /\ take' = [number |-> take.number + 1, frames |-> 0]
        /\ page' = Refreshed(page, <<>>, TRUE)
        /\ UNCHANGED content
  /\ UNCHANGED <<delayed, buffered, readers, audio, loaded>>

\* clearInputCapture(): of its button, which shows it, and of setStateInformation(), which does not.
Clear ==
  /\ Acts("clear") \/ Acts("restore")
  /\ samples' = 0 /\ overflow' = FALSE
  /\ Release
  /\ page' = IF call.what = "clear" THEN Refreshed([page EXCEPT !.from = 0, !.to = 0], <<>>, MessageSees) ELSE page
  /\ UNCHANGED <<flags, readers, audio, loaded, take>>

\* The storage with the samples kept moved to its front: the rest stays where it is.
Moved(kept) == kept \o SubSeq(content, Len(kept) + 1, MaxSamples)

Edit(what, kept, from, to) ==
  /\ Acts(what)
  /\ IF storage /\ Limited(0, samples, page.from) < Limited(0, samples, page.to)
     THEN /\ content' = Moved(kept) /\ samples' = Len(kept)
          /\ page' = Refreshed([page EXCEPT !.from = from, !.to = to], kept, MessageSees)
     ELSE UNCHANGED <<content, samples, page>>
  /\ UNCHANGED <<flags, readers, storage, overflow, audio, loaded, take>>

\* cutCapturedAudioRange()
Cut ==
  LET end == Limited(0, samples, page.to)
  IN  Edit("cut", SubSeq(content, 1, page.from) \o SubSeq(content, end + 1, samples), page.from, page.from)

\* trimCapturedAudioRange()
Trim ==
  LET kept == SubSeq(content, page.from + 1, Limited(0, samples, page.to)) IN Edit("trim", kept, 0, Len(kept))

\* normalizeCapturedAudio(): nothing to do for a silent take.
Normalize ==
  /\ Acts("normalize")
  /\ \/ /\ storage /\ samples > 0
        /\ content' = [i \in 1 .. MaxSamples |-> IF i <= samples THEN [content[i] EXCEPT !.scaled = TRUE] ELSE content[i]]
        /\ page' = Refreshed(page, SubSeq(content', 1, samples), MessageSees)
     \/ UNCHANGED <<content, page>>
  /\ UNCHANGED <<flags, readers, storage, samples, overflow, audio, loaded, take>>

\* Mutant: the end is taken as the length of the selection.
Selection_Length(total) ==
  LET from == Limited(0, total - 1, IF Selected THEN page.from ELSE 0)
      to == IF Selected THEN page.to - page.from ELSE total
  IN  <<from, Limited(from + 1, total, IF to <= from THEN total ELSE to)>>

\* The samples loadCapturedAudioAsSample() takes of a take of that length.
Selection(total) ==
  LET from == Limited(0, total - 1, IF Selected THEN page.from ELSE 0)
      to == IF Selected THEN page.to ELSE total
  IN  <<from, Limited(from + 1, total, IF to <= from THEN total ELSE to)>>

\* loadCapturedAudioAsSample(): the take becomes the sound and is given up.  The page is left,
\* and refreshed when it is opened again.
Load ==
  /\ Acts("load")
  /\ LET chosen == Selection(samples)
     IN  IF storage /\ samples > 1 /\ chosen[2] - chosen[1] > 1
         THEN /\ loaded' = SubSeq(content, chosen[1] + 1, chosen[2])
              /\ samples' = 0
              /\ Release
              /\ page' = Refreshed(page, <<>>, MessageSees)
         ELSE UNCHANGED <<loaded, samples, storage, content, page>>
  /\ UNCHANGED <<flags, readers, overflow, audio, take>>

\* previewCapturedAudio(): a copy of the take is played; the button leaves the page as it is.
Preview ==
  /\ Acts("preview")
  /\ UNCHANGED <<flags, readers, store, audio, page, loaded, take>>

MessageActs == Start \/ Clear \/ Cut \/ Trim \/ Normalize \/ Load \/ Preview

-----------------------------------------------------------------------------
(* The audio thread *)

Go(at) == audio' = [audio EXCEPT !.at = at]

\* processBlock() reads the flag once.
BeginBlock(n, input) ==
  /\ audio.at = "idle"
  /\ recording
  /\ audio' = [at |-> IF input THEN "enter" ELSE "output", size |-> n, armed |-> TRUE, input |-> input, done |-> FALSE]
  /\ UNCHANGED <<flags, readers, store, call, page, loaded, take>>

\* captureInputAudio(): announced before the flag is read again.
Enter ==
  /\ audio.at = "enter"
  /\ readers' = readers + 1
  /\ Go("look")
  /\ UNCHANGED <<flags, store, call, page, loaded, take>>

Look ==
  /\ audio.at = "look"
  /\ Go(IF recording THEN "write" ELSE "leave")
  /\ UNCHANGED <<flags, readers, store, call, page, loaded, take>>

GivesUp == recording' = FALSE /\ overflow' = TRUE /\ Go("leave")

\* Without storage, or with a full one, the recording ends.
NoRoom ==
  /\ audio.at = "write" /\ (~storage \/ samples >= MaxSamples)
  /\ GivesUp
  /\ UNCHANGED <<delayed, buffered, readers, storage, content, samples, call, page, loaded, take>>

Frames(n) == [i \in 1 .. n |-> [take |-> take.number, at |-> take.frames + i, scaled |-> FALSE]]

Write ==
  /\ audio.at = "write" /\ storage /\ samples < MaxSamples
  /\ LET n == Limited(1, MaxSamples - samples, audio.size)
     IN  /\ content' = [i \in 1 .. MaxSamples |-> IF i \in samples + 1 .. samples + n THEN Frames(n)[i - samples] ELSE content[i]]
         /\ take' = [take EXCEPT !.frames = take.frames + n]
         /\ audio' = [audio EXCEPT !.at = "count", !.size = samples + n]
  /\ UNCHANGED <<flags, readers, storage, samples, overflow, call, page, loaded>>

Count ==
  /\ audio.at = "count"
  /\ samples' = audio.size
  /\ audio' = [audio EXCEPT !.at = "leave", !.done = TRUE]
  /\ IF samples' = MaxSamples THEN recording' = FALSE /\ overflow' = TRUE ELSE UNCHANGED <<recording, overflow>>
  /\ UNCHANGED <<delayed, buffered, readers, storage, content, call, page, loaded, take>>

\* Mutant: a block that captured does not give the count back.
Leave_KeepsCount ==
  /\ audio.at = "leave"
  /\ readers' = IF audio.done THEN readers ELSE readers - 1
  /\ IF audio.input /\ ~audio.done
     THEN audio' = [audio EXCEPT !.at = "output", !.input = FALSE]
     ELSE audio' = [audio EXCEPT !.at = "idle", !.size = 0, !.armed = FALSE, !.input = FALSE, !.done = FALSE]
  /\ UNCHANGED <<flags, store, call, page, loaded, take>>

\* What the input did not give is tried again with the output.
Leave ==
  /\ audio.at = "leave"
  /\ readers' = readers - 1
  /\ IF audio.input /\ ~audio.done
     THEN audio' = [audio EXCEPT !.at = "output", !.input = FALSE]
     ELSE audio' = [audio EXCEPT !.at = "idle", !.size = 0, !.armed = FALSE, !.input = FALSE, !.done = FALSE]
  /\ UNCHANGED <<flags, store, call, page, loaded, take>>

RenderOutput ==
  /\ audio.at = "output"
  /\ Go("enter")
  /\ UNCHANGED <<flags, readers, store, call, page, loaded, take>>

AudioStep ==
  \/ \E n \in BlockSizes, input \in BOOLEAN : BeginBlock(n, input)
  \/ Enter \/ Look \/ NoRoom \/ Write \/ Count \/ Leave \/ RenderOutput

-----------------------------------------------------------------------------
Calls == {"start", "clear", "restore", "cut", "trim", "normalize", "load", "preview"}

Next ==
  \/ Tick \/ Stop \/ Drain \/ WaitForReaders \/ MessageActs
  \/ \E from, to \in 0 .. MaxSamples : Select(from, to)
  \/ \E what \in Calls : Call(what)
  \/ AudioStep

\* The host keeps calling processBlock, a call of the message thread goes on, and a store
\* becomes visible.
Spec == Init /\ [][Next]_vars /\ WF_vars(AudioStep) /\ WF_vars(WaitForReaders) /\ WF_vars(Drain)

-----------------------------------------------------------------------------
(* Properties *)

TypeOK ==
  /\ readers \in 0 .. 1 /\ samples \in 0 .. MaxSamples
  /\ page.from \in 0 .. page.to /\ page.to \in 0 .. Len(page.shown)

\* What is counted is recorded: the storage holds the frames of the last take and of no other,
\* in the order they came in, whatever was cut, cleared or restarted while blocks were captured;
\* as long as the stores of the flag are seen in order.
TakeIsWhole ==
  ~delayed /\ call.at = "idle" /\ samples > 0 =>
    /\ storage
    /\ \A i \in 1 .. samples : content[i] # Junk /\ content[i].take = take.number
    /\ \A i, j \in 1 .. samples : i < j => content[i].at < content[j].at

\* The sound loaded is the part of the take the page showed as selected, or all of it.
LoadIsSelection ==
  [][loaded' # loaded =>
       IF Selected THEN loaded' = SubSeq(page.shown, page.from + 1, page.to)
                   ELSE IsPrefix(page.shown, loaded')]_vars

\* The message thread does not wait for the audio thread for ever.
WaitEnds == call.at = "wait" ~> call.at # "wait"

\* Buffers are published to the audio thread and released after clear or commit only: while a
\* block is captured, they are there and nobody else works on them.
WriterHasStorage ==
  audio.at \in {"write", "count"} => storage /\ call.at # "act"

-----------------------------------------------------------------------------
(* The inductive invariant while stores of the flag are seen in order.     *)

Places == {"idle", "enter", "look", "write", "count", "leave", "output"}
Blocks == [at : Places, size : Nat, armed : BOOLEAN, input : BOOLEAN, done : BOOLEAN]
Cell == Frame \cup {Junk}
Pages == [shown : Seq(Cell), recording : BOOLEAN, from : Nat, to : Nat]

CellsOK ==
  /\ content \in [1 .. MaxSamples -> Cell] /\ samples \in 0 .. MaxSamples
  /\ take \in [number : Nat, frames : Nat]
  /\ page \in Pages
  /\ audio \in Blocks /\ call \in [what : Calls \cup {"none"}, at : {"idle", "wait", "act"}]
  /\ recording \in BOOLEAN /\ storage \in BOOLEAN

\* A block is counted from before its look at the flag until it is done.
Announced == readers = IF audio.at \in {"look", "write", "count", "leave"} THEN 1 ELSE 0

\* A call that went past the wait found no block counted, and no block sees the flag raised.
Exclusion ==
  /\ ~buffered
  /\ call.at # "idle" => ~recording
  /\ call.at = "act" => audio.at \notin {"write", "count"}
  /\ recording \/ samples > 0 \/ audio.at \in {"write", "count"} => storage

\* The first n frames are of the last take, in the order they came.
Whole(n) ==
  /\ \A i \in 1 .. n : content[i] \in Frame /\ content[i].take = take.number /\ content[i].at <= take.frames
  /\ \A i, j \in 1 .. n : i < j => content[i].at < content[j].at

\* So are those written and not counted yet.
WrittenIsWhole ==
  /\ Whole(samples)
  /\ audio.at = "count" => audio.size \in samples .. MaxSamples /\ Whole(audio.size)

OrderedInv == CellsOK /\ Announced /\ Exclusion /\ WrittenIsWhole

IInv == delayed \/ OrderedInv

-----------------------------------------------------------------------------
(* The inductive invariant of the page, whatever the order of the stores.  *)

IsList(s) == Len(s) \in Nat /\ s = [i \in 1 .. Len(s) |-> s[i]]

\* What is counted only grows while a block is captured, and only the message thread shortens it.
StoreOK ==
  /\ content = [i \in 1 .. MaxSamples |-> content[i]] /\ samples \in 0 .. MaxSamples
  /\ audio \in Blocks
  /\ audio.at = "count" => audio.size \in samples .. MaxSamples
  /\ call \in [what : Calls \cup {"none"}, at : {"idle", "wait", "act"}]

\* A page that does not show a recording shows the beginning of the take, as long as there is one.
PageOK ==
  /\ page = [shown |-> page.shown, recording |-> page.recording, from |-> page.from, to |-> page.to]
  /\ IsList(page.shown) /\ page.to \in 0 .. Len(page.shown) /\ page.from \in 0 .. page.to
  /\ storage /\ ~page.recording =>
       /\ Len(page.shown) <= samples
       /\ \A i \in 1 .. Len(page.shown) : page.shown[i] = content[i]

\* A load in progress was offered by such a page.
LoadOffered == call.what = "load" => call.at # "idle" /\ ~page.recording

PageInv == StoreOK /\ PageOK /\ LoadOffered

=============================================================================
