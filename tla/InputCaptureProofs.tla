------------------------- MODULE InputCaptureProofs -------------------------
(***************************************************************************)
(* When stores of the recording flag are seen in order, the handshake of   *)
(* flag and reader count excludes the two threads from the storage, and a  *)
(* take is whole; in whatever order they are seen, the sound loaded is the *)
(* part of the take the page showed: for every capacity and block size.    *)
(***************************************************************************)
EXTENDS InputCapture, SequenceTheorems, TLAPS

\* jlimit() stays between its limits, and leaves alone what is there.
LEMMA LimitedBetween ==
  ASSUME NEW low \in Int, NEW high \in Int, NEW n \in Int, low <= high
  PROVE  Limited(low, high, n) \in low .. high /\ (n \in low .. high => Limited(low, high, n) = n)
BY DEF Limited

\* A part of the storage is a sequence of cells.
LEMMA PartOfStorage ==
  ASSUME NEW s \in [1 .. MaxSamples -> Cell], NEW m \in Nat \ {0}, NEW n \in 0 .. MaxSamples
  PROVE  /\ SubSeq(s, m, n) \in Seq(Cell)
         /\ Len(SubSeq(s, m, n)) = IF m <= n THEN n - m + 1 ELSE 0
         /\ \A i \in 1 .. n - m + 1 : SubSeq(s, m, n)[i] = s[m + i - 1]
<1>1. MaxSamples \in Nat
  BY CaptureAssumption
<1>2. m \in Int /\ n \in Int /\ \A i \in m .. n : s[i] \in Cell
  BY <1>1
<1> QED
  BY <1>2, SubSeqProperties

\* What is moved to the front is there, and the storage keeps its size.
LEMMA MovedKeeps ==
  ASSUME content \in [1 .. MaxSamples -> Cell], NEW kept \in Seq(Cell), Len(kept) <= MaxSamples
  PROVE  /\ Moved(kept) \in [1 .. MaxSamples -> Cell]
         /\ \A i \in 1 .. Len(kept) : Moved(kept)[i] = kept[i]
<1> DEFINE k == Len(kept)
           rest == SubSeq(content, k + 1, MaxSamples)
<1>1. k \in Nat /\ MaxSamples \in Nat
  BY CaptureAssumption, LenProperties
<1>2. rest \in Seq(Cell) /\ Len(rest) = MaxSamples - k
  <2>1. k + 1 \in Nat \ {0} /\ MaxSamples \in 0 .. MaxSamples
    BY <1>1
  <2>2. rest \in Seq(Cell) /\ Len(rest) = IF k + 1 <= MaxSamples THEN MaxSamples - (k + 1) + 1 ELSE 0
    BY <2>1, PartOfStorage
  <2> QED
    BY <1>1, <2>2
<1> HIDE DEF rest
<1>3. /\ kept \o rest \in Seq(Cell) /\ Len(kept \o rest) = Len(kept) + Len(rest)
      /\ \A i \in 1 .. Len(kept) + Len(rest) : (kept \o rest)[i] = IF i <= Len(kept) THEN kept[i] ELSE rest[i - Len(kept)]
  BY <1>2, ConcatProperties
<1>4. Len(kept \o rest) = MaxSamples
  BY <1>1, <1>2, <1>3
<1>5. kept \o rest \in [1 .. MaxSamples -> Cell]
  BY <1>3, <1>4, LenProperties
<1>6. \A i \in 1 .. k : (kept \o rest)[i] = kept[i]
  BY <1>1, <1>2, <1>3
<1> QED
  BY <1>5, <1>6 DEF Moved, rest

\* What the page shows is refreshed from a sequence, and its selection stays a pair of numbers.
LEMMA RefreshedPage ==
  ASSUME NEW p, p.from \in Nat, p.to \in Nat, NEW s \in Seq(Cell), NEW flag \in BOOLEAN
  PROVE  Refreshed(p, s, flag) \in Pages
<1> DEFINE from == Limited(0, Len(s), p.from)
<1>1. Len(s) \in Nat
  BY LenProperties
<1>2. from \in 0 .. Len(s)
  BY <1>1 DEF Limited
<1>3. Limited(from, Len(s), p.to) \in from .. Len(s)
  BY <1>1, <1>2 DEF Limited
<1> QED
  BY <1>1, <1>2, <1>3 DEF Refreshed, Pages

\* What is held is a sequence of cells.
LEMMA HeldIsSequence ==
  ASSUME CellsOK
  PROVE  Held \in Seq(Cell)
<1>1. MaxSamples \in Nat /\ content \in [1 .. MaxSamples -> Cell] /\ samples \in 0 .. MaxSamples
  BY CaptureAssumption DEF CellsOK
<1>2. SubSeq(content, 1, samples) \in Seq(Cell)
  BY <1>1, PartOfStorage
<1> QED
  BY <1>2, EmptySeq DEF Held

\* Nothing of the take has changed.
LEMMA WholeStays ==
  ASSUME WrittenIsWhole, UNCHANGED <<content, samples, take>>
  PROVE  /\ Whole(samples)'
         /\ audio.at = "count" /\ audio' = audio => WrittenIsWhole'
BY DEF WrittenIsWhole, Whole

\* A call that has the storage to itself may do with it what leaves a whole take.
LEMMA ActKeeps ==
  ASSUME OrderedInv, call.at = "act", call' = [what |-> "none", at |-> "idle"],
         UNCHANGED <<recording, buffered, readers, audio, take>>,
         content' \in [1 .. MaxSamples -> Cell], samples' \in 0 .. MaxSamples, storage' \in BOOLEAN,
         samples' > 0 => storage', page' \in Pages, Whole(samples)'
  PROVE  OrderedInv'
<1> USE DEF OrderedInv
<1>1. ~recording /\ ~buffered /\ audio.at \notin {"write", "count"}
  BY DEF Exclusion
<1>2. CellsOK'
  <2>1. call' \in [what : Calls \cup {"none"}, at : {"idle", "wait", "act"}]
    OBVIOUS
  <2> QED
    BY <2>1 DEF CellsOK
<1>3. Announced' /\ Exclusion' /\ WrittenIsWhole'
  BY <1>1 DEF Announced, Exclusion, WrittenIsWhole
<1> QED
  BY <1>2, <1>3

\* There is no take yet, and no block.
LEMMA InitInv == Init => IInv
<1> SUFFICES ASSUME Init PROVE OrderedInv
  BY DEF IInv
<1>1. MaxSamples \in Nat
  BY CaptureAssumption
<1>2. CellsOK
  <2>1. page \in Pages
    BY EmptySeq DEF Init, Pages
  <2>2. audio \in Blocks /\ call \in [what : Calls \cup {"none"}, at : {"idle", "wait", "act"}]
    BY DEF Init, Blocks, Places
  <2>3. content \in [1 .. MaxSamples -> Cell] /\ samples \in 0 .. MaxSamples /\ take \in [number : Nat, frames : Nat]
    BY <1>1 DEF Init, Blank, Cell
  <2> QED
    BY <2>1, <2>2, <2>3 DEF Init, CellsOK
<1>3. Announced /\ Exclusion /\ WrittenIsWhole
  BY DEF Init, Announced, Exclusion, WrittenIsWhole, Whole
<1> QED
  BY <1>2, <1>3 DEF OrderedInv

\* The page and the flag: what the message thread does beside the storage.
LEMMA BesideSteps ==
  ASSUME OrderedInv, ~delayed,
         \/ Tick \/ Stop \/ Drain \/ WaitForReaders
         \/ \E from, to \in 0 .. MaxSamples : Select(from, to)
         \/ \E what \in Calls : Call(what)
  PROVE  OrderedInv'
<1> USE DEF OrderedInv
<1>1. /\ UNCHANGED <<storage, content, samples, audio, take, readers>>
      /\ ~buffered /\ ~buffered'
  BY DEF Exclusion, Tick, Stop, Drain, WaitForReaders, Select, Call, store, flags, StoreFalse
<1>2. page' \in Pages
  <2>1. page \in Pages /\ MessageSees \in BOOLEAN /\ Held \in Seq(Cell)
    BY HeldIsSequence DEF CellsOK, MessageSees
  <2>2. CASE Tick \/ Stop
    <3>1. page.from \in Nat /\ page.to \in Nat
      BY <2>1 DEF Pages
    <3>2. page' = page \/ \E flag \in BOOLEAN : page' = Refreshed(page, Held, flag)
      BY <2>1, <2>2 DEF Tick, Stop
    <3> QED
      BY <2>1, <3>1, <3>2, RefreshedPage
  <2>3. CASE \E from, to \in 0 .. MaxSamples : Select(from, to)
    <3>1. PICK from \in 0 .. MaxSamples, to \in 0 .. MaxSamples : page' = [page EXCEPT !.from = from, !.to = to]
      BY <2>3 DEF Select
    <3>2. from \in Nat /\ to \in Nat
      BY CaptureAssumption
    <3> QED
      BY <2>1, <3>1, <3>2 DEF Pages
  <2>4. CASE Drain \/ WaitForReaders \/ \E what \in Calls : Call(what)
    BY <2>1, <2>4 DEF Drain, WaitForReaders, Call
  <2> QED
    BY <2>2, <2>3, <2>4
<1>3. \/ UNCHANGED <<recording, call>>
      \/ recording' = FALSE /\ call' = call
      \/ recording' = FALSE /\ \E what \in Calls : call' = [what |-> what, at |-> "wait"]
      \/ recording' = recording /\ call.at = "wait" /\ readers = 0 /\ call' = [call EXCEPT !.at = "act"]
  BY DEF Tick, Stop, Drain, WaitForReaders, Select, Call, flags, StoreFalse
<1>8. call' \in [what : Calls \cup {"none"}, at : {"idle", "wait", "act"}]
  <2>1. call \in [what : Calls \cup {"none"}, at : {"idle", "wait", "act"}]
    BY DEF CellsOK
  <2> QED
    BY <1>3, <2>1
<1>4. CellsOK'
  BY <1>1, <1>2, <1>3, <1>8 DEF CellsOK
<1>5. Announced'
  BY <1>1 DEF Announced
<1>6. Exclusion'
  BY <1>1, <1>3 DEF Exclusion, CellsOK, Announced
<1>7. WrittenIsWhole'
  BY <1>1 DEF WrittenIsWhole, Whole
<1> QED
  BY <1>4, <1>5, <1>6, <1>7

\* The audio thread announces itself before it looks, and writes only what it counts next.
LEMMA AudioSteps ==
  ASSUME OrderedInv, AudioStep
  PROVE  OrderedInv'
<1> USE DEF OrderedInv
<1>1. UNCHANGED <<call, page, buffered, storage>> /\ MaxSamples \in Nat \ {0} /\ BlockSizes \subseteq Nat
  BY CaptureAssumption DEF AudioStep, BeginBlock, Enter, Look, NoRoom, Write, Count, Leave, RenderOutput, flags, store
<1>a. CASE \/ \E n \in BlockSizes, input \in BOOLEAN : BeginBlock(n, input)
           \/ Enter \/ Look \/ Leave \/ RenderOutput
  <2>1. UNCHANGED <<recording, content, samples, take>>
    BY <1>a DEF BeginBlock, Enter, Look, Leave, RenderOutput, flags, store
  <2>2. /\ audio \in Blocks /\ audio.at \in Places
        /\ {"idle", "enter", "look", "write", "leave", "output"} \subseteq Places
    BY DEF CellsOK, Blocks, Places
  <2>3. /\ audio' \in Blocks
        /\ \/ audio.at = "idle" /\ audio'.at \in {"enter", "output"} /\ readers' = readers
           \/ audio.at = "enter" /\ audio'.at = "look" /\ readers' = readers + 1
           \/ audio.at = "look" /\ audio'.at = (IF recording THEN "write" ELSE "leave") /\ readers' = readers
           \/ audio.at = "leave" /\ audio'.at \in {"output", "idle"} /\ readers' = readers - 1
           \/ audio.at = "output" /\ audio'.at = "enter" /\ readers' = readers
    <3>1. CASE \E n \in BlockSizes, input \in BOOLEAN : BeginBlock(n, input)
      BY <1>1, <3>1 DEF BeginBlock, Blocks, Places
    <3>2. CASE Enter \/ Look \/ RenderOutput
      BY <2>2, <3>2 DEF Enter, Look, RenderOutput, Go, Blocks
    <3>3. CASE Leave
      <4>1. \/ audio' = [audio EXCEPT !.at = "output", !.input = FALSE]
            \/ audio' = [audio EXCEPT !.at = "idle", !.size = 0, !.armed = FALSE, !.input = FALSE, !.done = FALSE]
        BY <3>3 DEF Leave
      <4>2. audio' \in Blocks /\ audio'.at \in {"output", "idle"}
        <5>1. CASE audio' = [audio EXCEPT !.at = "output", !.input = FALSE]
          BY <2>2, <5>1 DEF Blocks
        <5>2. CASE audio' = [audio EXCEPT !.at = "idle", !.size = 0, !.armed = FALSE, !.input = FALSE, !.done = FALSE]
          <6>1. audio' = [at |-> "idle", size |-> 0, armed |-> FALSE, input |-> FALSE, done |-> FALSE]
            BY <2>2, <5>2 DEF Blocks
          <6> QED
            BY <6>1 DEF Blocks, Places
        <5> QED
          BY <4>1, <5>1, <5>2
      <4> QED
        BY <3>3, <4>2 DEF Leave
    <3> QED
      BY <1>a, <3>1, <3>2, <3>3
  <2>4. CellsOK'
    BY <1>1, <2>1, <2>3 DEF CellsOK
  <2>6. Announced'
    BY <2>3 DEF Announced
  <2>7. Exclusion'
    BY <1>1, <2>1, <2>3 DEF CellsOK, Exclusion
  <2>8. WrittenIsWhole'
    BY <1>1, <2>1, <2>3 DEF WrittenIsWhole, Whole
  <2> QED
    BY <2>4, <2>6, <2>7, <2>8
<1>b. CASE NoRoom
  <2>1. /\ recording' = FALSE /\ audio.at = "write" /\ audio' = [audio EXCEPT !.at = "leave"]
        /\ UNCHANGED <<content, samples, take, readers>>
    BY <1>b DEF NoRoom, GivesUp, Go
  <2>3. audio' \in Blocks /\ audio'.at = "leave"
    <3>1. audio \in Blocks
      BY DEF CellsOK
    <3> QED
      BY <2>1, <3>1 DEF Blocks, Places
  <2>2. CellsOK'
    BY <1>1, <2>1, <2>3 DEF CellsOK
  <2>4. Announced' /\ Exclusion' /\ WrittenIsWhole'
    BY <1>1, <2>1, <2>3 DEF Announced, Exclusion, WrittenIsWhole, Whole
  <2> QED
    BY <2>2, <2>4
<1>c. CASE Write
  <2> DEFINE n == Limited(1, MaxSamples - samples, audio.size)
  <2>1. /\ audio.at = "write" /\ storage /\ samples < MaxSamples /\ samples \in Nat /\ audio.size \in Nat
        /\ UNCHANGED <<recording, samples, readers>>
    BY <1>c DEF Write, CellsOK, Blocks, flags
  <2>2. n \in 1 .. MaxSamples - samples
    BY <1>1, <2>1 DEF Limited
  <2>3. /\ content' = [i \in 1 .. MaxSamples |-> IF i \in samples + 1 .. samples + n THEN Frames(n)[i - samples] ELSE content[i]]
        /\ take' = [take EXCEPT !.frames = take.frames + n]
        /\ audio' = [audio EXCEPT !.at = "count", !.size = samples + n]
    BY <1>c DEF Write
  <2> HIDE DEF n
  <2>4. \A i \in 1 .. n : Frames(n)[i] = [take |-> take.number, at |-> take.frames + i, scaled |-> FALSE]
    BY DEF Frames
  <2>5. take \in [number : Nat, frames : Nat] /\ content \in [1 .. MaxSamples -> Cell]
    BY DEF CellsOK
  <2>6. take'.number = take.number /\ take'.frames = take.frames + n /\ take' \in [number : Nat, frames : Nat]
    <3>1. take.frames + n \in Nat
      BY <1>1, <2>1, <2>2, <2>5
    <3> QED
      BY <2>3, <2>5, <3>1
  <2>7. /\ \A i \in 1 .. samples : content'[i] = content[i]
        /\ \A i \in samples + 1 .. samples + n :
             content'[i] \in Frame /\ content'[i].take = take.number /\ content'[i].at = take.frames + (i - samples)
    <3>1. \A i \in 1 .. samples : content'[i] = content[i]
      BY <1>1, <2>1, <2>2, <2>3
    <3>2. ASSUME NEW i \in samples + 1 .. samples + n
          PROVE  content'[i] \in Frame /\ content'[i].take = take.number /\ content'[i].at = take.frames + (i - samples)
      <4>1. i \in 1 .. MaxSamples /\ i - samples \in 1 .. n
        BY <1>1, <2>1, <2>2
      <4>2. content'[i] = Frames(n)[i - samples]
        BY <2>3, <4>1
      <4>3. content'[i] = [take |-> take.number, at |-> take.frames + (i - samples), scaled |-> FALSE]
        BY <2>4, <4>1, <4>2
      <4>4. take.number \in Nat /\ take.frames + (i - samples) \in Nat
        BY <2>2, <2>5, <4>1
      <4> QED
        BY <4>3, <4>4 DEF Frame
    <3> QED
      BY <3>1, <3>2
  <2>8. content' \in [1 .. MaxSamples -> Cell]
    <3>1. ASSUME NEW i \in 1 .. MaxSamples PROVE content'[i] \in Cell
      <4>1. CASE i \in samples + 1 .. samples + n
        BY <2>7, <4>1 DEF Cell
      <4>2. CASE i \notin samples + 1 .. samples + n
        BY <2>3, <2>5, <4>2
      <4> QED
        BY <4>1, <4>2
    <3> QED
      BY <2>3, <3>1
  <2>9. audio' \in Blocks /\ audio'.at = "count" /\ audio'.size = samples + n
    <3>1. samples + n \in Nat
      BY <2>1, <2>2
    <3>2. audio \in Blocks
      BY DEF CellsOK
    <3> QED
      BY <2>3, <3>1, <3>2 DEF Blocks, Places
  <2>10. CellsOK'
    BY <1>1, <2>1, <2>6, <2>8, <2>9 DEF CellsOK
  <2>11. Whole(samples)
    BY DEF WrittenIsWhole
  <2>12. /\ \A i \in 1 .. samples + n :
              content'[i] \in Frame /\ content'[i].take = take'.number /\ content'[i].at <= take'.frames
    <3> SUFFICES ASSUME NEW i \in 1 .. samples + n
                 PROVE  content'[i] \in Frame /\ content'[i].take = take'.number /\ content'[i].at <= take'.frames
      OBVIOUS
    <3>1. CASE i <= samples
      <4>1. content'[i] = content[i] /\ content[i] \in Frame /\ content[i].take = take.number /\ content[i].at <= take.frames
        BY <2>1, <2>2, <2>7, <2>11, <3>1 DEF Whole
      <4>2. content[i].at \in Nat
        BY <4>1 DEF Frame
      <4> QED
        BY <2>2, <2>5, <2>6, <4>1, <4>2
    <3>2. CASE ~(i <= samples)
      <4>1. i \in samples + 1 .. samples + n
        BY <2>1, <2>2, <3>2
      <4> QED
        BY <2>1, <2>2, <2>5, <2>6, <2>7, <4>1
    <3> QED
      BY <3>1, <3>2
  <2>13. \A i, j \in 1 .. samples + n : i < j => content'[i].at < content'[j].at
    <3> SUFFICES ASSUME NEW i \in 1 .. samples + n, NEW j \in 1 .. samples + n, i < j
                 PROVE  content'[i].at < content'[j].at
      OBVIOUS
    <3>1. CASE j <= samples
      BY <2>1, <2>2, <2>7, <2>11, <3>1 DEF Whole
    <3>2. CASE i <= samples /\ ~(j <= samples)
      <4>1. content'[i] = content[i] /\ content[i] \in Frame /\ content[i].at <= take.frames
        BY <2>1, <2>2, <2>7, <2>11, <3>2 DEF Whole
      <4>4. j \in samples + 1 .. samples + n
        BY <2>1, <2>2, <3>2
      <4>2. content'[j].at = take.frames + (j - samples)
        BY <2>7, <4>4
      <4>3. content[i].at \in Nat
        BY <4>1 DEF Frame
      <4> QED
        BY <2>1, <2>2, <2>5, <3>2, <4>1, <4>2, <4>3
    <3>3. CASE ~(i <= samples)
      <4>1. i \in samples + 1 .. samples + n /\ j \in samples + 1 .. samples + n
        BY <2>1, <2>2, <3>3
      <4> QED
        BY <2>1, <2>2, <2>5, <2>7, <4>1
    <3> QED
      BY <3>1, <3>2, <3>3
  <2>14. WrittenIsWhole'
    <3>1. \A i \in 1 .. samples : i \in 1 .. samples + n
      BY <2>1, <2>2
    <3>2. Whole(samples)'
      BY <2>1, <2>12, <2>13, <3>1 DEF Whole
    <3>3. Whole(audio.size)' /\ audio'.size \in samples' .. MaxSamples
      BY <1>1, <2>1, <2>2, <2>9, <2>12, <2>13 DEF Whole
    <3> QED
      BY <3>2, <3>3 DEF WrittenIsWhole
  <2>15. Announced' /\ Exclusion'
    BY <1>1, <2>1, <2>9 DEF Announced, Exclusion
  <2> QED
    BY <2>10, <2>14, <2>15
<1>d. CASE Count
  <2>1. /\ audio.at = "count" /\ samples' = audio.size /\ audio' = [audio EXCEPT !.at = "leave", !.done = TRUE]
        /\ UNCHANGED <<content, take, readers>> /\ (recording' = FALSE \/ recording' = recording)
    BY <1>d DEF Count
  <2>2. audio.size \in samples .. MaxSamples /\ Whole(audio.size) /\ storage /\ samples \in Nat
    BY <1>1, <2>1 DEF WrittenIsWhole, Exclusion, CellsOK
  <2>4. audio' \in Blocks /\ audio'.at = "leave"
    <3>1. audio \in Blocks
      BY DEF CellsOK
    <3> QED
      BY <2>1, <3>1 DEF Blocks, Places
  <2>7. samples' \in 0 .. MaxSamples /\ recording' \in BOOLEAN /\ UNCHANGED <<content, take>>
    <3>1. recording' \in BOOLEAN
      BY <2>1 DEF CellsOK
    <3>2. samples' \in 0 .. MaxSamples
      BY <1>1, <2>1, <2>2
    <3> QED
      BY <2>1, <3>1, <3>2
  <2>3. CellsOK'
    BY <1>1, <2>4, <2>7 DEF CellsOK
  <2>5. Announced' /\ Exclusion'
    BY <1>1, <2>1, <2>2, <2>4 DEF Announced, Exclusion
  <2>6. WrittenIsWhole'
    BY <2>1, <2>2, <2>4 DEF WrittenIsWhole, Whole
  <2> QED
    BY <2>3, <2>5, <2>6
<1> QED
  BY <1>a, <1>b, <1>c, <1>d DEF AudioStep

\* Every call leaves a whole take, or none.
LEMMA MessageSteps ==
  ASSUME OrderedInv, MessageActs
  PROVE  OrderedInv'
<1> USE DEF OrderedInv
<1>1. /\ call.at = "act" /\ call' = [what |-> "none", at |-> "idle"]
      /\ UNCHANGED <<buffered, readers, audio>>
  <2>1. CASE Start
    BY <2>1 DEF Acts, Start
  <2>4. CASE Clear
    BY <2>4 DEF Acts, Clear, flags
  <2>5. CASE Load
    BY <2>5 DEF Acts, Load, flags
  <2>6. CASE Preview
    BY <2>6 DEF Acts, Preview, flags
  <2>2. CASE Cut \/ Trim
    BY <2>2 DEF Acts, Cut, Trim, Edit, flags
  <2>3. CASE Normalize
    BY <2>3 DEF Acts, Normalize, flags
  <2> QED
    BY <2>1, <2>2, <2>3, <2>4, <2>5, <2>6 DEF MessageActs
<1>2. /\ ~recording /\ ~buffered /\ audio.at \notin {"write", "count"} /\ (samples > 0 => storage)
      /\ MaxSamples \in Nat \ {0} /\ samples \in 0 .. MaxSamples /\ content \in [1 .. MaxSamples -> Cell]
      /\ page \in Pages /\ page.from \in Nat /\ page.to \in Nat /\ MessageSees \in BOOLEAN /\ storage \in BOOLEAN
      /\ take \in [number : Nat, frames : Nat]
  BY <1>1, CaptureAssumption DEF Exclusion, CellsOK, Pages, MessageSees
<1>3. Blank \in [1 .. MaxSamples -> Cell] /\ <<>> \in Seq(Cell)
  BY EmptySeq DEF Blank, Cell
<1>4. Whole(samples)
  BY DEF WrittenIsWhole
<1>a. CASE Start
  <2>1. CASE recording' = FALSE
    <3>1. /\ storage' = FALSE /\ content' = Blank /\ ~storage /\ UNCHANGED <<samples, recording, take>>
          /\ page' = Refreshed(page, <<>>, FALSE)
      BY <1>2, <1>a, <2>1 DEF Start, Release
    <3>2. samples = 0
      BY <1>2, <3>1
    <3>3. Whole(samples)'
      BY <3>1, <3>2 DEF Whole
    <3>4. page' \in Pages
      BY <1>2, <1>3, <3>1, RefreshedPage
    <3> QED
      BY <1>1, <1>2, <1>3, <3>1, <3>2, <3>3, <3>4, ActKeeps
  <2>2. CASE recording' # FALSE
    <3>1. /\ storage' = TRUE /\ samples' = 0 /\ recording' = TRUE /\ content' = content
          /\ take' = [number |-> take.number + 1, frames |-> 0] /\ page' = Refreshed(page, <<>>, TRUE)
      BY <1>2, <1>a, <2>2 DEF Start, CellsOK
    <3>2. take' \in [number : Nat, frames : Nat]
      BY <1>2, <3>1
    <3>7. page' \in Pages
      BY <1>2, <1>3, <3>1, RefreshedPage
    <3>3. call' \in [what : Calls \cup {"none"}, at : {"idle", "wait", "act"}] /\ call'.at = "idle"
      BY <1>1
    <3>8. audio' \in Blocks /\ samples' \in 0 .. MaxSamples /\ content' \in [1 .. MaxSamples -> Cell]
      BY <1>1, <1>2, <3>1 DEF CellsOK
    <3>4. CellsOK'
      BY <3>1, <3>2, <3>3, <3>7, <3>8 DEF CellsOK
    <3>5. Announced' /\ Exclusion'
      BY <1>1, <1>2, <3>1, <3>3 DEF Announced, Exclusion
    <3>6. WrittenIsWhole'
      BY <1>1, <1>2, <3>1 DEF WrittenIsWhole, Whole
    <3> QED
      BY <3>4, <3>5, <3>6
  <2> QED
    BY <2>1, <2>2
<1>b. CASE Clear
  <2>1. /\ samples' = 0 /\ storage' = FALSE /\ content' = Blank /\ UNCHANGED <<recording, take>>
        /\ page' = page \/ page' = Refreshed([page EXCEPT !.from = 0, !.to = 0], <<>>, MessageSees)
    BY <1>b DEF Clear, Release, flags
  <2>2. [page EXCEPT !.from = 0, !.to = 0].from = 0 /\ [page EXCEPT !.from = 0, !.to = 0].to = 0
    BY <1>2 DEF Pages
  <2>3. page' \in Pages
    <3> DEFINE cleared == [page EXCEPT !.from = 0, !.to = 0]
    <3>1. cleared.from \in Nat /\ cleared.to \in Nat
      BY <2>2
    <3> HIDE DEF cleared
    <3>2. Refreshed(cleared, <<>>, MessageSees) \in Pages
      BY <1>2, <1>3, <3>1, RefreshedPage
    <3> QED
      BY <1>2, <2>1, <3>2 DEF cleared
  <2>4. Whole(samples)'
    BY <2>1 DEF Whole
  <2>5. content' \in [1 .. MaxSamples -> Cell]
    BY <1>3, <2>1
  <2>7. samples' \in 0 .. MaxSamples /\ storage' \in BOOLEAN /\ ~(samples' > 0)
    <3>1. MaxSamples \in Nat /\ samples' = 0
      BY <2>1, CaptureAssumption
    <3>2. storage' \in BOOLEAN
      BY <2>1
    <3>3. samples' \in 0 .. MaxSamples /\ ~(samples' > 0)
      BY <3>1
    <3> QED
      BY <3>2, <3>3
  <2>6. UNCHANGED <<recording, take>>
    BY <2>1
  <2> QED
    BY <1>1, <2>3, <2>4, <2>5, <2>6, <2>7, ActKeeps
\* An edit keeps some of the frames, in their order.
<1>c. ASSUME NEW kept, NEW what, NEW from \in Nat, NEW to \in Nat, Edit(what, kept, from, to),
             storage /\ Limited(0, samples, page.from) < Limited(0, samples, page.to) =>
               /\ kept \in Seq(Cell) /\ Len(kept) <= samples
               /\ \E place \in [1 .. Len(kept) -> 1 .. samples] :
                    /\ \A i \in 1 .. Len(kept) : kept[i] = content[place[i]]
                    /\ \A i, j \in 1 .. Len(kept) : i < j => place[i] < place[j]
      PROVE  OrderedInv'
  <2>1. UNCHANGED <<recording, take, storage>>
    BY <1>c DEF Edit, flags
  <2>2. CASE storage /\ Limited(0, samples, page.from) < Limited(0, samples, page.to)
    <3>1. /\ content' = Moved(kept) /\ samples' = Len(kept)
          /\ page' = Refreshed([page EXCEPT !.from = from, !.to = to], kept, MessageSees)
      BY <1>c, <2>2 DEF Edit
    <3>2. /\ kept \in Seq(Cell) /\ Len(kept) <= samples /\ Len(kept) \in Nat
      BY <1>c, <2>2, LenProperties
    <3>3. PICK place \in [1 .. Len(kept) -> 1 .. samples] :
            /\ \A i \in 1 .. Len(kept) : kept[i] = content[place[i]]
            /\ \A i, j \in 1 .. Len(kept) : i < j => place[i] < place[j]
      BY <1>c, <2>2
    <3>4. Len(kept) <= MaxSamples
      BY <1>2, <3>2
    <3>5. content' \in [1 .. MaxSamples -> Cell] /\ \A i \in 1 .. Len(kept) : content'[i] = kept[i]
      BY <1>2, <3>1, <3>2, <3>4, MovedKeeps
    <3>6. [page EXCEPT !.from = from, !.to = to].from = from /\ [page EXCEPT !.from = from, !.to = to].to = to
      BY <1>2 DEF Pages
    <3>7. page' \in Pages
      BY <1>2, <3>1, <3>2, <3>6, RefreshedPage
    <3>8. Whole(samples)'
      <4>1. \A i \in 1 .. Len(kept) : place[i] \in 1 .. samples /\ content'[i] = content[place[i]]
        BY <3>3, <3>5
      <4> QED
        BY <1>4, <2>1, <3>1, <3>3, <4>1 DEF Whole
    <3>9. samples' \in 0 .. MaxSamples /\ (samples' > 0 => storage')
      BY <1>2, <2>1, <2>2, <3>1, <3>2
    <3> QED
      BY <1>1, <1>2, <2>1, <3>5, <3>7, <3>8, <3>9, ActKeeps
  <2>3. CASE ~(storage /\ Limited(0, samples, page.from) < Limited(0, samples, page.to))
    <3>1. UNCHANGED <<content, samples, page>>
      BY <1>c, <2>3 DEF Edit
    <3>2. Whole(samples)'
      BY <1>4, <2>1, <3>1 DEF Whole
    <3> QED
      BY <1>1, <1>2, <2>1, <3>1, <3>2, ActKeeps
  <2> QED
    BY <2>2, <2>3
<1>5. ASSUME storage, Limited(0, samples, page.from) < Limited(0, samples, page.to)
      PROVE  /\ page.from < samples /\ Limited(0, samples, page.to) \in page.from + 1 .. samples
  BY <1>2, <1>5 DEF Limited
<1>d. CASE Cut
  <2> DEFINE end == Limited(0, samples, page.to)
             front == SubSeq(content, 1, page.from)
             back == SubSeq(content, end + 1, samples)
  <2>1. Edit("cut", front \o back, page.from, page.from)
    BY <1>d DEF Cut
  <2>2. ASSUME storage, Limited(0, samples, page.from) < Limited(0, samples, page.to)
        PROVE  /\ front \o back \in Seq(Cell) /\ Len(front \o back) <= samples
               /\ \E place \in [1 .. Len(front \o back) -> 1 .. samples] :
                    /\ \A i \in 1 .. Len(front \o back) : (front \o back)[i] = content[place[i]]
                    /\ \A i, j \in 1 .. Len(front \o back) : i < j => place[i] < place[j]
    <3>1. page.from < samples /\ end \in page.from + 1 .. samples
      BY <1>5, <2>2
    <3>2. /\ page.from \in 0 .. MaxSamples /\ samples \in 0 .. MaxSamples
          /\ 1 \in Nat \ {0} /\ end + 1 \in Nat \ {0} /\ end \in Nat
      BY <1>2, <3>1
    <3> HIDE DEF end
    <3>3. /\ front \in Seq(Cell) /\ Len(front) = page.from
          /\ \A i \in 1 .. page.from : front[i] = content[i]
      <4>1. /\ front \in Seq(Cell) /\ Len(front) = IF 1 <= page.from THEN page.from - 1 + 1 ELSE 0
            /\ \A i \in 1 .. page.from - 1 + 1 : front[i] = content[1 + i - 1]
        BY <1>2, <3>2, PartOfStorage
      <4> QED
        BY <1>2, <4>1
    <3>4. /\ back \in Seq(Cell) /\ Len(back) = samples - end
          /\ \A i \in 1 .. samples - end : back[i] = content[end + i]
      <4>1. /\ back \in Seq(Cell) /\ Len(back) = IF end + 1 <= samples THEN samples - (end + 1) + 1 ELSE 0
            /\ \A i \in 1 .. samples - (end + 1) + 1 : back[i] = content[end + 1 + i - 1]
        BY <1>2, <3>2, PartOfStorage
      <4> QED
        BY <1>2, <3>1, <3>2, <4>1
    <3> DEFINE n == page.from + (samples - end)
               place == [i \in 1 .. n |-> IF i <= page.from THEN i ELSE end + (i - page.from)]
    <3> HIDE DEF front, back
    <3>5. /\ front \o back \in Seq(Cell) /\ Len(front \o back) = n
          /\ \A i \in 1 .. n : (front \o back)[i] = IF i <= page.from THEN front[i] ELSE back[i - page.from]
      <4>1. /\ front \o back \in Seq(Cell) /\ Len(front \o back) = Len(front) + Len(back)
            /\ \A i \in 1 .. Len(front) + Len(back) : (front \o back)[i] = IF i <= Len(front) THEN front[i] ELSE back[i - Len(front)]
        BY <3>3, <3>4, ConcatProperties
      <4> QED
        BY <3>3, <3>4, <4>1
    <3>6. n \in Nat /\ n <= samples
      BY <1>2, <3>1, <3>2
    <3>7. place \in [1 .. n -> 1 .. samples]
      BY <1>2, <3>1, <3>2
    <3>8. \A i \in 1 .. n : (front \o back)[i] = content[place[i]]
      <4> SUFFICES ASSUME NEW i \in 1 .. n PROVE (front \o back)[i] = content[place[i]]
        OBVIOUS
      <4>1. CASE i <= page.from
        <5>1. i \in 1 .. page.from /\ place[i] = i
          BY <3>2, <3>6, <4>1
        <5> QED
          BY <3>3, <3>5, <4>1, <5>1
      <4>2. CASE ~(i <= page.from)
        <5>1. i - page.from \in 1 .. samples - end /\ place[i] = end + (i - page.from)
          BY <3>1, <3>2, <3>6, <4>2
        <5>2. (front \o back)[i] = back[i - page.from]
          BY <3>5, <4>2
        <5> QED
          BY <3>4, <5>1, <5>2
      <4> QED
        BY <4>1, <4>2
    <3>9. \A i, j \in 1 .. n : i < j => place[i] < place[j]
      BY <1>2, <3>1, <3>2
    <3> HIDE DEF place, n
    <3> QED
      BY <3>5, <3>6, <3>7, <3>8, <3>9
  <2> HIDE DEF front, back
  <2> QED
    BY <1>c, <1>2, <2>1, <2>2
<1>e. CASE Trim
  <2> DEFINE end == Limited(0, samples, page.to)
             kept == SubSeq(content, page.from + 1, end)
  <2>1. Edit("trim", kept, 0, Len(kept))
    BY <1>e DEF Trim
  <2>2. end \in 0 .. samples /\ end \in 0 .. MaxSamples /\ page.from + 1 \in Nat \ {0}
    BY <1>2 DEF Limited
  <2> HIDE DEF end
  <2>3. /\ kept \in Seq(Cell) /\ Len(kept) \in Nat
        /\ Len(kept) = IF page.from + 1 <= end THEN end - (page.from + 1) + 1 ELSE 0
        /\ \A i \in 1 .. end - (page.from + 1) + 1 : kept[i] = content[page.from + 1 + i - 1]
    BY <1>2, <2>2, PartOfStorage, LenProperties
  <2> HIDE DEF kept
  <2>4. ASSUME storage, Limited(0, samples, page.from) < Limited(0, samples, page.to)
        PROVE  /\ Len(kept) <= samples
               /\ \E place \in [1 .. Len(kept) -> 1 .. samples] :
                    /\ \A i \in 1 .. Len(kept) : kept[i] = content[place[i]]
                    /\ \A i, j \in 1 .. Len(kept) : i < j => place[i] < place[j]
    <3>1. page.from < samples /\ end \in page.from + 1 .. samples
      BY <1>5, <2>4 DEF end
    <3> DEFINE place == [i \in 1 .. Len(kept) |-> page.from + i]
    <3>2. Len(kept) = end - page.from
      BY <1>2, <2>3, <3>1
    <3>3. place \in [1 .. Len(kept) -> 1 .. samples]
      BY <1>2, <2>2, <3>1, <3>2, SMTT(30)
    <3>4. \A i \in 1 .. Len(kept) : kept[i] = content[place[i]]
      <4> SUFFICES ASSUME NEW i \in 1 .. Len(kept) PROVE kept[i] = content[place[i]]
        OBVIOUS
      <4>3. i \in 1 .. end - (page.from + 1) + 1 /\ page.from + 1 + i - 1 = page.from + i
        <5>1. page.from \in Nat /\ end \in Int /\ i \in 1 .. end - page.from
          <6>1. page.from \in Nat /\ samples \in Int
            BY <1>2
          <6> QED
            BY <2>2, <3>2, <6>1
        <5> HIDE DEF place
        <5> QED
          BY <5>1
      <4>4. place[i] = page.from + i
        OBVIOUS
      <4>1. i \in 1 .. end - (page.from + 1) + 1 /\ page.from + 1 + i - 1 = page.from + i /\ place[i] = page.from + i
        BY <4>3, <4>4
      <4>2. kept[i] = content[page.from + 1 + i - 1]
        BY <2>3, <4>1
      <4> QED
        BY <4>1, <4>2
    <3>5. \A i, j \in 1 .. Len(kept) : i < j => place[i] < place[j]
      BY <1>2, <2>2, <3>2
    <3>6. Len(kept) <= samples
      BY <1>2, <2>2, <3>1, <3>2
    <3> HIDE DEF place
    <3> QED
      BY <3>3, <3>4, <3>5, <3>6
  <2> QED
    BY <1>c, <2>1, <2>3, <2>4
<1>f. CASE Normalize
  <2>1. UNCHANGED <<recording, take, storage, samples>>
    BY <1>f DEF Normalize, flags
  <2>2. CASE UNCHANGED <<content, page>>
    <3>1. Whole(samples)'
      BY <1>4, <2>1, <2>2 DEF Whole
    <3> QED
      BY <1>1, <1>2, <2>1, <2>2, <3>1, ActKeeps
  <2>3. CASE ~UNCHANGED <<content, page>>
    <3>1. /\ content' = [i \in 1 .. MaxSamples |-> IF i <= samples THEN [content[i] EXCEPT !.scaled = TRUE] ELSE content[i]]
          /\ page' = Refreshed(page, SubSeq(content', 1, samples), MessageSees)
      BY <1>f, <2>3 DEF Normalize
    <3>2. \A i \in 1 .. samples : content[i] \in Frame
      BY <1>4 DEF Whole
    <3>3. ASSUME NEW i \in 1 .. samples
          PROVE  content'[i] \in Frame /\ content'[i].take = content[i].take /\ content'[i].at = content[i].at
      <4>1. i \in 1 .. MaxSamples /\ i <= samples
        BY <1>2
      <4>2. content'[i] = [content[i] EXCEPT !.scaled = TRUE]
        BY <3>1, <4>1
      <4>3. content[i] \in Frame
        BY <3>2
      <4> QED
        BY <4>2, <4>3 DEF Frame
    <3>4. content' \in [1 .. MaxSamples -> Cell]
      <4>1. ASSUME NEW i \in 1 .. MaxSamples PROVE content'[i] \in Cell
        <5>1. CASE i <= samples
          BY <1>2, <3>3, <5>1 DEF Cell
        <5>2. CASE ~(i <= samples)
          BY <1>2, <3>1, <5>2
        <5> QED
          BY <5>1, <5>2
      <4> QED
        BY <3>1, <4>1
    <3>5. SubSeq(content', 1, samples) \in Seq(Cell)
      BY <1>2, <3>4, PartOfStorage
    <3>6. page' \in Pages
      BY <1>2, <3>1, <3>5, RefreshedPage
    <3>7. Whole(samples)'
      BY <1>4, <2>1, <3>3 DEF Whole
    <3> QED
      BY <1>1, <1>2, <2>1, <3>4, <3>6, <3>7, ActKeeps
  <2> QED
    BY <2>2, <2>3
<1>g. CASE Load
  <2>1. UNCHANGED <<recording, take>>
    BY <1>g DEF Load, flags
  <2>2. \/ UNCHANGED <<samples, storage, content, page>>
        \/ samples' = 0 /\ storage' = FALSE /\ content' = Blank /\ page' = Refreshed(page, <<>>, MessageSees)
    BY <1>g DEF Load, Release
  <2>3. CASE UNCHANGED <<samples, storage, content, page>>
    <3>1. Whole(samples)'
      BY <1>4, <2>1, <2>3 DEF Whole
    <3> QED
      BY <1>1, <1>2, <2>1, <2>3, <3>1, ActKeeps
  <2>4. CASE samples' = 0 /\ storage' = FALSE /\ content' = Blank /\ page' = Refreshed(page, <<>>, MessageSees)
    <3>1. page' \in Pages
      <4>1. Refreshed(page, <<>>, MessageSees) \in Pages
        BY <1>2, <1>3, RefreshedPage
      <4> QED
        BY <2>4, <4>1
    <3>2. Whole(samples)'
      BY <2>4 DEF Whole
    <3>3. content' \in [1 .. MaxSamples -> Cell]
      BY <1>3, <2>4
    <3>4. samples' \in 0 .. MaxSamples /\ storage' \in BOOLEAN /\ ~(samples' > 0)
      <4>1. MaxSamples \in Nat /\ samples' = 0
        BY <2>4, CaptureAssumption
      <4>2. storage' \in BOOLEAN
        BY <2>4
      <4>3. samples' \in 0 .. MaxSamples /\ ~(samples' > 0)
        BY <4>1
      <4> QED
        BY <4>2, <4>3
    <3> QED
      BY <1>1, <2>1, <3>1, <3>2, <3>3, <3>4, ActKeeps
  <2> QED
    BY <2>2, <2>3, <2>4
<1>h. CASE Preview
  <2>1. UNCHANGED <<recording, take, storage, samples, content, page>>
    BY <1>h DEF Preview, flags, store
  <2>2. Whole(samples)'
    BY <1>4, <2>1 DEF Whole
  <2> QED
    BY <1>1, <1>2, <2>1, <2>2, ActKeeps
<1> QED
  BY <1>a, <1>b, <1>d, <1>e, <1>f, <1>g, <1>h DEF MessageActs

\* While the stores are seen in order, so are the next.
LEMMA StepInv == IInv /\ [Next]_vars => IInv'
<1> SUFFICES ASSUME IInv, [Next]_vars PROVE IInv'
  OBVIOUS
<1>1. delayed' = delayed
  BY DEF Next, vars, flags, Tick, Stop, Drain, WaitForReaders, Select, Call, StoreFalse, MessageActs, Start, Clear,
         Cut, Trim, Edit, Normalize, Load, Preview, AudioStep, BeginBlock, Enter, Look, NoRoom, Write, Count, Leave,
         RenderOutput
<1>2. CASE delayed
  BY <1>1, <1>2 DEF IInv
<1>3. CASE ~delayed
  <2>1. OrderedInv
    BY <1>3 DEF IInv
  <2>2. ASSUME UNCHANGED vars PROVE OrderedInv'
    <3>1. UNCHANGED <<recording, buffered, readers, storage, content, samples, call, audio, page, take>>
      BY <2>2 DEF vars, flags, store
    <3>2. CellsOK'
      BY <2>1, <3>1 DEF OrderedInv, CellsOK
    <3>3. Announced' /\ Exclusion'
      BY <2>1, <3>1 DEF OrderedInv, Announced, Exclusion
    <3>4. WrittenIsWhole'
      BY <2>1, <3>1 DEF OrderedInv, WrittenIsWhole, Whole
    <3> QED
      BY <3>2, <3>3, <3>4 DEF OrderedInv
  <2>3. ASSUME AudioStep PROVE OrderedInv'
    BY <2>1, <2>3, AudioSteps
  <2>4. ASSUME MessageActs PROVE OrderedInv'
    BY <2>1, <2>4, MessageSteps
  <2>5. ASSUME \/ Tick \/ Stop \/ Drain \/ WaitForReaders
               \/ \E from, to \in 0 .. MaxSamples : Select(from, to)
               \/ \E what \in Calls : Call(what)
        PROVE  OrderedInv'
    BY <1>3, <2>1, <2>5, BesideSteps
  <2>6. OrderedInv'
    BY <2>2, <2>3, <2>4, <2>5 DEF Next
  <2> QED
    BY <2>6 DEF IInv
<1> QED
  BY <1>2, <1>3

\* The flag goes down before the wait and a block is announced before it looks: in every state
\* the storage belongs to one thread, and what was written is whole.
THEOREM Invariance == Spec => []IInv
BY InitInv, StepInv, PTL DEF Spec

\* What is counted is the last take, in the order it came in: the storage of captureInputAudio()
\* after any edits, clears and new takes.
THEOREM TakesAreWhole == Spec => []TakeIsWhole
<1>1. IInv => TakeIsWhole
  <2> SUFFICES ASSUME IInv, ~delayed, samples > 0 PROVE TakeIsWhole
    BY DEF TakeIsWhole
  <2>1. storage /\ Whole(samples)
    BY DEF IInv, OrderedInv, Exclusion, WrittenIsWhole
  <2>2. \A i \in 1 .. samples : content[i] # Junk
    BY <2>1, CaptureAssumption DEF Whole
  <2> QED
    BY <2>1, <2>2 DEF TakeIsWhole, Whole
<1> QED
  BY <1>1, Invariance, PTL

\* With stores seen in order the audio thread writes to storage that is there and that nobody
\* else works on; the run capture_race shows that delayed stores break it.
THEOREM WriterHasStorageInOrder ==
  ASSUME Delays = {FALSE}
  PROVE  Spec => []WriterHasStorage
<1>1. Init => ~delayed
  BY DEF Init
<1>2. ~delayed /\ [Next]_vars => ~delayed'
  BY DEF Next, vars, flags, Tick, Stop, Drain, WaitForReaders, Select, Call, StoreFalse, MessageActs, Start, Clear,
         Cut, Trim, Edit, Normalize, Load, Preview, AudioStep, BeginBlock, Enter, Look, NoRoom, Write, Count, Leave,
         RenderOutput
<1>3. ~delayed /\ IInv => WriterHasStorage
  BY DEF IInv, OrderedInv, Exclusion, WriterHasStorage
<1> QED
  BY <1>1, <1>2, <1>3, Invariance, PTL DEF Spec

-----------------------------------------------------------------------------
(* What the page shows.                                                    *)

\* A part of a list is a list.
LEMMA PartOfList ==
  ASSUME NEW s, NEW a \in Int, NEW b \in Int
  PROVE  /\ IsList(SubSeq(s, a, b))
         /\ Len(SubSeq(s, a, b)) = IF a <= b THEN b - a + 1 ELSE 0
         /\ \A i \in 1 .. Len(SubSeq(s, a, b)) : SubSeq(s, a, b)[i] = s[a + i - 1]
<1> DEFINE S == {s[i] : i \in a .. b}
<1>1. \A i \in a .. b : s[i] \in S
  OBVIOUS
<1> HIDE DEF S
<1>2. /\ SubSeq(s, a, b) \in Seq(S) /\ Len(SubSeq(s, a, b)) = IF a <= b THEN b - a + 1 ELSE 0
      /\ \A i \in 1 .. b - a + 1 : SubSeq(s, a, b)[i] = s[a + i - 1]
  BY <1>1, SubSeqProperties
<1>3. Len(SubSeq(s, a, b)) \in Nat /\ SubSeq(s, a, b) = [i \in 1 .. Len(SubSeq(s, a, b)) |-> SubSeq(s, a, b)[i]]
  BY <1>2, LenProperties
<1>4. \A i \in 1 .. Len(SubSeq(s, a, b)) : i \in 1 .. b - a + 1
  BY <1>2
<1> QED  BY <1>2, <1>3, <1>4 DEF IsList

\* The first n elements.
LEMMA FrontOfList ==
  ASSUME NEW s, NEW n \in Nat
  PROVE  /\ IsList(SubSeq(s, 1, n)) /\ Len(SubSeq(s, 1, n)) = n
         /\ \A i \in 1 .. n : SubSeq(s, 1, n)[i] = s[i]
<1>1. /\ IsList(SubSeq(s, 1, n)) /\ Len(SubSeq(s, 1, n)) = IF 1 <= n THEN n - 1 + 1 ELSE 0
      /\ \A i \in 1 .. Len(SubSeq(s, 1, n)) : SubSeq(s, 1, n)[i] = s[1 + i - 1]
  BY PartOfList
<1>2. (IF 1 <= n THEN n - 1 + 1 ELSE 0) = n /\ \A i \in 1 .. n : 1 + i - 1 = i
  OBVIOUS
<1> QED  BY <1>1, <1>2

\* Lists that agree on a range have that part in common.
LEMMA SamePart ==
  ASSUME NEW s, NEW t, NEW a \in Int, NEW b \in Int, \A i \in a .. b : s[i] = t[i]
  PROVE  SubSeq(s, a, b) = SubSeq(t, a, b)
<1> DEFINE S == {s[i] : i \in a .. b}
<1>1. \A i \in a .. b : s[i] \in S /\ t[i] \in S
  OBVIOUS
<1> HIDE DEF S
<1>2. /\ SubSeq(s, a, b) \in Seq(S) /\ Len(SubSeq(s, a, b)) = IF a <= b THEN b - a + 1 ELSE 0
      /\ \A i \in 1 .. b - a + 1 : SubSeq(s, a, b)[i] = s[a + i - 1]
  BY <1>1, SubSeqProperties
<1>3. /\ SubSeq(t, a, b) \in Seq(S) /\ Len(SubSeq(t, a, b)) = IF a <= b THEN b - a + 1 ELSE 0
      /\ \A i \in 1 .. b - a + 1 : SubSeq(t, a, b)[i] = t[a + i - 1]
  BY <1>1, SubSeqProperties
<1>4. ASSUME NEW i \in 1 .. Len(SubSeq(s, a, b))  PROVE  SubSeq(s, a, b)[i] = SubSeq(t, a, b)[i]
  <2>1. i \in 1 .. b - a + 1 /\ a + i - 1 \in a .. b  BY <1>2
  <2> QED  BY <1>2, <1>3, <2>1
<1> QED  BY <1>2, <1>3, <1>4, SeqEqual

\* So are two lists, one behind the other.
LEMMA JoinedLists ==
  ASSUME NEW s, IsList(s), NEW t, IsList(t)
  PROVE  /\ IsList(s \o t) /\ Len(s \o t) = Len(s) + Len(t)
         /\ \A i \in 1 .. Len(s) : (s \o t)[i] = s[i]
<1> DEFINE S == {s[i] : i \in 1 .. Len(s)} \cup {t[i] : i \in 1 .. Len(t)}
<1>1. /\ s = [i \in 1 .. Len(s) |-> s[i]] /\ \A i \in 1 .. Len(s) : s[i] \in S
      /\ t = [i \in 1 .. Len(t) |-> t[i]] /\ \A i \in 1 .. Len(t) : t[i] \in S
      /\ Len(s) \in Nat /\ Len(t) \in Nat
  BY DEF IsList
<1> HIDE DEF S
<1>2. s \in Seq(S) /\ t \in Seq(S)
  BY <1>1, IsASeq
<1>3. /\ s \o t \in Seq(S) /\ Len(s \o t) = Len(s) + Len(t)
      /\ \A i \in 1 .. Len(s) + Len(t) : (s \o t)[i] = IF i <= Len(s) THEN s[i] ELSE t[i - Len(s)]
  BY <1>2, ConcatProperties
<1>4. IsList(s \o t)
  BY <1>3, LenProperties DEF IsList
<1>5. \A i \in 1 .. Len(s) : i \in 1 .. Len(s) + Len(t) /\ i <= Len(s)
  BY <1>1
<1> QED  BY <1>3, <1>4, <1>5

\* refreshCaptureWaveform() and updateCaptureUiState() show a list with a selection within it.
LEMMA RefreshShows ==
  ASSUME NEW p, p.from \in Nat, p.to \in Nat, NEW s, IsList(s), NEW flag,
         page' = Refreshed(p, s, flag)
  PROVE  /\ page' = [shown |-> page'.shown, recording |-> page'.recording, from |-> page'.from, to |-> page'.to]
         /\ page'.shown = s /\ page'.recording = flag
         /\ IsList(page'.shown) /\ page'.to \in 0 .. Len(page'.shown) /\ page'.from \in 0 .. page'.to
<1> DEFINE from == Limited(0, Len(s), p.from)
           to == Limited(from, Len(s), p.to)
<1>1. Len(s) \in Nat  BY DEF IsList
<1>2. from \in 0 .. Len(s)  BY <1>1 DEF Limited
<1>3. to \in from .. Len(s)  BY <1>1, <1>2 DEF Limited
<1>4. page' = [shown |-> s, recording |-> flag, from |-> from, to |-> to]
  BY DEF Refreshed
<1> HIDE DEF from, to
<1>5. page'.shown = s /\ page'.recording = flag /\ page'.from = from /\ page'.to = to
  BY <1>4
<1>6. to \in 0 .. Len(s) /\ from \in 0 .. to
  BY <1>1, <1>2, <1>3
<1> QED  BY <1>4, <1>5, <1>6

\* No take is shown or not.
LEMMA EmptyList == IsList(<<>>) /\ Len(<<>>) = 0
  BY DEF IsList

\* What is held is what is counted, as long as there is storage.
LEMMA HeldIsList ==
  ASSUME StoreOK
  PROVE  /\ IsList(Held)
         /\ storage => Len(Held) = samples /\ \A i \in 1 .. samples : Held[i] = content[i]
<1>1. MaxSamples \in Nat /\ samples \in 0 .. MaxSamples /\ content = [i \in 1 .. MaxSamples |-> content[i]]
  BY CaptureAssumption DEF StoreOK
<1>2. /\ IsList(SubSeq(content, 1, samples)) /\ Len(SubSeq(content, 1, samples)) = samples
      /\ \A i \in 1 .. samples : SubSeq(content, 1, samples)[i] = content[i]
  BY <1>1, FrontOfList
<1> QED  BY <1>2, EmptyList DEF Held

\* An empty page shows no take.
LEMMA InitPage == Init => PageInv
<1> SUFFICES ASSUME Init  PROVE  PageInv  OBVIOUS
<1>1. MaxSamples \in Nat  BY CaptureAssumption
<1>2. content = [i \in 1 .. MaxSamples |-> content[i]] /\ samples \in 0 .. MaxSamples
  BY <1>1 DEF Init, Blank
<1>3. StoreOK  BY <1>2 DEF Init, StoreOK, Blocks, Places
<1>4. PageOK  BY EmptyList DEF Init, PageOK
<1> QED  BY <1>3, <1>4 DEF Init, PageInv, LoadOffered

\* The page is refreshed with a recording, or with the beginning of what is stored.
LEMMA PageRefreshed ==
  ASSUME NEW p, p.from \in Nat, p.to \in Nat, NEW s, IsList(s), NEW flag,
         page' = Refreshed(p, s, flag),
         storage' /\ ~flag => Len(s) <= samples' /\ \A i \in 1 .. Len(s) : s[i] = content'[i]
  PROVE  PageOK'
<1>1. /\ page' = [shown |-> page'.shown, recording |-> page'.recording, from |-> page'.from, to |-> page'.to]
      /\ page'.shown = s /\ page'.recording = flag
      /\ IsList(page'.shown) /\ page'.to \in 0 .. Len(page'.shown) /\ page'.from \in 0 .. page'.to
  BY RefreshShows
<1> QED  BY <1>1 DEF PageOK, IsList

\* The page stays as it is, and so does what it shows.
LEMMA PageStays ==
  ASSUME PageOK, page' = page, samples \in Nat, samples' \in Nat,
         storage' => storage /\ samples <= samples' /\ \A i \in 1 .. samples : content'[i] = content[i]
  PROVE  PageOK'
<1>1. Len(page.shown) \in Nat  BY DEF PageOK, IsList
<1>2. ASSUME storage', ~page'.recording
      PROVE  Len(page.shown) <= samples' /\ \A i \in 1 .. Len(page.shown) : page.shown[i] = content'[i]
  <2>1. Len(page.shown) <= samples /\ \A i \in 1 .. Len(page.shown) : page.shown[i] = content[i]
    BY <1>2 DEF PageOK
  <2> QED  BY <1>1, <1>2, <2>1
<1> QED  BY <1>2 DEF PageOK, IsList

\* A call that is done leaves no load, and no block more to count than there is room.
LEMMA ActDone ==
  ASSUME StoreOK, call' = [what |-> "none", at |-> "idle"], audio' = audio,
         content' = [i \in 1 .. MaxSamples |-> content'[i]], samples' \in 0 .. samples, PageOK'
  PROVE  PageInv'
<1>1. call' \in [what : Calls \cup {"none"}, at : {"idle", "wait", "act"}]
  OBVIOUS
<1>2. samples \in 0 .. MaxSamples /\ MaxSamples \in Nat
  BY CaptureAssumption DEF StoreOK
<1>3. samples' \in 0 .. MaxSamples /\ (audio'.at = "count" => audio'.size \in samples' .. MaxSamples)
  BY <1>2 DEF StoreOK
<1>4. StoreOK'  BY <1>1, <1>3 DEF StoreOK
<1> QED  BY <1>4 DEF PageInv, LoadOffered

\* What the message thread does beside the storage.
LEMMA PageBeside ==
  ASSUME PageInv,
         \/ Tick \/ Stop \/ Drain \/ WaitForReaders
         \/ \E from, to \in 0 .. MaxSamples : Select(from, to)
         \/ \E what \in Calls : Call(what)
  PROVE  PageInv'
<1> USE DEF PageInv
<1>1. UNCHANGED <<storage, content, samples, audio>>
  BY DEF Tick, Stop, Drain, WaitForReaders, Select, Call, store, flags
<1>2. samples \in Nat /\ page.from \in Nat /\ page.to \in Nat
  <2>1. MaxSamples \in Nat /\ samples \in 0 .. MaxSamples  BY CaptureAssumption DEF StoreOK
  <2>2. Len(page.shown) \in Nat /\ page.to \in 0 .. Len(page.shown) /\ page.from \in 0 .. page.to
    BY DEF PageOK, IsList
  <2> QED  BY <2>1, <2>2
<1>3. call \in [what : Calls \cup {"none"}, at : {"idle", "wait", "act"}]
  BY DEF StoreOK
<1>a. CASE Tick \/ Stop
  <2>1. call' = call /\ call.at = "idle"
    BY <1>a DEF Tick, Stop
  <2>2. PageOK'
    <3>1. CASE page' = page
      BY <1>1, <1>2, <3>1, PageStays
    <3>2. CASE \E flag : page' = Refreshed(page, Held, flag)
      <4>1. PICK flag : page' = Refreshed(page, Held, flag)  BY <3>2
      <4>2. IsList(Held) /\ (storage => Len(Held) = samples /\ \A i \in 1 .. samples : Held[i] = content[i])
        BY HeldIsList
      <4> QED  BY <1>1, <1>2, <4>1, <4>2, PageRefreshed
    <3> QED  BY <1>a, <3>1, <3>2 DEF Tick, Stop
  <2> QED  BY <1>1, <2>1, <2>2 DEF StoreOK, LoadOffered
<1>b. CASE \E from, to \in 0 .. MaxSamples : Select(from, to)
  <2>1. PICK from \in 0 .. MaxSamples, to \in 0 .. MaxSamples : Select(from, to)
    BY <1>b
  <2>2. call' = call /\ call.at = "idle" /\ from <= to /\ to <= Len(page.shown)
        /\ page' = [page EXCEPT !.from = from, !.to = to]
    BY <2>1 DEF Select
  <2>3. page = [shown |-> page.shown, recording |-> page.recording, from |-> page.from, to |-> page.to]
    BY DEF PageOK
  <2>4. /\ page'.shown = page.shown /\ page'.recording = page.recording /\ page'.from = from /\ page'.to = to
        /\ page' = [shown |-> page'.shown, recording |-> page'.recording, from |-> page'.from, to |-> page'.to]
    BY <2>2, <2>3
  <2>5. Len(page.shown) \in Nat /\ from \in Nat /\ to \in Nat
    BY CaptureAssumption DEF PageOK, IsList
  <2>6. PageOK'
    <3>1. to \in 0 .. Len(page.shown) /\ from \in 0 .. to  BY <2>2, <2>5
    <3> QED  BY <1>1, <2>4, <3>1 DEF PageOK, IsList
  <2> QED  BY <1>1, <2>2, <2>6 DEF StoreOK, LoadOffered
<1>c. CASE Drain \/ WaitForReaders \/ \E what \in Calls : Call(what)
  <2>1. page' = page
    BY <1>c DEF Drain, WaitForReaders, Call
  <2>2. PageOK'
    BY <1>1, <1>2, <2>1, PageStays
  <2>3. CASE Drain
    BY <1>1, <2>1, <2>2, <2>3 DEF Drain, StoreOK, LoadOffered
  <2>4. CASE WaitForReaders
    <3>1. call' = [call EXCEPT !.at = "act"] /\ call.at = "wait"  BY <2>4 DEF WaitForReaders
    <3>2. call' \in [what : Calls \cup {"none"}, at : {"idle", "wait", "act"}] /\ call'.what = call.what /\ call'.at = "act"
      BY <1>3, <3>1
    <3> QED  BY <1>1, <2>1, <2>2, <3>2 DEF StoreOK, LoadOffered
  <2>5. CASE \E what \in Calls : Call(what)
    <3>1. PICK what \in Calls : Call(what)  BY <2>5
    <3>2. call' = [what |-> what, at |-> "wait"] /\ Offered(what)  BY <3>1 DEF Call
    <3>3. call'.what = "load" => ~page.recording
      <4> SUFFICES ASSUME what = "load"  PROVE ~page.recording  BY <3>2
      <4> QED  BY <3>2 DEF Offered
    <3>4. call' \in [what : Calls \cup {"none"}, at : {"idle", "wait", "act"}] /\ call'.at = "wait"
      BY <3>2
    <3> QED  BY <1>1, <2>1, <2>2, <3>3, <3>4 DEF StoreOK, LoadOffered
  <2> QED  BY <1>c, <2>3, <2>4, <2>5
<1> QED  BY <1>a, <1>b, <1>c

\* A block is written behind what is counted, and then counted.
LEMMA PageAudio ==
  ASSUME PageInv, AudioStep
  PROVE  PageInv'
<1> USE DEF PageInv
<1>1. /\ UNCHANGED <<call, page, storage>> /\ MaxSamples \in Nat \ {0} /\ BlockSizes \subseteq Nat
      /\ audio \in Blocks /\ samples \in 0 .. MaxSamples /\ content = [i \in 1 .. MaxSamples |-> content[i]]
  BY CaptureAssumption DEF AudioStep, BeginBlock, Enter, Look, NoRoom, Write, Count, Leave, RenderOutput, flags, store, StoreOK
<1>2. samples \in Nat  BY <1>1
<1>3. ASSUME UNCHANGED <<samples, content>>, audio' \in Blocks, audio'.at # "count"
      PROVE  PageInv'
  <2>1. PageOK'  BY <1>1, <1>2, <1>3, PageStays
  <2> QED  BY <1>1, <1>3, <2>1 DEF StoreOK, LoadOffered
<1>a. CASE \E n \in BlockSizes, input \in BOOLEAN : BeginBlock(n, input)
  <2>1. audio' \in Blocks /\ audio'.at # "count" /\ UNCHANGED <<samples, content>>
    BY <1>1, <1>a DEF BeginBlock, Blocks, Places, store
  <2> QED  BY <1>3, <2>1
<1>b. CASE Enter \/ Look \/ RenderOutput \/ NoRoom
  <2>1. /\ UNCHANGED <<samples, content>>
        /\ \E at \in Places \ {"count"} : audio' = [audio EXCEPT !.at = at]
    BY <1>b DEF Enter, Look, RenderOutput, NoRoom, GivesUp, Go, store, Places
  <2>2. audio' \in Blocks /\ audio'.at # "count"
    BY <1>1, <2>1 DEF Blocks
  <2> QED  BY <1>3, <2>1, <2>2
<1>c. CASE Leave
  <2>1. /\ UNCHANGED <<samples, content>>
        /\ \/ audio' = [audio EXCEPT !.at = "output", !.input = FALSE]
           \/ audio' = [audio EXCEPT !.at = "idle", !.size = 0, !.armed = FALSE, !.input = FALSE, !.done = FALSE]
    BY <1>c DEF Leave, store
  <2>2. CASE audio' = [audio EXCEPT !.at = "output", !.input = FALSE]
    <3>1. audio' \in Blocks /\ audio'.at # "count"  BY <1>1, <2>2 DEF Blocks, Places
    <3> QED  BY <1>3, <2>1, <3>1
  <2>3. CASE audio' = [audio EXCEPT !.at = "idle", !.size = 0, !.armed = FALSE, !.input = FALSE, !.done = FALSE]
    <3>1. audio' = [at |-> "idle", size |-> 0, armed |-> FALSE, input |-> FALSE, done |-> FALSE]
      BY <1>1, <2>3 DEF Blocks
    <3>2. audio' \in Blocks /\ audio'.at # "count"  BY <3>1 DEF Blocks, Places
    <3> QED  BY <1>3, <2>1, <3>2
  <2> QED  BY <2>1, <2>2, <2>3
<1>d. CASE Write
  <2> DEFINE n == Limited(1, MaxSamples - samples, audio.size)
  <2>1. /\ samples < MaxSamples /\ samples' = samples
        /\ content' = [i \in 1 .. MaxSamples |-> IF i \in samples + 1 .. samples + n THEN Frames(n)[i - samples] ELSE content[i]]
        /\ audio' = [audio EXCEPT !.at = "count", !.size = samples + n]
    BY <1>d DEF Write
  <2>2. n \in 1 .. MaxSamples - samples
    BY <1>1, <2>1 DEF Limited, Blocks
  <2> HIDE DEF n
  <2>3. samples + n \in Nat /\ samples + n \in samples .. MaxSamples
    BY <1>1, <2>2
  <2>4. audio' \in Blocks /\ audio'.size = samples + n
    BY <1>1, <2>1, <2>3 DEF Blocks, Places
  <2>5. \A i \in 1 .. samples : content'[i] = content[i]
    BY <1>1, <2>1
  <2>6. content' = [i \in 1 .. MaxSamples |-> content'[i]]
    BY <2>1
  <2>7. PageOK'  BY <1>1, <1>2, <2>1, <2>5, PageStays
  <2> QED  BY <1>1, <2>1, <2>3, <2>4, <2>6, <2>7 DEF StoreOK, LoadOffered
<1>e. CASE Count
  <2>1. /\ samples' = audio.size /\ audio.at = "count" /\ content' = content
        /\ audio' = [audio EXCEPT !.at = "leave", !.done = TRUE]
    BY <1>e DEF Count
  <2>2. samples' \in samples .. MaxSamples
    BY <2>1 DEF StoreOK
  <2>3. samples' \in Nat /\ samples <= samples' /\ samples' \in 0 .. MaxSamples
    BY <1>1, <2>2
  <2>4. audio' \in Blocks /\ audio'.at # "count"
    BY <1>1, <2>1 DEF Blocks, Places
  <2>5. PageOK'  BY <1>1, <1>2, <2>1, <2>3, PageStays
  <2> QED  BY <1>1, <2>1, <2>3, <2>4, <2>5 DEF StoreOK, LoadOffered
<1> QED  BY <1>a, <1>b, <1>c, <1>d, <1>e DEF AudioStep

\* What is moved to the front is there, and the storage keeps its size.
LEMMA MovedToFront ==
  ASSUME NEW kept, IsList(kept), Len(kept) <= MaxSamples
  PROVE  /\ Moved(kept) = [i \in 1 .. MaxSamples |-> Moved(kept)[i]]
         /\ \A i \in 1 .. Len(kept) : Moved(kept)[i] = kept[i]
<1>1. Len(kept) \in Nat /\ MaxSamples \in Nat
  BY CaptureAssumption DEF IsList
<1>2. /\ IsList(SubSeq(content, Len(kept) + 1, MaxSamples))
      /\ Len(SubSeq(content, Len(kept) + 1, MaxSamples)) = IF Len(kept) + 1 <= MaxSamples THEN MaxSamples - (Len(kept) + 1) + 1 ELSE 0
  BY <1>1, PartOfList
<1>3. Len(SubSeq(content, Len(kept) + 1, MaxSamples)) = MaxSamples - Len(kept)
  BY <1>1, <1>2
<1>4. /\ IsList(Moved(kept)) /\ Len(Moved(kept)) = Len(kept) + (MaxSamples - Len(kept))
      /\ \A i \in 1 .. Len(kept) : Moved(kept)[i] = kept[i]
  BY <1>2, <1>3, JoinedLists DEF Moved
<1>5. Len(Moved(kept)) = MaxSamples
  BY <1>1, <1>4
<1> QED  BY <1>4, <1>5 DEF IsList

\* An edit shows what it keeps.
LEMMA PageEdit ==
  ASSUME PageInv, NEW what, NEW kept, NEW from \in Nat, NEW to \in Nat, Edit(what, kept, from, to),
         storage /\ Limited(0, samples, page.from) < Limited(0, samples, page.to) =>
           IsList(kept) /\ Len(kept) <= samples
  PROVE  PageInv'
<1>1. /\ samples \in 0 .. MaxSamples /\ MaxSamples \in Nat /\ StoreOK /\ PageOK
      /\ content = [i \in 1 .. MaxSamples |-> content[i]]
  BY CaptureAssumption DEF PageInv, StoreOK
<1>2. storage' = storage /\ audio' = audio /\ call' = [what |-> "none", at |-> "idle"]
  BY DEF Edit, Acts
<1>3. CASE storage /\ Limited(0, samples, page.from) < Limited(0, samples, page.to)
  <2>1. IsList(kept) /\ Len(kept) <= samples
    BY <1>3
  <2>2. /\ content' = Moved(kept) /\ samples' = Len(kept)
        /\ page' = Refreshed([page EXCEPT !.from = from, !.to = to], kept, MessageSees)
    BY <1>3 DEF Edit
  <2>3. Len(kept) \in Nat /\ Len(kept) <= MaxSamples
    BY <1>1, <2>1 DEF IsList
  <2>4. content' = [i \in 1 .. MaxSamples |-> content'[i]] /\ \A i \in 1 .. Len(kept) : content'[i] = kept[i]
    BY <2>1, <2>2, <2>3, MovedToFront
  <2> DEFINE p == [page EXCEPT !.from = from, !.to = to]
  <2>5. page = [shown |-> page.shown, recording |-> page.recording, from |-> page.from, to |-> page.to]
    BY <1>1 DEF PageOK
  <2>6. p.from \in Nat /\ p.to \in Nat /\ page' = Refreshed(p, kept, MessageSees)
    BY <2>2, <2>5
  <2> HIDE DEF p
  <2>7. Len(kept) <= samples'  BY <2>2, <2>3
  <2>8. PageOK'
    BY <2>1, <2>4, <2>6, <2>7, PageRefreshed
  <2>9. samples' \in 0 .. samples
    BY <1>1, <2>1, <2>2, <2>3
  <2> QED  BY <1>1, <1>2, <2>4, <2>8, <2>9, ActDone
<1>4. CASE ~(storage /\ Limited(0, samples, page.from) < Limited(0, samples, page.to))
  <2>1. UNCHANGED <<content, samples, page>>
    BY <1>4 DEF Edit
  <2>2. samples \in Nat /\ samples' \in 0 .. samples
    BY <1>1, <2>1
  <2>3. PageOK'  BY <1>1, <1>2, <2>1, <2>2, PageStays
  <2> QED  BY <1>1, <1>2, <2>1, <2>2, <2>3, ActDone
<1> QED  BY <1>3, <1>4

\* The calls that have the storage to themselves, or had better.
LEMMA PageActs ==
  ASSUME PageInv, MessageActs
  PROVE  PageInv'
<1>1. /\ samples \in 0 .. MaxSamples /\ MaxSamples \in Nat /\ StoreOK /\ PageOK
      /\ content = [i \in 1 .. MaxSamples |-> content[i]]
  BY CaptureAssumption DEF PageInv, StoreOK
<1>2. samples \in Nat /\ samples \in 0 .. samples /\ 0 \in 0 .. samples
  BY <1>1
<1>3. page.from \in Nat /\ page.to \in Nat
  <2>1. Len(page.shown) \in Nat /\ page.to \in 0 .. Len(page.shown) /\ page.from \in 0 .. page.to
    BY <1>1 DEF PageOK, IsList
  <2> QED  BY <2>1
<1>4. page = [shown |-> page.shown, recording |-> page.recording, from |-> page.from, to |-> page.to]
  BY <1>1 DEF PageOK
<1>5. audio' = audio /\ call' = [what |-> "none", at |-> "idle"]
  BY DEF MessageActs, Start, Clear, Cut, Trim, Edit, Normalize, Load, Preview, Acts
<1>6. Blank = [i \in 1 .. MaxSamples |-> Blank[i]]
  BY DEF Blank
\* Without storage the page may show what it likes.
<1>7. ASSUME NEW p, p.from \in Nat, p.to \in Nat, NEW flag, page' = Refreshed(p, <<>>, flag) \/ page' = page,
             storage' = FALSE, content' = Blank, samples' \in 0 .. samples
      PROVE  PageInv'
  <2>1. PageOK'
    <3>1. CASE page' = Refreshed(p, <<>>, flag)
      BY <1>7, <3>1, EmptyList, PageRefreshed
    <3>2. CASE page' = page
      BY <1>1, <1>7, <3>2 DEF PageOK, IsList
    <3> QED  BY <1>7, <3>1, <3>2
  <2>2. content' = [i \in 1 .. MaxSamples |-> content'[i]]  BY <1>6, <1>7
  <2> QED  BY <1>1, <1>5, <1>7, <2>1, <2>2, ActDone
<1>a. CASE Start
  <2>1. CASE Release /\ page' = Refreshed(page, <<>>, FALSE) /\ samples' = samples
    BY <1>2, <1>3, <1>7, <2>1 DEF Release
  <2>2. CASE content' = content /\ samples' = 0 /\ page' = Refreshed(page, <<>>, TRUE)
    <3>1. PageOK'  BY <1>3, <2>2, EmptyList, PageRefreshed
    <3>2. content' = [i \in 1 .. MaxSamples |-> content'[i]] /\ samples' \in 0 .. samples
      BY <1>1, <1>2, <2>2
    <3> QED  BY <1>1, <1>5, <3>1, <3>2, ActDone
  <2> QED  BY <1>a, <2>1, <2>2 DEF Start
<1>b. CASE Clear
  <2> DEFINE p == [page EXCEPT !.from = 0, !.to = 0]
  <2>1. p.from \in Nat /\ p.to \in Nat
    BY <1>4
  <2>2. /\ page' = Refreshed(p, <<>>, MessageSees) \/ page' = page
        /\ storage' = FALSE /\ content' = Blank /\ samples' = 0
    BY <1>b DEF Clear, Release
  <2> HIDE DEF p
  <2> QED  BY <1>2, <1>7, <2>1, <2>2
<1>8. ASSUME storage, Limited(0, samples, page.from) < Limited(0, samples, page.to)
      PROVE  page.from < samples /\ Limited(0, samples, page.to) \in page.from + 1 .. samples
  BY <1>2, <1>3, <1>8 DEF Limited
<1>c. CASE Cut
  <2> DEFINE end == Limited(0, samples, page.to)
             front == SubSeq(content, 1, page.from)
             back == SubSeq(content, end + 1, samples)
  <2>1. Edit("cut", front \o back, page.from, page.from)
    BY <1>c DEF Cut
  <2>2. ASSUME storage, Limited(0, samples, page.from) < Limited(0, samples, page.to)
        PROVE  IsList(front \o back) /\ Len(front \o back) <= samples
    <3>1. page.from < samples /\ end \in page.from + 1 .. samples
      BY <1>8, <2>2
    <3> HIDE DEF end
    <3>2. end + 1 \in Int /\ samples \in Int /\ end \in Int
      BY <1>2, <1>3, <3>1
    <3>3. IsList(front) /\ Len(front) = page.from
      BY <1>3, FrontOfList
    <3>4. IsList(back) /\ Len(back) = IF end + 1 <= samples THEN samples - (end + 1) + 1 ELSE 0
      BY <3>2, PartOfList
    <3> HIDE DEF front, back
    <3>5. IsList(front \o back) /\ Len(front \o back) = Len(front) + Len(back)
      BY <3>3, <3>4, JoinedLists
    <3>6. page.from + (IF end + 1 <= samples THEN samples - (end + 1) + 1 ELSE 0) <= samples
      BY <1>2, <1>3, <3>1, <3>2
    <3> QED  BY <3>3, <3>4, <3>5, <3>6
  <2> HIDE DEF front, back
  <2> QED  BY <1>3, <2>1, <2>2, PageEdit
<1>d. CASE Trim
  <2> DEFINE end == Limited(0, samples, page.to)
             kept == SubSeq(content, page.from + 1, end)
  <2>1. Edit("trim", kept, 0, Len(kept))
    BY <1>d DEF Trim
  <2>2. end \in 0 .. samples
    BY <1>2, <1>3 DEF Limited
  <2> HIDE DEF end
  <2>3. end \in Int /\ page.from + 1 \in Int
    BY <1>2, <1>3, <2>2
  <2>4. IsList(kept) /\ Len(kept) = IF page.from + 1 <= end THEN end - (page.from + 1) + 1 ELSE 0
    BY <2>3, PartOfList
  <2>5. (IF page.from + 1 <= end THEN end - (page.from + 1) + 1 ELSE 0) <= samples
    BY <1>2, <1>3, <2>2, <2>3
  <2> HIDE DEF kept
  <2>6. Len(kept) \in Nat /\ Len(kept) <= samples
    BY <2>4, <2>5 DEF IsList
  <2> QED  BY <2>1, <2>4, <2>6, PageEdit
<1>e. CASE Normalize
  <2>1. storage' = storage /\ samples' = samples
    BY <1>e DEF Normalize
  <2>2. CASE UNCHANGED <<content, page>>
    <3>1. PageOK'  BY <1>1, <1>2, <2>1, <2>2, PageStays
    <3> QED  BY <1>1, <1>2, <1>5, <2>1, <2>2, <3>1, ActDone
  <2>3. CASE ~UNCHANGED <<content, page>>
    <3>1. /\ content' = [i \in 1 .. MaxSamples |-> IF i <= samples THEN [content[i] EXCEPT !.scaled = TRUE] ELSE content[i]]
          /\ page' = Refreshed(page, SubSeq(content', 1, samples), MessageSees)
      BY <1>e, <2>3 DEF Normalize
    <3>2. content' = [i \in 1 .. MaxSamples |-> content'[i]]
      BY <3>1
    <3> DEFINE shown == SubSeq(content', 1, samples)
    <3>3. IsList(shown) /\ Len(shown) = samples /\ \A i \in 1 .. samples : shown[i] = content'[i]
      BY <1>2, FrontOfList
    <3>4. page' = Refreshed(page, shown, MessageSees)
      BY <3>1
    <3> HIDE DEF shown
    <3>5. Len(shown) <= samples' /\ \A i \in 1 .. Len(shown) : shown[i] = content'[i]
      BY <1>2, <2>1, <3>3
    <3>6. PageOK'  BY <1>3, <3>3, <3>4, <3>5, PageRefreshed
    <3> QED  BY <1>1, <1>2, <1>5, <2>1, <3>2, <3>6, ActDone
  <2> QED  BY <2>2, <2>3
<1>f. CASE Load
  <2>1. \/ UNCHANGED <<samples, storage, content, page>>
        \/ samples' = 0 /\ storage' = FALSE /\ content' = Blank /\ page' = Refreshed(page, <<>>, MessageSees)
    BY <1>f DEF Load, Release
  <2>2. CASE UNCHANGED <<samples, storage, content, page>>
    <3>1. PageOK'  BY <1>1, <1>2, <2>2, PageStays
    <3> QED  BY <1>1, <1>2, <1>5, <2>2, <3>1, ActDone
  <2>3. CASE samples' = 0 /\ storage' = FALSE /\ content' = Blank /\ page' = Refreshed(page, <<>>, MessageSees)
    BY <1>2, <1>3, <1>7, <2>3
  <2> QED  BY <2>1, <2>2, <2>3
<1>g. CASE Preview
  <2>1. UNCHANGED <<samples, storage, content, page>>
    BY <1>g DEF Preview, store
  <2>2. PageOK'  BY <1>1, <1>2, <2>1, PageStays
  <2> QED  BY <1>1, <1>2, <1>5, <2>1, <2>2, ActDone
<1> QED  BY <1>a, <1>b, <1>c, <1>d, <1>e, <1>f, <1>g DEF MessageActs

\* Whether stores are delayed or not, the page keeps showing the take.
LEMMA StepPage == PageInv /\ [Next]_vars => PageInv'
<1> SUFFICES ASSUME PageInv, [Next]_vars  PROVE PageInv'
  OBVIOUS
<1>1. ASSUME UNCHANGED vars  PROVE PageInv'
  BY <1>1 DEF vars, flags, store, PageInv, StoreOK, PageOK, LoadOffered, IsList
<1>2. ASSUME AudioStep  PROVE PageInv'
  BY <1>2, PageAudio
<1>3. ASSUME MessageActs  PROVE PageInv'
  BY <1>3, PageActs
<1>4. ASSUME \/ Tick \/ Stop \/ Drain \/ WaitForReaders
             \/ \E from, to \in 0 .. MaxSamples : Select(from, to)
             \/ \E what \in Calls : Call(what)
      PROVE  PageInv'
  BY <1>4, PageBeside
<1> QED  BY <1>1, <1>2, <1>3, <1>4 DEF Next

\* The page shows the beginning of the take whatever is captured behind its back.
THEOREM PageShowsTake == Spec => []PageInv
BY InitPage, StepPage, PTL DEF Spec

\* Only a load changes the sound.
LEMMA OnlyLoadLoads ==
  ASSUME [Next]_vars, loaded' # loaded
  PROVE  Load
BY DEF Next, vars, Tick, Stop, Drain, WaitForReaders, Select, Call, MessageActs, Start, Clear, Cut, Trim, Edit,
       Normalize, Preview, AudioStep, BeginBlock, Enter, Look, NoRoom, Write, Count, Leave, RenderOutput

\* What loadCapturedAudioAsSample() takes is the part of the page that is selected, or the take
\* from its beginning: the limits the code puts on the selection never change it, for every
\* length of a take, and for delayed stores as well.
THEOREM LoadsAreSelections == Spec => LoadIsSelection
<1>1. ASSUME PageInv, [Next]_vars, loaded' # loaded
      PROVE  IF Selected THEN loaded' = SubSeq(page.shown, page.from + 1, page.to)
                         ELSE IsPrefix(page.shown, loaded')
  <2> DEFINE total == samples
             shown == page.shown
             from == page.from
             to == page.to
             chosen == Selection(samples)
  <2>1. Load  BY <1>1, OnlyLoadLoads
  <2>2. storage /\ samples > 1 /\ loaded' = SubSeq(content, chosen[1] + 1, chosen[2]) /\ call.what = "load"
    BY <1>1, <2>1 DEF Load, Acts
  <2>3. /\ Len(shown) <= samples /\ \A i \in 1 .. Len(shown) : shown[i] = content[i]
        /\ Len(shown) \in Nat /\ to \in 0 .. Len(shown) /\ from \in 0 .. to
    BY <1>1, <2>2 DEF PageInv, PageOK, LoadOffered, IsList
  <2>4. samples \in Nat  BY <1>1, CaptureAssumption DEF PageInv, StoreOK
  <2>5. CASE Selected
    <3>1. to > from  BY <2>5 DEF Selected
    <3>2. Limited(0, samples - 1, from) = from
      BY <2>3, <2>4, <3>1 DEF Limited
    <3>3. Limited(from + 1, samples, to) = to
      BY <2>3, <2>4, <3>1 DEF Limited
    <3>4. ~(to <= from)  BY <2>3, <3>1
    <3>5. chosen = <<from, to>>
      BY <2>5, <3>2, <3>3, <3>4 DEF Selection
    <3> HIDE DEF chosen
    <3>6. loaded' = SubSeq(content, from + 1, to)
      BY <2>2, <3>5
    <3>7. from + 1 \in Int /\ to \in Int /\ \A i \in from + 1 .. to : content[i] = shown[i]
      BY <2>3
    <3>8. SubSeq(content, from + 1, to) = SubSeq(shown, from + 1, to)
      BY <3>7, SamePart
    <3> QED  BY <2>5, <3>6, <3>8
  <2>6. CASE ~Selected
    <3>1. Limited(0, samples - 1, 0) = 0 /\ Limited(0 + 1, samples, samples) = samples /\ ~(samples <= 0)
      BY <2>2, <2>4 DEF Limited
    <3>2. chosen = <<0, samples>>
      BY <2>6, <3>1 DEF Selection
    <3> HIDE DEF chosen
    <3>3. loaded' = SubSeq(content, 1, samples)
      <4>1. chosen[1] + 1 = 1 /\ chosen[2] = samples  BY <3>2
      <4> QED  BY <2>2, <4>1
    <3>4. Len(loaded') = samples /\ \A i \in 1 .. samples : loaded'[i] = content[i]
      BY <2>4, <3>3, FrontOfList
    <3>5. \A i \in 1 .. Len(shown) : shown[i] = loaded'[i]
      BY <2>3, <2>4, <3>4
    <3>6. SubSeq(shown, 1, Len(shown)) = SubSeq(loaded', 1, Len(shown))
      BY <2>3, <3>5, SamePart
    <3>7. IsPrefix(shown, loaded')
      BY <2>3, <3>4, <3>6 DEF IsPrefix
    <3> QED  BY <2>6, <3>7
  <2> QED  BY <2>5, <2>6
<1>2. ASSUME PageInv, [Next]_vars
      PROVE  [loaded' # loaded =>
                IF Selected THEN loaded' = SubSeq(page.shown, page.from + 1, page.to)
                            ELSE IsPrefix(page.shown, loaded')]_vars
  BY <1>1, <1>2
<1> QED  BY <1>2, PageShowsTake, PTL DEF Spec, LoadIsSelection

=============================================================================
