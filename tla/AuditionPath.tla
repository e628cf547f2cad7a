---------------------------- MODULE AuditionPath ----------------------------
(***************************************************************************)
(* Notes auditioned in the editor, on their way to the engine: the message *)
(* thread pushes them into a MidiFifo, asks for a panic and starts and     *)
(* stops previews; the audio thread's processBlock drains the FIFO, takes  *)
(* the panic latch and renders, unless a preview plays.  Every event is a  *)
(* note of its own that sounds until a panic.                              *)
(***************************************************************************)
EXTENDS MidiFifo

CONSTANTS MaxPanics, MaxPreviews  \* bounds on the panics and previews

ASSUME PathAssumption == MaxPanics \in Nat /\ MaxPreviews \in Nat

VARIABLES panicRequested,  \* panicRequested_
          wavePlaying,     \* previewWavePlaying_ (it loops until it is stopped)
          samplePlaying,   \* samplePreviewPlaying_ (it ends by itself)
          request,         \* where the message thread is in a panic or a preview
          phase,           \* where the audio thread is in processBlock
          sounding,        \* the notes the engine holds
          heard,           \* the notes that sounded at the last panic
          panics, previews \* counters for the bounds

flags == <<panicRequested, wavePlaying, samplePlaying>>
history == <<heard, panics, previews>>
vars == <<fifo, flags, request, phase, sounding, history>>

\* The engine never gets an event from a slot that was not written.
PathTypeOK ==
  /\ TypeOK
  /\ flags \in BOOLEAN \X BOOLEAN \X BOOLEAN
  /\ request \in {"none", "panic", "panicForSample", "play"}
  /\ phase \in {"away", "checkSample", "preview", "drain", "latch", "render"}
  /\ sounding \subseteq Events \ {0}
  /\ heard \subseteq Events
  /\ panics \in 0 .. MaxPanics /\ previews \in 0 .. MaxPreviews

PathInit ==
  /\ Init
  /\ panicRequested = FALSE /\ wavePlaying = FALSE /\ samplePlaying = FALSE
  /\ request = "none" /\ phase = "away"
  /\ sounding = {} /\ heard = {}
  /\ panics = 0 /\ previews = 0

-----------------------------------------------------------------------------
(* The message thread.                                                     *)

PushNote ==
  /\ request = "none"
  /\ Push
  /\ UNCHANGED <<flags, request, phase, sounding, history>>

\* panicAllAudio() first stops both previews; it is also how a file's preview begins.
BeginPanic ==
  /\ request = "none" /\ ppc = "idle" /\ panics < MaxPanics
  /\ panics' = panics + 1
  /\ \/ request' = "panic" /\ UNCHANGED previews
     \/ /\ request' = "panicForSample"
        /\ previews < MaxPreviews /\ previews' = previews + 1
  /\ wavePlaying' = FALSE /\ samplePlaying' = FALSE
  /\ UNCHANGED <<fifo, panicRequested, phase, sounding, heard>>

SetLatch ==
  /\ request \in {"panic", "panicForSample"}
  /\ panicRequested' = TRUE
  /\ request' = IF request = "panic" THEN "none" ELSE "play"
  /\ heard' = sounding
  /\ UNCHANGED <<fifo, wavePlaying, samplePlaying, phase, sounding, panics, previews>>

PlaySample ==
  /\ request = "play"
  /\ samplePlaying' = TRUE
  /\ request' = "none"
  /\ UNCHANGED <<fifo, panicRequested, wavePlaying, phase, sounding, history>>

\* startGeneratedWaveformPreview() asks for no panic.
PlayWave ==
  /\ request = "none" /\ ppc = "idle" /\ previews < MaxPreviews
  /\ previews' = previews + 1
  /\ samplePlaying' = FALSE /\ wavePlaying' = TRUE
  /\ UNCHANGED <<fifo, panicRequested, request, phase, sounding, heard, panics>>

\* stopGeneratedWaveformPreview() and stopAuditionPreview().
StopPreview ==
  /\ request = "none" /\ ppc = "idle" /\ (wavePlaying \/ samplePlaying)
  /\ \/ wavePlaying' = FALSE /\ UNCHANGED samplePlaying
     \/ samplePlaying' = FALSE /\ UNCHANGED wavePlaying
  /\ UNCHANGED <<fifo, panicRequested, request, phase, sounding, history>>

-----------------------------------------------------------------------------
(* The audio thread: processBlock.                                         *)

CheckWave ==
  /\ phase = "away"
  /\ phase' = IF wavePlaying THEN "preview" ELSE "checkSample"
  /\ UNCHANGED <<fifo, flags, request, sounding, history>>

\* Mutant: a block that only plays a preview takes the latch as well.
CheckSample_TakesLatch ==
  /\ phase = "checkSample"
  /\ phase' = IF samplePlaying THEN "preview" ELSE "drain"
  /\ panicRequested' = (panicRequested /\ ~samplePlaying)
  /\ UNCHANGED <<fifo, wavePlaying, samplePlaying, request, sounding, history>>

CheckSample ==
  /\ phase = "checkSample"
  /\ phase' = IF samplePlaying THEN "preview" ELSE "drain"
  /\ UNCHANGED <<fifo, flags, request, sounding, history>>

\* The block returns early; the sample's preview may have come to its end.
PreviewBlock ==
  /\ phase = "preview"
  /\ phase' = "away"
  /\ \/ UNCHANGED samplePlaying
     \/ samplePlaying /\ samplePlaying' = FALSE
  /\ UNCHANGED <<fifo, panicRequested, wavePlaying, request, sounding, history>>

Drain ==
  /\ phase = "drain"
  /\ PopLoad \/ PopFound \/ PopCopy \/ PopAdvance
  /\ Remember
  /\ sounding' = IF cpc = "advance" THEN sounding \cup {out} ELSE sounding
  /\ heard' = IF cpc = "advance" /\ overlapped THEN heard \ {out} ELSE heard
  /\ UNCHANGED <<flags, request, phase, panics, previews>>

DrainEnd ==
  /\ phase = "drain"
  /\ PopEmpty
  /\ Remember
  /\ phase' = "latch"
  /\ UNCHANGED <<flags, request, sounding, history>>

\* Mutant: only a block without notes takes the latch.
TakeLatch_WhenSilent ==
  /\ phase = "latch"
  /\ panicRequested' = (panicRequested /\ sounding # {})
  /\ phase' = "render"
  /\ UNCHANGED <<fifo, wavePlaying, samplePlaying, request, sounding, history>>

TakeLatch ==
  /\ phase = "latch"
  /\ panicRequested' = FALSE
  /\ IF panicRequested
     THEN sounding' = {}
     ELSE UNCHANGED sounding
  /\ phase' = "render"
  /\ UNCHANGED <<fifo, wavePlaying, samplePlaying, request, heard, panics, previews>>

EndBlock ==
  /\ phase = "render"
  /\ phase' = "away"
  /\ UNCHANGED <<fifo, flags, request, sounding, history>>

-----------------------------------------------------------------------------
MessageStep == PushNote \/ BeginPanic \/ SetLatch \/ PlaySample \/ PlayWave \/ StopPreview
AudioStep == CheckWave \/ CheckSample \/ PreviewBlock \/ Drain \/ DrainEnd
               \/ TakeLatch \/ EndBlock

PathNext == MessageStep \/ AudioStep

\* The host keeps calling processBlock, a call of the message thread returns, and a file's
\* preview comes to its end.
SampleEnds == PreviewBlock /\ samplePlaying /\ ~samplePlaying'
PathFairness == WF_vars(AudioStep) /\ WF_vars(PushNote) /\ SF_vars(SampleEnds)

PathSpec == PathInit /\ [][PathNext]_vars /\ PathFairness

-----------------------------------------------------------------------------
(* Properties *)

\* The latch is the memory of the panic: as long as a note that sounded when the panic was
\* requested still sounds, the request is pending, whatever previews come in between.  (A note that
\* a ring with overlaps delivers once more sounds anew.)
LatchOutlivesNotes == heard \cap sounding # {} => panicRequested

\* A panic is lossless: it is taken, unless a looping preview keeps the engine from running.
PanicIsTaken == panicRequested ~> (~panicRequested \/ wavePlaying)

-----------------------------------------------------------------------------
(* The inductive invariant.                                                *)

\* What sounds or sounded was pushed, was taken from the FIFO and does not come again.
Behind ==
  \A n \in sounding \cup heard :
    n <= Accepted /\ \A i \in 1 .. Len(Backlog) : n < Backlog[i]

PathInv ==
  /\ RingInv
  /\ \A n \in sounding \cup heard : n \in Nat /\ n <= pushed
  /\ ~overlapped => Behind
  /\ LatchOutlivesNotes

=============================================================================
