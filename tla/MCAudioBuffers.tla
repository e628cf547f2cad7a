--------------------------- MODULE MCAudioBuffers ---------------------------
(***************************************************************************)
(* Two buffers between the audio thread and the others: the input that it  *)
(* records and the pages of a sample that it streams.  They share no       *)
(* state: each is explored by itself, while the other rests where it       *)
(* begins.                                                                 *)
(***************************************************************************)
EXTENDS InputCapture, StreamPrimeCache

VARIABLE system  \* the one that runs

Runs(s) == system = s /\ UNCHANGED system

\* One address stands for all of them, and what rests is the same every time.
BufferInit ==
  /\ system \in {"capture", "stream"}
  /\ Init /\ StreamInit
  /\ published = CHOOSE a \in Addresses : TRUE
  /\ IF system = "stream" THEN ~delayed ELSE readable /\ playhead = 0

BufferNext ==
  \/ Runs("capture") /\ Next /\ UNCHANGED streamVars
  \/ Runs("stream") /\ StreamNext /\ UNCHANGED vars

\* The fairness of the two, each for the behaviours in which it runs.
BufferFairness ==
  /\ WF_vars(Runs("capture") /\ AudioStep)
  /\ WF_vars(Runs("capture") /\ WaitForReaders)
  /\ WF_vars(Runs("capture") /\ Drain)
  /\ WF_streamVars(Runs("stream") /\ LoadPointer)
  /\ WF_streamVars(Runs("stream") /\ Lookup)
  /\ \A t \in Servicers :
       WF_streamVars(Runs("stream") /\ (LookupZoneStart(t) \/ ServiceStep(t)))

BufferSpec == BufferInit /\ [][BufferNext]_<<system, vars, streamVars>> /\ BufferFairness

=============================================================================
