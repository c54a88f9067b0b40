--------------------------- MODULE SpeechCapture ---------------------------
(***************************************************************************)
(* The speech capture (speech-capture/src/lib.rs) and its client, the      *)
(* application: the microphone callback fills an unbounded channel, a      *)
(* worker thread reads it hop by hop, segments it, has Whisper transcribe  *)
(* what was said so far and what was said, and calls the application back; *)
(* the application starts, stops, resets and aborts it through flags, and  *)
(* shows what the callback wrote.  All of these run concurrently.          *)
(*                                                                         *)
(* The channel always holds the hops after the last one the worker took,   *)
(* up to the last one captured.  The number of captured hops is the clock. *)
(***************************************************************************)
EXTENDS VadSegmenter, Sequences

CONSTANTS
  MinAudio,        \* min_audio_ms of the speech filter, in hops
  InterimEvery,    \* interim_interval_ms, in hops
  MaxEntries       \* how many transcripts the application keeps

ASSUME SpeechAssumption ==
  MinAudio \in Nat /\ InterimEvery \in Nat /\ MaxEntries \in Nat \ {0}

VARIABLES
  main,         \* the application's thread: "idle", or in reset, stop or join
  running,      \* the AtomicBool running
  resetFlag,    \* the AtomicBool reset_flag
  abortFlag,    \* the AtomicBool whisper_abort
  heartbeat,    \* whisper_heartbeat was stored since the last hop was captured
  mic,          \* the stream is open and holds the sender of the channel
  captured,     \* the number of the last captured hop
  pc,           \* the worker thread, "none" if there is none
  taken,        \* the last hop that left the channel
  voice,        \* the voice detector's verdict on the hop in hand
  engine,       \* Whisper could be initialised
  lastInterim,  \* last_interim_time
  vadActive,    \* the application's speech state: vad_active,
  interim,      \*   interim_text, as the utterance it is from (0: empty),
  log,          \*   and log_entries, as the utterances they are of
  heard,        \* history: what the callback was told, see SpeechEvents
  skipped,      \* history: the hops of the utterance the detector failed on
  resetAt,      \* history: the last hop captured when reset() was called last
  aborted       \* history: abort_whisper() was called during this inference

clientVars == <<main, running, mic>>
flagVars   == <<resetFlag, abortFlag, heartbeat>>
workerVars == <<pc, taken, voice, engine, lastInterim>>
shownVars  == <<vadActive, interim, log>>
ghostVars  == <<heard, skipped, resetAt, aborted>>
vars == <<segmenterVars, clientVars, flagVars, captured, workerVars, shownVars, ghostVars>>

Inference == {"interim", "final"}
Alive     == pc \notin {"none", "exited"}

TypeOK ==
  /\ SegmenterTypeOK
  /\ main \in {"idle", "resetting", "stopping", "joining"}
  /\ running \in BOOLEAN /\ resetFlag \in BOOLEAN /\ abortFlag \in BOOLEAN
  /\ mic \in BOOLEAN /\ voice \in BOOLEAN /\ engine \in BOOLEAN
  /\ heartbeat \in BOOLEAN /\ captured \in 0..MaxHops /\ taken \in 0..captured
  /\ pc \in {"none", "init", "top", "flush", "recv", "hop", "interim", "feed",
             "final", "exited"}
  /\ lastInterim \in 0..taken
  /\ vadActive \in BOOLEAN /\ interim \in 0..MaxHops
  /\ log \in Seq(Hops) /\ Len(log) <= MaxEntries
  /\ heard \in [open : BOOLEAN, first : 0..MaxHops, spoken : 0..MaxHops, closed : 0..MaxHops]
  /\ skipped \in SUBSET Hops /\ resetAt \in 0..captured /\ aborted \in BOOLEAN

Init ==
  /\ seg = Quiet /\ buffer = {} /\ event = NoEvent
  /\ main = "idle" /\ running = FALSE /\ mic = FALSE
  /\ resetFlag = FALSE /\ abortFlag = FALSE /\ heartbeat = FALSE
  /\ captured = 0
  /\ pc = "none" /\ taken = 0 /\ voice = FALSE /\ engine = FALSE /\ lastInterim = 0
  /\ vadActive = FALSE /\ interim = 0 /\ log = <<>>
  /\ heard = [open |-> FALSE, first |-> 0, spoken |-> 0, closed |-> 0]
  /\ skipped = {} /\ resetAt = 0 /\ aborted = FALSE

----------------------------------------------------------------------------
(* The application's thread.                                                *)

\* start(): the stream opens and the worker is spawned.  A stream that does
\* not open leaves everything as it is.
Start ==
  /\ main = "idle" /\ pc = "none"
  /\ mic' = TRUE
  /\ running' = TRUE
  /\ pc' = "init"
  /\ taken' = captured
  /\ UNCHANGED <<segmenterVars, main, flagVars, captured, voice, engine, lastInterim,
                 shownVars, ghostVars>>

\* ResetSpeech: reset(), then the application clears what it shows.
Reset ==
  /\ main = "idle"
  /\ resetFlag' = TRUE
  /\ resetAt' = captured
  /\ main' = "resetting"
  /\ UNCHANGED <<segmenterVars, running, mic, abortFlag, heartbeat, captured, workerVars,
                 shownVars, heard, skipped, aborted>>

ResetShown ==
  /\ main = "resetting"
  /\ vadActive' = FALSE
  /\ interim' = 0
  /\ main' = "idle"
  /\ UNCHANGED <<segmenterVars, running, mic, flagVars, captured, workerVars, log,
                 ghostVars>>

\* AbortWhisper.
AbortWhisper ==
  /\ main = "idle"
  /\ abortFlag' = TRUE
  /\ aborted' = (aborted \/ pc \in Inference)
  /\ UNCHANGED <<segmenterVars, clientVars, resetFlag, heartbeat, captured, workerVars,
                 shownVars, heard, skipped, resetAt>>

\* Mutant of Stop: the handle is joined before the worker is told to stop.
StopUntold ==
  /\ main = "idle" /\ pc # "none"
  /\ main' = "joining"
  /\ UNCHANGED <<segmenterVars, running, mic, flagVars, captured, workerVars, shownVars,
                 ghostVars>>

\* stop() and drop: running is cleared, the stream closed, the worker joined.
Stop ==
  /\ main = "idle" /\ pc # "none"
  /\ running' = FALSE
  /\ main' = "stopping"
  /\ UNCHANGED <<segmenterVars, mic, flagVars, captured, workerVars, shownVars, ghostVars>>

StopCapture ==
  /\ main = "stopping"
  /\ mic' = FALSE
  /\ main' = "joining"
  /\ UNCHANGED <<segmenterVars, running, flagVars, captured, workerVars, shownVars,
                 ghostVars>>

\* Mutant of Join: the worker is not waited for.
JoinNot ==
  /\ main = "joining"
  /\ pc' = IF pc = "exited" THEN "none" ELSE pc
  /\ main' = "idle"
  /\ UNCHANGED <<segmenterVars, running, mic, flagVars, captured, taken, voice, engine,
                 lastInterim, shownVars, ghostVars>>

Join ==
  /\ main = "joining"
  /\ pc = "exited"
  /\ pc' = "none"
  /\ main' = "idle"
  /\ UNCHANGED <<segmenterVars, running, mic, flagVars, captured, taken, voice, engine,
                 lastInterim, shownVars, ghostVars>>

\* The microphone's callback; without a receiver the hop is lost.
MicFrame ==
  /\ mic
  /\ captured < MaxHops
  /\ captured' = captured + 1
  /\ taken' = IF Alive THEN taken ELSE captured'
  /\ heartbeat' = FALSE
  /\ UNCHANGED <<segmenterVars, clientVars, resetFlag, abortFlag, pc, voice, engine, lastInterim,
                 shownVars, ghostVars>>

----------------------------------------------------------------------------
(* The worker thread.                                                       *)

Exit == pc' = "exited" /\ taken' = captured

\* The detector may not be created (the thread ends, and running stays true);
\* the engine may not be loaded (there are no transcripts).
WorkerInit ==
  /\ pc = "init"
  /\ NewSegmenter
  /\ lastInterim' = 0
  /\ skipped' = {}
  /\ \/ Exit /\ UNCHANGED engine
     \/ /\ engine' \in BOOLEAN
        /\ pc' = "top"
        /\ UNCHANGED taken
  /\ UNCHANGED <<clientVars, flagVars, captured, voice, shownVars, heard, resetAt, aborted>>

\* The head of the loop: running, then the reset flag.
WorkerTop ==
  /\ pc = "top"
  /\ IF ~running
       THEN Exit /\ UNCHANGED resetFlag
       ELSE /\ resetFlag' = FALSE
            /\ pc' = IF resetFlag THEN "flush" ELSE "recv"
            /\ UNCHANGED taken
  /\ UNCHANGED <<segmenterVars, clientVars, abortFlag, heartbeat, captured, voice, engine,
                 lastInterim, shownVars, ghostVars>>

\* Mutant of WorkerFlush: what waits in the channel is kept.
WorkerFlushBuffersOnly ==
  /\ pc = "flush"
  /\ NewSegmenter
  /\ lastInterim' = 0
  /\ skipped' = {}
  /\ pc' = "top"
  /\ UNCHANGED <<clientVars, flagVars, captured, taken, voice, engine, shownVars, heard,
                 resetAt, aborted>>

\* A reset: the channel is drained, the buffers and the segmenter are new.
WorkerFlush ==
  /\ pc = "flush"
  /\ taken' = captured
  /\ NewSegmenter
  /\ lastInterim' = 0
  /\ skipped' = {}
  /\ pc' = "top"
  /\ UNCHANGED <<clientVars, flagVars, captured, voice, engine, shownVars, heard, resetAt,
                 aborted>>

\* Mutant of WorkerRecv: recv instead of recv_timeout.
WorkerRecvForever ==
  /\ pc = "recv"
  /\ \/ taken < captured /\ taken' = taken + 1 /\ pc' = "hop"
     \/ taken = captured /\ ~mic /\ Exit
  /\ UNCHANGED <<segmenterVars, clientVars, flagVars, captured, voice, engine, lastInterim,
                 shownVars, ghostVars>>

\* recv_timeout: a hop, a timeout, or a channel without a sender.
WorkerRecv ==
  /\ pc = "recv"
  /\ \/ taken < captured /\ taken' = taken + 1 /\ pc' = "hop"
     \/ taken = captured /\ mic /\ pc' = "top" /\ UNCHANGED taken
     \/ taken = captured /\ ~mic /\ Exit
  /\ UNCHANGED <<segmenterVars, clientVars, flagVars, captured, voice, engine, lastInterim,
                 shownVars, ghostVars>>

\* Mutant of BeginInference: an abort from before is not cleared.
BeginInferenceStale ==
  /\ heartbeat' = TRUE
  /\ aborted' = FALSE
  /\ UNCHANGED abortFlag

\* transcribe_with_prob begins: the abort flag is cleared, the heart beats once.
BeginInference ==
  /\ abortFlag' = FALSE
  /\ heartbeat' = TRUE
  /\ aborted' = FALSE

\* The detector looks at the hop.  Before the segmenter gets it, an utterance
\* that lasts may be due for an interim transcript.
WorkerHop ==
  /\ pc = "hop"
  /\ voice' \in BOOLEAN
  /\ IF engine /\ IsSpeaking /\ taken - lastInterim >= InterimEvery /\ buffer # {}
       THEN BeginInference /\ pc' = "interim"
       ELSE pc' = "feed" /\ UNCHANGED <<abortFlag, heartbeat, aborted>>
  /\ UNCHANGED <<segmenterVars, clientVars, resetFlag, captured, taken, engine, lastInterim,
                 shownVars, heard, skipped, resetAt>>

\* The detector fails: the hop is dropped with a warning.
WorkerHopFails ==
  /\ pc = "hop"
  /\ skipped' = IF IsSpeaking THEN skipped \cup {taken} ELSE skipped
  /\ pc' = "top"
  /\ UNCHANGED <<segmenterVars, clientVars, flagVars, captured, taken, voice, engine,
                 lastInterim, shownVars, heard, resetAt, aborted>>

\* The interim inference returns: a text that is not empty is shown.  An
\* aborted, failed or empty one is not.
WorkerInterim ==
  /\ pc = "interim"
  /\ \/ /\ ~abortFlag
        /\ interim' = seg.start
        /\ heard' = [heard EXCEPT !.spoken = taken - 1]
     \/ UNCHANGED <<interim, heard>>
  /\ lastInterim' = taken
  /\ pc' = "feed"
  /\ UNCHANGED <<segmenterVars, clientVars, flagVars, captured, taken, voice, engine,
                 vadActive, log, skipped, resetAt, aborted>>

\* The callback on VoiceStart.
CallVoiceStart ==
  /\ vadActive' = TRUE
  /\ heard' = [heard EXCEPT !.open = TRUE, !.first = taken]
  /\ UNCHANGED <<interim, log>>

\* The callback on VoiceEnd, with the log as it will be.
CallVoiceEnd(entry) ==
  /\ vadActive' = FALSE
  /\ interim' = 0
  /\ log' = entry
  /\ heard' = [heard EXCEPT !.open = FALSE, !.spoken = taken, !.closed = taken]

\* push_transcript_dual_latency: at MaxEntries the oldest entry goes.
Pushed ==
  LET longer == Append(log, heard.first)
  IN  IF Len(longer) > MaxEntries THEN Tail(longer) ELSE longer

\* The segmenter gets the hop, and its event is passed on.  The end of an
\* utterance goes to Whisper unless the speech filter finds no speech in it or
\* it is shorter than MinAudio; then it is reported without a transcript.
WorkerFeed ==
  /\ pc = "feed"
  /\ IF voice THEN FeedVoice(taken) ELSE FeedSilence(taken)
  /\ voice' = FALSE
  /\ \/ /\ event'.kind = "none"
        /\ pc' = "top"
        /\ UNCHANGED <<abortFlag, heartbeat, aborted, vadActive, interim, log, heard, lastInterim>>
     \/ /\ event'.kind = "start"
        /\ CallVoiceStart
        /\ pc' = "top"
        /\ UNCHANGED <<abortFlag, heartbeat, aborted, lastInterim>>
     \/ /\ event'.kind = "end"
        /\ engine /\ event'.duration >= MinAudio
        /\ BeginInference
        /\ pc' = "final"
        /\ UNCHANGED <<vadActive, interim, log, heard, lastInterim>>
     \/ /\ event'.kind = "end"
        /\ CallVoiceEnd(log)
        /\ lastInterim' = IF engine THEN 0 ELSE lastInterim
        /\ pc' = "top"
        /\ UNCHANGED <<abortFlag, heartbeat, aborted>>
  /\ skipped' = IF seg'.state = "idle" /\ pc' # "final" THEN {} ELSE skipped
  /\ UNCHANGED <<clientVars, resetFlag, captured, taken, engine, resetAt>>

\* The final inference returns: a text, empty if aborted, goes to the log; a
\* failure is reported without one.
WorkerFinal ==
  /\ pc = "final"
  /\ \/ CallVoiceEnd(Pushed)
     \/ ~abortFlag /\ CallVoiceEnd(log)
  /\ event' = NoEvent
  /\ skipped' = {}
  /\ lastInterim' = 0
  /\ pc' = "top"
  /\ UNCHANGED <<seg, buffer, clientVars, flagVars, captured, taken, voice, engine,
                 resetAt, aborted>>

Worker == WorkerInit \/ WorkerTop \/ WorkerFlush \/ WorkerRecv \/ WorkerHop \/ WorkerHopFails
          \/ WorkerInterim \/ WorkerFeed \/ WorkerFinal
Client == Start \/ Reset \/ ResetShown \/ AbortWhisper \/ Stop \/ StopCapture
          \/ Join

Next == Client \/ MicFrame \/ Worker

\* The worker waits in recv_timeout only, and an inference returns in the end;
\* the application finishes what it began.  Nothing makes the user act, and
\* nothing makes the microphone deliver.
Fairness ==
  /\ WF_vars(Worker)
  /\ WF_vars(ResetShown \/ StopCapture \/ Join)

Spec     == Init /\ [][Next]_vars
FairSpec == Spec /\ Fairness

----------------------------------------------------------------------------
(* Properties.                                                              *)

\* The hops the worker still has to do with: queued, in hand, in the buffer, or
\* in an event on its way to the callback.
Pending ==
  (IF Alive THEN (taken + 1)..captured ELSE {})
  \cup (IF pc \in {"hop", "interim", "feed"} THEN {taken} ELSE {})
  \cup buffer \cup (IF pc = "final" THEN event.audio ELSE {})

\* A reset takes everything with it that was captured before it was called:
\* once the worker has seen the flag, nothing of it is in the channel, in the
\* buffers or on its way, however late the flag was seen and whatever was
\* captured meanwhile (lib.rs 138-140 and 285-331).
ResetDropsTheOld ==
  Alive /\ ~resetFlag /\ pc \notin {"init", "flush"} => \A t \in Pending : t > resetAt

\* An utterance is whole: its audio is every hop since it opened, across pauses
\* and interim transcripts, except those the detector failed on
\* (segmenter.rs 110-195, lib.rs 354-398).
UtteranceIsWhole ==
  /\ pc = "recv" /\ IsSpeaking => buffer = (seg.start..taken) \ skipped
  /\ pc = "final" => event.audio = (heard.first..taken) \ skipped

\* The events keep the protocol of SpeechEvents, across resets, restarts,
\* discarded utterances and aborted or failed inferences.
Events == INSTANCE SpeechEvents WITH open <- heard.open, first <- heard.first,
                                     spoken <- heard.spoken, closed <- heard.closed
ImplementsEvents == Events!Spec

\* The interim text shown is never that of an utterance already reported
\* (init.rs 632-651).
InterimIsOpen == interim # 0 => interim > heard.closed

\* An abort hits the inference that runs when it is called, and no later one,
\* although the flag is shared and may be set at any time (whisper_engine.rs 81,
\* 109-115; lib.rs 592-594).
AbortHitsCurrentInference == pc \in Inference => (abortFlag <=> aborted)

\* After stop() returned, the callback is not called any more (lib.rs 565-571).
StopSilences ==
  [][main = "idle" /\ ~running => UNCHANGED <<heard, log>> /\ ~(vadActive' /\ ~vadActive)]_vars

\* stop() returns, also in the middle of an inference or a reset, and while the
\* microphone goes on (lib.rs 565-571).
StopReturns == main \in {"stopping", "joining"} ~> main = "idle"

\* A worker that lives sees a reset or ends, even if no more audio comes
\* (lib.rs 283-337).
ResetIsSeen == resetFlag /\ Alive ~> ~resetFlag \/ ~Alive

\* lib.rs 136-137 says of reset(): "flush all queues, cancel pending processing,
\* and return to idle state".
ResetReturnsToIdle ==
  pc = "recv" /\ ~resetFlag /\ main = "idle" /\ ~IsSpeaking => ~vadActive /\ interim = 0

============================================================================
