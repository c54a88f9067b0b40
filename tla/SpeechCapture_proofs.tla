------------------------ MODULE SpeechCapture_proofs ------------------------
(***************************************************************************)
(* What the speech capture guarantees for every number of hops, every      *)
(* timeout, interval and log length, and every answer of the detectors.    *)
(* The inductive invariant is TypeOK with the named parts below: Told and  *)
(* ToldBefore carry the rest, each property adds the part it needs.        *)
(***************************************************************************)
EXTENDS SpeechCapture, TLAPS

InHand  == pc \in {"hop", "interim", "feed"}
Working == Alive /\ pc # "init"

\* The utterance the worker is in is the one the callback was told of.
Told ==
  /\ Working /\ IsSpeaking => heard.open /\ heard.first = seg.start
  /\ pc = "interim" => IsSpeaking
  /\ pc = "final" => ~IsSpeaking /\ heard.open

\* What the callback was told is older than the hop in hand.
ToldBefore ==
  /\ heard.first <= taken /\ heard.spoken <= taken /\ heard.closed <= taken
  /\ heard.open => heard.first > heard.closed /\ heard.first \in Hops
  /\ InHand \/ pc = "final" =>
       taken >= 1 /\ heard.first < taken /\ heard.spoken < taken /\ heard.closed < taken

\* Without a living worker the channel is empty, and until a new worker looks
\* at the flag, a reset was made before its channel was.
ResetSeen ==
  /\ ~Alive => taken = captured
  /\ pc = "init" /\ ~resetFlag => taken >= resetAt

\* The last hop the segmenter has seen.
Fed == IF InHand THEN taken - 1 ELSE taken

\* UtteranceIsWhole, wherever the worker is.
WholeSoFar ==
  /\ Working => \A t \in skipped : t <= Fed
  /\ Working /\ IsSpeaking => buffer = (seg.start..Fed) \ skipped
  /\ pc = "final" => event.audio = (heard.first..taken) \ skipped

\* stop() joined the worker before it returned.
Joined == main \in {"idle", "resetting"} /\ ~running => pc = "none"

----------------------------------------------------------------------------
(* What a hop does to the segmenter, whatever the verdicts.                 *)

StaysQuiet   == seg.state = "idle" /\ seg' = Quiet /\ buffer' = {} /\ event' = NoEvent
Opens(t)     == seg.state = "idle" /\ seg'.state = "speaking" /\ seg'.start = t
                /\ buffer' = {t} /\ event' = [NoEvent EXCEPT !.kind = "start"]
Grows(t)     == IsSpeaking /\ seg'.state # "idle" /\ seg'.start = seg.start
                /\ buffer' = buffer \cup {t} /\ event' = NoEvent
Discards     == IsSpeaking /\ seg' = Quiet /\ buffer' = {} /\ event' = NoEvent
Closes(t)    == IsSpeaking /\ seg' = Quiet /\ buffer' = {}
                /\ t - seg.start \in 0..MaxHops
                /\ event' = [kind |-> "end", audio |-> buffer \cup {t},
                             duration |-> t - seg.start]

\* An utterance that is over is discarded or reported (segmenter.rs finish).
LEMMA FinishCases ==
  ASSUME SegmenterTypeOK, NEW t \in Hops, IsSpeaking, Finish(t)
  PROVE  Discards \/ Closes(t)
<1>1. seg.start \in Hops
  BY DEF SegmenterTypeOK, IsSpeaking
<1> QED
  BY <1>1, MaxHopsAssumption, TimeoutsAssumption
  DEF Finish, Discards, Closes, Hops

\* One hop leaves the segmenter quiet, opens an utterance, adds to it, or ends
\* it with or without a report; it keeps its types.
LEMMA FeedCases ==
  ASSUME SegmenterTypeOK, NEW t \in Hops, FeedVoice(t) \/ FeedSilence(t)
  PROVE  /\ StaysQuiet \/ Opens(t) \/ Grows(t) \/ Discards \/ Closes(t)
         /\ SegmenterTypeOK'
<1> DEFINE Segs   == [state : {"idle", "speaking", "trailing"}, start : 0..MaxHops,
                     silence : 0..MaxHops, incomplete : BOOLEAN]
           Events0 == [kind : {"none", "start", "end"}, audio : SUBSET Hops,
                       duration : 0..MaxHops]
<1> USE MaxHopsAssumption, TimeoutsAssumption DEF Hops
<1>0. seg \in Segs /\ buffer \in SUBSET Hops /\ t \in 0..MaxHops /\ Quiet \in Segs
      /\ NoEvent \in Events0 /\ (IsSpeaking => seg.start \in buffer)
  BY DEF SegmenterTypeOK, IsSpeaking, Quiet, NoEvent
<1>q. ASSUME seg' = Quiet, buffer' = {}, event' \in Events0
      PROVE  SegmenterTypeOK'
  BY <1>q, <1>0 DEF SegmenterTypeOK, Quiet
<1>s. ASSUME seg' \in Segs, seg'.state # "idle", seg'.start \in buffer',
             seg'.state = "speaking" => seg'.silence = 0 /\ ~seg'.incomplete,
             buffer' \in SUBSET Hops, event' \in Events0
      PROVE  SegmenterTypeOK'
  BY <1>s DEF SegmenterTypeOK
<1>1. CASE VoiceBegins(t)
  <2>1. seg' = [state |-> "speaking", start |-> t, silence |-> 0, incomplete |-> FALSE]
    BY <1>1 DEF VoiceBegins, Quiet
  <2>2. Opens(t)
    BY <1>1, <2>1 DEF VoiceBegins, Opens
  <2>3. event' \in Events0
    BY <1>1 DEF VoiceBegins, NoEvent
  <2>4. seg' \in Segs
    BY <1>0, <2>1
  <2>5. buffer' \in SUBSET Hops /\ seg'.start \in buffer'
    BY <1>1, <2>1 DEF VoiceBegins
  <2>6. SegmenterTypeOK'
    BY <1>s, <2>1, <2>3, <2>4, <2>5
  <2> QED
    BY <2>2, <2>6
<1>2. CASE VoiceGoesOn(t)
  <2>1. seg' = [state |-> "speaking", start |-> seg.start, silence |-> 0, incomplete |-> FALSE]
    BY <1>0, <1>2 DEF VoiceGoesOn
  <2>2. Grows(t)
    BY <1>2, <2>1 DEF VoiceGoesOn, Grows
  <2>3. seg' \in Segs
    BY <1>0, <2>1
  <2>4. buffer' \in SUBSET Hops /\ seg'.start \in buffer'
    BY <1>0, <1>2, <2>1 DEF VoiceGoesOn
  <2>5. SegmenterTypeOK'
    BY <1>0, <1>2, <1>s, <2>1, <2>3, <2>4 DEF VoiceGoesOn
  <2> QED
    BY <2>2, <2>5
<1>3. CASE SilenceGoesOn
  <2>1. StaysQuiet
    BY <1>3 DEF SilenceGoesOn, StaysQuiet, SegmenterTypeOK
  <2>2. SegmenterTypeOK'
    BY <1>0, <1>q, <2>1 DEF StaysQuiet
  <2> QED
    BY <2>1, <2>2
<1>4. ASSUME IsSpeaking, Finish(t)
      PROVE  (Discards \/ Closes(t)) /\ SegmenterTypeOK'
  <2>1. Discards \/ Closes(t)
    BY <1>4, FinishCases
  <2>2. CASE Discards
    BY <1>0, <1>q, <2>1, <2>2 DEF Discards
  <2>3. CASE Closes(t)
    <3>1. event' \in Events0
      BY <1>0, <2>3 DEF Closes
    <3> QED
      BY <1>q, <2>1, <2>3, <3>1 DEF Closes
  <2> QED
    BY <2>1, <2>2, <2>3
<1>5. ASSUME IsSpeaking, seg' \in Segs, seg'.state = "trailing", seg'.start = seg.start,
             buffer' = buffer \cup {t}, event' = NoEvent
      PROVE  Grows(t) /\ SegmenterTypeOK'
  <2>1. Grows(t)
    BY <1>5 DEF Grows
  <2>2. buffer' \in SUBSET Hops /\ seg'.start \in buffer'
    BY <1>0, <1>5
  <2> QED
    BY <1>0, <1>5, <1>s, <2>1, <2>2
<1>6. CASE SilenceBegins(t)
  <2>1. IsSpeaking
    BY <1>6 DEF SilenceBegins, IsSpeaking
  <2>2. CASE Finish(t)
    BY <1>4, <2>1, <2>2
  <2>3. ASSUME NEW verdict \in EtdVerdicts,
               seg' = [seg EXCEPT !.state = "trailing", !.silence = t,
                                  !.incomplete = verdict = "incomplete"],
               buffer' = buffer \cup {t}, event' = NoEvent
        PROVE  Grows(t) /\ SegmenterTypeOK'
    <3>1. seg' = [state |-> "trailing", start |-> seg.start, silence |-> t,
                  incomplete |-> (verdict = "incomplete")]
      BY <1>0, <2>3
    <3>2. (verdict = "incomplete") \in BOOLEAN
      OBVIOUS
    <3>3. seg' \in Segs
      BY <1>0, <3>1, <3>2
    <3> QED
      BY <1>5, <2>1, <2>3, <3>1, <3>3
  <2> QED
    BY <1>6, <2>2, <2>3 DEF SilenceBegins
<1>7. CASE SilenceLasts(t)
  <2>1. IsSpeaking
    BY <1>7 DEF SilenceLasts, IsSpeaking
  <2>2. CASE Finish(t)
    BY <1>4, <2>1, <2>2
  <2>3. ASSUME seg' = seg, buffer' = buffer \cup {t}, event' = NoEvent
        PROVE  Grows(t) /\ SegmenterTypeOK'
    BY <1>0, <1>5, <1>7, <2>1, <2>3 DEF SilenceLasts
  <2> QED
    BY <1>7, <2>2, <2>3 DEF SilenceLasts
<1> QED
  BY <1>1, <1>2, <1>3, <1>6, <1>7 DEF FeedVoice, FeedSilence

\* A new segmenter is quiet.
LEMMA NewIsQuiet == NewSegmenter => SegmenterTypeOK'
  BY MaxHopsAssumption DEF NewSegmenter, SegmenterTypeOK, Quiet, NoEvent, Hops

\* A segmenter that nothing is fed to keeps its types.
LEMMA SegmenterStutters == SegmenterTypeOK /\ UNCHANGED segmenterVars => SegmenterTypeOK'
  BY DEF SegmenterTypeOK, segmenterVars

----------------------------------------------------------------------------
(* Type correctness.  It needs Told and ToldBefore: an interim transcript    *)
(* goes to the hop before the one in hand, and the utterance that enters the *)
(* log is one that was opened.                                               *)

Base == TypeOK /\ Told /\ ToldBefore

\* The transcript that enters the log is of an utterance, and the log keeps its
\* length (app.rs push_transcript_dual_latency).
LEMMA PushedType ==
  ASSUME log \in Seq(Hops), Len(log) <= MaxEntries, heard.first \in Hops
  PROVE  Pushed \in Seq(Hops) /\ Len(Pushed) <= MaxEntries
<1> DEFINE longer == Append(log, heard.first)
<1>1. longer \in Seq(Hops) /\ Len(longer) = Len(log) + 1 /\ Len(log) \in Nat
  OBVIOUS
<1>2. Len(longer) > MaxEntries =>
        Tail(longer) \in Seq(Hops) /\ Len(Tail(longer)) = Len(longer) - 1
  BY <1>1, SpeechAssumption
<1> QED
  BY <1>1, <1>2, SpeechAssumption DEF Pushed

\* What the callback records keeps the types.
HeardOK(h) ==
  h \in [open : BOOLEAN, first : 0..MaxHops, spoken : 0..MaxHops, closed : 0..MaxHops]

LEMMA HeardType ==
  ASSUME TypeOK, taken \in Hops
  PROVE  /\ HeardOK([heard EXCEPT !.open = TRUE, !.first = taken])
         /\ HeardOK([heard EXCEPT !.spoken = taken - 1])
         /\ HeardOK([heard EXCEPT !.open = FALSE, !.spoken = taken, !.closed = taken])
<1>1. taken \in 0..MaxHops /\ taken - 1 \in 0..MaxHops
  BY MaxHopsAssumption DEF Hops
<1>2. HeardOK(heard)
  BY DEF TypeOK, HeardOK
<1> QED
  BY <1>1, <1>2 DEF HeardOK

\* Every step keeps every variable in its type.
LEMMA TypeStep == Base /\ [Next]_vars => TypeOK'
<1> SUFFICES ASSUME Base, [Next]_vars PROVE TypeOK'
  OBVIOUS
<1> USE MaxHopsAssumption
        DEF clientVars, flagVars, workerVars, shownVars, ghostVars
<1>0. TypeOK /\ SegmenterTypeOK /\ (UNCHANGED segmenterVars => SegmenterTypeOK')
  BY SegmenterStutters DEF Base, TypeOK
<1>h. InHand \/ pc = "final" => taken \in Hops
  BY DEF Base, ToldBefore, TypeOK, Hops
<1>1. CASE Start
  BY <1>0, <1>1 DEF Start, TypeOK
<1>2. CASE Reset
  BY <1>0, <1>2 DEF Reset, TypeOK
<1>3. CASE ResetShown
  <2>1. vadActive' \in BOOLEAN
    BY <1>0, <1>3, Zenon DEF ResetShown
  <2> QED
    BY <2>1, <1>0, <1>3 DEF ResetShown, TypeOK
<1>4. CASE AbortWhisper
  BY <1>0, <1>4 DEF AbortWhisper, TypeOK
<1>5. CASE Stop
  <2>1. running' \in BOOLEAN
    BY <1>0, <1>5, Zenon DEF Stop
  <2> QED
    BY <2>1, <1>0, <1>5 DEF Stop, TypeOK
<1>6. CASE StopCapture
  <2>1. mic' \in BOOLEAN
    BY <1>0, <1>6, Zenon DEF StopCapture
  <2> QED
    BY <2>1, <1>0, <1>6 DEF StopCapture, TypeOK
<1>7. CASE Join
  BY <1>0, <1>7 DEF Join, TypeOK
<1>8. CASE MicFrame
  <2>1. heartbeat' \in BOOLEAN
    BY <1>0, <1>8, Zenon DEF MicFrame
  <2> QED
    BY <2>1, <1>0, <1>8 DEF MicFrame, TypeOK
<1>9. CASE WorkerInit
  BY <1>0, <1>9, NewIsQuiet DEF WorkerInit, Exit, TypeOK
<1>10. CASE WorkerTop
  <2>1. resetFlag' \in BOOLEAN
    BY <1>0, <1>10, Zenon DEF WorkerTop, TypeOK
  <2> QED
    BY <2>1, <1>0, <1>10 DEF WorkerTop, Exit, TypeOK
<1>11. CASE WorkerFlush
  BY <1>0, <1>11, NewIsQuiet DEF WorkerFlush, TypeOK
<1>12. CASE WorkerRecv
  BY <1>0, <1>12 DEF WorkerRecv, Exit, TypeOK
<1>13. CASE WorkerHop
  <2>1. abortFlag' \in BOOLEAN /\ heartbeat' \in BOOLEAN /\ aborted' \in BOOLEAN
    BY <1>0, <1>13, Zenon DEF WorkerHop, BeginInference, TypeOK
  <2>2. pc' \in {"interim", "feed"}
    BY <1>13, Zenon DEF WorkerHop
  <2> QED
    BY <2>1, <2>2, <1>0, <1>13 DEF WorkerHop, TypeOK
<1>14. CASE WorkerHopFails
  BY <1>0, <1>14, <1>h DEF WorkerHopFails, TypeOK, InHand
<1>15. CASE WorkerInterim
  <2>1. taken \in Hops /\ seg.start \in 0..MaxHops
    BY <1>0, <1>15, <1>h DEF WorkerInterim, SegmenterTypeOK, InHand
  <2>2. HeardOK(heard')
    <3>1. HeardOK(heard)
      BY <1>0 DEF TypeOK, HeardOK
    <3> QED
      BY <1>0, <1>15, <2>1, <3>1, HeardType DEF WorkerInterim
  <2> QED
    BY <1>0, <1>15, <2>1, <2>2 DEF WorkerInterim, TypeOK, HeardOK
<1>16. CASE WorkerFeed
  <2>1. taken \in Hops
    BY <1>16, <1>h DEF WorkerFeed, InHand
  <2>2. SegmenterTypeOK'
    BY <1>0, <1>16, <2>1, FeedCases DEF WorkerFeed
  <2>3. /\ pc' \in {"top", "final"} /\ interim' \in 0..MaxHops /\ log' = log
        /\ lastInterim' \in 0..taken /\ skipped' \in SUBSET Hops
    BY <1>0, <1>16 DEF WorkerFeed, CallVoiceStart, CallVoiceEnd, TypeOK
  <2>4. /\ vadActive' \in BOOLEAN /\ heartbeat' \in BOOLEAN /\ abortFlag' \in BOOLEAN
        /\ aborted' \in BOOLEAN /\ voice' \in BOOLEAN
    BY <1>0, <1>16, Zenon
    DEF WorkerFeed, CallVoiceStart, CallVoiceEnd, BeginInference, TypeOK
  <2>5. HeardOK(heard')
    <3>1. HeardOK(heard)
      BY <1>0 DEF TypeOK, HeardOK
    <3> QED
      BY <1>0, <1>16, <2>1, <3>1, HeardType DEF WorkerFeed, CallVoiceStart, CallVoiceEnd
  <2> QED
    BY <1>0, <1>16, <2>2, <2>3, <2>4, <2>5 DEF WorkerFeed, TypeOK, HeardOK
<1>17. CASE WorkerFinal
  <2>1. taken \in Hops /\ heard.first \in Hops
    BY <1>17, <1>h DEF WorkerFinal, Base, Told, ToldBefore
  <2>2. log' \in Seq(Hops) /\ Len(log') <= MaxEntries
    BY <1>0, <1>17, <2>1, PushedType DEF WorkerFinal, CallVoiceEnd, TypeOK
  <2>3. SegmenterTypeOK'
    BY <1>0, <1>17 DEF WorkerFinal, SegmenterTypeOK, NoEvent
  <2>4. vadActive' \in BOOLEAN
    BY <1>17, Zenon DEF WorkerFinal, CallVoiceEnd
  <2>5. HeardOK(heard')
    BY <1>0, <1>17, <2>1, HeardType DEF WorkerFinal, CallVoiceEnd
  <2> QED
    BY <1>0, <1>17, <2>1, <2>2, <2>3, <2>4, <2>5
    DEF WorkerFinal, CallVoiceEnd, TypeOK, HeardOK
<1>18. CASE UNCHANGED vars
  BY <1>0, <1>18 DEF vars, TypeOK
<1> QED
  BY <1>1, <1>2, <1>3, <1>4, <1>5, <1>6, <1>7, <1>8, <1>9, <1>10, <1>11, <1>12, <1>13,
     <1>14, <1>15, <1>16, <1>17, <1>18 DEF Next, Client, Worker

----------------------------------------------------------------------------
(* The worker's hop against what the callback was told.  A hop leaves the    *)
(* channel after every hop that was told of, and each step that speaks does  *)
(* so about the utterance that is open.                                      *)

\* The callback is told of the utterance the worker is in.
LEMMA ToldStep == Base /\ [Next]_vars => Told'
<1> SUFFICES ASSUME Base, [Next]_vars PROVE Told'
  OBVIOUS
<1> USE DEF clientVars, flagVars, workerVars, ghostVars, segmenterVars,
            Base, Told, Alive, Working, IsSpeaking
<1>1. CASE Start \/ Reset \/ ResetShown \/ AbortWhisper
  BY <1>1 DEF Start, Reset, ResetShown, AbortWhisper
<1>2. CASE Stop \/ StopCapture \/ Join \/ MicFrame
  BY <1>2 DEF Stop, StopCapture, Join, MicFrame
<1>3. CASE WorkerInit \/ WorkerFlush
  BY <1>3 DEF WorkerInit, WorkerFlush, Exit, NewSegmenter, Quiet
<1>4. CASE WorkerTop \/ WorkerRecv \/ WorkerHop \/ WorkerHopFails
  BY <1>4 DEF WorkerTop, WorkerRecv, WorkerHop, WorkerHopFails, Exit
<1>5. CASE WorkerInterim
  BY <1>5 DEF WorkerInterim, TypeOK
<1>6. CASE WorkerFeed
  <2>1. taken \in Hops
    BY <1>6, MaxHopsAssumption DEF WorkerFeed, ToldBefore, TypeOK, InHand, Hops
  <2>2. StaysQuiet \/ Opens(taken) \/ Grows(taken) \/ Discards \/ Closes(taken)
    BY <1>6, <2>1, FeedCases DEF WorkerFeed, TypeOK
  <2>3. CASE StaysQuiet \/ Discards \/ Grows(taken)
    BY <1>6, <2>3 DEF WorkerFeed, StaysQuiet, Discards, Grows, Quiet, NoEvent
  <2>4. CASE Opens(taken)
    BY <1>6, <2>4 DEF WorkerFeed, Opens, CallVoiceStart, TypeOK, NoEvent
  <2>5. CASE Closes(taken)
    BY <1>6, <2>5 DEF WorkerFeed, Closes, Quiet
  <2> QED
    BY <2>2, <2>3, <2>4, <2>5
<1>7. CASE WorkerFinal
  BY <1>7 DEF WorkerFinal
<1>8. CASE UNCHANGED vars
  BY <1>8 DEF vars
<1> QED
  BY <1>1, <1>2, <1>3, <1>4, <1>5, <1>6, <1>7, <1>8 DEF Next, Client, Worker

\* What the callback was told is older than the hop in hand.
LEMMA ToldBeforeStep == Base /\ [Next]_vars => ToldBefore'
<1> SUFFICES ASSUME Base, [Next]_vars PROVE ToldBefore'
  OBVIOUS
<1> USE MaxHopsAssumption
        DEF clientVars, flagVars, workerVars, ghostVars, ToldBefore, InHand, Alive
<1>0. /\ heard.first \in 0..MaxHops /\ heard.spoken \in 0..MaxHops
      /\ heard.closed \in 0..MaxHops /\ taken \in 0..MaxHops /\ captured \in 0..MaxHops
      /\ taken <= captured /\ ToldBefore /\ SegmenterTypeOK
  BY DEF Base, TypeOK
<1>1. CASE Start \/ Reset \/ ResetShown \/ AbortWhisper
  BY <1>0, <1>1 DEF Start, Reset, ResetShown, AbortWhisper
<1>2. CASE Stop \/ StopCapture \/ Join \/ MicFrame
  BY <1>0, <1>2 DEF Stop, StopCapture, Join, MicFrame
<1>3. CASE WorkerInit \/ WorkerFlush
  BY <1>0, <1>3 DEF WorkerInit, WorkerFlush, Exit
<1>4. CASE WorkerTop \/ WorkerRecv \/ WorkerHop \/ WorkerHopFails
  BY <1>0, <1>4 DEF WorkerTop, WorkerRecv, WorkerHop, WorkerHopFails, Exit
<1>5. CASE WorkerInterim
  <2>1. /\ heard'.open = heard.open /\ heard'.first = heard.first
        /\ heard'.closed = heard.closed /\ heard'.spoken \in {heard.spoken, taken - 1}
    BY <1>5 DEF WorkerInterim, Base, TypeOK
  <2> QED
    BY <1>0, <1>5, <2>1 DEF WorkerInterim
<1>6. CASE WorkerFeed
  <2>1. CASE UNCHANGED heard
    BY <1>0, <1>6, <2>1 DEF WorkerFeed
  <2>2. CASE CallVoiceStart /\ pc' = "top"
    <3>1. /\ heard'.first = taken /\ heard'.spoken = heard.spoken
          /\ heard'.closed = heard.closed
      BY <2>2 DEF CallVoiceStart, Base, TypeOK
    <3> QED
      BY <1>0, <1>6, <2>2, <3>1 DEF WorkerFeed, Hops
  <2>3. CASE CallVoiceEnd(log) /\ pc' = "top"
    <3>1. /\ ~heard'.open /\ heard'.first = heard.first /\ heard'.spoken = taken
          /\ heard'.closed = taken
      BY <2>3 DEF CallVoiceEnd, Base, TypeOK
    <3> QED
      BY <1>0, <1>6, <2>3, <3>1 DEF WorkerFeed
  <2> QED
    BY <1>6, <2>1, <2>2, <2>3 DEF WorkerFeed
<1>7. CASE WorkerFinal
  <2>1. /\ ~heard'.open /\ heard'.first = heard.first /\ heard'.spoken = taken
        /\ heard'.closed = taken
    BY <1>7 DEF WorkerFinal, CallVoiceEnd, Base, TypeOK
  <2> QED
    BY <1>0, <1>7, <2>1 DEF WorkerFinal
<1>8. CASE UNCHANGED vars
  BY <1>0, <1>8 DEF vars
<1> QED
  BY <1>1, <1>2, <1>3, <1>4, <1>5, <1>6, <1>7, <1>8 DEF Next, Client, Worker

LEMMA BaseInit == Init => Base
<1> SUFFICES ASSUME Init PROVE Base
  OBVIOUS
<1> USE MaxHopsAssumption, SpeechAssumption DEF Init
<1>1. SegmenterTypeOK
  BY DEF SegmenterTypeOK, Quiet, NoEvent
<1>2. log \in Seq(Hops) /\ Len(log) <= MaxEntries
  OBVIOUS
<1>3. TypeOK
  <2>1. /\ running \in BOOLEAN /\ resetFlag \in BOOLEAN /\ abortFlag \in BOOLEAN
        /\ mic \in BOOLEAN /\ voice \in BOOLEAN /\ engine \in BOOLEAN
        /\ heartbeat \in BOOLEAN /\ vadActive \in BOOLEAN /\ aborted \in BOOLEAN
    BY Zenon
  <2> QED
    BY <1>1, <1>2, <2>1 DEF TypeOK
<1>4. Told /\ ToldBefore
  BY DEF Told, ToldBefore, Working, Alive, InHand
<1> QED
  BY <1>3, <1>4 DEF Base

LEMMA BaseHolds == Spec => []Base
<1>1. Base /\ [Next]_vars => Base'
  BY TypeStep, ToldStep, ToldBeforeStep DEF Base
<1> QED
  BY BaseInit, <1>1, PTL DEF Spec

\* The capture, its worker and its client are type correct.
THEOREM TypeCorrect == Spec => []TypeOK
<1>1. Base => TypeOK
  BY DEF Base
<1> QED
  BY BaseHolds, <1>1, PTL

----------------------------------------------------------------------------
(* The events keep their protocol: Told says which utterance the worker      *)
(* speaks of, ToldBefore that its hop is later than everything told.         *)

\* Only four kinds of step tell the callback something, and each is one of
\* SpeechEvents.
LEMMA EventsStep == Base /\ [Next]_vars => [Events!Next]_(Events!vars)
<1> SUFFICES ASSUME Base, [Next]_vars PROVE [Events!Next]_(Events!vars)
  OBVIOUS
<1> USE DEF Base, ghostVars
<1>0. UNCHANGED heard => UNCHANGED Events!vars
  BY DEF Events!vars
<1>1. CASE Start \/ Reset \/ ResetShown \/ AbortWhisper \/ Stop \/ StopCapture \/ Join
           \/ MicFrame
  BY <1>0, <1>1 DEF Start, Reset, ResetShown, AbortWhisper, Stop, StopCapture, Join, MicFrame
<1>2. CASE WorkerInit \/ WorkerFlush \/ WorkerTop \/ WorkerRecv \/ WorkerHop \/ WorkerHopFails
  BY <1>0, <1>2 DEF WorkerInit, WorkerFlush, WorkerTop, WorkerRecv, WorkerHop, WorkerHopFails
<1>h. /\ heard.first \in 0..MaxHops /\ heard.spoken \in 0..MaxHops
      /\ heard.closed \in 0..MaxHops /\ taken \in 0..MaxHops
  BY MaxHopsAssumption DEF TypeOK
<1>3. CASE WorkerInterim
  <2>1. heard.open /\ taken >= 1 /\ heard.first < taken /\ heard.spoken < taken
    BY <1>3 DEF WorkerInterim, Told, ToldBefore, InHand, Working, Alive
  <2>2. CASE heard' = [heard EXCEPT !.spoken = taken - 1]
    <3>1. /\ heard'.open = heard.open /\ heard'.first = heard.first
          /\ heard'.closed = heard.closed /\ heard'.spoken = taken - 1
      BY <2>2 DEF TypeOK
    <3>2. CASE taken - 1 = heard.spoken
      BY <3>1, <3>2 DEF Events!vars
    <3>3. CASE taken - 1 > heard.spoken
      <4>1. taken - 1 \in heard.first..MaxHops
        BY <1>h, <2>1, MaxHopsAssumption
      <4> QED
        BY <2>1, <3>1, <3>3, <4>1 DEF Events!Next, Events!TranscriptInterim
    <3> QED
      BY <1>h, <2>1, <3>2, <3>3
  <2> QED
    BY <1>0, <1>3, <2>2 DEF WorkerInterim
<1>e. ASSUME heard.open, heard.first < taken, heard.spoken < taken,
             heard' = [heard EXCEPT !.open = FALSE, !.spoken = taken, !.closed = taken]
      PROVE  Events!VoiceEnd
  <2>1. /\ heard'.open = FALSE /\ heard'.first = heard.first
        /\ heard'.closed = taken /\ heard'.spoken = taken
    BY <1>e DEF TypeOK
  <2>2. taken \in heard.first..MaxHops
    BY <1>e, <1>h, MaxHopsAssumption
  <2> QED
    BY <1>e, <2>1, <2>2 DEF Events!VoiceEnd
<1>4. CASE WorkerFeed
  <2>1. /\ taken >= 1 /\ heard.first < taken /\ heard.spoken < taken /\ heard.closed < taken
        /\ taken \in Hops
    BY <1>4, <1>h DEF WorkerFeed, ToldBefore, InHand, Hops
  <2>2. CASE CallVoiceStart
    <3>1. /\ heard'.open = TRUE /\ heard'.first = taken
          /\ heard'.closed = heard.closed /\ heard'.spoken = heard.spoken
      BY <2>2 DEF CallVoiceStart, TypeOK
    <3> QED
      BY <2>1, <3>1 DEF Events!Next, Events!VoiceStart, Hops
  <2>3. CASE event'.kind = "end" /\ CallVoiceEnd(log)
    <3>1. StaysQuiet \/ Opens(taken) \/ Grows(taken) \/ Discards \/ Closes(taken)
      BY <1>4, <2>1, FeedCases DEF WorkerFeed, TypeOK
    <3>2. IsSpeaking
      BY <2>3, <3>1 DEF StaysQuiet, Opens, Grows, Discards, Closes, NoEvent
    <3>3. heard.open
      BY <1>4, <3>2 DEF WorkerFeed, Told, Working, Alive
    <3> QED
      BY <1>e, <2>1, <2>3, <3>3 DEF CallVoiceEnd, Events!Next
  <2> QED
    BY <1>0, <1>4, <2>2, <2>3 DEF WorkerFeed
<1>5. CASE WorkerFinal
  <2>1. heard.open /\ heard.first < taken /\ heard.spoken < taken
    BY <1>5 DEF WorkerFinal, Told, ToldBefore
  <2> QED
    BY <1>e, <1>5, <2>1 DEF WorkerFinal, CallVoiceEnd, Events!Next
<1>6. CASE UNCHANGED vars
  BY <1>0, <1>6 DEF vars
<1> QED
  BY <1>1, <1>2, <1>3, <1>4, <1>5, <1>6 DEF Next, Client, Worker

\* Whatever the threads do, the events are those of the protocol.
THEOREM Implements == Spec => ImplementsEvents
<1>1. Init => Events!Init
  BY DEF Init, Events!Init
<1> QED
  BY <1>1, BaseHolds, EventsStep, PTL DEF Spec, ImplementsEvents, Events!Spec

\* The interim text that is shown is of an utterance that is not yet reported.
THEOREM InterimIsCurrent == Spec => []InterimIsOpen
<1>1. Base /\ InterimIsOpen /\ [Next]_vars => InterimIsOpen'
  <2> SUFFICES ASSUME Base, InterimIsOpen, [Next]_vars PROVE InterimIsOpen'
    OBVIOUS
  <2> USE DEF InterimIsOpen, Base, shownVars, ghostVars
  <2>1. CASE Start \/ Reset \/ ResetShown \/ AbortWhisper \/ Stop \/ StopCapture \/ Join
             \/ MicFrame
    BY <2>1 DEF Start, Reset, ResetShown, AbortWhisper, Stop, StopCapture, Join, MicFrame
  <2>2. CASE WorkerInit \/ WorkerFlush \/ WorkerTop \/ WorkerRecv \/ WorkerHop
             \/ WorkerHopFails
    BY <2>2 DEF WorkerInit, WorkerFlush, WorkerTop, WorkerRecv, WorkerHop, WorkerHopFails
  <2>3. CASE WorkerInterim
    <3>1. heard'.closed = heard.closed
      BY <2>3 DEF WorkerInterim, TypeOK
    <3>2. seg.start > heard.closed
      BY <2>3 DEF WorkerInterim, Told, ToldBefore, Working, Alive
    <3> QED
      BY <2>3, <3>1, <3>2 DEF WorkerInterim
  <2>4. CASE WorkerFeed
    <3>1. CASE CallVoiceStart
      BY <3>1 DEF CallVoiceStart, TypeOK
    <3>2. CASE CallVoiceEnd(log)
      BY <3>2 DEF CallVoiceEnd
    <3>3. CASE UNCHANGED <<interim, heard>>
      BY <3>3
    <3> QED
      BY <2>4, <3>1, <3>2, <3>3 DEF WorkerFeed
  <2>5. CASE WorkerFinal
    BY <2>5 DEF WorkerFinal, CallVoiceEnd
  <2>6. CASE UNCHANGED vars
    BY <2>6 DEF vars
  <2> QED
    BY <2>1, <2>2, <2>3, <2>4, <2>5, <2>6 DEF Next, Client, Worker
<1>2. Init => InterimIsOpen
  BY DEF Init, InterimIsOpen
<1> QED
  BY <1>1, <1>2, BaseHolds, PTL DEF Spec

----------------------------------------------------------------------------
(* The flags.                                                               *)

\* An inference begins with the abort flag cleared, and only an abort that is
\* called while it runs sets it.
THEOREM AbortIsCurrent == Spec => []AbortHitsCurrentInference
<1>1. TypeOK /\ AbortHitsCurrentInference /\ [Next]_vars => AbortHitsCurrentInference'
  <2> SUFFICES ASSUME TypeOK, AbortHitsCurrentInference, [Next]_vars
               PROVE  AbortHitsCurrentInference'
    OBVIOUS
  <2> USE DEF AbortHitsCurrentInference, Inference, workerVars, flagVars, ghostVars
  <2>1. CASE Start \/ Reset \/ ResetShown \/ AbortWhisper \/ Stop \/ StopCapture \/ Join
             \/ MicFrame
    BY <2>1 DEF Start, Reset, ResetShown, AbortWhisper, Stop, StopCapture, Join, MicFrame
  <2>2. CASE WorkerInit \/ WorkerTop \/ WorkerFlush \/ WorkerRecv \/ WorkerHopFails
             \/ WorkerInterim \/ WorkerFinal
    BY <2>2 DEF WorkerInit, WorkerTop, WorkerFlush, WorkerRecv, WorkerHopFails, WorkerInterim,
                WorkerFinal, Exit
  <2>3. CASE WorkerHop
    BY <2>3 DEF WorkerHop, BeginInference
  <2>4. CASE WorkerFeed
    BY <2>4 DEF WorkerFeed, BeginInference
  <2>5. CASE UNCHANGED vars
    BY <2>5 DEF vars
  <2> QED
    BY <2>1, <2>2, <2>3, <2>4, <2>5 DEF Next, Client, Worker
<1>2. Init => AbortHitsCurrentInference
  BY DEF Init, AbortHitsCurrentInference, Inference
<1> QED
  BY <1>1, <1>2, TypeCorrect, PTL DEF Spec

\* A client that has stopped the capture, and only then, is without a worker
\* although running is false.
LEMMA JoinedHolds == Spec => []Joined
<1>1. TypeOK /\ Joined /\ [Next]_vars => Joined'
  <2> SUFFICES ASSUME TypeOK, Joined, [Next]_vars PROVE Joined'
    OBVIOUS
  <2> USE DEF Joined, clientVars, workerVars
  <2>1. CASE Start \/ Reset \/ ResetShown \/ AbortWhisper \/ Stop \/ StopCapture \/ Join
             \/ MicFrame
    BY <2>1 DEF Start, Reset, ResetShown, AbortWhisper, Stop, StopCapture, Join, MicFrame
  <2>2. CASE Worker
    BY <2>2 DEF Worker, WorkerInit, WorkerTop, WorkerFlush, WorkerRecv, WorkerHop,
                WorkerHopFails, WorkerInterim, WorkerFeed, WorkerFinal
  <2>3. CASE UNCHANGED vars
    BY <2>3 DEF vars
  <2> QED
    BY <2>1, <2>2, <2>3 DEF Next, Client
<1>2. Init => Joined
  BY DEF Init, Joined
<1> QED
  BY <1>1, <1>2, TypeCorrect, PTL DEF Spec

\* Once stop() has returned the callback is silent: there is no worker to call.
THEOREM StoppedIsSilent == Spec => StopSilences
<1>1. Joined /\ [Next]_vars =>
        [main = "idle" /\ ~running => UNCHANGED <<heard, log>> /\ ~(vadActive' /\ ~vadActive)]_vars
  <2> SUFFICES ASSUME Joined, Next, main = "idle", ~running
               PROVE  UNCHANGED <<heard, log>> /\ ~(vadActive' /\ ~vadActive)
    OBVIOUS
  <2>1. pc = "none"
    BY DEF Joined
  <2>2. ~Worker
    BY <2>1 DEF Worker, WorkerInit, WorkerTop, WorkerFlush, WorkerRecv, WorkerHop,
                WorkerHopFails, WorkerInterim, WorkerFeed, WorkerFinal
  <2>3. CASE Client \/ MicFrame
    BY <2>3 DEF Client, Start, Reset, ResetShown, AbortWhisper, Stop, StopCapture, Join,
                MicFrame, shownVars, ghostVars
  <2> QED
    BY <2>2, <2>3 DEF Next
<1> QED
  BY <1>1, JoinedHolds, PTL DEF Spec, StopSilences

----------------------------------------------------------------------------
(* A reset.  Between reset() and the worker's look at the flag anything may   *)
(* be captured and fed; when the flag is down again the worker has either     *)
(* flushed since, or is a new one whose channel was empty when it began.      *)

Dropped == ResetSeen /\ ResetDropsTheOld

\* ResetDropsTheOld, one part of Pending at a time.
LEMMA PendingParts ==
  ASSUME TypeOK
  PROVE  (\A t \in Pending : t > resetAt) <=>
           /\ Alive /\ taken < captured => taken >= resetAt
           /\ InHand => taken > resetAt
           /\ \A t \in buffer : t > resetAt
           /\ pc = "final" => \A t \in event.audio : t > resetAt
<1>1. taken \in Nat /\ captured \in Nat /\ resetAt \in Nat
  BY MaxHopsAssumption DEF TypeOK
<1>2. taken < captured => taken + 1 \in (taken + 1)..captured
  BY <1>1
<1>3. (Alive => \A t \in (taken + 1)..captured : t > resetAt)
        <=> (Alive /\ taken < captured => taken >= resetAt)
  BY <1>1, <1>2
<1> QED
  BY <1>1, <1>3 DEF Pending, InHand

\* A step keeps what a reset was to drop out of the channel, the buffer and the
\* events on their way.
LEMMA DroppedStep == Base /\ TypeOK' /\ Dropped /\ [Next]_vars => Dropped'
<1> SUFFICES ASSUME Base, TypeOK', Dropped, [Next]_vars PROVE Dropped'
  OBVIOUS
<1> DEFINE Clean == /\ Alive /\ taken < captured => taken >= resetAt
                    /\ InHand => taken > resetAt
                    /\ \A t \in buffer : t > resetAt
                    /\ pc = "final" => \A t \in event.audio : t > resetAt
<1> USE DEF Dropped, ResetSeen, Alive, InHand,
            clientVars, flagVars, workerVars, ghostVars, segmenterVars
<1>0. /\ taken \in Nat /\ captured \in Nat /\ resetAt \in Nat
      /\ taken <= captured /\ resetAt <= captured
  BY MaxHopsAssumption DEF Base, TypeOK
<1>1. Alive /\ ~resetFlag /\ pc \notin {"init", "flush"} => Clean
  BY PendingParts DEF ResetDropsTheOld, Base
<1>2. SUFFICES /\ ResetSeen'
               /\ (Alive /\ ~resetFlag /\ pc \notin {"init", "flush"} => Clean)'
  <2>1. (TypeOK => ((\A t \in Pending : t > resetAt) <=> Clean))'
    BY PendingParts, PTL
  <2> QED
    BY <1>2, <2>1 DEF ResetDropsTheOld
<1>3. CASE Start \/ Reset \/ ResetShown \/ AbortWhisper
  BY <1>0, <1>1, <1>3 DEF Start, Reset, ResetShown, AbortWhisper
<1>4. CASE Stop \/ StopCapture \/ Join \/ MicFrame
  BY <1>0, <1>1, <1>4 DEF Stop, StopCapture, Join, MicFrame
<1>5. CASE WorkerInit
  BY <1>0, <1>5 DEF WorkerInit, Exit, NewSegmenter
<1>6. CASE WorkerTop \/ WorkerFlush
  BY <1>0, <1>1, <1>6 DEF WorkerTop, WorkerFlush, Exit, NewSegmenter
<1>7. CASE WorkerRecv
  BY <1>0, <1>1, <1>7 DEF WorkerRecv, Exit
<1>8. CASE WorkerHop \/ WorkerHopFails \/ WorkerInterim
  BY <1>0, <1>1, <1>8 DEF WorkerHop, WorkerHopFails, WorkerInterim, BeginInference
<1>9. CASE WorkerFeed
  <2>1. taken \in Hops
    BY <1>9, MaxHopsAssumption DEF WorkerFeed, Base, ToldBefore, TypeOK, Hops
  <2>2. StaysQuiet \/ Opens(taken) \/ Grows(taken) \/ Discards \/ Closes(taken)
    BY <1>9, <2>1, FeedCases DEF WorkerFeed, Base, TypeOK
  <2>3. buffer' \subseteq buffer \cup {taken}
    BY <2>2 DEF StaysQuiet, Opens, Grows, Discards, Closes
  <2>4. event'.kind = "end" => event'.audio = buffer \cup {taken}
    BY <2>2 DEF StaysQuiet, Opens, Grows, Discards, Closes, NoEvent
  <2>5. pc' \in {"top", "final"} /\ (pc' = "final" => event'.kind = "end")
    BY <1>9 DEF WorkerFeed
  <2>6. ~resetFlag => taken > resetAt /\ \A t \in buffer : t > resetAt
    BY <1>1, <1>9 DEF WorkerFeed
  <2> QED
    BY <1>0, <1>9, <2>3, <2>4, <2>5, <2>6 DEF WorkerFeed
<1>10. CASE WorkerFinal
  BY <1>0, <1>1, <1>10 DEF WorkerFinal
<1>11. CASE UNCHANGED vars
  BY <1>0, <1>1, <1>11 DEF vars
<1> QED
  BY <1>3, <1>4, <1>5, <1>6, <1>7, <1>8, <1>9, <1>10, <1>11 DEF Next, Client, Worker

\* Once the worker has seen a reset, nothing captured before it is left.
THEOREM ResetIsComplete == Spec => []ResetDropsTheOld
<1>1. Init => Dropped
  BY DEF Init, Dropped, ResetSeen, ResetDropsTheOld, Alive
<1>2. Base => TypeOK
  BY DEF Base
<1>3. Dropped => ResetDropsTheOld
  BY DEF Dropped
<1> QED
  BY <1>1, <1>2, <1>3, BaseHolds, DroppedStep, PTL DEF Spec

----------------------------------------------------------------------------
(* The audio of an utterance.  UtteranceIsWhole speaks of two places of the   *)
(* loop only; WholeSoFar follows the buffer through all of them.              *)

\* A step keeps the buffer equal to what was heard of the utterance.
LEMMA WholeStep == Base /\ TypeOK' /\ WholeSoFar /\ [Next]_vars => WholeSoFar'
<1> SUFFICES ASSUME Base, TypeOK', WholeSoFar, [Next]_vars PROVE WholeSoFar'
  OBVIOUS
<1> USE DEF WholeSoFar, Working, Fed, Alive, InHand, IsSpeaking,
            clientVars, flagVars, workerVars, ghostVars, segmenterVars
<1>0. /\ taken \in Nat /\ captured \in Nat /\ skipped \subseteq Nat /\ seg.start \in Nat
      /\ (pc = "feed" => taken \in Hops) /\ SegmenterTypeOK
  <2>1. TypeOK /\ SegmenterTypeOK
    BY DEF Base, TypeOK
  <2>2. seg.start \in Nat
    BY <2>1, MaxHopsAssumption DEF SegmenterTypeOK
  <2>3. taken \in Nat /\ captured \in Nat /\ skipped \subseteq Nat
    BY <2>1, MaxHopsAssumption DEF TypeOK, Hops
  <2>4. pc = "feed" => taken \in Hops
    BY <2>1, MaxHopsAssumption DEF Base, ToldBefore, TypeOK, Hops
  <2> QED
    BY <2>1, <2>2, <2>3, <2>4
<1>1. CASE Start \/ Reset \/ ResetShown \/ AbortWhisper
  BY <1>0, <1>1 DEF Start, Reset, ResetShown, AbortWhisper
<1>2. CASE Stop \/ StopCapture \/ Join \/ MicFrame
  BY <1>0, <1>2 DEF Stop, StopCapture, Join, MicFrame
<1>3. CASE WorkerInit \/ WorkerFlush
  BY <1>3 DEF WorkerInit, WorkerFlush, Exit, NewSegmenter, Quiet
<1>4. CASE WorkerTop
  BY <1>0, <1>4 DEF WorkerTop, Exit
<1>5. CASE WorkerRecv
  BY <1>0, <1>5 DEF WorkerRecv, Exit
<1>6. CASE WorkerHop \/ WorkerInterim
  BY <1>0, <1>6 DEF WorkerHop, WorkerInterim
<1>7. CASE WorkerHopFails
  <2>1. (seg.start..(taken - 1)) \ skipped = (seg.start..taken) \ (skipped \cup {taken})
    BY <1>0
  <2> QED
    BY <1>0, <1>7, <2>1 DEF WorkerHopFails
<1>8. CASE WorkerFeed
  <2>1. StaysQuiet \/ Opens(taken) \/ Grows(taken) \/ Discards \/ Closes(taken)
    BY <1>0, <1>8, FeedCases DEF WorkerFeed
  <2>2. \A t \in skipped : t <= taken - 1
    BY <1>8 DEF WorkerFeed
  <2>3. skipped' \in {skipped, {}} /\ taken' = taken
    BY <1>8 DEF WorkerFeed
  <2>4. CASE Opens(taken)
    <3>1. {taken} = (taken..taken) \ skipped'
      BY <1>0, <2>2, <2>3
    <3> QED
      BY <1>0, <1>8, <2>2, <2>3, <2>4, <3>1 DEF WorkerFeed, Opens, NoEvent
  <2>5. CASE StaysQuiet \/ Discards
    BY <1>0, <1>8, <2>2, <2>3, <2>5 DEF WorkerFeed, StaysQuiet, Discards, Quiet, NoEvent
  <2>6. ASSUME IsSpeaking
        PROVE  buffer \cup {taken} = (seg.start..taken) \ skipped
    <3>1. buffer = (seg.start..(taken - 1)) \ skipped /\ seg.start \in buffer
      BY <1>0, <1>8, <2>6 DEF WorkerFeed, SegmenterTypeOK
    <3> QED
      BY <1>0, <2>2, <3>1
  <2>7. CASE Grows(taken)
    <3>1. skipped' = skipped /\ pc' = "top"
      BY <1>8, <2>7 DEF WorkerFeed, Grows, NoEvent
    <3> QED
      BY <1>0, <1>8, <2>2, <2>3, <2>6, <2>7, <3>1 DEF Grows
  <2>8. CASE Closes(taken)
    <3>1. heard.first = seg.start
      BY <1>8, <2>8 DEF WorkerFeed, Closes, Base, Told
    <3>2. pc' = "final" => skipped' = skipped /\ heard' = heard
      BY <1>8, <2>8 DEF WorkerFeed, Closes
    <3> QED
      BY <1>0, <1>8, <2>2, <2>3, <2>6, <2>8, <3>1, <3>2 DEF WorkerFeed, Closes, Quiet
  <2> QED
    BY <2>1, <2>4, <2>5, <2>7, <2>8
<1>9. CASE WorkerFinal
  BY <1>0, <1>9 DEF WorkerFinal, Base, Told
<1>10. CASE UNCHANGED vars
  BY <1>0, <1>10 DEF vars
<1> QED
  BY <1>1, <1>2, <1>3, <1>4, <1>5, <1>6, <1>7, <1>8, <1>9, <1>10 DEF Next, Client, Worker

\* What goes to Whisper is all of the utterance, from the hop that opened it to
\* the one that closed it, but for the hops the detector failed on.
THEOREM UtterancesAreWhole == Spec => []UtteranceIsWhole
<1>1. Init => WholeSoFar
  BY DEF Init, WholeSoFar, Working, Alive
<1>2. Base => TypeOK
  BY DEF Base
<1>3. WholeSoFar => UtteranceIsWhole
  BY DEF WholeSoFar, UtteranceIsWhole, Working, Alive, Fed, InHand
<1> QED
  BY <1>1, <1>2, <1>3, BaseHolds, WholeStep, PTL DEF Spec

=============================================================================
