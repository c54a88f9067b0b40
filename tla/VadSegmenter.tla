---------------------------- MODULE VadSegmenter ----------------------------
(***************************************************************************)
(* The speech segmenter (speech-capture/src/segmenter.rs): one audio hop   *)
(* after the other, each with the voice detector's verdict, is grouped     *)
(* into utterances.  A hop is its number, and the number is its timestamp: *)
(* the capture delivers hops of equal length.  SpeechCapture runs this     *)
(* state machine on the worker thread.                                     *)
(***************************************************************************)
EXTENDS Integers, FiniteSets

CONSTANTS MaxHops,          \* hops are numbered 1..MaxHops; bounds the session
          MinSpeech,        \* min_speech_ms, in hops
          SilenceTimeout,   \* silence_timeout_ms, in hops
          EtdVerdicts       \* what the end-of-turn predictor may answer

ASSUME MaxHopsAssumption   == MaxHops \in Nat
ASSUME TimeoutsAssumption  == MinSpeech \in Nat /\ SilenceTimeout \in Nat
ASSUME VerdictsAssumption  == EtdVerdicts \subseteq {"none", "complete", "incomplete"}

Hops == 1..MaxHops

\* extended_silence_timeout_ms: the patience with a turn that is not complete.
ExtendedTimeout == 3 * SilenceTimeout

VARIABLES
  seg,      \* the state, when the voice and the silence began, and whether the
            \* predictor called the turn incomplete
  buffer,   \* audio_buffer: the hops of the utterance so far
  event     \* the event that the last feed returned, with its audio

segmenterVars == <<seg, buffer, event>>

Quiet   == [state |-> "idle", start |-> 0, silence |-> 0, incomplete |-> FALSE]
NoEvent == [kind |-> "none", audio |-> {}, duration |-> 0]

SegmenterTypeOK ==
  /\ seg \in [state : {"idle", "speaking", "trailing"}, start : 0..MaxHops,
              silence : 0..MaxHops, incomplete : BOOLEAN]
  /\ buffer \in SUBSET Hops
  /\ event \in [kind : {"none", "start", "end"}, audio : SUBSET Hops, duration : 0..MaxHops]
  /\ seg.state = "idle" => seg = Quiet /\ buffer = {}
  /\ seg.state # "idle" => seg.start \in buffer
  /\ seg.state = "speaking" => seg.silence = 0 /\ ~seg.incomplete

\* VadSegmenter::new, at the start and at every reset.
NewSegmenter == seg' = Quiet /\ buffer' = {} /\ event' = NoEvent

IsSpeaking == seg.state # "idle"

----------------------------------------------------------------------------
(* feed_with_raw, one action per branch.                                    *)

VoiceBegins(t) ==
  /\ seg.state = "idle"
  /\ seg' = [Quiet EXCEPT !.state = "speaking", !.start = t]
  /\ buffer' = {t}
  /\ event' = [NoEvent EXCEPT !.kind = "start"]

SilenceGoesOn ==
  /\ seg.state = "idle"
  /\ UNCHANGED <<seg, buffer>>
  /\ event' = NoEvent

\* Mutant of VoiceGoesOn: the hop that ends a pause is not appended.
VoiceGoesOnLosesResumed(t) ==
  /\ IsSpeaking
  /\ seg' = [seg EXCEPT !.state = "speaking", !.silence = 0, !.incomplete = FALSE]
  /\ buffer' = IF seg.state = "trailing" THEN buffer ELSE buffer \cup {t}
  /\ event' = NoEvent

\* Voice in an utterance, also after a silence that was not long enough.
VoiceGoesOn(t) ==
  /\ IsSpeaking
  /\ seg' = [seg EXCEPT !.state = "speaking", !.silence = 0, !.incomplete = FALSE]
  /\ buffer' = buffer \cup {t}
  /\ event' = NoEvent

\* Mutant of Finish: the utterance is reported and the state is not reset.
FinishStaysOpen(t) ==
  /\ seg' = [seg EXCEPT !.silence = t]
  /\ buffer' = {}
  /\ event' = IF t - seg.start >= MinSpeech
                THEN [kind |-> "end", audio |-> buffer \cup {t}, duration |-> t - seg.start]
                ELSE NoEvent

\* The utterance is over: it is reported, or discarded if it is too short.
Finish(t) ==
  /\ seg' = Quiet
  /\ buffer' = {}
  /\ event' = IF t - seg.start >= MinSpeech
                THEN [kind |-> "end", audio |-> buffer \cup {t}, duration |-> t - seg.start]
                ELSE NoEvent

\* The first silent hop: the predictor may cut the utterance here.
SilenceBegins(t) ==
  /\ seg.state = "speaking"
  /\ \E verdict \in EtdVerdicts :
       \/ verdict = "complete" /\ Finish(t)
       \/ /\ verdict # "complete"
          /\ seg' = [seg EXCEPT !.state = "trailing", !.silence = t,
                                !.incomplete = verdict = "incomplete"]
          /\ buffer' = buffer \cup {t}
          /\ event' = NoEvent

Patience == IF seg.incomplete THEN ExtendedTimeout ELSE SilenceTimeout

SilenceLasts(t) ==
  /\ seg.state = "trailing"
  /\ \/ t - seg.silence >= Patience /\ Finish(t)
     \/ /\ t - seg.silence < Patience
        /\ UNCHANGED seg
        /\ buffer' = buffer \cup {t}
        /\ event' = NoEvent

FeedVoice(t)   == VoiceBegins(t) \/ VoiceGoesOn(t)
FeedSilence(t) == SilenceGoesOn \/ SilenceBegins(t) \/ SilenceLasts(t)

============================================================================
