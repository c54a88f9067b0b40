---------------------------- MODULE SpeechEvents ----------------------------
(***************************************************************************)
(* What the speech capture promises its callback, with the threads, the    *)
(* queue and the segmenter left out: utterances come one after the other,  *)
(* each opens once, may be heard of while it lasts, and closes at most     *)
(* once, with audio that begins where it opened and that no other          *)
(* utterance has.  An open utterance may be given up without a word, and   *)
(* the next one opens.  SpeechCapture implements this module.              *)
(***************************************************************************)
EXTENDS Integers

CONSTANT MaxHops     \* audio hops are numbered 1..MaxHops

VARIABLES open,      \* an utterance was opened and not closed
          first,     \* where the latest utterance opened
          spoken,    \* how far the latest interim text or utterance goes
          closed     \* where the latest closed utterance ended

vars == <<open, first, spoken, closed>>

Init == open = FALSE /\ first = 0 /\ spoken = 0 /\ closed = 0

VoiceStart ==
  \E t \in 1..MaxHops :
    /\ t > first /\ t > spoken /\ t > closed
    /\ open' = TRUE
    /\ first' = t
    /\ UNCHANGED <<spoken, closed>>

TranscriptInterim ==
  \E t \in first..MaxHops :
    /\ open
    /\ t > spoken
    /\ spoken' = t
    /\ UNCHANGED <<open, first, closed>>

VoiceEnd ==
  \E t \in first..MaxHops :
    /\ open
    /\ t > spoken
    /\ open' = FALSE
    /\ spoken' = t
    /\ closed' = t
    /\ UNCHANGED first

Next == VoiceStart \/ TranscriptInterim \/ VoiceEnd

Spec == Init /\ [][Next]_vars

============================================================================
