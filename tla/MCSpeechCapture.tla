-------------------------- MODULE MCSpeechCapture --------------------------
(* The speech capture on a few audio hops.                                 *)
EXTENDS SpeechCapture

MCEtdVerdicts == {"none", "complete", "incomplete"}

\* The application leaves end-of-turn detection off.
MCNoEtd == {"none"}

============================================================================
