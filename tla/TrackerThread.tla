--------------------------- MODULE TrackerThread ---------------------------
(***************************************************************************)
(* The tracker worker thread (app/src/tracker_thread.rs) and the two       *)
(* sync_channel(1) that join it to the frame loop.  This module holds the  *)
(* thread's state, its own steps, and the four calls the frame loop makes  *)
(* on the handle; AvatarFrame composes them with the frame loop.           *)
(*                                                                         *)
(* A camera frame is its number, a HolisticResult is the number of the     *)
(* frame it was computed from and the set of things seen in that frame.    *)
(***************************************************************************)
EXTENDS Integers

CONSTANTS MaxFrames,    \* frames are numbered 1..MaxFrames; bounds the session
          Detections    \* what one full detection may see

Parts == {"face", "pose", "left_hand", "right_hand"}

ASSUME MaxFramesAssumption == MaxFrames \in Nat
ASSUME DetectionsAssumption == Detections \subseteq SUBSET Parts

FrameIds == 1..MaxFrames
NoFrame  == 0
Modes    == {"full", "face_only"}

Results  == [frame : FrameIds, seen : SUBSET Parts]
NoResult == [frame |-> NoFrame, seen |-> {}]

VARIABLES
  frameChan,    \* the frame waiting for the worker, or NoFrame
  worker,       \* the frame the worker holds (NoFrame: blocked in recv) and
                \* the mode it read for it ("unread" before the load)
  resultChan,   \* the result waiting for the frame loop, or NoResult
  faceOnly      \* the AtomicBool shared with the frame loop

trackerVars == <<frameChan, worker, resultChan, faceOnly>>

TrackerTypeOK ==
  /\ frameChan \in FrameIds \cup {NoFrame}
  /\ worker \in [frame : FrameIds \cup {NoFrame}, mode : Modes \cup {"unread"}]
  /\ worker.frame = NoFrame => worker.mode = "unread"
  /\ resultChan \in Results \cup {NoResult}
  /\ faceOnly \in BOOLEAN

TrackerInit ==
  /\ frameChan = NoFrame
  /\ worker = [frame |-> NoFrame, mode |-> "unread"]
  /\ resultChan = NoResult
  /\ faceOnly = FALSE

----------------------------------------------------------------------------
(* The calls of the frame loop.  None of them blocks.                      *)

\* try_send: a frame that finds the channel full is dropped.
SendFrame(f) == frameChan' = IF frameChan = NoFrame THEN f ELSE frameChan

SetFaceOnly(b) == faceOnly' = b

\* try_recv: takes the waiting result, if any.
TryRecvResult == resultChan' = NoResult

----------------------------------------------------------------------------
(* The worker's loop: recv, load the mode, detect and publish.             *)

\* Mutant of WorkerRecv: the frame is looked at and left in the channel.
WorkerPeek ==
  /\ worker.frame = NoFrame
  /\ frameChan # NoFrame
  /\ worker' = [frame |-> frameChan, mode |-> "unread"]
  /\ UNCHANGED <<frameChan, resultChan, faceOnly>>

WorkerRecv ==
  /\ worker.frame = NoFrame
  /\ frameChan # NoFrame
  /\ worker' = [frame |-> frameChan, mode |-> "unread"]
  /\ frameChan' = NoFrame
  /\ UNCHANGED <<resultChan, faceOnly>>

\* Mutant of WorkerLoadMode: the mode given to new_with_mode is used for ever.
WorkerModeAtSpawn ==
  /\ worker.frame # NoFrame
  /\ worker.mode = "unread"
  /\ worker' = [worker EXCEPT !.mode = "full"]
  /\ UNCHANGED <<frameChan, resultChan, faceOnly>>

WorkerLoadMode ==
  /\ worker.frame # NoFrame
  /\ worker.mode = "unread"
  /\ worker' = [worker EXCEPT !.mode = IF faceOnly THEN "face_only" ELSE "full"]
  /\ UNCHANGED <<frameChan, resultChan, faceOnly>>

\* detect_with_mode turns each detector's error into "not seen", and skips
\* the pose and the hands in face-only mode.
Detect(seen) ==
  [frame |-> worker.frame,
   seen  |-> IF worker.mode = "face_only" THEN seen \cap {"face"} ELSE seen]

\* try_send again: a result that finds the channel full is the one dropped.
WorkerPublish ==
  /\ worker.frame # NoFrame
  /\ worker.mode \in Modes
  /\ \E seen \in Detections :
       resultChan' = IF resultChan = NoResult THEN Detect(seen) ELSE resultChan
  /\ worker' = [frame |-> NoFrame, mode |-> "unread"]
  /\ UNCHANGED <<frameChan, faceOnly>>

Worker == WorkerRecv \/ WorkerLoadMode \/ WorkerPublish

============================================================================
