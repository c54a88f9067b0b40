----------------------------- MODULE LossyPipe -----------------------------
(***************************************************************************)
(* What a pipeline of frames promises its end, with the threads, channels  *)
(* and sockets in between left out: frames are numbered as they are        *)
(* captured, some of them travel through the pipe, any of them may be lost *)
(* on the way, at most Capacity travel at the same time, and those that    *)
(* arrive do so in the order of their capture, each at most once.          *)
(*                                                                         *)
(* AvatarFrame implements this module from the camera to the avatar, and   *)
(* VirtualCamera from the renderer to each client of the virtual camera.   *)
(***************************************************************************)
EXTENDS Integers, FiniteSets

CONSTANTS MaxFrames,   \* the frames of the session are numbered 1..MaxFrames
          Capacity     \* how many frames can be under way at once

VARIABLES captured,    \* the number of the latest frame, 0 at first
          pending,     \* the frames under way
          delivered    \* the latest frame that has been delivered

vars == <<captured, pending, delivered>>

Init == captured = 0 /\ pending = {} /\ delivered = 0

\* A frame is captured; the pipe takes it in or refuses it, and may give up others.
Capture ==
  /\ captured < MaxFrames
  /\ captured' = captured + 1
  /\ pending' \subseteq pending \cup {captured'}
  /\ Cardinality(pending') <= Capacity
  /\ UNCHANGED delivered

\* A frame under way arrives; whatever is older can no longer arrive.
Deliver ==
  \E f \in pending :
    /\ delivered' = f
    /\ pending' \subseteq {g \in pending : f < g}
    /\ UNCHANGED captured

\* Frames under way are given up.
Lose ==
  /\ pending' \subseteq pending
  /\ UNCHANGED <<captured, delivered>>

Next == Capture \/ Deliver \/ Lose

Spec == Init /\ [][Next]_vars

============================================================================
