---------------------------- MODULE FrameCapture ----------------------------
(***************************************************************************)
(* The read-back of rendered frames from the GPU (renderer/src/scene.rs):  *)
(* two staging buffers, of which one takes the copy of the present frame   *)
(* while the other is being mapped, and ONE flag by which the mapping's    *)
(* callback tells that it is done.  Nothing ever waits for the GPU.        *)
(*                                                                         *)
(* The capture is one record, as it is one group of fields of Scene; both  *)
(* of its users, the virtual camera and the hit test of the mascot window, *)
(* share it, each at its own size.                                         *)
(***************************************************************************)
EXTENDS Integers

CONSTANTS VcamSize,      \* the fixed size of the virtual camera's frames
          MascotSizes    \* the sizes the mascot window can have

NoFrame == 0             \* a place that holds no frame
Unsized == "unsized"     \* the size of a capture that has no texture yet

Empty == [map |-> "unmapped", holds |-> NoFrame]

(* pending: a copy has been mapped since the buffers were made; it is      *)
(* never taken back.  ready: what the callback of map_async stores.        *)
Fresh(size) == [size |-> size, idx |-> 0, pending |-> FALSE, ready |-> FALSE,
                buf |-> [i \in 0..1 |-> Empty]]

NoCapture == Fresh(Unsized)

Captures(frames) ==
  [size : MascotSizes \cup {VcamSize, Unsized}, idx : 0..1, pending : BOOLEAN, ready : BOOLEAN,
   buf : [0..1 -> [map : {"unmapped", "pending", "mapped"}, holds : frames]]]

\* Mutant: the flag is reset before the old buffers are dropped.
EnsuredFlagFirst(c, size) ==
  IF c.size = size THEN c
  ELSE [Fresh(size) EXCEPT !.ready = \E i \in 0..1 : c.buf[i].map = "pending"]

\* ensure_frame_capture: another size means new buffers.  Dropping the old ones
\* ends their mapping, and with it runs its callback; the flag is stored after that.
Ensured(c, size) == IF c.size = size THEN c ELSE Fresh(size)

(* capture_frame_async: the buffer of the frame before is read if its      *)
(* mapping is done, and the present frame is copied unless the buffer of   *)
(* the frame before is still on its way.                                   *)
Prev(c)     == 1 - c.idx
Readable(c) == c.pending /\ c.ready
Taken(c)    == IF Readable(c) THEN c.buf[Prev(c)].holds ELSE NoFrame

\* Mutant: the flag is looked at again after the read has taken it back.
CanCopyWhenReady(c) == ~c.pending \/ (c.ready /\ ~Readable(c))

CanCopy(c) == ~c.pending \/ Readable(c)

Unmapped(c) ==
  IF Readable(c) THEN [c EXCEPT !.buf[Prev(c)] = Empty, !.ready = FALSE] ELSE c

Captured(c, frame) ==
  IF CanCopy(c)
  THEN [Unmapped(c) EXCEPT !.buf[c.idx] = [map |-> "pending", holds |-> frame],
                           !.idx = Prev(c),
                           !.pending = TRUE]
  ELSE Unmapped(c)

\* The GPU is done with a copy and the next poll calls back.
Mapped(c) == [c EXCEPT !.buf[Prev(c)].map = "mapped", !.ready = TRUE]
Mapping(c) == c.buf[Prev(c)].map = "pending"

(* The flag is the only thing that tells a mapped buffer from one that the *)
(* GPU is still writing, and reading the latter panics; copying into a     *)
(* mapped one is refused by the driver.                                    *)
FlagIsTrue(c) ==
  /\ Readable(c) => c.buf[Prev(c)].map = "mapped"
  /\ CanCopy(c) => c.buf[c.idx].map = "unmapped"

=============================================================================
