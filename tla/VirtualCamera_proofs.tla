------------------------ MODULE VirtualCamera_proofs ------------------------
(***************************************************************************)
(* The virtual camera for every number of clients, frames and pieces a     *)
(* connection holds: the flag of the frame capture is true, and every      *)
(* client gets its frames in order, each at most once and whole.           *)
(***************************************************************************)
EXTENDS VirtualCamera, FiniteSetTheorems, SequenceTheorems, WellFoundedInduction, TLAPS

----------------------------------------------------------------------------
(* The frame capture.                                                      *)

\* One of the two buffers is always free, and the flags say what the other is.
Sound(c) ==
  /\ c \in Captures(Frames \cup {NoFrame})
  /\ c.buf[c.idx] = Empty
  /\ c.ready <=> c.buf[Prev(c)].map = "mapped"
  /\ c.pending <=> c.buf[Prev(c)].map # "unmapped"
  /\ c.buf[Prev(c)].holds = NoFrame <=> c.buf[Prev(c)].map = "unmapped"

\* The frame in the buffer that is not free.
Held(c) == c.buf[Prev(c)].holds

----------------------------------------------------------------------------
(* The order of the frames on their way.                                   *)

\* Frames told apart are in the order of their capture; of the others nothing
\* is said.
Before(f, g) == f < g \/ f = Later

Known(f) == f \in 0..captured \/ f = Later

\* The frames that have not reached the writer.
Ahead == {chan, Held(capture)} \ {NoFrame}

CaptureInv ==
  /\ Sound(capture) /\ captured \in 0..MaxFrames /\ Known(Held(capture))
  /\ mascot \in MascotSizes \cup {Off}

\* The frame in the channel is older than the one the GPU has.
ChanInv ==
  /\ chan \in Frames \cup {NoFrame} /\ Known(chan)
  /\ chan # NoFrame /\ Held(capture) # NoFrame => Before(chan, Held(capture))

\* The writer has a frame that is older than those ahead of it, and a stream
\* under the pen only while it writes.
WriterInv ==
  /\ writer \in [at : {"recv", "lock", "write"}, frame : Frames \cup {NoFrame},
                 todo : SUBSET Clients, cur : Clients \cup {Nobody}]
  /\ Known(writer.frame)
  /\ writer.at = "recv" => writer = Idle
  /\ writer.at # "recv" => writer.frame # NoFrame /\ \A g \in Ahead : Before(writer.frame, g)
  /\ writer.at = "lock" => writer.todo = {}
  /\ writer.cur # Nobody => writer.cur \in writer.todo

----------------------------------------------------------------------------
(* A connection.                                                           *)

Piece == [of : Frames, part : {"header", "pixels"}]

\* The frames that begin in a sequence of pieces, by number.
Heads(p) == {k \in 1..Len(p) : 2 * k - 1 <= Len(p)}

\* Headers and the pixels of the same frame in turn, the frames in order.
Formed(p) ==
  /\ p \in Seq(Piece)
  /\ \A k \in Heads(p) :
       /\ p[2 * k - 1].part = "header"
       /\ 2 * k <= Len(p) => p[2 * k] = [of |-> p[2 * k - 1].of, part |-> "pixels"]
       /\ \A l \in Heads(p) : k < l => Before(p[2 * k - 1].of, p[2 * l - 1].of)

\* What has been written to the present connection of a client and not shown.
Stream(c) == buf[c] \o sock[c]

\* The writer has a frame for the client.
Serves(c) == writer.at = "lock" \/ c \in writer.todo

\* The connection as both ends have it.
Linked(c) ==
  /\ link[c] \in {"none", "backlog", "listed", "broken", "hungup"}
  /\ client[c] \in {"dead", "closed", "open", "cancelling"}
  /\ link[c] \in {"backlog", "listed"} => client[c] = "open"
  /\ link[c] = "hungup" => client[c] \in {"open", "cancelling"}
  /\ link[c] \in {"none", "broken"} => client[c] \in {"dead", "closed"}
  /\ c \in writer.todo => link[c] \in {"listed", "broken"}
  /\ writer.cur = c => link[c] \in {"listed", "broken"}

\* The latest frame shown is older than what is on its way.
Shows(c) ==
  /\ latest[c] \in 0..captured
  /\ \A g \in Ahead : latest[c] < g
  /\ Serves(c) => latest[c] < writer.frame

\* Every frame of the stream is older than what is on its way to it, and newer
\* than what was shown; only the one under the pen is begun and not whole.
Streams(c) ==
  /\ buf[c] \in Seq(Piece) /\ sock[c] \in Seq(Piece)
  /\ client[c] = "open" =>
       /\ Formed(Stream(c))
       /\ \A k \in Heads(Stream(c)) :
            LET f == Stream(c)[2 * k - 1].of
            IN  /\ Known(f) /\ latest[c] < f
                /\ \A g \in Ahead : Before(f, g)
                /\ Serves(c) => Before(f, writer.frame)
                       \/ (writer.cur = c /\ 2 * k - 1 = Len(Stream(c)))
  /\ link[c] = "backlog" => Stream(c) = <<>>
  /\ link[c] = "listed" =>
       \E n \in 0..Len(Stream(c)) :
         IF writer.cur = c
         THEN Len(Stream(c)) = 2 * n + 1 /\ Stream(c)[2 * n + 1].of = writer.frame
         ELSE Len(Stream(c)) = 2 * n

Connection(c) == Linked(c) /\ Shows(c) /\ Streams(c)

ClientInv == \A c \in Clients : Connection(c)

CameraInv == CaptureInv /\ ChanInv /\ WriterInv /\ ClientInv

----------------------------------------------------------------------------
(* Lemmas about the operators of the frame capture.                        *)

LEMMA CaptureShape ==
  ASSUME NEW F, NEW c \in Captures(F)
  PROVE  c.idx \in {0, 1} /\ Prev(c) \in {0, 1} /\ Prev(c) # c.idx /\ 0..1 = {0, 1}
BY DEF Captures, Prev

Buffer == [map : {"unmapped", "pending", "mapped"}, holds : Frames \cup {NoFrame}]

\* A capture is its five fields.
LEMMA CaptureFields ==
  ASSUME NEW size \in MascotSizes \cup {VcamSize, Unsized}, NEW idx \in 0..1,
         NEW pending \in BOOLEAN, NEW ready \in BOOLEAN, NEW buffers \in [0..1 -> Buffer]
  PROVE  [size |-> size, idx |-> idx, pending |-> pending, ready |-> ready, buf |-> buffers]
           \in Captures(Frames \cup {NoFrame})
BY DEF Captures, Buffer

LEMMA FieldsOfCapture ==
  ASSUME NEW c \in Captures(Frames \cup {NoFrame})
  PROVE  /\ c.size \in MascotSizes \cup {VcamSize, Unsized} /\ c.idx \in 0..1
         /\ c.pending \in BOOLEAN /\ c.ready \in BOOLEAN /\ c.buf \in [0..1 -> Buffer]
         /\ c = [size |-> c.size, idx |-> c.idx, pending |-> c.pending, ready |-> c.ready, buf |-> c.buf]
BY DEF Captures, Buffer

\* What the two assignments to the capture do to its fields.
Copied(c, i, filled, idx) == [c EXCEPT !.buf[i] = filled, !.idx = idx, !.pending = TRUE]

LEMMA CopyFields ==
  ASSUME NEW s, NEW i, NEW p, NEW b, NEW j, NEW taken, NEW k
  PROVE  Copied([size |-> s, idx |-> i, pending |-> p, ready |-> FALSE, buf |-> b], j, taken, k)
           = [size |-> s, idx |-> k, pending |-> TRUE, ready |-> FALSE, buf |-> [b EXCEPT ![j] = taken]]
<1> DEFINE d == Copied([size |-> s, idx |-> i, pending |-> p, ready |-> FALSE, buf |-> b], j, taken, k)
<1> USE DEF Copied
<1>1. d = [x \in {"size", "idx", "pending", "ready", "buf"} |-> d[x]]
  OBVIOUS
<1>2. d.size = s
  OBVIOUS
<1>3. d.idx = k
  OBVIOUS
<1>4. d.pending = TRUE
  OBVIOUS
<1>5. d.ready = FALSE
  OBVIOUS
<1>6. d.buf = [b EXCEPT ![j] = taken]
  OBVIOUS
<1> HIDE DEF d
<1>7. d = [size |-> s, idx |-> k, pending |-> TRUE, ready |-> FALSE, buf |-> [b EXCEPT ![j] = taken]]
  BY <1>1, <1>2, <1>3, <1>4, <1>5, <1>6
<1> QED
  BY <1>7 DEF d

LEMMA MapFields ==
  ASSUME NEW s, NEW i, NEW p, NEW r, NEW b \in [0..1 -> Buffer], NEW j \in 0..1
  PROVE  [[size |-> s, idx |-> i, pending |-> p, ready |-> r, buf |-> b]
             EXCEPT !.buf[j].map = "mapped", !.ready = TRUE]
           = [size |-> s, idx |-> i, pending |-> p, ready |-> TRUE,
              buf |-> [b EXCEPT ![j].map = "mapped"]]
<1> DEFINE d == [[size |-> s, idx |-> i, pending |-> p, ready |-> r, buf |-> b]
                    EXCEPT !.buf[j].map = "mapped", !.ready = TRUE]
<1>1. d = [x \in {"size", "idx", "pending", "ready", "buf"} |-> d[x]]
  OBVIOUS
<1>2. d.size = s
  OBVIOUS
<1>3. d.idx = i
  OBVIOUS
<1>4. d.pending = p
  OBVIOUS
<1>5. d.ready = TRUE
  OBVIOUS
<1>6. d.buf = [b EXCEPT ![j].map = "mapped"]
  BY DEF Buffer
<1> HIDE DEF d
<1>7. d = [size |-> s, idx |-> i, pending |-> p, ready |-> TRUE,
           buf |-> [b EXCEPT ![j].map = "mapped"]]
  BY <1>1, <1>2, <1>3, <1>4, <1>5, <1>6
<1> QED
  BY <1>7 DEF d

LEMMA FreshSound ==
  ASSUME NEW size \in MascotSizes \cup {VcamSize, Unsized}
  PROVE  Sound(Fresh(size)) /\ Held(Fresh(size)) = NoFrame
<1> DEFINE c == Fresh(size)
<1>1. /\ c.idx = 0 /\ Prev(c) = 1 /\ c.pending = FALSE /\ c.ready = FALSE /\ c.size = size
      /\ c.buf[0] = Empty /\ c.buf[1] = Empty
  BY DEF Fresh, Prev
<1>2. Empty.map = "unmapped" /\ Empty.holds = NoFrame
  BY DEF Empty
<1>3. c \in Captures(Frames \cup {NoFrame})
  BY DEF Captures, Fresh, Empty
<1> QED
  BY <1>1, <1>2, <1>3 DEF Sound, Held

LEMMA EnsuredSound ==
  ASSUME NEW c, Sound(c), NEW size \in MascotSizes \cup {VcamSize}
  PROVE  /\ Sound(Ensured(c, size))
         /\ Held(Ensured(c, size)) \in {Held(c), NoFrame}
BY FreshSound DEF Ensured

\* The frame before is read or stays, and the present one takes its place or is
\* not copied.
LEMMA CapturedSound ==
  ASSUME NEW c, Sound(c), NEW frame \in Frames
  PROVE  /\ Sound(Captured(c, frame))
         /\ Held(Captured(c, frame)) = IF CanCopy(c) THEN frame ELSE Held(c)
         /\ Taken(c) \in {NoFrame, Held(c)}
         /\ Taken(c) # NoFrame => CanCopy(c)
<1>1. c.idx \in {0, 1} /\ Prev(c) \in {0, 1} /\ Prev(c) = 1 - c.idx /\ Prev(c) # c.idx
  BY DEF Sound, Captures, Prev
<1>2. /\ Taken(c) \in {NoFrame, Held(c)}
      /\ Taken(c) # NoFrame => CanCopy(c)
  BY DEF Taken, Held, CanCopy
<1>3. CASE ~CanCopy(c)
  BY <1>2, <1>3 DEF Captured, Unmapped, CanCopy
<1>4. CASE CanCopy(c)
  <2> DEFINE d == Captured(c, frame)
             full == [map |-> "pending", holds |-> frame]
             emptied == IF Readable(c) THEN [c.buf EXCEPT ![Prev(c)] = Empty] ELSE c.buf
             filled == [emptied EXCEPT ![c.idx] = full]
  <2>1. full \in Buffer /\ Empty \in Buffer
    BY DEF Empty, Buffer
  <2>2. /\ c.size \in MascotSizes \cup {VcamSize, Unsized} /\ c.idx \in 0..1
        /\ c.pending \in BOOLEAN /\ c.ready \in BOOLEAN /\ c.buf \in [0..1 -> Buffer]
        /\ c = [size |-> c.size, idx |-> c.idx, pending |-> c.pending, ready |-> c.ready, buf |-> c.buf]
    BY FieldsOfCapture DEF Sound
  <2>3. ~Readable(c) => ~c.pending /\ c.ready = FALSE /\ c.buf[Prev(c)] = Empty
    <3> SUFFICES ASSUME ~Readable(c) PROVE ~c.pending /\ c.ready = FALSE /\ c.buf[Prev(c)] = Empty
      OBVIOUS
    <3>1. ~c.pending
      BY <1>4 DEF CanCopy
    <3>2. c.buf[Prev(c)].map = "unmapped" /\ c.buf[Prev(c)].holds = NoFrame /\ c.ready = FALSE
      BY <2>2, <3>1 DEF Sound
    <3>3. c.buf[Prev(c)] \in Buffer
      BY <1>1, <2>2
    <3> QED
      BY <3>1, <3>2, <3>3 DEF Empty, Buffer
  <2>4. emptied \in [0..1 -> Buffer] /\ emptied[Prev(c)] = Empty
    BY <1>1, <2>1, <2>2, <2>3
  <2>5. /\ Unmapped(c) = [size |-> c.size, idx |-> c.idx, pending |-> c.pending, ready |-> FALSE,
                          buf |-> emptied]
    BY <2>2, <2>3 DEF Unmapped
  <2> HIDE DEF emptied
  <2>6. d = [size |-> c.size, idx |-> Prev(c), pending |-> TRUE, ready |-> FALSE, buf |-> filled]
    <3>1. d = Copied(Unmapped(c), c.idx, full, Prev(c))
      BY <1>4 DEF Captured, Copied
    <3> HIDE DEF d, full
    <3> QED
      <4>1. d = Copied([size |-> c.size, idx |-> c.idx, pending |-> c.pending, ready |-> FALSE, buf |-> emptied], c.idx, full, Prev(c))
        BY <3>1, <2>5
      <4>2. d = [size |-> c.size, idx |-> Prev(c), pending |-> TRUE, ready |-> FALSE, buf |-> [emptied EXCEPT ![c.idx] = full]]
        BY <4>1, CopyFields
      <4> QED
        BY <4>2
  <2>7. filled \in [0..1 -> Buffer] /\ filled[c.idx] = full /\ filled[Prev(c)] = Empty
    BY <1>1, <2>1, <2>4
  <2>8. full.map = "pending" /\ full.holds = frame /\ frame # NoFrame
    BY DEF Frames, NoFrame
  <2> HIDE DEF full, filled
  <2>9. d \in Captures(Frames \cup {NoFrame})
    <3>1. Prev(c) \in 0..1 /\ TRUE \in BOOLEAN /\ FALSE \in BOOLEAN
      BY <1>1
    <3> HIDE DEF d
    <3> QED
      BY <3>1, <2>2, <2>6, <2>7, CaptureFields, Zenon
  <2>10. /\ d.idx = Prev(c) /\ d.pending = TRUE /\ d.ready = FALSE
         /\ d.buf[c.idx] = full /\ d.buf[Prev(c)] = Empty
    BY <2>6, <2>7
  <2>11. Prev(d) = c.idx
    BY <1>1, <2>10 DEF Prev
  <2> HIDE DEF d
  <2>12. Sound(d) /\ Held(d) = frame
    BY <2>8, <2>9, <2>10, <2>11 DEF Sound, Held
  <2> QED
    BY <1>2, <1>4, <2>12 DEF d
<1> QED
  BY <1>3, <1>4

LEMMA MappedSound ==
  ASSUME NEW c, Sound(c), Mapping(c)
  PROVE  Sound(Mapped(c)) /\ Held(Mapped(c)) = Held(c)
<1> DEFINE d == Mapped(c)
<1>1. c.idx \in {0, 1} /\ Prev(c) \in {0, 1} /\ Prev(c) # c.idx
  BY DEF Sound, Captures, Prev
<1> DEFINE buffers == [c.buf EXCEPT ![Prev(c)].map = "mapped"]
<1>2. /\ c.size \in MascotSizes \cup {VcamSize, Unsized} /\ c.idx \in 0..1
      /\ c.pending \in BOOLEAN /\ c.ready \in BOOLEAN /\ c.buf \in [0..1 -> Buffer]
      /\ c = [size |-> c.size, idx |-> c.idx, pending |-> c.pending, ready |-> c.ready, buf |-> c.buf]
  BY FieldsOfCapture DEF Sound
<1>6. d = [size |-> c.size, idx |-> c.idx, pending |-> c.pending, ready |-> TRUE, buf |-> buffers]
  <2>1. d = [c EXCEPT !.buf[Prev(c)].map = "mapped", !.ready = TRUE]
    BY DEF Mapped
  <2>2. Prev(c) \in 0..1
    BY <1>1
  <2> HIDE DEF d
  <2> QED
    BY <1>2, <2>1, <2>2, MapFields DEF buffers
<1>7. /\ buffers \in [0..1 -> Buffer] /\ buffers[c.idx] = c.buf[c.idx]
      /\ buffers[Prev(c)].map = "mapped" /\ buffers[Prev(c)].holds = c.buf[Prev(c)].holds
  BY <1>1, <1>2 DEF Buffer
<1> HIDE DEF buffers
<1>3. d \in Captures(Frames \cup {NoFrame}) /\ d.idx = c.idx /\ d.ready = TRUE /\ d.pending = c.pending
  <2>1. d \in Captures(Frames \cup {NoFrame})
    <3>1. TRUE \in BOOLEAN
      OBVIOUS
    <3> HIDE DEF d
    <3> QED
      BY <3>1, <1>2, <1>6, <1>7, CaptureFields, Zenon
  <2> QED
    BY <2>1, <1>6
<1>4. /\ d.buf[c.idx] = c.buf[c.idx] /\ d.buf[Prev(c)].map = "mapped"
      /\ d.buf[Prev(c)].holds = c.buf[Prev(c)].holds
  BY <1>6, <1>7
<1>5. Prev(d) = Prev(c)
  BY <1>3 DEF Prev
<1> HIDE DEF d
<1>8. Sound(d) /\ Held(d) = Held(c)
  BY <1>3, <1>4, <1>5 DEF Sound, Held, Mapping
<1> QED
  BY <1>8 DEF d

LEMMA SoundMeansFlagIsTrue ==
  ASSUME NEW c, Sound(c)
  PROVE  FlagIsTrue(c)
BY DEF Sound, FlagIsTrue, Readable, CanCopy, Empty

----------------------------------------------------------------------------
(* The steps of the application.                                           *)

\* What a frame of the application does to the frames ahead of the writer: they
\* get the next one at most.
Upstream ==
  /\ Sound(capture') /\ captured' \in 0..MaxFrames
  /\ \/ captured' = captured
     \/ captured < MaxFrames /\ captured' = captured + 1 /\ NextFrame = captured'
  /\ Held(capture') \in {NoFrame, Held(capture), NextFrame}
  /\ Held(capture') \in 0..captured' \/ Held(capture') = Later

LEMMA NextIsNewer ==
  ASSUME captured \in 0..MaxFrames
  PROVE  /\ NextFrame \in Frames /\ NextFrame # NoFrame /\ captured < NextFrame
         /\ \A f : Known(f) => Before(f, NextFrame)
BY RoomAssumption DEF NextFrame, Frames, Later, Known, Before, NoFrame

LEMMA CaptureStep ==
  ASSUME CaptureInv, NEW size \in MascotSizes \cup {VcamSize}, Capture(size)
  PROVE  /\ Upstream
         /\ Taken(Ensured(capture, size)) \in {NoFrame, Held(capture)}
         /\ Taken(Ensured(capture, size)) # NoFrame => Held(capture') = NextFrame
<1> DEFINE d == Ensured(capture, size)
<1>1. Sound(d) /\ Held(d) \in {Held(capture), NoFrame}
  BY EnsuredSound DEF CaptureInv
<1>2. NextFrame \in Frames
  BY NextIsNewer DEF CaptureInv
<1>3. /\ capture' = Captured(d, NextFrame)
      /\ captured' = IF CanCopy(d) /\ NextFrame # Later THEN NextFrame ELSE captured
  BY DEF Capture
<1> HIDE DEF d
<1>4. /\ Sound(capture') /\ Held(capture') = (IF CanCopy(d) THEN NextFrame ELSE Held(d))
      /\ Taken(d) \in {NoFrame, Held(d)}
      /\ Taken(d) # NoFrame => CanCopy(d)
  BY <1>1, <1>2, <1>3, CapturedSound
<1>5. captured \in 0..MaxFrames /\ Known(Held(capture))
  BY DEF CaptureInv
<1>6. /\ captured' \in 0..MaxFrames
      /\ \/ captured' = captured
         \/ captured < MaxFrames /\ captured' = captured + 1 /\ NextFrame = captured'
  BY <1>3, <1>5, RoomAssumption DEF NextFrame, Later
<1>7. Held(capture') \in {NoFrame, Held(capture), NextFrame}
  BY <1>1, <1>4
<1>8. Held(capture') \in 0..captured' \/ Held(capture') = Later
  <2>1. CASE CanCopy(d)
    BY <1>3, <1>4, <1>5, <2>1, RoomAssumption DEF NextFrame, Later
  <2>2. CASE ~CanCopy(d)
    BY <1>1, <1>3, <1>4, <1>5, <2>2, RoomAssumption DEF Known, NoFrame
  <2> QED
    BY <2>1, <2>2
<1> QED
  BY <1>1, <1>4, <1>6, <1>7, <1>8 DEF Upstream, d

LEMMA InitCapture == Init => CaptureInv
<1>1. Sound(NoCapture) /\ Held(NoCapture) = NoFrame
  BY FreshSound DEF NoCapture
<1> QED
  BY <1>1, RoomAssumption DEF Init, CaptureInv, Known, NoFrame

\* Every step keeps the capture sound.
LEMMA CaptureInvStep == CaptureInv /\ [Next]_vars => CaptureInv'
<1> SUFFICES ASSUME CaptureInv, [Next]_vars PROVE CaptureInv'
  OBVIOUS
<1>1. ASSUME Upstream, mascot' = mascot PROVE CaptureInv'
  BY <1>1 DEF Upstream, CaptureInv, Known
<1>2. ASSUME UNCHANGED <<capture, captured>>, mascot' \in MascotSizes \cup {Off} PROVE CaptureInv'
  BY <1>2 DEF CaptureInv, Known
<1>3. CASE VcamFrame
  BY <1>1, <1>3, CaptureStep DEF VcamFrame
<1>4. CASE MascotFrame
  <2>1. CASE mascot = Off
    BY <1>2, <1>4, <2>1 DEF MascotFrame, CaptureInv
  <2>2. CASE mascot # Off
    <3>1. mascot \in MascotSizes \cup {VcamSize}
      BY <2>2 DEF CaptureInv
    <3> QED
      BY <1>1, <1>4, <2>2, <3>1, CaptureStep DEF MascotFrame
  <2> QED
    BY <2>1, <2>2
<1>5. CASE MapDone
  BY <1>5, MappedSound DEF MapDone, CaptureInv, Known
<1>6. CASE Gone
  <2>1. Sound(NoCapture) /\ Held(NoCapture) = NoFrame
    BY FreshSound DEF NoCapture
  <2> QED
    BY <1>6, <2>1 DEF Gone, CaptureInv, Known, NoFrame
<1>7. CASE LaunchApp \/ NoVcamFrame \/ Switch \/ Quit \/ WriterRecv \/ WriterLock \/ UNCHANGED vars
  BY <1>2, <1>7 DEF LaunchApp, NoVcamFrame, Switch, Quit, WriterRecv, WriterLock, vars, appVars,
                    CaptureInv
<1>8. ASSUME NEW c \in Clients,
             \/ Accept(c) \/ Write(c) \/ WriteFails(c) \/ Connect(c) \/ Read(c)
             \/ CancelHandler(c) \/ LaunchClient(c) \/ Die(c) \/ SuspendOrResume(c)
      PROVE  UNCHANGED appVars
  BY <1>8 DEF Accept, Write, WriteFails, Connect, Read, CancelHandler, LaunchClient, Die,
              SuspendOrResume
<1>9. ASSUME UNCHANGED appVars PROVE CaptureInv'
  BY <1>2, <1>9 DEF appVars, CaptureInv
<1> QED
  BY <1>3, <1>4, <1>5, <1>6, <1>7, <1>8, <1>9 DEF Next, AppFrame, Stop, Crash

\* No buffer is read, and none is copied into, in the wrong state of its mapping,
\* however the two users of the capture take turns and resize it.
THEOREM FlagAlwaysTrue == Spec => []ReadsOnlyMapped
<1>1. CaptureInv => ReadsOnlyMapped
  BY SoundMeansFlagIsTrue DEF CaptureInv, ReadsOnlyMapped
<1> QED
  BY <1>1, InitCapture, CaptureInvStep, PTL DEF Spec

\* The steps of the application, and those that do nothing for the frames, leave
\* the writer and the connections alone.
Quiet ==
  /\ UNCHANGED <<writer, link, sock, client, buf, latest>>
  /\ captured' = captured \/ (captured < MaxFrames /\ captured' = captured + 1)
  /\ Ahead' \subseteq Ahead \cup {NextFrame}

LEMMA QuietSteps ==
  ASSUME CaptureInv, ChanInv,
         \/ LaunchApp \/ AppFrame \/ MapDone \/ Switch \/ Quit
         \/ (\E c \in Clients : SuspendOrResume(c)) \/ UNCHANGED vars
  PROVE  Quiet /\ ChanInv'
<1>1. /\ captured \in 0..MaxFrames /\ Known(Held(capture))
      /\ chan \in Frames \cup {NoFrame} /\ Known(chan)
      /\ chan # NoFrame /\ Held(capture) # NoFrame => Before(chan, Held(capture))
  BY DEF CaptureInv, ChanInv
<1>2. NextFrame # NoFrame /\ NextFrame \in Frames /\ \A f : Known(f) => Before(f, NextFrame)
  BY <1>1, NextIsNewer
<1>3. ASSUME Upstream, UNCHANGED <<writer, link, sock, client, buf, latest>>,
             \/ chan' = chan
             \/ chan' = Held(capture) /\ Held(capture) # NoFrame /\ Held(capture') = NextFrame
      PROVE  Quiet /\ ChanInv'
  <2>1. captured' \in captured..MaxFrames /\ captured' \in 0..MaxFrames
    BY <1>1, <1>3, RoomAssumption DEF Upstream
  <2>2. Ahead' \subseteq Ahead \cup {NextFrame}
    BY <1>3 DEF Ahead, Upstream
  <2>3. Known(chan)'
    BY <1>1, <1>3, <2>1 DEF Known
  <2>4. Held(capture) \in Frames \cup {NoFrame}
    BY <1>1, RoomAssumption DEF Known, Frames, Later, NoFrame
  <2>5. chan' # NoFrame /\ Held(capture') # NoFrame => Before(chan', Held(capture'))
    BY <1>1, <1>2, <1>3 DEF Upstream
  <2>6. chan' \in Frames \cup {NoFrame}
    BY <1>1, <1>3, <2>4
  <2> QED
    BY <1>3, <2>1, <2>2, <2>3, <2>5, <2>6 DEF Quiet, ChanInv, Upstream
<1>4. ASSUME Held(capture') = Held(capture),
             UNCHANGED <<captured, chan, writer, link, sock, client, buf, latest>>
      PROVE  Quiet /\ ChanInv'
  BY <1>1, <1>4 DEF Quiet, ChanInv, Ahead, Known
<1>5. CASE VcamFrame
  <2>1. /\ Upstream
        /\ Taken(Ensured(capture, VcamSize)) \in {NoFrame, Held(capture)}
        /\ Taken(Ensured(capture, VcamSize)) # NoFrame => Held(capture') = NextFrame
    BY <1>5, CaptureStep DEF VcamFrame
  <2> QED
    BY <1>3, <1>5, <2>1 DEF VcamFrame, Send, clientVars
<1>6. CASE MascotFrame
  <2>1. CASE mascot = Off
    BY <1>4, <1>6, <2>1 DEF MascotFrame, clientVars, serverVars
  <2>2. CASE mascot # Off
    <3>1. mascot \in MascotSizes \cup {VcamSize}
      BY <2>2 DEF CaptureInv
    <3>2. Upstream
      BY <1>6, <2>2, <3>1, CaptureStep DEF MascotFrame
    <3> QED
      BY <1>3, <1>6, <3>2 DEF MascotFrame, clientVars, serverVars
  <2> QED
    BY <2>1, <2>2
<1>7. CASE MapDone
  BY <1>4, <1>7, MappedSound DEF MapDone, CaptureInv, clientVars, serverVars
<1>8. CASE LaunchApp \/ NoVcamFrame \/ Switch \/ Quit \/ (\E c \in Clients : SuspendOrResume(c)) \/ UNCHANGED vars
  <2>1. UNCHANGED <<capture, captured, chan, writer, link, sock, client, buf, latest>>
    BY <1>8 DEF LaunchApp, NoVcamFrame, Switch, Quit, SuspendOrResume, vars, appVars, serverVars,
                clientVars
  <2> QED
    BY <1>4, <2>1
<1> QED
  BY <1>5, <1>6, <1>7, <1>8 DEF AppFrame

LEMMA QuietKeeps ==
  ASSUME CaptureInv, ChanInv, WriterInv, ClientInv, Quiet
  PROVE  WriterInv' /\ ClientInv'
<1>1. /\ captured \in 0..MaxFrames /\ captured' \in captured..MaxFrames
      /\ Ahead' \subseteq Ahead \cup {NextFrame}
      /\ UNCHANGED <<writer, link, sock, client, buf, latest>>
  BY RoomAssumption DEF CaptureInv, Quiet
<1>2. \A f : Known(f) => (f \in 0..captured' \/ f = Later) /\ Before(f, NextFrame)
  BY <1>1, NextIsNewer, RoomAssumption DEF Known
<1>3. WriterInv'
  BY <1>1, <1>2 DEF WriterInv, Idle, Known
<1>4. ASSUME NEW c \in Clients PROVE Connection(c)'
  <2>1. Linked(c) /\ Shows(c) /\ Streams(c)
    BY DEF ClientInv, Connection
  <2>2. Linked(c)'
    BY <1>1, <2>1 DEF Linked
  <2>3. Shows(c)'
    <3>1. latest[c] < NextFrame
      BY <1>1, <2>1, NextIsNewer, RoomAssumption DEF Shows, Frames, Later
    <3> QED
      BY <1>1, <2>1, <3>1, RoomAssumption DEF Shows, Serves
  <2>4. Streams(c)'
    <3>1. Stream(c)' = Stream(c) /\ Serves(c)' = Serves(c)
      BY <1>1 DEF Stream, Serves
    <3>2. client[c] = "open" =>
            \A k \in Heads(Stream(c)) :
              /\ Stream(c)[2 * k - 1].of \in 0..captured' \/ Stream(c)[2 * k - 1].of = Later
              /\ \A g \in Ahead' : Before(Stream(c)[2 * k - 1].of, g)
      <4>1. client[c] = "open" =>
              \A k \in Heads(Stream(c)) :
                Known(Stream(c)[2 * k - 1].of) /\ \A g \in Ahead : Before(Stream(c)[2 * k - 1].of, g)
        BY <2>1 DEF Streams
      <4> HIDE DEF Ahead
      <4> QED
        BY <1>1, <1>2, <4>1
    <3> QED
      BY <1>1, <2>1, <3>1, <3>2 DEF Streams, Known
  <2> QED
    BY <2>2, <2>3, <2>4 DEF Connection
<1> QED
  BY <1>3, <1>4 DEF ClientInv

----------------------------------------------------------------------------
(* The steps of the writer and of the operating system.                    *)

\* A step that leaves the two ends of a connection alone, and by which the writer
\* gets nothing new for it.
Spares(c) ==
  /\ captured' = captured /\ Ahead' \subseteq Ahead
  /\ link'[c] = link[c] /\ sock'[c] = sock[c] /\ client'[c] = client[c]
  /\ buf'[c] = buf[c] /\ latest'[c] = latest[c]
  /\ Serves(c)' => Serves(c) /\ writer'.frame = writer.frame
  /\ writer'.cur = c <=> writer.cur = c
  /\ writer.cur = c => writer'.frame = writer.frame
  /\ c \in writer'.todo => link[c] \in {"listed", "broken"}

LEMMA SparesKeeps ==
  ASSUME NEW c \in Clients, Connection(c), Spares(c)
  PROVE  Connection(c)'
<1>1. Linked(c)'
  BY DEF Connection, Linked, Spares
<1>2. Shows(c)'
  BY DEF Connection, Shows, Spares
<1>3. Streams(c)'
  <2>1. Stream(c)' = Stream(c) /\ (client[c] = "open")' = (client[c] = "open")
    BY DEF Stream, Spares
  <2>2. ASSUME client[c] = "open", NEW k \in Heads(Stream(c)), NEW f, f = Stream(c)[2 * k - 1].of
        PROVE  /\ f \in 0..captured' \/ f = Later
               /\ latest'[c] < f
               /\ \A g \in Ahead' : Before(f, g)
               /\ Serves(c)' => Before(f, writer'.frame)
                      \/ (writer'.cur = c /\ 2 * k - 1 = Len(Stream(c)))
    <3>1. /\ Known(f) /\ latest[c] < f
          /\ \A g \in Ahead : Before(f, g)
          /\ Serves(c) => Before(f, writer.frame) \/ (writer.cur = c /\ 2 * k - 1 = Len(Stream(c)))
      BY <2>2 DEF Connection, Streams
    <3>2. /\ captured' = captured /\ Ahead' \subseteq Ahead /\ latest'[c] = latest[c]
          /\ Serves(c)' => Serves(c) /\ writer'.frame = writer.frame
          /\ writer'.cur = c <=> writer.cur = c
      BY DEF Spares
    <3> HIDE DEF Ahead, Serves
    <3> QED
      BY <3>1, <3>2 DEF Known
  <2>3. buf'[c] \in Seq(Piece) /\ sock'[c] \in Seq(Piece) /\ (client'[c] = "open" => Formed(Stream(c)))
    BY DEF Connection, Streams, Spares
  <2>4. /\ link'[c] = "backlog" => Stream(c) = <<>>
        /\ link'[c] = "listed" =>
             \E n \in 0..Len(Stream(c)) :
               IF writer'.cur = c
               THEN Len(Stream(c)) = 2 * n + 1 /\ Stream(c)[2 * n + 1].of = writer'.frame
               ELSE Len(Stream(c)) = 2 * n
    BY DEF Connection, Streams, Spares
  <2> QED
    BY <2>1, <2>2, <2>3, <2>4 DEF Streams, Known
<1> QED
  BY <1>1, <1>2, <1>3 DEF Connection

LEMMA GoneKeeps ==
  ASSUME CaptureInv, ClientInv, Gone
  PROVE  ChanInv' /\ WriterInv' /\ ClientInv'
<1>1. Held(capture') = NoFrame
  BY FreshSound DEF Gone, NoCapture
<1>2. chan' = NoFrame /\ writer' = Idle /\ Ahead' = {} /\ captured' = captured
  BY <1>1 DEF Gone, Ahead
<1>3. captured \in 0..MaxFrames
  BY DEF CaptureInv
<1>4. ChanInv' /\ WriterInv'
  BY <1>1, <1>2, <1>3, RoomAssumption DEF ChanInv, WriterInv, Known, Idle, NoFrame, Ahead
<1>5. ASSUME NEW c \in Clients PROVE Connection(c)'
  <2>1. Connection(c)
    BY DEF ClientInv
  <2>2. /\ sock' = sock /\ client' = client /\ buf' = buf /\ latest' = latest
        /\ link'[c] = CASE link[c] \in {"backlog", "listed"} -> "hungup"
                      [] link[c] = "broken"                -> "none"
                      [] OTHER                             -> link[c]
    BY DEF Gone, clientVars
  <2>3. c \notin writer'.todo /\ writer'.cur # c /\ ~Serves(c)'
    BY <1>2, NobodyAssumption DEF Idle, Serves
  <2>4. Linked(c)'
    BY <2>1, <2>2, <2>3 DEF Connection, Linked
  <2>5. Shows(c)'
    BY <1>2, <2>1, <2>2, <2>3 DEF Connection, Shows
  <2>6. Streams(c)'
    <3>1. Stream(c)' = Stream(c)
      BY <2>2 DEF Stream
    <3>2. link'[c] \notin {"backlog", "listed"}
      BY <2>1, <2>2 DEF Connection, Linked
    <3> QED
      BY <1>2, <2>1, <2>2, <2>3, <3>1, <3>2 DEF Connection, Streams, Known
  <2> QED
    BY <2>4, <2>5, <2>6 DEF Connection
<1> QED
  BY <1>4, <1>5 DEF ClientInv

LEMMA WriterRecvKeeps ==
  ASSUME CaptureInv, ChanInv, WriterInv, ClientInv, WriterRecv
  PROVE  ChanInv' /\ WriterInv' /\ ClientInv'
<1>1. /\ writer = Idle /\ chan # NoFrame /\ chan' = NoFrame /\ captured' = captured
      /\ writer' = [at |-> "lock", frame |-> chan, todo |-> {}, cur |-> Nobody]
      /\ UNCHANGED <<capture, link, sock, client, buf, latest>>
  <2>1. writer = Idle /\ writer' = [writer EXCEPT !.at = "lock", !.frame = chan]
    BY DEF WriterRecv, WriterInv
  <2>2. writer' = [at |-> "lock", frame |-> chan, todo |-> {}, cur |-> Nobody]
    BY <2>1 DEF Idle
  <2> QED
    BY <2>1, <2>2 DEF WriterRecv, appVars, clientVars
<1>2. chan \in Ahead /\ Ahead' \subseteq Ahead
  BY <1>1 DEF Ahead
<1>3. Known(chan) /\ (\A g \in Ahead' : Before(chan, g)) /\ Known(NoFrame) /\ chan \in Frames
  BY <1>1, RoomAssumption DEF ChanInv, CaptureInv, Ahead, Known, NoFrame
<1>4. ChanInv' /\ WriterInv'
  BY <1>1, <1>3 DEF ChanInv, WriterInv, Known
<1>5. ASSUME NEW c \in Clients PROVE Connection(c)'
  <2>1. Connection(c)
    BY DEF ClientInv
  <2>2. c \notin writer.todo /\ c \notin writer'.todo /\ writer.cur # c /\ writer'.cur # c
    BY <1>1, NobodyAssumption DEF Idle
  <2>3. Linked(c)'
    BY <1>1, <2>1, <2>2 DEF Connection, Linked
  <2>4. Shows(c)'
    BY <1>1, <1>2, <2>1 DEF Connection, Shows
  <2>5. Streams(c)'
    <3>1. Stream(c)' = Stream(c)
      BY <1>1 DEF Stream
    <3>2. ASSUME client[c] = "open", NEW k \in Heads(Stream(c)), NEW f, f = Stream(c)[2 * k - 1].of
          PROVE  /\ Known(f) /\ latest[c] < f /\ Before(f, chan)
                 /\ \A g \in Ahead' : Before(f, g)
      BY <1>2, <2>1, <3>2 DEF Connection, Streams
    <3>3. /\ buf[c] \in Seq(Piece) /\ sock[c] \in Seq(Piece)
          /\ client[c] = "open" => Formed(Stream(c))
          /\ link[c] = "backlog" => Stream(c) = <<>>
          /\ link[c] = "listed" => \E n \in 0..Len(Stream(c)) : Len(Stream(c)) = 2 * n
      BY <2>1, <2>2 DEF Connection, Streams
    <3> QED
      BY <1>1, <2>2, <3>1, <3>2, <3>3 DEF Streams, Known
  <2> QED
    BY <2>3, <2>4, <2>5 DEF Connection
<1> QED
  BY <1>4, <1>5 DEF ClientInv

LEMMA WriterLockKeeps ==
  ASSUME CaptureInv, ChanInv, WriterInv, ClientInv, WriterLock
  PROVE  ChanInv' /\ WriterInv' /\ ClientInv'
<1> DEFINE listed == {c \in Clients : link[c] = "listed"}
<1>1. /\ writer.at = "lock" /\ writer.todo = {} /\ writer.cur = Nobody
      /\ writer' = IF listed = {} THEN Idle ELSE [writer EXCEPT !.at = "write", !.todo = listed]
      /\ UNCHANGED <<capture, captured, chan, link, sock, client, buf, latest>>
  BY NobodyAssumption DEF WriterLock, WriterInv, appVars, clientVars
<1>2. Ahead' = Ahead /\ ChanInv'
  BY <1>1 DEF Ahead, ChanInv, Known
<1>3. WriterInv' /\ (writer' = Idle \/ writer'.frame = writer.frame) /\ writer'.cur = Nobody
  <2>1. CASE listed = {}
    BY <1>1, <2>1, RoomAssumption DEF WriterInv, Idle, Known, CaptureInv, NoFrame
  <2>2. CASE listed # {}
    <3>1. /\ writer'.at = "write" /\ writer'.frame = writer.frame /\ writer'.todo = listed
          /\ writer'.cur = Nobody
          /\ writer' \in [at : {"recv", "lock", "write"}, frame : Frames \cup {NoFrame},
                          todo : SUBSET Clients, cur : Clients \cup {Nobody}]
      BY <1>1, <2>2 DEF WriterInv
    <3> QED
      BY <1>1, <1>2, <3>1 DEF WriterInv, Known
  <2> QED
    BY <2>1, <2>2
<1>4. ASSUME NEW c \in Clients PROVE Connection(c)'
  <2>1. Spares(c)
    BY <1>1, <1>2, <1>3, NobodyAssumption DEF Spares, Serves, Idle, WriterInv
  <2> QED
    BY <2>1, SparesKeeps DEF ClientInv
<1> QED
  BY <1>2, <1>3, <1>4 DEF ClientInv

----------------------------------------------------------------------------
(* Lemmas about sequences of pieces.                                       *)

\* A sequence of pieces and one more.
Extends(q, p, x) ==
  /\ q \in Seq(Piece) /\ Len(q) = Len(p) + 1 /\ q[Len(p) + 1] = x
  /\ \A i \in 1..Len(p) : q[i] = p[i]

LEMMA AppendToStream ==
  ASSUME NEW s \in Seq(Piece), NEW t \in Seq(Piece), NEW x \in Piece
  PROVE  /\ Append(t, x) \in Seq(Piece) /\ s \o t \in Seq(Piece)
         /\ Extends(s \o Append(t, x), s \o t, x)
<1> HIDE DEF Piece
<1>1. Append(t, x) \in Seq(Piece) /\ s \o t \in Seq(Piece)
  OBVIOUS
<1>2. Append(s \o t, x) = s \o Append(t, x)
  OBVIOUS
<1>3. Extends(Append(s \o t, x), s \o t, x)
  BY <1>1 DEF Extends
<1> QED
  BY <1>1, <1>2, <1>3

LEMMA FormedPair ==
  ASSUME NEW p, Formed(p), NEW k \in Heads(p)
  PROVE  /\ p[2 * k - 1].part = "header" /\ p[2 * k - 1] \in Piece
         /\ 2 * k <= Len(p) => p[2 * k] = [of |-> p[2 * k - 1].of, part |-> "pixels"]
         /\ \A l \in Heads(p) : k < l => Before(p[2 * k - 1].of, p[2 * l - 1].of)
<1>1. 2 * k - 1 \in 1..Len(p) /\ p \in Seq(Piece)
  BY DEF Heads, Formed
<1>2. p[2 * k - 1] \in Piece
  BY <1>1
<1> QED
  BY <1>2 DEF Formed

\* A header after whole frames, of a frame that is newer than they are.
LEMMA HeaderWritten ==
  ASSUME NEW p, Formed(p), NEW n \in Nat, Len(p) = 2 * n, NEW f \in Frames,
         \A k \in Heads(p) : Before(p[2 * k - 1].of, f),
         NEW q, Extends(q, p, [of |-> f, part |-> "header"])
  PROVE  /\ Formed(q) /\ Len(q) = 2 * n + 1 /\ q[2 * n + 1].of = f
         /\ Heads(q) = Heads(p) \cup {n + 1}
         /\ \A k \in Heads(p) : 2 * k <= Len(p) /\ q[2 * k - 1] = p[2 * k - 1]
<1> DEFINE x == [of |-> f, part |-> "header"]
<1>1. p \in Seq(Piece) /\ x \in Piece
  BY DEF Formed, Piece
<1>2. /\ q \in Seq(Piece) /\ Len(q) = 2 * n + 1 /\ q[2 * n + 1] = x
      /\ \A i \in 1..2 * n : q[i] = p[i]
  BY <1>1 DEF Extends
<1>3. Heads(p) = 1..n /\ Heads(q) = 1..n + 1
  BY <1>2 DEF Heads
<1>4. ASSUME NEW k \in 1..n
      PROVE  /\ q[2 * k - 1] = p[2 * k - 1] /\ q[2 * k] = p[2 * k] /\ 2 * k <= Len(p)
             /\ q[2 * k - 1].part = "header"
             /\ q[2 * k] = [of |-> q[2 * k - 1].of, part |-> "pixels"]
  <2>1. 2 * k \in 1..2 * n /\ 2 * k - 1 \in 1..2 * n
    OBVIOUS
  <2>2. p[2 * k - 1].part = "header" /\ p[2 * k] = [of |-> p[2 * k - 1].of, part |-> "pixels"]
    <3>1. k \in Heads(p) /\ 2 * k <= Len(p)
      BY <1>3, <2>1
    <3> QED
      BY <3>1, FormedPair
  <2> QED
    BY <1>2, <2>1, <2>2
<1>5. ASSUME NEW k \in 1..n + 1, NEW l \in 1..n + 1, k < l
      PROVE  Before(q[2 * k - 1].of, q[2 * l - 1].of)
  <2>1. k \in 1..n
    BY <1>5
  <2>2. CASE l \in 1..n
    BY <1>3, <1>4, <1>5, <2>1, <2>2, FormedPair, ZenonT(60)
  <2>3. CASE l = n + 1
    <3>1. 2 * l - 1 = 2 * n + 1
      BY <2>3
    <3>2. Before(p[2 * k - 1].of, f)
      BY <1>3, <2>1
    <3> QED
      BY <1>2, <1>4, <2>1, <3>1, <3>2
  <2> QED
    BY <2>2, <2>3
<1>6. Formed(q)
  <2>1. 2 * (n + 1) - 1 = 2 * n + 1 /\ ~(2 * (n + 1) <= 2 * n + 1) /\ x.part = "header"
    OBVIOUS
  <2>2. \A k \in 1..n + 1 : k \in 1..n \/ k = n + 1
    OBVIOUS
  <2> HIDE DEF x
  <2> QED
    BY <1>2, <1>3, <1>4, <1>5, <2>1, <2>2 DEF Formed
<1> QED
  BY <1>2, <1>3, <1>4, <1>6

\* The pixels after their header.
LEMMA PixelsWritten ==
  ASSUME NEW p, Formed(p), NEW n \in Nat, Len(p) = 2 * n + 1,
         NEW q, Extends(q, p, [of |-> p[2 * n + 1].of, part |-> "pixels"])
  PROVE  /\ Formed(q) /\ Len(q) = 2 * (n + 1)
         /\ Heads(q) = Heads(p) /\ n + 1 \in Heads(p) /\ 2 * (n + 1) - 1 = 2 * n + 1
         /\ \A k \in Heads(p) : q[2 * k - 1] = p[2 * k - 1]
<1> DEFINE x == [of |-> p[2 * n + 1].of, part |-> "pixels"]
<1>1. p \in Seq(Piece) /\ x \in Piece
  <2>1. p \in Seq(Piece) /\ 2 * n + 1 \in 1..Len(p)
    BY DEF Formed
  <2>2. p[2 * n + 1] \in Piece
    BY <2>1
  <2> QED
    BY <2>1, <2>2 DEF Piece
<1>2. /\ q \in Seq(Piece) /\ Len(q) = 2 * (n + 1) /\ q[2 * (n + 1)] = x
      /\ \A i \in 1..2 * n + 1 : q[i] = p[i]
  BY <1>1 DEF Extends
<1>3. Heads(p) = 1..n + 1 /\ Heads(q) = 1..n + 1
  BY <1>2 DEF Heads
<1>4. ASSUME NEW k \in 1..n + 1
      PROVE  /\ q[2 * k - 1] = p[2 * k - 1]
             /\ q[2 * k - 1].part = "header"
             /\ q[2 * k] = [of |-> q[2 * k - 1].of, part |-> "pixels"]
  <2>1. 2 * k - 1 \in 1..2 * n + 1 /\ p[2 * k - 1].part = "header"
    <3>1. k \in Heads(p) /\ 2 * k - 1 \in 1..2 * n + 1
      BY <1>3
    <3> QED
      BY <3>1, FormedPair
  <2>2. CASE k = n + 1
    <3>1. q[2 * k] = x /\ 2 * k - 1 = 2 * n + 1
      BY <1>2, <2>2
    <3> QED
      BY <1>2, <2>1, <3>1
  <2>3. CASE k # n + 1
    <3>1. 2 * k \in 1..2 * n + 1
      BY <2>3
    <3>2. p[2 * k] = [of |-> p[2 * k - 1].of, part |-> "pixels"]
      <4>1. k \in Heads(p) /\ 2 * k <= Len(p)
        BY <1>3, <3>1
      <4> QED
        BY <4>1, FormedPair
    <3> QED
      BY <1>2, <2>1, <3>1, <3>2
  <2> QED
    BY <2>2, <2>3
<1>5. Formed(q)
  <2>1. ASSUME NEW k \in 1..n + 1, NEW l \in 1..n + 1, k < l
        PROVE  Before(q[2 * k - 1].of, q[2 * l - 1].of)
    BY <1>3, <1>4, <2>1, FormedPair, ZenonT(60)
  <2> QED
    BY <1>2, <1>3, <1>4, <2>1 DEF Formed
<1> QED
  BY <1>2, <1>3, <1>4, <1>5

\* The frames cut from a stream are the whole ones, and at most a header stays.
LEMMA Cut ==
  ASSUME NEW p, Formed(p), NEW n, n = Whole(p)
  PROVE  /\ n \in Nat
         /\ \/ Len(p) = 2 * n /\ Rest(p) = <<>>
            \/ Len(p) = 2 * n + 1 /\ n + 1 \in Heads(p) /\ Rest(p) = <<p[2 * (n + 1) - 1]>>
         /\ \A k \in 1..n : k \in Heads(p) /\ 2 * k <= Len(p) /\ FrameAt(p, k) = p[2 * k - 1].of
<1>1. p \in Seq(Piece) /\ Len(p) \in Nat
  BY DEF Formed
<1>2. n \in Nat /\ 2 * n <= Len(p) /\ Len(p) <= 2 * n + 1
  BY <1>1 DEF Whole
<1>3. ASSUME Len(p) = 2 * n PROVE Rest(p) = <<>>
  <2>1. SubSeq(p, 2 * n + 1, 2 * n) = <<>>
    BY <1>2, SubSeqEmpty
  <2> QED
    BY <1>3, <2>1 DEF Rest
<1>4. ASSUME Len(p) = 2 * n + 1
      PROVE  n + 1 \in Heads(p) /\ Rest(p) = <<p[2 * (n + 1) - 1]>>
  <2>1. Rest(p) = SubSeq(p, 2 * n + 1, 2 * n + 1)
    BY <1>4 DEF Rest
  <2>2. SubSeq(p, 2 * n + 1, 2 * n + 1) = <<p[2 * n + 1]>>
    <3> DEFINE m == 2 * n + 1
               r == SubSeq(p, m, m)
    <3>1. m \in Nat /\ m > 0 /\ Len(p) = m
      BY <1>2, <1>4
    <3> HIDE DEF m
    <3>2. r \in Seq(Piece) /\ Len(r) = 1 /\ r[1] = p[m]
      BY <1>1, <3>1
    <3> HIDE DEF r
    <3>3. r = <<p[m]>>
      BY <3>2
    <3> QED
      BY <3>3 DEF m, r
  <2>3. 2 * (n + 1) - 1 = 2 * n + 1 /\ n + 1 \in Heads(p)
    BY <1>2, <1>4 DEF Heads
  <2> QED
    BY <1>4, <2>1, <2>2, <2>3
<1>5. ASSUME NEW k \in 1..n
      PROVE  k \in Heads(p) /\ 2 * k <= Len(p) /\ FrameAt(p, k) = p[2 * k - 1].of
  <2>1. k \in Heads(p) /\ 2 * k <= Len(p)
    BY <1>1, <1>2 DEF Heads
  <2> QED
    BY <2>1, FormedPair DEF FrameAt
<1> QED
  BY <1>2, <1>3, <1>4, <1>5

LEMMA ShortFormed ==
  /\ Formed(<<>>) /\ Heads(<<>>) = {}
  /\ \A x \in Piece : x.part = "header" => Formed(<<x>>) /\ Heads(<<x>>) = {1}
BY DEF Formed, Heads

\* The maximum of numbers below a bound is one of them.
LEMMA MaxIsMember ==
  ASSUME NEW n \in Nat, NEW S \in SUBSET (0..n), S # {}
  PROVE  Max(S) \in S
<1> DEFINE Below == {m \in Nat : n - m \in S}
<1>1. PICK s \in S : s \in 0..n
  OBVIOUS
<1>2. n - s \in Below
  BY <1>1
<1>3. PICK m \in Below : \A b \in Below : m <= b
  <2> DEFINE Less == {ss \in Nat \X Nat : ss[1] < ss[2]}
  <2>1. IsWellFoundedOn(Less, Nat)
    BY NatLessThanWellFounded DEF OpToRel
  <2>2. Below \subseteq Nat /\ Below # {}
    BY <1>2
  <2> HIDE DEF Below, Less
  <2>3. PICK m \in Below : \A b \in Below : ~(<<b, m>> \in Less)
    BY <2>1, <2>2, WFMin
  <2>4. \A b \in Below : <<b, m>> \in Nat \X Nat /\ b \in Nat /\ m \in Nat
    BY <2>2, <2>3
  <2>5. \A b \in Below : ~(b < m)
    BY <2>3, <2>4 DEF Less
  <2> QED
    BY <2>2, <2>3, <2>4, <2>5
<1>4. n - m \in S /\ \A t \in S : n - m >= t
  <2>1. \A t \in S : n - t \in Nat /\ n - (n - t) = t
    OBVIOUS
  <2>2. \A t \in S : n - t \in Below
    BY <2>1
  <2> QED
    BY <1>3, <2>1, <2>2
<1> HIDE DEF Below
<1>5. \E x \in S : \A y \in S : x >= y
  BY <1>4
<1> QED
  BY <1>5 DEF Max

\* What a client shows after it has cut a stream: the frame before, or one of the
\* stream's own frames that is told apart.
LEMMA NewestIsOfStream ==
  ASSUME NEW p, Formed(p), NEW old
  PROVE  \/ Newest(p, old) = old
         \/ \E k \in 1..Whole(p) : Newest(p, old) = p[2 * k - 1].of /\ Newest(p, old) # Later
<1> DEFINE got == {FrameAt(p, k) : k \in 1..Whole(p)} \ {Later}
<1>1. Newest(p, old) = CASE got = {} -> old
                         [] Garbage \in got -> Garbage
                         [] OTHER -> Max(got)
  BY DEF Newest
<1>2. ASSUME NEW f \in got
      PROVE  f \in Frames /\ f # Later /\ \E k \in 1..Whole(p) : f = p[2 * k - 1].of
  <2>1. PICK k \in 1..Whole(p) : f = FrameAt(p, k)
    OBVIOUS
  <2>2. k \in Heads(p) /\ f = p[2 * k - 1].of
    BY <2>1, Cut
  <2>3. p[2 * k - 1] \in Piece
    BY <2>2, FormedPair
  <2> QED
    BY <2>1, <2>2, <2>3 DEF Piece
<1>3. Garbage \notin got /\ got \in SUBSET (0..Later) /\ Later \in Nat
  BY <1>2, RoomAssumption DEF Garbage, Frames, Later
<1> HIDE DEF got
<1>4. CASE got = {}
  BY <1>1, <1>4
<1>5. CASE got # {}
  <2>1. Newest(p, old) = Max(got)
    BY <1>1, <1>3, <1>5
  <2>2. Max(got) \in got
    BY <1>3, <1>5, MaxIsMember
  <2> QED
    BY <1>2, <2>1, <2>2
<1> QED
  BY <1>4, <1>5

----------------------------------------------------------------------------
(* The steps of one connection.                                            *)

Tables ==
  /\ DOMAIN link = Clients /\ DOMAIN sock = Clients /\ DOMAIN client = Clients
  /\ DOMAIN buf = Clients /\ DOMAIN latest = Clients

LEMMA InitTables == Init => Tables
BY DEF Init, Tables

LEMMA TablesStep == Tables /\ [Next]_vars => Tables'
<1> SUFFICES ASSUME Tables, [Next]_vars PROVE Tables'
  OBVIOUS
<1>1. ASSUME UNCHANGED <<link, sock, client, buf, latest>> PROVE Tables'
  BY <1>1 DEF Tables
<1>2. CASE \/ LaunchApp \/ AppFrame \/ MapDone \/ Switch \/ Quit \/ WriterRecv \/ WriterLock
           \/ UNCHANGED vars
  BY <1>1, <1>2 DEF LaunchApp, AppFrame, VcamFrame, NoVcamFrame, MascotFrame, MapDone, Switch, Quit,
                    WriterRecv, WriterLock, vars, clientVars
<1>3. CASE Stop \/ Crash
  BY <1>3 DEF Stop, Crash, Gone, Tables, clientVars
<1>4. ASSUME NEW c \in Clients,
             \/ Accept(c) \/ Write(c) \/ WriteFails(c) \/ Connect(c) \/ Read(c)
             \/ CancelHandler(c) \/ LaunchClient(c) \/ Die(c) \/ SuspendOrResume(c)
      PROVE  Tables'
  BY <1>4 DEF Tables, Accept, Write, WriteFails, Connect, Read, CancelHandler, LaunchClient, Die,
              SuspendOrResume, clientVars
<1> QED
  BY <1>2, <1>3, <1>4 DEF Next

\* A step of one connection leaves the others and the frames ahead alone, and of
\* the writer it changes what concerns that connection.
Touches(c) ==
  /\ UNCHANGED <<capture, captured, chan>>
  /\ \A d \in Clients \ {c} :
       /\ link'[d] = link[d] /\ sock'[d] = sock[d] /\ client'[d] = client[d]
       /\ buf'[d] = buf[d] /\ latest'[d] = latest[d]
  /\ writer' = writer \/ (Writing(c) /\ writer' \in {[writer EXCEPT !.cur = c], Done(c)})

\* The end of a write to a stream.
LEMMA DoneEffect ==
  ASSUME CaptureInv, ChanInv, WriterInv, NEW c \in Clients, Writing(c), writer' = Done(c),
         UNCHANGED <<capture, captured, chan>>
  PROVE  /\ WriterInv' /\ writer.at = "write" /\ writer'.cur = Nobody /\ ~Serves(c)'
         /\ c \notin writer'.todo /\ writer'.todo \subseteq writer.todo /\ writer'.at # "lock"
         /\ writer' = Idle \/ writer'.frame = writer.frame
<1>1. /\ c \in writer.todo /\ writer.cur \in {c, Nobody} /\ writer.at = "write"
  BY DEF Writing, WriterInv, Idle
<1>2. CASE writer.todo = {c}
  <2>1. writer' = Idle
    BY <1>2 DEF Done
  <2>2. Known(NoFrame)'
    BY RoomAssumption DEF Known, CaptureInv, NoFrame
  <2>3. WriterInv'
    BY <2>1, <2>2, NobodyAssumption DEF WriterInv, Idle, Known
  <2> QED
    BY <1>1, <2>1, <2>3 DEF Idle, Serves
<1>3. CASE writer.todo # {c}
  <2>1. writer' = [writer EXCEPT !.todo = @ \ {c}, !.cur = Nobody]
    BY <1>3 DEF Done
  <2>2. /\ writer'.at = "write" /\ writer'.frame = writer.frame
        /\ writer'.todo = writer.todo \ {c} /\ writer'.cur = Nobody
        /\ writer' \in [at : {"recv", "lock", "write"}, frame : Frames \cup {NoFrame},
                        todo : SUBSET Clients, cur : Clients \cup {Nobody}]
    BY <1>1, <2>1 DEF WriterInv
  <2>3. Ahead' = Ahead
    BY DEF Ahead
  <2>4. WriterInv'
    BY <1>1, <2>2, <2>3 DEF WriterInv, Known
  <2> QED
    BY <1>1, <2>2, <2>4 DEF Serves
<1> QED
  BY <1>2, <1>3

LEMMA PenEffect ==
  ASSUME CaptureInv, ChanInv, WriterInv, NEW c \in Clients, Writing(c),
         writer' = [writer EXCEPT !.cur = c], UNCHANGED <<capture, captured, chan>>
  PROVE  /\ WriterInv' /\ writer.at = "write" /\ writer'.cur = c
         /\ writer'.todo = writer.todo /\ writer'.at = writer.at /\ writer'.frame = writer.frame
<1>1. c \in writer.todo /\ writer.cur \in {c, Nobody} /\ writer.at = "write"
  BY DEF Writing, WriterInv, Idle
<1>2. /\ writer'.at = "write" /\ writer'.frame = writer.frame
      /\ writer'.todo = writer.todo /\ writer'.cur = c
      /\ writer' \in [at : {"recv", "lock", "write"}, frame : Frames \cup {NoFrame},
                      todo : SUBSET Clients, cur : Clients \cup {Nobody}]
  BY <1>1 DEF WriterInv
<1>3. Ahead' = Ahead
  BY DEF Ahead
<1> QED
  BY <1>1, <1>2, <1>3 DEF WriterInv, Known

LEMMA TouchesSpares ==
  ASSUME CaptureInv, ChanInv, WriterInv, ClientInv, NEW c \in Clients, Touches(c)
  PROVE  WriterInv' /\ \A d \in Clients \ {c} : Spares(d)
<1>1. UNCHANGED <<capture, captured, chan>> /\ Ahead' = Ahead
  BY DEF Touches, Ahead
<1>2. CASE writer' = writer
  <2>1. WriterInv'
    BY <1>1, <1>2 DEF WriterInv, Idle, Known
  <2>2. ASSUME NEW d \in Clients \ {c} PROVE Spares(d)
    BY <1>1, <1>2, <2>2 DEF Touches, Spares, Serves, ClientInv, Connection, Linked
  <2> QED
    BY <2>1, <2>2
<1>3. CASE Writing(c) /\ writer' = [writer EXCEPT !.cur = c]
  <2>1. /\ WriterInv' /\ writer'.cur = c /\ writer.cur \in {c, Nobody}
        /\ writer'.todo = writer.todo /\ writer'.at = writer.at /\ writer'.frame = writer.frame
    BY <1>1, <1>3, PenEffect DEF Writing
  <2>2. ASSUME NEW d \in Clients \ {c} PROVE Spares(d)
    BY <1>1, <2>1, <2>2, NobodyAssumption DEF Touches, Spares, Serves, ClientInv, Connection, Linked
  <2> QED
    BY <2>1, <2>2
<1>4. CASE Writing(c) /\ writer' = Done(c)
  <2>1. /\ WriterInv' /\ writer'.cur = Nobody /\ writer.cur \in {c, Nobody}
        /\ writer'.todo \subseteq writer.todo /\ writer'.at # "lock" /\ writer.at = "write"
        /\ writer' = Idle \/ writer'.frame = writer.frame
    BY <1>1, <1>4, DoneEffect DEF Writing
  <2>2. ASSUME NEW d \in Clients \ {c} PROVE Spares(d)
    BY <1>1, <2>1, <2>2, NobodyAssumption
    DEF Touches, Spares, Serves, ClientInv, Connection, Linked, Idle
  <2> QED
    BY <2>1, <2>2
<1> QED
  BY <1>2, <1>3, <1>4 DEF Touches

LEMMA TouchesKeeps ==
  ASSUME CaptureInv, ChanInv, WriterInv, ClientInv, NEW c \in Clients, Touches(c), Connection(c)'
  PROVE  ChanInv' /\ WriterInv' /\ ClientInv'
<1>1. ChanInv'
  BY DEF Touches, ChanInv, Known
<1>2. \A d \in Clients \ {c} : Connection(d)'
  BY TouchesSpares, SparesKeeps DEF ClientInv
<1> QED
  BY <1>1, <1>2, TouchesSpares DEF ClientInv

LEMMA AcceptKeeps ==
  ASSUME Tables, WriterInv, ClientInv, NEW c \in Clients, Accept(c)
  PROVE  Touches(c) /\ Connection(c)'
<1>1. /\ link[c] = "backlog" /\ link'[c] = "listed" /\ writer.cur = Nobody /\ writer.cur # c
      /\ UNCHANGED <<capture, captured, chan, writer, sock, client, buf, latest>>
  BY NobodyAssumption DEF Accept, Tables, LockFree, WriterInv, Idle, appVars, serverVars, clientVars
<1>2. Touches(c)
  BY <1>1 DEF Accept, Tables, Touches
<1>3. Connection(c)
  BY DEF ClientInv
<1>4. Linked(c)' /\ Shows(c)'
  BY <1>1, <1>3 DEF Connection, Linked, Shows, Serves, Ahead
<1>5. Streams(c)'
  <2>1. Stream(c)' = Stream(c) /\ Stream(c) = <<>> /\ Ahead' = Ahead /\ Serves(c)' = Serves(c)
    BY <1>1, <1>3 DEF Connection, Streams, Stream, Ahead, Serves
  <2>2. Formed(<<>>) /\ Heads(<<>>) = {}
    BY ShortFormed
  <2>3. 0 \in 0..Len(<<>>) /\ Len(<<>>) = 2 * 0
    OBVIOUS
  <2> QED
    BY <1>1, <1>3, <2>1, <2>2, <2>3 DEF Connection, Streams
<1> QED
  BY <1>2, <1>4, <1>5 DEF Connection

\* A step after which a connection carries nothing for its client and the writer
\* has nothing in hand for it, or fails with it.
LEMMA EmptiedKeeps ==
  ASSUME NEW c \in Clients, Connection(c), Linked(c)', UNCHANGED <<capture, captured, chan>>,
         latest'[c] = latest[c], Serves(c)' => Serves(c) /\ writer'.frame = writer.frame,
         buf'[c] \in Seq(Piece), sock'[c] \in Seq(Piece), link'[c] # "listed",
         client'[c] = "open" \/ link'[c] = "backlog" => buf'[c] = <<>> /\ sock'[c] = <<>>
  PROVE  Connection(c)'
<1>1. Shows(c)'
  BY DEF Connection, Shows, Ahead
<1>2. Streams(c)'
  <2>1. Formed(<<>>) /\ Heads(<<>>) = {}
    BY ShortFormed
  <2>2. client'[c] = "open" \/ link'[c] = "backlog" => Stream(c)' = <<>>
    BY DEF Stream
  <2> QED
    BY <2>1, <2>2 DEF Streams
<1> QED
  BY <1>1, <1>2 DEF Connection

LEMMA ConnectKeeps ==
  ASSUME Tables, WriterInv, ClientInv, NEW c \in Clients, Connect(c)
  PROVE  Touches(c) /\ Connection(c)'
<1>1. /\ link[c] = "none" /\ link'[c] = "backlog" /\ client'[c] = "open"
      /\ sock'[c] = <<>> /\ buf'[c] = <<>>
      /\ UNCHANGED <<capture, captured, chan, writer, latest>>
  BY DEF Connect, Tables, appVars, serverVars
<1>2. Touches(c)
  BY <1>1 DEF Connect, Tables, Touches
<1>3. Connection(c)
  BY DEF ClientInv
<1>4. Linked(c)'
  BY <1>1, <1>3 DEF Connection, Linked
<1>5. <<>> \in Seq(Piece)
  OBVIOUS
<1>6. Serves(c)' => Serves(c) /\ writer'.frame = writer.frame
  BY <1>1 DEF Serves
<1> QED
  BY <1>1, <1>2, <1>3, <1>4, <1>5, <1>6, EmptiedKeeps

LEMMA CancelHandlerKeeps ==
  ASSUME Tables, WriterInv, ClientInv, NEW c \in Clients, CancelHandler(c)
  PROVE  Touches(c) /\ Connection(c)'
<1>1. /\ client[c] = "cancelling" /\ client'[c] = "closed" /\ link'[c] = "none"
      /\ UNCHANGED <<capture, captured, chan, writer, sock, buf, latest>>
  BY DEF CancelHandler, Tables, appVars, serverVars
<1>2. Touches(c)
  BY <1>1 DEF CancelHandler, Tables, Touches
<1>3. Connection(c)
  BY DEF ClientInv
<1>4. Linked(c)'
  BY <1>1, <1>3 DEF Connection, Linked
<1>5. buf[c] \in Seq(Piece) /\ sock[c] \in Seq(Piece)
  BY <1>3 DEF Connection, Streams
<1>6. Serves(c)' => Serves(c) /\ writer'.frame = writer.frame
  BY <1>1 DEF Serves
<1> QED
  BY <1>1, <1>2, <1>3, <1>4, <1>5, <1>6, EmptiedKeeps

LEMMA LaunchClientKeeps ==
  ASSUME Tables, WriterInv, ClientInv, NEW c \in Clients, LaunchClient(c)
  PROVE  Touches(c) /\ Connection(c)'
<1>1. /\ client[c] = "dead" /\ client'[c] = "closed" /\ link'[c] = link[c]
      /\ UNCHANGED <<capture, captured, chan, writer, sock, buf, latest>>
  BY DEF LaunchClient, Tables, appVars, serverVars
<1>2. Touches(c)
  BY <1>1 DEF LaunchClient, Tables, Touches
<1>3. Connection(c)
  BY DEF ClientInv
<1>4. Linked(c)' /\ link[c] \notin {"backlog", "listed"}
  BY <1>1, <1>3 DEF Connection, Linked
<1>5. buf[c] \in Seq(Piece) /\ sock[c] \in Seq(Piece)
  BY <1>3 DEF Connection, Streams
<1>6. Serves(c)' => Serves(c) /\ writer'.frame = writer.frame
  BY <1>1 DEF Serves
<1> QED
  BY <1>1, <1>2, <1>3, <1>4, <1>5, <1>6, EmptiedKeeps

LEMMA DieKeeps ==
  ASSUME Tables, WriterInv, ClientInv, NEW c \in Clients, Die(c)
  PROVE  Touches(c) /\ Connection(c)'
<1>1. /\ client'[c] = "dead" /\ link'[c] = (IF c \in writer.todo THEN "broken" ELSE "none")
      /\ sock'[c] = <<>> /\ buf'[c] = <<>>
      /\ UNCHANGED <<capture, captured, chan, writer, latest>>
  BY DEF Die, Tables, appVars, serverVars
<1>2. Touches(c)
  BY <1>1 DEF Die, Tables, Touches
<1>3. Connection(c)
  BY DEF ClientInv
<1>4. Linked(c)'
  <2>1. writer.cur = c => c \in writer.todo
    BY NobodyAssumption DEF WriterInv
  <2> QED
    BY <1>1, <2>1 DEF Linked
<1>5. <<>> \in Seq(Piece)
  OBVIOUS
<1>6. Serves(c)' => Serves(c) /\ writer'.frame = writer.frame
  BY <1>1 DEF Serves
<1> QED
  BY <1>1, <1>2, <1>3, <1>4, <1>5, <1>6, EmptiedKeeps

LEMMA WriteFailsKeeps ==
  ASSUME CaptureInv, ChanInv, Tables, WriterInv, ClientInv, NEW c \in Clients, WriteFails(c)
  PROVE  Touches(c) /\ Connection(c)'
<1>1. /\ Writing(c) /\ link[c] = "broken" /\ writer' = Done(c) /\ link'[c] = "none"
      /\ UNCHANGED <<capture, captured, chan, sock, client, buf, latest>>
  BY DEF WriteFails, Tables, appVars, clientVars
<1>2. Touches(c)
  BY <1>1 DEF WriteFails, Tables, Touches
<1>3. Connection(c)
  BY DEF ClientInv
<1>4. writer'.cur = Nobody /\ ~Serves(c)' /\ c \notin writer'.todo
  BY <1>1, DoneEffect
<1>5. Linked(c)' /\ client[c] # "open"
  BY <1>1, <1>3, <1>4, NobodyAssumption DEF Connection, Linked
<1>6. buf[c] \in Seq(Piece) /\ sock[c] \in Seq(Piece)
  BY <1>3 DEF Connection, Streams
<1> QED
  BY <1>1, <1>2, <1>3, <1>4, <1>5, <1>6, EmptiedKeeps

\* The next piece of the frame in hand goes to the end of the stream.
PieceFor(c) == [of |-> writer.frame, part |-> IF writer.cur = c THEN "pixels" ELSE "header"]

LEMMA WriteEffect ==
  ASSUME Tables, WriterInv, ClientInv, NEW c \in Clients, Write(c)
  PROVE  /\ Writing(c) /\ link[c] = "listed" /\ client[c] = "open"
         /\ c \in writer.todo /\ writer.cur \in {c, Nobody} /\ Serves(c)
         /\ writer' = IF writer.cur # c THEN [writer EXCEPT !.cur = c] ELSE Done(c)
         /\ buf'[c] \in Seq(Piece) /\ sock'[c] \in Seq(Piece)
         /\ writer.frame \in Frames /\ writer.at = "write" /\ Extends(Stream(c)', Stream(c), PieceFor(c))
         /\ UNCHANGED <<capture, captured, chan, link, client, buf, latest>>
<1>1. /\ Writing(c) /\ link[c] = "listed"
      /\ sock'[c] = Append(sock[c], PieceFor(c))
      /\ writer' = IF writer.cur # c THEN [writer EXCEPT !.cur = c] ELSE Done(c)
      /\ UNCHANGED <<capture, captured, chan, link, client, buf, latest>>
  BY DEF Write, Tables, PieceFor, appVars, clientVars
<1>2. Connection(c)
  BY DEF ClientInv
<1>3. c \in writer.todo /\ writer.cur \in {c, Nobody} /\ Serves(c) /\ client[c] = "open"
  BY <1>1, <1>2 DEF Writing, Serves, Connection, Linked
<1>4. writer.frame \in Frames /\ writer.at = "write"
  BY <1>3 DEF WriterInv, Idle
<1>5. PieceFor(c) \in Piece /\ buf[c] \in Seq(Piece) /\ sock[c] \in Seq(Piece)
  BY <1>2, <1>4 DEF PieceFor, Piece, Connection, Streams
<1>6. /\ Append(sock[c], PieceFor(c)) \in Seq(Piece)
      /\ Extends(buf[c] \o Append(sock[c], PieceFor(c)), buf[c] \o sock[c], PieceFor(c))
  BY <1>5, AppendToStream
<1>7. Extends(Stream(c)', Stream(c), PieceFor(c))
  BY <1>1, <1>6 DEF Stream
<1> QED
  BY <1>1, <1>3, <1>4, <1>5, <1>6, <1>7

LEMMA WriteKeeps ==
  ASSUME CaptureInv, ChanInv, Tables, WriterInv, ClientInv, NEW c \in Clients, Write(c)
  PROVE  Touches(c) /\ Connection(c)'
<1> DEFINE piece == PieceFor(c)
           p == Stream(c)
           q == Stream(c)'
<1>1. /\ Writing(c) /\ link[c] = "listed" /\ client[c] = "open"
      /\ writer' = IF writer.cur # c THEN [writer EXCEPT !.cur = c] ELSE Done(c)
      /\ UNCHANGED <<capture, captured, chan, link, client, buf, latest>>
  BY WriteEffect
<1>2. Touches(c)
  BY <1>1 DEF Write, Tables, Touches
<1>3. Connection(c)
  BY DEF ClientInv
<1>4. c \in writer.todo /\ writer.cur \in {c, Nobody} /\ Serves(c) /\ client[c] = "open"
  BY WriteEffect
<1>5. /\ writer.frame \in Frames /\ Known(writer.frame) /\ latest[c] < writer.frame
      /\ \A g \in Ahead : Before(writer.frame, g)
  BY <1>3, <1>4, WriteEffect DEF WriterInv, Connection, Shows
<1>7. sock'[c] \in Seq(Piece) /\ buf'[c] \in Seq(Piece) /\ Extends(q, p, piece)
  BY WriteEffect
<1>8. Formed(p) /\ Ahead' = Ahead
  BY <1>1, <1>3, <1>4 DEF Connection, Streams, Ahead
<1>9. ASSUME NEW k \in Heads(p)
      PROVE  /\ Known(p[2 * k - 1].of) /\ latest[c] < p[2 * k - 1].of
             /\ \A g \in Ahead : Before(p[2 * k - 1].of, g)
             /\ Before(p[2 * k - 1].of, writer.frame) \/ (writer.cur = c /\ 2 * k - 1 = Len(p))
  BY <1>3, <1>4 DEF Connection, Streams
<1>10. CASE writer.cur # c
  <2>1. PICK n \in 0..Len(p) : Len(p) = 2 * n
    BY <1>1, <1>3, <1>10 DEF Connection, Streams
  <2>2. piece = [of |-> writer.frame, part |-> "header"] /\ n \in Nat
    BY <1>10 DEF PieceFor
  <2>3. \A k \in Heads(p) : Before(p[2 * k - 1].of, writer.frame)
    BY <1>9, <1>10
  <2>4. /\ writer'.cur = c /\ writer'.todo = writer.todo /\ writer'.at = writer.at
        /\ writer'.frame = writer.frame
    <3>1. writer' = [writer EXCEPT !.cur = c]
      BY <1>1, <1>10
    <3> QED
      BY <1>1, <3>1, PenEffect
  <2> HIDE DEF p, q, piece
  <2>5. /\ Formed(q) /\ Len(q) = 2 * n + 1 /\ q[2 * n + 1].of = writer.frame
        /\ Heads(q) = Heads(p) \cup {n + 1}
        /\ \A k \in Heads(p) : 2 * k <= Len(p) /\ q[2 * k - 1] = p[2 * k - 1]
    <3>1. Extends(q, p, [of |-> writer.frame, part |-> "header"])
      BY <1>7, <2>2
    <3> QED
      BY <1>5, <1>8, <2>1, <2>2, <2>3, <3>1, HeaderWritten, SMTT(30)
  <2>6. Linked(c)' /\ Shows(c)'
    BY <1>1, <1>3, <1>4, <1>8, <2>4 DEF Connection, Linked, Shows, Serves
  <2>7. ASSUME NEW k \in Heads(q)
        PROVE  /\ Known(q[2 * k - 1].of) /\ latest[c] < q[2 * k - 1].of
               /\ \A g \in Ahead : Before(q[2 * k - 1].of, g)
               /\ Before(q[2 * k - 1].of, writer.frame) \/ 2 * k - 1 = Len(q)
    <3>1. CASE k \in Heads(p)
      BY <1>9, <2>3, <2>5, <3>1
    <3>2. CASE k = n + 1
      <4>1. 2 * k - 1 = 2 * n + 1
        BY <3>2, <2>2
      <4> QED
        BY <1>5, <2>5, <4>1
    <3> QED
      BY <2>5, <3>1, <3>2
  <2>8. n \in 0..Len(q)
    BY <2>2, <2>5
  <2>9. Streams(c)'
    BY <1>1, <1>7, <1>8, <2>4, <2>5, <2>7, <2>8 DEF Streams, Known, q
  <2> QED
    BY <1>2, <2>6, <2>9 DEF Connection
<1>11. CASE writer.cur = c
  <2>1. PICK n \in 0..Len(p) : Len(p) = 2 * n + 1 /\ p[2 * n + 1].of = writer.frame
    BY <1>1, <1>3, <1>11 DEF Connection, Streams
  <2>2. piece = [of |-> writer.frame, part |-> "pixels"] /\ n \in Nat
    BY <1>11 DEF PieceFor
  <2>3. writer'.cur = Nobody /\ writer'.cur # c /\ ~Serves(c)' /\ c \notin writer'.todo
    <3>1. writer' = Done(c)
      BY <1>1, <1>11
    <3> QED
      BY <1>1, <3>1, DoneEffect, NobodyAssumption
  <2> HIDE DEF p, q, piece
  <2>4. /\ Formed(q) /\ Len(q) = 2 * (n + 1) /\ Heads(q) = Heads(p)
        /\ \A k \in Heads(p) : q[2 * k - 1] = p[2 * k - 1]
    <3>1. Extends(q, p, [of |-> p[2 * n + 1].of, part |-> "pixels"])
      BY <1>7, <2>1, <2>2
    <3> QED
      BY <1>8, <2>1, <2>2, <3>1, PixelsWritten
  <2>5. Linked(c)' /\ Shows(c)'
    BY <1>1, <1>3, <1>8, <2>3 DEF Connection, Linked, Shows
  <2>6. n + 1 \in 0..Len(q)
    BY <2>2, <2>4
  <2>7. Streams(c)'
    BY <1>1, <1>7, <1>8, <1>9, <2>3, <2>4, <2>6 DEF Streams, Known, q
  <2> QED
    BY <1>2, <2>5, <2>7 DEF Connection
<1> QED
  BY <1>10, <1>11

\* A read of an open connection cuts the whole frames from the stream.
LEMMA ReadEffect ==
  ASSUME Tables, ClientInv, NEW c \in Clients, Read(c), link[c] # "hungup"
  PROVE  /\ client[c] = "open" /\ link[c] \in {"backlog", "listed"}
         /\ Formed(Stream(c)) /\ sock'[c] = <<>> /\ buf'[c] = Rest(Stream(c))
         /\ Stream(c)' = Rest(Stream(c)) /\ Rest(Stream(c)) \in Seq(Piece)
         /\ latest'[c] = Newest(Stream(c), latest[c])
         /\ UNCHANGED <<capture, captured, chan, writer, link, client>>
<1>1. /\ client[c] = "open" /\ sock'[c] = <<>> /\ buf'[c] = Rest(Stream(c))
      /\ latest'[c] = Newest(Stream(c), latest[c])
      /\ UNCHANGED <<capture, captured, chan, writer, link, client>>
  BY DEF Read, Tables, Stream, appVars, serverVars
<1>2. Connection(c)
  BY DEF ClientInv
<1>3. link[c] \in {"backlog", "listed"} /\ Formed(Stream(c))
  BY <1>1, <1>2 DEF Connection, Linked, Streams
<1>4. Rest(Stream(c)) \in Seq(Piece)
  <2>1. Stream(c) \in Seq(Piece) /\ Whole(Stream(c)) \in Nat
    BY <1>3, Cut DEF Formed
  <2> QED
    BY <2>1 DEF Rest
<1>5. Rest(Stream(c)) \o <<>> = Rest(Stream(c))
  BY <1>4
<1> QED
  BY <1>1, <1>3, <1>4, <1>5 DEF Stream

LEMMA ReadKeeps ==
  ASSUME CaptureInv, ChanInv, Tables, WriterInv, ClientInv, NEW c \in Clients, Read(c)
  PROVE  Touches(c) /\ Connection(c)'
<1> DEFINE p == Stream(c)
           n == Whole(p)
<1>1. Touches(c)
  BY DEF Read, Tables, Touches, appVars, serverVars
<1>2. Connection(c)
  BY DEF ClientInv
<1>3. CASE link[c] = "hungup"
  <2>1. /\ client'[c] = "cancelling" /\ link'[c] = "hungup" /\ sock'[c] = <<>> /\ buf'[c] = p
        /\ UNCHANGED <<capture, captured, chan, writer, latest>>
    BY <1>3 DEF Read, Tables, Stream, appVars, serverVars
  <2>2. p \in Seq(Piece) /\ <<>> \in Seq(Piece)
    BY <1>2 DEF Connection, Streams, Stream
  <2>3. Linked(c)'
    BY <1>2, <1>3, <2>1 DEF Connection, Linked
  <2>4. Serves(c)' => Serves(c) /\ writer'.frame = writer.frame
    BY <2>1 DEF Serves
  <2> QED
    BY <1>1, <1>2, <2>1, <2>2, <2>3, <2>4, EmptiedKeeps
<1>4. CASE link[c] # "hungup"
  <2>1. /\ client[c] = "open" /\ link[c] \in {"backlog", "listed"}
        /\ Formed(p) /\ sock'[c] = <<>> /\ buf'[c] = Rest(p)
        /\ Stream(c)' = Rest(p) /\ Rest(p) \in Seq(Piece)
        /\ latest'[c] = Newest(p, latest[c])
        /\ UNCHANGED <<capture, captured, chan, writer, link, client>>
    BY <1>4, ReadEffect
  <2>2. Ahead' = Ahead /\ Serves(c)' = Serves(c) /\ Linked(c)'
    BY <1>2, <2>1 DEF Ahead, Serves, Connection, Linked
  <2>3. /\ n \in Nat
        /\ \/ Len(p) = 2 * n /\ Rest(p) = <<>>
           \/ Len(p) = 2 * n + 1 /\ n + 1 \in Heads(p) /\ Rest(p) = <<p[2 * (n + 1) - 1]>>
        /\ \A k \in 1..n : k \in Heads(p) /\ 2 * k <= Len(p)
    BY <2>1, Cut
  <2>4. ASSUME NEW k \in Heads(p)
        PROVE  /\ Known(p[2 * k - 1].of) /\ latest[c] < p[2 * k - 1].of
               /\ \A g \in Ahead : Before(p[2 * k - 1].of, g)
               /\ Serves(c) => Before(p[2 * k - 1].of, writer.frame)
                      \/ (writer.cur = c /\ 2 * k - 1 = Len(p))
    BY <1>2, <2>1 DEF Connection, Streams
  <2>5. \/ latest'[c] = latest[c]
        \/ \E k \in 1..n : latest'[c] = p[2 * k - 1].of /\ latest'[c] # Later
    BY <2>1, NewestIsOfStream
  <2>6. Shows(c)'
    <3>1. CASE latest'[c] = latest[c]
      BY <1>2, <2>1, <2>2, <3>1 DEF Connection, Shows
    <3>2. CASE \E k \in 1..n : latest'[c] = p[2 * k - 1].of /\ latest'[c] # Later
      <4>1. PICK k \in 1..n : latest'[c] = p[2 * k - 1].of /\ latest'[c] # Later
        BY <3>2
      <4>2. k \in Heads(p) /\ 2 * k - 1 # Len(p)
        BY <2>3
      <4> QED
        BY <2>1, <2>2, <2>4, <4>1, <4>2 DEF Shows, Known, Before
    <3> QED
      BY <2>5, <3>1, <3>2
  <2>7. Streams(c)'
    <3>1. CASE Len(p) = 2 * n /\ Rest(p) = <<>>
      <4>1. Formed(<<>>) /\ Heads(<<>>) = {} /\ 0 \in 0..Len(<<>>) /\ Len(<<>>) = 2 * 0
        BY ShortFormed
      <4>2. link[c] = "listed" => writer.cur # c
        BY <1>2, <2>3, <3>1 DEF Connection, Streams
      <4>3. <<>> \in Seq(Piece)
        OBVIOUS
      <4> QED
        BY <2>1, <2>2, <3>1, <4>1, <4>2, <4>3 DEF Streams
    <3>2. CASE /\ Len(p) = 2 * n + 1 /\ n + 1 \in Heads(p)
               /\ Rest(p) = <<p[2 * (n + 1) - 1]>>
      <4> DEFINE x == p[2 * (n + 1) - 1]
      <4>1. x \in Piece /\ x.part = "header" /\ 2 * (n + 1) - 1 = 2 * n + 1
        <5>1. n + 1 \in Heads(p)
          BY <3>2
        <5>2. x \in Piece /\ x.part = "header"
          BY <2>1, <5>1, FormedPair
        <5> HIDE DEF x
        <5>3. 2 * (n + 1) - 1 = 2 * n + 1
          BY <2>3
        <5> QED
          BY <5>2, <5>3
      <4>2. Formed(<<x>>) /\ Heads(<<x>>) = {1} /\ Len(<<x>>) = 1 /\ <<x>>[1] = x
        BY <4>1, ShortFormed
      <4>3. link[c] = "listed" /\ writer.cur = c /\ x.of = writer.frame
        BY <1>2, <2>1, <2>3, <3>2, <4>1 DEF Connection, Streams
      <4>4. Known(x.of) /\ \A g \in Ahead : Before(x.of, g)
        BY <2>4, <3>2
      <4>5. latest'[c] < x.of
        <5>1. CASE latest'[c] = latest[c]
          BY <2>4, <3>2, <5>1
        <5>2. CASE \E k \in 1..n : latest'[c] = p[2 * k - 1].of /\ latest'[c] # Later
          <6>1. PICK k \in 1..n : latest'[c] = p[2 * k - 1].of /\ latest'[c] # Later
            BY <5>2
          <6>2. k \in Heads(p) /\ k < n + 1
            BY <2>3
          <6>3. Before(p[2 * k - 1].of, x.of)
            BY <2>1, <3>2, <6>2, FormedPair
          <6> QED
            BY <6>1, <6>3 DEF Before
        <5> QED
          BY <2>5, <5>1, <5>2
      <4> HIDE DEF x
      <4>6. Stream(c)' = <<x>>
        BY <2>1, <3>2 DEF x
      <4>7. 0 \in 0..Len(<<x>>) /\ Len(<<x>>) = 2 * 0 + 1 /\ <<x>>[2 * 0 + 1] = x /\ <<x>>[2 * 1 - 1] = x
        OBVIOUS
      <4>8. buf'[c] \in Seq(Piece) /\ sock'[c] \in Seq(Piece)
        BY <2>1
      <4>9. ASSUME NEW k \in Heads(<<x>>)
            PROVE  <<x>>[2 * k - 1] = x /\ 2 * k - 1 = Len(<<x>>)
        <5>1. k = 1
          BY <4>2
        <5> QED
          BY <4>2, <5>1
      <4>10. x.of \in 0..captured' \/ x.of = Later
        BY <2>1, <4>4 DEF Known
      <4> QED
        BY <2>1, <2>2, <4>2, <4>3, <4>4, <4>5, <4>6, <4>7, <4>8, <4>9, <4>10 DEF Streams, Known
    <3> QED
      BY <2>3, <3>1, <3>2
  <2> QED
    BY <1>1, <2>2, <2>6, <2>7 DEF Connection
<1> QED
  BY <1>3, <1>4

----------------------------------------------------------------------------
(* The whole.                                                              *)

QuietStep ==
  \/ LaunchApp \/ AppFrame \/ MapDone \/ Switch \/ Quit
  \/ (\E c \in Clients : SuspendOrResume(c)) \/ UNCHANGED vars

ClientStep(c) ==
  \/ Accept(c) \/ Write(c) \/ WriteFails(c) \/ Connect(c) \/ Read(c)
  \/ CancelHandler(c) \/ LaunchClient(c) \/ Die(c)

LEMMA StepKinds ==
  [Next]_vars => \/ QuietStep \/ Gone \/ WriterRecv \/ WriterLock
                 \/ \E c \in Clients : ClientStep(c)
BY DEF Next, Stop, Crash, QuietStep, ClientStep

LEMMA ClientStepKeeps ==
  ASSUME CameraInv, Tables, NEW c \in Clients, ClientStep(c)
  PROVE  Touches(c) /\ Connection(c)'
<1> USE DEF CameraInv
<1>1. CASE Accept(c)
  BY <1>1, AcceptKeeps
<1>2. CASE Write(c)
  BY <1>2, WriteKeeps
<1>3. CASE WriteFails(c)
  BY <1>3, WriteFailsKeeps
<1>4. CASE Connect(c)
  BY <1>4, ConnectKeeps
<1>5. CASE Read(c)
  BY <1>5, ReadKeeps
<1>6. CASE CancelHandler(c)
  BY <1>6, CancelHandlerKeeps
<1>7. CASE LaunchClient(c)
  BY <1>7, LaunchClientKeeps
<1>8. CASE Die(c)
  BY <1>8, DieKeeps
<1> QED
  BY <1>1, <1>2, <1>3, <1>4, <1>5, <1>6, <1>7, <1>8 DEF ClientStep

LEMMA CameraStep == CameraInv /\ Tables /\ [Next]_vars => CameraInv'
<1> SUFFICES ASSUME CameraInv, Tables, [Next]_vars PROVE CameraInv'
  OBVIOUS
<1>1. CaptureInv /\ ChanInv /\ WriterInv /\ ClientInv
  BY DEF CameraInv
<1>2. CaptureInv'
  BY <1>1, CaptureInvStep
<1>3. CASE QuietStep
  BY <1>1, <1>2, <1>3, QuietSteps, QuietKeeps DEF QuietStep, CameraInv
<1>4. CASE Gone
  BY <1>1, <1>2, <1>4, GoneKeeps DEF CameraInv
<1>5. CASE WriterRecv
  BY <1>1, <1>2, <1>5, WriterRecvKeeps DEF CameraInv
<1>6. CASE WriterLock
  BY <1>1, <1>2, <1>6, WriterLockKeeps DEF CameraInv
<1>7. ASSUME NEW c \in Clients, ClientStep(c) PROVE CameraInv'
  <2>1. Touches(c) /\ Connection(c)'
    BY <1>7, ClientStepKeeps
  <2> QED
    BY <1>1, <1>2, <2>1, TouchesKeeps DEF CameraInv
<1> QED
  BY <1>3, <1>4, <1>5, <1>6, <1>7, StepKinds

LEMMA InitCamera == Init => CameraInv
<1> SUFFICES ASSUME Init PROVE CameraInv
  OBVIOUS
<1>1. CaptureInv /\ Held(capture) = NoFrame
  BY InitCapture, FreshSound DEF Init, NoCapture
<1>2. /\ captured = 0 /\ chan = NoFrame /\ writer = Idle
      /\ Ahead = {} /\ Known(NoFrame)
  BY <1>1, RoomAssumption DEF Init, Ahead, Known, NoFrame
<1>3. ChanInv /\ WriterInv
  BY <1>1, <1>2, NobodyAssumption DEF ChanInv, WriterInv, Idle
<1>4. ASSUME NEW c \in Clients PROVE Connection(c)
  <2>1. /\ link[c] = "none" /\ client[c] = "dead" /\ buf[c] = <<>> /\ sock[c] = <<>>
        /\ latest[c] = 0
    BY DEF Init
  <2>2. c \notin writer.todo /\ writer.cur # c /\ ~Serves(c) /\ <<>> \in Seq(Piece)
    BY <1>2, NobodyAssumption DEF Idle, Serves
  <2> QED
    BY <1>2, <2>1, <2>2 DEF Connection, Linked, Shows, Streams
<1> QED
  BY <1>1, <1>3, <1>4 DEF CameraInv, ClientInv

----------------------------------------------------------------------------
(* The pipe of a client.                                                   *)

\* The frames that travel to a client, by the places where they are.
OnTheWay(c) ==
  {f \in 1..MaxFrames :
     \/ f \in Ahead
     \/ Serves(c) /\ f = writer.frame
     \/ \E i \in 1..Len(Stream(c)) : Stream(c)[i].of = f}

LEMMA FramesOfBoth ==
  ASSUME NEW b \in Seq(Piece), NEW s \in Seq(Piece)
  PROVE  {(b \o s)[i].of : i \in 1..Len(b \o s)}
           = {b[i].of : i \in DOMAIN b} \cup {s[i].of : i \in DOMAIN s}
<1> DEFINE t == b \o s
<1> HIDE DEF Piece
<1>1. /\ Len(b) \in Nat /\ Len(s) \in Nat /\ DOMAIN b = 1..Len(b) /\ DOMAIN s = 1..Len(s)
      /\ Len(t) = Len(b) + Len(s)
      /\ \A i \in 1..Len(b) : t[i] = b[i]
  OBVIOUS
<1>2. \A i \in 1..Len(s) : t[Len(b) + i] = s[i]
  OBVIOUS
<1> HIDE DEF t
<1>3. ASSUME NEW i \in 1..Len(t)
      PROVE  t[i].of \in {b[j].of : j \in DOMAIN b} \cup {s[j].of : j \in DOMAIN s}
  <2>1. CASE i <= Len(b)
    <3>1. i \in DOMAIN b /\ t[i] = b[i]
      BY <1>1, <2>1
    <3> QED
      BY <3>1
  <2>2. CASE ~(i <= Len(b))
    <3>1. i - Len(b) \in DOMAIN s /\ Len(b) + (i - Len(b)) = i
      BY <1>1, <2>2
    <3>2. t[i] = s[i - Len(b)]
      BY <1>1, <1>2, <3>1
    <3> QED
      BY <3>1, <3>2
  <2> QED
    BY <2>1, <2>2
<1>4. ASSUME NEW i \in DOMAIN b PROVE b[i].of \in {t[j].of : j \in 1..Len(t)}
  <2>1. i \in 1..Len(t) /\ t[i] = b[i]
    BY <1>1
  <2> QED
    BY <2>1
<1>5. ASSUME NEW i \in DOMAIN s PROVE s[i].of \in {t[j].of : j \in 1..Len(t)}
  <2>1. Len(b) + i \in 1..Len(t) /\ t[Len(b) + i] = s[i]
    BY <1>1, <1>2
  <2> QED
    BY <2>1
<1>6. {t[i].of : i \in 1..Len(t)} = {b[i].of : i \in DOMAIN b} \cup {s[i].of : i \in DOMAIN s}
  BY <1>3, <1>4, <1>5
<1> QED
  BY <1>6 DEF t

LEMMA UnderWayIs == CameraInv => \A c \in Clients : UnderWay(c) = OnTheWay(c)
<1> SUFFICES ASSUME CameraInv, NEW c \in Clients PROVE UnderWay(c) = OnTheWay(c)
  OBVIOUS
<1>1. buf[c] \in Seq(Piece) /\ sock[c] \in Seq(Piece)
  BY DEF CameraInv, ClientInv, Connection, Streams
<1>2. NoFrame \notin 1..MaxFrames
  BY DEF NoFrame
<1>3. {capture.buf[i].holds : i \in 0..1} = {Held(capture), NoFrame}
  <2>1. /\ capture.idx \in {0, 1} /\ Prev(capture) \in {0, 1} /\ Prev(capture) # capture.idx
        /\ 0..1 = {0, 1} /\ capture.buf[capture.idx].holds = NoFrame
    BY CaptureShape DEF CameraInv, CaptureInv, Sound, Empty
  <2> QED
    BY <2>1 DEF Held
<1>4. writer.at = "lock" \/ c \in writer.todo <=> Serves(c)
  BY DEF Serves
<1>5. {Stream(c)[i].of : i \in 1..Len(Stream(c))}
        = {buf[c][i].of : i \in DOMAIN buf[c]} \cup {sock[c][i].of : i \in DOMAIN sock[c]}
  BY <1>1, FramesOfBoth DEF Stream
<1> DEFINE carried == {Stream(c)[i].of : i \in 1..Len(Stream(c))}
           written == IF Serves(c) THEN {writer.frame} ELSE {}
<1>6. UnderWay(c) = ({Held(capture), NoFrame} \cup {chan} \cup written \cup carried) \cap 1..MaxFrames
  <2>1. UnderWay(c) = ( {capture.buf[i].holds : i \in 0..1} \cup {chan} \cup written
                        \cup {buf[c][i].of : i \in DOMAIN buf[c]}
                        \cup {sock[c][i].of : i \in DOMAIN sock[c]} ) \cap 1..MaxFrames
    BY <1>4 DEF UnderWay
  <2> HIDE DEF carried, written
  <2>2. carried = {buf[c][i].of : i \in DOMAIN buf[c]} \cup {sock[c][i].of : i \in DOMAIN sock[c]}
    BY <1>5 DEF carried
  <2> QED
    BY <1>3, <2>1, <2>2
<1>7. OnTheWay(c) = (Ahead \cup written \cup carried) \cap 1..MaxFrames
  BY DEF OnTheWay
<1> HIDE DEF carried, written
<1> QED
  BY <1>2, <1>6, <1>7 DEF Ahead

\* What travels to a client is newer than what it shows.
LEMMA WayIsNewer ==
  CameraInv => \A c \in Clients : client[c] = "open" => \A f \in OnTheWay(c) : latest[c] < f
<1> SUFFICES ASSUME CameraInv, NEW c \in Clients, client[c] = "open", NEW f \in OnTheWay(c)
             PROVE  latest[c] < f
  OBVIOUS
<1>1. Shows(c) /\ Streams(c) /\ Formed(Stream(c))
  BY DEF CameraInv, ClientInv, Connection, Streams
<1>2. CASE f \in Ahead \/ (Serves(c) /\ f = writer.frame)
  BY <1>1, <1>2 DEF Shows
<1>3. CASE \E i \in 1..Len(Stream(c)) : Stream(c)[i].of = f
  <2>1. PICK i \in 1..Len(Stream(c)) : Stream(c)[i].of = f
    BY <1>3
  <2> DEFINE k == (i + 1) \div 2
  <2>2. Len(Stream(c)) \in Nat
    BY <1>1 DEF Formed
  <2>3. k \in Heads(Stream(c)) /\ (i = 2 * k - 1 \/ i = 2 * k)
    BY <2>2 DEF Heads
  <2> HIDE DEF k
  <2>4. Stream(c)[2 * k - 1].of = f
    <3>1. CASE i = 2 * k - 1
      BY <2>1, <3>1
    <3>2. CASE i = 2 * k
      <4>1. Stream(c)[2 * k] = [of |-> Stream(c)[2 * k - 1].of, part |-> "pixels"]
        BY <1>1, <2>3, <3>2, FormedPair
      <4> QED
        BY <2>1, <3>2, <4>1
    <3> QED
      BY <2>3, <3>1, <3>2
  <2> QED
    BY <1>1, <2>3, <2>4 DEF Streams
<1> QED
  BY <1>2, <1>3 DEF OnTheWay

LEMMA WayOfNext ==
  CameraInv' =>
    /\ \A c \in Clients : UnderWay(c)' = OnTheWay(c)'
    /\ \A c \in Clients : client'[c] = "open" => \A f \in OnTheWay(c)' : latest'[c] < f
<1>1. CameraInv' => (\A c \in Clients : UnderWay(c) = OnTheWay(c))'
  BY UnderWayIs, PTL
<1>2. CameraInv' =>
        (\A c \in Clients : client[c] = "open" => \A f \in OnTheWay(c) : latest[c] < f)'
  BY WayIsNewer, PTL
<1> QED
  BY <1>1, <1>2

\* Nothing is added to what travels to a client, and nothing arrives.
Loses(c) == captured' = captured /\ latest'[c] = latest[c] /\ OnTheWay(c)' \subseteq OnTheWay(c)

\* The frames in a stream come from the stream before and from the writer.
LEMMA LosesBy ==
  ASSUME NEW c \in Clients, captured' = captured, latest'[c] = latest[c], Ahead' \subseteq Ahead,
         Serves(c)' => Serves(c) /\ writer'.frame = writer.frame,
         \A i \in 1..Len(Stream(c)') :
           \/ Serves(c) /\ Stream(c)'[i].of = writer.frame
           \/ \E j \in 1..Len(Stream(c)) : Stream(c)'[i].of = Stream(c)[j].of
  PROVE  Loses(c)
<1>1. OnTheWay(c)' = {f \in 1..MaxFrames :
                       \/ f \in Ahead'
                       \/ Serves(c)' /\ f = writer'.frame
                       \/ \E i \in 1..Len(Stream(c)') : Stream(c)'[i].of = f}
  BY DEF OnTheWay
<1> QED
  BY <1>1 DEF Loses, OnTheWay

LEMMA SameStreamLoses ==
  ASSUME NEW c \in Clients, captured' = captured, latest'[c] = latest[c], Ahead' \subseteq Ahead,
         Serves(c)' => Serves(c) /\ writer'.frame = writer.frame,
         Stream(c)' = Stream(c) \/ Stream(c)' = <<>>
  PROVE  Loses(c)
<1>1. Len(<<>>) = 0
  OBVIOUS
<1>2. \A i \in 1..Len(Stream(c)') : \E j \in 1..Len(Stream(c)) : Stream(c)'[i].of = Stream(c)[j].of
  BY <1>1
<1> QED
  BY <1>2, LosesBy

\* A frame of the stream arrives, and what still travels is newer.
Arrives(c) ==
  /\ captured' = captured /\ latest'[c] \in OnTheWay(c)
  /\ OnTheWay(c)' \subseteq {g \in OnTheWay(c) : latest'[c] < g}

LEMMA ReadPipes ==
  ASSUME CameraInv, CameraInv', Tables, NEW c \in Clients, Read(c)
  PROVE  Loses(c) \/ Arrives(c)
<1> USE DEF CameraInv
<1> DEFINE p == Stream(c)
           n == Whole(p)
<1>1. CASE link[c] = "hungup"
  <2>1. UNCHANGED <<capture, captured, chan, writer, latest>>
        /\ buf'[c] = p /\ sock'[c] = <<>>
    BY <1>1 DEF Read, Tables, Stream, appVars, serverVars
  <2>2. Stream(c)' = p
    <3>1. p \in Seq(Piece)
      <4>1. buf[c] \in Seq(Piece) /\ sock[c] \in Seq(Piece)
        BY DEF ClientInv, Connection, Streams
      <4> QED
        BY <4>1, AppendToStream DEF Stream
    <3> HIDE DEF p
    <3>2. p \o <<>> = p
      BY <3>1
    <3> QED
      BY <2>1, <3>2 DEF Stream
  <2> QED
    BY <2>1, <2>2, SameStreamLoses DEF Ahead, Serves
<1>2. CASE link[c] # "hungup"
  <2>1. /\ client'[c] = "open" /\ Formed(p) /\ Stream(c)' = Rest(p)
        /\ latest'[c] = Newest(p, latest[c])
        /\ UNCHANGED <<capture, captured, chan, writer>>
    BY <1>2, ReadEffect
  <2>2. Ahead' = Ahead /\ Serves(c)' = Serves(c)
    BY <2>1 DEF Ahead, Serves
  <2>3. \A i \in 1..Len(Rest(p)) : \E j \in 1..Len(p) : Rest(p)[i].of = p[j].of
    <3>1. CASE Rest(p) = <<>>
      BY <3>1
    <3>2. CASE n + 1 \in Heads(p) /\ Rest(p) = <<p[2 * (n + 1) - 1]>>
      <4>1. n \in Nat /\ Len(p) \in Nat
        BY <2>1, Cut DEF Formed
      <4>2. 2 * (n + 1) - 1 \in 1..Len(p)
        BY <3>2, <4>1 DEF Heads
      <4> QED
        BY <3>2, <4>2
    <3> QED
      BY <2>1, <3>1, <3>2, Cut
  <2>4. ASSUME latest'[c] = latest[c] PROVE Loses(c)
    BY <2>1, <2>2, <2>3, <2>4, LosesBy
  <2>5. ASSUME NEW k \in 1..n, latest'[c] = p[2 * k - 1].of, latest'[c] # Later PROVE Arrives(c)
    <3>1. OnTheWay(c)' \subseteq OnTheWay(c)
      <4>1. OnTheWay(c)' = {f \in 1..MaxFrames :
                             \/ f \in Ahead'
                             \/ Serves(c)' /\ f = writer'.frame
                             \/ \E i \in 1..Len(Stream(c)') : Stream(c)'[i].of = f}
        BY DEF OnTheWay
      <4> QED
        BY <2>1, <2>2, <2>3, <4>1 DEF OnTheWay
    <3>2. \A g \in OnTheWay(c)' : latest'[c] < g
      BY <2>1, WayOfNext
    <3>3. latest'[c] \in OnTheWay(c)
      <4>1. k \in Heads(p) /\ p[2 * k - 1] \in Piece /\ 2 * k - 1 \in 1..Len(p)
        <5>1. k \in Heads(p)
          BY <2>1, Cut
        <5>2. 2 * k - 1 \in 1..Len(p)
          BY <2>1, <5>1 DEF Heads, Formed
        <5> QED
          BY <2>1, <5>1, <5>2, FormedPair
      <4>2. latest'[c] \in 1..MaxFrames
        <5>1. p[2 * k - 1].of \in Frames
          BY <4>1 DEF Piece
        <5> QED
          BY <2>5, <5>1, RoomAssumption DEF Frames, Later
      <4> QED
        BY <2>5, <4>1, <4>2 DEF OnTheWay
    <3> QED
      BY <2>1, <3>1, <3>2, <3>3 DEF Arrives
  <2> QED
    BY <2>1, <2>4, <2>5, NewestIsOfStream
<1> QED
  BY <1>1, <1>2

LEMMA ClientPipes ==
  ASSUME CameraInv, CameraInv', Tables, NEW c \in Clients, NEW w \in Clients, ClientStep(c)
  PROVE  Loses(w) \/ Arrives(w)
<1> USE DEF CameraInv
<1>1. CASE w # c
  <2>1. Spares(w)
    BY <1>1, ClientStepKeeps, TouchesSpares
  <2>2. Stream(w)' = Stream(w)
    BY <2>1 DEF Spares, Stream
  <2> QED
    BY <2>1, <2>2, SameStreamLoses DEF Spares
<1>2. CASE w = c /\ Read(c)
  BY <1>2, ReadPipes
<1>3. CASE w = c /\ Write(c)
  <2>1. /\ Writing(c) /\ Serves(c) /\ Extends(Stream(c)', Stream(c), PieceFor(c))
        /\ writer' = IF writer.cur # c THEN [writer EXCEPT !.cur = c] ELSE Done(c)
        /\ UNCHANGED <<capture, captured, chan, latest>>
    BY <1>3, WriteEffect
  <2>2. Serves(c)' => writer'.frame = writer.frame
    BY <2>1, PenEffect, DoneEffect
  <2>3. ASSUME NEW i \in 1..Len(Stream(c)')
        PROVE  \/ Stream(c)'[i].of = writer.frame
               \/ \E j \in 1..Len(Stream(c)) : Stream(c)'[i].of = Stream(c)[j].of
    <3>1. Formed(Stream(c))
      BY <1>3, WriteEffect DEF ClientInv, Connection, Streams
    <3>2. Len(Stream(c)) \in Nat
      BY <3>1 DEF Formed
    <3>3. i \in 1..Len(Stream(c)) \/ i = Len(Stream(c)) + 1
      BY <2>1, <3>2 DEF Extends
    <3> QED
      BY <2>1, <3>3 DEF Extends, PieceFor
  <2> QED
    BY <1>3, <2>1, <2>2, <2>3, LosesBy DEF Ahead
<1>4. CASE w = c /\ (Accept(c) \/ CancelHandler(c) \/ LaunchClient(c))
  <2>1. UNCHANGED <<capture, captured, chan, writer, sock, buf, latest>>
    BY <1>4 DEF Accept, CancelHandler, LaunchClient, appVars, serverVars, clientVars
  <2> QED
    BY <1>4, <2>1, SameStreamLoses DEF Stream, Ahead, Serves
<1>5. CASE w = c /\ (Connect(c) \/ Die(c))
  <2>1. /\ UNCHANGED <<capture, captured, chan, writer, latest>> /\ sock'[c] = <<>> /\ buf'[c] = <<>>
    BY <1>5 DEF Connect, Die, Tables, appVars, serverVars
  <2>2. Stream(c)' = <<>>
    BY <2>1 DEF Stream
  <2> QED
    BY <1>5, <2>1, <2>2, SameStreamLoses DEF Ahead, Serves
<1>6. CASE w = c /\ WriteFails(c)
  <2>1. /\ Writing(c) /\ writer' = Done(c)
        /\ UNCHANGED <<capture, captured, chan, sock, buf, latest>>
    BY <1>6 DEF WriteFails, appVars, clientVars
  <2>2. ~Serves(c)'
    BY <2>1, DoneEffect
  <2> QED
    BY <1>6, <2>1, <2>2, SameStreamLoses DEF Stream, Ahead
<1> QED
  BY <1>1, <1>2, <1>3, <1>4, <1>5, <1>6 DEF ClientStep

LEMMA QuietPipes ==
  ASSUME CameraInv, CameraInv', QuietStep, NEW w \in Clients
  PROVE  \/ Loses(w)
         \/ /\ captured < MaxFrames /\ captured' = captured + 1 /\ latest'[w] = latest[w]
            /\ OnTheWay(w)' \subseteq OnTheWay(w) \cup {captured'}
<1>1. Quiet
  BY QuietSteps DEF CameraInv, QuietStep
<1>2. captured \in 0..MaxFrames /\ captured' \in 0..MaxFrames
  BY DEF CameraInv, CaptureInv
<1>3. Stream(w)' = Stream(w) /\ Serves(w)' = Serves(w) /\ UNCHANGED <<writer, latest>>
  BY <1>1 DEF Quiet, Stream, Serves
<1>4. OnTheWay(w)' \subseteq OnTheWay(w) \cup (Ahead' \cap 1..MaxFrames)
  BY <1>3 DEF OnTheWay
<1>5. CASE captured' = captured
  <2>1. ASSUME NEW g \in Ahead', g \in 1..MaxFrames PROVE g \in Ahead
    <3>1. g \in 0..captured' \/ g = Later
      BY DEF CameraInv, CaptureInv, ChanInv, Ahead, Known
    <3>2. g <= captured
      BY <1>2, <1>5, <2>1, <3>1, RoomAssumption DEF Later
    <3>3. captured < NextFrame /\ NextFrame \in Frames
      BY <1>2, NextIsNewer
    <3>4. g # NextFrame
      BY <1>2, <3>2, <3>3, RoomAssumption DEF Frames, Later
    <3> QED
      BY <1>1, <3>4 DEF Quiet
  <2>2. OnTheWay(w)' \subseteq OnTheWay(w)
    BY <1>4, <2>1 DEF OnTheWay
  <2> QED
    BY <1>3, <1>5, <2>2 DEF Loses
<1>6. CASE captured < MaxFrames /\ captured' = captured + 1
  <2>1. NextFrame = captured'
    BY <1>6 DEF NextFrame
  <2>2. OnTheWay(w)' \subseteq OnTheWay(w) \cup {captured'}
    BY <1>1, <1>4, <2>1 DEF Quiet, OnTheWay
  <2> QED
    BY <1>3, <1>6, <2>2
<1> QED
  BY <1>1, <1>5, <1>6 DEF Quiet

\* LossyPipe brings its own copy of the module FiniteSets.
LEMMA SameCardinality ==
  ASSUME NEW S
  PROVE  Pipe!Cardinality(S) = Cardinality(S)
BY DEF Cardinality, Pipe!Cardinality, IsFiniteSet, Pipe!IsFiniteSet

\* Every step is a capture, an arrival or a loss of the pipe.
LEMMA PipeStep == CameraInv /\ CameraInv' /\ Tables /\ [Next]_vars => [Pipe!Next]_(Pipe!vars)
<1> SUFFICES ASSUME CameraInv, CameraInv', Tables, [Next]_vars PROVE Pipe!Next
  OBVIOUS
<1> DEFINE w == Watched
<1>1. /\ w \in Clients
      /\ UnderWay(w) = OnTheWay(w) /\ UnderWay(w)' = OnTheWay(w)'
  BY WatchedAssumption, UnderWayIs, WayOfNext
<1>2. ASSUME Loses(w) PROVE Pipe!Next
  BY <1>1, <1>2 DEF Loses, Pipe!Next, Pipe!Lose
<1>3. ASSUME Arrives(w) PROVE Pipe!Next
  BY <1>1, <1>3 DEF Arrives, Pipe!Next, Pipe!Deliver
<1>4. CASE QuietStep
  <2>1. CASE /\ captured < MaxFrames /\ captured' = captured + 1 /\ latest'[w] = latest[w]
             /\ OnTheWay(w)' \subseteq OnTheWay(w) \cup {captured'}
    <3>1. OnTheWay(w)' \in SUBSET (1..MaxFrames)
      BY DEF OnTheWay
    <3>2. IsFiniteSet(1..MaxFrames) /\ Cardinality(1..MaxFrames) = MaxFrames
      BY RoomAssumption, FS_Interval
    <3>3. Cardinality(OnTheWay(w)') <= MaxFrames
      BY <3>1, <3>2, FS_Subset
    <3>4. Pipe!Cardinality(UnderWay(w)') <= MaxFrames
      BY <1>1, <3>3, SameCardinality
    <3> QED
      BY <1>1, <2>1, <3>4 DEF Pipe!Next, Pipe!Capture
  <2> QED
    BY <1>1, <1>2, <1>4, <2>1, QuietPipes
<1>5. CASE Gone
  <2>1. UNCHANGED <<captured, sock, client, buf, latest>> /\ Ahead' = {} /\ writer' = Idle
    <3>1. Held(capture') = NoFrame
      BY <1>5, FreshSound DEF Gone, NoCapture
    <3> QED
      BY <1>5, <3>1 DEF Gone, Ahead, clientVars
  <2>2. Loses(w)
    BY <1>1, <2>1, SameStreamLoses DEF Stream, Serves, Idle
  <2> QED
    BY <1>2, <2>2
<1>6. CASE WriterRecv
  <2>1. /\ chan \in Ahead /\ Ahead' \subseteq Ahead /\ writer'.frame = chan
        /\ UNCHANGED <<captured, sock, buf, latest>>
    BY <1>6 DEF WriterRecv, Ahead, CameraInv, WriterInv, appVars, clientVars
  <2>2. Stream(w)' = Stream(w)
    BY <2>1 DEF Stream
  <2>3. Loses(w)
    BY <2>1, <2>2 DEF Loses, OnTheWay
  <2> QED
    BY <1>2, <2>3
<1>7. CASE WriterLock
  <2>1. /\ UNCHANGED <<capture, captured, chan, sock, buf, latest>> /\ writer.at = "lock"
        /\ writer' = Idle \/ writer'.frame = writer.frame
    BY <1>7 DEF WriterLock, CameraInv, WriterInv, appVars, clientVars
  <2>2. Loses(w)
    BY <1>1, <2>1, SameStreamLoses DEF Stream, Serves, Idle, Ahead
  <2> QED
    BY <1>2, <2>2
<1>8. ASSUME NEW c \in Clients, ClientStep(c) PROVE Pipe!Next
  BY <1>1, <1>2, <1>3, <1>8, ClientPipes
<1> QED
  BY <1>4, <1>5, <1>6, <1>7, <1>8, StepKinds

\* Every client is served by a pipe of frames: in order, each at most once and
\* whole, however packets are dropped, connections are lost and either side ends
\* and starts again.
THEOREM Implements == Spec => ImplementsPipe
<1>1. Init => Pipe!Init
  <2> SUFFICES ASSUME Init PROVE Pipe!Init
    OBVIOUS
  <2>1. CameraInv /\ Watched \in Clients
    BY InitCamera, WatchedAssumption
  <2>2. /\ captured = 0 /\ latest[Watched] = 0 /\ chan = NoFrame /\ Held(capture) = NoFrame
        /\ writer = Idle /\ buf[Watched] = <<>> /\ sock[Watched] = <<>>
    BY <2>1, FreshSound DEF Init, NoCapture
  <2>3. Ahead = {} /\ ~Serves(Watched) /\ Stream(Watched) = <<>> /\ Len(<<>>) = 0
    BY <2>2 DEF Ahead, Serves, Idle, Stream
  <2>4. OnTheWay(Watched) = {}
    BY <2>3 DEF OnTheWay
  <2> QED
    BY <2>1, <2>2, <2>4, UnderWayIs DEF Pipe!Init
<1>2. CameraInv /\ Tables /\ [Next]_vars => CameraInv' /\ Tables'
  BY CameraStep, TablesStep
<1> QED
  BY <1>1, <1>2, InitCamera, InitTables, PipeStep, PTL DEF Spec, ImplementsPipe, Pipe!Spec

----------------------------------------------------------------------------
(* Type correctness.                                                       *)

\* What TypeOK says and CameraInv does not.
Types ==
  /\ app \in {"down", "up", "stopping"} /\ turn \in {"vcam", "mascot"}
  /\ enabled \in BOOLEAN /\ started \in BOOLEAN /\ suspended \subseteq Clients
  /\ link = [c \in Clients |-> link[c]] /\ client = [c \in Clients |-> client[c]]
  /\ latest = [c \in Clients |-> latest[c]]

LEMMA TypesStep == Types /\ [Next]_vars => Types'
<1> SUFFICES ASSUME Types, [Next]_vars PROVE Types'
  OBVIOUS
<1>1. ASSUME UNCHANGED <<started, link, client, suspended, latest>>,
             app' \in {"down", "up", "stopping"}, turn' \in {"vcam", "mascot"},
             enabled' \in {enabled, ~enabled}
      PROVE  Types'
  BY <1>1 DEF Types
<1>2. CASE LaunchApp \/ NoVcamFrame \/ MascotFrame \/ MapDone \/ Switch \/ Quit
  BY <1>1, <1>2 DEF LaunchApp, NoVcamFrame, MascotFrame, MapDone, Switch, Quit, Types, clientVars
<1>3. CASE VcamFrame
  BY <1>3 DEF VcamFrame, Types, clientVars
<1>4. CASE Gone
  BY <1>4 DEF Gone, Types, clientVars
<1>5. CASE WriterRecv \/ WriterLock \/ UNCHANGED vars
  BY <1>1, <1>5 DEF WriterRecv, WriterLock, Types, vars, appVars, clientVars
<1>6. ASSUME NEW c \in Clients,
             \/ Accept(c) \/ Write(c) \/ WriteFails(c) \/ Connect(c) \/ Read(c)
             \/ CancelHandler(c) \/ LaunchClient(c) \/ Die(c) \/ SuspendOrResume(c)
      PROVE  Types'
  <2>1. UNCHANGED <<app, turn, enabled, started>> /\ suspended' \subseteq Clients
    BY <1>6 DEF Accept, Write, WriteFails, Connect, Read, CancelHandler, LaunchClient, Die,
                SuspendOrResume, Types, appVars, clientVars
  <2>2. link' = [d \in Clients |-> link'[d]] /\ client' = [d \in Clients |-> client'[d]]
    BY <1>6 DEF Accept, Write, WriteFails, Connect, Read, CancelHandler, LaunchClient, Die,
                SuspendOrResume, Types, clientVars
  <2>3. latest' = [d \in Clients |-> latest'[d]]
    BY <1>6 DEF Accept, Write, WriteFails, Connect, Read, CancelHandler, LaunchClient, Die,
                SuspendOrResume, Types, clientVars
  <2> QED
    BY <2>1, <2>2, <2>3 DEF Types
<1> QED
  BY <1>2, <1>3, <1>4, <1>5, <1>6 DEF Next, AppFrame, Stop, Crash

\* The capture, the channel, the writer and every connection stay in their types.
THEOREM TypeCorrect == Spec => []TypeOK
<1>1. Init => Types
  BY DEF Init, Types
<1>2. CameraInv /\ Types => TypeOK
  <2> SUFFICES ASSUME CameraInv, Types PROVE TypeOK
    OBVIOUS
  <2>1. \A c \in Clients : /\ link[c] \in {"none", "backlog", "listed", "broken", "hungup"}
                          /\ client[c] \in {"dead", "closed", "open", "cancelling"}
                          /\ latest[c] \in 0..MaxFrames
    BY RoomAssumption DEF CameraInv, CaptureInv, ClientInv, Connection, Linked, Shows
  <2> QED
    BY <2>1 DEF CameraInv, CaptureInv, ChanInv, WriterInv, Sound, Types, TypeOK
<1>3. CameraInv /\ Tables /\ [Next]_vars => CameraInv' /\ Tables'
  BY CameraStep, TablesStep
<1> QED
  BY <1>1, <1>2, <1>3, InitCamera, InitTables, TypesStep, PTL DEF Spec

=============================================================================
