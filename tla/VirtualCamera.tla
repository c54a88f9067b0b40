---------------------------- MODULE VirtualCamera ----------------------------
(***************************************************************************)
(* The virtual camera of macOS, from the renderer to the programs that     *)
(* show it.  The application reads rendered frames back from the GPU       *)
(* (FrameCapture, update.rs), offers them to a one-slot channel, and a     *)
(* writer thread broadcasts them over TCP to every client that a listener  *)
(* thread has accepted (virtual-camera/src/macos.rs).  The clients are     *)
(* other processes, the camera extension (StreamSource.m) and one DAL      *)
(* plugin in each program that looks for cameras; both run the same        *)
(* protocol.  Every process comes and goes as it likes.                    *)
(***************************************************************************)
EXTENDS FrameCapture, Sequences, FiniteSetsExt

CONSTANTS Clients,      \* the processes that show the camera
          Watched,      \* any one of them, of which ImplementsPipe speaks
          MaxFrames,    \* so many frames are told apart; the session goes on
          SocketRoom    \* how many pieces of frames a connection holds

ASSUME WatchedAssumption == Watched \in Clients
ASSUME RoomAssumption == MaxFrames \in Nat /\ SocketRoom \in Nat \ {0}

VARIABLES
  app,          \* "down", "up", or "stopping" in MacOsVirtualCamera::stop
  turn,         \* which of its two captures a frame of the application is at
  enabled,      \* vcam_enabled
  mascot,       \* "off", or the size of the mascot window
  capture,      \* the frame capture of the scene
  captured,     \* the number of the latest frame copied
  started,      \* vcam.is_some(): listener and writer run
  chan,         \* the packet in the channel to the writer
  writer,       \* the writer thread
  link,         \* for each client, its connection as the operating system has it
  sock,         \* the pieces on their way in that connection
  client,       \* the client process and its _clientFd
  suspended,    \* the clients that do not run at present
  buf,          \* _readBuffer
  latest        \* history: the latest frame received, of those told apart

appVars    == <<app, turn, enabled, mascot, capture, captured, started>>
serverVars == <<chan, writer>>
clientVars == <<client, suspended, buf, latest>>
vars       == <<appVars, serverVars, link, sock, clientVars>>

Off     == "off"
Later   == MaxFrames + 1      \* stands for every frame after those told apart
Frames  == 1..Later
Garbage == -1                 \* bytes taken for a frame that are none

(* "lock": a packet is in hand and the mutex of the clients is wanted;     *)
(* "write": it is held, todo are the streams retain_mut has not done, cur  *)
(* is the one whose header is written and whose pixels are not.            *)
Nobody == "nobody"
ASSUME NobodyAssumption == Nobody \notin Clients
Idle   == [at |-> "recv", frame |-> NoFrame, todo |-> {}, cur |-> Nobody]
LockFree == writer.at # "write"

TypeOK ==
  /\ app \in {"down", "up", "stopping"} /\ turn \in {"vcam", "mascot"}
  /\ enabled \in BOOLEAN /\ started \in BOOLEAN
  /\ mascot \in MascotSizes \cup {Off}
  /\ capture \in Captures(Frames \cup {NoFrame}) /\ captured \in 0..MaxFrames
  /\ chan \in Frames \cup {NoFrame}
  /\ writer \in [at : {"recv", "lock", "write"}, frame : Frames \cup {NoFrame},
                 todo : SUBSET Clients, cur : Clients \cup {Nobody}]
  /\ link \in [Clients -> {"none", "backlog", "listed", "broken", "hungup"}]
  /\ client \in [Clients -> {"dead", "closed", "open", "cancelling"}]
  /\ suspended \subseteq Clients
  /\ latest \in [Clients -> 0..MaxFrames]

Init ==
  /\ app = "down" /\ turn = "vcam" /\ enabled = TRUE /\ mascot = Off
  /\ capture = NoCapture /\ captured = 0 /\ started = FALSE
  /\ chan = NoFrame /\ writer = Idle
  /\ link = [c \in Clients |-> "none"] /\ sock = [c \in Clients |-> <<>>]
  /\ client = [c \in Clients |-> "dead"] /\ suspended = {}
  /\ buf = [c \in Clients |-> <<>>] /\ latest = [c \in Clients |-> 0]

-----------------------------------------------------------------------------
(* The application.                                                        *)

\* The mascot mode comes from the saved preferences.
LaunchApp ==
  /\ app = "down"
  /\ app' = "up"
  /\ mascot' \in MascotSizes \cup {Off}
  /\ UNCHANGED <<turn, enabled, capture, captured, started, serverVars, link, sock, clientVars>>

\* A frame copied gets the next number.
NextFrame == IF captured < MaxFrames THEN captured + 1 ELSE Later

Capture(size) ==
  LET c == Ensured(capture, size)
  IN  /\ capture' = Captured(c, NextFrame)
      /\ captured' = IF CanCopy(c) /\ NextFrame # Later THEN NextFrame ELSE captured

\* send_frame: a packet that finds the channel full is dropped.
Send(frame) == chan' = IF chan = NoFrame THEN frame ELSE chan

\* vcam_send_frame: the first frame starts the camera, unless the port is taken.
VcamFrame ==
  /\ app = "up" /\ turn = "vcam" /\ enabled
  /\ turn' = "mascot"
  /\ Capture(VcamSize)
  /\ LET frame == Taken(Ensured(capture, VcamSize))
     IN  \/ /\ frame = NoFrame
            /\ UNCHANGED <<enabled, started, chan>>
         \/ /\ frame # NoFrame
            /\ started' = TRUE
            /\ Send(frame)
            /\ UNCHANGED enabled
         \/ /\ frame # NoFrame /\ ~started
            /\ enabled' = FALSE
            /\ UNCHANGED <<started, chan>>
  /\ UNCHANGED <<app, mascot, writer, link, sock, clientVars>>

\* Less than 33 ms have passed, or the camera is switched off.
NoVcamFrame ==
  /\ app = "up" /\ turn = "vcam"
  /\ turn' = "mascot"
  /\ UNCHANGED <<app, enabled, mascot, capture, captured, started, serverVars, link, sock, clientVars>>

\* In mascot mode the same capture gives the alpha map of the window.
MascotFrame ==
  /\ app = "up" /\ turn = "mascot"
  /\ turn' = "vcam"
  /\ IF mascot = Off THEN UNCHANGED <<capture, captured>> ELSE Capture(mascot)
  /\ UNCHANGED <<app, enabled, mascot, started, serverVars, link, sock, clientVars>>

AppFrame == VcamFrame \/ NoVcamFrame \/ MascotFrame

MapDone ==
  /\ app = "up" /\ Mapping(capture)
  /\ capture' = Mapped(capture)
  /\ UNCHANGED <<app, turn, enabled, mascot, captured, started, serverVars, link, sock, clientVars>>

\* The key C, the checkbox or a script; the mascot mode and its window.
Switch ==
  /\ app = "up" /\ turn = "vcam"
  /\ \/ enabled' = ~enabled /\ UNCHANGED mascot
     \/ mascot' \in (MascotSizes \cup {Off}) \ {mascot} /\ UNCHANGED enabled
  /\ UNCHANGED <<app, turn, capture, captured, started, serverVars, link, sock, clientVars>>

\* stop() drops the sender; the writer still sends what is in the channel.
Quit ==
  /\ app = "up" /\ turn = "vcam"
  /\ app' = "stopping"
  /\ UNCHANGED <<turn, enabled, mascot, capture, captured, started, serverVars, link, sock, clientVars>>

\* The process is gone; what it sent can still be read.
Gone ==
  /\ app' = "down" /\ turn' = "vcam" /\ enabled' = TRUE /\ mascot' = Off
  /\ capture' = NoCapture /\ started' = FALSE /\ chan' = NoFrame /\ writer' = Idle
  /\ link' = [c \in Clients |-> CASE link[c] \in {"backlog", "listed"} -> "hungup"
                                  [] link[c] = "broken"                -> "none"
                                  [] OTHER                             -> link[c]]
  /\ UNCHANGED <<captured, sock, clientVars>>

\* stop() clears the clients, for which it needs their mutex; the process ends.
Stop == app = "stopping" /\ LockFree /\ Gone

Crash == app # "down" /\ Gone

-----------------------------------------------------------------------------
(* The listener and the writer.                                            *)

\* The listener accepts, and adds the stream once the mutex is free.  Errors of
\* accept, which end the listener, are left out.
Accept(c) ==
  /\ link[c] = "backlog" /\ LockFree
  /\ link' = [link EXCEPT ![c] = "listed"]
  /\ UNCHANGED <<appVars, serverVars, sock, clientVars>>

WriterRecv ==
  /\ writer.at = "recv" /\ chan # NoFrame
  /\ writer' = [writer EXCEPT !.at = "lock", !.frame = chan]
  /\ chan' = NoFrame
  /\ UNCHANGED <<appVars, link, sock, clientVars>>

WriterLock ==
  /\ writer.at = "lock"
  /\ LET listed == {c \in Clients : link[c] = "listed"}
     IN  writer' = IF listed = {} THEN Idle ELSE [writer EXCEPT !.at = "write", !.todo = listed]
  /\ UNCHANGED <<appVars, chan, link, sock, clientVars>>

\* The next stream, or the end of the broadcast and of the lock.
Done(c) == IF writer.todo = {c} THEN Idle
                                ELSE [writer EXCEPT !.todo = @ \ {c}, !.cur = Nobody]

Writing(c) == c \in writer.todo /\ writer.cur \in {c, Nobody}

\* write_all waits for room: first the header, then the pixels.
Write(c) ==
  /\ Writing(c) /\ link[c] = "listed" /\ Len(sock[c]) < SocketRoom
  /\ LET part == IF writer.cur = c THEN "pixels" ELSE "header"
     IN  /\ sock' = [sock EXCEPT ![c] = Append(@, [of |-> writer.frame, part |-> part])]
         /\ writer' = IF part = "header" THEN [writer EXCEPT !.cur = c] ELSE Done(c)
  /\ UNCHANGED <<appVars, chan, link, clientVars>>

\* Mutant: a failed write is tried again.
WriteRetries(c) == Writing(c) /\ link[c] = "broken" /\ UNCHANGED vars

\* A stream whose client is gone fails and is dropped from the list.
WriteFails(c) ==
  /\ Writing(c) /\ link[c] = "broken"
  /\ writer' = Done(c)
  /\ link' = [link EXCEPT ![c] = "none"]
  /\ UNCHANGED <<appVars, chan, sock, clientVars>>

-----------------------------------------------------------------------------
(* The clients.                                                            *)
Runs(c) == client[c] # "dead" /\ c \notin suspended

\* Mutant: what the connection before left in the buffer stays there.
ConnectKeepsBuffer(c) ==
  /\ Runs(c) /\ client[c] = "closed"
  /\ started /\ link[c] = "none"
  /\ client' = [client EXCEPT ![c] = "open"]
  /\ link' = [link EXCEPT ![c] = "backlog"]
  /\ sock' = [sock EXCEPT ![c] = <<>>]
  /\ UNCHANGED <<appVars, serverVars, suspended, buf, latest>>

\* tryConnect, at the start and then once a second while there is no connection.
Connect(c) ==
  /\ Runs(c) /\ client[c] = "closed"
  /\ started /\ link[c] = "none"
  /\ client' = [client EXCEPT ![c] = "open"]
  /\ link' = [link EXCEPT ![c] = "backlog"]
  /\ sock' = [sock EXCEPT ![c] = <<>>]
  /\ buf' = [buf EXCEPT ![c] = <<>>]
  /\ UNCHANGED <<appVars, serverVars, suspended, latest>>

\* The bytes are cut into frames by the sizes in the headers alone.
Whole(pieces) == Len(pieces) \div 2
FrameAt(pieces, k) ==
  LET header == pieces[2 * k - 1]
      pixels == pieces[2 * k]
  IN  IF header.part = "header" /\ pixels = [of |-> header.of, part |-> "pixels"]
      THEN header.of ELSE Garbage
Rest(pieces) == SubSeq(pieces, 2 * Whole(pieces) + 1, Len(pieces))

Newest(pieces, old) ==
  LET got == {FrameAt(pieces, k) : k \in 1..Whole(pieces)} \ {Later}
  IN  CASE got = {}       -> old
        [] Garbage \in got -> Garbage
        [] OTHER          -> Max(got)

\* readFromHost drains the socket and cuts frames; at the end of the stream it
\* cancels its source and returns before it cuts.
Read(c) ==
  /\ Runs(c) /\ client[c] = "open"
  /\ sock[c] # <<>> \/ link[c] = "hungup"
  /\ sock' = [sock EXCEPT ![c] = <<>>]
  /\ LET pieces == buf[c] \o sock[c]
     IN  IF link[c] = "hungup"
         THEN /\ client' = [client EXCEPT ![c] = "cancelling"]
              /\ buf' = [buf EXCEPT ![c] = pieces]
              /\ UNCHANGED latest
         ELSE /\ buf' = [buf EXCEPT ![c] = Rest(pieces)]
              /\ latest' = [latest EXCEPT ![c] = Newest(pieces, @)]
              /\ UNCHANGED client
  /\ UNCHANGED <<appVars, serverVars, link, suspended>>

\* The handler of the cancelled source closes the socket.
CancelHandler(c) ==
  /\ Runs(c) /\ client[c] = "cancelling"
  /\ client' = [client EXCEPT ![c] = "closed"]
  /\ link' = [link EXCEPT ![c] = "none"]
  /\ UNCHANGED <<appVars, serverVars, sock, suspended, buf, latest>>

LaunchClient(c) ==
  /\ client[c] = "dead"
  /\ client' = [client EXCEPT ![c] = "closed"]
  /\ UNCHANGED <<appVars, serverVars, link, sock, suspended, buf, latest>>

\* A stream that the writer is not about to use fails at the next broadcast, before
\* anything depends on it: only one that it is about to use is kept.
Die(c) ==
  /\ client[c] # "dead"
  /\ client' = [client EXCEPT ![c] = "dead"]
  /\ suspended' = suspended \ {c}
  /\ link' = [link EXCEPT ![c] = IF c \in writer.todo THEN "broken" ELSE "none"]
  /\ sock' = [sock EXCEPT ![c] = <<>>]
  /\ buf' = [buf EXCEPT ![c] = <<>>]
  /\ UNCHANGED <<appVars, serverVars, latest>>

SuspendOrResume(c) ==
  /\ client[c] # "dead"
  /\ suspended' = IF c \in suspended THEN suspended \ {c} ELSE suspended \cup {c}
  /\ UNCHANGED <<appVars, serverVars, link, sock, client, buf, latest>>

-----------------------------------------------------------------------------
Next ==
  \/ LaunchApp \/ AppFrame \/ MapDone \/ Switch \/ Quit \/ Stop \/ Crash
  \/ WriterRecv \/ WriterLock
  \/ \E c \in Clients : \/ Accept(c) \/ Write(c) \/ WriteFails(c)
                        \/ Connect(c) \/ Read(c) \/ CancelHandler(c)
                        \/ LaunchClient(c) \/ Die(c) \/ SuspendOrResume(c)

Spec == Init /\ [][Next]_vars

(* Frames are asked for without end and take time, so that 33 ms have      *)
(* passed again and again; the GPU finishes; the writer and the listener   *)
(* wait for nothing but the channel, the mutex, which is free most of the  *)
(* time, and room; a client that is not suspended runs its handlers.       *)
Fairness ==
  /\ WF_vars(AppFrame) /\ SF_vars(VcamFrame) /\ WF_vars(MapDone) /\ WF_vars(Stop)
  /\ WF_vars(WriterRecv) /\ WF_vars(WriterLock)
  /\ \A c \in Clients :
       /\ SF_vars(Accept(c)) /\ WF_vars(Write(c)) /\ WF_vars(WriteFails(c))
       /\ WF_vars(Connect(c)) /\ WF_vars(Read(c)) /\ WF_vars(CancelHandler(c))

FairSpec == Spec /\ Fairness

-----------------------------------------------------------------------------
\* Whenever the flag lets a buffer be read it is the mapped one, and whenever a
\* copy is made the buffer for it is not mapped, although the two users of the
\* capture resize it in turn while mappings are under way (scene.rs 648-798).
ReadsOnlyMapped == FlagIsTrue(capture)

\* The watched client is served by a pipe of frames: in order, each at most once, never a
\* mixture of two, across dropped packets, lost connections and restarts of
\* either side (macos.rs 76-160, StreamSource.m 164-217).
UnderWay(c) ==
  ( {capture.buf[i].holds : i \in 0..1} \cup {chan}
    \cup (IF writer.at = "lock" \/ c \in writer.todo THEN {writer.frame} ELSE {})
    \cup {buf[c][i].of : i \in DOMAIN buf[c]}
    \cup {sock[c][i].of : i \in DOMAIN sock[c]} ) \cap 1..MaxFrames

Pipe == INSTANCE LossyPipe WITH Capacity  <- MaxFrames,
                                pending   <- UnderWay(Watched),
                                delivered <- latest[Watched]

ImplementsPipe == Pipe!Spec

\* A client that runs while the camera is on gets frames for ever, whatever was
\* lost, crashed or stopped before, if no client keeps the writer waiting and no
\* mascot window resizes or reads the capture (update.rs 1366-1406).
Flowing(c) == app = "up" /\ enabled /\ mascot = Off /\ suspended = {} /\ client[c] # "dead"
Shown(c)   == Read(c) /\ link[c] = "listed" /\ Whole(buf[c] \o sock[c]) > 0

FramesFlow == \A c \in Clients : <>[]Flowing(c) => []<><<Shown(c)>>_vars

\* The end of the application waits for nothing but a client that is suspended
\* with its connection full (macos.rs 163-176).
Blocked     == \E c \in suspended : Writing(c) /\ Len(sock[c]) = SocketRoom
StopReturns == app = "stopping" ~> (app # "stopping" \/ Blocked)

==============================================================================
