---------------------------- MODULE GrpcBroker ----------------------------
(***************************************************************************)
(* The gRPC connection broker of a plugin connection, one GRPCBroker at    *)
(* each end (go-plugin/src/grpc_broker.rs) and the stream of connection    *)
(* information between them (start_stream there, start_broker_stream in    *)
(* grpc_client.rs).  accept binds a listener, sends its address over the   *)
(* stream and waits for the peer to connect; dial_grpc registers in the    *)
(* pending table, waits for the address and connects; close empties both   *)
(* pieces of state.  stream_tx and pending are behind asynchronous locks:  *)
(* an accept keeps the first for as long as it runs, a close keeps the     *)
(* second while it waits for the first.                                    *)
(*                                                                         *)
(* An address is named by the accept that bound it: the operating system   *)
(* does not give a port again during the session.  The stream is set up    *)
(* by the client and served by the plugin, so that only the plugin's       *)
(* broker ever holds a sender; it may break at any time.                   *)
(***************************************************************************)
EXTENDS Naturals, Sequences, FiniteSets

CONSTANTS Accepts, Dials, Closes,  \* the calls of the session
          Ids,                     \* the service ids in use
          Requests(_),             \* what a call may ask for: ends and service ids
          NoCall                   \* nobody

Ends == {"client", "plugin"}
Calls == Accepts \cup Dials \cup Closes

ASSUME GrpcBrokerAssumption ==
  /\ Ids # {}
  /\ Accepts \cap Dials = {} /\ Accepts \cap Closes = {} /\ Dials \cap Closes = {}
  /\ NoCall \notin Calls
  /\ \A c \in Calls : Requests(c) \subseteq Ends \X Ids

VARIABLES call,        \* call[c]: where it was made, its service, its state
          streamTx,    \* streamTx[e]: the end e holds the stream's sender
          txLock,      \* txLock[e]: the call that holds the lock on stream_tx
          pending,     \* pending[e][i]: the dial registered for service i
          pendingLock, \* pendingLock[e]: the close that holds that lock
          stream,      \* the start of the broker stream
          wire         \* the accepts whose address travels to the client

vars == <<call, streamTx, txLock, pending, pendingLock, stream, wire>>

TypeOK ==
  /\ call \in [Calls -> [end : Ends, id : Ids, peer : Accepts \cup {NoCall},
                         pc : {"idle", "queued", "waiting", "dropped", "connecting",
                               "connected", "clearing", "ok", "failed"}]]
  /\ streamTx \in [Ends -> BOOLEAN]
  /\ txLock \in [Ends -> Accepts \cup {NoCall}]
  /\ pending \in [Ends -> [Ids -> Dials \cup {NoCall}]]
  /\ pendingLock \in [Ends -> Closes \cup {NoCall}]
  /\ stream \in {"off", "spawned", "running", "broken"}
  /\ wire \in Seq(Accepts)

Init ==
  /\ call = [c \in Calls |-> [end |-> "client", id |-> CHOOSE i \in Ids : TRUE,
                             peer |-> NoCall, pc |-> "idle"]]
  /\ streamTx = [e \in Ends |-> FALSE]
  /\ txLock = [e \in Ends |-> NoCall]
  /\ pending = [e \in Ends |-> [i \in Ids |-> NoCall]]
  /\ pendingLock = [e \in Ends |-> NoCall]
  /\ stream = "off"
  /\ wire = <<>>

----------------------------------------------------------------------------

\* The calls c of C move to the state pc.
Move(C, pc) ==
  call' = [c \in Calls |-> IF c \in C THEN [call[c] EXCEPT !.pc = pc] ELSE call[c]]

\* A call is made at one end and asks for its first lock.
Begin(c) ==
  /\ call[c].pc = "idle"
  /\ \E r \in Requests(c) :
       call' = [call EXCEPT ![c] = [@ EXCEPT !.end = r[1], !.id = r[2], !.pc = "queued"]]
  /\ UNCHANGED <<streamTx, txLock, pending, pendingLock, stream, wire>>

\* The client opens the stream.  The plugin answers at once and leaves the
\* storing of the sender to a task that it spawns.
StartStream ==
  /\ stream = "off"
  /\ stream' = "spawned"
  /\ UNCHANGED <<call, streamTx, txLock, pending, pendingLock, wire>>

\* That task, whenever it gets the lock: after a close, too.
SetStreamTx ==
  /\ stream = "spawned"
  /\ txLock["plugin"] = NoCall
  /\ streamTx' = [streamTx EXCEPT !["plugin"] = TRUE]
  /\ stream' = "running"
  /\ UNCHANGED <<call, txLock, pending, pendingLock, wire>>

\* The connection under the stream goes, with the messages on it.
StreamBreaks ==
  /\ stream = "running"
  /\ stream' = "broken"
  /\ wire' = <<>>
  /\ UNCHANGED <<call, streamTx, txLock, pending, pendingLock>>

----------------------------------------------------------------------------

\* accept with the lock on stream_tx: without a sender it fails, otherwise it
\* binds a listener, sends the address and starts its five seconds, and it
\* keeps the lock.  Into a broken stream the sending may fail or be lost.
AcceptSends(a) ==
  LET e == call[a].end IN
  /\ call[a].pc = "queued"
  /\ txLock[e] = NoCall
  /\ \/ /\ ~streamTx[e] \/ stream = "broken"
        /\ Move({a}, "failed")
        /\ UNCHANGED <<txLock, wire>>
     \/ /\ streamTx[e]
        /\ Move({a}, "waiting")
        /\ txLock' = [txLock EXCEPT ![e] = a]
        /\ wire' = IF stream = "broken" THEN wire ELSE Append(wire, a)
  /\ UNCHANGED <<streamTx, pending, pendingLock, stream>>

ReleaseTx(a) == txLock' = [txLock EXCEPT ![call[a].end] = NoCall]

\* The listener hands out the connection.
AcceptReturns(a) ==
  /\ call[a].pc = "waiting"
  /\ \E d \in Dials : call[d].peer = a /\ call[d].pc \in {"connected", "ok"}
  /\ Move({a}, "ok")
  /\ ReleaseTx(a)
  /\ UNCHANGED <<streamTx, pending, pendingLock, stream, wire>>

\* Mutant of AcceptTimesOut: there is no timeout.
AcceptWaitsOn(a) ==
  /\ call[a].pc = "waiting"
  /\ UNCHANGED vars

\* Five seconds have passed.  A connection that is being made is lost.
AcceptTimesOut(a) ==
  /\ call[a].pc = "waiting"
  /\ Move({a}, "failed")
  /\ ReleaseTx(a)
  /\ UNCHANGED <<streamTx, pending, pendingLock, stream, wire>>

----------------------------------------------------------------------------

\* The dials whose sender goes when the table of e becomes table: their
\* receiver fails.
Dropped(e, table) ==
  {d \in Dials : /\ call[d].pc = "waiting" /\ call[d].peer = NoCall
                 /\ call[d].end = e
                 /\ pending[e][call[d].id] = d
                 /\ table[call[d].id] # d}

\* register_pending: an entry of the same service is overwritten.
DialRegisters(d) ==
  LET e == call[d].end
      table == [pending[e] EXCEPT ![call[d].id] = d]
      dropped == Dropped(e, table)
  IN
  /\ call[d].pc = "queued"
  /\ pendingLock[e] = NoCall
  /\ pending' = [pending EXCEPT ![e] = table]
  /\ call' = [c \in Calls |-> IF c = d THEN [call[c] EXCEPT !.pc = "waiting"]
                              ELSE IF c \in dropped THEN [call[c] EXCEPT !.pc = "dropped"]
                              ELSE call[c]]
  /\ UNCHANGED <<streamTx, txLock, pendingLock, stream, wire>>

\* Mutant of Deliver: whichever dial waits gets the address.
DeliverToAny ==
  /\ wire # <<>>
  /\ wire' = Tail(wire)
  /\ \E d \in Dials :
       /\ call[d].pc = "waiting" /\ call[d].end = "client"
       /\ pending' = [pending EXCEPT !["client"][call[d].id] = NoCall]
       /\ call' = [call EXCEPT ![d].peer = Head(wire), ![d].pc = "connecting"]
  /\ UNCHANGED <<streamTx, txLock, pendingLock, stream>>

\* The client's reader of the stream: deliver takes the entry of the service
\* out of the table and hands it the address.  Without an entry, or when the
\* dial of the entry has given up, the address is lost.
Deliver ==
  LET a == Head(wire)
      i == call[a].id
      d == pending["client"][i]
  IN
  /\ wire # <<>>
  /\ pendingLock["client"] = NoCall
  /\ wire' = Tail(wire)
  /\ pending' = [pending EXCEPT !["client"][i] = NoCall]
  /\ IF d # NoCall /\ call[d].pc = "waiting"
     THEN call' = [call EXCEPT ![d].peer = a, ![d].pc = "connecting"]
     ELSE UNCHANGED call
  /\ UNCHANGED <<streamTx, txLock, pendingLock, stream>>

\* Mutant of DialTimesOut: the entry of the service is cleaned up, whoever's it
\* is by now.
DialTimesOutCleanly(d) ==
  LET table == [pending[call[d].end] EXCEPT ![call[d].id] = NoCall]
      dropped == Dropped(call[d].end, table)
  IN
  /\ call[d].pc \in {"waiting", "dropped"}
  /\ pending' = [pending EXCEPT ![call[d].end] = table]
  /\ call' = [c \in Calls |-> IF c = d THEN [call[c] EXCEPT !.pc = "failed"]
                              ELSE IF c \in dropped THEN [call[c] EXCEPT !.pc = "dropped"]
                              ELSE call[c]]
  /\ UNCHANGED <<streamTx, txLock, pendingLock, stream, wire>>

\* Five seconds without an address; the entry stays in the table.
DialTimesOut(d) ==
  /\ call[d].pc = "waiting"
  /\ Move({d}, "failed")
  /\ UNCHANGED <<streamTx, txLock, pending, pendingLock, stream, wire>>

\* The receiver reports that its sender is gone.
DialFails(d) ==
  /\ call[d].pc = "dropped"
  /\ Move({d}, "failed")
  /\ UNCHANGED <<streamTx, txLock, pending, pendingLock, stream, wire>>

\* The connection is made while the listener of the accept is open, and
\* refused afterwards.
DialConnects(d) ==
  /\ call[d].pc = "connecting"
  /\ Move({d}, IF call[call[d].peer].pc = "waiting" THEN "connected" ELSE "failed")
  /\ UNCHANGED <<streamTx, txLock, pending, pendingLock, stream, wire>>

\* tonic has its channel, whether or not anybody serves the other end.
DialReturns(d) ==
  /\ call[d].pc = "connected"
  /\ Move({d}, "ok")
  /\ UNCHANGED <<streamTx, txLock, pending, pendingLock, stream, wire>>

----------------------------------------------------------------------------

\* Mutant of CloseClears: the lock on the table is released before the other one
\* is waited for.
CloseClearsReleasing(k) ==
  LET e == call[k].end
      table == [i \in Ids |-> NoCall]
      dropped == Dropped(e, table)
  IN
  /\ call[k].pc = "queued"
  /\ pendingLock[e] = NoCall
  /\ pending' = [pending EXCEPT ![e] = table]
  /\ call' = [c \in Calls |-> IF c = k THEN [call[c] EXCEPT !.pc = "clearing"]
                              ELSE IF c \in dropped THEN [call[c] EXCEPT !.pc = "dropped"]
                              ELSE call[c]]
  /\ UNCHANGED <<streamTx, txLock, pendingLock, stream, wire>>

\* close with the lock on pending: the table is emptied and the lock kept.
CloseClears(k) ==
  LET e == call[k].end
      table == [i \in Ids |-> NoCall]
      dropped == Dropped(e, table)
  IN
  /\ call[k].pc = "queued"
  /\ pendingLock[e] = NoCall
  /\ pendingLock' = [pendingLock EXCEPT ![e] = k]
  /\ pending' = [pending EXCEPT ![e] = table]
  /\ call' = [c \in Calls |-> IF c = k THEN [call[c] EXCEPT !.pc = "clearing"]
                              ELSE IF c \in dropped THEN [call[c] EXCEPT !.pc = "dropped"]
                              ELSE call[c]]
  /\ UNCHANGED <<streamTx, txLock, stream, wire>>

\* ... and with the lock on stream_tx: the sender goes, both locks are free.
CloseReturns(k) ==
  LET e == call[k].end IN
  /\ call[k].pc = "clearing"
  /\ txLock[e] = NoCall
  /\ streamTx' = [streamTx EXCEPT ![e] = FALSE]
  /\ pendingLock' = [pendingLock EXCEPT ![e] = NoCall]
  /\ Move({k}, "ok")
  /\ UNCHANGED <<txLock, pending, stream, wire>>

----------------------------------------------------------------------------

AcceptStep(a) == AcceptSends(a) \/ AcceptReturns(a) \/ AcceptTimesOut(a)
DialStep(d) ==
  DialRegisters(d) \/ DialTimesOut(d) \/ DialFails(d) \/ DialConnects(d) \/ DialReturns(d)
CloseStep(k) == CloseClears(k) \/ CloseReturns(k)

Next ==
  \/ \E c \in Calls : Begin(c)
  \/ StartStream \/ SetStreamTx \/ StreamBreaks \/ Deliver
  \/ \E a \in Accepts : AcceptStep(a)
  \/ \E d \in Dials : DialStep(d)
  \/ \E k \in Closes : CloseStep(k)

Spec == Init /\ [][Next]_vars

\* The runtime polls every task that can go on, and timers fire.  Nobody has
\* to make a call, to open the stream or to break it.
Fairness ==
  /\ WF_vars(SetStreamTx)
  /\ WF_vars(Deliver)
  /\ \A a \in Accepts : WF_vars(AcceptStep(a))
  /\ \A d \in Dials : WF_vars(DialStep(d))
  /\ \A k \in Closes : WF_vars(CloseStep(k))

FairSpec == Spec /\ Fairness

----------------------------------------------------------------------------

Made(c) == IF call[c].pc = "idle" THEN <<>> ELSE <<call[c].end, call[c].id>>

ResultOf(c) == IF call[c].pc \in {"ok", "failed"} THEN call[c].pc ELSE "none"

\* The broker implements the rendezvous: the two ends of a brokered connection
\* asked for the same service at different ends, no accept and no dial is
\* connected twice, and a call that returns Ok has been connected, although
\* entries outlive their dial, addresses outlive their listener and a dial may
\* displace another one.
connected == {p \in Accepts \X Dials : call[p[2]].peer = p[1] /\ call[p[2]].pc \in {"connected", "ok"}}

R == INSTANCE Rendezvous WITH
       Acceptors <- Accepts, Dialers <- Dials, Services <- Ids, None <- <<>>,
       made <- [c \in Accepts \cup Dials |-> Made(c)],
       met <- connected,
       result <- [c \in Accepts \cup Dials |-> ResultOf(c)]

ImplementsRendezvous == R!Spec

\* A dial loses its place only to a close of its end or to a newer dial of the
\* same service: never to the stale entry of a dial that timed out.
DropsWithCause ==
  \A d \in Dials :
    (call[d].pc = "waiting" /\ call'[d].pc = "dropped") =>
      \/ pendingLock'[call[d].end] # pendingLock[call[d].end]
      \/ pending'[call[d].end][call[d].id] \in Dials \ {d}

DroppedWithCause == [][DropsWithCause]_vars

\* close cancels everything: when it returns, nothing is registered at its end
\* and its end holds no sender, whatever ran while it waited for the second
\* lock.
ClosesAll ==
  \A k \in Closes :
    (call[k].pc # "ok" /\ call'[k].pc = "ok") =>
      /\ \A i \in Ids : pending'[call[k].end][i] = NoCall
      /\ ~streamTx'[call[k].end]

CloseLeavesNothing == [][ClosesAll]_vars

\* Every call returns: the locks that calls keep while they wait delay the
\* others by their timeout, they never block them for good.
EveryCallReturns ==
  \A c \in Calls : call[c].pc # "idle" ~> call[c].pc \in {"ok", "failed"}

============================================================================
