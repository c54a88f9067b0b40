---------------------------- MODULE RpcControl ----------------------------
(***************************************************************************)
(* The control connection of the net/rpc transport: RPCClient              *)
(* (go-plugin/src/rpc_client.rs) and RPCServer::serve_conn                 *)
(* (rpc_server.rs) on one yamux stream, with the codec of rpc_codec.rs,    *)
(* beside the brokered streams of MuxBroker on the same connection.        *)
(*                                                                         *)
(* A call takes its sequence number, then the lock on the stream, writes   *)
(* its request and reads one answer.  The future of a call may be dropped  *)
(* at any await, by a timeout of its caller: before it writes, between the *)
(* length and the body of the request, while it waits, or between the      *)
(* length and the body of the answer.  The server answers the requests one *)
(* after the other.  It encodes the body of an answer twice, so that a     *)
(* client finds an answer of its own undecodable.                          *)
(*                                                                         *)
(* A body that is left on the stream is taken for lengths, four bytes at a *)
(* time, by the calls that come next.  It begins with the byte 0x93, which *)
(* makes too large a length; from then on it depends on the bytes.         *)
(***************************************************************************)
EXTENDS MuxBroker, Sequences

Methods == {"ping", "quit", "dispense", "dispense_unknown"}

CONSTANTS RpcCalls,  \* the calls on the control connection
          Asks(_),   \* the methods a call may ask for
          MaxLoad,   \* bound on the calls of a session, see Load
          NoRpc      \* no call

ASSUME RpcControlAssumption ==
  /\ NoRpc \notin RpcCalls
  /\ MaxLoad \in Nat
  /\ \A r \in RpcCalls : Asks(r) \subseteq Methods

VARIABLES rpc,        \* rpc[r]: method, sequence number, state and answer read
          seq,        \* the client's next sequence number
          control,    \* the call that holds the lock on the stream
          requests,   \* requests on their way, torn ones included
          answers,    \* answers on their way
          stray,      \* what comes before them: a body without its length, or
                      \* the inside of one
          serving,    \* serve_conn runs
          nextId,     \* the plugin's next id for brokered streams
          dispensed   \* the ids in the answers to dispense, oldest first

rpcVars == <<rpc, seq, control, requests, answers, stray, serving, nextId, dispensed>>
vars == <<brokerVars, rpcVars>>

Finished == {"undecodable", "refused", "mismatch", "oversize", "garbled", "broken", "cancelled"}
Pending  == {"queued", "locked", "waiting", "reading", "astray"}

RpcTypeOK ==
  /\ rpc \in [RpcCalls -> [method : Methods, seq : Nat, answered : Nat,
                           pc : {"idle"} \cup Pending \cup Finished]]
  /\ seq \in Nat \ {0}
  /\ control \in RpcCalls \cup {NoRpc}
  /\ requests \in Seq([method : Methods \cup {"torn"}, seq : Nat])
  /\ answers \in Seq([seq : Nat, error : BOOLEAN])
  /\ stray \in {"none", "start", "inside"}
  /\ serving \in BOOLEAN
  /\ nextId \in Nat \ {0}
  /\ dispensed \in Seq(Nat)

\* Every variable of the plugin connection keeps to its values.
TypeOK == BrokerTypeOK /\ RpcTypeOK

RpcInit ==
  /\ rpc = [r \in RpcCalls |-> [method |-> "ping", seq |-> 0,
                                answered |-> 0, pc |-> "idle"]]
  /\ seq = 1
  /\ control = NoRpc
  /\ requests = <<>> /\ answers = <<>> /\ stray = "none"
  /\ serving = TRUE
  /\ nextId = 1
  /\ dispensed = <<>>

----------------------------------------------------------------------------

\* call, up to the lock: the number is taken before the lock is held.
RpcBegin(r) ==
  /\ rpc[r].pc = "idle"
  /\ \E m \in Asks(r) : rpc' = [rpc EXCEPT ![r].method = m, ![r].seq = seq, ![r].pc = "queued"]
  /\ seq' = seq + 1
  /\ UNCHANGED <<control, requests, answers, stray, serving, nextId, dispensed>>

RpcLock(r) ==
  /\ rpc[r].pc = "queued"
  /\ control = NoRpc
  /\ control' = r
  /\ rpc' = [rpc EXCEPT ![r].pc = "locked"]
  /\ UNCHANGED <<seq, requests, answers, stray, serving, nextId, dispensed>>

\* The request is written: the stream fails when the server or the connection
\* has gone.
RpcWrite(r) ==
  /\ rpc[r].pc = "locked"
  /\ IF up /\ serving
     THEN /\ requests' = Append(requests, [method |-> rpc[r].method, seq |-> rpc[r].seq])
          /\ rpc' = [rpc EXCEPT ![r].pc = "waiting"]
          /\ UNCHANGED control
     ELSE /\ rpc' = [rpc EXCEPT ![r].pc = "broken"]
          /\ control' = NoRpc
          /\ UNCHANGED requests
  /\ UNCHANGED <<seq, answers, stray, serving, nextId, dispensed>>

\* Mutant of Outcome: the sequence number is not compared.
OutcomeUnchecked(r, a) == IF a.error THEN "refused" ELSE "undecodable"

\* What a call makes of the answer a.
Outcome(r, a) ==
  IF a.seq # rpc[r].seq THEN "mismatch" ELSE IF a.error THEN "refused" ELSE "undecodable"

\* The length of an answer is read.
RpcReadsLength(r) ==
  /\ rpc[r].pc = "waiting"
  /\ stray = "none" /\ answers # <<>>
  /\ rpc' = [rpc EXCEPT ![r].pc = "reading"]
  /\ UNCHANGED <<seq, control, requests, answers, stray, serving, nextId, dispensed>>

\* Its body is read and the lock released, then it is decoded.
RpcRead(r) ==
  /\ rpc[r].pc = "reading"
  /\ answers' = Tail(answers)
  /\ rpc' = [rpc EXCEPT ![r].pc = Outcome(r, Head(answers)), ![r].answered = Head(answers).seq]
  /\ control' = NoRpc
  /\ UNCHANGED <<seq, requests, stray, serving, nextId, dispensed>>

\* Four bytes of a body are read as a length.  Too large a length ends the call;
\* bytes remain, or none, or the length of the next answer was begun.  With
\* another length the call waits for as many bytes.
RpcMisreads(r) ==
  /\ rpc[r].pc = "waiting"
  /\ stray # "none"
  /\ \/ /\ rpc' = [rpc EXCEPT ![r].pc = "oversize"]
        /\ control' = NoRpc
        /\ \/ stray' = "inside" /\ UNCHANGED answers
           \/ stray = "inside" /\ stray' = "none" /\ UNCHANGED answers
           \/ stray = "inside" /\ answers # <<>> /\ answers' = Tail(answers) /\ UNCHANGED stray
     \/ /\ stray = "inside"
        /\ rpc' = [rpc EXCEPT ![r].pc = "astray"]
        /\ UNCHANGED <<control, answers, stray>>
  /\ UNCHANGED <<seq, requests, serving, nextId, dispensed>>

\* Bytes arrive for a call that waits for too many: they are not enough; or they
\* are, the last of them from inside an answer, and nothing comes of them.
RpcSwallows(r) ==
  /\ rpc[r].pc = "astray"
  /\ \/ stray # "none" /\ UNCHANGED answers
     \/ stray = "none" /\ answers # <<>> /\ answers' = Tail(answers)
  /\ \/ /\ stray' = "none"
        /\ UNCHANGED <<rpc, control>>
     \/ /\ stray' \in {"none", "inside"}
        /\ rpc' = [rpc EXCEPT ![r].pc = "garbled"]
        /\ control' = NoRpc
  /\ UNCHANGED <<seq, requests, serving, nextId, dispensed>>

\* Mutant of StreamEnds: a server that leaves does not close the stream.
StreamEndsWithConnection == ~up

\* The client's stream ends when the connection fails and when serve_conn
\* returns and drops its end.
StreamEnds == ~up \/ ~serving

\* The stream ends before the call has read what it waits for.
RpcBroken(r) ==
  /\ StreamEnds
  /\ \/ rpc[r].pc = "waiting" /\ answers = <<>> /\ stray # "start"
     \/ rpc[r].pc = "reading" /\ ~up
     \/ rpc[r].pc = "astray"
  /\ rpc' = [rpc EXCEPT ![r].pc = "broken"]
  /\ control' = NoRpc
  /\ answers' = <<>> /\ stray' = "none"
  /\ UNCHANGED <<seq, requests, serving, nextId, dispensed>>

\* The future of the call is dropped, with the lock when it holds it.  What it
\* has written stays on the stream, a length without a body included, and what
\* it has not read, a body without its length included.
RpcCancelled(r) ==
  /\ rpc[r].pc \in Pending
  /\ rpc' = [rpc EXCEPT ![r].pc = "cancelled"]
  /\ control' = IF control = r THEN NoRpc ELSE control
  /\ \/ UNCHANGED requests
     \/ /\ rpc[r].pc = "locked" /\ up /\ serving
        /\ requests' = Append(requests, [method |-> "torn", seq |-> rpc[r].seq])
  /\ IF rpc[r].pc = "reading"
     THEN answers' = Tail(answers) /\ stray' = "start"
     ELSE UNCHANGED <<answers, stray>>
  /\ UNCHANGED <<seq, serving, nextId, dispensed>>

----------------------------------------------------------------------------

\* One turn of serve_conn: a request is read, handled and answered; after
\* quit the server leaves.
ServeRequest ==
  LET q == Head(requests) IN
  /\ serving /\ up
  /\ requests # <<>> /\ q.method # "torn"
  /\ requests' = Tail(requests)
  /\ answers' = Append(answers, [seq |-> q.seq, error |-> q.method = "dispense_unknown"])
  /\ IF q.method = "dispense"
     THEN nextId' = nextId + 1 /\ dispensed' = Append(dispensed, nextId)
     ELSE UNCHANGED <<nextId, dispensed>>
  /\ serving' = (q.method # "quit")
  /\ UNCHANGED <<rpc, seq, control, stray>>

\* A length without its body: the bytes of the next requests are taken for the
\* body and do not decode.  As long as they are too few the server waits.
ServeTorn ==
  /\ serving /\ up
  /\ Len(requests) > 1 /\ Head(requests).method = "torn"
  /\ serving' = FALSE
  /\ requests' = <<>>
  /\ UNCHANGED <<rpc, seq, control, answers, stray, nextId, dispensed>>

ServeEnds ==
  /\ serving /\ ~up
  /\ serving' = FALSE
  /\ UNCHANGED <<rpc, seq, control, requests, answers, stray, nextId, dispensed>>

----------------------------------------------------------------------------

RpcAnswered(r) == RpcReadsLength(r) \/ RpcRead(r) \/ RpcMisreads(r) \/ RpcSwallows(r)
RpcStep(r) == RpcLock(r) \/ RpcWrite(r) \/ RpcAnswered(r) \/ RpcBroken(r)
Serve == ServeRequest \/ ServeEnds

RpcNext ==
  \/ \E r \in RpcCalls : RpcBegin(r) \/ RpcStep(r) \/ RpcCancelled(r)
  \/ Serve \/ ServeTorn

Init == BrokerInit /\ RpcInit

\* Three control calls weigh as much as four broker calls.
Load ==
  3 * Cardinality({c \in BrokerCalls : call[c].pc # "idle"})
    + 4 * Cardinality({r \in RpcCalls : rpc[r].pc # "idle"})

Next ==
  /\ \/ BrokerNext /\ UNCHANGED rpcVars
     \/ RpcNext /\ UNCHANGED brokerVars
  /\ Load' <= MaxLoad

\* As for the broker; nobody cancels a call by obligation, and a torn request
\* need not be followed by as many bytes as it announced.
FairSpec ==
  /\ Init /\ [][Next]_vars
  /\ BrokerFairness
  /\ \A r \in RpcCalls : WF_rpcVars(RpcStep(r))
  /\ WF_rpcVars(Serve)

----------------------------------------------------------------------------

\* A call accepts only the answer the server gave to its own request, whatever
\* cancelled calls have left on the stream before it, whole answers and bodies
\* without their lengths: the numbers agree, and the server refused exactly what
\* this call had asked for in vain.
AnswersMatch ==
  \A r \in RpcCalls :
    rpc[r].pc \in {"undecodable", "refused"} =>
      /\ rpc[r].answered = rpc[r].seq
      /\ rpc[r].pc = "refused" <=> rpc[r].method = "dispense_unknown"

\* A call that was dropped between a length and a body has stopped the stream:
\* the server waits for the rest of a request, or a call that holds the lock has
\* read a length out of a body.
Derailed ==
  \/ requests # <<>> /\ Head(requests).method = "torn"
  \/ \E r \in RpcCalls : rpc[r].pc = "astray"

\* Every call on the control connection comes back, those that wait for the lock
\* included, unless a dropped call has stopped the stream: bytes that it left
\* only fail the calls after it, until one of them is a small length.
EveryRpcReturns ==
  \A r \in RpcCalls : rpc[r].pc # "idle" ~> rpc[r].pc \in Finished \/ Derailed

\* The same for both users of the connection: every accept and every dial
\* returns, whatever happens on the control stream, and so do its calls.
EveryCallReturns == EveryBrokerCallReturns /\ EveryRpcReturns

============================================================================
