----------------------------- MODULE MuxBroker -----------------------------
(***************************************************************************)
(* The connection broker of the net/rpc transport: brokered streams are    *)
(* yamux streams of the one plugin connection                              *)
(* (go-plugin/src/mux_broker.rs).  accept registers in the pending table   *)
(* of its end and waits at most five seconds; dial asks the task that      *)
(* drives the connection for a stream, writes the service id on it and     *)
(* waits, without a timeout, for the acknowledgement; at the other end a   *)
(* task of its own for each inbound stream looks the id up, acknowledges   *)
(* it and hands the stream to the accept, in this order.  The lock on the  *)
(* pending table is never kept across an await, so that it does not show.  *)
(***************************************************************************)
EXTENDS Naturals, FiniteSets

CONSTANTS Accepts, Dials, Closes,  \* the broker calls of the session
          Ids,                     \* the ids of brokered streams
          Requests(_),             \* what a call may ask for: ends and ids
          NoCall                   \* nobody

Ends == {"client", "plugin"}
BrokerCalls == Accepts \cup Dials \cup Closes

ASSUME MuxBrokerAssumption ==
  /\ Ids # {}
  /\ Accepts \cap Dials = {} /\ Accepts \cap Closes = {} /\ Dials \cap Closes = {}
  /\ NoCall \notin BrokerCalls
  /\ \A c \in BrokerCalls : Requests(c) \subseteq Ends \X Ids

VARIABLES call,     \* call[c]: where it was made, its id, its state
          pending,  \* pending[e][i]: the accept registered for i
          up,       \* the connection works, and with it the task at each end
                    \* that drives it and opens streams
          inbound,  \* inbound[d]: how far the peer's task for d's stream is
          taken     \* taken[d]: the accept whose entry that task took

brokerVars == <<call, pending, up, inbound, taken>>

BrokerTypeOK ==
  /\ call \in [BrokerCalls -> [end : Ends, id : Ids,
                               pc : {"idle", "waiting", "cancelled", "given", "opening", "opened",
                                     "acknowledged", "ok", "failed"}]]
  /\ pending \in [Ends -> [Ids -> Accepts \cup {NoCall}]]
  /\ up \in BOOLEAN
  /\ inbound \in [Dials -> {"none", "arrived", "found", "acked", "done"}]
  /\ taken \in [Dials -> Accepts \cup {NoCall}]

BrokerInit ==
  /\ call = [c \in BrokerCalls |-> [end |-> "client", id |-> CHOOSE i \in Ids : TRUE, pc |-> "idle"]]
  /\ pending = [e \in Ends |-> [i \in Ids |-> NoCall]]
  /\ up = TRUE
  /\ inbound = [d \in Dials |-> "none"]
  /\ taken = [d \in Dials |-> NoCall]

Move(c, pc) == call' = [call EXCEPT ![c].pc = pc]

----------------------------------------------------------------------------

\* The calls with every accept of D cancelled, whose sender goes with its
\* entry, and c in the state pc.
Cancelling(D, c, r, pc) ==
  [b \in BrokerCalls |->
     IF b = c THEN [end |-> r[1], id |-> r[2], pc |-> pc]
     ELSE IF b \in D /\ call[b].pc = "waiting" THEN [call[b] EXCEPT !.pc = "cancelled"]
     ELSE call[b]]

\* accept: the sender of an earlier accept of this id is dropped.
Accept(a) ==
  \E r \in Requests(a) :
    /\ call[a].pc = "idle"
    /\ pending' = [pending EXCEPT ![r[1]][r[2]] = a]
    /\ call' = Cancelling({pending[r[1]][r[2]]}, a, r, "waiting")
    /\ UNCHANGED <<up, inbound, taken>>

AcceptReturns(a) ==
  /\ call[a].pc = "given"
  /\ Move(a, "ok")
  /\ UNCHANGED <<pending, up, inbound, taken>>

\* Its sender is gone, or five seconds have passed; then the entry stays in
\* the table.
AcceptFails(a) ==
  /\ call[a].pc \in {"waiting", "cancelled"}
  /\ Move(a, "failed")
  /\ UNCHANGED <<pending, up, inbound, taken>>

\* close: the table only; the driver goes on.
Close(k) ==
  \E r \in Requests(k) :
    /\ call[k].pc = "idle"
    /\ pending' = [pending EXCEPT ![r[1]] = [i \in Ids |-> NoCall]]
    /\ call' = Cancelling({pending[r[1]][i] : i \in Ids}, k, r, "ok")
    /\ UNCHANGED <<up, inbound, taken>>

----------------------------------------------------------------------------

\* dial: a request for the driver.
Dial(d) ==
  \E r \in Requests(d) :
    /\ call[d].pc = "idle"
    /\ call' = [call EXCEPT ![d] = [end |-> r[1], id |-> r[2], pc |-> "opening"]]
    /\ UNCHANGED <<pending, up, inbound, taken>>

\* The driver answers with a stream; or it cannot open one right now, and the
\* dial fails, as it does when the driver has ended or ends without an answer.
DriverOpens(d) ==
  /\ call[d].pc = "opening"
  /\ \/ /\ up
        /\ Move(d, "opened")
        /\ inbound' = [inbound EXCEPT ![d] = "arrived"]
     \/ /\ Move(d, "failed")
        /\ UNCHANGED inbound
  /\ UNCHANGED <<pending, up, taken>>

\* The acknowledgement is there.
DialReturns(d) ==
  /\ call[d].pc = "acknowledged"
  /\ Move(d, "ok")
  /\ UNCHANGED <<pending, up, inbound, taken>>

\* The stream ends before the acknowledgement: the peer dropped it, or the
\* connection failed.
DialFails(d) ==
  /\ call[d].pc \in {"opened", "acknowledged"}
  /\ ~up \/ (call[d].pc = "opened" /\ inbound[d] = "done")
  /\ Move(d, "failed")
  /\ UNCHANGED <<pending, up, inbound, taken>>

----------------------------------------------------------------------------

\* Mutant of InboundLooksUp: the entry stays for the next dial.
InboundPeeks(d) ==
  LET a == pending[CHOOSE f \in Ends : f # call[d].end][call[d].id] IN
  /\ inbound[d] = "arrived"
  /\ taken' = [taken EXCEPT ![d] = a]
  /\ inbound' = [inbound EXCEPT ![d] = IF up /\ a # NoCall THEN "found" ELSE "done"]
  /\ UNCHANGED <<call, pending, up>>

\* handle_inbound_stream, first part: the id is read and its entry removed.
\* Without an entry, or when the id cannot be read, the stream is dropped.
InboundLooksUp(d) ==
  LET e == CHOOSE f \in Ends : f # call[d].end
      a == pending[e][call[d].id]
  IN
  /\ inbound[d] = "arrived"
  /\ IF up /\ a # NoCall
     THEN /\ pending' = [pending EXCEPT ![e][call[d].id] = NoCall]
          /\ taken' = [taken EXCEPT ![d] = a]
          /\ inbound' = [inbound EXCEPT ![d] = "found"]
     ELSE /\ inbound' = [inbound EXCEPT ![d] = "done"]
          /\ UNCHANGED <<pending, taken>>
  /\ UNCHANGED <<call, up>>

\* Second part: the acknowledgement is written, an error is ignored.
InboundAcknowledges(d) ==
  /\ inbound[d] = "found"
  /\ inbound' = [inbound EXCEPT ![d] = "acked"]
  /\ IF up /\ call[d].pc = "opened" THEN Move(d, "acknowledged") ELSE UNCHANGED call
  /\ UNCHANGED <<pending, up, taken>>

\* Third part: the stream goes to the accept; when that has given up, the
\* stream is dropped.
InboundHandsOver(d) ==
  /\ inbound[d] = "acked"
  /\ inbound' = [inbound EXCEPT ![d] = "done"]
  /\ IF call[taken[d]].pc = "waiting" THEN Move(taken[d], "given") ELSE UNCHANGED call
  /\ UNCHANGED <<pending, up, taken>>

\* The connection fails; both drivers return and drop what they were asked.
ConnectionFails ==
  /\ up
  /\ up' = FALSE
  /\ UNCHANGED <<call, pending, inbound, taken>>

----------------------------------------------------------------------------

CallMade(c) == Accept(c) \/ Dial(c) \/ Close(c)
AcceptStep(a) == AcceptReturns(a) \/ AcceptFails(a)
DialStep(d) == DriverOpens(d) \/ DialReturns(d) \/ DialFails(d)
InboundStep(d) == InboundLooksUp(d) \/ InboundAcknowledges(d) \/ InboundHandsOver(d)

BrokerNext ==
  \/ \E a \in Accepts : Accept(a) \/ AcceptStep(a)
  \/ \E d \in Dials : Dial(d) \/ DialStep(d) \/ InboundStep(d)
  \/ \E k \in Closes : Close(k)
  \/ ConnectionFails

\* The runtime polls every task that can go on, and the timers of the accepts
\* fire.  Nobody has to make a call and no connection has to fail.
BrokerFairness ==
  /\ \A a \in Accepts : WF_brokerVars(AcceptStep(a))
  /\ \A d \in Dials : WF_brokerVars(DialStep(d)) /\ WF_brokerVars(InboundStep(d))

----------------------------------------------------------------------------

Made(c) == IF call[c].pc = "idle" THEN <<>> ELSE <<call[c].end, call[c].id>>
ResultOf(c) == IF call[c].pc \in {"ok", "failed"} THEN call[c].pc ELSE "none"

\* The broker implements the rendezvous: a dial and an accept are paired when
\* the peer's task takes the accept's entry, also the entry of an accept that
\* has timed out by then.
R == INSTANCE Rendezvous WITH
       Acceptors <- Accepts, Dialers <- Dials, Services <- Ids, None <- <<>>,
       made <- [c \in Accepts \cup Dials |-> Made(c)],
       met <- {p \in Accepts \X Dials : taken[p[2]] = p[1]},
       result <- [c \in Accepts \cup Dials |-> ResultOf(c)]

ImplementsRendezvous == R!Spec

\* Every accept and every dial returns.  A dial has no timeout of its own: it
\* relies on the peer's task to answer or to drop the stream.
EveryBrokerCallReturns ==
  \A c \in Accepts \cup Dials : call[c].pc # "idle" ~> call[c].pc \in {"ok", "failed"}

============================================================================
