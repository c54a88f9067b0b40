-------------------------- MODULE GrpcBroker_proofs --------------------------
(***************************************************************************)
(* What the gRPC broker guarantees for every set of calls and services:    *)
(* types, what a close leaves behind, when a dial loses its place, and     *)
(* that the broker implements the rendezvous.  Two inductive invariants    *)
(* carry this: Locking, the two locks of an end and what they protect, and *)
(* Addressing, from whom an address comes and to whom it goes.             *)
(***************************************************************************)
EXTENDS GrpcBroker, SequenceTheorems, TLAPS

----------------------------------------------------------------------------
(* What the steps do to the calls, and type correctness.                   *)

States == {"idle", "queued", "waiting", "dropped", "connecting", "connected", "clearing",
           "ok", "failed"}
CallRecord == [end : Ends, id : Ids, peer : Accepts \cup {NoCall}, pc : States]

\* The call c is in the state p, and otherwise as it was.
Moved(c, p) ==
  /\ call'[c].pc = p
  /\ call'[c].end = call[c].end /\ call'[c].id = call[c].id /\ call'[c].peer = call[c].peer

LEMMA KindsOfCalls ==
  /\ Accepts \subseteq Calls /\ Dials \subseteq Calls /\ Closes \subseteq Calls
  /\ Accepts \cap Dials = {} /\ Accepts \cap Closes = {} /\ Dials \cap Closes = {}
  /\ NoCall \notin Accepts /\ NoCall \notin Dials /\ NoCall \notin Closes
BY GrpcBrokerAssumption DEF Calls

LEMMA CallFields ==
  ASSUME TypeOK, NEW c \in Calls
  PROVE  call[c].end \in Ends /\ call[c].id \in Ids /\ call[c].peer \in Accepts \cup {NoCall}
BY DEF TypeOK

LEMMA MoveEffect ==
  ASSUME TypeOK, NEW c \in Calls, NEW p \in States, Move({c}, p)
  PROVE  /\ call' \in [Calls -> CallRecord]
         /\ Moved(c, p) /\ \A b \in Calls \ {c} : call'[b] = call[b]
BY DEF Move, Moved, TypeOK, States, CallRecord

\* A call is made.
LEMMA BeginEffect ==
  ASSUME TypeOK, NEW c \in Calls, Begin(c)
  PROVE  /\ call' \in [Calls -> CallRecord]
         /\ call[c].pc = "idle"
         /\ call'[c].pc = "queued" /\ call'[c].peer = call[c].peer
         /\ \A b \in Calls \ {c} : call'[b] = call[b]
<1>1. PICK r \in Requests(c) :
        /\ call[c].pc = "idle"
        /\ call' = [call EXCEPT ![c] = [@ EXCEPT !.end = r[1], !.id = r[2], !.pc = "queued"]]
  BY DEF Begin
<1>2. r[1] \in Ends /\ r[2] \in Ids
  BY GrpcBrokerAssumption
<1> QED
  BY <1>1, <1>2, ZenonT(60) DEF TypeOK, States, CallRecord

\* The call x moves and the dials whose entries go from the table of e are
\* dropped.
LEMMA DropEffect ==
  ASSUME TypeOK, NEW x \in Calls, NEW p \in States, NEW e \in Ends, NEW table,
         call' = [c \in Calls |-> IF c = x THEN [call[c] EXCEPT !.pc = p]
                                  ELSE IF c \in Dropped(e, table) THEN [call[c] EXCEPT !.pc = "dropped"]
                                  ELSE call[c]]
  PROVE  /\ call' \in [Calls -> CallRecord]
         /\ Moved(x, p)
         /\ \A b \in Calls \ {x} :
              \/ call'[b] = call[b] /\ b \notin Dropped(e, table)
              \/ Moved(b, "dropped") /\ b \in Dropped(e, table)
<1>1. call' \in [Calls -> CallRecord]
  BY ZenonT(60) DEF TypeOK, States, CallRecord
<1>2. Moved(x, p)
  BY DEF TypeOK, Moved
<1>3. ASSUME NEW b \in Calls \ {x}
      PROVE  \/ call'[b] = call[b] /\ b \notin Dropped(e, table)
             \/ Moved(b, "dropped") /\ b \in Dropped(e, table)
  <2>1. CASE b \in Dropped(e, table)
    BY <2>1 DEF TypeOK, Moved
  <2>2. CASE b \notin Dropped(e, table)
    BY <2>2 DEF TypeOK, Moved
  <2> QED
    BY <2>1, <2>2
<1> QED
  BY <1>1, <1>2, <1>3

\* The address a goes to the dial d.
LEMMA HandEffect ==
  ASSUME TypeOK, NEW d \in Dials, NEW a \in Accepts,
         call' = [call EXCEPT ![d].peer = a, ![d].pc = "connecting"]
  PROVE  /\ call' \in [Calls -> CallRecord]
         /\ call'[d].pc = "connecting" /\ call'[d].peer = a
         /\ call'[d].end = call[d].end /\ call'[d].id = call[d].id
         /\ \A b \in Calls \ {d} : call'[b] = call[b]
BY KindsOfCalls, ZenonT(60) DEF TypeOK, States, CallRecord

\* One entry of a table of both ends is replaced, and the others stay.
LEMMA EntryReplaced ==
  ASSUME NEW S, NEW t \in [Ends -> [Ids -> S]], NEW e \in Ends, NEW i \in Ids, NEW v \in S
  PROVE  /\ [t EXCEPT ![e][i] = v] \in [Ends -> [Ids -> S]]
         /\ \A f \in Ends, j \in Ids :
              [t EXCEPT ![e][i] = v][f][j] = IF f = e /\ j = i THEN v ELSE t[f][j]
OBVIOUS

\* What a registration does to the table and the calls.
LEMMA RegisterEffect ==
  ASSUME TypeOK, NEW d \in Dials, DialRegisters(d)
  PROVE  /\ call' \in [Calls -> CallRecord]
         /\ call[d].pc = "queued" /\ Moved(d, "waiting")
         /\ pendingLock[call[d].end] = NoCall
         /\ pending' \in [Ends -> [Ids -> Dials \cup {NoCall}]]
         /\ \A f \in Ends, j \in Ids :
              pending'[f][j] = IF f = call[d].end /\ j = call[d].id THEN d ELSE pending[f][j]
         /\ \A b \in Calls \ {d} :
              \/ call'[b] = call[b]
              \/ /\ Moved(b, "dropped") /\ b \in Dials /\ call[b].pc = "waiting"
                 /\ call[b].peer = NoCall /\ call[b].end = call[d].end /\ call[b].id = call[d].id
                 /\ pending[call[b].end][call[b].id] = b
         /\ UNCHANGED <<streamTx, txLock, pendingLock, stream, wire>>
<1> DEFINE e == call[d].end
           i == call[d].id
           table == [pending[e] EXCEPT ![i] = d]
<1>0. e \in Ends /\ i \in Ids /\ d \in Calls
  BY CallFields, KindsOfCalls
<1>1. /\ call[d].pc = "queued" /\ pendingLock[e] = NoCall
      /\ pending' = [pending EXCEPT ![e] = table]
      /\ call' = [c \in Calls |-> IF c = d THEN [call[c] EXCEPT !.pc = "waiting"]
                                  ELSE IF c \in Dropped(e, table) THEN [call[c] EXCEPT !.pc = "dropped"]
                                  ELSE call[c]]
      /\ UNCHANGED <<streamTx, txLock, pendingLock, stream, wire>>
  BY DEF DialRegisters
<1>2. pending \in [Ends -> [Ids -> Dials \cup {NoCall}]]
  BY DEF TypeOK
<1>3. \A j \in Ids : table[j] = IF j = i THEN d ELSE pending[e][j]
  BY <1>0, <1>2
<1>4. \A f \in Ends, j \in Ids : pending'[f][j] = IF f = e /\ j = i THEN d ELSE pending[f][j]
  BY <1>0, <1>1, <1>2
<1>5. pending' \in [Ends -> [Ids -> Dials \cup {NoCall}]]
  BY <1>0, <1>1, <1>2
<1> HIDE DEF e, i, table
<1>6. /\ call' \in [Calls -> CallRecord]
      /\ Moved(d, "waiting")
      /\ \A b \in Calls \ {d} :
           \/ call'[b] = call[b] /\ b \notin Dropped(e, table)
           \/ Moved(b, "dropped") /\ b \in Dropped(e, table)
  BY <1>0, <1>1, DropEffect DEF States
<1>7. \A b \in Dropped(e, table) :
        /\ b \in Dials /\ call[b].pc = "waiting" /\ call[b].peer = NoCall /\ call[b].end = e
        /\ call[b].id = i /\ pending[e][i] = b
  BY <1>3, CallFields, KindsOfCalls DEF Dropped
<1> QED
  BY <1>1, <1>4, <1>5, <1>6, <1>7 DEF e, i

\* What the first half of a close does to the table and the calls.
LEMMA ClearEffect ==
  ASSUME TypeOK, NEW k \in Closes, CloseClears(k)
  PROVE  /\ call' \in [Calls -> CallRecord]
         /\ call[k].pc = "queued" /\ Moved(k, "clearing")
         /\ pendingLock[call[k].end] = NoCall
         /\ pendingLock' = [pendingLock EXCEPT ![call[k].end] = k]
         /\ pending' \in [Ends -> [Ids -> Dials \cup {NoCall}]]
         /\ \A f \in Ends, j \in Ids :
              pending'[f][j] = IF f = call[k].end THEN NoCall ELSE pending[f][j]
         /\ \A b \in Calls \ {k} :
              \/ call'[b] = call[b]
              \/ /\ Moved(b, "dropped") /\ b \in Dials /\ call[b].pc = "waiting"
                 /\ call[b].peer = NoCall /\ call[b].end = call[k].end
                 /\ pending[call[b].end][call[b].id] = b
         /\ UNCHANGED <<streamTx, txLock, stream, wire>>
<1> DEFINE e == call[k].end
           table == [i \in Ids |-> NoCall]
<1>0. e \in Ends /\ k \in Calls
  BY CallFields, KindsOfCalls
<1>1. /\ call[k].pc = "queued" /\ pendingLock[e] = NoCall
      /\ pendingLock' = [pendingLock EXCEPT ![e] = k]
      /\ pending' = [pending EXCEPT ![e] = table]
      /\ call' = [c \in Calls |-> IF c = k THEN [call[c] EXCEPT !.pc = "clearing"]
                                  ELSE IF c \in Dropped(e, table) THEN [call[c] EXCEPT !.pc = "dropped"]
                                  ELSE call[c]]
      /\ UNCHANGED <<streamTx, txLock, stream, wire>>
  BY DEF CloseClears
<1>2. pending \in [Ends -> [Ids -> Dials \cup {NoCall}]]
  BY DEF TypeOK
<1>3. /\ pending' \in [Ends -> [Ids -> Dials \cup {NoCall}]]
      /\ \A f \in Ends, j \in Ids : pending'[f][j] = IF f = e THEN NoCall ELSE pending[f][j]
  BY <1>0, <1>1, <1>2
<1> HIDE DEF e, table
<1>4. /\ call' \in [Calls -> CallRecord]
      /\ Moved(k, "clearing")
      /\ \A b \in Calls \ {k} :
           \/ call'[b] = call[b] /\ b \notin Dropped(e, table)
           \/ Moved(b, "dropped") /\ b \in Dropped(e, table)
  BY <1>0, <1>1, DropEffect DEF States
<1>5. \A b \in Dropped(e, table) :
        /\ b \in Dials /\ call[b].pc = "waiting" /\ call[b].peer = NoCall /\ call[b].end = e
        /\ pending[e][call[b].id] = b
  BY DEF Dropped
<1> QED
  BY <1>1, <1>3, <1>4, <1>5 DEF e

\* What a delivery does, with and without a dial that still waits.
LEMMA DeliverEffect ==
  ASSUME TypeOK, Deliver
  PROVE  LET a == Head(wire)
             i == call[a].id
             d == pending["client"][i]
         IN  /\ wire # <<>> /\ a \in Accepts /\ wire' = Tail(wire) /\ i \in Ids
             /\ d \in Dials \cup {NoCall}
             /\ pendingLock["client"] = NoCall
             /\ pending' \in [Ends -> [Ids -> Dials \cup {NoCall}]]
             /\ \A f \in Ends, j \in Ids :
                  pending'[f][j] = IF f = "client" /\ j = i THEN NoCall ELSE pending[f][j]
             /\ \/ /\ d \in Dials /\ call[d].pc = "waiting"
                   /\ call' = [call EXCEPT ![d].peer = a, ![d].pc = "connecting"]
                \/ UNCHANGED call
             /\ UNCHANGED <<streamTx, txLock, pendingLock, stream>>
<1> DEFINE a == Head(wire)
           i == call[a].id
           d == pending["client"][i]
<1>1. wire # <<>> /\ a \in Accepts /\ wire' = Tail(wire)
  BY HeadTailProperties DEF Deliver, TypeOK
<1> HIDE DEF a
<1>2. i \in Ids
  BY <1>1, CallFields, KindsOfCalls
<1> HIDE DEF i
<1>3. pending \in [Ends -> [Ids -> Dials \cup {NoCall}]] /\ "client" \in Ends
  BY DEF TypeOK, Ends
<1>4. d \in Dials \cup {NoCall}
  BY <1>2, <1>3
<1>5. /\ pendingLock["client"] = NoCall
      /\ pending' = [pending EXCEPT !["client"][i] = NoCall]
      /\ \/ /\ d # NoCall /\ call[d].pc = "waiting"
            /\ call' = [call EXCEPT ![d].peer = a, ![d].pc = "connecting"]
         \/ UNCHANGED call
      /\ UNCHANGED <<streamTx, txLock, pendingLock, stream>>
  BY DEF Deliver, a, i
<1>6. /\ pending' \in [Ends -> [Ids -> Dials \cup {NoCall}]]
      /\ \A f \in Ends, j \in Ids :
           pending'[f][j] = IF f = "client" /\ j = i THEN NoCall ELSE pending[f][j]
  BY <1>2, <1>3, <1>5, EntryReplaced
<1> QED
  BY <1>1, <1>2, <1>4, <1>5, <1>6 DEF a, i

\* Every step keeps the variables in their types.
LEMMA TypeStep == TypeOK /\ [Next]_vars => TypeOK'
<1> SUFFICES ASSUME TypeOK, [Next]_vars PROVE TypeOK'
  OBVIOUS
<1> DEFINE CallsOK == call \in [Calls -> CallRecord]
<1>0. /\ streamTx \in [Ends -> BOOLEAN] /\ txLock \in [Ends -> Accepts \cup {NoCall}]
      /\ pending \in [Ends -> [Ids -> Dials \cup {NoCall}]]
      /\ pendingLock \in [Ends -> Closes \cup {NoCall}]
      /\ stream \in {"off", "spawned", "running", "broken"} /\ wire \in Seq(Accepts)
      /\ CallsOK
  BY DEF TypeOK, CallRecord, States
<1>1. SUFFICES
        /\ streamTx' \in [Ends -> BOOLEAN] /\ txLock' \in [Ends -> Accepts \cup {NoCall}]
        /\ pending' \in [Ends -> [Ids -> Dials \cup {NoCall}]]
        /\ pendingLock' \in [Ends -> Closes \cup {NoCall}]
        /\ stream' \in {"off", "spawned", "running", "broken"} /\ wire' \in Seq(Accepts)
        /\ CallsOK'
  BY DEF TypeOK, CallRecord, States
<1>2. CASE \E c \in Calls : Begin(c)
  <2>1. PICK c \in Calls : Begin(c)
    BY <1>2
  <2> QED
    BY <1>0, <2>1, BeginEffect DEF Begin
<1>3. CASE StartStream \/ StreamBreaks
  BY <1>0, <1>3, EmptySeq DEF StartStream, StreamBreaks
<1>4. CASE SetStreamTx
  BY <1>0, <1>4 DEF SetStreamTx, Ends
<1>5. CASE Deliver
  <2>1. wire' \in Seq(Accepts)
    BY <1>0, <1>5, HeadTailProperties DEF Deliver
  <2>2. CallsOK'
    BY <1>0, <1>5, DeliverEffect, HandEffect, ZenonT(60)
  <2> QED
    BY <1>0, <1>5, <2>1, <2>2, DeliverEffect
<1>6. CASE \E a \in Accepts : AcceptStep(a)
  <2>1. PICK a \in Accepts : AcceptStep(a)
    BY <1>6
  <2>2. a \in Calls /\ call[a].end \in Ends
    BY CallFields, KindsOfCalls
  <2>3. CallsOK'
    <3>1. Move({a}, "failed") \/ Move({a}, "waiting") \/ Move({a}, "ok")
      BY <2>1 DEF AcceptStep, AcceptSends, AcceptReturns, AcceptTimesOut
    <3> QED
      BY <2>2, <3>1, MoveEffect DEF States
  <2>4. txLock' \in [Ends -> Accepts \cup {NoCall}]
    BY <1>0, <2>1, <2>2 DEF AcceptStep, AcceptSends, AcceptReturns, AcceptTimesOut, ReleaseTx
  <2>5. wire' \in Seq(Accepts)
    <3>1. wire' = wire \/ wire' = Append(wire, a)
      BY <2>1 DEF AcceptStep, AcceptSends, AcceptReturns, AcceptTimesOut
    <3> QED
      BY <1>0, <3>1, AppendProperties
  <2> QED
    BY <1>0, <2>1, <2>3, <2>4, <2>5 DEF AcceptStep, AcceptSends, AcceptReturns, AcceptTimesOut
<1>7. CASE \E d \in Dials : DialStep(d)
  <2>1. PICK d \in Dials : DialStep(d)
    BY <1>7
  <2>2. CASE DialRegisters(d)
    BY <1>0, <2>2, RegisterEffect
  <2>3. CASE DialTimesOut(d) \/ DialFails(d) \/ DialConnects(d) \/ DialReturns(d)
    <3>1. Move({d}, "failed") \/ Move({d}, "connected") \/ Move({d}, "ok")
      BY <2>3 DEF DialTimesOut, DialFails, DialConnects, DialReturns
    <3>2. CallsOK'
      BY <3>1, KindsOfCalls, MoveEffect DEF States
    <3> QED
      BY <1>0, <2>3, <3>2 DEF DialTimesOut, DialFails, DialConnects, DialReturns
  <2> QED
    BY <2>1, <2>2, <2>3 DEF DialStep
<1>8. CASE \E k \in Closes : CloseStep(k)
  <2>1. PICK k \in Closes : CloseStep(k)
    BY <1>8
  <2>2. CASE CloseClears(k)
    BY <1>0, <2>2, ClearEffect, KindsOfCalls, CallFields, SMTT(30)
  <2>3. CASE CloseReturns(k)
    <3>1. CallsOK'
      BY <2>3, KindsOfCalls, MoveEffect DEF CloseReturns, States
    <3> QED
      BY <1>0, <2>3, <3>1, KindsOfCalls, CallFields DEF CloseReturns
  <2> QED
    BY <2>1, <2>2, <2>3 DEF CloseStep
<1>9. CASE UNCHANGED vars
  BY <1>0, <1>9 DEF vars
<1> QED
  BY <1>2, <1>3, <1>4, <1>5, <1>6, <1>7, <1>8, <1>9 DEF Next

\* Types of the gRPC broker.
THEOREM TypeCorrect == Spec => []TypeOK
<1>1. Init => TypeOK
  <2>1. (CHOOSE i \in Ids : TRUE) \in Ids
    BY GrpcBrokerAssumption
  <2> QED
    BY <2>1, EmptySeq DEF Init, TypeOK, Ends
<1> QED
  BY <1>1, TypeStep, PTL DEF Spec

----------------------------------------------------------------------------
(* The inductive invariants.                                               *)

\* The lock on stream_tx is held by the accept of that end that waits.
TxLocks ==
  /\ \A e \in Ends : txLock[e] # NoCall =>
       call[txLock[e]].pc = "waiting" /\ call[txLock[e]].end = e
  /\ \A a \in Accepts : call[a].pc = "waiting" => txLock[call[a].end] = a

\* The lock on the table is held by the close of that end that clears, and the
\* table is empty for as long.
PendingLocks ==
  /\ \A e \in Ends : pendingLock[e] # NoCall =>
       /\ call[pendingLock[e]].pc = "clearing" /\ call[pendingLock[e]].end = e
       /\ \A i \in Ids : pending[e][i] = NoCall
  /\ \A k \in Closes : call[k].pc = "clearing" => pendingLock[call[k].end] = k

\* The end that sets the stream up never holds its sender.
Senders == ~streamTx["client"]

Locking == TxLocks /\ PendingLocks /\ Senders

\* An entry is a dial of its end and service that still has no address, also
\* when it has given up.
Entries ==
  \A e \in Ends, i \in Ids :
    pending[e][i] # NoCall =>
      /\ call[pending[e][i]].end = e
      /\ call[pending[e][i]].id = i
      /\ call[pending[e][i]].pc \in {"waiting", "failed"}
      /\ call[pending[e][i]].peer = NoCall

\* An address on the way was sent once, by an accept of the plugin, and nobody
\* has it.
OnTheWay ==
  \A n \in 1..Len(wire) :
    /\ call[wire[n]].end = "plugin"
    /\ call[wire[n]].pc \notin {"idle", "queued"}
    /\ \A d \in Dials : call[d].peer # wire[n]
    /\ \A m \in 1..Len(wire) : wire[m] = wire[n] => m = n

\* The address a dial has is of an accept at the other end for the same
\* service, and no other dial has it.
Addressed ==
  \A d \in Dials :
    /\ call[d].pc \in {"connecting", "connected", "ok"} => call[d].peer # NoCall
    /\ call[d].peer # NoCall =>
         /\ call[d].pc \in {"connecting", "connected", "ok", "failed"}
         /\ call[d].end = "client" /\ call[call[d].peer].end = "plugin"
         /\ call[d].id = call[call[d].peer].id
         /\ call[call[d].peer].pc \notin {"idle", "queued"}
         /\ \A f \in Dials : call[f].peer = call[d].peer => f = d

Addressing == Entries /\ OnTheWay /\ Addressed

\* The calls that hold a lock or wait for one stay as they are, and so does the
\* lock.
LEMMA TxLocksKept ==
  ASSUME TypeOK, TxLocks, UNCHANGED txLock,
         \A a \in Accepts : call'[a].end = call[a].end \/ call[a].pc \in {"idle", "queued"},
         \A a \in Accepts : call'[a].pc = "waiting" <=> call[a].pc = "waiting"
  PROVE  TxLocks'
<1>1. \A e \in Ends : txLock[e] \in Accepts \cup {NoCall}
  BY DEF TypeOK
<1> QED
  BY <1>1 DEF TxLocks

LEMMA PendingLocksKept ==
  ASSUME TypeOK, PendingLocks, UNCHANGED pendingLock,
         \A k \in Closes : call'[k].end = call[k].end \/ call[k].pc \in {"idle", "queued"},
         \A k \in Closes : call'[k].pc = "clearing" <=> call[k].pc = "clearing",
         \A e \in Ends, i \in Ids : pendingLock[e] # NoCall /\ pending[e][i] = NoCall =>
                                      pending'[e][i] = NoCall
  PROVE  PendingLocks'
<1>1. \A e \in Ends : pendingLock[e] \in Closes \cup {NoCall}
  BY DEF TypeOK
<1> QED
  BY <1>1 DEF PendingLocks

\* Every step keeps the locks where they belong.
LEMMA LockingStep == TypeOK /\ Locking /\ [Next]_vars => Locking'
<1> SUFFICES ASSUME TypeOK, TxLocks, PendingLocks, Senders, [Next]_vars
             PROVE  TxLocks' /\ PendingLocks' /\ Senders'
  BY DEF Locking
<1> USE KindsOfCalls
<1>1. CASE \E c \in Calls : Begin(c)
  <2>1. PICK c \in Calls : Begin(c)
    BY <1>1
  <2>2. /\ call[c].pc = "idle" /\ call'[c].pc = "queued"
        /\ \A b \in Calls \ {c} : call'[b] = call[b]
        /\ UNCHANGED <<streamTx, txLock, pending, pendingLock>>
    BY <2>1, BeginEffect DEF Begin
  <2> QED
    BY <2>2, TxLocksKept, PendingLocksKept DEF Senders
<1>2. CASE StartStream \/ SetStreamTx \/ StreamBreaks
  <2>1. UNCHANGED <<call, txLock, pending, pendingLock>>
    BY <1>2 DEF StartStream, SetStreamTx, StreamBreaks
  <2>2. Senders'
    BY <1>2 DEF StartStream, SetStreamTx, StreamBreaks, Senders, TypeOK, Ends
  <2> QED
    BY <2>1, <2>2, TxLocksKept, PendingLocksKept
<1>3. CASE Deliver
  <2> DEFINE d == pending["client"][call[Head(wire)].id]
  <2>1. /\ UNCHANGED <<streamTx, txLock, pendingLock>>
        /\ \A f \in Ends, j \in Ids : pending[f][j] = NoCall => pending'[f][j] = NoCall
        /\ \/ /\ d \in Dials /\ call[d].pc = "waiting"
              /\ call' = [call EXCEPT ![d].peer = Head(wire), ![d].pc = "connecting"]
           \/ UNCHANGED call
        /\ Head(wire) \in Accepts
    BY <1>3, DeliverEffect
  <2> HIDE DEF d
  <2>2. \A b \in Accepts \cup Closes : call'[b] = call[b]
    BY <2>1, HandEffect
  <2> QED
    BY <2>1, <2>2, TxLocksKept, PendingLocksKept DEF Senders
<1>4. CASE \E a \in Accepts : AcceptStep(a)
  <2>1. PICK a \in Accepts : AcceptStep(a)
    BY <1>4
  <2>2. PICK p \in {"failed", "waiting", "ok"} : Move({a}, p)
    BY <2>1 DEF AcceptStep, AcceptSends, AcceptReturns, AcceptTimesOut
  <2>3. Moved(a, p) /\ \A b \in Calls \ {a} : call'[b] = call[b]
    BY <2>2, MoveEffect DEF States
  <2>4. UNCHANGED <<streamTx, pending, pendingLock>>
    BY <2>1 DEF AcceptStep, AcceptSends, AcceptReturns, AcceptTimesOut
  <2>5. PendingLocks' /\ Senders'
    BY <2>3, <2>4, PendingLocksKept DEF Senders
  <2>6. call[a].end \in Ends /\ txLock \in [Ends -> Accepts \cup {NoCall}]
    BY CallFields DEF TypeOK
  <2>7. TxLocks'
    <3>1. CASE AcceptSends(a)
      <4>1. CASE UNCHANGED txLock /\ Move({a}, "failed")
        <5>1. Moved(a, "failed") /\ call[a].pc = "queued"
          BY <3>1, <4>1, MoveEffect DEF AcceptSends, States
        <5> QED
          BY <2>3, <4>1, <5>1, TxLocksKept DEF Moved
      <4>2. CASE txLock' = [txLock EXCEPT ![call[a].end] = a] /\ Move({a}, "waiting")
        <5>1. Moved(a, "waiting") /\ call[a].pc = "queued" /\ txLock[call[a].end] = NoCall
          BY <3>1, <4>2, MoveEffect DEF AcceptSends, States
        <5>2. \A e \in Ends : txLock'[e] = IF e = call[a].end THEN a ELSE txLock[e]
          BY <2>6, <4>2
        <5>3. \A b \in Accepts \ {a} : call[b].pc = "waiting" => call[b].end # call[a].end
          BY <5>1 DEF TxLocks
        <5>4. \A b \in Accepts : call[b].end \in Ends
          BY CallFields
        <5> QED
          BY <2>3, <2>6, <5>1, <5>2, <5>3, <5>4 DEF TxLocks, Moved
      <4> QED
        BY <3>1, <4>1, <4>2 DEF AcceptSends
    <3>2. CASE AcceptReturns(a) \/ AcceptTimesOut(a)
      <4>1. /\ call[a].pc = "waiting" /\ call'[a].pc # "waiting"
            /\ txLock' = [txLock EXCEPT ![call[a].end] = NoCall]
        <5>1. call[a].pc = "waiting" /\ txLock' = [txLock EXCEPT ![call[a].end] = NoCall]
          BY <3>2 DEF AcceptReturns, AcceptTimesOut, ReleaseTx
        <5>2. Move({a}, "ok") \/ Move({a}, "failed")
          BY <3>2 DEF AcceptReturns, AcceptTimesOut
        <5>3. call'[a].pc \in {"ok", "failed"}
          BY <5>2, MoveEffect DEF States, Moved
        <5> QED
          BY <5>1, <5>3
      <4>2. \A e \in Ends : txLock'[e] = IF e = call[a].end THEN NoCall ELSE txLock[e]
        BY <2>6, <4>1
      <4>3. txLock[call[a].end] = a
        BY <4>1 DEF TxLocks
      <4>4. \A b \in Accepts : call[b].end \in Ends
        BY CallFields
      <4> QED
        BY <2>3, <2>6, <4>1, <4>2, <4>3, <4>4 DEF TxLocks
    <3> QED
      BY <2>1, <3>1, <3>2 DEF AcceptStep
  <2> QED
    BY <2>5, <2>7
<1>5. CASE \E d \in Dials : DialStep(d)
  <2>1. PICK d \in Dials : DialStep(d)
    BY <1>5
  <2>2. CASE DialRegisters(d)
    <3>1. /\ \A b \in Accepts \cup Closes : call'[b] = call[b]
          /\ UNCHANGED <<streamTx, txLock, pendingLock>>
      BY <2>2, RegisterEffect
    <3>2. \A e \in Ends, i \in Ids : pendingLock[e] # NoCall => pending'[e][i] = pending[e][i]
      BY <2>2, RegisterEffect
    <3> QED
      BY <3>1, <3>2, TxLocksKept, PendingLocksKept DEF Senders
  <2>3. CASE DialTimesOut(d) \/ DialFails(d) \/ DialConnects(d) \/ DialReturns(d)
    <3>1. PICK p \in {"failed", "connected", "ok"} : Move({d}, p)
      BY <2>3 DEF DialTimesOut, DialFails, DialConnects, DialReturns
    <3>2. /\ \A b \in Accepts \cup Closes : call'[b] = call[b]
          /\ UNCHANGED <<streamTx, txLock, pending, pendingLock>>
      BY <2>3, <3>1, MoveEffect DEF DialTimesOut, DialFails, DialConnects, DialReturns, States
    <3> QED
      BY <3>2, TxLocksKept, PendingLocksKept DEF Senders
  <2> QED
    BY <2>1, <2>2, <2>3 DEF DialStep
<1>6. CASE \E k \in Closes : CloseStep(k)
  <2>1. PICK k \in Closes : CloseStep(k)
    BY <1>6
  <2>2. call[k].end \in Ends /\ pendingLock \in [Ends -> Closes \cup {NoCall}]
        /\ \A j \in Closes : call[j].end \in Ends
    BY CallFields DEF TypeOK
  <2>3. CASE CloseClears(k)
    <3>1. /\ call[k].pc = "queued" /\ Moved(k, "clearing") /\ pendingLock[call[k].end] = NoCall
          /\ \A b \in (Accepts \cup Closes) \ {k} : call'[b] = call[b]
          /\ \A f \in Ends, j \in Ids :
               pending'[f][j] = IF f = call[k].end THEN NoCall ELSE pending[f][j]
          /\ \A e \in Ends : pendingLock'[e] = IF e = call[k].end THEN k ELSE pendingLock[e]
          /\ UNCHANGED <<streamTx, txLock>>
      BY <2>2, <2>3, ClearEffect
    <3>2. TxLocks' /\ Senders'
      BY <3>1, TxLocksKept DEF Senders
    <3>3. PendingLocks'
      BY <2>2, <3>1 DEF PendingLocks, Moved
    <3> QED
      BY <3>2, <3>3
  <2>4. CASE CloseReturns(k)
    <3>1. /\ call[k].pc = "clearing" /\ Moved(k, "ok")
          /\ \A b \in Calls \ {k} : call'[b] = call[b]
          /\ UNCHANGED <<txLock, pending>>
      BY <2>4, MoveEffect DEF CloseReturns, States
    <3>2. \A e \in Ends : pendingLock'[e] = IF e = call[k].end THEN NoCall ELSE pendingLock[e]
      BY <2>2, <2>4 DEF CloseReturns
    <3>3. pendingLock[call[k].end] = k
      BY <3>1 DEF PendingLocks
    <3>4. PendingLocks'
      BY <2>2, <3>1, <3>2, <3>3 DEF PendingLocks, Moved
    <3>5. Senders'
      BY <2>4 DEF CloseReturns, Senders, TypeOK, Ends
    <3>6. TxLocks'
      BY <3>1, TxLocksKept
    <3> QED
      BY <3>4, <3>5, <3>6
  <2> QED
    BY <2>1, <2>3, <2>4 DEF CloseStep
<1>7. CASE UNCHANGED vars
  BY <1>7, TxLocksKept, PendingLocksKept DEF vars, Senders
<1> QED
  BY <1>1, <1>2, <1>3, <1>4, <1>5, <1>6, <1>7 DEF Next

\* A call that was made is the same call, and keeps the address it has.
CallsKept ==
  \A b \in Calls :
    /\ call'[b].peer = call[b].peer
    /\ call[b].pc # "idle" => call'[b].end = call[b].end /\ call'[b].id = call[b].id
    /\ call[b].pc \notin {"idle", "queued"} => call'[b].pc \notin {"idle", "queued"}

LEMMA EntriesKept ==
  ASSUME TypeOK, Entries, CallsKept,
         \A e \in Ends, i \in Ids : pending'[e][i] # NoCall =>
           pending'[e][i] = pending[e][i] /\ call'[pending[e][i]].pc \in {"waiting", "failed"}
  PROVE  Entries'
<1>1. \A e \in Ends, i \in Ids : pending[e][i] \in Calls \cup {NoCall}
  BY KindsOfCalls DEF TypeOK
<1> QED
  BY <1>1 DEF Entries, CallsKept

LEMMA OnTheWayKept ==
  ASSUME TypeOK, OnTheWay, CallsKept, UNCHANGED wire
  PROVE  OnTheWay'
<1>1. \A n \in 1..Len(wire) : wire[n] \in Calls
  BY ElementOfSeq, KindsOfCalls DEF TypeOK
<1> QED
  BY <1>1, KindsOfCalls DEF OnTheWay, CallsKept

LEMMA AddressedKept ==
  ASSUME TypeOK, Addressed, CallsKept,
         \A d \in Dials : call'[d].pc \in {"connecting", "connected", "ok"} =>
                            call[d].pc \in {"connecting", "connected", "ok"},
         \A d \in Dials : call[d].pc \in {"connecting", "connected", "ok", "failed"} =>
                            call'[d].pc \in {"connecting", "connected", "ok", "failed"}
  PROVE  Addressed'
<1>1. \A d \in Dials : call[d].peer \in Calls \cup {NoCall}
  BY KindsOfCalls, CallFields
<1>2. \A d \in Dials : call[d].peer # NoCall => call[d].pc # "idle"
  BY DEF Addressed
<1> QED
  BY <1>1, <1>2, KindsOfCalls DEF Addressed, CallsKept

\* Every step keeps the entries and the addresses where they belong.
LEMMA AddressingStep == TypeOK /\ Locking /\ Addressing /\ [Next]_vars => Addressing'
<1> SUFFICES ASSUME TypeOK, Locking, Entries, OnTheWay, Addressed, [Next]_vars
             PROVE  Entries' /\ OnTheWay' /\ Addressed'
  BY DEF Addressing
<1> USE KindsOfCalls
<1>0. /\ \A e \in Ends, i \in Ids : pending[e][i] \in Dials \cup {NoCall}
      /\ \A n \in 1..Len(wire) : wire[n] \in Accepts
  BY ElementOfSeq DEF TypeOK
<1>1. CASE \E c \in Calls : Begin(c)
  <2>1. PICK c \in Calls : Begin(c)
    BY <1>1
  <2>2. /\ call[c].pc = "idle" /\ call'[c].pc = "queued" /\ call'[c].peer = call[c].peer
        /\ \A b \in Calls \ {c} : call'[b] = call[b]
        /\ UNCHANGED <<pending, wire>>
    BY <2>1, BeginEffect DEF Begin
  <2>3. CallsKept
    BY <2>2 DEF CallsKept
  <2>4. \A e \in Ends, i \in Ids : pending[e][i] # NoCall =>
          pending[e][i] # c /\ call[pending[e][i]].pc \in {"waiting", "failed"}
    BY <2>2 DEF Entries
  <2>5. Entries'
    BY <1>0, <2>2, <2>3, <2>4, EntriesKept
  <2> QED
    BY <2>2, <2>3, <2>5, OnTheWayKept, AddressedKept
<1>2. CASE StartStream \/ SetStreamTx \/ StreamBreaks
  <2>1. UNCHANGED <<call, pending>> /\ (wire' = wire \/ wire' = <<>>)
    BY <1>2 DEF StartStream, SetStreamTx, StreamBreaks
  <2>2. CallsKept
    BY <2>1 DEF CallsKept
  <2>3. Entries'
    BY <2>1 DEF Entries
  <2>4. Addressed'
    BY <2>1 DEF Addressed
  <2>5. OnTheWay'
    <3>1. CASE wire' = wire
      BY <2>2, <3>1, OnTheWayKept
    <3>2. CASE wire' = <<>>
      BY <3>2 DEF OnTheWay
    <3> QED
      BY <2>1, <3>1, <3>2
  <2> QED
    BY <2>3, <2>4, <2>5
<1>3. CASE Deliver
  <2> DEFINE a == Head(wire)
             i == call[a].id
             d == pending["client"][i]
  <2>1. /\ wire # <<>> /\ a \in Accepts /\ wire' = Tail(wire) /\ i \in Ids
        /\ d \in Dials \cup {NoCall}
        /\ \A f \in Ends, j \in Ids :
             pending'[f][j] = IF f = "client" /\ j = i THEN NoCall ELSE pending[f][j]
        /\ \/ /\ d \in Dials /\ call[d].pc = "waiting"
              /\ call' = [call EXCEPT ![d].peer = a, ![d].pc = "connecting"]
           \/ UNCHANGED call
    BY <1>3, DeliverEffect
  <2>2. /\ a = wire[1] /\ Len(wire) \in Nat /\ Len(wire') = Len(wire) - 1 /\ 1 \in 1..Len(wire)
        /\ \A n \in 1..Len(wire') : wire'[n] = wire[n + 1] /\ n + 1 \in 1..Len(wire) /\ n + 1 # 1
    <3>1. wire \in Seq(Accepts)
      BY DEF TypeOK
    <3>2. /\ Len(wire') = Len(wire) - 1 /\ \A n \in 1..Len(wire') : wire'[n] = wire[n + 1]
      <4>1. wire # <<>> /\ wire' = Tail(wire)
        BY <2>1
      <4> QED
        BY <3>1, <4>1, HeadTailProperties
    <3>3. a = wire[1] /\ Len(wire) \in Nat /\ Len(wire) # 0
      <4>1. wire # <<>>
        BY <2>1
      <4> QED
        BY <3>1, <4>1
    <3> QED
      BY <3>2, <3>3
  <2>3. /\ call[a].end = "plugin" /\ call[a].pc \notin {"idle", "queued"}
        /\ \A f \in Dials : call[f].peer # a
        /\ \A n \in 1..Len(wire') : wire'[n] # a
    BY <2>2 DEF OnTheWay
  <2>4. d # NoCall => call[d].end = "client" /\ call[d].id = i /\ call[d].peer = NoCall
    BY <2>1 DEF Entries, Ends
  <2>5. \A f \in Ends, j \in Ids : d # NoCall => pending'[f][j] # d
    <3> HIDE DEF a, i
    <3> SUFFICES ASSUME NEW f \in Ends, NEW j \in Ids, d # NoCall, pending'[f][j] = d PROVE FALSE
      OBVIOUS
    <3>1. pending[f][j] = d /\ ~(f = "client" /\ j = i)
      BY <2>1
    <3> HIDE DEF d
    <3>2. call[d].end = f /\ call[d].id = j
      BY <3>1 DEF Entries
    <3> QED
      BY <2>4, <3>1, <3>2
  <2> HIDE DEF a, i, d
  <2>6. CASE UNCHANGED call
    <3>1. CallsKept
      BY <2>6 DEF CallsKept
    <3>2. Entries'
      BY <1>0, <2>1, <2>6 DEF Entries
    <3>3. OnTheWay'
      BY <2>2, <2>6 DEF OnTheWay
    <3>4. Addressed'
      BY <2>6 DEF Addressed
    <3> QED
      BY <3>2, <3>3, <3>4
  <2>7. CASE d \in Dials /\ call' = [call EXCEPT ![d].peer = a, ![d].pc = "connecting"]
    <3>1. /\ call'[d].pc = "connecting" /\ call'[d].peer = a
          /\ call'[d].end = call[d].end /\ call'[d].id = call[d].id
          /\ \A b \in Calls \ {d} : call'[b] = call[b]
      BY <2>1, <2>7, HandEffect
    <3>2. Entries'
      <4> SUFFICES ASSUME NEW f \in Ends, NEW j \in Ids, pending'[f][j] # NoCall
                   PROVE  /\ call'[pending'[f][j]].end = f
                          /\ call'[pending'[f][j]].id = j
                          /\ call'[pending'[f][j]].pc \in {"waiting", "failed"}
                          /\ call'[pending'[f][j]].peer = NoCall
        BY DEF Entries
      <4>1. pending'[f][j] = pending[f][j]
        BY <2>1
      <4>2. PICK q \in Dials : pending[f][j] = q /\ pending'[f][j] = q
        BY <1>0, <4>1
      <4>3. q # d
        BY <2>5, <2>7, <4>2
      <4>4. call'[q] = call[q]
        BY <3>1, <4>3
      <4> QED
        BY <4>2, <4>4 DEF Entries
    <3>3. OnTheWay'
      <4> SUFFICES ASSUME NEW n \in 1..Len(wire')
                   PROVE  /\ call'[wire'[n]].end = "plugin"
                          /\ call'[wire'[n]].pc \notin {"idle", "queued"}
                          /\ \A f \in Dials : call'[f].peer # wire'[n]
                          /\ \A m \in 1..Len(wire') : wire'[m] = wire'[n] => m = n
        BY DEF OnTheWay
      <4>1. PICK b \in Accepts : wire'[n] = b /\ wire[n + 1] = b /\ b # a
        BY <1>0, <2>2, <2>3
      <4>2. call'[b] = call[b] /\ n + 1 \in 1..Len(wire)
        BY <2>2, <2>7, <3>1
      <4>3. /\ call[b].end = "plugin" /\ call[b].pc \notin {"idle", "queued"}
            /\ \A f \in Dials : call[f].peer # b
        BY <4>1, <4>2 DEF OnTheWay
      <4>4. \A f \in Dials : call'[f].peer # b
        BY <3>1, <4>1, <4>3
      <4>5. \A m \in 1..Len(wire') : wire'[m] = wire'[n] => m = n
        BY <2>2 DEF OnTheWay
      <4> QED
        BY <4>1, <4>2, <4>3, <4>4, <4>5
    <3>4. \A f \in Dials : call[f].peer \in Calls \cup {NoCall} /\ call[f].peer # d
      BY CallFields, <2>7
    <3>5. call'[a] = call[a]
      BY <2>1, <2>7, <3>1
    <3>6. Addressed'
      <4> SUFFICES ASSUME NEW g \in Dials
                   PROVE  /\ call'[g].pc \in {"connecting", "connected", "ok"} => call'[g].peer # NoCall
                          /\ call'[g].peer # NoCall =>
                               /\ call'[g].pc \in {"connecting", "connected", "ok", "failed"}
                               /\ call'[g].end = "client" /\ call'[call'[g].peer].end = "plugin"
                               /\ call'[g].id = call'[call'[g].peer].id
                               /\ call'[call'[g].peer].pc \notin {"idle", "queued"}
                               /\ \A f \in Dials : call'[f].peer = call'[g].peer => f = g
        BY DEF Addressed
      <4>1. CASE g = d
        <5>1. call'[g].peer = a /\ call'[g].pc = "connecting" /\ a # NoCall
          BY <2>1, <3>1, <4>1
        <5>2. call'[g].end = "client" /\ call'[g].id = call'[a].id
          <6>1. call[d].end = "client" /\ call[d].id = call[a].id
            BY <2>4, <2>7 DEF i
          <6> QED
            BY <3>1, <3>5, <4>1, <6>1
        <5>3. call'[a].end = "plugin" /\ call'[a].pc \notin {"idle", "queued"}
          BY <2>3, <3>5
        <5>4. \A f \in Dials : call'[f].peer = a => f = d
          BY <2>3, <3>1
        <5> QED
          BY <4>1, <5>1, <5>2, <5>3, <5>4
      <4>2. CASE g # d
        <5>1. call'[g] = call[g]
          BY <3>1, <4>2
        <5>2. CASE call[g].peer = NoCall
          BY <5>1, <5>2 DEF Addressed
        <5>3. CASE call[g].peer # NoCall
          <6>1. PICK b \in Accepts : call[g].peer = b
            BY <5>3, CallFields
          <6>2. call'[b] = call[b] /\ b # a
            BY <2>3, <2>7, <3>1, <6>1
          <6>3. \A f \in Dials : call'[f].peer = b => f = g
            BY <3>1, <6>1, <6>2, <5>3 DEF Addressed
          <6> QED
            BY <5>1, <5>3, <6>1, <6>2, <6>3 DEF Addressed
        <5> QED
          BY <5>2, <5>3
      <4> QED
        BY <4>1, <4>2
    <3> QED
      BY <3>2, <3>3, <3>6
  <2> QED
    BY <2>1, <2>6, <2>7
<1>4. CASE \E a \in Accepts : AcceptStep(a)
  <2>1. PICK a \in Accepts : AcceptStep(a)
    BY <1>4
  <2>2. PICK p \in {"failed", "waiting", "ok"} : Move({a}, p)
    BY <2>1 DEF AcceptStep, AcceptSends, AcceptReturns, AcceptTimesOut
  <2>3. Moved(a, p) /\ \A b \in Calls \ {a} : call'[b] = call[b]
    BY <2>2, MoveEffect DEF States
  <2>4. UNCHANGED pending
    BY <2>1 DEF AcceptStep, AcceptSends, AcceptReturns, AcceptTimesOut
  <2>5. CallsKept
    BY <2>3 DEF CallsKept, Moved
  <2>6. \A e \in Ends, j \in Ids : pending[e][j] # NoCall =>
          pending[e][j] # a /\ call[pending[e][j]].pc \in {"waiting", "failed"}
    BY <1>0 DEF Entries
  <2>7. Entries'
    BY <1>0, <2>3, <2>4, <2>5, <2>6, EntriesKept
  <2>8. Addressed'
    BY <2>3, <2>5, AddressedKept
  <2>9. OnTheWay'
    <3>1. CASE wire' = wire
      BY <2>5, <3>1, OnTheWayKept
    <3>2. CASE wire' # wire
      <4>1. /\ wire' = Append(wire, a) /\ call[a].pc = "queued"
            /\ streamTx[call[a].end] /\ Move({a}, "waiting")
        BY <2>1, <3>2 DEF AcceptStep, AcceptSends, AcceptReturns, AcceptTimesOut
      <4>2. call[a].end = "plugin"
        BY <4>1, CallFields DEF Locking, Senders, Ends
      <4>3. call'[a].pc = "waiting" /\ call'[a].end = "plugin"
        BY <4>1, <4>2, MoveEffect DEF States, Moved
      <4>4. \A f \in Dials : call[f].peer # a
        BY <4>1 DEF Addressed
      <4>5. \A n \in 1..Len(wire) : wire[n] # a
        BY <4>1 DEF OnTheWay
      <4>6. /\ Len(wire') = Len(wire) + 1 /\ Len(wire) \in Nat /\ wire'[Len(wire) + 1] = a
            /\ \A n \in 1..Len(wire) : wire'[n] = wire[n]
        <5>1. wire \in Seq(Accepts)
          BY DEF TypeOK
        <5> QED
          BY <4>1, <5>1, AppendProperties
      <4>7. \A n \in 1..Len(wire') : n = Len(wire) + 1 \/ n \in 1..Len(wire)
        BY <4>6
      <4>8. \A f \in Dials : call'[f].peer = call[f].peer
        BY <2>3
      <4>9. \A n \in 1..Len(wire) : call'[wire[n]] = call[wire[n]]
        BY <1>0, <2>3, <4>5
      <4> QED
        BY <4>3, <4>4, <4>5, <4>6, <4>7, <4>8, <4>9 DEF OnTheWay
    <3> QED
      BY <3>1, <3>2
  <2> QED
    BY <2>7, <2>8, <2>9
<1>5. CASE \E d \in Dials : DialStep(d)
  <2>1. PICK d \in Dials : DialStep(d)
    BY <1>5
  <2>2. CASE DialRegisters(d)
    <3>1. /\ call[d].pc = "queued" /\ Moved(d, "waiting")
          /\ \A f \in Ends, j \in Ids :
               pending'[f][j] = IF f = call[d].end /\ j = call[d].id THEN d ELSE pending[f][j]
          /\ \A b \in Calls \ {d} :
              \/ call'[b] = call[b]
              \/ /\ Moved(b, "dropped") /\ b \in Dials /\ call[b].pc = "waiting"
                 /\ call[b].peer = NoCall /\ call[b].end = call[d].end /\ call[b].id = call[d].id
                 /\ pending[call[b].end][call[b].id] = b
          /\ UNCHANGED wire
      BY <2>2, RegisterEffect
    <3>2. CallsKept
      BY <3>1 DEF CallsKept, Moved
    <3>3. OnTheWay'
      BY <3>1, <3>2, OnTheWayKept
    <3>4. Addressed'
      <4>1. call[d].peer = NoCall
        BY <3>1 DEF Addressed
      <4>2. \A f \in Dials : call'[f].pc \in {"connecting", "connected", "ok"} =>
                               call[f].pc \in {"connecting", "connected", "ok"}
        BY <3>1 DEF Moved
      <4>3. \A f \in Dials : call[f].pc \in {"connecting", "connected", "ok", "failed"} =>
                               call'[f].pc \in {"connecting", "connected", "ok", "failed"}
        BY <3>1 DEF Moved
      <4> QED
        BY <3>2, <4>2, <4>3, AddressedKept
    <3>5. Entries'
      <4> SUFFICES ASSUME NEW f \in Ends, NEW j \in Ids, pending'[f][j] # NoCall
                   PROVE  /\ call'[pending'[f][j]].end = f
                          /\ call'[pending'[f][j]].id = j
                          /\ call'[pending'[f][j]].pc \in {"waiting", "failed"}
                          /\ call'[pending'[f][j]].peer = NoCall
        BY DEF Entries
      <4>1. CASE f = call[d].end /\ j = call[d].id
        <5>1. pending'[f][j] = d /\ call[d].peer = NoCall
          BY <3>1, <4>1 DEF Addressed
        <5> QED
          BY <3>1, <4>1, <5>1 DEF Moved
      <4>2. CASE ~(f = call[d].end /\ j = call[d].id)
        <5>1. PICK q \in Dials : pending[f][j] = q /\ pending'[f][j] = q
          BY <1>0, <3>1, <4>2
        <5>2. /\ call[q].end = f /\ call[q].id = j
              /\ call[q].pc \in {"waiting", "failed"} /\ call[q].peer = NoCall
          BY <5>1 DEF Entries
        <5>3. q # d /\ call'[q] = call[q]
          BY <3>1, <4>2, <5>2
        <5> QED
          BY <5>1, <5>2, <5>3
      <4> QED
        BY <4>1, <4>2
    <3> QED
      BY <3>3, <3>4, <3>5
  <2>3. CASE DialTimesOut(d) \/ DialFails(d) \/ DialConnects(d) \/ DialReturns(d)
    <3>1. PICK p \in {"failed", "connected", "ok"} :
            /\ Move({d}, p)
            /\ call[d].pc \in {"waiting", "dropped", "connecting", "connected"}
            /\ p \in {"connected", "ok"} => call[d].pc \in {"connecting", "connected"}
      BY <2>3 DEF DialTimesOut, DialFails, DialConnects, DialReturns
    <3>2. Moved(d, p) /\ \A b \in Calls \ {d} : call'[b] = call[b]
      BY <3>1, MoveEffect DEF States
    <3>3. CallsKept
      BY <3>1, <3>2 DEF CallsKept, Moved
    <3>4. UNCHANGED <<pending, wire>>
      BY <2>3 DEF DialTimesOut, DialFails, DialConnects, DialReturns
    <3>5. Entries'
      <4>1. \A e \in Ends, j \in Ids : pending[e][j] # NoCall =>
              call'[pending[e][j]].pc \in {"waiting", "failed"}
        BY <1>0, <3>1, <3>2 DEF Entries, Moved
      <4> QED
        BY <3>3, <3>4, <4>1, EntriesKept
    <3>6. Addressed'
      BY <3>1, <3>2, <3>3, AddressedKept DEF Moved
    <3> QED
      BY <3>3, <3>4, <3>5, <3>6, OnTheWayKept
  <2> QED
    BY <2>1, <2>2, <2>3 DEF DialStep
<1>6. CASE \E k \in Closes : CloseStep(k)
  <2>1. PICK k \in Closes : CloseStep(k)
    BY <1>6
  <2>2. CASE CloseClears(k)
    <3>1. /\ call[k].pc = "queued" /\ Moved(k, "clearing")
          /\ \A f \in Ends, j \in Ids :
               pending'[f][j] = IF f = call[k].end THEN NoCall ELSE pending[f][j]
          /\ \A b \in Calls \ {k} :
              \/ call'[b] = call[b]
              \/ /\ Moved(b, "dropped") /\ b \in Dials /\ call[b].pc = "waiting"
                 /\ call[b].peer = NoCall /\ call[b].end = call[k].end
                 /\ pending[call[b].end][call[b].id] = b
          /\ UNCHANGED wire
      BY <2>2, ClearEffect
    <3>2. CallsKept
      BY <3>1 DEF CallsKept, Moved
    <3>3. Entries'
      <4>1. \A f \in Ends, j \in Ids : pending'[f][j] # NoCall =>
              /\ pending'[f][j] = pending[f][j]
              /\ call'[pending[f][j]].pc \in {"waiting", "failed"}
        <5> SUFFICES ASSUME NEW f \in Ends, NEW j \in Ids, pending'[f][j] # NoCall
                     PROVE  /\ pending'[f][j] = pending[f][j]
                            /\ call'[pending[f][j]].pc \in {"waiting", "failed"}
          OBVIOUS
        <5>1. PICK q \in Dials : pending[f][j] = q /\ pending'[f][j] = q /\ f # call[k].end
          BY <1>0, <3>1
        <5>2. call[q].end = f /\ call[q].pc \in {"waiting", "failed"}
          BY <5>1 DEF Entries
        <5>3. call'[q] = call[q]
          BY <3>1, <5>1, <5>2
        <5> QED
          BY <5>1, <5>2, <5>3
      <4> QED
        BY <3>2, <4>1, EntriesKept
    <3>4. Addressed'
      BY <3>1, <3>2, AddressedKept DEF Moved
    <3> QED
      BY <3>1, <3>2, <3>3, <3>4, OnTheWayKept
  <2>3. CASE CloseReturns(k)
    <3>1. /\ Moved(k, "ok") /\ \A b \in Calls \ {k} : call'[b] = call[b]
          /\ UNCHANGED <<pending, wire>>
      BY <2>3, MoveEffect DEF CloseReturns, States
    <3>2. CallsKept
      BY <3>1 DEF CallsKept, Moved
    <3>3. Entries'
      <4>1. \A e \in Ends, j \in Ids : pending[e][j] # NoCall =>
              call'[pending[e][j]].pc \in {"waiting", "failed"}
        BY <1>0, <3>1 DEF Entries
      <4> QED
        BY <3>1, <3>2, <4>1, EntriesKept
    <3> QED
      BY <3>1, <3>2, <3>3, OnTheWayKept, AddressedKept
  <2> QED
    BY <2>1, <2>2, <2>3 DEF CloseStep
<1>7. CASE UNCHANGED vars
  BY <1>7 DEF vars, Entries, OnTheWay, Addressed
<1> QED
  BY <1>1, <1>2, <1>3, <1>4, <1>5, <1>6, <1>7 DEF Next

LEMMA InvariantHolds == Spec => [](TypeOK /\ Locking /\ Addressing)
<1>1. Init => Locking /\ Addressing
  BY KindsOfCalls DEF Init, Locking, TxLocks, PendingLocks, Senders, Addressing, Entries,
                      OnTheWay, Addressed, Ends
<1> QED
  BY <1>1, TypeCorrect, LockingStep, AddressingStep, PTL DEF Spec

----------------------------------------------------------------------------
(* What a close leaves behind and when a dial loses its place.             *)

\* When a close returns, its end has no entries and no sender, although it
\* waited for the lock on the sender in between (GRPCBroker::close).
THEOREM CloseIsComplete == Spec => CloseLeavesNothing
<1>1. TypeOK /\ Locking /\ [Next]_vars => [ClosesAll]_vars
  <2> SUFFICES ASSUME TypeOK, PendingLocks, Next, NEW k \in Closes,
                      call[k].pc # "ok", call'[k].pc = "ok"
               PROVE  /\ \A i \in Ids : pending'[call[k].end][i] = NoCall
                      /\ ~streamTx'[call[k].end]
    BY DEF Locking, ClosesAll
  <2> USE KindsOfCalls
  <2>1. CloseReturns(k)
    <3>1. ASSUME NEW c \in Calls, Begin(c) PROVE FALSE
      BY <3>1, BeginEffect
    <3>2. ~StartStream /\ ~SetStreamTx /\ ~StreamBreaks
      BY DEF StartStream, SetStreamTx, StreamBreaks
    <3>3. ASSUME Deliver PROVE FALSE
      <4> DEFINE d == pending["client"][call[Head(wire)].id]
      <4>1. /\ Head(wire) \in Accepts
            /\ \/ /\ d \in Dials
                  /\ call' = [call EXCEPT ![d].peer = Head(wire), ![d].pc = "connecting"]
               \/ UNCHANGED call
        BY <3>3, DeliverEffect
      <4> HIDE DEF d
      <4> QED
        BY <4>1, HandEffect
    <3>4. ASSUME NEW a \in Accepts, AcceptStep(a) PROVE FALSE
      <4>1. PICK p \in {"failed", "waiting", "ok"} : Move({a}, p)
        BY <3>4 DEF AcceptStep, AcceptSends, AcceptReturns, AcceptTimesOut
      <4> QED
        BY <4>1, MoveEffect DEF States
    <3>5. ASSUME NEW d \in Dials, DialStep(d) PROVE FALSE
      <4>1. CASE DialRegisters(d)
        BY <4>1, RegisterEffect
      <4>2. CASE DialTimesOut(d) \/ DialFails(d) \/ DialConnects(d) \/ DialReturns(d)
        <5>1. PICK p \in {"failed", "connected", "ok"} : Move({d}, p)
          BY <4>2 DEF DialTimesOut, DialFails, DialConnects, DialReturns
        <5> QED
          BY <5>1, MoveEffect DEF States
      <4> QED
        BY <3>5, <4>1, <4>2 DEF DialStep
    <3>6. ASSUME NEW j \in Closes, CloseStep(j) PROVE CloseReturns(k)
      <4>1. CASE CloseClears(j)
        BY <4>1, ClearEffect DEF Moved
      <4>2. CASE CloseReturns(j)
        <5>1. \A b \in Calls \ {j} : call'[b] = call[b]
          BY <4>2, MoveEffect DEF CloseReturns, States
        <5> QED
          BY <4>2, <5>1
      <4> QED
        BY <3>6, <4>1, <4>2 DEF CloseStep
    <3> QED
      BY <3>1, <3>2, <3>3, <3>4, <3>5, <3>6 DEF Next
  <2>2. call[k].pc = "clearing" /\ call[k].end \in Ends
    BY <2>1, CallFields DEF CloseReturns
  <2>3. pendingLock[call[k].end] = k /\ \A i \in Ids : pending[call[k].end][i] = NoCall
    BY <2>2 DEF PendingLocks
  <2> QED
    BY <2>1, <2>2, <2>3 DEF CloseReturns, TypeOK
<1> QED
  BY <1>1, InvariantHolds, PTL DEF Spec, CloseLeavesNothing

\* A dial is dropped only by a close of its end or by a newer dial of its
\* service (the pending table of GRPCBroker).
THEOREM DroppedHasCause == Spec => DroppedWithCause
<1>1. TypeOK /\ [Next]_vars => [DropsWithCause]_vars
  <2> SUFFICES ASSUME TypeOK, Next, NEW d \in Dials, call[d].pc = "waiting", call'[d].pc = "dropped"
               PROVE  \/ pendingLock'[call[d].end] # pendingLock[call[d].end]
                      \/ pending'[call[d].end][call[d].id] \in Dials \ {d}
    BY DEF DropsWithCause
  <2> USE KindsOfCalls
  <2>0. call[d].end \in Ends /\ call[d].id \in Ids
    BY CallFields
  <2>1. ASSUME NEW c \in Calls, Begin(c) PROVE FALSE
    BY <2>1, BeginEffect
  <2>2. ~StartStream /\ ~SetStreamTx /\ ~StreamBreaks
    BY DEF StartStream, SetStreamTx, StreamBreaks
  <2>3. ASSUME Deliver PROVE FALSE
    <3> DEFINE f == pending["client"][call[Head(wire)].id]
    <3>1. /\ Head(wire) \in Accepts
          /\ \/ /\ f \in Dials
                /\ call' = [call EXCEPT ![f].peer = Head(wire), ![f].pc = "connecting"]
             \/ UNCHANGED call
      BY <2>3, DeliverEffect
    <3> HIDE DEF f
    <3> QED
      BY <3>1, HandEffect
  <2>4. ASSUME NEW a \in Accepts, AcceptStep(a) PROVE FALSE
    <3>1. PICK p \in {"failed", "waiting", "ok"} : Move({a}, p)
      BY <2>4 DEF AcceptStep, AcceptSends, AcceptReturns, AcceptTimesOut
    <3> QED
      BY <3>1, MoveEffect DEF States
  <2>5. ASSUME NEW f \in Dials, DialStep(f)
        PROVE  pending'[call[d].end][call[d].id] \in Dials \ {d}
    <3>1. CASE DialRegisters(f)
      <4>1. d # f
        BY <3>1, RegisterEffect DEF Moved
      <4>2. call[d].end = call[f].end /\ call[d].id = call[f].id
        BY <3>1, <4>1, RegisterEffect
      <4>3. pending'[call[f].end][call[f].id] = f
        BY <2>0, <3>1, <4>2, RegisterEffect
      <4> QED
        BY <4>1, <4>2, <4>3
    <3>2. CASE DialTimesOut(f) \/ DialFails(f) \/ DialConnects(f) \/ DialReturns(f)
      <4>1. PICK p \in {"failed", "connected", "ok"} : Move({f}, p)
        BY <3>2 DEF DialTimesOut, DialFails, DialConnects, DialReturns
      <4> QED
        <5>1. Moved(f, p) /\ \A b \in Calls \ {f} : call'[b] = call[b]
          BY <4>1, MoveEffect DEF States
        <5>2. CASE d = f
          BY <5>1, <5>2 DEF Moved
        <5>3. CASE d # f
          BY <5>1, <5>3
        <5> QED
          BY <5>2, <5>3
    <3> QED
      BY <2>5, <3>1, <3>2 DEF DialStep
  <2>6. ASSUME NEW k \in Closes, CloseStep(k)
        PROVE  pendingLock'[call[d].end] # pendingLock[call[d].end]
    <3>1. CASE CloseClears(k)
      <4>1. /\ call[d].end = call[k].end /\ pendingLock[call[k].end] = NoCall
            /\ pendingLock' = [pendingLock EXCEPT ![call[k].end] = k]
        BY <3>1, ClearEffect
      <4> QED
        BY <2>0, <4>1 DEF TypeOK
    <3>2. CASE CloseReturns(k)
      BY <3>2, MoveEffect DEF CloseReturns, States
    <3> QED
      BY <2>6, <3>1, <3>2 DEF CloseStep
  <2> QED
    BY <2>1, <2>2, <2>3, <2>4, <2>5, <2>6 DEF Next
<1> QED
  BY <1>1, InvariantHolds, PTL DEF Spec, DroppedWithCause

----------------------------------------------------------------------------
(* The broker implements the rendezvous.  What a step does to the mapped     *)
(* variables is one of four things: nothing, a call, a meeting, a return.    *)

Partners == Accepts \cup Dials

\* The call c looks to the rendezvous as it did before.
Unseen(c) == Made(c)' = Made(c) /\ ResultOf(c)' = ResultOf(c)

\* No dial is connected or loses its connection.
SameConnections ==
  \A d \in Dials :
    /\ call'[d].peer = call[d].peer
    /\ call'[d].pc \in {"connected", "ok"} <=> call[d].pc \in {"connected", "ok"}

LEMMA ConnectedKept == SameConnections => UNCHANGED connected
<1> SUFFICES ASSUME SameConnections PROVE connected' = connected
  OBVIOUS
<1>1. \A p \in Accepts \X Dials : p[2] \in Dials
  OBVIOUS
<1> QED
  BY <1>1 DEF SameConnections, connected

LEMMA UnseenIf ==
  ASSUME NEW c, call'[c] = call[c] \/ (Moved(c, call'[c].pc) /\ call[c].pc # "idle"
                                       /\ call'[c].pc # "idle"
                                       /\ {call[c].pc, call'[c].pc} \cap {"ok", "failed"} = {})
  PROVE  Unseen(c)
BY DEF Unseen, Made, ResultOf, Moved

LEMMA SeenAsStutter ==
  ASSUME \A c \in Partners : Unseen(c), SameConnections
  PROVE  UNCHANGED R!vars
BY ConnectedKept DEF R!vars, Unseen, Partners

LEMMA SeenAsCall ==
  ASSUME NEW c \in Partners, call[c].pc = "idle", call'[c].pc = "queued",
         call'[c].end \in Ends, call'[c].id \in Ids,
         \A b \in Partners \ {c} : Unseen(b), SameConnections
  PROVE  R!Next
<1> DEFINE made == [b \in Accepts \cup Dials |-> Made(b)]
           result == [b \in Accepts \cup Dials |-> ResultOf(b)]
<1>1. Made(c) = <<>> /\ ResultOf(c) = "none"
  BY DEF Made, ResultOf
<1>2. Made(c)' = <<call'[c].end, call'[c].id>> /\ ResultOf(c)' = "none"
  BY DEF Made, ResultOf
<1>3. made' = [made EXCEPT ![c] = <<call'[c].end, call'[c].id>>]
  BY <1>2 DEF Unseen, Partners
<1>4. result' = result
  BY <1>1, <1>2 DEF Unseen, Partners
<1>5. R!Call(c)
  BY <1>1, <1>3, <1>4, ConnectedKept DEF R!Call, Partners
<1> QED
  BY <1>5 DEF R!Next, R!Calls, Partners

LEMMA SeenAsReturn ==
  ASSUME NEW c \in Partners, NEW p \in {"ok", "failed"},
         call[c].pc \notin {"idle", "ok", "failed"}, Moved(c, p),
         \A b \in Partners \ {c} : Unseen(b), SameConnections,
         p = "ok" => R!Paired(c)
  PROVE  R!Next
<1> DEFINE made == [b \in Accepts \cup Dials |-> Made(b)]
           result == [b \in Accepts \cup Dials |-> ResultOf(b)]
<1>1. ResultOf(c) = "none" /\ ResultOf(c)' = p /\ Made(c)' = Made(c) /\ Made(c) # <<>>
  BY DEF ResultOf, Made, Moved
<1>2. made' = made
  BY <1>1 DEF Unseen, Partners
<1>3. result' = [result EXCEPT ![c] = p]
  BY <1>1 DEF Unseen, Partners
<1>4. CASE p = "ok"
  <2>1. R!ReturnOk(c)
    BY <1>1, <1>2, <1>3, <1>4, ConnectedKept DEF R!ReturnOk, Partners
  <2> QED
    BY <2>1 DEF R!Next, R!Calls, Partners
<1>5. CASE p = "failed"
  <2>1. {c} \in SUBSET {b \in R!Calls : made[b] # <<>> /\ result[b] = "none"}
    BY <1>1 DEF R!Calls, Partners
  <2>2. result' = [b \in R!Calls |-> IF b \in {c} THEN "failed" ELSE result[b]]
    BY <1>3, <1>5 DEF R!Calls, Partners
  <2>3. R!ReturnFailed
    BY <1>2, <2>1, <2>2, ConnectedKept DEF R!ReturnFailed
  <2> QED
    BY <2>3 DEF R!Next
<1> QED
  BY <1>4, <1>5

LEMMA ConnectedIsPaired ==
  ASSUME NEW a \in Accepts, NEW d \in Dials, call[d].peer = a, call[d].pc \in {"connected", "ok"}
  PROVE  R!Paired(a) /\ R!Paired(d)
<1>1. <<a, d>> \in connected
  BY DEF connected
<1> QED
  BY <1>1 DEF R!Paired

\* The dial d gets through to the accept a.
LEMMA SeenAsMeeting ==
  ASSUME NEW d \in Dials, NEW a \in Accepts, Addressed, TypeOK,
         call[d].pc = "connecting", call[d].peer = a, Moved(d, "connected"),
         \A b \in Calls \ {d} : call'[b] = call[b]
  PROVE  R!Next
<1> USE KindsOfCalls
<1> DEFINE made == [b \in Accepts \cup Dials |-> Made(b)]
           result == [b \in Accepts \cup Dials |-> ResultOf(b)]
<1>1. /\ call[d].end = "client" /\ call[a].end = "plugin" /\ call[d].id = call[a].id
      /\ call[a].pc # "idle" /\ \A f \in Dials : call[f].peer = a => f = d
  BY DEF Addressed
<1>2. \A b \in Partners : Unseen(b)
  <2>1. Unseen(d)
    BY DEF Unseen, Made, ResultOf, Moved
  <2>2. \A b \in Partners \ {d} : Unseen(b)
    BY UnseenIf DEF Partners
  <2> QED
    BY <2>1, <2>2
<1>3. UNCHANGED <<made, result>>
  BY <1>2 DEF Unseen, Partners
<1>4. made[a] = <<"plugin", call[d].id>> /\ made[d] = <<"client", call[d].id>>
  BY <1>1 DEF Made
<1>5. made[a] # <<>> /\ made[d] # <<>> /\ made[a][1] # made[d][1] /\ made[a][2] = made[d][2]
  <2> HIDE DEF made
  <2> QED
    BY <1>4
<1>6. ~R!Paired(a) /\ ~R!Paired(d)
  <2>1. \A p \in connected : p[1] # a /\ p[2] # d /\ p[2] # a /\ p[1] # d
    BY <1>1 DEF connected
  <2> QED
    BY <2>1 DEF R!Paired
<1>7. connected' = connected \cup {<<a, d>>}
  <2>1. call'[d].peer = a /\ call'[d].pc = "connected" /\ \A f \in Dials \ {d} : call'[f] = call[f]
    BY DEF Moved
  <2> QED
    BY <2>1 DEF connected
<1>8. R!Meet(a, d)
  BY <1>3, <1>5, <1>6, <1>7, Zenon DEF R!Meet, made
<1> QED
  BY <1>8 DEF R!Next

\* Every step of the broker is a step of the rendezvous or leaves it alone.
LEMMA RendezvousStep == TypeOK /\ TypeOK' /\ Addressing /\ [Next]_vars => [R!Next]_(R!vars)
<1> SUFFICES ASSUME TypeOK, TypeOK', OnTheWay, Entries, Addressed, [Next]_vars PROVE [R!Next]_(R!vars)
  BY DEF Addressing
<1> USE KindsOfCalls DEF Partners
<1>1. ASSUME NEW c \in Calls, Begin(c) PROVE [R!Next]_(R!vars)
  <2>1. /\ call[c].pc = "idle" /\ call'[c].pc = "queued" /\ call'[c].peer = call[c].peer
        /\ \A b \in Calls \ {c} : call'[b] = call[b]
    BY <1>1, BeginEffect
  <2>2. SameConnections
    BY <2>1 DEF SameConnections
  <2>3. \A b \in Partners \ {c} : Unseen(b)
    BY <2>1, UnseenIf
  <2>4. CASE c \in Partners
    <3>1. call'[c].end \in Ends /\ call'[c].id \in Ids
      BY DEF TypeOK
    <3> QED
      BY <2>1, <2>2, <2>3, <2>4, <3>1, SeenAsCall
  <2>5. CASE c \notin Partners
    BY <2>2, <2>3, <2>5, SeenAsStutter
  <2> QED
    BY <2>4, <2>5
<1>2. CASE StartStream \/ SetStreamTx \/ StreamBreaks \/ UNCHANGED vars
  <2>1. UNCHANGED call
    BY <1>2 DEF StartStream, SetStreamTx, StreamBreaks, vars
  <2> QED
    BY <2>1, UnseenIf, SeenAsStutter DEF SameConnections
<1>3. CASE Deliver
  <2> DEFINE d == pending["client"][call[Head(wire)].id]
  <2>1. /\ Head(wire) \in Accepts
        /\ \/ /\ d \in Dials /\ call[d].pc = "waiting"
              /\ call' = [call EXCEPT ![d].peer = Head(wire), ![d].pc = "connecting"]
           \/ UNCHANGED call
    BY <1>3, DeliverEffect
  <2> HIDE DEF d
  <2>2. CASE UNCHANGED call
    BY <2>2, UnseenIf, SeenAsStutter DEF SameConnections
  <2>3. ASSUME NEW f \in Dials, call[f].pc = "waiting",
               call' = [call EXCEPT ![f].peer = Head(wire), ![f].pc = "connecting"]
        PROVE  UNCHANGED R!vars
    <3>1. /\ call'[f].pc = "connecting" /\ call'[f].end = call[f].end /\ call'[f].id = call[f].id
          /\ \A b \in Calls \ {f} : call'[b] = call[b]
      BY <2>1, <2>3, HandEffect
    <3>2. \A b \in Partners : Unseen(b)
      <4>1. Unseen(f)
        <5>1. call[f].pc = "waiting"
          BY <2>3
        <5> QED
          BY <3>1, <5>1 DEF Unseen, Made, ResultOf
      <4>2. \A b \in Partners \ {f} : Unseen(b)
        BY <3>1, UnseenIf
      <4> QED
        BY <4>1, <4>2
    <3>3. UNCHANGED connected
      <4>1. \A p \in Accepts \X Dials : p[2] \in Dials
        OBVIOUS
      <4>2. \A g \in Dials :
              \/ call'[g] = call[g]
              \/ call[g].pc \notin {"connected", "ok"} /\ call'[g].pc \notin {"connected", "ok"}
        BY <2>3, <3>1
      <4> QED
        BY <4>1, <4>2 DEF connected
    <3> QED
      BY <3>2, <3>3 DEF R!vars, Unseen
  <2> QED
    BY <2>1, <2>2, <2>3
<1>4. ASSUME NEW a \in Accepts, AcceptStep(a) PROVE [R!Next]_(R!vars)
  <2>1. PICK p \in {"failed", "waiting", "ok"} :
          /\ Move({a}, p) /\ call[a].pc \in {"queued", "waiting"}
          /\ p = "ok" => \E d \in Dials : call[d].peer = a /\ call[d].pc \in {"connected", "ok"}
    BY <1>4 DEF AcceptStep, AcceptSends, AcceptReturns, AcceptTimesOut
  <2>2. Moved(a, p) /\ \A b \in Calls \ {a} : call'[b] = call[b]
    BY <2>1, MoveEffect DEF States
  <2>3. SameConnections
    BY <2>2 DEF SameConnections
  <2>4. \A b \in Partners \ {a} : Unseen(b)
    BY <2>2, UnseenIf
  <2>5. CASE p = "waiting"
    <3>1. Unseen(a)
      BY <2>1, <2>2, <2>5 DEF Unseen, Made, ResultOf, Moved
    <3> QED
      BY <2>3, <2>4, <3>1, SeenAsStutter
  <2>6. CASE p \in {"ok", "failed"}
    <3>1. p = "ok" => R!Paired(a)
      BY <2>1, ConnectedIsPaired
    <3> QED
      BY <2>1, <2>2, <2>3, <2>4, <2>6, <3>1, SeenAsReturn
  <2> QED
    BY <2>5, <2>6
<1>5. ASSUME NEW d \in Dials, DialRegisters(d) PROVE [R!Next]_(R!vars)
  <2>1. /\ call[d].pc = "queued" /\ Moved(d, "waiting")
        /\ \A b \in Calls \ {d} : \/ call'[b] = call[b]
                                  \/ Moved(b, "dropped") /\ call[b].pc = "waiting"
    BY <1>5, RegisterEffect
  <2>2. \A b \in Partners : Unseen(b)
    BY <2>1 DEF Unseen, Made, ResultOf, Moved
  <2>3. SameConnections
    BY <2>1 DEF SameConnections, Moved
  <2> QED
    BY <2>2, <2>3, SeenAsStutter
<1>6. ASSUME NEW d \in Dials, DialConnects(d) PROVE [R!Next]_(R!vars)
  <2>1. PICK p \in {"connected", "failed"} : Move({d}, p) /\ call[d].pc = "connecting"
    BY <1>6 DEF DialConnects
  <2>2. Moved(d, p) /\ \A b \in Calls \ {d} : call'[b] = call[b]
    BY <2>1, MoveEffect DEF States
  <2>3. CASE p = "connected"
    <3>1. call[d].peer \in Accepts
      BY <2>1, CallFields DEF Addressed
    <3> QED
      BY <2>1, <2>2, <2>3, <3>1, SeenAsMeeting
  <2>4. CASE p = "failed"
    <3>1. SameConnections
      BY <2>1, <2>2, <2>4 DEF SameConnections, Moved
    <3>2. \A b \in Partners \ {d} : Unseen(b)
      BY <2>2, UnseenIf
    <3> QED
      BY <2>1, <2>2, <2>4, <3>1, <3>2, SeenAsReturn
  <2> QED
    BY <2>3, <2>4
<1>7. ASSUME NEW d \in Dials, DialTimesOut(d) \/ DialFails(d) \/ DialReturns(d)
      PROVE  [R!Next]_(R!vars)
  <2>1. PICK p \in {"ok", "failed"} :
          /\ Move({d}, p) /\ call[d].pc \in {"waiting", "dropped", "connected"}
          /\ p = "ok" <=> call[d].pc = "connected"
    BY <1>7 DEF DialTimesOut, DialFails, DialReturns
  <2>2. Moved(d, p) /\ \A b \in Calls \ {d} : call'[b] = call[b]
    BY <2>1, MoveEffect DEF States
  <2>3. SameConnections
    BY <2>1, <2>2 DEF SameConnections, Moved
  <2>4. \A b \in Partners \ {d} : Unseen(b)
    BY <2>2, UnseenIf
  <2>5. p = "ok" => R!Paired(d)
    <3>1. p = "ok" => call[d].peer \in Accepts
      BY <2>1, CallFields DEF Addressed
    <3> QED
      BY <2>1, <3>1, ConnectedIsPaired
  <2> QED
    BY <2>1, <2>2, <2>3, <2>4, <2>5, SeenAsReturn
<1>8. ASSUME NEW k \in Closes, CloseStep(k) PROVE [R!Next]_(R!vars)
  <2>1. \A b \in Partners : \/ call'[b] = call[b]
                            \/ Moved(b, "dropped") /\ call[b].pc = "waiting"
    <3>1. CASE CloseClears(k)
      BY <3>1, ClearEffect
    <3>2. CASE CloseReturns(k)
      BY <3>2, MoveEffect DEF CloseReturns, States
    <3> QED
      BY <1>8, <3>1, <3>2 DEF CloseStep
  <2>2. \A b \in Partners : Unseen(b)
    BY <2>1 DEF Unseen, Made, ResultOf, Moved
  <2>3. SameConnections
    BY <2>1 DEF SameConnections, Moved
  <2> QED
    BY <2>2, <2>3, SeenAsStutter
<1> QED
  BY <1>1, <1>2, <1>3, <1>4, <1>5, <1>6, <1>7, <1>8 DEF Next, DialStep

\* The brokered connections of a gRPC plugin are made as the rendezvous says:
\* between calls of the two ends for the same service, each at most once, and a
\* call that returns Ok has been connected (grpc_broker.rs).
THEOREM Implements == Spec => ImplementsRendezvous
<1>1. Init => R!Init
  <2> SUFFICES ASSUME Init PROVE R!Init
    OBVIOUS
  <2>1. \A c \in Accepts \cup Dials : Made(c) = <<>> /\ ResultOf(c) = "none"
    BY KindsOfCalls DEF Init, Made, ResultOf
  <2>2. connected = {}
    BY KindsOfCalls DEF Init, connected
  <2> QED
    BY <2>1, <2>2 DEF R!Init, R!Calls
<1> QED
  BY <1>1, InvariantHolds, RendezvousStep, PTL DEF Spec, ImplementsRendezvous, R!Spec

=============================================================================
