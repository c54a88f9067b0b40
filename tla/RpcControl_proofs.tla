-------------------------- MODULE RpcControl_proofs --------------------------
(***************************************************************************)
(* What the multiplexed plugin connection guarantees for every set of      *)
(* calls and ids and every number of requests: types, the pairing of       *)
(* accepts with dials, and which answer a call on the control connection   *)
(* takes.  The broker and the control connection step in turn, so that a   *)
(* fact about one of them needs the steps of that one only.                *)
(***************************************************************************)
EXTENDS RpcControl, SequenceTheorems, TLAPS

----------------------------------------------------------------------------
(* Type correctness.                                                       *)

BrokerStates ==
  {"idle", "waiting", "cancelled", "given", "opening", "opened", "acknowledged", "ok", "failed"}

\* What Move does to the calls.
LEMMA MoveEffect ==
  ASSUME BrokerTypeOK, NEW c \in BrokerCalls, NEW p \in BrokerStates, Move(c, p)
  PROVE  /\ call' \in [BrokerCalls -> [end : Ends, id : Ids, pc : BrokerStates]]
         /\ call'[c] = [end |-> call[c].end, id |-> call[c].id, pc |-> p]
         /\ \A b \in BrokerCalls \ {c} : call'[b] = call[b]
BY DEF Move, BrokerTypeOK, BrokerStates

\* What a registration or a close does to the calls: the new one is made, and of
\* the others only the waiting ones of D change, in their state alone.
LEMMA CancellingEffect ==
  ASSUME BrokerTypeOK, NEW D, NEW c \in BrokerCalls, NEW r \in Ends \X Ids,
         NEW p \in BrokerStates, call' = Cancelling(D, c, r, p)
  PROVE  /\ call' \in [BrokerCalls -> [end : Ends, id : Ids, pc : BrokerStates]]
         /\ call'[c] = [end |-> r[1], id |-> r[2], pc |-> p]
         /\ \A b \in BrokerCalls \ {c} :
              \/ call'[b] = call[b]
              \/ /\ b \in D /\ call[b].pc = "waiting"
                 /\ call'[b] = [end |-> call[b].end, id |-> call[b].id, pc |-> "cancelled"]
BY DEF Cancelling, BrokerTypeOK, BrokerStates

\* One entry of a table of both ends is replaced, and the others stay.
LEMMA EntryReplaced ==
  ASSUME NEW S, NEW table \in [Ends -> [Ids -> S]], NEW e \in Ends, NEW i \in Ids, NEW v \in S
  PROVE  /\ [table EXCEPT ![e][i] = v] \in [Ends -> [Ids -> S]]
         /\ \A f \in Ends, j \in Ids :
              [table EXCEPT ![e][i] = v][f][j] = IF f = e /\ j = i THEN v ELSE table[f][j]
OBVIOUS

\* The peer of a call is at the other end.
LEMMA OtherEnd ==
  ASSUME BrokerTypeOK, NEW c \in BrokerCalls
  PROVE  /\ (CHOOSE f \in Ends : f # call[c].end) \in Ends
         /\ (CHOOSE f \in Ends : f # call[c].end) # call[c].end
<1>1. \E f \in Ends : f # call[c].end
  BY DEF Ends
<1> QED
  BY <1>1

\* Every step of the broker keeps its variables in their types.
LEMMA BrokerTypeStep == BrokerTypeOK /\ [BrokerNext]_brokerVars => BrokerTypeOK'
<1> USE MuxBrokerAssumption
<1> SUFFICES ASSUME BrokerTypeOK, [BrokerNext]_brokerVars PROVE BrokerTypeOK'
  OBVIOUS
<1>0. Accepts \subseteq BrokerCalls /\ Dials \subseteq BrokerCalls /\ Closes \subseteq BrokerCalls
  BY DEF BrokerCalls
<1>1. ASSUME NEW a \in Accepts, Accept(a) PROVE BrokerTypeOK'
  <2>1. PICK r \in Requests(a) :
          /\ pending' = [pending EXCEPT ![r[1]][r[2]] = a]
          /\ call' = Cancelling({pending[r[1]][r[2]]}, a, r, "waiting")
          /\ UNCHANGED <<up, inbound, taken>>
    BY <1>1 DEF Accept
  <2>2. r \in Ends \X Ids
    BY <1>0
  <2>3. call' \in [BrokerCalls -> [end : Ends, id : Ids, pc : BrokerStates]]
    BY <1>0, <2>1, <2>2, CancellingEffect DEF BrokerStates
  <2> QED
    BY <2>1, <2>2, <2>3 DEF BrokerTypeOK, BrokerStates
<1>2. ASSUME NEW a \in Accepts, AcceptStep(a) PROVE BrokerTypeOK'
  BY <1>0, <1>2, MoveEffect
     DEF AcceptStep, AcceptReturns, AcceptFails, BrokerTypeOK, BrokerStates
<1>3. ASSUME NEW d \in Dials, Dial(d) PROVE BrokerTypeOK'
  BY <1>0, <1>3 DEF Dial, BrokerTypeOK
<1>4. ASSUME NEW d \in Dials, DialStep(d) PROVE BrokerTypeOK'
  <2>1. call' \in [BrokerCalls -> [end : Ends, id : Ids, pc : BrokerStates]]
    BY <1>0, <1>4, MoveEffect DEF DialStep, DriverOpens, DialReturns, DialFails, BrokerStates
  <2> QED
    BY <1>4, <2>1 DEF DialStep, DriverOpens, DialReturns, DialFails, BrokerTypeOK, BrokerStates
<1>5. ASSUME NEW d \in Dials, InboundStep(d) PROVE BrokerTypeOK'
  <2>1. CASE InboundLooksUp(d)
    <3> DEFINE e == CHOOSE f \in Ends : f # call[d].end
               a == pending[e][call[d].id]
    <3>1. e \in Ends /\ call[d].id \in Ids
      BY <1>0, OtherEnd DEF BrokerTypeOK
    <3>2. a \in Accepts \cup {NoCall}
      <4>1. \A f \in Ends, i \in Ids : pending[f][i] \in Accepts \cup {NoCall}
        BY DEF BrokerTypeOK
      <4> HIDE DEF e
      <4> QED
        BY <3>1, <4>1
    <3>3. taken' \in [Dials -> Accepts \cup {NoCall}] /\ pending' \in [Ends -> [Ids -> Accepts \cup {NoCall}]]
      <4>1. taken' = taken \/ taken' = [taken EXCEPT ![d] = a]
        BY <2>1 DEF InboundLooksUp
      <4>2. pending' = pending \/ pending' = [pending EXCEPT ![e][call[d].id] = NoCall]
        BY <2>1 DEF InboundLooksUp
      <4> HIDE DEF e, a
      <4>3. pending \in [Ends -> [Ids -> Accepts \cup {NoCall}]] /\ taken \in [Dials -> Accepts \cup {NoCall}]
        BY DEF BrokerTypeOK
      <4>4. [pending EXCEPT ![e][call[d].id] = NoCall] \in [Ends -> [Ids -> Accepts \cup {NoCall}]]
        BY <3>1, <4>3, EntryReplaced
      <4> QED
        BY <3>2, <4>1, <4>2, <4>3, <4>4
    <3>4. inbound' \in [Dials -> {"none", "arrived", "found", "acked", "done"}]
      BY <2>1 DEF InboundLooksUp, BrokerTypeOK
    <3> QED
      BY <2>1, <3>3, <3>4 DEF InboundLooksUp, BrokerTypeOK
  <2>2. CASE InboundAcknowledges(d)
    <3>1. call' \in [BrokerCalls -> [end : Ends, id : Ids, pc : BrokerStates]]
      BY <1>0, <2>2, MoveEffect DEF InboundAcknowledges, BrokerTypeOK, BrokerStates
    <3> QED
      BY <2>2, <3>1 DEF InboundAcknowledges, BrokerTypeOK, BrokerStates
  <2>3. CASE InboundHandsOver(d)
    <3>1. call' \in [BrokerCalls -> [end : Ends, id : Ids, pc : BrokerStates]]
      <4>1. CASE taken[d] \in BrokerCalls
        BY <2>3, <4>1, MoveEffect DEF InboundHandsOver, BrokerTypeOK, BrokerStates
      <4>2. CASE taken[d] = NoCall
        BY <1>0, <2>3, <4>2 DEF InboundHandsOver, Move, BrokerTypeOK, BrokerStates
      <4> QED
        BY <1>0, <4>1, <4>2 DEF BrokerTypeOK
    <3> QED
      BY <2>3, <3>1 DEF InboundHandsOver, BrokerTypeOK, BrokerStates
  <2> QED
    BY <1>5, <2>1, <2>2, <2>3 DEF InboundStep
<1>6. ASSUME NEW k \in Closes, Close(k) PROVE BrokerTypeOK'
  <2>1. PICK r \in Requests(k) :
          /\ pending' = [pending EXCEPT ![r[1]] = [i \in Ids |-> NoCall]]
          /\ call' = Cancelling({pending[r[1]][i] : i \in Ids}, k, r, "ok")
          /\ UNCHANGED <<up, inbound, taken>>
    BY <1>6 DEF Close
  <2>2. r \in Ends \X Ids
    BY <1>0
  <2>3. call' \in [BrokerCalls -> [end : Ends, id : Ids, pc : BrokerStates]]
    BY <1>0, <2>1, <2>2, CancellingEffect DEF BrokerStates
  <2> QED
    BY <2>1, <2>2, <2>3 DEF BrokerTypeOK, BrokerStates
<1>7. CASE ConnectionFails
  BY <1>7 DEF ConnectionFails, BrokerTypeOK
<1>8. CASE UNCHANGED brokerVars
  BY <1>8 DEF brokerVars, BrokerTypeOK
<1> QED
  BY <1>1, <1>2, <1>3, <1>4, <1>5, <1>6, <1>7, <1>8 DEF BrokerNext

----------------------------------------------------------------------------
(* The pairing of accepts and dials.                                       *)

\* An entry of the table is an accept of its end and id that no stream has
\* taken, also when the accept has given up.
Entries ==
  \A e \in Ends, i \in Ids :
    pending[e][i] # NoCall =>
      /\ call[pending[e][i]].end = e
      /\ call[pending[e][i]].id = i
      /\ call[pending[e][i]].pc # "idle"
      /\ \A d \in Dials : taken[d] # pending[e][i]

\* What a stream took was an accept that had been made, and no other stream has
\* it.
TakenOnce ==
  \A d \in Dials :
    taken[d] # NoCall =>
      /\ call[taken[d]].pc # "idle"
      /\ \A f \in Dials : taken[f] = taken[d] => f = d

\* How far a dial and the peer's task for its stream are, and who was taken.
Streams ==
  \A d \in Dials :
    /\ call[d].pc \in {"idle", "opening"} => inbound[d] = "none"
    /\ inbound[d] \in {"none", "arrived"} => taken[d] = NoCall
    /\ inbound[d] \in {"found", "acked"} => taken[d] # NoCall
    /\ call[d].pc \in {"acknowledged", "ok"} => taken[d] # NoCall

\* An accept that was given a stream was taken by one.
Given ==
  \A a \in Accepts : call[a].pc \in {"given", "ok"} => \E d \in Dials : taken[d] = a

Pairing == Entries /\ TakenOnce /\ Streams /\ Given

\* Neither the table nor what was taken changes, and no call that was made is
\* made again.
LEMMA TableKept ==
  ASSUME BrokerTypeOK, Entries, TakenOnce, UNCHANGED <<pending, taken>>,
         \A c \in BrokerCalls : call[c].pc # "idle" =>
           call'[c].end = call[c].end /\ call'[c].id = call[c].id /\ call'[c].pc # "idle"
  PROVE  Entries' /\ TakenOnce'
<1>1. \A e \in Ends, i \in Ids : pending[e][i] # NoCall => pending[e][i] \in BrokerCalls
  BY DEF BrokerTypeOK, BrokerCalls
<1>2. \A d \in Dials : taken[d] # NoCall => taken[d] \in BrokerCalls
  BY DEF BrokerTypeOK, BrokerCalls
<1> QED
  BY <1>1, <1>2 DEF Entries, TakenOnce

\* Every step of the broker keeps the pairing.
LEMMA PairingStep == BrokerTypeOK /\ Pairing /\ [BrokerNext]_brokerVars => Pairing'
<1> USE MuxBrokerAssumption
<1> SUFFICES ASSUME BrokerTypeOK, Pairing, [BrokerNext]_brokerVars PROVE Pairing'
  OBVIOUS
<1>0. /\ Accepts \subseteq BrokerCalls /\ Dials \subseteq BrokerCalls /\ Closes \subseteq BrokerCalls
      /\ Accepts \cap Dials = {} /\ Accepts \cap Closes = {} /\ Dials \cap Closes = {}
  <2>1. Accepts \subseteq BrokerCalls /\ Dials \subseteq BrokerCalls /\ Closes \subseteq BrokerCalls
    BY DEF BrokerCalls
  <2> QED
    BY <2>1
<1>00. Entries /\ TakenOnce /\ Streams /\ Given
  BY DEF Pairing
<1>1. ASSUME NEW a \in Accepts, Accept(a) PROVE Pairing'
  <2>1. PICK r \in Requests(a) :
          /\ call[a].pc = "idle"
          /\ pending' = [pending EXCEPT ![r[1]][r[2]] = a]
          /\ call' = Cancelling({pending[r[1]][r[2]]}, a, r, "waiting")
          /\ UNCHANGED <<up, inbound, taken>>
    BY <1>1 DEF Accept
  <2>2. r \in Ends \X Ids
    BY <1>0
  <2> DEFINE e == r[1]
             i == r[2]
             D == {pending[e][i]}
  <2>3. e \in Ends /\ i \in Ids
    BY <2>2
  <2>4. pending' = [pending EXCEPT ![e][i] = a] /\ call' = Cancelling(D, a, r, "waiting")
    BY <2>1
  <2>5. /\ call'[a] = [end |-> e, id |-> i, pc |-> "waiting"]
        /\ \A b \in BrokerCalls \ {a} :
             \/ call'[b] = call[b]
             \/ /\ b \in D /\ call[b].pc = "waiting"
                /\ call'[b] = [end |-> call[b].end, id |-> call[b].id, pc |-> "cancelled"]
    <3> HIDE DEF D
    <3> QED
      BY <1>0, <2>4 DEF Cancelling, BrokerTypeOK
  <2>6. pending \in [Ends -> [Ids -> Accepts \cup {NoCall}]]
    BY DEF BrokerTypeOK
  <2>7. D \subseteq Accepts \cup {NoCall}
    BY <2>3, <2>6
  <2>8. \A f \in Ends, j \in Ids : pending'[f][j] = IF f = e /\ j = i THEN a ELSE pending[f][j]
    BY <2>3, <2>4, <2>6, EntryReplaced
  <2> HIDE DEF e, i, D
  <2>9. \A d \in Dials : call'[d] = call[d]
    BY <1>0, <2>5, <2>7
  <2>10. \A d \in Dials : taken[d] # a
    BY <1>0, <1>00, <2>1 DEF TakenOnce
  <2>11. \A b \in BrokerCalls \ {a} : /\ call'[b].end = call[b].end /\ call'[b].id = call[b].id
                                      /\ call[b].pc # "idle" => call'[b].pc # "idle"
                                      /\ call'[b].pc \in {"given", "ok"} => call[b].pc = call'[b].pc
    <3> SUFFICES ASSUME NEW b \in BrokerCalls \ {a}
                 PROVE  /\ call'[b].end = call[b].end /\ call'[b].id = call[b].id
                        /\ call[b].pc # "idle" => call'[b].pc # "idle"
                        /\ call'[b].pc \in {"given", "ok"} => call[b].pc = call'[b].pc
      OBVIOUS
    <3>1. CASE call'[b] = call[b]
      BY <3>1
    <3>2. CASE call'[b] = [end |-> call[b].end, id |-> call[b].id, pc |-> "cancelled"]
      BY <3>2
    <3> QED
      BY <2>5, <3>1, <3>2
  <2>12. call'[a].end = e /\ call'[a].id = i /\ call'[a].pc = "waiting"
    BY <2>5
  <2>13. Entries'
    <3> SUFFICES ASSUME NEW f \in Ends, NEW j \in Ids, pending'[f][j] # NoCall
                 PROVE  /\ call'[pending'[f][j]].end = f
                        /\ call'[pending'[f][j]].id = j
                        /\ call'[pending'[f][j]].pc # "idle"
                        /\ \A d \in Dials : taken'[d] # pending'[f][j]
      BY DEF Entries
    <3>1. CASE f = e /\ j = i
      <4>1. pending'[f][j] = a /\ taken' = taken
        BY <2>1, <2>8, <3>1
      <4> QED
        BY <2>10, <2>12, <3>1, <4>1
    <3>2. CASE ~(f = e /\ j = i)
      <4>1. pending'[f][j] = pending[f][j] /\ pending[f][j] \in BrokerCalls
        BY <1>0, <2>6, <2>8, <3>2
      <4>2. pending[f][j] # a
        BY <1>00, <2>1, <4>1 DEF Entries
      <4>3. PICK q \in BrokerCalls \ {a} : pending'[f][j] = q /\ pending[f][j] = q
        BY <4>1, <4>2
      <4>4. /\ call[q].end = f /\ call[q].id = j /\ call[q].pc # "idle"
            /\ \A d \in Dials : taken[d] # q
        BY <1>00, <3>2, <4>3, <2>8 DEF Entries
      <4>5. \A d \in Dials : taken'[d] # pending'[f][j]
        BY <2>1, <4>3, <4>4
      <4> QED
        BY <2>11, <4>3, <4>4, <4>5
    <3> QED
      BY <3>1, <3>2
  <2>14. TakenOnce'
    <3>1. \A d \in Dials : taken[d] \in BrokerCalls \cup {NoCall}
      BY <1>0 DEF BrokerTypeOK
    <3> QED
      BY <1>00, <2>1, <2>10, <2>11, <3>1 DEF TakenOnce
  <2>15. Streams'
    BY <1>00, <2>1, <2>9 DEF Streams
  <2>16. Given'
    BY <1>0, <1>00, <2>1, <2>11, <2>12 DEF Given
  <2> QED
    BY <2>13, <2>14, <2>15, <2>16 DEF Pairing
<1>2. ASSUME NEW a \in Accepts, AcceptStep(a) PROVE Pairing'
  <2>1. PICK p \in {"ok", "failed"} : Move(a, p) /\ UNCHANGED <<pending, up, inbound, taken>>
    BY <1>2 DEF AcceptStep, AcceptReturns, AcceptFails
  <2>2. /\ call'[a] = [end |-> call[a].end, id |-> call[a].id, pc |-> p]
        /\ \A b \in BrokerCalls \ {a} : call'[b] = call[b]
    BY <1>0, <2>1, MoveEffect DEF BrokerStates
  <2>3. Entries' /\ TakenOnce'
    BY <1>0, <1>00, <2>1, <2>2, TableKept
  <2>4. Streams'
    BY <1>0, <1>00, <2>1, <2>2 DEF Streams
  <2>5. Given'
    <3>1. p = "ok" => call[a].pc = "given"
      <4>1. CASE AcceptReturns(a)
        BY <4>1 DEF AcceptReturns
      <4>2. CASE AcceptFails(a)
        <5>1. Move(a, "failed")
          BY <4>2 DEF AcceptFails
        <5>2. call'[a] = [end |-> call[a].end, id |-> call[a].id, pc |-> "failed"]
          BY <1>0, <5>1, MoveEffect DEF BrokerStates
        <5> QED
          BY <2>2, <5>2
      <4> QED
        BY <1>2, <4>1, <4>2 DEF AcceptStep
    <3> QED
      BY <1>0, <1>00, <2>1, <2>2, <3>1 DEF Given
  <2> QED
    BY <2>3, <2>4, <2>5 DEF Pairing
<1>3. ASSUME NEW d \in Dials, Dial(d) PROVE Pairing'
  <2>1. /\ call'[d].pc = "opening" /\ call[d].pc = "idle"
        /\ \A b \in BrokerCalls \ {d} : call'[b] = call[b]
        /\ UNCHANGED <<pending, up, inbound, taken>>
    BY <1>0, <1>3 DEF Dial, BrokerTypeOK
  <2>2. Entries' /\ TakenOnce'
    BY <1>00, <2>1, TableKept
  <2>3. Streams' /\ Given'
    BY <1>0, <1>00, <2>1 DEF Streams, Given
  <2> QED
    BY <2>2, <2>3 DEF Pairing
<1>4. ASSUME NEW d \in Dials, DialStep(d) PROVE Pairing'
  <2>1. PICK p \in {"opened", "ok", "failed"} :
          Move(d, p) /\ (p = "ok" => call[d].pc = "acknowledged") /\ call[d].pc # "idle"
    BY <1>4 DEF DialStep, DriverOpens, DialReturns, DialFails
  <2>2. /\ call'[d] = [end |-> call[d].end, id |-> call[d].id, pc |-> p]
        /\ \A b \in BrokerCalls \ {d} : call'[b] = call[b]
    BY <1>0, <2>1, MoveEffect DEF BrokerStates
  <2>3. UNCHANGED <<pending, taken>>
    BY <1>4 DEF DialStep, DriverOpens, DialReturns, DialFails
  <2>4. Entries' /\ TakenOnce'
    BY <1>0, <1>00, <2>2, <2>3, TableKept
  <2>5. \/ UNCHANGED inbound
        \/ call[d].pc = "opening" /\ inbound' = [inbound EXCEPT ![d] = "arrived"]
    BY <1>4 DEF DialStep, DriverOpens, DialReturns, DialFails
  <2>6. Streams'
    BY <1>0, <1>00, <2>1, <2>2, <2>3, <2>5, SMTT(30) DEF Streams, BrokerTypeOK
  <2>7. Given'
    BY <1>0, <1>00, <2>2, <2>3 DEF Given
  <2> QED
    BY <2>4, <2>6, <2>7 DEF Pairing
<1>5. ASSUME NEW d \in Dials, InboundStep(d) PROVE Pairing'
  <2>1. CASE InboundLooksUp(d)
    <3> DEFINE e == CHOOSE f \in Ends : f # call[d].end
               a == pending[e][call[d].id]
    <3>1. e \in Ends /\ call[d].id \in Ids
      BY <1>0, OtherEnd DEF BrokerTypeOK
    <3>2. /\ UNCHANGED call /\ inbound[d] = "arrived" /\ taken[d] = NoCall
      BY <1>00, <2>1 DEF InboundLooksUp, Streams
    <3>3. CASE up /\ a # NoCall
      <4>1. /\ pending' = [pending EXCEPT ![e][call[d].id] = NoCall]
            /\ taken' = [taken EXCEPT ![d] = a]
            /\ inbound' = [inbound EXCEPT ![d] = "found"]
        BY <2>1, <3>3 DEF InboundLooksUp
      <4> HIDE DEF e
      <4>2. /\ call[a].end = e /\ call[a].id = call[d].id /\ call[a].pc # "idle"
            /\ \A f \in Dials : taken[f] # a
        BY <1>00, <3>1, <3>3 DEF Entries
      <4> HIDE DEF a
      <4>3. \A f \in Ends, j \in Ids :
              pending'[f][j] = IF f = e /\ j = call[d].id THEN NoCall ELSE pending[f][j]
        <5>1. pending \in [Ends -> [Ids -> Accepts \cup {NoCall}]]
          BY DEF BrokerTypeOK
        <5> QED
          BY <3>1, <4>1, <5>1, EntryReplaced
      <4>4. taken'[d] = a /\ \A f \in Dials \ {d} : taken'[f] = taken[f]
        BY <4>1 DEF BrokerTypeOK
      <4>5. Entries'
        BY <1>00, <3>2, <4>2, <4>3, <4>4 DEF Entries
      <4>6. TakenOnce'
        BY <1>00, <3>2, <4>2, <4>4 DEF TakenOnce
      <4>7. inbound'[d] = "found" /\ \A f \in Dials \ {d} : inbound'[f] = inbound[f]
        BY <4>1 DEF BrokerTypeOK
      <4>8. a # NoCall /\ call[d].pc \notin {"idle", "opening"}
        BY <1>00, <3>2, <3>3 DEF Streams, a
      <4>9. Streams'
        BY <1>00, <3>2, <4>4, <4>7, <4>8 DEF Streams
      <4>10. Given'
        BY <1>00, <3>2, <4>4, MuxBrokerAssumption, <1>0 DEF Given, BrokerTypeOK
      <4> QED
        BY <4>5, <4>6, <4>9, <4>10 DEF Pairing
    <3>4. CASE ~(up /\ a # NoCall)
      <4>1. UNCHANGED <<call, pending, taken>> /\ inbound' = [inbound EXCEPT ![d] = "done"]
        BY <2>1, <3>4 DEF InboundLooksUp
      <4>2. Streams'
        BY <1>00, <3>2, <4>1 DEF Streams, BrokerTypeOK
      <4> QED
        BY <1>00, <4>1, <4>2 DEF Pairing, Entries, TakenOnce, Given
    <3> QED
      BY <3>3, <3>4
  <2>2. CASE InboundAcknowledges(d)
    <3>1. /\ inbound[d] = "found" /\ inbound' = [inbound EXCEPT ![d] = "acked"]
          /\ UNCHANGED <<pending, taken>>
      BY <2>2 DEF InboundAcknowledges
    <3>2. /\ \A b \in BrokerCalls \ {d} : call'[b] = call[b]
          /\ call'[d] = call[d] \/ ( /\ call[d].pc = "opened"
                                     /\ call'[d] = [end |-> call[d].end, id |-> call[d].id,
                                                    pc |-> "acknowledged"] )
      BY <1>0, <2>2, MoveEffect DEF InboundAcknowledges, BrokerStates
    <3>3. Entries' /\ TakenOnce'
      BY <1>0, <1>00, <3>1, <3>2, TableKept
    <3>4. Streams' /\ Given'
      BY <1>0, <1>00, <3>1, <3>2 DEF Streams, Given, BrokerTypeOK
    <3> QED
      BY <3>3, <3>4 DEF Pairing
  <2>3. CASE InboundHandsOver(d)
    <3>1. /\ inbound[d] = "acked" /\ inbound' = [inbound EXCEPT ![d] = "done"]
          /\ UNCHANGED <<pending, taken>>
      BY <2>3 DEF InboundHandsOver
    <3>2. taken[d] \in Accepts
      BY <1>00, <3>1 DEF Streams, BrokerTypeOK
    <3>3. /\ \A b \in BrokerCalls \ {taken[d]} : call'[b] = call[b]
          /\ \/ call'[taken[d]] = call[taken[d]]
             \/ /\ call[taken[d]].pc = "waiting"
                /\ call'[taken[d]] = [end |-> call[taken[d]].end, id |-> call[taken[d]].id,
                                      pc |-> "given"]
      BY <1>0, <2>3, <3>2, MoveEffect DEF InboundHandsOver, BrokerStates
    <3>4. Entries' /\ TakenOnce'
      BY <1>0, <1>00, <3>1, <3>2, <3>3, TableKept
    <3>5. Streams'
      BY <1>0, <1>00, <3>1, <3>2, <3>3 DEF Streams, BrokerTypeOK
    <3>6. Given'
      BY <1>0, <1>00, <3>1, <3>2, <3>3 DEF Given
    <3> QED
      BY <3>4, <3>5, <3>6 DEF Pairing
  <2> QED
    BY <1>5, <2>1, <2>2, <2>3 DEF InboundStep
<1>6. ASSUME NEW k \in Closes, Close(k) PROVE Pairing'
  <2>1. PICK r \in Requests(k) :
          /\ call[k].pc = "idle"
          /\ pending' = [pending EXCEPT ![r[1]] = [i \in Ids |-> NoCall]]
          /\ call' = Cancelling({pending[r[1]][i] : i \in Ids}, k, r, "ok")
          /\ UNCHANGED <<up, inbound, taken>>
    BY <1>6 DEF Close
  <2>2. r \in Ends \X Ids
    BY <1>0
  <2> DEFINE D == {pending[r[1]][i] : i \in Ids}
  <2>3. call' = Cancelling(D, k, r, "ok")
    BY <2>1
  <2>4. D \subseteq Accepts \cup {NoCall}
    BY <2>2 DEF BrokerTypeOK
  <2>5. \A b \in BrokerCalls \ {k} :
             \/ call'[b] = call[b]
             \/ /\ b \in D /\ call[b].pc = "waiting"
                /\ call'[b] = [end |-> call[b].end, id |-> call[b].id, pc |-> "cancelled"]
    <3> HIDE DEF D
    <3> QED
      BY <1>0, <2>3 DEF Cancelling, BrokerTypeOK
  <2> HIDE DEF D
  <2>6. \A d \in Dials : call'[d] = call[d]
    BY <1>0, <2>4, <2>5
  <2>7. \A f \in Ends, j \in Ids : pending'[f][j] \in {pending[f][j], NoCall}
    BY <2>1, <2>2 DEF BrokerTypeOK
  <2>8. \A a \in Accepts : /\ call'[a].end = call[a].end /\ call'[a].id = call[a].id
                           /\ call[a].pc # "idle" => call'[a].pc # "idle"
                           /\ call'[a].pc \in {"given", "ok"} => call[a].pc = call'[a].pc
    <3> SUFFICES ASSUME NEW b \in Accepts
                 PROVE  /\ call'[b].end = call[b].end /\ call'[b].id = call[b].id
                        /\ call[b].pc # "idle" => call'[b].pc # "idle"
                        /\ call'[b].pc \in {"given", "ok"} => call[b].pc = call'[b].pc
      OBVIOUS
    <3>1. CASE call'[b] = call[b]
      BY <3>1
    <3>2. CASE call'[b] = [end |-> call[b].end, id |-> call[b].id, pc |-> "cancelled"]
      BY <3>2
    <3> QED
      BY <1>0, <2>5, <3>1, <3>2
  <2>9. Entries'
    <3> SUFFICES ASSUME NEW f \in Ends, NEW j \in Ids, pending'[f][j] # NoCall
                 PROVE  /\ call'[pending'[f][j]].end = f
                        /\ call'[pending'[f][j]].id = j
                        /\ call'[pending'[f][j]].pc # "idle"
                        /\ \A d \in Dials : taken'[d] # pending'[f][j]
      BY DEF Entries
    <3>1. pending[f][j] \in Accepts \cup {NoCall}
      BY DEF BrokerTypeOK
    <3>2. pending'[f][j] = pending[f][j] /\ pending[f][j] \in Accepts /\ taken' = taken
      BY <2>1, <2>7, <3>1
    <3> QED
      BY <1>00, <2>8, <3>2 DEF Entries
  <2>10. TakenOnce'
    <3>1. \A d \in Dials : taken[d] \in Accepts \cup {NoCall}
      BY DEF BrokerTypeOK
    <3> QED
      BY <1>00, <2>1, <2>8, <3>1 DEF TakenOnce
  <2>11. Streams' /\ Given'
    BY <1>00, <2>1, <2>6, <2>8 DEF Streams, Given
  <2> QED
    BY <2>9, <2>10, <2>11 DEF Pairing
<1>7. CASE ConnectionFails
  BY <1>7 DEF ConnectionFails, Pairing, Entries, TakenOnce, Streams, Given
<1>8. CASE UNCHANGED brokerVars
  BY <1>8 DEF brokerVars, Pairing, Entries, TakenOnce, Streams, Given
<1> QED
  BY <1>1, <1>2, <1>3, <1>4, <1>5, <1>6, <1>7, <1>8 DEF BrokerNext

----------------------------------------------------------------------------
(* The broker implements the rendezvous.  What a step does to the mapped     *)
(* variables is one of three things.                                         *)

Partners == Accepts \cup Dials

\* The call c looks to the rendezvous as it did before.
Unseen(c) == Made(c)' = Made(c) /\ ResultOf(c)' = ResultOf(c)

LEMMA SeenAsStutter ==
  ASSUME \A c \in Partners : Unseen(c), UNCHANGED taken
  PROVE  UNCHANGED R!vars
BY DEF R!vars, Unseen, Partners

LEMMA SeenAsCall ==
  ASSUME NEW c \in Partners, NEW e \in Ends, NEW i \in Ids, call[c].pc = "idle",
         call'[c].end = e, call'[c].id = i, call'[c].pc \in {"waiting", "opening"},
         \A b \in Partners \ {c} : Unseen(b), UNCHANGED taken
  PROVE  R!Next
<1> DEFINE made == [b \in Accepts \cup Dials |-> Made(b)]
           result == [b \in Accepts \cup Dials |-> ResultOf(b)]
<1>1. Made(c) = <<>> /\ ResultOf(c) = "none"
  BY DEF Made, ResultOf
<1>2. Made(c)' = <<e, i>> /\ ResultOf(c)' = "none"
  BY DEF Made, ResultOf
<1>3. made' = [made EXCEPT ![c] = <<e, i>>]
  BY <1>2 DEF Unseen, Partners
<1>4. result' = result
  BY <1>1, <1>2 DEF Unseen, Partners
<1>5. R!Call(c)
  BY <1>1, <1>3, <1>4 DEF R!Call, Partners
<1> QED
  BY <1>5 DEF R!Next, R!Calls, Partners

LEMMA SeenAsReturn ==
  ASSUME NEW c \in Partners, NEW p \in {"ok", "failed"},
         call[c].pc \notin {"idle", "ok", "failed"},
         call'[c].end = call[c].end, call'[c].id = call[c].id, call'[c].pc = p,
         \A b \in Partners \ {c} : Unseen(b), UNCHANGED taken,
         p = "ok" => R!Paired(c)
  PROVE  R!Next
<1> DEFINE made == [b \in Accepts \cup Dials |-> Made(b)]
           result == [b \in Accepts \cup Dials |-> ResultOf(b)]
<1>1. ResultOf(c) = "none" /\ ResultOf(c)' = p /\ Made(c)' = Made(c) /\ Made(c) # <<>>
  BY DEF ResultOf, Made
<1>2. made' = made
  BY <1>1 DEF Unseen, Partners
<1>3. result' = [result EXCEPT ![c] = p]
  BY <1>1 DEF Unseen, Partners
<1>4. CASE p = "ok"
  <2>1. R!ReturnOk(c)
    BY <1>1, <1>2, <1>3, <1>4 DEF R!ReturnOk, Partners
  <2> QED
    BY <2>1 DEF R!Next, R!Calls, Partners
<1>5. CASE p = "failed"
  <2>1. {c} \in SUBSET {b \in R!Calls : made[b] # <<>> /\ result[b] = "none"}
    BY <1>1 DEF R!Calls, Partners
  <2>2. result' = [b \in R!Calls |-> IF b \in {c} THEN "failed" ELSE result[b]]
    BY <1>3, <1>5 DEF R!Calls, Partners
  <2>3. R!ReturnFailed
    BY <1>2, <2>1, <2>2 DEF R!ReturnFailed
  <2> QED
    BY <2>3 DEF R!Next
<1> QED
  BY <1>4, <1>5

LEMMA TakenIsPaired ==
  ASSUME NEW a \in Accepts, NEW d \in Dials, taken[d] = a
  PROVE  R!Paired(a) /\ R!Paired(d)
<1>1. <<a, d>> \in {p \in Accepts \X Dials : taken[p[2]] = p[1]}
  OBVIOUS
<1> QED
  BY <1>1 DEF R!Paired

\* Every step of the broker is a step of the rendezvous or leaves it alone.
LEMMA RendezvousStep == BrokerTypeOK /\ Pairing /\ [BrokerNext]_brokerVars => [R!Next]_(R!vars)
<1> USE MuxBrokerAssumption
<1> SUFFICES ASSUME BrokerTypeOK, Pairing, [BrokerNext]_brokerVars PROVE [R!Next]_(R!vars)
  OBVIOUS
<1>0. /\ Accepts \subseteq BrokerCalls /\ Dials \subseteq BrokerCalls /\ Closes \subseteq BrokerCalls
      /\ Accepts \cap Dials = {} /\ Accepts \cap Closes = {} /\ Dials \cap Closes = {}
      /\ Partners = Accepts \cup Dials
  BY DEF BrokerCalls, Partners
<1>00. Entries /\ TakenOnce /\ Streams /\ Given
  BY DEF Pairing
<1>000. ASSUME NEW D, NEW c \in BrokerCalls, NEW r \in Ends \X Ids, NEW p \in BrokerStates,
               call' = Cancelling(D, c, r, p)
        PROVE  \A b \in Partners \ {c} : Unseen(b)
  <2> SUFFICES ASSUME NEW b \in Partners \ {c} PROVE Unseen(b)
    OBVIOUS
  <2>1. CASE call'[b] = call[b]
    BY <2>1 DEF Unseen, Made, ResultOf
  <2>2. CASE /\ call[b].pc = "waiting"
             /\ call'[b] = [end |-> call[b].end, id |-> call[b].id, pc |-> "cancelled"]
    BY <2>2 DEF Unseen, Made, ResultOf
  <2>3. \/ call'[b] = call[b]
        \/ /\ call[b].pc = "waiting"
           /\ call'[b] = [end |-> call[b].end, id |-> call[b].id, pc |-> "cancelled"]
    BY <1>0, <1>000 DEF Cancelling, BrokerTypeOK
  <2> QED
    BY <2>1, <2>2, <2>3
<1>1. ASSUME NEW a \in Accepts, Accept(a) PROVE R!Next
  <2>1. PICK r \in Requests(a) :
          /\ call[a].pc = "idle"
          /\ call' = Cancelling({pending[r[1]][r[2]]}, a, r, "waiting")
          /\ UNCHANGED <<up, inbound, taken>>
    BY <1>1 DEF Accept
  <2>2. r \in Ends \X Ids
    BY <1>0
  <2> DEFINE D == {pending[r[1]][r[2]]}
  <2>3. call' = Cancelling(D, a, r, "waiting")
    BY <2>1
  <2> HIDE DEF D
  <2>4. \A b \in Partners \ {a} : Unseen(b)
    BY <1>0, <1>000, <2>2, <2>3 DEF BrokerStates
  <2>5. call'[a] = [end |-> r[1], id |-> r[2], pc |-> "waiting"]
    BY <1>0, <2>3 DEF Cancelling
  <2>6. r[1] \in Ends /\ r[2] \in Ids
    BY <2>2
  <2>7. call'[a].end = r[1] /\ call'[a].id = r[2] /\ call'[a].pc = "waiting" /\ UNCHANGED taken
    BY <2>1, <2>5
  <2> QED
    BY <1>0, <2>1, <2>4, <2>6, <2>7, SeenAsCall
<1>2. ASSUME NEW a \in Accepts, AcceptStep(a) PROVE R!Next
  <2>1. PICK p \in {"ok", "failed"} :
          /\ Move(a, p) /\ UNCHANGED taken
          /\ call[a].pc \in {"given", "waiting", "cancelled"}
          /\ p = "ok" => call[a].pc = "given"
    BY <1>2 DEF AcceptStep, AcceptReturns, AcceptFails
  <2>2. /\ call'[a] = [end |-> call[a].end, id |-> call[a].id, pc |-> p]
        /\ \A b \in BrokerCalls \ {a} : call'[b] = call[b]
    BY <1>0, <2>1, MoveEffect DEF BrokerStates
  <2>3. p = "ok" => R!Paired(a)
    <3>1. p = "ok" => \E d \in Dials : taken[d] = a
      BY <1>00, <2>1 DEF Given
    <3> QED
      BY <3>1, TakenIsPaired
  <2>4. \A b \in Partners \ {a} : Unseen(b)
    BY <1>0, <2>2 DEF Unseen, Made, ResultOf
  <2> QED
    BY <1>0, <2>1, <2>2, <2>3, <2>4, SeenAsReturn
<1>3. ASSUME NEW d \in Dials, Dial(d) PROVE R!Next
  <2>1. PICK r \in Requests(d) :
          /\ call[d].pc = "idle"
          /\ call' = [call EXCEPT ![d] = [end |-> r[1], id |-> r[2], pc |-> "opening"]]
          /\ UNCHANGED <<pending, up, inbound, taken>>
    BY <1>3 DEF Dial
  <2>2. r[1] \in Ends /\ r[2] \in Ids
    BY <1>0
  <2>3. /\ call'[d] = [end |-> r[1], id |-> r[2], pc |-> "opening"]
        /\ \A b \in BrokerCalls \ {d} : call'[b] = call[b]
    BY <1>0, <2>1 DEF BrokerTypeOK
  <2>4. \A b \in Partners \ {d} : Unseen(b)
    BY <1>0, <2>3 DEF Unseen, Made, ResultOf
  <2> QED
    BY <1>0, <2>1, <2>2, <2>3, <2>4, SeenAsCall
<1>4. ASSUME NEW d \in Dials, DialStep(d) PROVE [R!Next]_(R!vars)
  <2>1. PICK p \in {"opened", "ok", "failed"} :
          /\ Move(d, p) /\ UNCHANGED taken
          /\ call[d].pc \in {"opening", "opened", "acknowledged"}
          /\ p = "ok" => call[d].pc = "acknowledged"
    BY <1>4 DEF DialStep, DriverOpens, DialReturns, DialFails
  <2>2. /\ call'[d] = [end |-> call[d].end, id |-> call[d].id, pc |-> p]
        /\ \A b \in BrokerCalls \ {d} : call'[b] = call[b]
    BY <1>0, <2>1, MoveEffect DEF BrokerStates
  <2>3. \A b \in Partners \ {d} : Unseen(b)
    BY <1>0, <2>2 DEF Unseen, Made, ResultOf
  <2>4. CASE p = "opened"
    <3>1. Unseen(d)
      BY <2>1, <2>2, <2>4 DEF Unseen, Made, ResultOf
    <3> QED
      BY <2>1, <2>3, <3>1, SeenAsStutter
  <2>5. CASE p # "opened"
    <3>1. p = "ok" => R!Paired(d)
      <4>1. p = "ok" => taken[d] \in Accepts
        BY <1>00, <2>1 DEF Streams, BrokerTypeOK
      <4> QED
        BY <4>1, TakenIsPaired
    <3> QED
      BY <1>0, <2>1, <2>2, <2>3, <2>5, <3>1, SeenAsReturn
  <2> QED
    BY <2>4, <2>5
<1>5. ASSUME NEW d \in Dials, InboundLooksUp(d) PROVE [R!Next]_(R!vars)
  <2> DEFINE e == CHOOSE f \in Ends : f # call[d].end
             a == pending[e][call[d].id]
             met == {q \in Accepts \X Dials : taken[q[2]] = q[1]}
             made == [b \in Accepts \cup Dials |-> Made(b)]
             result == [b \in Accepts \cup Dials |-> ResultOf(b)]
  <2>1. e \in Ends /\ e # call[d].end /\ call[d].id \in Ids
    BY <1>0, OtherEnd DEF BrokerTypeOK
  <2>2. UNCHANGED call /\ taken[d] = NoCall /\ inbound[d] = "arrived"
    BY <1>00, <1>5 DEF InboundLooksUp, Streams
  <2>3. \A b \in Partners : Unseen(b)
    BY <2>2 DEF Unseen, Made, ResultOf
  <2>4. CASE up /\ a # NoCall
    <3>1. taken' = [taken EXCEPT ![d] = a]
      BY <1>5, <2>4 DEF InboundLooksUp
    <3> HIDE DEF e
    <3>2. a \in Accepts
      BY <2>1, <2>4 DEF BrokerTypeOK
    <3>3. /\ call[a].end = e /\ call[a].id = call[d].id /\ call[a].pc # "idle"
          /\ \A f \in Dials : taken[f] # a
      BY <1>00, <2>1, <2>4 DEF Entries
    <3> HIDE DEF a
    <3>4. call[d].pc # "idle"
      BY <1>00, <2>2 DEF Streams
    <3>5. made[a] = <<e, call[d].id>> /\ made[d] = <<call[d].end, call[d].id>>
      BY <3>2, <3>3, <3>4 DEF Made
    <3>6. ~R!Paired(a) /\ ~R!Paired(d)
      <4>1. \A q \in met : q[1] # a /\ q[2] # d
        BY <1>0, <2>2, <3>3
      <4>2. \A q \in met : q[2] # a /\ q[1] # d
        BY <1>0, <3>2
      <4> QED
        BY <4>1, <4>2 DEF R!Paired
    <3>7. met' = met \cup {<<a, d>>}
      <4>1. taken'[d] = a /\ \A f \in Dials \ {d} : taken'[f] = taken[f]
        BY <3>1 DEF BrokerTypeOK
      <4> QED
        BY <1>0, <2>2, <3>2, <4>1
    <3>8. UNCHANGED <<made, result>>
      BY <2>3 DEF Unseen, Partners
    <3>9. R!Meet(a, d)
      <4> HIDE DEF made
      <4>1. made[a] # <<>> /\ made[d] # <<>>
        BY <3>5
      <4>2. made[a][1] # made[d][1] /\ made[a][2] = made[d][2]
        BY <2>1, <3>5
      <4> QED
        BY <3>6, <3>7, <3>8, <4>1, <4>2, Zenon DEF R!Meet, made
    <3> QED
      BY <3>2, <3>9 DEF R!Next
  <2>5. CASE ~(up /\ a # NoCall)
    <3>1. UNCHANGED taken
      BY <1>5, <2>5 DEF InboundLooksUp
    <3> QED
      BY <2>3, <3>1, SeenAsStutter
  <2> QED
    BY <2>4, <2>5
<1>6. ASSUME NEW d \in Dials, InboundAcknowledges(d) \/ InboundHandsOver(d)
      PROVE  UNCHANGED R!vars
  <2>1. UNCHANGED taken
    BY <1>6 DEF InboundAcknowledges, InboundHandsOver
  <2>2. \/ UNCHANGED call
        \/ call[d].pc = "opened" /\ Move(d, "acknowledged")
        \/ taken[d] \in Accepts /\ call[taken[d]].pc = "waiting" /\ Move(taken[d], "given")
    BY <1>00, <1>6 DEF InboundAcknowledges, InboundHandsOver, Streams, BrokerTypeOK
  <2>3. ASSUME NEW c \in BrokerCalls, NEW p \in {"acknowledged", "given"}, Move(c, p),
               call[c].pc \in {"opened", "waiting"}
        PROVE  \A b \in Partners : Unseen(b)
    <3>1. /\ call'[c] = [end |-> call[c].end, id |-> call[c].id, pc |-> p]
          /\ \A b \in BrokerCalls \ {c} : call'[b] = call[b]
      BY <2>3, MoveEffect DEF BrokerStates
    <3> QED
      BY <1>0, <2>3, <3>1 DEF Unseen, Made, ResultOf
  <2>4. \A b \in Partners : Unseen(b)
    BY <1>0, <2>2, <2>3 DEF Unseen, Made, ResultOf
  <2> QED
    BY <2>1, <2>4, SeenAsStutter
<1>7. ASSUME NEW k \in Closes, Close(k) PROVE UNCHANGED R!vars
  <2>1. PICK r \in Requests(k) :
          /\ call' = Cancelling({pending[r[1]][i] : i \in Ids}, k, r, "ok")
          /\ UNCHANGED <<up, inbound, taken>>
    BY <1>7 DEF Close
  <2>2. r \in Ends \X Ids
    BY <1>0
  <2> DEFINE D == {pending[r[1]][i] : i \in Ids}
  <2>3. call' = Cancelling(D, k, r, "ok")
    BY <2>1
  <2> HIDE DEF D
  <2>4. \A b \in Partners \ {k} : Unseen(b)
    BY <1>0, <1>000, <2>2, <2>3 DEF BrokerStates
  <2> QED
    BY <1>0, <2>1, <2>4, SeenAsStutter
<1>8. CASE ConnectionFails \/ UNCHANGED brokerVars
  BY <1>8, SeenAsStutter DEF ConnectionFails, brokerVars, Unseen, Made, ResultOf
<1> QED
  BY <1>1, <1>2, <1>3, <1>4, <1>5, <1>6, <1>7, <1>8 DEF BrokerNext, InboundStep

\* A step of the control connection leaves the broker alone.
LEMMA OnlyOneSteps == [Next]_vars => /\ [BrokerNext]_brokerVars /\ [RpcNext]_rpcVars
BY DEF Next, vars

LEMMA BrokerHolds == FairSpec => [](BrokerTypeOK /\ Pairing)
<1>1. Init => BrokerTypeOK /\ Pairing
  <2> SUFFICES ASSUME BrokerInit PROVE BrokerTypeOK /\ Pairing
    BY DEF Init
  <2>1. (CHOOSE i \in Ids : TRUE) \in Ids
    BY MuxBrokerAssumption
  <2>2. BrokerTypeOK
    BY <2>1 DEF BrokerInit, BrokerTypeOK, Ends
  <2>3. Accepts \subseteq BrokerCalls /\ Dials \subseteq BrokerCalls
    BY DEF BrokerCalls
  <2>4. Pairing
    BY <2>3 DEF BrokerInit, Pairing, Entries, TakenOnce, Streams, Given
  <2> QED
    BY <2>2, <2>4
<1> QED
  BY <1>1, BrokerTypeStep, PairingStep, OnlyOneSteps, PTL DEF FairSpec

\* The accepts and dials of a plugin connection are paired as the rendezvous
\* says: with a call of the other end for the same id, each at most once, and a
\* call that returns Ok has been paired (mux_broker.rs, both ends of it).
THEOREM Implements == FairSpec => ImplementsRendezvous
<1>1. Init => R!Init
  <2> SUFFICES ASSUME BrokerInit PROVE R!Init
    BY DEF Init
  <2>1. \A c \in Accepts \cup Dials : Made(c) = <<>> /\ ResultOf(c) = "none"
    BY DEF BrokerInit, BrokerCalls, Made, ResultOf
  <2>2. {p \in Accepts \X Dials : taken[p[2]] = p[1]} = {}
    BY MuxBrokerAssumption DEF BrokerInit, BrokerCalls
  <2> QED
    BY <2>1, <2>2 DEF R!Init, R!Calls
<1> QED
  BY <1>1, BrokerHolds, RendezvousStep, OnlyOneSteps, PTL
     DEF FairSpec, ImplementsRendezvous, R!Spec

----------------------------------------------------------------------------
(* The control connection.                                                  *)

RpcRecord == [method : Methods, seq : Nat, answered : Nat,
              pc : {"idle"} \cup Pending \cup Finished]
Request == [method : Methods \cup {"torn"}, seq : Nat]
Answer  == [seq : Nat, error : BOOLEAN]

\* RpcTypeOK with names for its records.
RpcTypes ==
  /\ rpc \in [RpcCalls -> RpcRecord]
  /\ seq \in Nat \ {0}
  /\ control \in RpcCalls \cup {NoRpc}
  /\ requests \in Seq(Request)
  /\ answers \in Seq(Answer)
  /\ stray \in {"none", "start", "inside"}
  /\ serving \in BOOLEAN
  /\ nextId \in Nat \ {0}
  /\ dispensed \in Seq(Nat)

\* One call moves to another state of its own.
LEMMA RpcMoves ==
  ASSUME rpc \in [RpcCalls -> RpcRecord], NEW r \in RpcCalls,
         NEW p \in {"idle"} \cup Pending \cup Finished
  PROVE  [rpc EXCEPT ![r].pc = p] \in [RpcCalls -> RpcRecord]
BY DEF RpcRecord

\* The lock is with the call that uses the stream.
OneHolds ==
  \A r \in RpcCalls : rpc[r].pc \in {"locked", "waiting", "reading", "astray"} => control = r

\* A call that has read a length has its answer on the stream.
BodyComes == \A r \in RpcCalls : rpc[r].pc = "reading" => answers # <<>>

Reading == OneHolds /\ BodyComes

\* What a call may take from the stream: nothing, one answer, or all of them
\* when it ends.
Taking ==
  \/ answers' = answers
  \/ answers # <<>> /\ answers' = Tail(answers)
  \/ answers' = <<>>

\* A step of a call at the stream that accepts no answer: its state alone may
\* change, the lock may be released, and answers may be lost.
Loses(r) ==
  /\ rpc[r].pc \in Pending
  /\ \/ rpc' = rpc
     \/ \E p \in {"reading", "astray", "oversize", "garbled", "broken", "cancelled"} :
          rpc' = [rpc EXCEPT ![r].pc = p]
  /\ Taking
  /\ stray' \in {"none", "start", "inside"}
  /\ control' \in {control, NoRpc}
  /\ UNCHANGED <<seq, serving, nextId, dispensed>>

LEMMA LosesAnswered ==
  ASSUME RpcTypes, Reading, NEW r \in RpcCalls,
         RpcReadsLength(r) \/ RpcMisreads(r) \/ RpcSwallows(r) \/ RpcBroken(r)
  PROVE  Loses(r) /\ UNCHANGED requests
<1>1. CASE RpcReadsLength(r)
  BY <1>1 DEF RpcReadsLength, Loses, Taking, RpcTypes, Pending
<1>2. CASE RpcMisreads(r)
  <2>1. /\ rpc[r].pc = "waiting"
        /\ \E p \in {"oversize", "astray"} : rpc' = [rpc EXCEPT ![r].pc = p]
        /\ control' = NoRpc \/ control' = control
        /\ UNCHANGED <<seq, requests, serving, nextId, dispensed>>
    BY <1>2 DEF RpcMisreads
  <2>2. stray' = "inside" \/ stray' = "none" \/ stray' = stray
    BY <1>2, Zenon DEF RpcMisreads
  <2>3. Taking
    BY <1>2, Zenon DEF RpcMisreads, Taking
  <2> QED
    BY <2>1, <2>2, <2>3 DEF Loses, RpcTypes, Pending
<1>3. CASE RpcSwallows(r)
  <2>1. /\ rpc[r].pc = "astray"
        /\ rpc' = rpc \/ rpc' = [rpc EXCEPT ![r].pc = "garbled"]
        /\ control' = NoRpc \/ control' = control
        /\ UNCHANGED <<seq, requests, serving, nextId, dispensed>>
    BY <1>3, Zenon DEF RpcSwallows
  <2>2. stray' \in {"none", "inside"}
    BY <1>3 DEF RpcSwallows
  <2>3. Taking
    BY <1>3, Zenon DEF RpcSwallows, Taking
  <2> QED
    BY <2>1, <2>2, <2>3 DEF Loses, RpcTypes, Pending
<1>4. CASE RpcBroken(r)
  BY <1>4 DEF RpcBroken, Loses, Taking, Pending
<1> QED
  BY <1>1, <1>2, <1>3, <1>4

LEMMA LosesCancelled ==
  ASSUME RpcTypes, Reading, NEW r \in RpcCalls, RpcCancelled(r)
  PROVE  /\ Loses(r)
         /\ rpc' = [rpc EXCEPT ![r].pc = "cancelled"]
         /\ \/ requests' = requests
            \/ requests' = Append(requests, [method |-> "torn", seq |-> rpc[r].seq])
<1>1. /\ rpc[r].pc \in Pending
      /\ rpc' = [rpc EXCEPT ![r].pc = "cancelled"]
      /\ control' = NoRpc \/ control' = control
      /\ UNCHANGED <<seq, serving, nextId, dispensed>>
  BY DEF RpcCancelled
<1>2. \/ requests' = requests
      \/ requests' = Append(requests, [method |-> "torn", seq |-> rpc[r].seq])
  BY Zenon DEF RpcCancelled
<1>3. Taking /\ stray' \in {"none", "start", "inside"}
  <2>1. CASE rpc[r].pc = "reading"
    BY <2>1 DEF RpcCancelled, Taking, Reading, BodyComes
  <2>2. CASE rpc[r].pc # "reading"
    BY <2>2 DEF RpcCancelled, Taking, RpcTypes
  <2> QED
    BY <2>1, <2>2
<1> QED
  BY <1>1, <1>2, <1>3 DEF Loses

\* Every step of the control connection keeps its variables in their types.
LEMMA RpcTypeStep == RpcTypeOK /\ Reading /\ [RpcNext]_rpcVars => RpcTypeOK'
<1> SUFFICES ASSUME RpcTypes, Reading, [RpcNext]_rpcVars PROVE RpcTypes'
  BY DEF RpcTypeOK, RpcTypes, RpcRecord, Request, Answer
<1> USE RpcControlAssumption
<1>0. \A r \in RpcCalls : /\ rpc[r].method \in Methods /\ rpc[r].seq \in Nat
                          /\ [method |-> rpc[r].method, seq |-> rpc[r].seq] \in Request
                          /\ [method |-> "torn", seq |-> rpc[r].seq] \in Request
  BY DEF RpcTypes, RpcRecord, Request
<1>1. ASSUME NEW r \in RpcCalls, RpcBegin(r) PROVE RpcTypes'
  <2>1. PICK m \in Asks(r) :
          rpc' = [rpc EXCEPT ![r].method = m, ![r].seq = seq, ![r].pc = "queued"]
    BY <1>1 DEF RpcBegin
  <2>2. rpc' \in [RpcCalls -> RpcRecord]
    <3>1. m \in Methods /\ seq \in Nat
      BY DEF RpcTypes
    <3> QED
      BY <2>1, <3>1 DEF RpcTypes, RpcRecord, Pending
  <2> QED
    BY <1>1, <2>2 DEF RpcBegin, RpcTypes
<1>2. ASSUME NEW r \in RpcCalls, RpcLock(r) PROVE RpcTypes'
  BY <1>2, RpcMoves DEF RpcLock, RpcTypes, Pending
<1>3. ASSUME NEW r \in RpcCalls, RpcWrite(r) PROVE RpcTypes'
  <2>1. rpc' \in [RpcCalls -> RpcRecord]
    <3>1. rpc' = [rpc EXCEPT ![r].pc = "waiting"] \/ rpc' = [rpc EXCEPT ![r].pc = "broken"]
      BY <1>3, Zenon DEF RpcWrite
    <3>2. rpc \in [RpcCalls -> RpcRecord]
      BY DEF RpcTypes
    <3>3. [rpc EXCEPT ![r].pc = "waiting"] \in [RpcCalls -> RpcRecord]
      BY <3>2, RpcMoves DEF Pending
    <3>4. [rpc EXCEPT ![r].pc = "broken"] \in [RpcCalls -> RpcRecord]
      BY <3>2, RpcMoves DEF Finished
    <3> QED
      BY <3>1, <3>3, <3>4, Zenon
  <2>2. requests' \in Seq(Request)
    <3>1. \/ requests' = requests
          \/ requests' = Append(requests, [method |-> rpc[r].method, seq |-> rpc[r].seq])
      BY <1>3, Zenon DEF RpcWrite
    <3>2. requests \in Seq(Request)
      BY DEF RpcTypes
    <3>3. Append(requests, [method |-> rpc[r].method, seq |-> rpc[r].seq]) \in Seq(Request)
      BY <1>0, <3>2, AppendProperties, Zenon
    <3> QED
      BY <3>1, <3>2, <3>3, Zenon
  <2> QED
    BY <1>3, <2>1, <2>2 DEF RpcWrite, RpcTypes
<1>4. ASSUME NEW r \in RpcCalls, RpcRead(r) PROVE RpcTypes'
  <2>1. Head(answers) \in Answer /\ Tail(answers) \in Seq(Answer)
    BY <1>4, HeadTailProperties DEF RpcRead, RpcTypes, Reading, BodyComes
  <2>2. Outcome(r, Head(answers)) \in Finished
    BY DEF Outcome, Finished
  <2>3. Head(answers).seq \in Nat
    BY <2>1 DEF Answer
  <2>4. rpc' \in [RpcCalls -> RpcRecord]
    BY <1>4, <2>2, <2>3 DEF RpcRead, RpcRecord, RpcTypes
  <2> QED
    BY <1>4, <2>1, <2>4 DEF RpcRead, RpcTypes
<1>5. ASSUME NEW r \in RpcCalls, Loses(r), requests' \in Seq(Request) PROVE RpcTypes'
  <2>1. answers' \in Seq(Answer)
    <3>1. answers \in Seq(Answer) /\ <<>> \in Seq(Answer)
      BY EmptySeq DEF RpcTypes
    <3>2. answers # <<>> => Tail(answers) \in Seq(Answer)
      BY <3>1, HeadTailProperties
    <3> QED
      BY <1>5, <3>1, <3>2, Zenon DEF Loses, Taking
  <2>2. rpc' \in [RpcCalls -> RpcRecord]
    <3>1. rpc \in [RpcCalls -> RpcRecord]
      BY DEF RpcTypes
    <3>2. {"reading", "astray", "oversize", "garbled", "broken", "cancelled"}
            \subseteq {"idle"} \cup Pending \cup Finished
      BY DEF Pending, Finished
    <3>3. CASE rpc' = rpc
      BY <3>1, <3>3
    <3>4. CASE rpc' # rpc
      <4>1. PICK p \in {"idle"} \cup Pending \cup Finished : rpc' = [rpc EXCEPT ![r].pc = p]
        BY <1>5, <3>2, <3>4, Zenon DEF Loses
      <4> QED
        BY <3>1, <4>1, RpcMoves
    <3> QED
      BY <3>3, <3>4
  <2> QED
    BY <1>5, <2>1, <2>2 DEF Loses, RpcTypes
<1>6. ASSUME NEW r \in RpcCalls,
             RpcReadsLength(r) \/ RpcMisreads(r) \/ RpcSwallows(r) \/ RpcBroken(r) \/ RpcCancelled(r)
      PROVE  RpcTypes'
  <2>1. /\ Loses(r)
        /\ \/ requests' = requests
           \/ requests' = Append(requests, [method |-> "torn", seq |-> rpc[r].seq])
    BY <1>6, LosesAnswered, LosesCancelled
  <2>2. requests' \in Seq(Request)
    <3>1. requests \in Seq(Request)
      BY DEF RpcTypes
    <3>2. Append(requests, [method |-> "torn", seq |-> rpc[r].seq]) \in Seq(Request)
      BY <1>0, <3>1, AppendProperties, Zenon
    <3> QED
      BY <2>1, <3>1, <3>2, Zenon
  <2> QED
    BY <1>5, <2>1, <2>2
<1>7. CASE ServeRequest
  <2>1. Head(requests) \in Request /\ Tail(requests) \in Seq(Request)
    BY <1>7, HeadTailProperties DEF ServeRequest, RpcTypes
  <2>2. [seq |-> Head(requests).seq, error |-> Head(requests).method = "dispense_unknown"] \in Answer
    BY <2>1 DEF Request, Answer
  <2>3. answers' \in Seq(Answer)
    BY <1>7, <2>2, AppendProperties DEF ServeRequest, RpcTypes
  <2>4. nextId' \in Nat \ {0} /\ dispensed' \in Seq(Nat)
    <3>1. nextId + 1 \in Nat \ {0} /\ Append(dispensed, nextId) \in Seq(Nat)
      BY AppendProperties DEF RpcTypes
    <3>2. /\ nextId' = nextId \/ nextId' = nextId + 1
          /\ dispensed' = dispensed \/ dispensed' = Append(dispensed, nextId)
      BY <1>7, Zenon DEF ServeRequest
    <3> QED
      BY <3>1, <3>2, Zenon DEF RpcTypes
  <2> QED
    BY <1>7, <2>1, <2>3, <2>4 DEF ServeRequest, RpcTypes
<1>8. CASE ServeTorn \/ ServeEnds
  <2>1. requests' \in Seq(Request)
    <3>1. requests' = requests \/ requests' = <<>>
      BY <1>8, Zenon DEF ServeTorn, ServeEnds
    <3>2. requests \in Seq(Request) /\ <<>> \in Seq(Request)
      BY EmptySeq DEF RpcTypes
    <3> QED
      BY <3>1, <3>2, Zenon
  <2>2. serving' \in BOOLEAN /\ UNCHANGED <<rpc, seq, control, answers, stray, nextId, dispensed>>
    BY <1>8, Zenon DEF ServeTorn, ServeEnds
  <2> QED
    BY <2>1, <2>2, Zenon DEF RpcTypes
<1>9. CASE UNCHANGED rpcVars
  BY <1>9 DEF rpcVars, RpcTypes
<1> QED
  BY <1>1, <1>2, <1>3, <1>4, <1>5, <1>6, <1>7, <1>8, <1>9 DEF RpcNext, RpcStep, RpcAnswered, Serve

\* No step lets two calls use the stream, or takes an answer from under the call
\* that has read its length.
LEMMA ReadingStep == RpcTypeOK /\ Reading /\ [RpcNext]_rpcVars => Reading'
<1> SUFFICES ASSUME RpcTypes, Reading, [RpcNext]_rpcVars PROVE Reading'
  BY DEF RpcTypeOK, RpcTypes, RpcRecord, Request, Answer
<1> USE RpcControlAssumption
<1>0. OneHolds /\ BodyComes /\ rpc \in [RpcCalls -> RpcRecord]
  BY DEF Reading, RpcTypes
\* A call that releases the lock, or holds it alone and leaves an answer to its
\* own reading.
<1>1. ASSUME NEW r \in RpcCalls, \A s \in RpcCalls \ {r} : rpc'[s].pc = rpc[s].pc,
             \/ /\ rpc'[r].pc \notin {"locked", "waiting", "reading", "astray"}
                /\ control' = IF control = r THEN NoRpc ELSE control
                /\ control # r => answers' = answers
             \/ /\ rpc[r].pc \in {"locked", "waiting", "reading", "astray"} \/ control = NoRpc
                /\ control' = r
                /\ rpc'[r].pc = "reading" => answers' # <<>>
      PROVE  Reading'
  <2>1. ASSUME NEW s \in RpcCalls, rpc'[s].pc \in {"locked", "waiting", "reading", "astray"}
        PROVE  control' = s /\ (rpc'[s].pc = "reading" => answers' # <<>>)
    <3>1. CASE s = r
      BY <1>1, <2>1, <3>1
    <3>2. CASE s # r
      <4>1. rpc[s].pc = rpc'[s].pc /\ control = s /\ (rpc[s].pc = "reading" => answers # <<>>)
        BY <1>0, <1>1, <2>1, <3>2 DEF OneHolds, BodyComes
      <4>2. rpc[r].pc \notin {"locked", "waiting", "reading", "astray"} /\ control # NoRpc /\ control # r
        BY <1>0, <3>2, <4>1 DEF OneHolds
      <4> QED
        BY <1>1, <4>1, <4>2
    <3> QED
      BY <3>1, <3>2
  <2> QED
    BY <2>1 DEF Reading, OneHolds, BodyComes
<1>2. ASSUME NEW r \in RpcCalls, RpcBegin(r) PROVE Reading'
  <2>1. /\ (rpc'[r].pc = "queued" /\ control # r) \/ rpc[r].pc = "idle"
        /\ \A s \in RpcCalls \ {r} : rpc'[s].pc = rpc[s].pc
        /\ UNCHANGED <<control, answers>>
    BY <1>0, <1>2 DEF RpcBegin, RpcRecord
  <2> QED
    BY <1>0, <1>2, <2>1 DEF RpcBegin, RpcRecord, Reading, OneHolds, BodyComes
<1>3. ASSUME NEW r \in RpcCalls, RpcLock(r) \/ RpcReadsLength(r) PROVE Reading'
  BY <1>0, <1>1, <1>3 DEF RpcLock, RpcReadsLength, RpcRecord, OneHolds
<1>4. ASSUME NEW r \in RpcCalls, RpcWrite(r) PROVE Reading'
  BY <1>0, <1>1, <1>4 DEF RpcWrite, RpcRecord, OneHolds
<1>5. ASSUME NEW r \in RpcCalls, RpcRead(r) PROVE Reading'
  <2>1. rpc'[r].pc = Outcome(r, Head(answers)) /\ control = r /\ control' = NoRpc
        /\ \A s \in RpcCalls \ {r} : rpc'[s].pc = rpc[s].pc
    BY <1>0, <1>5 DEF RpcRead, RpcRecord, OneHolds
  <2>2. Outcome(r, Head(answers)) \in {"mismatch", "refused", "undecodable"}
    BY DEF Outcome
  <2> QED
    BY <1>1, <2>1, <2>2
<1>6. ASSUME NEW r \in RpcCalls, RpcMisreads(r) PROVE Reading'
  BY <1>0, <1>1, <1>6 DEF RpcMisreads, RpcRecord, OneHolds
<1>7. ASSUME NEW r \in RpcCalls, RpcSwallows(r) PROVE Reading'
  <2>1. rpc[r].pc = "astray" /\ control = r
    BY <1>0, <1>7 DEF RpcSwallows, OneHolds
  <2>2. /\ \A s \in RpcCalls \ {r} : rpc'[s].pc = rpc[s].pc
        /\ \/ rpc'[r].pc = "astray" /\ control' = r
           \/ rpc'[r].pc = "garbled" /\ control' = NoRpc
    BY <1>0, <1>7, <2>1 DEF RpcSwallows, RpcRecord
  <2> QED
    BY <1>1, <2>1, <2>2
<1>8. ASSUME NEW r \in RpcCalls, RpcBroken(r) PROVE Reading'
  BY <1>0, <1>1, <1>8 DEF RpcBroken, RpcRecord, OneHolds
<1>9. ASSUME NEW r \in RpcCalls, RpcCancelled(r) PROVE Reading'
  <2>1. /\ rpc'[r].pc = "cancelled" /\ control' = IF control = r THEN NoRpc ELSE control
        /\ \A s \in RpcCalls \ {r} : rpc'[s].pc = rpc[s].pc
    BY <1>0, <1>9 DEF RpcCancelled, RpcRecord
  <2>2. control # r => answers' = answers
    BY <1>0, <1>9 DEF RpcCancelled, OneHolds
  <2> QED
    BY <1>1, <2>1, <2>2
<1>10. CASE ServeRequest
  <2>1. UNCHANGED <<rpc, control>> /\ answers' # <<>>
    <3> DEFINE n == [seq |-> Head(requests).seq, error |-> Head(requests).method = "dispense_unknown"]
    <3>1. UNCHANGED <<rpc, control>> /\ answers' = Append(answers, n)
      BY <1>10 DEF ServeRequest
    <3>2. answers \in Seq(Answer) /\ Head(requests) \in Request
      BY <1>10, HeadTailProperties DEF ServeRequest, RpcTypes
    <3>3. n \in Answer
      BY <3>2 DEF Request, Answer
    <3> HIDE DEF n
    <3> QED
      BY <3>1, <3>2, <3>3, AppendProperties
  <2> QED
    BY <1>0, <2>1 DEF Reading, OneHolds, BodyComes
<1>11. CASE ServeTorn \/ ServeEnds \/ UNCHANGED rpcVars
  <2>1. UNCHANGED <<rpc, control, answers>>
    BY <1>11, Zenon DEF ServeTorn, ServeEnds, rpcVars
  <2> QED
    BY <1>0, <2>1 DEF Reading, OneHolds, BodyComes
<1> QED
  BY <1>2, <1>3, <1>4, <1>5, <1>6, <1>7, <1>8, <1>9, <1>10, <1>11
     DEF RpcNext, RpcStep, RpcAnswered, Serve

\* The types of the control connection, and who reads from its stream.
LEMMA RpcHolds == FairSpec => [](RpcTypeOK /\ Reading)
<1>1. Init => RpcTypeOK /\ Reading
  BY DEF Init, RpcInit, RpcTypeOK, Methods, Reading, OneHolds, BodyComes
<1> QED
  BY <1>1, RpcTypeStep, ReadingStep, OnlyOneSteps, PTL DEF FairSpec

\* Types of the broker and of the control connection.
THEOREM TypeCorrect == FairSpec => []TypeOK
BY BrokerHolds, RpcHolds, PTL DEF TypeOK

----------------------------------------------------------------------------
(* Whose answer it is.                                                      *)

Begun(r) == rpc[r].pc # "idle"

\* No number is given twice, and none that is out is the next one.
Numbered ==
  \A r \in RpcCalls :
    Begun(r) => /\ rpc[r].seq < seq
                /\ \A s \in RpcCalls : Begun(s) /\ rpc[s].seq = rpc[r].seq => s = r

\* What is on its way to the server says what the call of that number asks,
\* unless it is torn.
RequestsOwned ==
  \A i \in 1..Len(requests) :
    /\ requests[i].seq < seq
    /\ requests[i].method # "torn" =>
         \A r \in RpcCalls : Begun(r) /\ rpc[r].seq = requests[i].seq =>
                               rpc[r].method = requests[i].method

\* What is on its way back is a refusal exactly when the call of that number
\* asks for a plugin the server does not have.
AnswersOwned ==
  \A i \in 1..Len(answers) :
    /\ answers[i].seq < seq
    /\ \A r \in RpcCalls : Begun(r) /\ rpc[r].seq = answers[i].seq =>
                             (answers[i].error <=> rpc[r].method = "dispense_unknown")

Owned == Numbered /\ RequestsOwned /\ AnswersOwned /\ AnswersMatch

\* One call moves from one state to the next, and keeps its method and number.
LEMMA CallMoves ==
  ASSUME RpcTypes, NEW r \in RpcCalls,
         NEW p \in {"idle"} \cup Pending \cup Finished,
         rpc' = [rpc EXCEPT ![r].pc = p]
  PROVE  /\ rpc'[r].pc = p /\ rpc'[r].answered = rpc[r].answered
         /\ \A s \in RpcCalls : rpc'[s].method = rpc[s].method /\ rpc'[s].seq = rpc[s].seq
         /\ \A s \in RpcCalls \ {r} : rpc'[s] = rpc[s]
BY DEF RpcTypes, RpcRecord

\* No call begins, and every call keeps its method and its number.
CallsKept ==
  /\ seq' = seq
  /\ \A r \in RpcCalls : /\ Begun(r)' <=> Begun(r)
                         /\ rpc'[r].method = rpc[r].method
                         /\ rpc'[r].seq = rpc[r].seq

LEMMA NumberedKept == Numbered /\ CallsKept => Numbered'
BY DEF Numbered, CallsKept

LEMMA AnswersOwnedKept == AnswersOwned /\ CallsKept /\ UNCHANGED answers => AnswersOwned'
BY DEF AnswersOwned, CallsKept

LEMMA RequestsOwnedKept == RequestsOwned /\ CallsKept /\ UNCHANGED requests => RequestsOwned'
BY DEF RequestsOwned, CallsKept

\* A request of its own, whole or torn, joins the others.
LEMMA RequestWritten ==
  ASSUME RpcTypes, Numbered, RequestsOwned, CallsKept, NEW r \in RpcCalls, Begun(r),
         NEW q \in Request, q.seq = rpc[r].seq, q.method \in {rpc[r].method, "torn"},
         requests' = Append(requests, q)
  PROVE  RequestsOwned'
<1>1. requests \in Seq(Request)
  BY DEF RpcTypes
<1>2. /\ Len(requests') = Len(requests) + 1 /\ requests'[Len(requests) + 1] = q
      /\ \A i \in 1..Len(requests) : requests'[i] = requests[i]
  BY <1>1, AppendProperties
<1>3. q.seq < seq /\ \A s \in RpcCalls : Begun(s) /\ rpc[s].seq = q.seq => s = r
  BY DEF Numbered
<1> SUFFICES ASSUME NEW i \in 1..Len(requests')
             PROVE  /\ requests'[i].seq < seq'
                    /\ requests'[i].method # "torn" =>
                         \A s \in RpcCalls : Begun(s)' /\ rpc'[s].seq = requests'[i].seq =>
                                               rpc'[s].method = requests'[i].method
  BY DEF RequestsOwned
<1>4. CASE i = Len(requests) + 1
  BY <1>2, <1>3, <1>4 DEF CallsKept
<1>5. CASE i \in 1..Len(requests)
  BY <1>2, <1>5 DEF RequestsOwned, CallsKept
<1>6. Len(requests) \in Nat
  BY <1>1
<1> QED
  BY <1>2, <1>4, <1>5, <1>6

\* The first request is gone.
LEMMA RequestTaken ==
  ASSUME RpcTypes, RequestsOwned, CallsKept, requests # <<>>, requests' = Tail(requests)
  PROVE  RequestsOwned'
<1>1. /\ Len(requests') = Len(requests) - 1 /\ Len(requests) \in Nat
      /\ \A i \in 1..Len(requests') : requests'[i] = requests[i + 1]
  BY HeadTailProperties DEF RpcTypes
<1>2. \A i \in 1..Len(requests') : i + 1 \in 1..Len(requests)
  BY <1>1
<1> QED
  BY <1>1, <1>2 DEF RequestsOwned, CallsKept

\* Answers are taken or lost.
LEMMA AnswersTaken ==
  ASSUME RpcTypes, AnswersOwned, CallsKept, Taking
  PROVE  AnswersOwned'
<1>1. CASE answers' = answers
  BY <1>1, AnswersOwnedKept
<1>2. CASE answers # <<>> /\ answers' = Tail(answers)
  <2>1. /\ Len(answers') = Len(answers) - 1 /\ Len(answers) \in Nat
        /\ \A i \in 1..Len(answers') : answers'[i] = answers[i + 1]
    BY <1>2, HeadTailProperties DEF RpcTypes
  <2>2. \A i \in 1..Len(answers') : i + 1 \in 1..Len(answers)
    BY <2>1
  <2> QED
    <3> SUFFICES ASSUME NEW i \in 1..Len(answers')
                 PROVE  /\ answers'[i].seq < seq'
                        /\ \A s \in RpcCalls : Begun(s)' /\ rpc'[s].seq = answers'[i].seq =>
                             (answers'[i].error <=> rpc'[s].method = "dispense_unknown")
      BY DEF AnswersOwned
    <3>1. PICK j \in 1..Len(answers) : answers'[i] = answers[j]
      BY <2>1, <2>2
    <3>2. /\ answers[j].seq < seq
          /\ \A s \in RpcCalls : Begun(s) /\ rpc[s].seq = answers[j].seq =>
               (answers[j].error <=> rpc[s].method = "dispense_unknown")
      BY DEF AnswersOwned
    <3> QED
      BY <3>1, <3>2 DEF CallsKept
<1>3. CASE answers' = <<>>
  BY <1>3 DEF AnswersOwned
<1> QED
  BY <1>1, <1>2, <1>3 DEF Taking

\* Every step of the control connection keeps the answers to whom they belong.
LEMMA OwnedStep == RpcTypeOK /\ Reading /\ Owned /\ [RpcNext]_rpcVars => Owned'
<1> SUFFICES ASSUME RpcTypes, Reading, Owned, [RpcNext]_rpcVars PROVE Owned'
  BY DEF RpcTypeOK, RpcTypes, RpcRecord, Request, Answer
<1> USE RpcControlAssumption
<1>0. Numbered /\ RequestsOwned /\ AnswersOwned /\ AnswersMatch
  BY DEF Owned
<1>00. /\ seq \in Nat
       /\ \A r \in RpcCalls : /\ rpc[r].method \in Methods /\ rpc[r].seq \in Nat
                              /\ [method |-> rpc[r].method, seq |-> rpc[r].seq] \in Request
                              /\ [method |-> "torn", seq |-> rpc[r].seq] \in Request
  BY DEF RpcTypes, RpcRecord, Request
\* A call moves and takes no answer.
<1>000. ASSUME NEW r \in RpcCalls,
               NEW p \in Pending \cup {"oversize", "garbled", "broken", "cancelled"},
               rpc' = [rpc EXCEPT ![r].pc = p], Begun(r), UNCHANGED seq, Taking
        PROVE  CallsKept /\ Numbered' /\ AnswersOwned' /\ AnswersMatch'
  <2>1. /\ rpc'[r].pc = p /\ rpc'[r].answered = rpc[r].answered
        /\ \A s \in RpcCalls : rpc'[s].method = rpc[s].method /\ rpc'[s].seq = rpc[s].seq
        /\ \A s \in RpcCalls \ {r} : rpc'[s] = rpc[s]
    BY <1>000, CallMoves DEF Pending, Finished
  <2>2. CallsKept
    BY <1>000, <2>1 DEF CallsKept, Begun, Pending
  <2>3. AnswersMatch'
    BY <1>0, <1>000, <2>1 DEF AnswersMatch, Pending
  <2> QED
    BY <1>0, <1>000, <2>2, <2>3, NumberedKept, AnswersTaken
<1>1. ASSUME NEW r \in RpcCalls, RpcBegin(r) PROVE Owned'
  <2>1. PICK m \in Asks(r) :
          /\ rpc[r].pc = "idle"
          /\ rpc' = [rpc EXCEPT ![r].method = m, ![r].seq = seq, ![r].pc = "queued"]
          /\ seq' = seq + 1 /\ UNCHANGED <<requests, answers>>
    BY <1>1 DEF RpcBegin
  <2>2. /\ rpc'[r].pc = "queued" /\ rpc'[r].seq = seq
        /\ \A s \in RpcCalls \ {r} : rpc'[s] = rpc[s]
    BY <2>1 DEF RpcTypes, RpcRecord
  <2>3. /\ ~Begun(r) /\ Begun(r)' /\ seq' > seq /\ seq' \in Nat
        /\ \A s \in RpcCalls \ {r} : Begun(s)' <=> Begun(s)
    <3>1. ~Begun(r) /\ Begun(r)'
      BY <2>1, <2>2 DEF Begun
    <3>2. seq' > seq /\ seq' \in Nat
      BY <1>00, <2>1
    <3>3. \A s \in RpcCalls \ {r} : Begun(s)' <=> Begun(s)
      BY <2>2 DEF Begun
    <3> QED
      BY <3>1, <3>2, <3>3
  <2>4. \A s \in RpcCalls : Begun(s) => s # r /\ rpc[s].seq \in Nat /\ rpc[s].seq < seq
    BY <1>0, <1>00, <2>3 DEF Numbered
  <2>5. Numbered'
    <3> SUFFICES ASSUME NEW s \in RpcCalls, Begun(s)'
                 PROVE  /\ rpc'[s].seq < seq'
                        /\ \A t \in RpcCalls : Begun(t)' /\ rpc'[t].seq = rpc'[s].seq => t = s
      BY DEF Numbered
    <3>1. CASE s = r
      BY <1>00, <2>2, <2>3, <2>4, <3>1
    <3>2. CASE s # r
      <4>1. rpc'[s] = rpc[s] /\ Begun(s)
        BY <2>2, <2>3, <3>2
      <4> QED
        BY <1>0, <1>00, <2>2, <2>3, <2>4, <4>1 DEF Numbered
    <3> QED
      BY <3>1, <3>2
  <2>6. \A i \in 1..Len(requests) : requests[i].seq \in Nat
    <3>1. \A i \in 1..Len(requests) : requests[i] \in Request
      BY ElementOfSeq DEF RpcTypes
    <3> QED
      BY <3>1 DEF Request
  <2>7. RequestsOwned'
    <3> SUFFICES ASSUME NEW i \in 1..Len(requests)
                 PROVE  /\ requests[i].seq < seq'
                        /\ requests[i].method # "torn" =>
                             \A s \in RpcCalls : Begun(s)' /\ rpc'[s].seq = requests[i].seq =>
                                                   rpc'[s].method = requests[i].method
      <4>1. requests' = requests
        BY <2>1
      <4> QED
        BY <4>1 DEF RequestsOwned
    <3>1. requests[i].seq < seq
      BY <1>0 DEF RequestsOwned
    <3>2. requests[i].seq < seq' /\ requests[i].seq # rpc'[r].seq
      BY <1>00, <2>2, <2>3, <2>6, <3>1
    <3> QED
      BY <1>0, <2>2, <2>3, <3>2 DEF RequestsOwned
  <2>8. \A i \in 1..Len(answers) : answers[i].seq \in Nat
    <3>1. \A i \in 1..Len(answers) : answers[i] \in Answer
      BY ElementOfSeq DEF RpcTypes
    <3> QED
      BY <3>1 DEF Answer
  <2>9. AnswersOwned'
    <3> SUFFICES ASSUME NEW i \in 1..Len(answers)
                 PROVE  /\ answers[i].seq < seq'
                        /\ \A s \in RpcCalls : Begun(s)' /\ rpc'[s].seq = answers[i].seq =>
                             (answers[i].error <=> rpc'[s].method = "dispense_unknown")
      <4>1. answers' = answers
        BY <2>1
      <4> QED
        BY <4>1 DEF AnswersOwned
    <3>1. answers[i].seq < seq
      BY <1>0 DEF AnswersOwned
    <3>2. answers[i].seq < seq' /\ answers[i].seq # rpc'[r].seq
      BY <1>00, <2>2, <2>3, <2>8, <3>1
    <3> QED
      BY <1>0, <2>2, <2>3, <3>2 DEF AnswersOwned
  <2>10. AnswersMatch'
    BY <1>0, <2>2 DEF AnswersMatch
  <2> QED
    BY <2>5, <2>7, <2>9, <2>10 DEF Owned
<1>2. ASSUME NEW r \in RpcCalls, RpcLock(r) PROVE Owned'
  <2>1. rpc' = [rpc EXCEPT ![r].pc = "locked"] /\ Begun(r) /\ UNCHANGED <<seq, answers, requests>>
    BY <1>2 DEF RpcLock, Begun
  <2> QED
    BY <1>0, <1>000, <2>1, RequestsOwnedKept DEF Owned, Taking, Pending
<1>3. ASSUME NEW r \in RpcCalls, RpcWrite(r) PROVE Owned'
  <2>1. PICK p \in {"waiting", "broken"} :
          rpc' = [rpc EXCEPT ![r].pc = p] /\ Begun(r) /\ UNCHANGED <<seq, answers>>
    BY <1>3 DEF RpcWrite, Begun
  <2>2. \/ requests' = requests
        \/ requests' = Append(requests, [method |-> rpc[r].method, seq |-> rpc[r].seq])
    BY <1>3, Zenon DEF RpcWrite
  <2>3. CallsKept /\ Numbered' /\ AnswersOwned' /\ AnswersMatch'
    BY <1>000, <2>1 DEF Taking, Pending
  <2>4. RequestsOwned'
    BY <1>0, <1>00, <2>1, <2>2, <2>3, RequestWritten, RequestsOwnedKept
  <2> QED
    BY <2>3, <2>4 DEF Owned
<1>4. ASSUME NEW r \in RpcCalls, RpcRead(r) PROVE Owned'
  <2> DEFINE a == Head(answers)
  <2>1. /\ rpc[r].pc = "reading" /\ answers # <<>> /\ answers' = Tail(answers)
        /\ rpc' = [rpc EXCEPT ![r].pc = Outcome(r, a), ![r].answered = a.seq]
        /\ UNCHANGED <<seq, requests>>
    BY <1>4 DEF RpcRead, Reading, BodyComes
  <2>2. /\ a = answers[1] /\ 1 \in 1..Len(answers) /\ a \in Answer
        /\ Len(answers') = Len(answers) - 1 /\ Len(answers) \in Nat
        /\ \A i \in 1..Len(answers') : answers'[i] = answers[i + 1]
    BY <2>1, HeadTailProperties DEF RpcTypes
  <2>3. /\ rpc'[r].pc = Outcome(r, a) /\ rpc'[r].answered = a.seq
        /\ rpc'[r].method = rpc[r].method /\ rpc'[r].seq = rpc[r].seq
        /\ \A s \in RpcCalls \ {r} : rpc'[s] = rpc[s]
    BY <2>1 DEF RpcTypes, RpcRecord
  <2> HIDE DEF a
  <2>4. CallsKept
    <3>1. Outcome(r, a) # "idle"
      BY DEF Outcome
    <3> QED
      BY <2>1, <2>3, <3>1 DEF CallsKept, Begun
  <2>5. AnswersOwned'
    BY <1>0, <2>1, <2>4, AnswersTaken DEF Taking
  <2>6. a.seq = rpc[r].seq => (a.error <=> rpc[r].method = "dispense_unknown")
    BY <1>0, <2>1, <2>2 DEF AnswersOwned, Begun
  <2>7. rpc'[r].pc \in {"undecodable", "refused"} =>
          /\ a.seq = rpc[r].seq
          /\ rpc'[r].pc = "refused" <=> a.error
    <3>1. rpc'[r].pc = IF a.seq # rpc[r].seq THEN "mismatch"
                       ELSE IF a.error THEN "refused" ELSE "undecodable"
      BY <2>3 DEF Outcome
    <3> QED
      BY <3>1
  <2>8. AnswersMatch'
    BY <1>0, <2>3, <2>6, <2>7 DEF AnswersMatch
  <2> QED
    BY <1>0, <2>1, <2>4, <2>5, <2>8, NumberedKept, RequestsOwnedKept DEF Owned
<1>5. ASSUME NEW r \in RpcCalls,
             RpcReadsLength(r) \/ RpcMisreads(r) \/ RpcSwallows(r) \/ RpcBroken(r) \/ RpcCancelled(r)
      PROVE  Owned'
  <2>1. /\ Loses(r)
        /\ \/ requests' = requests
           \/ requests' = Append(requests, [method |-> "torn", seq |-> rpc[r].seq])
    BY <1>5, LosesAnswered, LosesCancelled
  <2>2. Begun(r) /\ UNCHANGED seq /\ Taking
    BY <2>1 DEF Loses, Begun, Pending
  <2>3. CallsKept /\ Numbered' /\ AnswersOwned' /\ AnswersMatch'
    <3>1. CASE rpc' = rpc
      <4>1. CallsKept /\ AnswersMatch'
        BY <1>0, <2>2, <3>1 DEF CallsKept, AnswersMatch, Begun
      <4> QED
        BY <1>0, <2>2, <4>1, NumberedKept, AnswersTaken
    <3>2. CASE rpc' # rpc
      <4>1. PICK p \in Pending \cup {"oversize", "garbled", "broken", "cancelled"} :
              rpc' = [rpc EXCEPT ![r].pc = p]
        BY <2>1, <3>2 DEF Loses, Pending
      <4> QED
        BY <1>000, <2>2, <4>1
    <3> QED
      BY <3>1, <3>2
  <2>4. RequestsOwned'
    BY <1>0, <1>00, <2>1, <2>2, <2>3, RequestWritten, RequestsOwnedKept
  <2> QED
    BY <2>3, <2>4 DEF Owned
<1>6. CASE ServeRequest
  <2> DEFINE q == Head(requests)
             n == [seq |-> q.seq, error |-> q.method = "dispense_unknown"]
  <2>1. /\ requests # <<>> /\ q.method # "torn" /\ requests' = Tail(requests)
        /\ answers' = Append(answers, n) /\ UNCHANGED <<rpc, seq>>
    BY <1>6 DEF ServeRequest
  <2>2. CallsKept /\ AnswersMatch'
    BY <1>0, <2>1 DEF CallsKept, Begun, AnswersMatch
  <2>3. q = requests[1] /\ 1 \in 1..Len(requests) /\ q \in Request
    BY <2>1, HeadTailProperties DEF RpcTypes
  <2>4. /\ q.seq < seq
        /\ \A r \in RpcCalls : Begun(r) /\ rpc[r].seq = q.seq => rpc[r].method = q.method
    BY <1>0, <2>1, <2>3 DEF RequestsOwned
  <2>5. n \in Answer
    BY <2>3 DEF Request, Answer
  <2>6. AnswersOwned'
    <3>1. answers \in Seq(Answer)
      BY DEF RpcTypes
    <3>2. /\ Len(answers') = Len(answers) + 1 /\ answers'[Len(answers) + 1] = n
          /\ Len(answers) \in Nat /\ \A i \in 1..Len(answers) : answers'[i] = answers[i]
      BY <2>1, <2>5, <3>1, AppendProperties
    <3> SUFFICES ASSUME NEW i \in 1..Len(answers')
                 PROVE  /\ answers'[i].seq < seq'
                        /\ \A r \in RpcCalls : Begun(r)' /\ rpc'[r].seq = answers'[i].seq =>
                             (answers'[i].error <=> rpc'[r].method = "dispense_unknown")
      BY DEF AnswersOwned
    <3>3. CASE i = Len(answers) + 1
      <4>1. answers'[i].seq = q.seq /\ (answers'[i].error <=> q.method = "dispense_unknown")
        <5>1. n.seq = q.seq /\ n.error = (q.method = "dispense_unknown")
          OBVIOUS
        <5> HIDE DEF q, n
        <5> QED
          BY <3>2, <3>3, <5>1, Zenon
      <4> HIDE DEF q, n
      <4> QED
        BY <2>1, <2>4, <4>1 DEF Begun
    <3>4. CASE i \in 1..Len(answers)
      BY <1>0, <2>1, <3>2, <3>4 DEF AnswersOwned, Begun
    <3> QED
      BY <3>2, <3>3, <3>4
  <2>7. RequestsOwned'
    BY <1>0, <2>1, <2>2, RequestTaken
  <2> QED
    BY <1>0, <2>2, <2>6, <2>7, NumberedKept DEF Owned
<1>7. CASE ServeTorn \/ ServeEnds
  <2>1. /\ requests' = requests \/ requests' = <<>>
        /\ UNCHANGED <<rpc, seq, answers>>
    BY <1>7, Zenon DEF ServeTorn, ServeEnds
  <2>2. CallsKept /\ AnswersMatch'
    BY <1>0, <2>1 DEF CallsKept, Begun, AnswersMatch
  <2>3. RequestsOwned'
    <3>1. CASE requests' = requests
      BY <1>0, <2>2, <3>1, RequestsOwnedKept
    <3>2. CASE requests' = <<>>
      BY <3>2 DEF RequestsOwned
    <3> QED
      BY <2>1, <3>1, <3>2
  <2> QED
    BY <1>0, <2>1, <2>2, <2>3, NumberedKept, AnswersOwnedKept DEF Owned
<1>8. CASE UNCHANGED rpcVars
  BY <1>0, <1>8 DEF rpcVars, Owned, Numbered, RequestsOwned, AnswersOwned, AnswersMatch, Begun
<1> QED
  BY <1>1, <1>2, <1>3, <1>4, <1>5, <1>6, <1>7, <1>8 DEF RpcNext, RpcStep, RpcAnswered, Serve

\* A call takes only the server's answer to its own request, also when calls
\* before it were cancelled and left their answers on the stream
\* (RPCClient::call in rpc_client.rs, serve_conn in rpc_server.rs).
THEOREM AnswersAreOwn == FairSpec => []AnswersMatch
<1>1. Init => Owned
  BY DEF Init, RpcInit, Owned, Numbered, RequestsOwned, AnswersOwned, AnswersMatch, Begun
<1>2. Owned => AnswersMatch
  BY DEF Owned
<1> QED
  BY <1>1, <1>2, RpcHolds, OwnedStep, OnlyOneSteps, PTL DEF FairSpec

=============================================================================
