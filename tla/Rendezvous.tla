---------------------------- MODULE Rendezvous ----------------------------
(***************************************************************************)
(* What a connection broker of the plugin library promises the two ends of *)
(* a plugin connection, with streams, tables, locks and timeouts left out: *)
(* one end accepts a service by its number, the other end dials the same   *)
(* number, and the two calls are paired at most once.  A call that returns *)
(* Ok has been paired; any call may fail, a paired one too.  GrpcBroker    *)
(* and MuxBroker implement this module.                                    *)
(***************************************************************************)
CONSTANTS Acceptors, Dialers,  \* the calls of accept and of dial
          Services,            \* the numbers of the services
          Ends,                \* the two ends of the plugin connection
          None                 \* a call that has not been made

VARIABLES made,    \* made[c]: the end and the service of call c, or None
          met,     \* the pairs of an accept and a dial that were connected
          result   \* result[c]: "none", "ok" or "failed"

vars == <<made, met, result>>

Calls == Acceptors \cup Dialers

Paired(c) == \E p \in met : c \in {p[1], p[2]}

Init ==
  /\ made = [c \in Calls |-> None]
  /\ met = {}
  /\ result = [c \in Calls |-> "none"]

Call(c) ==
  /\ made[c] = None
  /\ \E e \in Ends, s \in Services : made' = [made EXCEPT ![c] = <<e, s>>]
  /\ UNCHANGED <<met, result>>

\* The two calls are for the same service, at different ends.
Meet(a, d) ==
  /\ made[a] # None /\ made[d] # None
  /\ made[a][1] # made[d][1]
  /\ made[a][2] = made[d][2]
  /\ ~Paired(a) /\ ~Paired(d)
  /\ met' = met \cup {<<a, d>>}
  /\ UNCHANGED <<made, result>>

ReturnOk(c) ==
  /\ result[c] = "none"
  /\ Paired(c)
  /\ result' = [result EXCEPT ![c] = "ok"]
  /\ UNCHANGED <<made, met>>

\* Several calls may fail in one step: a broker that closes fails them all.
ReturnFailed ==
  /\ \E C \in SUBSET {c \in Calls : made[c] # None /\ result[c] = "none"} :
       result' = [c \in Calls |-> IF c \in C THEN "failed" ELSE result[c]]
  /\ UNCHANGED <<made, met>>

Next ==
  \/ \E c \in Calls : Call(c) \/ ReturnOk(c)
  \/ \E a \in Acceptors, d \in Dialers : Meet(a, d)
  \/ ReturnFailed

Spec == Init /\ [][Next]_vars

============================================================================
