------------------------ MODULE MCPluginConnection ------------------------
(* A net/rpc plugin connection: two accepts, two dials and a close of the  *)
(* broker, and three calls on the control connection, of which the load    *)
(* admits the four broker calls, the three control calls, or a mix.  One   *)
(* control call is dropped between a length and a body, one reads what it  *)
(* left, one what is left of that.                                         *)
EXTENDS RpcControl
CONSTANTS a1, a2, d1, d2, k1, r1, r2, r3

MCAccepts == {a1, a2}
MCDials == {d1, d2}
MCCloses == {k1}
MCRpcCalls == {r1, r2, r3}

MCRequests(c) ==
  CASE c = a1 -> {<<"plugin", 1>>}
    [] c = a2 -> {<<"plugin", 1>>}
    [] c = d1 -> {<<"client", 1>>}
    [] c = d2 -> {<<"client", 1>>, <<"plugin", 1>>}
    [] c = k1 -> {<<"plugin", 1>>}

MCAsks(r) ==
  CASE r = r1 -> {"dispense"}
    [] r = r2 -> {"quit", "dispense_unknown"}
    [] r = r3 -> {"ping"}

============================================================================
