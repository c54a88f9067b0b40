--------------------------- MODULE MCGrpcBroker ---------------------------
(* Two accepts, two dials and a close of the gRPC broker.  The first of    *)
(* each is a call that can succeed, the second may ask for the same        *)
(* service, for another one, or be made at the end that cannot serve it.   *)
EXTENDS GrpcBroker
CONSTANTS a1, a2, d1, d2, k1

MCAccepts == {a1, a2}
MCDials == {d1, d2}
MCCloses == {k1}

MCRequests(c) ==
  CASE c = a1 -> {<<"plugin", 1>>}
    [] c = d1 -> {<<"client", 1>>}
    [] c = a2 -> {<<"plugin", 1>>, <<"plugin", 2>>, <<"client", 1>>}
    [] c = d2 -> {<<"client", 1>>, <<"client", 2>>, <<"plugin", 1>>}
    [] c = k1 -> {<<"client", 1>>, <<"plugin", 1>>}

============================================================================
