--------------------------- MODULE MCPluginHost ---------------------------
(* An owner and a guest of one plugin process, with two protocol versions. *)
(* The handshake version of a host with versioned plugins is not used.     *)
EXTENDS PluginHost

MCOffers == {o \in AnyOffer : o.host # {} => o.hostShake = 1}

============================================================================
