---------------------------- MODULE PluginHost ----------------------------
(***************************************************************************)
(* The life cycle of a plugin process and of the clients that use it:      *)
(* Client (go-plugin/src/client.rs) with CmdRunner (runner.rs) on the host *)
(* side, serve (server.rs) and serve_grpc (grpc_server.rs) in the plugin,  *)
(* and the negotiation between them (protocol.rs).                         *)
(*                                                                         *)
(* The owner is a client made with a command: it starts the process, reads *)
(* the negotiation line from its standard output, keeps the handle and     *)
(* connects.  The guest is a client made with the reattach configuration   *)
(* of the owner: it connects and has no handle.  Both may call start and   *)
(* kill in any order, be registered for cleanup_clients, and be dropped;   *)
(* a future of start may be dropped at an await, not while it blocks on    *)
(* the line.  The process may crash or hang whenever it likes, or be no    *)
(* plugin at all.                                                          *)
(***************************************************************************)
EXTENDS Naturals, FiniteSets, FiniteSetsExt

CONSTANTS MaxVersion, \* the largest application protocol version, a u32 in the code
          Offers,     \* the configurations of the two sides, see AnyOffer
          MaxStarts   \* bound on the calls of start of a client

Versions == 1..MaxVersion

\* versioned_plugins and the handshake version of each side; auto_mtls, with
\* which the plugin serves TLS while the client speaks plain HTTP.
AnyOffer == [host : SUBSET Versions, hostShake : Versions,
             plugin : SUBSET Versions, pluginShake : Versions, tls : BOOLEAN]

ASSUME PluginHostAssumption ==
  /\ MaxVersion \in Nat \ {0}
  /\ Offers \subseteq AnyOffer
  /\ MaxStarts \in Nat

Clients == {"owner", "guest"}

VARIABLES
  offer,     \* the configuration of both sides
  pc,        \* pc[c]: what client c is doing
  starts,    \* starts[c]: how often start was called on c
  cmd,       \* the owner still holds its command
  child,     \* child[c]: c holds the handle of the process
  grpc,      \* grpc[c]: c holds a connected gRPC client
  exited,    \* exited[c]: the flag that kill sets
  version,   \* version[c]: the negotiated version, 0 for none
  managed,   \* the clients in MANAGED_CLIENTS
  spawning,  \* the blocking task that starts the process has yet to run
  proc,      \* the process
  spawns,    \* how many processes were started
  line       \* the version on the negotiation line; 0 none, NoLine no plugin's

NoLine == MaxVersion + 1

vars == <<offer, pc, starts, cmd, child, grpc, exited, version, managed, spawning, proc, spawns, line>>
clientVars == <<pc, starts, cmd, child, grpc, exited, version, managed>>
procVars == <<spawning, proc, spawns, line>>

Alive == proc \in {"booting", "listening", "serving", "draining", "hung"}

TypeOK ==
  /\ offer \in Offers
  /\ pc \in [Clients -> {"new", "spawning", "reading", "connecting", "up", "failed",
                         "asking", "waiting", "killed", "dropped"}]
  /\ starts \in [Clients -> 0..MaxStarts]
  /\ cmd \in BOOLEAN
  /\ child \in [Clients -> BOOLEAN] /\ grpc \in [Clients -> BOOLEAN]
  /\ exited \in [Clients -> BOOLEAN]
  /\ version \in [Clients -> Versions \cup {0}]
  /\ managed \subseteq Clients
  /\ spawning \in BOOLEAN
  /\ proc \in {"none", "booting", "listening", "serving", "draining", "hung", "gone"}
  /\ spawns \in 0..MaxStarts
  /\ line \in Versions \cup {0, NoLine}

Init ==
  /\ offer \in Offers
  /\ pc = [c \in Clients |-> "new"]
  /\ starts = [c \in Clients |-> 0]
  /\ cmd = TRUE
  /\ child = [c \in Clients |-> FALSE] /\ grpc = [c \in Clients |-> FALSE]
  /\ exited = [c \in Clients |-> FALSE]
  /\ version = [c \in Clients |-> 0]
  /\ managed = {}
  /\ spawning = FALSE
  /\ proc = "none"
  /\ spawns = 0
  /\ line = 0

----------------------------------------------------------------------------

\* supported_versions: what the host puts in PLUGIN_PROTOCOL_VERSIONS.
HostSupports == IF offer.host = {} THEN {offer.hostShake} ELSE offer.host

\* Mutant of ServedVersion: the sorted versions are tried from the lowest.
ServedLowest ==
  LET mutual == offer.plugin \cap HostSupports IN
  IF mutual = {} THEN offer.pluginShake ELSE Min(mutual)

\* negotiate_server_version: the plugin's choice.
ServedVersion ==
  LET mutual == offer.plugin \cap HostSupports IN
  IF mutual = {} THEN offer.pluginShake ELSE Max(mutual)

----------------------------------------------------------------------------

\* No call of this client is running.
Idle(c) == pc[c] \in {"new", "up", "failed", "killed"}

Goes(c, to) == pc' = [pc EXCEPT ![c] = to]

StartCalled(c) ==
  /\ Idle(c)
  /\ starts[c] < MaxStarts
  /\ starts' = [starts EXCEPT ![c] = @ + 1]

\* start of the guest: version and address are those of its configuration.
StartReattach ==
  /\ StartCalled("guest")
  /\ version["owner"] # 0
  /\ version' = [version EXCEPT !["guest"] = version["owner"]]
  /\ Goes("guest", "connecting")
  /\ UNCHANGED <<offer, cmd, child, grpc, exited, managed, procVars>>

\* Mutant of StartCommand: the command is copied.
StartCommandAgain ==
  /\ StartCalled("owner")
  /\ Goes("owner", "spawning") /\ spawning' = TRUE
  /\ UNCHANGED <<offer, cmd, child, grpc, exited, version, managed, proc, spawns, line>>

\* start of the owner: the command is taken out of the configuration; the
\* checksum or the certificates may fail, otherwise a blocking task is to
\* start the process.
StartCommand ==
  /\ StartCalled("owner")
  /\ cmd
  /\ cmd' = FALSE
  /\ \/ Goes("owner", "failed") /\ UNCHANGED spawning
     \/ Goes("owner", "spawning") /\ spawning' = TRUE
  /\ UNCHANGED <<offer, child, grpc, exited, version, managed, proc, spawns, line>>

\* start without a command and without a reattach configuration.
StartRefused ==
  /\ StartCalled("owner")
  /\ ~cmd
  /\ Goes("owner", "failed")
  /\ UNCHANGED <<offer, cmd, child, grpc, exited, version, managed, procVars>>

\* start_timeout passes, or the process cannot be started.  A blocking task is
\* not cancelled: it may start the process later all the same.
StartTimesOut ==
  /\ pc["owner"] = "spawning"
  /\ Goes("owner", "failed")
  /\ spawning' \in {spawning, FALSE}
  /\ UNCHANGED <<offer, starts, cmd, child, grpc, exited, version, managed, proc, spawns, line>>

\* CmdRunner::start in the blocking task.  Nobody holds the process when the
\* owner has given up.
Spawn ==
  /\ spawning
  /\ spawning' = FALSE
  /\ proc' = "booting"
  /\ line' = 0
  /\ spawns' = spawns + 1
  /\ IF pc["owner"] = "spawning" THEN Goes("owner", "reading") ELSE UNCHANGED pc
  /\ UNCHANGED <<offer, starts, cmd, child, grpc, exited, version, managed>>

\* read_negotiation_line, which blocks until there is a line or the output is
\* closed, and what start makes of it.  On an error the handle goes and the
\* process stays.
ReadLine ==
  /\ pc["owner"] = "reading"
  /\ line # 0 \/ proc = "gone"
  /\ IF line \in HostSupports
     THEN /\ version' = [version EXCEPT !["owner"] = line]
          /\ child' = [child EXCEPT !["owner"] = TRUE]
          /\ Goes("owner", "connecting")
     ELSE /\ Goes("owner", "failed")
          /\ UNCHANGED <<version, child>>
  /\ UNCHANGED <<offer, starts, cmd, grpc, exited, managed, procVars>>

\* connect_grpc: the listener of a living process takes the connection, also
\* before anybody serves it and when it expects TLS.
Connect(c) ==
  /\ pc[c] = "connecting"
  /\ \/ /\ Alive
        /\ grpc' = [grpc EXCEPT ![c] = TRUE]
        /\ Goes(c, "up")
     \/ /\ ~Alive
        /\ Goes(c, "failed")
        /\ UNCHANGED grpc
  /\ UNCHANGED <<offer, starts, cmd, child, exited, version, managed, procVars>>

----------------------------------------------------------------------------

\* kill: a connected client asks for the shutdown first; without a handle
\* there is nothing to wait for.
KillCalled(c) ==
  /\ Idle(c)
  /\ IF grpc[c] THEN Goes(c, "asking") /\ UNCHANGED exited
     ELSE IF child[c] THEN Goes(c, "waiting") /\ UNCHANGED exited
     ELSE Goes(c, "killed") /\ exited' = [exited EXCEPT ![c] = TRUE]
  /\ UNCHANGED <<offer, starts, cmd, child, grpc, version, managed, procVars>>

\* The shutdown request comes back.  It has no timeout: a hung process leaves
\* kill where it is.  A process that serves TLS, or none, is an error.
ShutdownReturns(c) ==
  /\ pc[c] = "asking"
  /\ \/ proc \in {"serving", "draining"} /\ ~offer.tls /\ proc' = "draining"
     \/ (~Alive \/ offer.tls) /\ UNCHANGED proc
  /\ IF child[c] THEN Goes(c, "waiting") /\ UNCHANGED exited
     ELSE Goes(c, "killed") /\ exited' = [exited EXCEPT ![c] = TRUE]
  /\ UNCHANGED <<offer, starts, cmd, child, grpc, version, managed, spawning, spawns, line>>

\* Mutants of KillReturns: after two seconds there is only the warning; only
\* the exit of the process is waited for.
KillGivesUp(c) ==
  /\ pc[c] = "waiting"
  /\ exited' = [exited EXCEPT ![c] = TRUE]
  /\ Goes(c, "killed")
  /\ UNCHANGED <<offer, starts, cmd, child, grpc, version, managed, procVars>>

KillWaits(c) ==
  /\ pc[c] = "waiting"
  /\ proc = "gone"
  /\ exited' = [exited EXCEPT ![c] = TRUE]
  /\ Goes(c, "killed")
  /\ UNCHANGED <<offer, starts, cmd, child, grpc, version, managed, procVars>>

\* try_wait finds the process gone, or two seconds pass and it is killed.
KillReturns(c) ==
  /\ pc[c] = "waiting"
  /\ proc' = "gone"
  /\ exited' = [exited EXCEPT ![c] = TRUE]
  /\ Goes(c, "killed")
  /\ UNCHANGED <<offer, starts, cmd, child, grpc, version, managed, spawning, spawns, line>>

\* The client is dropped, with whatever future of it is waiting.
DropClient(c) ==
  /\ pc[c] \notin {"reading", "dropped"} /\ c \notin managed
  /\ Goes(c, "dropped")
  /\ proc' = IF child[c] THEN "gone" ELSE proc
  /\ UNCHANGED <<offer, starts, cmd, child, grpc, exited, version, managed, spawning, spawns, line>>

RegisterManaged(c) ==
  /\ pc[c] # "dropped" /\ c \notin managed
  /\ managed' = managed \cup {c}
  /\ UNCHANGED <<offer, pc, starts, cmd, child, grpc, exited, version, procVars>>

\* cleanup_clients: the list is taken and the children are killed, whatever
\* their clients are doing; no flag is set.
CleanupClients ==
  /\ managed # {} /\ \A c \in managed : Idle(c)
  /\ managed' = {}
  /\ proc' = IF \E c \in managed : child[c] THEN "gone" ELSE proc
  /\ UNCHANGED <<offer, pc, starts, cmd, child, grpc, exited, version, spawning, spawns, line>>

----------------------------------------------------------------------------

Becomes(states, to) ==
  /\ proc \in states
  /\ proc' = to
  /\ UNCHANGED <<offer, clientVars, spawning, spawns, line>>

\* serve: the magic cookie is right, a listener found in the port range, the
\* line written.
Boot ==
  /\ proc = "booting"
  /\ proc' = "listening"
  /\ line' = ServedVersion
  /\ UNCHANGED <<offer, clientVars, spawning, spawns>>

\* Not a plugin: something else is on its output.
BootStranger ==
  /\ proc = "booting"
  /\ proc' = "hung"
  /\ line' = NoLine
  /\ UNCHANGED <<offer, clientVars, spawning, spawns>>

\* serve_grpc: the output is captured and the services run.
Serve == Becomes({"listening"}, "serving")

\* tonic has finished the requests under way, streams included, and the
\* program ends.
Drain == Becomes({"draining"}, "gone")

\* An error of the plugin before it serves, a wrong cookie, or a crash.
Crash == Becomes({"booting", "listening", "serving", "draining", "hung"}, "gone")

Hang == Becomes({"booting", "listening", "serving", "draining"}, "hung")

----------------------------------------------------------------------------

StartStep == StartTimesOut \/ Spawn \/ ReadLine
ClientStep(c) == Connect(c) \/ ShutdownReturns(c) \/ KillReturns(c)

Next ==
  \/ StartReattach \/ StartCommand \/ StartRefused
  \/ StartStep
  \/ \E c \in Clients : ClientStep(c) \/ KillCalled(c) \/ DropClient(c) \/ RegisterManaged(c)
  \/ CleanupClients
  \/ Boot \/ BootStranger \/ Serve \/ Drain \/ Crash \/ Hang

\* Calls that can go on do, and a process that has not hung boots and serves.
\* Nothing makes a call, ends a process or lets it finish its streams.
Fairness ==
  /\ WF_vars(StartStep)
  /\ \A c \in Clients : WF_vars(ClientStep(c))
  /\ WF_vars(Boot) /\ WF_vars(Serve)

Spec == Init /\ [][Next]_vars
FairSpec == Spec /\ Fairness

----------------------------------------------------------------------------

PluginSupports == IF offer.plugin = {} THEN {offer.pluginShake} ELSE offer.plugin

\* Two sides that have a version in common agree on the highest one, although
\* the plugin chooses from a list in its environment and the host only sees
\* the choice; without one the host accepts only what it supports itself.
NegotiatedIsBest ==
  \A c \in Clients :
    version[c] # 0 =>
      /\ version[c] \in HostSupports
      /\ PluginSupports \cap HostSupports # {} => version[c] = Max(PluginSupports \cap HostSupports)

\* Killing or dropping a client that has the handle leaves no process behind:
\* when kill has returned the process is gone, by itself or by force, whatever
\* became of the shutdown request and whatever the other client did.
KilledIsOver ==
  \A c \in Clients : pc[c] \in {"killed", "dropped"} /\ child[c] => ~Alive

\* A client starts at most one process in its life, so that its one handle is
\* enough to end all it has started.
OneProcess == spawns <= 1

\* start and kill return, unless the process hangs: neither the negotiation
\* line nor the shutdown request has a timeout.
CallsReturn ==
  \A c \in Clients :
    pc[c] \in {"spawning", "reading", "connecting", "asking", "waiting"} ~>
      Idle(c) \/ pc[c] = "dropped" \/ proc = "hung"

============================================================================
