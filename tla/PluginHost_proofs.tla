-------------------------- MODULE PluginHost_proofs --------------------------
(***************************************************************************)
(* What the life cycle of a plugin process guarantees for every set of     *)
(* configurations and every number of calls of start: types, one process   *)
(* per client, no process behind a killed or dropped client, and the best  *)
(* common version.                                                         *)
(***************************************************************************)
EXTENDS PluginHost, WellFoundedInduction, TLAPS

----------------------------------------------------------------------------
(* The negotiation.                                                        *)

\* The least number no smaller than any version of S is one of them.
LEMMA MaxIsMember ==
  ASSUME NEW S \in SUBSET Versions, S # {}
  PROVE  Max(S) \in S /\ \A v \in S : v <= Max(S)
<1> DEFINE Bounds == {n \in Nat : \A v \in S : v <= n}
<1> USE PluginHostAssumption DEF Versions
<1>1. MaxVersion \in Bounds
  OBVIOUS
<1>2. PICK n \in Bounds : \A m \in Bounds : n <= m
  <2> DEFINE Less == {ss \in Nat \X Nat : ss[1] < ss[2]}
  <2>1. IsWellFoundedOn(Less, Nat)
    BY NatLessThanWellFounded DEF OpToRel
  <2>2. Bounds \subseteq Nat /\ Bounds # {}
    BY <1>1
  <2> HIDE DEF Bounds, Less
  <2>3. PICK n \in Bounds : \A m \in Bounds : ~(<<m, n>> \in Less)
    BY <2>1, <2>2, WFMin
  <2>4. \A m \in Bounds : <<m, n>> \in Nat \X Nat /\ m \in Nat /\ n \in Nat
    BY <2>2, <2>3
  <2>5. \A m \in Bounds : ~(m < n)
    BY <2>3, <2>4 DEF Less
  <2> QED
    BY <2>2, <2>3, <2>5
<1>3. n \in S
  <2> SUFFICES ASSUME n \notin S PROVE FALSE
    OBVIOUS
  <2>1. \A v \in S : v <= n - 1 /\ n - 1 \in Nat
    OBVIOUS
  <2>2. n - 1 \in Bounds
    BY <2>1
  <2> QED
    BY <1>2, <2>2
<1>4. \A v \in S : n >= v
  OBVIOUS
<1>5. \E x \in S : \A v \in S : x >= v
  BY <1>3, <1>4
<1>6. Max(S) \in S /\ \A v \in S : Max(S) >= v
  BY <1>5 DEF Max
<1> QED
  BY <1>6

LEMMA OfferType == TypeOK => offer \in AnyOffer
BY PluginHostAssumption DEF TypeOK

\* The plugin answers with a version, and when it is one the host supports, no
\* common version is higher.
LEMMA ServedIsBest ==
  ASSUME offer \in AnyOffer
  PROVE  /\ ServedVersion \in Versions
         /\ HostSupports \subseteq Versions /\ PluginSupports \subseteq Versions
         /\ ServedVersion \in HostSupports /\ PluginSupports \cap HostSupports # {} =>
              /\ ServedVersion = Max(PluginSupports \cap HostSupports)
              /\ \A v \in PluginSupports \cap HostSupports : v <= ServedVersion
<1> DEFINE mutual == offer.plugin \cap HostSupports
<1>1. HostSupports \subseteq Versions /\ PluginSupports \subseteq Versions
  BY DEF AnyOffer, HostSupports, PluginSupports
<1>2. CASE mutual = {}
  <2>1. ServedVersion = offer.pluginShake
    BY <1>2 DEF ServedVersion
  <2>2. ASSUME ServedVersion \in HostSupports, PluginSupports \cap HostSupports # {}
        PROVE  PluginSupports \cap HostSupports = {offer.pluginShake}
    BY <1>2, <2>1, <2>2 DEF PluginSupports
  <2>3. Max({offer.pluginShake}) = offer.pluginShake
    <3>1. offer.pluginShake \in Versions /\ {offer.pluginShake} \in SUBSET Versions
      BY DEF AnyOffer
    <3> QED
      BY <3>1, MaxIsMember
  <2>4. offer.pluginShake <= offer.pluginShake
    BY DEF AnyOffer, Versions
  <2> QED
    BY <1>1, <2>1, <2>2, <2>3, <2>4 DEF AnyOffer
<1>3. CASE mutual # {}
  <2>1. ServedVersion = Max(mutual) /\ PluginSupports \cap HostSupports = mutual
    BY <1>3 DEF ServedVersion, PluginSupports
  <2>2. Max(mutual) \in mutual /\ \A v \in mutual : v <= Max(mutual)
    BY <1>1, <1>3, MaxIsMember
  <2> QED
    BY <1>1, <2>1, <2>2
<1> QED
  BY <1>2, <1>3

\* What was negotiated is what the plugin served, and the host supports it.
Negotiated ==
  /\ line \in {0, NoLine, ServedVersion}
  /\ \A c \in Clients : version[c] # 0 => version[c] = ServedVersion /\ ServedVersion \in HostSupports

----------------------------------------------------------------------------
(* The process.                                                            *)

\* The command is gone once a process is started or about to be, and none is
\* about to be once one was.
Launched ==
  /\ cmd => spawns = 0 /\ ~spawning
  /\ spawning => spawns = 0
  /\ ~cmd => starts["owner"] >= 1
  /\ spawns <= 1

\* Who has a handle has that of the process that was started; kill waits for
\* an exit, and start for a line, only where there is one.
Held ==
  /\ \A c \in Clients : (pc[c] = "waiting" => child[c]) /\ (child[c] => spawns = 1)
  /\ pc["owner"] = "reading" => spawns = 1
  /\ spawns = 0 => proc = "none"

----------------------------------------------------------------------------
(* Types.  That there is no more than one process bounds their number.     *)

LEMMA BothAreClients == "owner" \in Clients /\ "guest" \in Clients
BY DEF Clients

LEMMA TypeStep == TypeOK /\ Launched /\ [Next]_vars => TypeOK'
<1> SUFFICES ASSUME TypeOK, Launched, [Next]_vars
             PROVE  TypeOK'
  OBVIOUS
<1> USE BothAreClients, PluginHostAssumption DEF TypeOK, Goes, procVars, clientVars
<1>1. CASE StartReattach
  BY <1>1 DEF StartReattach, StartCalled
<1>2. CASE StartCommand
  <2>1. starts' \in [Clients -> 0..MaxStarts]
    BY <1>2 DEF StartCommand, StartCalled
  <2>2. Goes("owner", "failed") \/ Goes("owner", "spawning")
    BY <1>2 DEF StartCommand
  <2>3. spawning' \in BOOLEAN /\ cmd' \in BOOLEAN
    <3>1. spawning' = spawning \/ spawning' = TRUE
      BY <1>2 DEF StartCommand
    <3> QED
      BY <1>2, <3>1, Zenon DEF StartCommand
  <2> QED
    BY <1>2, <2>1, <2>2, <2>3 DEF StartCommand
<1>3. CASE StartRefused
  BY <1>3 DEF StartRefused, StartCalled
<1>4. CASE StartTimesOut
  BY <1>4 DEF StartTimesOut
<1>5. CASE Spawn
  <2>1. spawns' \in 0..MaxStarts
    BY <1>5 DEF Spawn, Launched
  <2> QED
    BY <1>5, <2>1 DEF Spawn
<1>6. CASE ReadLine
  <2>1. HostSupports \subseteq Versions
    BY OfferType, ServedIsBest
  <2>2. CASE line \in HostSupports
    <3>1. line \in Versions
      BY <2>1, <2>2
    <3>2. version' \in [Clients -> Versions \cup {0}]
      BY <1>6, <2>2, <3>1 DEF ReadLine
    <3>3. child' \in [Clients -> BOOLEAN]
      BY <1>6, <2>2, Zenon DEF ReadLine
    <3> QED
      BY <1>6, <2>2, <3>2, <3>3 DEF ReadLine
  <2>3. CASE line \notin HostSupports
    BY <1>6, <2>3 DEF ReadLine
  <2> QED
    BY <2>2, <2>3
<1>7. ASSUME NEW c \in Clients, Connect(c) \/ ShutdownReturns(c) \/ KillReturns(c)
      PROVE  TypeOK'
  BY <1>7 DEF Connect, ShutdownReturns, KillReturns
<1>8. ASSUME NEW c \in Clients, KillCalled(c) \/ DropClient(c) \/ RegisterManaged(c)
      PROVE  TypeOK'
  BY <1>8 DEF KillCalled, DropClient, RegisterManaged
<1>9. CASE CleanupClients
  BY <1>9 DEF CleanupClients
<1>10. CASE Boot
  <2>1. ServedVersion \in Versions
    BY OfferType, ServedIsBest
  <2> QED
    BY <1>10, <2>1 DEF Boot
<1>11. CASE BootStranger
  BY <1>11 DEF BootStranger
<1>12. CASE Serve \/ Drain \/ Crash \/ Hang
  BY <1>12 DEF Serve, Drain, Crash, Hang, Becomes
<1>13. CASE UNCHANGED vars
  BY <1>13 DEF vars
<1> QED
  BY <1>1, <1>2, <1>3, <1>4, <1>5, <1>6, <1>7, <1>8, <1>9, <1>10, <1>11, <1>12, <1>13
     DEF Next, StartStep, ClientStep

----------------------------------------------------------------------------
(* The process.                                                            *)

LEMMA LaunchedStep == TypeOK /\ Launched /\ [Next]_vars => Launched'
<1> SUFFICES ASSUME TypeOK, Launched, [Next]_vars
             PROVE  Launched'
  OBVIOUS
<1> USE BothAreClients DEF TypeOK, Launched, procVars, clientVars
<1>1. ASSUME NEW c \in Clients, StartCalled(c), c = "owner" \/ UNCHANGED cmd
      PROVE  starts'["owner"] >= starts["owner"] /\ (c = "owner" => starts'["owner"] >= 1)
  BY <1>1 DEF StartCalled
<1>2. CASE StartReattach
  BY <1>1, <1>2 DEF StartReattach, StartCalled
<1>3. CASE StartCommand
  BY <1>1, <1>3 DEF StartCommand, StartCalled
<1>4. CASE StartRefused
  BY <1>1, <1>4 DEF StartRefused, StartCalled
<1>5. CASE StartTimesOut
  <2>1. spawning' => spawning
    BY <1>5, Zenon DEF StartTimesOut
  <2> QED
    BY <1>5, <2>1 DEF StartTimesOut
<1>6. CASE Spawn
  BY <1>6 DEF Spawn
<1>7. CASE ReadLine
  BY <1>7 DEF ReadLine
<1>8. ASSUME NEW c \in Clients, Connect(c) \/ ShutdownReturns(c) \/ KillReturns(c)
      PROVE  Launched'
  BY <1>8 DEF Connect, ShutdownReturns, KillReturns
<1>9. ASSUME NEW c \in Clients, KillCalled(c) \/ DropClient(c) \/ RegisterManaged(c)
      PROVE  Launched'
  BY <1>9 DEF KillCalled, DropClient, RegisterManaged
<1>10. CASE CleanupClients
  BY <1>10 DEF CleanupClients
<1>11. CASE Boot \/ BootStranger \/ Serve \/ Drain \/ Crash \/ Hang
  BY <1>11 DEF Boot, BootStranger, Serve, Drain, Crash, Hang, Becomes
<1>12. CASE UNCHANGED vars
  BY <1>12 DEF vars
<1> QED
  BY <1>2, <1>3, <1>4, <1>5, <1>6, <1>7, <1>8, <1>9, <1>10, <1>11, <1>12
     DEF Next, StartStep, ClientStep

\* Only the owner reads a line, and only ReadLine gives a handle.
LEMMA HeldStep == TypeOK /\ Launched /\ Held /\ [Next]_vars => Held'
<1> SUFFICES ASSUME TypeOK, Launched, Held, [Next]_vars
             PROVE  Held'
  OBVIOUS
<1> USE BothAreClients DEF TypeOK, Held, Goes, procVars, clientVars
<1>1. CASE StartReattach
  BY <1>1 DEF StartReattach
<1>2. CASE StartCommand
  <2>1. pc'["owner"] # "reading"
    BY <1>2 DEF StartCommand
  <2> QED
    BY <1>2, <2>1 DEF StartCommand
<1>3. CASE StartRefused
  BY <1>3 DEF StartRefused
<1>4. CASE StartTimesOut
  BY <1>4 DEF StartTimesOut
<1>5. CASE Spawn
  <2>1. spawns = 0 /\ spawns' = 1
    BY <1>5 DEF Spawn, Launched
  <2> QED
    BY <1>5, <2>1 DEF Spawn
<1>6. CASE ReadLine
  <2>1. pc'["owner"] # "reading" /\ spawns = 1 /\ UNCHANGED <<spawns, proc>>
    BY <1>6 DEF ReadLine
  <2>2. \A c \in Clients : (pc'[c] = "waiting" => pc[c] = "waiting") /\ (child[c] => child'[c])
    BY <1>6 DEF ReadLine
  <2> QED
    BY <2>1, <2>2
<1>7. ASSUME NEW c \in Clients, Connect(c) \/ ShutdownReturns(c) \/ KillReturns(c)
      PROVE  Held'
  <2>1. UNCHANGED <<child, spawns>> /\ (pc'["owner"] = "reading" => pc["owner"] = "reading")
    BY <1>7 DEF Connect, ShutdownReturns, KillReturns
  <2>2. \A d \in Clients : pc'[d] = "waiting" => child[d]
    BY <1>7 DEF Connect, ShutdownReturns, KillReturns
  <2>3. spawns = 0 => UNCHANGED proc
    BY <1>7 DEF Connect, ShutdownReturns, KillReturns
  <2> QED
    BY <2>1, <2>2, <2>3
<1>8. ASSUME NEW c \in Clients, KillCalled(c) \/ DropClient(c) \/ RegisterManaged(c)
      PROVE  Held'
  BY <1>8 DEF KillCalled, DropClient, RegisterManaged
<1>9. CASE CleanupClients
  BY <1>9 DEF CleanupClients
<1>10. CASE Boot \/ BootStranger \/ Serve \/ Drain \/ Crash \/ Hang
  BY <1>10 DEF Boot, BootStranger, Serve, Drain, Crash, Hang, Becomes
<1>11. CASE UNCHANGED vars
  BY <1>11 DEF vars
<1> QED
  BY <1>1, <1>2, <1>3, <1>4, <1>5, <1>6, <1>7, <1>8, <1>9, <1>10, <1>11
     DEF Next, StartStep, ClientStep

\* A process does not come back: once started it is only started again by a
\* task that Launched excludes.
LEMMA StaysOver ==
  TypeOK /\ Launched /\ [Next]_vars /\ spawns = 1 /\ ~Alive => ~Alive'
<1> SUFFICES ASSUME TypeOK, Launched, [Next]_vars, spawns = 1, ~Alive
             PROVE  ~Alive'
  OBVIOUS
<1>1. ~Spawn
  BY DEF Launched, Spawn
<1>2. proc' = proc \/ proc' = "gone"
  BY <1>1 DEF Alive, Next, StartStep, ClientStep, vars, procVars, Becomes, StartReattach, StartCommand,
     StartRefused, StartTimesOut, ReadLine, Connect, ShutdownReturns, KillReturns, KillCalled,
     DropClient, RegisterManaged, CleanupClients, Boot, BootStranger, Serve, Drain, Crash, Hang
<1> QED
  BY <1>2 DEF Alive

\* A client is killed or dropped with a handle only by a step that ends the
\* process, or that finds it ended.
LEMMA KilledStep ==
  TypeOK /\ Launched /\ Held /\ KilledIsOver /\ [Next]_vars => KilledIsOver'
<1> SUFFICES ASSUME TypeOK, Launched, Held, KilledIsOver, [Next]_vars,
                    NEW c \in Clients, pc'[c] \in {"killed", "dropped"}, child'[c]
             PROVE  ~Alive'
  BY DEF KilledIsOver
<1> USE DEF TypeOK, Goes
<1>1. CASE pc[c] \in {"killed", "dropped"} /\ child[c]
  <2>1. spawns = 1 /\ ~Alive
    BY <1>1 DEF Held, KilledIsOver
  <2> QED
    BY <2>1, StaysOver
<1>2. CASE pc[c] \notin {"killed", "dropped"} \/ ~child[c]
  <2>1. ~StartReattach /\ ~StartCommand /\ ~StartRefused
    BY <1>2 DEF StartReattach, StartCommand, StartRefused
  <2>2. ~StartTimesOut /\ ~Spawn /\ ~ReadLine
    BY <1>2 DEF StartTimesOut, Spawn, ReadLine
  <2>3. ~CleanupClients /\ ~Boot /\ ~BootStranger /\ ~Serve /\ ~Drain /\ ~Crash /\ ~Hang
    BY <1>2 DEF CleanupClients, Boot, BootStranger, Serve, Drain, Crash, Hang, Becomes, clientVars
  <2>4. ~UNCHANGED vars
    BY <1>2 DEF vars
  <2>5. ASSUME NEW d \in Clients, Connect(d) \/ ShutdownReturns(d) \/ RegisterManaged(d) \/ KillCalled(d)
        PROVE  FALSE
    BY <1>2, <2>5 DEF Connect, ShutdownReturns, RegisterManaged, KillCalled
  <2>6. ASSUME NEW d \in Clients, KillReturns(d) \/ DropClient(d)
        PROVE  proc' = "gone"
    BY <1>2, <2>6 DEF KillReturns, DropClient
  <2> QED
    BY <2>1, <2>2, <2>3, <2>4, <2>5, <2>6 DEF Next, StartStep, ClientStep, Alive
<1> QED
  BY <1>1, <1>2

----------------------------------------------------------------------------
(* The versions.                                                           *)

\* The configurations do not change, so that the plugin would always serve the
\* same version and the host always support the same ones.
LEMMA NegotiatedStep == TypeOK /\ Negotiated /\ [Next]_vars => Negotiated'
<1> SUFFICES ASSUME TypeOK, Negotiated, [Next]_vars
             PROVE  Negotiated'
  OBVIOUS
<1> USE BothAreClients DEF TypeOK, clientVars, procVars
<1>1. UNCHANGED offer
  BY DEF Next, StartStep, ClientStep, vars, Becomes, StartReattach, StartCommand, Spawn,
     StartRefused, StartTimesOut, ReadLine, Connect, ShutdownReturns, KillReturns, KillCalled,
     DropClient, RegisterManaged, CleanupClients, Boot, BootStranger, Serve, Drain, Crash, Hang
<1>2. UNCHANGED <<ServedVersion, HostSupports>>
  BY <1>1 DEF ServedVersion, HostSupports
<1>3. ServedVersion \in Versions /\ HostSupports \subseteq Versions
  BY OfferType, ServedIsBest
<1>4. line' = line \/ line' = 0 \/ line' = NoLine \/ line' = ServedVersion
  BY DEF Next, StartStep, ClientStep, vars, Becomes, StartReattach, StartCommand, Spawn,
     StartRefused, StartTimesOut, ReadLine, Connect, ShutdownReturns, KillReturns, KillCalled,
     DropClient, RegisterManaged, CleanupClients, Boot, BootStranger, Serve, Drain, Crash, Hang
<1>5. ASSUME NEW c \in Clients
      PROVE  \/ version'[c] = version[c]
             \/ version'[c] = version["owner"]
             \/ line \in HostSupports /\ version'[c] = line
  <2>1. CASE StartReattach
    BY <2>1 DEF StartReattach
  <2>2. CASE ReadLine
    BY <2>2 DEF ReadLine
  <2>3. CASE ~StartReattach /\ ~ReadLine
    <3>1. UNCHANGED version
      BY <2>3 DEF Next, StartStep, ClientStep, vars, Becomes, StartCommand, Spawn,
         StartRefused, StartTimesOut, Connect, ShutdownReturns, KillReturns, KillCalled,
         DropClient, RegisterManaged, CleanupClients, Boot, BootStranger, Serve, Drain, Crash, Hang
    <3> QED
      BY <3>1
  <2> QED
    BY <2>1, <2>2, <2>3
<1>6. line \in HostSupports => line = ServedVersion
  BY <1>3, PluginHostAssumption DEF Negotiated, NoLine, Versions
<1>7. ASSUME NEW c \in Clients, version'[c] # 0
      PROVE  version'[c] = ServedVersion /\ ServedVersion \in HostSupports
  BY <1>5, <1>6, <1>7 DEF Negotiated
<1> QED
  BY <1>2, <1>4, <1>7 DEF Negotiated

LEMMA NegotiatedMeansBest == TypeOK /\ Negotiated => NegotiatedIsBest
<1> SUFFICES ASSUME TypeOK, Negotiated
             PROVE  NegotiatedIsBest
  OBVIOUS
<1> QED
  BY OfferType, ServedIsBest DEF Negotiated, NegotiatedIsBest

----------------------------------------------------------------------------

PluginInv == TypeOK /\ Launched /\ Held /\ KilledIsOver /\ Negotiated

LEMMA PluginInvHolds == Spec => []PluginInv
<1>1. Init => PluginInv
  <2> SUFFICES ASSUME Init PROVE PluginInv
    OBVIOUS
  <2>1. TypeOK
    <3>1. /\ child \in [Clients -> BOOLEAN] /\ grpc \in [Clients -> BOOLEAN]
          /\ exited \in [Clients -> BOOLEAN] /\ cmd \in BOOLEAN /\ spawning \in BOOLEAN
      BY Zenon DEF Init
    <3>2. /\ starts \in [Clients -> 0..MaxStarts] /\ version \in [Clients -> Versions \cup {0}]
          /\ spawns \in 0..MaxStarts /\ line \in Versions \cup {0, NoLine}
      BY PluginHostAssumption DEF Init
    <3> QED
      BY <3>1, <3>2 DEF Init, TypeOK
  <2>2. Launched
    BY DEF Init, Launched
  <2>3. Held /\ KilledIsOver
    BY BothAreClients DEF Init, Held, KilledIsOver
  <2>4. Negotiated
    BY DEF Init, Negotiated
  <2> QED
    BY <2>1, <2>2, <2>3, <2>4 DEF PluginInv
<1>2. PluginInv /\ [Next]_vars => PluginInv'
  BY TypeStep, LaunchedStep, HeldStep, KilledStep, NegotiatedStep DEF PluginInv
<1> QED
  BY <1>1, <1>2, PTL DEF Spec

\* Every variable keeps the type that the code gives it, whatever the clients
\* call and whatever becomes of the process.
THEOREM TypeCorrect == Spec => []TypeOK
<1>1. PluginInv => TypeOK
  BY DEF PluginInv
<1> QED
  BY <1>1, PluginInvHolds, PTL

\* However often start is called, and although a start that has timed out does
\* not cancel the task that starts the process, there is at most one process.
THEOREM StartsOne == Spec => []OneProcess
<1>1. PluginInv => OneProcess
  BY DEF PluginInv, Launched, OneProcess
<1> QED
  BY <1>1, PluginInvHolds, PTL

\* No process is alive behind a client that was killed or dropped with the
\* handle, whatever the other client and cleanup_clients do in between.
THEOREM KillIsFinal == Spec => []KilledIsOver
<1>1. PluginInv => KilledIsOver
  BY DEF PluginInv
<1> QED
  BY <1>1, PluginInvHolds, PTL

\* A negotiated version is one the host supports and the highest that the two
\* have in common, for every pair of configurations.
THEOREM NegotiatesBest == Spec => []NegotiatedIsBest
<1>1. PluginInv => NegotiatedIsBest
  BY NegotiatedMeansBest DEF PluginInv
<1> QED
  BY <1>1, PluginInvHolds, PTL

=============================================================================
