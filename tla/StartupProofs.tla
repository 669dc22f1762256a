------------------------------ MODULE StartupProofs ------------------------------
(***************************************************************************)
(* What holds of Startup for every configuration, every number of ports    *)
(* and whatever other processes do with them: connectors reach the servers *)
(* of their own name, and no line is routed before the targets are         *)
(* complete.                                                               *)
(***************************************************************************)
EXTENDS Startup, SequenceTheorems, TLAPS

\* Before Broker.Start there is no connector, before the second loop of
\* ConnectorManager.Start none of a source, and a line comes only from one that is
\* connected.  The loops start a connector once.
NothingEarly ==
    /\ probe # NoPort => phase \in 3 .. 4
    /\ phase < 6 => \A c \in Conn : connector[c] = "none"
    /\ phase < 7 => \A s \in Sources : connector[<<"source", s>>] = "none"
    /\ phase \in 6 .. 7 => \A c \in todo : connector[c] = "none"
    /\ \A s \in Sources :
          line[s] # "none" => connector[<<"source", s>>] = "connected"

\* A port in the details is one whose listener the connection's own server has
\* opened, and once the configuration is through every connection has one.
PortsOwned ==
    /\ \A c \in Conn : details[c] # NoPort => owner[details[c]] = c
    /\ phase > 5 => \A c \in Conn : details[c] # NoPort

\* TargetConnectors lacks at most the targets that its loop still comes to.
TargetsListed ==
    /\ phase = 6 => /\ todo \subseteq Of("target")
                    /\ \A t \in Targets : t \in registered \/ <<"target", t>> \in todo
    /\ phase > 6 => registered = Targets

StartInv ==
    /\ TypeOK /\ NothingEarly /\ PortsOwned /\ TargetsListed
    /\ WiredRight /\ MapComplete

----------------------------------------------------------------------------------
(* Facts about the phases and the loops.                                   *)

\* The numbers of the phases.
LEMMA PhaseNumbers ==
    ASSUME phase \in 1 .. Len(Phases)
    PROVE  /\ phase \in 1 .. 9
           /\ At("load") <=> phase = 1
           /\ At("web") <=> phase = 2
           /\ At("startSources") <=> phase = 3
           /\ At("startTargets") <=> phase = 4
           /\ At("configure") <=> phase = 5
           /\ At("connectTargets") <=> phase = 6
           /\ At("connectSources") <=> phase = 7
           /\ At("workers") <=> phase = 8
           /\ At("wait") <=> phase = 9
  BY DEF At, Phases

\* What the loops go through.
LEMMA LoopRange ==
    ASSUME NEW p
    PROVE  LoopOver(p) \subseteq Conn \cup ({"worker"} \X (1 .. NumWorkers))
<1>1. CASE p \in {"startSources", "startTargets", "connectTargets",
                  "connectSources", "workers"}
  BY <1>1 DEF LoopOver, Of
<1>2. CASE p \notin {"startSources", "startTargets", "connectTargets",
                  "connectSources", "workers"}
  BY <1>2 DEF LoopOver
<1> QED
  BY <1>1, <1>2

\* What the loop of Run's phase that comes next goes through.
LEMMA NextPhaseType ==
    ASSUME phase \in 1 .. 8, NextPhase
    PROVE  /\ phase' \in 1 .. Len(Phases)
           /\ todo' \subseteq Conn \cup ({"worker"} \X (1 .. NumWorkers))
<1>1. Len(Phases) = 9
  BY DEF Phases
<1> QED
  BY <1>1, LoopRange DEF NextPhase

\* The phases that are loops.
LEMMA LoopPhases ==
    ASSUME phase \in 1 .. Len(Phases), LoopEnds PROVE phase \in {3, 4, 6, 7, 8}
  BY PhaseNumbers DEF LoopEnds

\* The loop of ConnectorManager.Start that comes first.
LEMMA LoopOfTargets ==
    ASSUME phase = 5, NextPhase PROVE todo' = Of("target")
  BY DEF NextPhase, LoopOver, Phases

\* The second one.
LEMMA LoopOfSources ==
    ASSUME phase = 6, NextPhase PROVE todo' = Of("source")
  BY DEF NextPhase, LoopOver, Phases

\* The two kinds of connections.
LEMMA ConnParts ==
    ASSUME NEW c \in Conn
    PROVE  \/ c[1] = "source" /\ c[2] \in Sources /\ c = <<"source", c[2]>>
           \/ c[1] = "target" /\ c[2] \in Targets /\ c = <<"target", c[2]>>
  BY DEF Conn

\* No connection is one of the marks for other owners of a port.
LEMMA NobodyIsNoConnection == Nobody \notin Conn
  BY DEF Nobody, Conn

\* The rules of a target are a sequence of limiters.
LEMMA RulesAreLimiters ==
    ASSUME NEW t \in Targets PROVE createRateLimitRules(t) \in Seq(Limiter)
<1> DEFINE R == [throughput : {"30KB", "junk"}, period : {"1s", "1us", "junk"}]
           n == Len(RateLimit[t])
<1>1. RateLimit[t] \in Seq(R)
  BY RateLimitAssumption
<1>2. n \in Nat /\ DOMAIN RateLimit[t] = 1 .. n
  BY <1>1, LenProperties
<1>3. createRateLimitRules(t) \in [1 .. n -> Limiter]
  BY <1>2 DEF createRateLimitRules, Limiter
<1> QED
  BY <1>2, <1>3, SeqDef

----------------------------------------------------------------------------------
(* Every step keeps the invariant.                                         *)

\* The types.
LEMMA TypeStep ==
    ASSUME TypeOK, NothingEarly, [Next]_vars PROVE TypeOK'
<1> USE PhaseNumbers, NumbersAssumption DEF TypeOK
<1>1. CASE LoadConfig
  <2>1. /\ phase' \in 1 .. Len(Phases)
        /\ todo' \subseteq Conn \cup ({"worker"} \X (1 .. NumWorkers))
    BY <1>1, NextPhaseType DEF LoadConfig
  <2> QED
    BY <1>1, <2>1 DEF LoadConfig, netVars, peerVars
<1>2. CASE LoadConfigFails
  BY <1>2 DEF LoadConfigFails, runVars, netVars, peerVars
<1>3. CASE StartHttp
  BY <1>3, NextPhaseType DEF StartHttp, runVars, netVars, peerVars
<1>4. CASE LoopEnds
  BY <1>4, LoopPhases, NextPhaseType DEF LoopEnds, runVars, netVars, peerVars
<1>5. ASSUME NEW p \in Ephemeral, GetFreePort(p) PROVE TypeOK'
  BY <1>5 DEF GetFreePort, runVars, netVars, peerVars
<1>6. CASE GetFreePortFails
  BY <1>6 DEF GetFreePortFails, runVars, netVars, peerVars
<1>7. ASSUME NEW c \in Conn, StartTCPServer(c) PROVE TypeOK'
  BY <1>7 DEF StartTCPServer, runVars, netVars, peerVars
<1>8. CASE StartTCPServerFails
  BY <1>8 DEF StartTCPServerFails, runVars, netVars, peerVars
<1>9. CASE Configure
  BY <1>9, NextPhaseType, RulesAreLimiters DEF Configure, netVars, peerVars
<1>10. CASE ConfigureFails
  BY <1>10 DEF ConfigureFails, runVars, netVars, peerVars
<1>11. ASSUME NEW c \in Conn, StartConnector(c) PROVE TypeOK'
  BY <1>11, ConnParts DEF StartConnector, runVars, netVars, peerVars
<1>12. ASSUME NEW w \in {"worker"} \X (1 .. NumWorkers), StartWorker(w) PROVE TypeOK'
  BY <1>12 DEF StartWorker, runVars, netVars, peerVars
<1>13. CASE ServeHttp
  BY <1>13 DEF ServeHttp, runVars, netVars, peerVars
<1>14. CASE ServeHttpFails
  BY <1>14 DEF ServeHttpFails, runVars, netVars, peerVars
<1>15. ASSUME NEW c \in Conn, Dial(c) PROVE TypeOK'
  BY <1>15 DEF Dial, runVars, netVars, peerVars
<1>16. ASSUME NEW s \in Sources, Acknowledge(s) PROVE TypeOK'
  BY <1>16 DEF Acknowledge, runVars, netVars, peerVars
<1>17. ASSUME NEW s \in Sources, Dispatch(s) PROVE TypeOK'
  BY <1>17 DEF Dispatch, runVars, netVars, peerVars
<1>18. ASSUME NEW p \in Ports, TakePort(p) PROVE TypeOK'
  BY <1>18 DEF TakePort, runVars, netVars, peerVars
<1>19. ASSUME NEW s \in Sources, NomadFails(s) PROVE TypeOK'
  BY <1>19 DEF NomadFails, runVars, netVars, peerVars
<1>20. CASE UNCHANGED vars
  BY <1>20 DEF vars, runVars, netVars, peerVars
<1> QED
  BY <1>1, <1>2, <1>3, <1>4, <1>5, <1>6, <1>7, <1>8, <1>9, <1>10, <1>11, <1>12,
     <1>13, <1>14, <1>15, <1>16, <1>17, <1>18, <1>19, <1>20
  DEF Next, RunStep, WebStep

\* Run comes to the connectors last.
LEMMA EarlyStep ==
    ASSUME TypeOK, NothingEarly, TargetsListed, [Next]_vars PROVE NothingEarly'
<1> USE PhaseNumbers, NumbersAssumption DEF TypeOK, NothingEarly
<1>1. CASE LoadConfig
  BY <1>1 DEF LoadConfig, NextPhase, runVars, netVars, peerVars
<1>2. CASE LoadConfigFails
  BY <1>2 DEF LoadConfigFails, runVars, netVars, peerVars
<1>3. CASE StartHttp
  BY <1>3 DEF StartHttp, NextPhase, runVars, netVars, peerVars
<1>4. CASE LoopEnds
  <2>1. CASE phase = 6
    <3>1. todo' = Of("source")
      BY <1>4, <2>1, LoopOfSources DEF LoopEnds
    <3>2. \A c \in Of("source") : connector[c] = "none"
      <4>1. TAKE c \in Of("source")
      <4>2. c[2] \in Sources /\ c = <<"source", c[2]>>
        BY ConnParts DEF Of
      <4> QED
        BY <2>1, <4>2
    <3> QED
      BY <1>4, <2>1, <3>1, <3>2 DEF LoopEnds, NextPhase, peerVars
  <2>2. CASE phase # 6
    BY <1>4, <2>2, LoopPhases DEF LoopEnds, NextPhase, peerVars
  <2> QED
    BY <2>1, <2>2
<1>5. ASSUME NEW p \in Ephemeral, GetFreePort(p) PROVE NothingEarly'
  BY <1>5 DEF GetFreePort, runVars, netVars, peerVars, Starting
<1>6. CASE GetFreePortFails
  BY <1>6 DEF GetFreePortFails, runVars, netVars, peerVars
<1>7. ASSUME NEW c \in Conn, StartTCPServer(c) PROVE NothingEarly'
  BY <1>7 DEF StartTCPServer, runVars, netVars, peerVars
<1>8. CASE StartTCPServerFails
  BY <1>8 DEF StartTCPServerFails, runVars, netVars, peerVars
<1>9. CASE Configure
  <2>1. phase = 5 /\ todo' \subseteq Conn
    BY <1>9, LoopOfTargets DEF Configure, Of
  <2> QED
    BY <1>9, <2>1 DEF Configure, NextPhase, peerVars
<1>10. CASE ConfigureFails
  BY <1>10 DEF ConfigureFails, runVars, netVars, peerVars
<1>11. ASSUME NEW c \in Conn, StartConnector(c) PROVE NothingEarly'
  BY <1>11, ConnParts DEF StartConnector, runVars, netVars, peerVars, TargetsListed, Of
<1>12. ASSUME NEW w \in {"worker"} \X (1 .. NumWorkers), StartWorker(w)
       PROVE NothingEarly'
  BY <1>12 DEF StartWorker, runVars, netVars, peerVars
<1>13. CASE ServeHttp
  BY <1>13 DEF ServeHttp, runVars, netVars, peerVars
<1>14. CASE ServeHttpFails
  BY <1>14 DEF ServeHttpFails, runVars, netVars, peerVars
<1>15. ASSUME NEW c \in Conn, Dial(c) PROVE NothingEarly'
  BY <1>15 DEF Dial, runVars, netVars, peerVars
<1>16. ASSUME NEW s \in Sources, Acknowledge(s) PROVE NothingEarly'
  BY <1>16 DEF Acknowledge, runVars, netVars, peerVars
<1>17. ASSUME NEW s \in Sources, Dispatch(s) PROVE NothingEarly'
  BY <1>17 DEF Dispatch, runVars, netVars, peerVars
<1>18. ASSUME NEW p \in Ports, TakePort(p) PROVE NothingEarly'
  BY <1>18 DEF TakePort, runVars, netVars, peerVars
<1>19. ASSUME NEW s \in Sources, NomadFails(s) PROVE NothingEarly'
  BY <1>19 DEF NomadFails, runVars, netVars, peerVars
<1>20. CASE UNCHANGED vars
  BY <1>20 DEF vars, runVars, netVars, peerVars
<1> QED
  BY <1>1, <1>2, <1>3, <1>4, <1>5, <1>6, <1>7, <1>8, <1>9, <1>10, <1>11, <1>12,
     <1>13, <1>14, <1>15, <1>16, <1>17, <1>18, <1>19, <1>20
  DEF Next, RunStep, WebStep

\* A port that somebody listens on is given to nobody else.
LEMMA PortsStep ==
    ASSUME TypeOK, NothingEarly, PortsOwned, [Next]_vars PROVE PortsOwned'
<1> USE PhaseNumbers, NumbersAssumption, NobodyIsNoConnection DEF TypeOK, PortsOwned
<1>1. CASE LoadConfig
  BY <1>1 DEF LoadConfig, NextPhase, runVars, netVars, peerVars
<1>2. CASE LoadConfigFails
  BY <1>2 DEF LoadConfigFails, runVars, netVars, peerVars
<1>3. CASE StartHttp
  BY <1>3 DEF StartHttp, NextPhase, runVars, netVars, peerVars
<1>4. CASE LoopEnds
  BY <1>4, LoopPhases DEF LoopEnds, NextPhase, runVars, netVars, peerVars
<1>5. ASSUME NEW p \in Ephemeral, GetFreePort(p) PROVE PortsOwned'
  BY <1>5 DEF GetFreePort, runVars, netVars, peerVars
<1>6. CASE GetFreePortFails
  BY <1>6 DEF GetFreePortFails, runVars, netVars, peerVars
<1>7. ASSUME NEW c \in Conn, StartTCPServer(c) PROVE PortsOwned'
  BY <1>7 DEF StartTCPServer, runVars, netVars, peerVars, NothingEarly
<1>8. CASE StartTCPServerFails
  BY <1>8 DEF StartTCPServerFails, runVars, netVars, peerVars
<1>9. CASE Configure
  BY <1>9 DEF Configure, NextPhase, runVars, netVars, peerVars
<1>10. CASE ConfigureFails
  BY <1>10 DEF ConfigureFails, runVars, netVars, peerVars
<1>11. ASSUME NEW c \in Conn, StartConnector(c) PROVE PortsOwned'
  BY <1>11, ConnParts DEF StartConnector, runVars, netVars, peerVars
<1>12. ASSUME NEW w \in {"worker"} \X (1 .. NumWorkers), StartWorker(w)
       PROVE PortsOwned'
  BY <1>12 DEF StartWorker, runVars, netVars, peerVars
<1>13. CASE ServeHttp
  BY <1>13 DEF ServeHttp, runVars, netVars, peerVars
<1>14. CASE ServeHttpFails
  BY <1>14 DEF ServeHttpFails, runVars, netVars, peerVars
<1>15. ASSUME NEW c \in Conn, Dial(c) PROVE PortsOwned'
  BY <1>15 DEF Dial, runVars, netVars, peerVars
<1>16. ASSUME NEW s \in Sources, Acknowledge(s) PROVE PortsOwned'
  BY <1>16 DEF Acknowledge, runVars, netVars, peerVars
<1>17. ASSUME NEW s \in Sources, Dispatch(s) PROVE PortsOwned'
  BY <1>17 DEF Dispatch, runVars, netVars, peerVars
<1>18. ASSUME NEW p \in Ports, TakePort(p) PROVE PortsOwned'
  BY <1>18 DEF TakePort, runVars, netVars, peerVars
<1>19. ASSUME NEW s \in Sources, NomadFails(s) PROVE PortsOwned'
  BY <1>19 DEF NomadFails, runVars, netVars, peerVars
<1>20. CASE UNCHANGED vars
  BY <1>20 DEF vars, runVars, netVars, peerVars
<1> QED
  BY <1>1, <1>2, <1>3, <1>4, <1>5, <1>6, <1>7, <1>8, <1>9, <1>10, <1>11, <1>12,
     <1>13, <1>14, <1>15, <1>16, <1>17, <1>18, <1>19, <1>20
  DEF Next, RunStep, WebStep

\* Every target is listed before the first source is connected.
LEMMA TargetsStep ==
    ASSUME TypeOK, NothingEarly, TargetsListed, [Next]_vars PROVE TargetsListed'
<1> USE PhaseNumbers, NumbersAssumption DEF TypeOK, TargetsListed
<1>1. CASE LoadConfig
  BY <1>1 DEF LoadConfig, NextPhase, runVars, netVars, peerVars
<1>2. CASE LoadConfigFails
  BY <1>2 DEF LoadConfigFails, runVars, netVars, peerVars
<1>3. CASE StartHttp
  BY <1>3 DEF StartHttp, NextPhase, runVars, netVars, peerVars
<1>4. CASE LoopEnds
  <2>1. phase \in {3, 4, 6, 7, 8} /\ phase' = phase + 1 /\ UNCHANGED registered
    BY <1>4, LoopPhases DEF LoopEnds, NextPhase
  <2>2. CASE phase = 6
    <3>1. todo = {}
      BY <1>4 DEF LoopEnds
    <3>2. \A t \in Targets : <<"target", t>> \notin todo
      BY <3>1
    <3>3. registered = Targets
      BY <2>2, <3>2
    <3> QED
      BY <2>1, <2>2, <3>3
  <2>3. CASE phase # 6
    BY <2>1, <2>3
  <2> QED
    BY <2>2, <2>3
<1>5. ASSUME NEW p \in Ephemeral, GetFreePort(p) PROVE TargetsListed'
  BY <1>5 DEF GetFreePort, runVars, netVars, peerVars
<1>6. CASE GetFreePortFails
  BY <1>6 DEF GetFreePortFails, runVars, netVars, peerVars
<1>7. ASSUME NEW c \in Conn, StartTCPServer(c) PROVE TargetsListed'
  BY <1>7 DEF StartTCPServer, runVars, netVars, peerVars, NothingEarly
<1>8. CASE StartTCPServerFails
  BY <1>8 DEF StartTCPServerFails, runVars, netVars, peerVars
<1>9. CASE Configure
  BY <1>9, LoopOfTargets DEF Configure, NextPhase, runVars, netVars, peerVars,
       Phases, Of, Conn
<1>10. CASE ConfigureFails
  BY <1>10 DEF ConfigureFails, runVars, netVars, peerVars
<1>11. ASSUME NEW c \in Conn, StartConnector(c) PROVE TargetsListed'
  BY <1>11, ConnParts DEF StartConnector, runVars, netVars, peerVars, Of
<1>12. ASSUME NEW w \in {"worker"} \X (1 .. NumWorkers), StartWorker(w)
       PROVE TargetsListed'
  BY <1>12 DEF StartWorker, runVars, netVars, peerVars
<1>13. CASE ServeHttp
  BY <1>13 DEF ServeHttp, runVars, netVars, peerVars
<1>14. CASE ServeHttpFails
  BY <1>14 DEF ServeHttpFails, runVars, netVars, peerVars
<1>15. ASSUME NEW c \in Conn, Dial(c) PROVE TargetsListed'
  BY <1>15 DEF Dial, runVars, netVars, peerVars
<1>16. ASSUME NEW s \in Sources, Acknowledge(s) PROVE TargetsListed'
  BY <1>16 DEF Acknowledge, runVars, netVars, peerVars
<1>17. ASSUME NEW s \in Sources, Dispatch(s) PROVE TargetsListed'
  BY <1>17 DEF Dispatch, runVars, netVars, peerVars
<1>18. ASSUME NEW p \in Ports, TakePort(p) PROVE TargetsListed'
  BY <1>18 DEF TakePort, runVars, netVars, peerVars
<1>19. ASSUME NEW s \in Sources, NomadFails(s) PROVE TargetsListed'
  BY <1>19 DEF NomadFails, runVars, netVars, peerVars
<1>20. CASE UNCHANGED vars
  BY <1>20 DEF vars, runVars, netVars, peerVars
<1> QED
  BY <1>1, <1>2, <1>3, <1>4, <1>5, <1>6, <1>7, <1>8, <1>9, <1>10, <1>11, <1>12,
     <1>13, <1>14, <1>15, <1>16, <1>17, <1>18, <1>19, <1>20
  DEF Next, RunStep, WebStep

\* A connector dials the port of its own details, which its server listens on.
LEMMA WiredStep ==
    ASSUME TypeOK, NothingEarly, PortsOwned, WiredRight, [Next]_vars
    PROVE  WiredRight'
<1>1. ASSUME NEW c \in Conn, Dial(c) PROVE WiredRight'
  <2>1. details[c] # NoPort
    BY <1>1, PhaseNumbers DEF Dial, TypeOK, NothingEarly, PortsOwned
  <2>2. owner[details[c]] = c /\ c # Nobody
    BY <2>1, NobodyIsNoConnection DEF PortsOwned
  <2> QED
    BY <1>1, <2>1, <2>2 DEF Dial, WiredRight, TypeOK
<1>2. ASSUME NEW c \in Conn, StartConnector(c) PROVE WiredRight'
  BY <1>2 DEF StartConnector, WiredRight, TypeOK
<1>3. CASE UNCHANGED <<connector, peer>>
  BY <1>3 DEF WiredRight
<1> QED
  BY <1>1, <1>2, <1>3
  DEF Next, RunStep, WebStep, LoadConfig, LoadConfigFails, StartHttp, LoopEnds,
      GetFreePort, GetFreePortFails, StartTCPServer, StartTCPServerFails, Configure,
      ConfigureFails, StartWorker, ServeHttp, ServeHttpFails, Acknowledge, Dispatch,
      TakePort, NomadFails, vars, runVars, netVars, peerVars

\* A worker looks up the targets of an acknowledged line, so after the loop that
\* lists them.
LEMMA MapStep ==
    ASSUME TypeOK, NothingEarly, TargetsListed, MapComplete, [Next]_vars
    PROVE  MapComplete'
<1>1. ASSUME NEW s \in Sources, Dispatch(s) PROVE MapComplete'
  <2>1. phase > 6
    <3>1. phase \in 1 .. 9
      BY PhaseNumbers DEF TypeOK
    <3>2. connector[<<"source", s>>] = "connected"
      BY <1>1 DEF Dispatch, NothingEarly
    <3> QED
      BY <3>1, <3>2 DEF NothingEarly
  <2>2. (Route[s] \cap Targets) \ registered = {}
    BY <2>1 DEF TargetsListed
  <2> QED
    BY <1>1, <2>2 DEF Dispatch, MapComplete
<1>2. CASE UNCHANGED stray
  BY <1>2 DEF MapComplete
<1> QED
  BY <1>1, <1>2
  DEF Next, RunStep, WebStep, LoadConfig, LoadConfigFails, StartHttp, LoopEnds,
      GetFreePort, GetFreePortFails, StartTCPServer, StartTCPServerFails, Configure,
      ConfigureFails, StartConnector, StartWorker, ServeHttp, ServeHttpFails, Dial,
      Acknowledge, TakePort, NomadFails, vars, runVars, netVars, peerVars

----------------------------------------------------------------------------------
(* The theorems.                                                           *)

\* What every reachable state of the start satisfies.
THEOREM StartInvariant == Spec => []StartInv
<1>1. Init => StartInv
  <2> SUFFICES ASSUME Init PROVE StartInv
    OBVIOUS
  <2>1. phase = 1 /\ Len(Phases) = 9
    BY DEF Init, Phases
  <2>2. TypeOK
    BY <2>1, NumbersAssumption, EmptySeq DEF Init, TypeOK
  <2> QED
    BY <2>1, <2>2
    DEF Init, Conn, StartInv, NothingEarly, PortsOwned, TargetsListed, WiredRight,
        MapComplete
<1>2. StartInv /\ [Next]_vars => StartInv'
  BY TypeStep, EarlyStep, PortsStep, TargetsStep, WiredStep, MapStep
  DEF StartInv
<1> QED
  BY <1>1, <1>2, PTL DEF Spec

\* Every connector that is connected talks to the server of its own name, whatever
\* ports other processes, the web server and the other servers have taken.
THEOREM ConnectorsWiredRight == Spec => []WiredRight
<1>1. StartInv => WiredRight
  BY DEF StartInv
<1> QED
  BY <1>1, StartInvariant, PTL

\* No configured target is missing from TargetConnectors when a line is routed,
\* however the goroutines of the start are scheduled.
THEOREM RoutingFindsTargets == Spec => []MapComplete
<1>1. StartInv => MapComplete
  BY DEF StartInv
<1> QED
  BY <1>1, StartInvariant, PTL
==================================================================================
