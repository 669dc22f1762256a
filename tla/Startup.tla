-------------------------------- MODULE Startup --------------------------------
(***************************************************************************)
(* How RunCommand.Run (cmd/run.go) brings the process up: the              *)
(* configuration, the web server (web/server.go), the servers of the       *)
(* sources and targets (connection.Manager.Start and the Start of every    *)
(* provider), the broker's connectors (ConnectorManager.Start) and its     *)
(* workers (WorkerManager.Start).                                          *)
(*                                                                         *)
(* The main goroutine works through phases; what it has started runs on    *)
(* beside it: the web server, connectors that dial and acknowledge lines,  *)
(* workers that look up targets.  Other processes take ports.  Go's maps   *)
(* are gone through in any order.  A line is followed to the first look-up *)
(* of its targets; Broker takes up from there.                             *)
(***************************************************************************)
EXTENDS Integers, Sequences, FiniteSets

CONSTANTS
    Sources,      \* names under sources: in the configuration
    Targets,      \* names under targets:
    Providers,    \* the providers that a configuration may name for them
    Route,        \* the targets of a source
    RateLimit,    \* the throughputs and periods of a target's rate limits
    NumWorkers,   \* --workers
    WebPort,      \* --port
    Ports,        \* the ports of the machine
    Ephemeral,    \* those that the system gives to who asks for any port
    MaxForeign,   \* bound: ports that other processes take
    Faults        \* "file": the configuration cannot be read; "nomad": the
                  \* client of a nomad source cannot start

\* The configured connections.
Conn == ({"source"} \X Sources) \cup ({"target"} \X Targets)

ASSUME ProvidersAssumption ==
    Providers # {} /\ Providers \subseteq [Conn -> STRING]
ASSUME RouteAssumption     == Route \in [Sources -> SUBSET STRING]
ASSUME RateLimitAssumption ==
    RateLimit \in [Targets -> Seq([throughput : {"30KB", "junk"},
                                   period     : {"1s", "1us", "junk"}])]
ASSUME NumbersAssumption   ==
    /\ NumWorkers \in Nat /\ MaxForeign \in Nat
    /\ Ports \subseteq Nat \ {0} /\ WebPort \in Ports /\ Ephemeral \subseteq Ports
ASSUME FaultsAssumption    == Faults \subseteq {"file", "nomad"}

NoPort == 0
Nobody == <<"nobody">>
Foreign == <<"foreign">>
Web == <<"web">>

\* What Run does, in this order.
SourcesFirst ==
    <<"load", "web", "startSources", "startTargets", "configure",
      "connectSources", "workers", "connectTargets", "wait">>
Phases ==
    <<"load", "web", "startSources", "startTargets", "configure",
      "connectTargets", "connectSources", "workers", "wait">>

VARIABLES
    phase,        \* where Run is in Phases
    Provider,     \* the provider of each connection in the configuration
    todo,         \* what is left to do in a phase that is a loop
    probe,        \* the port that GetFreePort has returned, until it is used
    details,      \* connection.Details: the port of each connection's server
    owner,        \* who listens on each port
    taken,        \* how many ports other processes have taken
    web,          \* the goroutine of web.StartServer
    limiters,     \* the rate limiters of each target
    connector,    \* the connector of each connection
    peer,         \* whose server it is connected to
    registered,   \* the keys of ConnectorManager.TargetConnectors
    workers,      \* the workers that run
    line,         \* the first line of each source
    stray,        \* history: look-ups of a configured target that found none
    ended         \* why the process has ended

netVars  == <<owner, taken, web>>
peerVars == <<connector, peer, line, stray>>
runVars == <<phase, Provider, todo, probe, details, limiters, registered,
             workers>>
vars == <<runVars, netVars, peerVars, ended>>

\* A limiter: its limit, and whether its ticker runs.
Limiter == [limit : {"30KB", "zero"}, ticks : BOOLEAN]

TypeOK ==
    /\ phase \in 1 .. Len(Phases) /\ Provider \in Providers
    /\ todo \subseteq Conn \cup ({"worker"} \X (1 .. NumWorkers))
    /\ probe \in Ports \cup {NoPort}
    /\ details \in [Conn -> Ports \cup {NoPort}]
    /\ owner \in [Ports -> Conn \cup {Nobody, Foreign, Web}]
    /\ taken \in 0 .. MaxForeign
    /\ web \in {"off", "starting", "serving"}
    /\ limiters \in [Targets -> Seq(Limiter)]
    /\ connector \in [Conn -> {"none", "dial", "connected", "dead"}]
    /\ peer \in [Conn -> Conn \cup {Nobody, Foreign, Web}]
    /\ registered \subseteq Targets
    /\ workers \subseteq {"worker"} \X (1 .. NumWorkers)
    /\ line \in [Sources -> {"none", "acked", "routed"}]
    /\ stray \subseteq Sources \X Targets
    /\ ended \in {"no", "config", "panic", "web", "nomad"}

Init ==
    /\ phase = 1 /\ Provider \in Providers
    /\ todo = {} /\ probe = NoPort
    /\ details = [c \in Conn |-> NoPort]
    /\ owner = [p \in Ports |-> Nobody] /\ taken = 0
    /\ web = "off"
    /\ limiters = [t \in Targets |-> <<>>]
    /\ connector = [c \in Conn |-> "none"]
    /\ peer = [c \in Conn |-> Nobody]
    /\ registered = {} /\ workers = {}
    /\ line = [s \in Sources |-> "none"] /\ stray = {}
    /\ ended = "no"

-------------------------------------------------------------------------------
(* Run: the phases.                                                        *)

\* The providers that Run has a server for.
Known(c) ==
    \/ c[1] = "source" /\ Provider[c] \in {"dummy", "nomad"}
    \/ c[1] = "target" /\ Provider[c] \in {"blackhole", "stdout", "logzio"}

Of(kind) == {c \in Conn : c[1] = kind}

\* What the loop of a phase goes through.  A connection whose provider is not
\* known is not added to its manager, without a word.
OneWorkerLess(p) ==
    CASE p = "startSources"   -> {c \in Of("source") : Known(c)}
      [] p = "startTargets"   -> {c \in Of("target") : Known(c)}
      [] p = "connectTargets" -> Of("target")
      [] p = "connectSources" -> Of("source")
      [] p = "workers"        -> {"worker"} \X (1 .. NumWorkers - 1)
      [] OTHER                -> {}

LoopOver(p) ==
    CASE p = "startSources"   -> {c \in Of("source") : Known(c)}
      [] p = "startTargets"   -> {c \in Of("target") : Known(c)}
      [] p = "connectTargets" -> Of("target")
      [] p = "connectSources" -> Of("source")
      [] p = "workers"        -> {"worker"} \X (1 .. NumWorkers)
      [] OTHER                -> {}

At(p) == Phases[phase] = p

NextPhase ==
    /\ phase' = phase + 1
    /\ todo' = LoopOver(Phases[phase + 1])

\* A loop is over.
LoopEnds ==
    /\ \E p \in {"startSources", "startTargets", "connectTargets",
                 "connectSources", "workers"} : At(p)
    /\ todo = {} /\ probe = NoPort
    /\ NextPhase
    /\ UNCHANGED <<Provider, probe, details, limiters, registered, workers,
                   netVars, peerVars, ended>>

\* loadConfig; Validate is not called.
LoadConfig ==
    /\ At("load")
    /\ NextPhase
    /\ UNCHANGED <<Provider, probe, details, limiters, registered, workers,
                   netVars, peerVars, ended>>

\* log.Fatalf, here and wherever ended becomes "config".
LoadConfigFails ==
    /\ At("load") /\ "file" \in Faults
    /\ ended' = "config"
    /\ UNCHANGED <<runVars, netVars, peerVars>>

\* startHttp: a goroutine, which nobody waits for.
StartHttp ==
    /\ At("web")
    /\ web' = "starting"
    /\ NextPhase
    /\ UNCHANGED <<Provider, probe, details, limiters, registered, workers,
                   owner, taken, peerVars, ended>>

-------------------------------------------------------------------------------
(* Manager.Start, and the Start of a provider.                             *)

Starting == At("startSources") \/ At("startTargets")

\* GetFreePort finds a free port, by listening on it, and gives it up again.
GetFreePort(p) ==
    /\ Starting /\ todo # {} /\ probe = NoPort
    /\ owner[p] = Nobody
    /\ probe' = p
    /\ UNCHANGED <<phase, Provider, todo, details, limiters, registered,
                   workers, netVars, peerVars, ended>>

GetFreePortFails ==
    /\ Starting /\ todo # {} /\ probe = NoPort
    /\ \A p \in Ephemeral : owner[p] # Nobody
    /\ ended' = "panic"
    /\ UNCHANGED <<runVars, netVars, peerVars>>

\* StartTCPServer; the listener stays open.
ListenUnchecked(c) ==
    /\ c \in todo /\ probe # NoPort
    /\ owner' = [owner EXCEPT ![probe] = IF @ = Nobody THEN c ELSE @]
    /\ details' = [details EXCEPT ![c] = probe]
    /\ todo' = todo \ {c} /\ probe' = NoPort
    /\ UNCHANGED <<phase, Provider, limiters, registered, workers, taken, web,
                   peerVars, ended>>

StartTCPServer(c) ==
    /\ c \in todo /\ probe # NoPort
    /\ owner[probe] = Nobody
    /\ owner' = [owner EXCEPT ![probe] = c]
    /\ details' = [details EXCEPT ![c] = probe]
    /\ todo' = todo \ {c} /\ probe' = NoPort
    /\ UNCHANGED <<phase, Provider, limiters, registered, workers, taken, web,
                   peerVars, ended>>

\* Somebody else was faster: panic.
StartTCPServerFails ==
    /\ probe # NoPort /\ owner[probe] # Nobody
    /\ ended' = "panic"
    /\ UNCHANGED <<runVars, netVars, peerVars>>

-------------------------------------------------------------------------------
(* configureSources, configureTargets, AddSource and AddTarget.            *)

\* A throughput or period that does not parse is zero, and an interval below
\* a millisecond makes Init return before it starts the ticker; both errors are
\* ignored.
createRateLimitRules(t) ==
    [i \in DOMAIN RateLimit[t] |->
        [limit |-> IF RateLimit[t][i].throughput = "junk" THEN "zero" ELSE "30KB",
         ticks |-> RateLimit[t][i].period = "1s"]]

ConfigureUnchecked ==
    /\ At("configure")
    /\ limiters' = [t \in Targets |-> createRateLimitRules(t)]
    /\ NextPhase
    /\ UNCHANGED <<Provider, probe, details, registered, workers, netVars,
                   peerVars, ended>>

Configure ==
    /\ At("configure")
    /\ \A c \in Conn : details[c] # NoPort
    /\ limiters' = [t \in Targets |-> createRateLimitRules(t)]
    /\ NextPhase
    /\ UNCHANGED <<Provider, probe, details, registered, workers, netVars,
                   peerVars, ended>>

\* "unable to find connection for source": there is one without details.
ConfigureFails ==
    /\ At("configure")
    /\ \E c \in Conn : details[c] = NoPort
    /\ ended' = "config"
    /\ UNCHANGED <<runVars, netVars, peerVars>>

-------------------------------------------------------------------------------
(* Broker.Start.                                                           *)

\* ConnectorManager.Start: a connector, for a target also its entry in
\* TargetConnectors, and the goroutine of its Handle.
StartConnector(c) ==
    /\ At("connectTargets") \/ At("connectSources")
    /\ c \in todo
    /\ todo' = todo \ {c}
    /\ registered' = registered \cup (IF c[1] = "target" THEN {c[2]} ELSE {})
    /\ connector' = [connector EXCEPT ![c] = "dial"]
    /\ UNCHANGED <<phase, Provider, probe, details, limiters, workers, netVars,
                   peer, line, stray, ended>>

\* WorkerManager.Start.
StartWorker(w) ==
    /\ At("workers") /\ w \in todo
    /\ todo' = todo \ {w}
    /\ workers' = workers \cup {w}
    /\ UNCHANGED <<phase, Provider, probe, details, limiters, registered,
                   netVars, peerVars, ended>>

\* OpenTCPConnection at the beginning of Handle.
Dial(c) ==
    /\ connector[c] = "dial"
    /\ LET o == IF details[c] = NoPort THEN Nobody ELSE owner[details[c]]
       IN  /\ peer' = [peer EXCEPT ![c] = o]
           /\ connector' = [connector EXCEPT ![c] =
                               IF o = Nobody THEN "dead" ELSE "connected"]
    /\ UNCHANGED <<runVars, netVars, line, stray, ended>>

\* After its HELLO a nomad source makes its clients, a session in Consul and the
\* ticker of the ttl, and panics when one of them fails; only then come lines.
\* Other sources may have had theirs acknowledged by now.
NomadFails(s) ==
    /\ "nomad" \in Faults /\ Provider[<<"source", s>>] = "nomad"
    /\ connector[<<"source", s>>] = "connected" /\ line[s] = "none"
    /\ ended' = "nomad"
    /\ UNCHANGED <<runVars, netVars, peerVars>>

\* The source sends its first line and gets its OK.
Acknowledge(s) ==
    /\ connector[<<"source", s>>] = "connected" /\ line[s] = "none"
    /\ line' = [line EXCEPT ![s] = "acked"]
    /\ UNCHANGED <<runVars, netVars, connector, peer, stray, ended>>

\* A worker takes it and looks up its targets.
Dispatch(s) ==
    /\ workers # {} /\ line[s] = "acked"
    /\ line' = [line EXCEPT ![s] = "routed"]
    /\ stray' = stray \cup ({s} \X ((Route[s] \cap Targets) \ registered))
    /\ UNCHANGED <<runVars, netVars, connector, peer, ended>>

-------------------------------------------------------------------------------
(* web.StartServer, and other processes.                                   *)

\* e.Start: the process ends when its port is not free, whenever that is.
ServeHttp ==
    /\ web = "starting"
    /\ owner[WebPort] = Nobody
    /\ owner' = [owner EXCEPT ![WebPort] = Web]
    /\ web' = "serving"
    /\ UNCHANGED <<runVars, taken, peerVars, ended>>

ServeHttpFails ==
    /\ web = "starting"
    /\ owner[WebPort] # Nobody
    /\ ended' = "web"
    /\ UNCHANGED <<runVars, netVars, peerVars>>

TakePort(p) ==
    /\ owner[p] = Nobody /\ taken < MaxForeign
    /\ owner' = [owner EXCEPT ![p] = Foreign]
    /\ taken' = taken + 1
    /\ UNCHANGED <<runVars, web, peerVars, ended>>

-------------------------------------------------------------------------------
RunStep ==
    \/ LoadConfig \/ LoadConfigFails \/ StartHttp \/ LoopEnds
    \/ \E p \in Ephemeral : GetFreePort(p)
    \/ GetFreePortFails
    \/ \E c \in Conn : StartTCPServer(c)
    \/ StartTCPServerFails
    \/ Configure \/ ConfigureFails
    \/ \E c \in Conn : StartConnector(c)
    \/ \E w \in {"worker"} \X (1 .. NumWorkers) : StartWorker(w)

WebStep == ServeHttp \/ ServeHttpFails

Next ==
    /\ ended = "no"
    /\ \/ RunStep
       \/ WebStep
       \/ \E c \in Conn : Dial(c)
       \/ \E s \in Sources : NomadFails(s) \/ Acknowledge(s) \/ Dispatch(s)
       \/ \E p \in Ports : TakePort(p)

\* Every goroutine runs.  A source need not send anything.
Spec ==
    /\ Init /\ [][Next]_vars
    /\ WF_vars(ended = "no" /\ RunStep)
    /\ WF_vars(ended = "no" /\ WebStep)
    /\ \A c \in Conn : WF_vars(ended = "no" /\ Dial(c))
    /\ \A s \in Sources : WF_vars(ended = "no" /\ Dispatch(s))

-------------------------------------------------------------------------------
(* Properties.                                                             *)

\* Every connector talks to the server of its own name (connection.go 33-46,
\* the Start of the providers): no other process, no other server, and not the
\* web server has got the port between GetFreePort and the Listen, or by the
\* time the connector dials.
WiredRight == \A c \in Conn : connector[c] = "connected" => peer[c] = c

\* No target of the configuration is missing when a line is routed (connector.go
\* 70-114): the map of TargetConnectors, which is written and read without a
\* lock, is complete before the first look-up, although sources are connected
\* and lines acknowledged while Run is still starting.
MapComplete == stray = {}

Running ==
    /\ \A c \in Conn : connector[c] = "connected"
    /\ Cardinality(workers) = NumWorkers

\* The process ends, or everything that is configured runs (run.go 50-97): no
\* connector is left without a server, and Run is not stuck.  When it ends is not
\* said: the web server (server.go 35) and a nomad source (nomad/server.go 52-55,
\* client.go 150-153 and 182-186) may end it when other sources have had lines
\* acknowledged.
StartDecides == <>(ended # "no" \/ Running)

\* A line that a source got its OK for while the broker was still starting is
\* taken by a worker (broker.go 64-68), if there is to be one.
AckedIsRouted ==
    NumWorkers > 0 =>
        \A s \in Sources : line[s] = "acked" ~> (line[s] = "routed" \/ ended # "no")

-------------------------------------------------------------------------------
(* What the documentation says, and the code does not do.                  *)

\* What _docs/config-example.yaml says of the rate limits: "The throughput
\* according to the mode required to breach the limit."  If so, every rule of a
\* running broker has a limit other than zero and a running ticker.
LimitsInForce ==
    At("wait") => \A t \in Targets : \A i \in DOMAIN limiters[t] :
                      limiters[t][i] = [limit |-> "30KB", ticks |-> TRUE]

\* What _docs/config-example.yaml says of its providers: "The name of the target
\* provider to use."  If so, that configuration comes up when nothing fails.
ExampleRuns == <>Running
================================================================================
