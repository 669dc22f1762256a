# A TLA+ model of log-shipper

log-shipper takes log lines from *sources*, and passes each one on to the
*targets* its source is routed to, subject to rate limits.  This directory holds
TLA+ modules that model its core, TLC configurations that check them on small
instances, and proofs that the TLA+ proof system checks for all instances.
`PROJECT.json` maps every definition to the lines it models and lists the runs,
the mutants, the findings, the hazards and the theorems.

## The system

| Part | State | Operations | Hard about it |
|---|---|---|---|
| Broker lifecycle (`broker/broker.go`) | the point `Start` has reached | `Start` waits for the sources, stops the workers, waits for the in-flight messages, stops the targets; `Stop` | order of the four waits against everything that still runs |
| Source and target connectors (`broker/connector.go`) | one goroutine per source and target, three stop and data channels, `InFlightWaitGroup` | read a line, acknowledge it, count its copies, hand it on; rate limit, fall back, write, await the OK, complete | interleaving, error returns that forget a count, deadlock between connectors |
| Workers (`broker/worker.go`) | a pool of goroutines | take a line, send a copy to each of its targets | blocking on a target that is gone, ordering |
| Wire protocol (`protocol/protocol.go`) | a byte stream and a `bufio.Reader` | frame and unframe messages; `ReadToChannel` | short reads, EOF, a reader that outlives its connector |
| Rate limiter (`limiter/limiter.go`) | a store of counts per interval, three atomics | `Increment`, `IsAverageOverLimit`; each tick: new key, purge, flush | a check in the middle of a tick, late and dropped ticks, boundaries |
| Nomad source, locks (`source/nomad/client.go`) | keys and sessions in Consul | take the leader lock of a node, the failover lock of nodes without leader | crashes, expired sessions, two calls where one is needed |
| Nomad source, events (`source/nomad/{client,pool,worker,server,config}.go`) | the pool of allocations, one worker each, marks in Consul | add and remove workers, send new events, mark them | a worker that is removed while it starts; send, then mark |
| Dummy source, targets (`source/dummy`, `target/*`) | a connection | HELLO, lines and OKs in turn, BYE | who learns of whose end |
| Message conversions (`message/message.go`) | none | copy fields | |
| Monitoring (`monitoring/*`) | counters of each connection, a state and a log | add to them, with atomics | updates that come after the step they count, and on some ways out of a loop only |
| Web API (`web/api/*`) | none | load the counters of each connection | loads of several counters, without a lock |
| Command, configuration, connections (`cmd/run.go`, `config`, `connection`, `web/server.go`) | the configuration, ports, the maps that are filled at start-up | load the file, start the servers, connect the broker to them | ports that others take, goroutines that already run while the rest is started, errors that are ignored |
| Utilities (`utils`) | none | a string helper | |

How they interact.  `cmd/run.go` starts the servers of all sources and targets in
the broker's own process and hands their addresses to the broker, which connects
to them over TCP.  A source writes a line and waits for the OK.  The source
connector answers OK, adds the number of the line's targets to
`InFlightWaitGroup` and offers the line to the workers on an unbuffered channel; a
worker sends it to the connector of each target, again unbuffered.  The target
connector asks the limiters of its rules, writes the line, waits for the OK,
counts the bytes and completes the copy; or it discards the copy; or it sends it
to another target connector's channel.  The Nomad source is one such source; its
processes on different machines coordinate through Consul.  Since everything is
one process, a panic anywhere ends all of it.

What makes each part correct:

- broker: an acknowledged copy has one holder and gets one outcome; the in-flight
  counter is exact; when the targets are stopped nothing is owed; `Stop` ends;
- protocol: what is written is what is read;
- limiter: no byte of the window is forgotten, no breach is reported that is none;
- sessions: an OK belongs to the line that waits for it; no side waits for ever;
- Nomad locks: one leader collects a node; a node without leader is taken over,
  and given back; a shipper without a session ends;
- Nomad events: one watcher per allocation; every event is sent, and twice, or
  marked unsent, only where a call failed or the process ended;
- monitoring: what came in went out, was dropped or is being processed, whenever
  one looks; what the API shows accounts for what it says came in;
- start-up: every connector reaches its own server; no line is routed before all
  targets are known; the start ends the process or brings everything up.

## The modules

`LogDelivery` is the abstract specification: copies become pending when their line
is accepted, get one final outcome, and the system is drained only when none is
pending or stranded.

`Broker` models `broker/` and the reader of `protocol/`.  Each goroutine is a
program counter (`src`, `reader`, `worker`, `target`, `main`), each `select` case
an action.  Channels are unbuffered, so that a send and its receive are one step;
a closed channel is a flag.  `Init` is the state after the goroutines were started.
A copy is `<<source, number of the line, index of the target>>`.  Rate limit
verdicts are chosen freely, since the limiter is a module of its own.  `outcome`
is a history variable.  `crashed` is set where the code panics: then nothing moves
any more.  What the environment may do wrong is the constant `Faults`: `dial`
(connecting fails), `eof`, `error`, `garbled` and `other` (what a source's
connection may yield), `write` (a write to a target fails) and `refuse` (no OK).
A target name that is not configured needs no fault: it is a matter of `Route`
and `Rules`.

`MCBroker` has the routes and rules of the instances; `BrokerProofs` the theorems.

`Monitoring` extends `Broker` with the counters of its connectors.  Each of its
steps is a step of `Broker` with what the goroutine adds to its counters before it
moves on; or an update that it makes after a step with which others have gone ahead
(`sOwes`, `tOwes`: the code completes a message first and counts it then); or a
step of a request to the API, which loads one counter at a time.  `MCMonitoring`
has its instances; its theorems are in `BrokerProofs`.

`Startup` is `RunCommand.Run` up to the running broker: the phases of the main
goroutine, the web server that starts beside it, the connectors that dial and
acknowledge while others are still being started, and other processes that take
ports.  Most errors end the process before a source is connected; the web server and
the client of a nomad source (`NomadFails`: Consul cannot be reached, a ttl that does
not parse) may end it later, when other sources have had lines acknowledged.  `GetFreePort` and the `Listen` that follows are two steps.  A line is
followed to the first look-up of its targets, where `Broker` takes over.
`MCStartup` has its configurations, one of them with the providers of
`_docs/config-example.yaml`.  `StartupProofs`, and for the modules below
`RateLimiterProofs`, `ProtocolProofs`, `TargetSessionProofs`, `SourceSessionProofs`,
`NomadLocksProofs` and `NomadAllocationsProofs`, have the theorems.

`RateLimiter` has the ticker's goroutine and the connector that checks and
increments, one step per atomic or store access, and an explicit clock.  A tick may
be handled up to `MaxLate` units late; the ticker's channel holds one tick.  Times
are in units much longer than a step; within the unit in which a TTL ends the
comparison may go either way.  `Stop`, which only tests use, and `IsOverLimit`, which
only reads, for the API, are left out (a limiter belongs to one target).

`Protocol` is one direction of a connection, in bytes, through the network, the
socket and the buffer of `bufio.Reader` (whose `Read` is modelled from its
documentation: one read of the connection at most).  After a short read the content
of what follows is arbitrary, so the model stops there (`desync`).

`TargetSession` is a target connector against the server of a target: its loop and
its `ReadToChannel`; `Provider` chooses the differences of the three targets (the
run takes logz.io: what the other two do is what logz.io does when it does not
panic).  Its fault `garbled` is a frame that is read short, as `Protocol` shows it may
be.  Then the frame does not decode, and the server hangs up; or only the line in it
does not, and the server passes it over without an OK (`SkipLine`); or the line has
lost the end of its text and is processed.  What is left of the frame is read as the
next header, and the reader then waits for a payload that may never come
(`WaitsForRest`).
`SourceSession` is a source connector against the dummy source; there, frames
travel whole.  In both, `cut` breaks the connection and may lose what is on its way.
`SourceSession`'s `OneOutstanding` is what `Broker` assumes of its sources.

`NomadLocks` is `getAllocations` of several shippers, one step per Consul call, with
Consul modelled from its use: sessions, keys that sessions hold, keys that vanish
with their session (`Behavior: "delete"`).  Faults: `crash`, and `expire` (the session of
a running shipper ends); up to `MaxFailures` calls whose error is ignored fail
(Consul's lock delay shows itself as such a refusal).  A shipper that waits for its
own leader lock looks at no other node, so a second shipper for a node is no
stand-in for others (`StandBy`).  `NomadAllocations` is one shipper: the
goroutines of `Sync`, of `ReceiveLogs`, of the workers, of `syncAllocationConfig`,
which assigns the same field as the worker's watcher without a lock, and of the
broker's connection.  Its process may panic, or end, and start over (`Restart`) with
what Consul has kept.  What `getAllocations` returns is the environment's choice there; which
meta values switch what off is `metaToJobConfig` and `metaToTaskConfig`.

## The runs

Each run ends within three minutes with two workers.  A mutant for every property of every passing
run replaces one definition by a plausible mistake and violates the property.

| Run | Bounds | Shows |
|---|---|---|
| `broker_stop` | 2 sources, 2 targets, 2 workers, a line each; a source's connection may break | the inductive invariant of the proofs; counter, holders, drain, no late `Add`, refinement of `LogDelivery`; after `Stop`, `Start` returns; pending copies are settled |
| `broker_faults` | 1 source, 2 targets that fall back and discard, a route and a fallback to unknown targets, 2 lines, 1 worker, all faults, a request to the API at any time | order per source and target; no target is stopped while a copy is owed, stranded ones included; the counters add up at every step and tell how the copies ended; what the API shows misses one message at most |
| `limiter_ticks` | 5 ticks, 2 lines, store of 2 intervals | window counted, no false breach, total equals store |
| `protocol_pieces` | 5 frames, 2 at a time, shorter and longer than the buffer, in any pieces | until a `Read` is short nothing is left over and all is returned; when a `Read` may be short |
| `target_session` | 5 lines, with and without attributes; a cut, a failing store, frames read short | OKs match lines; nobody waits for ever and the server ends, unless it waits for the rest of a frame |
| `source_session` | 6 lines | one line outstanding; OKs match; the source waits for ever only behind a backlog of the workers; it ends after its connector |
| `locks_failover` | 2 shippers for one node, 1 for another; crashes, expiring sessions, one failed call | one primary per node; failover happens and ends; a held failover lock is served; a shipper that lost its session ends |
| `allocs` | 1 allocation, listed twice, 1 event, a failing call, a broker that leaves, a process that ends and starts over | one watcher; every event is sent, and again only for a failed call or a restart; none marked unsent but by a process that ended; removal ends |
| `startup` | 2 sources, 2 targets, 1 worker, 5 ports of which another process may take one, a provider that is perhaps not known, a file that cannot be read, a nomad source that cannot start | connectors reach their own servers; the map of targets is complete at the first look-up; the start ends one way or the other; early lines find a worker |

Why the bounds are enough.  The hazards of the broker need two holders of the same
channel (two workers, two targets, a fallback between them) and a line behind
another; two sources and two of each give all of them, and the invariants are
proved for any number (as they are for all modules).  The limiter needs a byte that
has left the window, one that is in it and a tick between two loads: its run is as
long as window plus purge.  The locks need a leader, its stand-in and a third that takes the lock in
between.  An allocation needs a worker, and its successor while the old one is still
at work; an event, one that is sent and one that is not yet marked when the process
ends (`MCNomadAllocations_tasks.cfg` checks the invariants with two tasks of two
events).  The counters of a target need a copy that is followed by another one, and
one that fell back; that they add up is proved for any number.  At the start there
are five listeners (four servers and the web server) and five ports, so that a port
another process takes is one that is missed, and each of the five may be the loser.

Each module's type invariant holds in its instances as well, and is proved as a part
of the inductive invariant.  The runs are about what it does not say.  The inductive invariants were checked on these instances before
they were proved.

Three runs end in a violation; each checks one sentence of the repository:

| Run | Sentence | What happens |
|---|---|---|
| `broker_eof` | `protocol.go`: "Any errors received are sent to the errorChan." | EOF is not: the connector waits for ever |
| `protocol_split` | `protocol.go`: "returns a single message when found" | header and payload are read with one `Read` each, which cuts a frame that arrives in pieces |
| `broker_gauge` | `stats.go`: "The total number of messages in flight/being processed." | a message that falls back is never taken off the gauge of the target it came from |

Further configurations are kept for questions that came up on the way:

| Configuration | Question | Answer |
|---|---|---|
| `Protocol_big.cfg` | the same for a frame longer than the buffer that arrives whole | cut as well |
| `RateLimiter_dropped.cfg` | is the window still counted when ticks are so late that some are dropped? | yes |
| `RateLimiter_late.cfg` | `config-example.yaml`: "average throughput ..., over the last 10 seconds" | two ticks in one interval lose a stored count, which stays in the total: `NoFalseBreach` is violated |
| `MCBroker_cycle.cfg` | `config-example.yaml`: "Logs will be sent here while in breach." | two targets that fall back to each other block |
| `TargetSession_short.cfg` | is every line answered (`LinesAreAnswered`)? | no: one that does not decode is passed over, and its connector waits for ever |
| `MCNomadLocks_standins.cfg` | does failover work for a third node that nobody leads? | yes |
| `MCNomadLocks_lost.cfg` | does a shipper without a session end next to one without a node? | yes |
| `MCNomadLocks_twice.cfg` | `nomad_source_activity.puml`: a locked allocation is skipped | allocations are not locked; leader and stand-in overlap |
| `MCNomadLocks_others.cfg` | `client.go`: "... is not ours, leave it alone." | `Delete` after `Release` removes another's lock |
| `MCMonitoring_dropped.cfg` | `Home.vue` 155 shows "Dropped Messages" | no route loads the counter: what is shown is 0, and `DroppedIsShown` is violated |
| `MCStartup_example.cfg` | `config-example.yaml` 45: "The name of the target provider to use." on `logz.io` | `run.go` knows `logzio`: the process ends with "unable to find connection" |
| `MCStartup_limits.cfg` | `config-example.yaml`: "The throughput according to the mode required to breach the limit." | a throughput or period that does not parse is zero, and the limiter's `Init` may not start its ticker: both errors are ignored |
| `MCNomadAllocations_tasks.cfg` | do the invariants hold with two tasks of two events? | yes |
| `MCNomadLocks_orphan.cfg` | `nomad_source_activity.puml`: an unlocked node is locked for failover | a released key that was not deleted keeps everybody away |

## Fairness

- Go runs every goroutine that can run: weak fairness of each one's steps.
- A `select` draws lots among its ready cases, and a channel queues its senders:
  strong fairness of `StopSource` in `Broker`, and of `WatchStop` and `SendLog` in
  `NomadAllocations`.
- TCP delivers what it accepted: weak fairness of `Arrive`; in the sessions it is
  part of the readers' fairness.
- Consul ends a session that is not renewed: weak fairness of `Expire` for sessions
  of shippers that are gone.
- In `SourceSession` it is not assumed that a worker takes the line it is offered
  (`HandOver`): with a target connector gone the workers block for ever, and so does
  the source connector.  `AwaitEnds` names this state (`Backlogged`).
- In `TargetSession` nothing makes a `Read` return that waits for the rest of a
  payload; `AwaitEnds` and `ServerEnds` name this state (`WaitsForRest`).
- In `Startup` the main goroutine, the web server, the connectors and the workers run;
  that a source sends anything, and what other processes do, is left open.
- Not fair: `syncAllocationConfig` (no property needs it to run), who starts a process
  again, a source that writes, a caller of `Stop`, a shipper that is started,
  allocations that come and go, and every fault.

Deadlock is not checked where the system may rightly come to rest: a stopped broker,
a session that ended, a bound that is reached.

## The proofs

Every safety property that a passing run checks is proved, for all values of the
constants that satisfy the assumptions of its module; two of `RateLimiter` under a
hypothesis on the constants without which they are false.
The assumptions say which constants are finite, numbers or functions; the sets that a
configuration or a cluster lists are finite, and that is needed where something is
counted.  The bounds (`MaxLines`, `MaxStarts`, ...) are arbitrary numbers.

Each proof has the same form: an inductive invariant, which is a conjunction of named
parts; that it holds initially; a lemma per part or per process that every step keeps
it, with a case for each action; and the properties as consequences.

**`BrokerProofs`**, of `Broker`:

- `TypeCorrect`, `SingleHolder`, `CounterExact`, `DrainIsClean`: the invariants
  `TypeOK`, `OneHolder`, `CounterIsExact`, `DrainedMeansSettled`;
- `NoLateAdd`: the action property `NoAddWhileWaiting`;
- `Refinement`: `Broker` implements `LogDelivery`;
- `LinesKeepTheirOrder`: the invariant `InOrder`.

None of the invariants is inductive alone.  `IndInv` adds that a process has
something in its hands where it uses it (`HandsFull`), that the unsent copies are
exactly those of lines not yet acknowledged (`UnsentAhead`: a new line has no holder
and was not counted), that the counter is the number of pending and stranded copies
(`CountsOwed`), and what `Start` has waited for at each point (`Phases`).  Each
action is one step of the proof; what it does to the set of owed copies and to the
holders is a lemma.  `OneHolder` then turns the counter over outcomes into the
counter over holders, and `Phases` with a counter of zero into a clean drain.  The
refinement maps `drained` to `targetStop`: acknowledging a line is `Accept`,
completing or stranding a copy is `Resolve`, `StopTargets` is `Drain`, and all other
steps stutter.

The order needs two more parts: a copy whose target has no fallback rule never leaves
that target (`Homely`), and of two copies of one source for such a target the earlier
one is always further on: past the workers when the later one is at a worker, and no
longer pending when that one is at its target or settled (`Ordered`).

Also in **`BrokerProofs`**, of `Monitoring`:

- `CountingIsHarmless`: `Monitoring` implements `Broker` (the identity is the
  mapping, and the steps that count stutter), so that the theorems above hold of it;
- `CountersAddUp`: the invariant `Accounts`.  It says of the in-flight counters what may
  be relied on; behind it is what they are at every step (`Exact`), resent messages,
  which the code never takes off, included.  `CountInv` adds that an update is owed only
  at the `select` (`Owing`), and that a connector that holds a copy has counted it, one
  that never connected has not (`Counted`).  There is a lemma for each operation of
  `stats.go`;
- `ResponsesAccount`: the invariant `ViewMissesAtMostOne`.  What came in is within one of
  what is out or was dropped (for a source: `GarbledOnce`), and those two only grow; so
  what was loaded as inbound stays within one of them until they are loaded
  (`ViewBound`).  `CounterTypes` is the type invariant;
- `CountersTell`: the invariant `CountersTellOutcomes`.  A step concerns one target and
  one copy, and moves the totals as it moves them (`TellMoves`); that a copy in the hands
  of a connector is pending is `OneHolder`.  What a sum over a finite set does when one
  summand changes (`SumPoint`) is shown from the definition of the fold, by induction
  over the subsets of the set (`SubsetInduction`).

**`NomadLocksProofs`**, of `NomadLocks`: `LeaderExcludes` and `FailoverLockServes`, the
invariants `OnePrimary` and `HeldIsServed`; `LockInvariant`, `TypesHold`.  Two primaries
would both hold the one leader key: `LockInv` says that a shipper with a live session
that is past the lock, or collects its node since an earlier round, holds the key with
that session (`LeaderHeld`), and that keys name live sessions of the past only
(`SessionsKnown`: a shipper that starts again does not find its new session in a key).
For the failover lock it follows where a shipper has a node whose lock it holds, at each
point of its loop (`HolderKnowsNode`); an answer of Consul that is lost breaks just this,
so that part is conditional on `failures = 0`, as the property is.

**`NomadAllocationsProofs`**, of `NomadAllocations`: `OneWatcherPerAllocation`,
`MarksAreEvidence` and `FewAreSentAgain`, the invariants `WatcherIsKnown`, `MarkedIsSent`
and `SentOnce`; `AllocationsInvariant`.  For the watchers the invariant follows an
allocation through `Sync` (`AddsCounted`, `WorkersPooled`): it is added only when it has
no worker or that one is being removed, and all workers but the known one were told to
stop (`OthersStopped`).  For the events it says that what is about to be marked was
handed over (`HandedOver`), and counts the events *at risk*: those that were handed over
and have neither a mark nor a worker that is about to mark them (`FewAtRisk`).  A failed
call adds one, and the end of the process one per allocation, since each has one watcher;
being sent again takes an event that was already at risk.

**`TargetSessionProofs`** and **`SourceSessionProofs`**: `AcksAreEarned`
(`AckedIsHandled`); `OneLineOutstanding` and `AcceptedIsTaken` (`OneOutstanding`,
`AckedIsTaken`); each with its `SessionInvariant`.  The argument is the same: there is
one line, and it is in one place (`OneLine`, `OnePlace`): on its way, in the other
side's hands, or answered; so an OK that is read answers the line that waits.  What an
`OK` counts for in the source's session is `Counts`.

**`StartupProofs`**, of `Startup`: `ConnectorsWiredRight` and `RoutingFindsTargets`
(`WiredRight`, `MapComplete`); `StartInvariant`.  It
adds that a port in the details is one whose listener the connection itself opened, not
one that was only found to be free (`PortsOwned`), that the map of targets lacks at most
those its loop still comes to (`TargetsListed`), and what cannot have happened yet in
each phase (`NothingEarly`).

**`ProtocolProofs`**, of `Protocol`: `NoBytesLeft` and `ShortReadsHaveCause`, the
invariant `NothingLeftOver` and the action property `ShortReads`, for all sizes of
frames and buffer and every way in which the network delivers them.  Behind both is
`BytesAddUp`: until a `Read` is short, the bytes in flight, in the socket and in the
buffer, with the header that was already read, are those of the frames not yet
returned (`BytesInv`).  So when all has arrived and the buffer is empty or holds all
of it, there is enough for the frame that is read, and the `Read` is not short.  That
no `Read` is short (`SingleMessage`) is false (`protocol_split`, `Protocol_big.cfg`).
The bytes of a sequence of frames are a recursive function, whose values are shown by
induction in the form of a set of numbers that holds zero and all successors.

**`RateLimiterProofs`**, of `RateLimiter`:

- `NoByteIsMissed`: the invariant `RecentIsCounted`, however late ticks are.  A purge
  takes away the items that have expired, so the invariant (`RecentInv`) says of every
  time `e` that has not passed: without the items that expire by `e`, and without what a
  flush is about to put into one of them, still everything is counted that came after
  `e - Life + MaxLate` (`Covered`).  A flush keeps it because its item was stored by the
  same tick, at most `MaxLate` before, and expires a life later (`Flushing`, `Clock`);
  an item that is overwritten is lost to the store, not to the total;
- `TotalIsWhatIsStored` and `BreachesAreReal`: the invariants `TotalIsStored` and
  `NoFalseBreach`, under the hypothesis `Punctual`: keys and flushes have the same
  interval, as `run.go` has it, and a tick is handled in the interval in which it is
  due, whenever `Init` was called.  The instance of `limiter_ticks` satisfies it;
  without it both are false, since two ticks in one interval overwrite an item
  (`RateLimiter_late.cfg`).  `PunctualInv` adds that there is one tick at a time
  (`OneTick`) and that it stores a key that was not there (`NewKeys`), so that items and
  total agree (`Exact`); when items expire (`Lifetimes`); and, for each of the last
  `StoreMultiplier + 2` ticks, that what is counted came since that tick was due or is
  in an item that this tick or an earlier one stored (`Bounded`).  For the oldest of
  these ticks there is no such item any more, which leaves the bytes of the window.  A
  check holds on to that: what it has loaded and has still to load only shrinks while
  it waits (`Checking`);
- `TypesHold`, and the two invariants as theorems.

The sums are those of `FiniteSetsExt`; the lemmas about them are stated as in
`BrokerProofs`, which cannot be extended here since its variables are others.

Only model-checked: everything about liveness, which is out of the prover's reach.

## Not modelled

- Flags, and the YAML decoder: which configuration comes out is a constant of
  `Startup`.  `Config.Validate` is not called.  The command `source nomad` only starts
  one source and waits for ever.
- Of the web API: the routes of workers and of the cluster, requests that are passed on
  to another node, the bytes and states, static files.  All of them only read.
- Of monitoring: the counters of workers, whose inbound counts lines and whose outbound
  counts copies; the state and the last log of a connection.
- `utils`: a string helper.
- Protobuf, hashing, formatting, JSON: external or without effect on control.
  A frame that does not decode is the fault `garbled` of `Broker` (a source's frame) and
  of `TargetSession` (a target's).
- The meta of an allocation does not change while it runs; with it a task could be
  missing from `TaskConfigs` when the watcher looks it up, which panics.
- `WriteFromChannel`, which nobody calls.
- Of the broker, anything after a panic: it persists nothing.  What Consul keeps is in
  the Nomad modules.

## Plan

1. Done: `LogDelivery`, `Broker`, `Monitoring`, `RateLimiter`, `Protocol`, `NomadLocks`,
   `NomadAllocations`, `TargetSession`, `SourceSession`, `Startup` and their proofs.
2. Model more: the limiter inside the target connector (two rules, one line);
   `NomadLocks` and `NomadAllocations` together, for the events that are sent twice
   while two shippers collect one node; an abstract specification of a session
   which both session modules implement.
3. Prove more: which ticks exactly lose a stored count when they are not handled in
   their interval, and a bound on what the total then has too much.
