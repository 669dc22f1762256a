--------------------------- MODULE NomadAllocations ---------------------------
(***************************************************************************)
(* How one shipper collects the task events of its Nomad allocations:      *)
(* AllocationPool.Sync (source/nomad/pool.go), the loop of ReceiveLogs and *)
(* AllocationWorkers (client.go), AllocationWorker (worker.go) with its    *)
(* configuration (config.go), and the connection to the broker (server.go).*)
(*                                                                         *)
(* Processes: the goroutine of syncAllocations, the goroutine of           *)
(* ReceiveLogs, per AllocationAdded a worker with two goroutines (the      *)
(* watcher of events and syncAllocationConfig), and the goroutine that     *)
(* serves the broker's connection.  All channels are unbuffered: a send    *)
(* and its receive are one step.  What getAllocations returns is chosen by *)
(* the environment (NomadLocks models the choice of the nodes): a listed   *)
(* allocation may leave and, when its node is taken over again, return.    *)
(* The process may end at any point and be started again: the marks in     *)
(* Consul are all that it finds of its former self.                        *)
(*                                                                         *)
(* The event <<a, t, k>> is the k-th event of task t of allocation a; the  *)
(* hash of hashstructure is taken to tell events apart.                    *)
(***************************************************************************)
EXTENDS Integers, FiniteSets

CONSTANTS
    Allocs,      \* allocations
    Tasks,       \* the tasks of an allocation
    JobMeta,     \* log_shipper_enabled in the job's meta, of each allocation
    TaskMeta,    \* the meta of each task of each allocation
    MaxEvents,   \* bound: events of a task
    MaxPlaces,   \* bound: how often an allocation is listed anew
    MaxFailures, \* bound: Consul calls that fail and whose error is ignored
    MaxRestarts, \* bound: how often the process is started again
    Faults       \* what may go wrong in this instance

\* "info": Allocations().Info fails; "bye": the broker does not answer OK;
\* "crash": the process ends.
FaultKinds == {"info", "bye", "crash"}
MetaValue  == {"unset", "true", "false", "other"}

ASSUME AllocsAssumption == IsFiniteSet(Allocs) /\ IsFiniteSet(Tasks)
ASSUME MetaAssumption   ==
    /\ JobMeta \in [Allocs -> MetaValue]
    /\ TaskMeta \in [Allocs -> [Tasks -> [enabled : MetaValue, watch : MetaValue]]]
ASSUME BoundsAssumption ==
    {MaxEvents, MaxPlaces, MaxFailures, MaxRestarts} \subseteq Nat
ASSUME FaultsAssumption == Faults \subseteq FaultKinds

Event  == Allocs \X Tasks \X (1 .. MaxEvents)
Worker == Allocs \X (1 .. MaxPlaces)
NoEvent == <<>>

VARIABLES
    listed,     \* the allocations getAllocations would return now
    places,     \* how often each allocation was listed anew
    produced,   \* how many events each task of each allocation has
    crashed,    \* a goroutine panicked: the process is gone
    sync,       \* where AllocationPool.Sync is
    fetched,    \* its argument
    left,       \* the allocations it has still to send
    pool,       \* p.Allocations
    recv,       \* ReceiveLogs: at its select, or waiting for a worker
    removing,   \* the allocation it removes
    workers,    \* AllocationWorkers.workers: number of the worker, 0 for none
    created,    \* how many workers each allocation has had
    wpc,        \* where each worker is
    stopped,    \* its Stop channel is closed
    seen,       \* events per task in the allocation it goes through
    rpc,        \* its syncAllocationConfig: at the select, or with an answer
    snap,       \* events per task in that answer
    tasks,      \* tasks it has still to look at
    at,         \* the event it looks at
    marked,     \* synced-events keys in Consul
    failures,   \* how many ignored calls have failed
    restarts,   \* how often the process was started again
    server,     \* the goroutine of the broker's connection
    inHand,     \* the event it has received
    sent,       \* history: events written to the broker
    again       \* history: events written to it more than once

envVars    == <<listed, places, produced, restarts>>
syncVars   == <<sync, fetched, left, pool>>
recvVars   == <<recv, removing, workers, created>>
loopVars   == <<seen, tasks, at>>
configVars == <<rpc, snap>>
workerVars == <<wpc, stopped, loopVars, configVars>>
consulVars == <<marked, failures>>
serverVars == <<server, inHand, sent, again>>
vars == <<envVars, crashed, syncVars, recvVars, workerVars, consulVars, serverVars>>

\* What steps of Sync and ReceiveLogs, and of a worker, leave alone.
notSync   == <<envVars, crashed, consulVars, serverVars>>
notWorker == <<envVars, crashed, syncVars, recvVars, stopped>>

WorkerPC == {"none", "start", "spawned", "select", "read", "task", "event", "send",
             "put", "done"}

TypeOK ==
    /\ listed \subseteq Allocs /\ fetched \subseteq Allocs
    /\ left \subseteq Allocs /\ pool \subseteq Allocs
    /\ places \in [Allocs -> 0 .. MaxPlaces]
    /\ produced \in [Allocs -> [Tasks -> 0 .. MaxEvents]]
    /\ crashed \in BOOLEAN
    /\ sync \in {"tick", "add", "remove"}
    /\ recv \in {"select", "wait"} /\ removing \subseteq Allocs
    /\ workers \in [Allocs -> 0 .. MaxPlaces]
    /\ created \in [Allocs -> 0 .. MaxPlaces]
    /\ wpc \in [Worker -> WorkerPC]
    /\ stopped \in [Worker -> BOOLEAN]
    /\ seen \in [Worker -> [Tasks -> 0 .. MaxEvents]]
    /\ tasks \in [Worker -> SUBSET Tasks]
    /\ rpc \in [Worker -> {"off", "select", "got"}]
    /\ snap \in [Worker -> [Tasks -> 0 .. MaxEvents]]
    /\ failures \in 0 .. MaxFailures /\ restarts \in 0 .. MaxRestarts
    /\ at \in [Worker -> Event \cup {NoEvent}]
    /\ marked \subseteq Event /\ sent \subseteq Event /\ again \subseteq sent
    /\ server \in {"receive", "write", "await", "closed"}
    /\ inHand \in Event \cup {NoEvent}

NoEvents == [t \in Tasks |-> 0]

Init ==
    /\ listed = {} /\ places = [a \in Allocs |-> 0]
    /\ produced = [a \in Allocs |-> NoEvents]
    /\ marked = {} /\ failures = 0 /\ restarts = 0
    /\ crashed = FALSE
    /\ sync = "tick" /\ fetched = {} /\ left = {} /\ pool = {}
    /\ recv = "select" /\ removing = {}
    /\ workers = [a \in Allocs |-> 0] /\ created = [a \in Allocs |-> 0]
    /\ wpc = [w \in Worker |-> "none"]
    /\ stopped = [w \in Worker |-> FALSE]
    /\ seen = [w \in Worker |-> NoEvents]
    /\ tasks = [w \in Worker |-> {}]
    /\ at = [w \in Worker |-> NoEvent]
    /\ rpc = [w \in Worker |-> "off"]
    /\ snap = [w \in Worker |-> NoEvents]
    /\ server = "receive" /\ inHand = NoEvent /\ sent = {} /\ again = {}

-------------------------------------------------------------------------------
(* config.go: what the meta of a job or a task switches on.  Everything is *)
(* on unless its value is "false".                                         *)

metaToJobConfig(m) == [Enabled |-> m # "false"]

metaToTaskConfig(m) ==
    [Enabled |-> m.enabled # "false", WatchNomadEvents |-> m.watch # "false"]

NewFromAllocation(a) ==
    [JobConfig   |-> metaToJobConfig(JobMeta[a]),
     TaskConfigs |-> [t \in Tasks |-> metaToTaskConfig(TaskMeta[a][t])]]

Watched(a, t) ==
    LET c == NewFromAllocation(a).TaskConfigs[t]
    IN  c.Enabled /\ c.WatchNomadEvents

-------------------------------------------------------------------------------
(* Nomad, and the supervisor of the process.                               *)

Place(a) ==
    /\ a \notin listed /\ places[a] < MaxPlaces
    /\ listed' = listed \cup {a}
    /\ places' = [places EXCEPT ![a] = @ + 1]
    /\ UNCHANGED <<produced, restarts, crashed, syncVars, recvVars, workerVars,
                   consulVars, serverVars>>

Leave(a) ==
    /\ a \in listed
    /\ listed' = listed \ {a}
    /\ UNCHANGED <<places, produced, restarts, crashed, syncVars, recvVars,
                   workerVars, consulVars, serverVars>>

Happen(a, t) ==
    /\ a \in listed /\ produced[a][t] < MaxEvents
    /\ produced' = [produced EXCEPT ![a][t] = @ + 1]
    /\ UNCHANGED <<listed, places, restarts, crashed, syncVars, recvVars,
                   workerVars, consulVars, serverVars>>

\* The process has panicked, or ends, and is started again with an empty memory.
Restart ==
    /\ crashed \/ "crash" \in Faults
    /\ restarts < MaxRestarts
    /\ restarts' = restarts + 1
    /\ crashed' = FALSE
    /\ sync' = "tick" /\ fetched' = {} /\ left' = {} /\ pool' = {}
    /\ recv' = "select" /\ removing' = {}
    /\ workers' = [a \in Allocs |-> 0] /\ created' = [a \in Allocs |-> 0]
    /\ wpc' = [w \in Worker |-> "none"]
    /\ stopped' = [w \in Worker |-> FALSE]
    /\ seen' = [w \in Worker |-> NoEvents]
    /\ tasks' = [w \in Worker |-> {}]
    /\ at' = [w \in Worker |-> NoEvent]
    /\ rpc' = [w \in Worker |-> "off"]
    /\ snap' = [w \in Worker |-> NoEvents]
    /\ server' = "receive" /\ inHand' = NoEvent
    /\ UNCHANGED <<listed, places, produced, consulVars, sent, again>>

-------------------------------------------------------------------------------
(* AllocationPool.Sync, and ReceiveLogs at the other end of its channels.  *)

\* A tick of syncAllocations: only allocations the pool does not have will be
\* sent.  The pool changes nowhere but at the end of Sync.
SyncBegins ==
    /\ sync = "tick"
    /\ sync' = "add"
    /\ fetched' = listed
    /\ left' = listed \ pool
    /\ UNCHANGED <<notSync, pool, recvVars, workerVars>>

\* AllocationAdded: a new worker, put into the map, its Start a goroutine.
AllocationAdded(a) ==
    /\ sync = "add" /\ a \in left
    /\ recv = "select"
    /\ left' = left \ {a}
    /\ created' = [created EXCEPT ![a] = @ + 1]
    /\ workers' = [workers EXCEPT ![a] = created[a] + 1]
    /\ wpc' = [wpc EXCEPT ![<<a, created[a] + 1>>] = "start"]
    /\ UNCHANGED <<notSync, sync, fetched, pool, recv, removing, stopped, loopVars,
                   configVars>>

SyncRemoves ==
    /\ sync = "add" /\ left = {}
    /\ sync' = "remove"
    /\ left' = pool \ fetched
    /\ UNCHANGED <<notSync, fetched, pool, recvVars, workerVars>>

\* AllocationRemoved: AllocationWorkers.Close, and on to Wait.
RemovedUnclosed(a) ==
    /\ sync = "remove" /\ a \in left
    /\ recv = "select"
    /\ left' = left \ {a}
    /\ recv' = "wait" /\ removing' = {a}
    /\ UNCHANGED <<notSync, sync, fetched, pool, workers, created, workerVars>>

AllocationRemoved(a) ==
    /\ sync = "remove" /\ a \in left
    /\ recv = "select"
    /\ left' = left \ {a}
    /\ stopped' = [w \in Worker |->
                     stopped[w] \/ (w[1] = a /\ w[2] = workers[a])]
    /\ recv' = "wait" /\ removing' = {a}
    /\ UNCHANGED <<notSync, sync, fetched, pool, workers, created, wpc, loopVars,
                   configVars>>

\* The counter of the worker's WaitGroup is 1 from the Add at the start of
\* watchAllocationEvents to its return.
Counted(w) == wpc[w] \in {"select", "read", "task", "event", "send", "put"}

\* AllocationWorkers.Wait returns when the counter is 0, be it because the
\* goroutine has not come to its Add; then Remove.
WaitSkipped ==
    /\ recv = "wait"
    /\ workers' = [a \in Allocs |-> IF a \in removing THEN 0 ELSE workers[a]]
    /\ recv' = "select" /\ removing' = {}
    /\ UNCHANGED <<notSync, syncVars, created, workerVars>>

WaitReturns ==
    /\ recv = "wait"
    /\ \A w \in Worker : w[1] \in removing /\ w[2] = workers[w[1]] => ~Counted(w)
    /\ workers' = [a \in Allocs |-> IF a \in removing THEN 0 ELSE workers[a]]
    /\ recv' = "select" /\ removing' = {}
    /\ UNCHANGED <<notSync, syncVars, created, workerVars>>

\* p.Set: the receiver has taken the last removal, but may still be waiting.
SetAlso ==
    /\ sync = "remove" /\ left = {}
    /\ sync' = "tick"
    /\ pool' = pool \cup fetched
    /\ fetched' = {}
    /\ UNCHANGED <<notSync, left, recvVars, workerVars>>

SyncSets ==
    /\ sync = "remove" /\ left = {}
    /\ sync' = "tick"
    /\ pool' = fetched
    /\ fetched' = {}
    /\ UNCHANGED <<notSync, left, recvVars, workerVars>>

-------------------------------------------------------------------------------
(* AllocationWorker.                                                       *)

WGoto(w, l) == wpc' = [wpc EXCEPT ![w] = l]

\* Start: the configuration is fetched; a job that is not enabled is left.
StartWorker(w) ==
    /\ wpc[w] = "start"
    /\ IF NewFromAllocation(w[1]).JobConfig.Enabled
       THEN WGoto(w, "spawned") /\ rpc' = [rpc EXCEPT ![w] = "select"]
       ELSE WGoto(w, "done") /\ UNCHANGED rpc
    /\ UNCHANGED <<notWorker, loopVars, snap, consulVars, serverVars>>

\* The first Info fails: allocationConfig is nil when JobConfig is read.
StartFails(w) ==
    /\ wpc[w] = "start" /\ "info" \in Faults
    /\ crashed' = TRUE
    /\ UNCHANGED <<envVars, syncVars, recvVars, workerVars, consulVars, serverVars>>

\* watchAllocationEvents begins: waitGroup.Add, a new ticker, the select.  Its
\* ticker fires 10 s later, so a closed Stop is what the first select takes.
EnterUnchecked(w) ==
    /\ wpc[w] = "spawned"
    /\ WGoto(w, "select")
    /\ UNCHANGED <<notWorker, loopVars, configVars, consulVars, serverVars>>

EnterWatch(w) ==
    /\ wpc[w] = "spawned"
    /\ WGoto(w, IF stopped[w] THEN "done" ELSE "select")
    /\ UNCHANGED <<notWorker, loopVars, configVars, consulVars, serverVars>>

\* The ticker: updateAllocationConfig assigns the answer of Info.
WatchTick(w) ==
    /\ wpc[w] = "select"
    /\ WGoto(w, "read")
    /\ seen' = [seen EXCEPT ![w] = produced[w[1]]]
    /\ UNCHANGED <<notWorker, tasks, at, configVars, consulVars, serverVars>>

\* allocationConfig.Alloc is read, and its task states are gone through.
ReadAlloc(w) ==
    /\ wpc[w] = "read"
    /\ WGoto(w, "task")
    /\ tasks' = [tasks EXCEPT ![w] = Tasks]
    /\ UNCHANGED <<notWorker, seen, at, configVars, consulVars, serverVars>>

\* Info fails: the goroutine returns, and nobody starts it again.
WatchTickFails(w) ==
    /\ wpc[w] = "select" /\ "info" \in Faults
    /\ WGoto(w, "done")
    /\ UNCHANGED <<notWorker, loopVars, configVars, consulVars, serverVars>>

WatchStop(w) ==
    /\ wpc[w] = "select" /\ stopped[w]
    /\ WGoto(w, "done")
    /\ UNCHANGED <<notWorker, loopVars, configVars, consulVars, serverVars>>

NextTask(w, t) ==
    /\ wpc[w] = "task" /\ t \in tasks[w]
    /\ tasks' = [tasks EXCEPT ![w] = @ \ {t}]
    /\ IF Watched(w[1], t) /\ seen[w][t] > 0
       THEN WGoto(w, "event") /\ at' = [at EXCEPT ![w] = <<w[1], t, 1>>]
       ELSE UNCHANGED <<wpc, at>>
    /\ UNCHANGED <<notWorker, seen, configVars, consulVars, serverVars>>

TasksDone(w) ==
    /\ wpc[w] = "task" /\ tasks[w] = {}
    /\ WGoto(w, "select")
    /\ seen' = [seen EXCEPT ![w] = NoEvents]
    /\ UNCHANGED <<notWorker, tasks, at, configVars, consulVars, serverVars>>

\* The next event of the task, or the next task.
Advance(w) ==
    LET e == at[w] IN
    IF e[3] < seen[w][e[2]]
    THEN WGoto(w, "event") /\ at' = [at EXCEPT ![w] = <<e[1], e[2], e[3] + 1>>]
    ELSE WGoto(w, "task") /\ at' = [at EXCEPT ![w] = NoEvent]

\* A call to Consul whose error is ignored fails.
CallFails ==
    /\ failures < MaxFailures
    /\ failures' = failures + 1

\* KV().Get of the event's key: a marked event is skipped.  A failed Get
\* returns nil.
MarkFirst(w) ==
    /\ wpc[w] = "event"
    /\ IF at[w] \in marked THEN Advance(w) ELSE WGoto(w, "send") /\ UNCHANGED at
    /\ marked' = marked \cup {at[w]}
    /\ UNCHANGED <<notWorker, seen, tasks, configVars, failures, serverVars>>

GetMark(w) ==
    /\ wpc[w] = "event"
    /\ \/ at[w] \in marked /\ Advance(w) /\ UNCHANGED failures
       \/ /\ IF at[w] \in marked THEN CallFails ELSE UNCHANGED failures
          /\ WGoto(w, "send")
          /\ UNCHANGED at
    /\ UNCHANGED <<notWorker, seen, tasks, configVars, marked, serverVars>>

\* receiver <- log meets the range loop of the connection's goroutine.
SendLog(w) ==
    /\ wpc[w] = "send" /\ server = "receive"
    /\ WGoto(w, "put")
    /\ server' = "write" /\ inHand' = at[w]
    /\ UNCHANGED <<notWorker, loopVars, configVars, consulVars, sent, again>>

\* The receiver was closed: the send panics.
SendOnClosed(w) ==
    /\ wpc[w] = "send" /\ server = "closed"
    /\ crashed' = TRUE
    /\ UNCHANGED <<envVars, syncVars, recvVars, workerVars, consulVars, serverVars>>

PutMark(w) ==
    /\ wpc[w] = "put"
    /\ \/ marked' = marked \cup {at[w]} /\ UNCHANGED failures
       \/ CallFails /\ UNCHANGED marked
    /\ Advance(w)
    /\ UNCHANGED <<notWorker, seen, tasks, configVars, serverVars>>

-------------------------------------------------------------------------------
(* syncAllocationConfig: it shares allocationConfig with the watcher, and  *)
(* nobody waits for it.  A failed Info changes nothing.                    *)

Refresh(w) ==
    /\ rpc[w] = "select"
    /\ rpc' = [rpc EXCEPT ![w] = "got"]
    /\ snap' = [snap EXCEPT ![w] = produced[w[1]]]
    /\ UNCHANGED <<notWorker, wpc, loopVars, consulVars, serverVars>>

\* The answer is assigned, however old it is.  Of allocationConfig the model
\* keeps what the watcher reads next, from its tick to ReadAlloc.
RefreshSets(w) ==
    /\ rpc[w] = "got"
    /\ rpc' = [rpc EXCEPT ![w] = "select"]
    /\ snap' = [snap EXCEPT ![w] = NoEvents]
    /\ seen' = IF wpc[w] = "read" THEN [seen EXCEPT ![w] = snap[w]] ELSE seen
    /\ UNCHANGED <<notWorker, wpc, tasks, at, consulVars, serverVars>>

RefreshStops(w) ==
    /\ rpc[w] = "select" /\ stopped[w]
    /\ rpc' = [rpc EXCEPT ![w] = "off"]
    /\ UNCHANGED <<notWorker, wpc, loopVars, snap, consulVars, serverVars>>

-------------------------------------------------------------------------------
(* server.go: the broker's connection.                                     *)

WriteLog ==
    /\ server = "write"
    /\ server' = "await"
    /\ sent' = sent \cup {inHand}
    /\ again' = again \cup (sent \cap {inHand})
    /\ inHand' = NoEvent
    /\ UNCHANGED <<envVars, crashed, syncVars, recvVars, workerVars, consulVars>>

WriteLogFails ==
    /\ server = "write" /\ "bye" \in Faults
    /\ crashed' = TRUE
    /\ UNCHANGED <<envVars, syncVars, recvVars, workerVars, consulVars, serverVars>>

AwaitOk ==
    /\ server = "await"
    /\ server' = "receive"
    /\ UNCHANGED <<envVars, crashed, syncVars, recvVars, workerVars, consulVars,
                   inHand, sent, again>>

\* WaitForOk is false: the goroutine returns and closes the receiver.
AwaitBye ==
    /\ server = "await" /\ "bye" \in Faults
    /\ server' = "closed"
    /\ UNCHANGED <<envVars, crashed, syncVars, recvVars, workerVars, consulVars,
                   inHand, sent, again>>

-------------------------------------------------------------------------------
EnvStep == \E a \in Allocs : Place(a) \/ Leave(a) \/ \E t \in Tasks : Happen(a, t)

SyncStep ==
    \/ SyncBegins
    \/ \E a \in Allocs : AllocationAdded(a) \/ AllocationRemoved(a)
    \/ SyncRemoves
    \/ SyncSets

WorkerStep(w) ==
    \/ StartWorker(w) \/ StartFails(w) \/ EnterWatch(w)
    \/ WatchTick(w) \/ WatchTickFails(w) \/ ReadAlloc(w) \/ WatchStop(w)
    \/ \E t \in Tasks : NextTask(w, t)
    \/ TasksDone(w)
    \/ GetMark(w) \/ SendLog(w) \/ SendOnClosed(w) \/ PutMark(w)

ConfigStep(w) == Refresh(w) \/ RefreshSets(w) \/ RefreshStops(w)

ServerStep == WriteLog \/ WriteLogFails \/ AwaitOk \/ AwaitBye

Next ==
    \/ /\ ~crashed
       /\ \/ EnvStep
          \/ SyncStep
          \/ WaitReturns
          \/ \E w \in Worker : WorkerStep(w) \/ ConfigStep(w)
          \/ ServerStep
    \/ Restart

Spec == Init /\ [][Next]_vars

\* Every goroutine runs.  Of two ready cases of a select none is passed over
\* for ever (the runtime draws lots), nor is a sender that waits at a channel
\* (the runtime keeps a queue).  Nobody has to start the process again, and no
\* property needs syncAllocationConfig to run.
FairSpec ==
    /\ Spec
    /\ WF_vars(~crashed /\ SyncStep)
    /\ WF_vars(~crashed /\ WaitReturns)
    /\ WF_vars(~crashed /\ ServerStep)
    /\ \A w \in Worker :
          /\ WF_vars(~crashed /\ WorkerStep(w))
          /\ SF_vars(~crashed /\ WatchStop(w))
          /\ SF_vars(~crashed /\ SendLog(w))

-------------------------------------------------------------------------------
(* Safety.                                                                 *)

\* One watcher per allocation (client.go 166-176, worker.go 92-94): a goroutine
\* that is inside watchAllocationEvents is the one AllocationWorkers knows for
\* its allocation, so Wait waited for the previous one; also when the
\* allocation left before the goroutine came to its waitGroup.Add.
WatcherIsKnown == \A w \in Worker : Counted(w) => workers[w[1]] = w[2]

\* How often an event may be sent again (worker.go 123-154): once for a call to
\* Consul that failed, and for a process that ended, once per allocation whose
\* watcher had not yet marked what it had sent.  Otherwise no event is written
\* to the broker twice, however often allocations leave and return, and
\* whatever old answer syncAllocationConfig assigns.
SentOnce == Cardinality(again) <= failures + restarts * Cardinality(Allocs)

\* An event is marked as synced only when it was handed over (worker.go
\* 149-151): of the marked events all were written to the broker or are in the
\* hands of the connection's goroutine, but for the one that each process that
\* ended had in its hands.
Lost == marked \ (sent \cup {inHand})

MarkedIsSent == Cardinality(Lost) <= restarts

-------------------------------------------------------------------------------
(* Liveness.                                                               *)

Happened(e) == e[3] <= produced[e[1]][e[2]]

\* The watcher of allocation a has returned by itself: its Info failed.
GaveUp(a) ==
    \E w \in Worker :
       w[1] = a /\ w[2] = workers[a] /\ wpc[w] = "done" /\ ~stopped[w]

\* Every event of a watched task is written to the broker in the end, if its
\* allocation stays listed, also when Consul calls fail, the allocation comes and
\* goes, its worker starts over, its configuration is overwritten with an older
\* one, or the process starts over (ReceiveLogs, worker.go 75-157).  Only a
\* failed Info, after which nobody watches the allocation, a panic, to which
\* a lost connection to the broker leads, and the end of a process that had
\* marked the event before it was written keep an event from being sent.
EventSent ==
    \A e \in Event :
       NewFromAllocation(e[1]).JobConfig.Enabled /\ Watched(e[1], e[2]) =>
          (Happened(e) /\ e[1] \in listed)
             ~> (e \in sent \cup Lost \/ e[1] \notin listed \/ GaveUp(e[1]) \/ crashed)

\* ReceiveLogs does not stay in AllocationWorkers.Wait (client.go 73-79), where
\* it holds the workers' mutex and keeps Sync from sending: the worker ends,
\* unless the process does.
WaitEnds == (recv = "wait") ~> (recv = "select" \/ crashed)
===============================================================================
