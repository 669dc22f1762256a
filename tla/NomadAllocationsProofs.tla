------------------------- MODULE NomadAllocationsProofs -------------------------
(***************************************************************************)
(* What holds of NomadAllocations for any allocations and tasks, however   *)
(* often an allocation leaves and returns, a call to Consul fails and the  *)
(* process ends: one watcher per allocation, what is marked was handed     *)
(* over, and how many events can be sent twice.                            *)
(***************************************************************************)
EXTENDS NomadAllocations, FiniteSetTheorems, TLAPS

\* Sync adds an allocation once for each time that it was listed anew.  Who is
\* listed, and not in what Sync will leave in the pool, has yet to be added.
AddsCounted ==
    /\ \A a \in Allocs : created[a] <= places[a]
    /\ \A a \in listed : places[a] > 0
    /\ sync = "tick" => left = {} /\ \A a \in listed \ pool : created[a] < places[a]
    /\ sync # "tick" => \A a \in listed \ fetched : created[a] < places[a]
    /\ sync = "add" => /\ left \subseteq fetched \ pool
                       /\ \A a \in left : created[a] < places[a]
    /\ sync = "remove" => left \subseteq pool \ fetched

\* An allocation that has a worker, which is not being removed, is one that
\* Sync has in its pool or is about to put there, or has still to remove.
WorkersPooled ==
    \A a \in Allocs : workers[a] # 0 /\ a \notin removing =>
       /\ sync = "tick" => a \in pool
       /\ sync = "add" => a \in pool \cup (fetched \ left)
       /\ sync = "remove" => a \in fetched \cup left

\* The worker that AllocationWorkers knows is the last one created; all others,
\* and the one that is being removed, were told to stop.
OthersStopped ==
    /\ recv = "select" <=> removing = {}
    /\ \A a \in Allocs : workers[a] \in {0, created[a]}
    /\ \A w \in Worker : w[2] > created[w[1]] => wpc[w] = "none"
    /\ \A w \in Worker :
          w[2] <= created[w[1]] /\ (workers[w[1]] # w[2] \/ w[1] \in removing)
             => stopped[w]

\* The event that a watcher looks at is one of its allocation.
AtIsEvent ==
    \A w \in Worker : wpc[w] \in {"event", "send", "put"} =>
       at[w] \in Event /\ at[w][1] = w[1]

\* What a worker is about to mark was handed over.
HandedOver ==
    /\ IF server = "write" THEN inHand \in Event ELSE inHand = NoEvent
    /\ \A w \in Worker : wpc[w] = "put" => at[w] \in sent \cup {inHand}
    /\ IsFiniteSet(sent) /\ IsFiniteSet(marked)

\* An event that was handed over, and is written twice, is going to be, or may be
\* later, since neither a mark nor a worker that is about to mark it prevents it.
Risky(e) ==
    \/ e \in again
    \/ e = inHand /\ e \in sent
    \/ e \notin marked /\ \A w \in Worker : wpc[w] = "put" => at[w] # e
    \/ \E w \in Worker : wpc[w] = "send" /\ at[w] = e

AtRisk == {e \in (sent \cup {inHand}) \ {NoEvent} : Risky(e)}

FewAtRisk == Cardinality(AtRisk) <= failures + restarts * Cardinality(Allocs)

WatchInv ==
    TypeOK /\ AddsCounted /\ WorkersPooled /\ OthersStopped /\ WatcherIsKnown
EventInv == AtIsEvent /\ HandedOver /\ MarkedIsSent /\ FewAtRisk

---------------------------------------------------------------------------------
(* The types.                                                              *)

\* The bounds are natural numbers.
LEMMA Bounds ==
    MaxEvents \in Nat /\ MaxPlaces \in Nat /\ MaxFailures \in Nat /\ MaxRestarts \in Nat
  BY BoundsAssumption

\* The next event of the task is one of the same allocation.
LEMMA AdvanceResult ==
    ASSUME TypeOK, NEW w \in Worker, at[w] \in Event, Advance(w)
    PROVE  /\ wpc' \in [Worker -> WorkerPC] /\ at' \in [Worker -> Event \cup {NoEvent}]
           /\ \A v \in Worker \ {w} : wpc'[v] = wpc[v] /\ at'[v] = at[v]
           /\ wpc'[w] \in {"event", "task"}
           /\ wpc'[w] = "event" => at'[w] \in Event /\ at'[w][1] = at[w][1]
<1> USE DEF TypeOK, WGoto, WorkerPC
<1>1. CASE at[w][3] < seen[w][at[w][2]]
  <2> DEFINE f == <<at[w][1], at[w][2], at[w][3] + 1>>
  <2>1. seen[w][at[w][2]] \in 0 .. MaxEvents
    BY DEF Event
  <2>2. f \in Event
    BY <1>1, <2>1, Bounds DEF Event
  <2>3. f[1] = at[w][1]
    OBVIOUS
  <2>4. wpc' = [wpc EXCEPT ![w] = "event"] /\ at' = [at EXCEPT ![w] = f]
    BY <1>1 DEF Advance
  <2> HIDE DEF f
  <2> QED
    BY <2>2, <2>3, <2>4
<1>2. CASE ~(at[w][3] < seen[w][at[w][2]])
  BY <1>2 DEF Advance
<1> QED
  BY <1>1, <1>2

\* The actions of Nomad and of AllocationPool.Sync and ReceiveLogs.
LEMMA TypeSyncStep ==
    ASSUME TypeOK, AddsCounted, EnvStep \/ SyncStep \/ WaitReturns PROVE TypeOK'
<1> USE Bounds DEF TypeOK, envVars, syncVars, recvVars, loopVars, configVars,
                   workerVars, consulVars, serverVars, notSync
<1>1. ASSUME NEW a \in Allocs, Place(a) PROVE TypeOK'
  BY <1>1 DEF Place
<1>2. ASSUME NEW a \in Allocs, Leave(a) PROVE TypeOK'
  BY <1>2 DEF Leave
<1>3. ASSUME NEW a \in Allocs, NEW t \in Tasks, Happen(a, t) PROVE TypeOK'
  BY <1>3 DEF Happen
<1>4. CASE SyncBegins
  BY <1>4 DEF SyncBegins
<1>5. ASSUME NEW a \in Allocs, AllocationAdded(a) PROVE TypeOK'
  <2>1. created[a] + 1 \in 0 .. MaxPlaces
    BY <1>5 DEF AllocationAdded, AddsCounted
  <2>2. /\ workers' \in [Allocs -> 0 .. MaxPlaces]
        /\ created' \in [Allocs -> 0 .. MaxPlaces]
    BY <1>5, <2>1 DEF AllocationAdded
  <2>3. wpc' \in [Worker -> WorkerPC]
    BY <1>5 DEF AllocationAdded, WorkerPC
  <2> QED
    BY <1>5, <2>2, <2>3 DEF AllocationAdded
<1>6. ASSUME NEW a \in Allocs, AllocationRemoved(a) PROVE TypeOK'
  BY <1>6 DEF AllocationRemoved
<1>7. CASE SyncRemoves
  BY <1>7 DEF SyncRemoves
<1>8. CASE SyncSets
  BY <1>8 DEF SyncSets
<1>9. CASE WaitReturns
  BY <1>9 DEF WaitReturns
<1> QED
  BY <1>1, <1>2, <1>3, <1>4, <1>5, <1>6, <1>7, <1>8, <1>9 DEF EnvStep, SyncStep

\* The actions of a worker.
LEMMA TypeWorkerStep ==
    ASSUME TypeOK, AtIsEvent, NEW w \in Worker, WorkerStep(w) \/ ConfigStep(w)
    PROVE  TypeOK'
<1> USE Bounds DEF TypeOK, envVars, syncVars, recvVars, loopVars, configVars,
                   workerVars, consulVars, serverVars, notWorker, WGoto, WorkerPC
<1>1. CASE StartWorker(w)
  BY <1>1 DEF StartWorker
<1>2. CASE StartFails(w)
  BY <1>2 DEF StartFails
<1>3. CASE EnterWatch(w)
  BY <1>3 DEF EnterWatch
<1>4. CASE WatchTick(w)
  BY <1>4 DEF WatchTick, Worker
<1>5. CASE WatchTickFails(w)
  BY <1>5 DEF WatchTickFails
<1>6. CASE ReadAlloc(w)
  BY <1>6 DEF ReadAlloc
<1>7. CASE WatchStop(w)
  BY <1>7 DEF WatchStop
<1>8. ASSUME NEW t \in Tasks, NextTask(w, t) PROVE TypeOK'
  <2>1. seen[w][t] > 0 => <<w[1], t, 1>> \in Event
    BY DEF Worker, Event
  <2>2. wpc' \in [Worker -> WorkerPC] /\ tasks' \in [Worker -> SUBSET Tasks]
    BY <1>8 DEF NextTask
  <2>3. at' \in [Worker -> Event \cup {NoEvent}]
    BY <1>8, <2>1 DEF NextTask
  <2> QED
    BY <1>8, <2>2, <2>3 DEF NextTask
<1>9. CASE TasksDone(w)
  BY <1>9 DEF TasksDone, NoEvents
<1>10. CASE GetMark(w)
  <2>1. at[w] \in Event
    BY <1>10 DEF GetMark, AtIsEvent
  <2>2. failures' \in 0 .. MaxFailures
    BY <1>10 DEF GetMark, CallFails
  <2>3. wpc' \in [Worker -> WorkerPC] /\ at' \in [Worker -> Event \cup {NoEvent}]
    BY <1>10, <2>1, AdvanceResult DEF GetMark
  <2> QED
    BY <1>10, <2>2, <2>3 DEF GetMark
<1>11. CASE SendLog(w)
  BY <1>11 DEF SendLog
<1>12. CASE SendOnClosed(w)
  BY <1>12 DEF SendOnClosed
<1>13. CASE PutMark(w)
  <2>1. at[w] \in Event
    BY <1>13 DEF PutMark, AtIsEvent
  <2>2. failures' \in 0 .. MaxFailures /\ marked' \subseteq Event
    BY <1>13, <2>1 DEF PutMark, CallFails
  <2>3. wpc' \in [Worker -> WorkerPC] /\ at' \in [Worker -> Event \cup {NoEvent}]
    BY <1>13, <2>1, AdvanceResult DEF PutMark
  <2> QED
    BY <1>13, <2>2, <2>3 DEF PutMark
<1>14. CASE Refresh(w)
  BY <1>14 DEF Refresh, Worker
<1>15. CASE RefreshSets(w)
  BY <1>15 DEF RefreshSets, NoEvents
<1>16. CASE RefreshStops(w)
  BY <1>16 DEF RefreshStops
<1> QED
  BY <1>1, <1>2, <1>3, <1>4, <1>5, <1>6, <1>7, <1>8, <1>9, <1>10, <1>11, <1>12, <1>13,
     <1>14, <1>15, <1>16 DEF WorkerStep, ConfigStep

\* The actions of the broker's connection, and the supervisor.
LEMMA TypeServerStep ==
    ASSUME TypeOK, HandedOver, ServerStep \/ Restart PROVE TypeOK'
<1> USE Bounds DEF TypeOK, envVars, syncVars, recvVars, loopVars, configVars,
                   workerVars, consulVars, serverVars
<1>1. CASE WriteLog
  BY <1>1 DEF WriteLog, HandedOver
<1>2. CASE WriteLogFails
  BY <1>2 DEF WriteLogFails
<1>3. CASE AwaitOk \/ AwaitBye
  BY <1>3 DEF AwaitOk, AwaitBye
<1>4. CASE Restart
  <2>1. restarts' \in 0 .. MaxRestarts
    BY <1>4 DEF Restart
  <2>2. /\ workers' \in [Allocs -> 0 .. MaxPlaces]
        /\ created' \in [Allocs -> 0 .. MaxPlaces]
    BY <1>4 DEF Restart
  <2>3. /\ wpc' \in [Worker -> WorkerPC] /\ stopped' \in [Worker -> BOOLEAN]
        /\ seen' \in [Worker -> [Tasks -> 0 .. MaxEvents]]
        /\ snap' \in [Worker -> [Tasks -> 0 .. MaxEvents]]
    BY <1>4 DEF Restart, NoEvents, WorkerPC
  <2>4. /\ tasks' \in [Worker -> SUBSET Tasks]
        /\ at' \in [Worker -> Event \cup {NoEvent}]
        /\ rpc' \in [Worker -> {"off", "select", "got"}]
    BY <1>4 DEF Restart
  <2> QED
    BY <1>4, <2>1, <2>2, <2>3, <2>4 DEF Restart
<1> QED
  BY <1>1, <1>2, <1>3, <1>4 DEF ServerStep

---------------------------------------------------------------------------------
(* One watcher per allocation.                                             *)

\* A worker changes its own place only, and enters watchAllocationEvents only
\* when it was not told to stop.
LEMMA WorkerMoves ==
    ASSUME TypeOK, AtIsEvent, NEW w \in Worker, WorkerStep(w) \/ ConfigStep(w)
    PROVE  /\ UNCHANGED <<envVars, syncVars, recvVars, stopped>>
           /\ \A v \in Worker \ {w} : wpc'[v] = wpc[v]
           /\ wpc[w] = "none" => wpc'[w] = "none"
           /\ Counted(w)' => Counted(w) \/ (wpc[w] # "none" /\ ~stopped[w])
<1> USE DEF TypeOK, envVars, syncVars, recvVars, loopVars, configVars, workerVars,
            notWorker, WGoto, Counted
<1>1. CASE GetMark(w) \/ PutMark(w)
  <2>1. at[w] \in Event
    BY <1>1 DEF GetMark, PutMark, AtIsEvent
  <2> QED
    BY <1>1, <2>1, AdvanceResult DEF GetMark, PutMark
<1>2. CASE StartWorker(w) \/ StartFails(w) \/ EnterWatch(w) \/ WatchTick(w)
  BY <1>2 DEF StartWorker, StartFails, EnterWatch, WatchTick
<1>3. CASE WatchTickFails(w) \/ ReadAlloc(w) \/ WatchStop(w) \/ TasksDone(w)
  BY <1>3 DEF WatchTickFails, ReadAlloc, WatchStop, TasksDone
<1>4. ASSUME NEW t \in Tasks, NextTask(w, t)
      PROVE  /\ UNCHANGED <<envVars, syncVars, recvVars, stopped>>
             /\ \A v \in Worker \ {w} : wpc'[v] = wpc[v]
             /\ wpc[w] = "none" => wpc'[w] = "none"
             /\ Counted(w)' => Counted(w)
  BY <1>4 DEF NextTask
<1>5. CASE SendLog(w) \/ SendOnClosed(w)
  BY <1>5 DEF SendLog, SendOnClosed
<1>6. CASE ConfigStep(w)
  BY <1>6 DEF ConfigStep, Refresh, RefreshSets, RefreshStops
<1> QED
  BY <1>1, <1>2, <1>3, <1>4, <1>5, <1>6 DEF WorkerStep

WatchParts == AddsCounted /\ WorkersPooled /\ OthersStopped /\ WatcherIsKnown

\* The steps of the workers.
LEMMA WatchWorkerStep ==
    ASSUME TypeOK, AtIsEvent, WatchParts, NEW w \in Worker, WorkerStep(w) \/ ConfigStep(w)
    PROVE  WatchParts'
<1> USE DEF WatchParts
<1>1. /\ UNCHANGED <<listed, places, sync, fetched, left, pool>>
      /\ UNCHANGED <<recv, removing, workers, created, stopped>>
      /\ \A v \in Worker \ {w} : wpc'[v] = wpc[v]
      /\ wpc[w] = "none" => wpc'[w] = "none"
      /\ Counted(w)' => Counted(w) \/ (wpc[w] # "none" /\ ~stopped[w])
  BY WorkerMoves DEF envVars, syncVars, recvVars
<1>2. AddsCounted' /\ WorkersPooled'
  BY <1>1 DEF AddsCounted, WorkersPooled
<1>3. OthersStopped'
  BY <1>1 DEF OthersStopped
<1>4. WatcherIsKnown'
  <2> SUFFICES ASSUME NEW v \in Worker, Counted(v)' PROVE workers[v[1]] = v[2]
    BY <1>1 DEF WatcherIsKnown
  <2>1. CASE Counted(v)
    BY <2>1 DEF WatcherIsKnown
  <2>2. CASE ~Counted(v)
    <3>1. v = w /\ wpc[w] # "none" /\ ~stopped[w]
      BY <1>1, <2>2 DEF Counted
    <3>2. w[2] <= created[w[1]]
      BY <3>1 DEF OthersStopped, TypeOK, Worker
    <3> QED
      BY <3>1, <3>2 DEF OthersStopped
  <2> QED
    BY <2>1, <2>2
<1> QED
  BY <1>2, <1>3, <1>4

\* The steps of Nomad, and of Sync alone.
LEMMA WatchEnvStep ==
    ASSUME TypeOK, WatchParts, EnvStep \/ SyncBegins \/ SyncRemoves \/ SyncSets
    PROVE  WatchParts'
<1> USE DEF WatchParts, TypeOK, envVars, syncVars, recvVars, loopVars, configVars,
            workerVars, notSync
<1>1. ASSUME NEW a \in Allocs, Place(a) PROVE WatchParts'
  BY <1>1 DEF Place, AddsCounted, WorkersPooled, OthersStopped, WatcherIsKnown, Counted
<1>2. ASSUME NEW a \in Allocs, Leave(a) PROVE WatchParts'
  BY <1>2 DEF Leave, AddsCounted, WorkersPooled, OthersStopped, WatcherIsKnown, Counted
<1>3. ASSUME NEW a \in Allocs, NEW t \in Tasks, Happen(a, t) PROVE WatchParts'
  BY <1>3 DEF Happen, AddsCounted, WorkersPooled, OthersStopped, WatcherIsKnown, Counted
<1>4. CASE SyncBegins
  BY <1>4
  DEF SyncBegins, AddsCounted, WorkersPooled, OthersStopped, WatcherIsKnown, Counted
<1>5. CASE SyncRemoves
  BY <1>5
  DEF SyncRemoves, AddsCounted, WorkersPooled, OthersStopped, WatcherIsKnown, Counted
<1>6. CASE SyncSets
  BY <1>6
  DEF SyncSets, AddsCounted, WorkersPooled, OthersStopped, WatcherIsKnown, Counted
<1> QED
  BY <1>1, <1>2, <1>3, <1>4, <1>5, <1>6 DEF EnvStep

\* A new worker: the allocation has none, since Wait has seen the last one end.
LEMMA WatchAddedStep ==
    ASSUME TypeOK, WatchParts, NEW a \in Allocs, AllocationAdded(a) PROVE WatchParts'
<1> USE DEF WatchParts
<1>1. workers[a] = 0 /\ removing = {}
  BY DEF AllocationAdded, OthersStopped, WorkersPooled, AddsCounted
<1>2. /\ left' = left \ {a}
      /\ created' = [created EXCEPT ![a] = @ + 1]
      /\ workers' = [workers EXCEPT ![a] = created[a] + 1]
      /\ wpc' = [wpc EXCEPT ![<<a, created[a] + 1>>] = "start"]
      /\ UNCHANGED <<listed, places, sync, fetched, pool, recv, removing, stopped>>
      /\ sync = "add" /\ a \in left
  BY DEF AllocationAdded, notSync, envVars
<1>3. AddsCounted'
  BY <1>2 DEF AddsCounted, TypeOK
<1>4. WorkersPooled'
  BY <1>1, <1>2 DEF WorkersPooled, AddsCounted, TypeOK
<1>5. OthersStopped'
  <2>1. \A b \in Allocs : workers'[b] \in {0, created'[b]}
    BY <1>2 DEF OthersStopped, TypeOK
  <2>2. ASSUME NEW w \in Worker, w[2] > created'[w[1]] PROVE wpc'[w] = "none"
    <3>1. w[1] \in Allocs /\ w[2] \in Nat /\ created \in [Allocs -> Nat]
      BY DEF TypeOK, Worker
    <3>2. w[2] > created[w[1]] /\ w # <<a, created[a] + 1>>
      BY <1>2, <2>2, <3>1
    <3> QED
      BY <1>2, <3>2 DEF OthersStopped, TypeOK
  <2>3. ASSUME NEW w \in Worker, w[2] <= created'[w[1]],
               workers'[w[1]] # w[2] \/ w[1] \in removing'
        PROVE  stopped'[w]
    <3>1. w[1] \in Allocs /\ w[2] \in 1 .. MaxPlaces /\ created \in [Allocs -> Nat]
      BY DEF TypeOK, Worker
    <3>2. w[2] <= created[w[1]] /\ workers[w[1]] # w[2]
      <4>1. CASE w[1] = a
        <5>1. w[2] <= created[a] + 1 /\ w[2] # created[a] + 1
          BY <1>1, <1>2, <2>3, <3>1, <4>1 DEF TypeOK
        <5> QED
          BY <1>1, <3>1, <4>1, <5>1
      <4>2. CASE w[1] # a
        BY <1>1, <1>2, <2>3, <3>1, <4>2 DEF TypeOK
      <4> QED
        BY <4>1, <4>2
    <3> QED
      BY <1>2, <3>2 DEF OthersStopped
  <2> QED
    BY <1>2, <2>1, <2>2, <2>3 DEF OthersStopped
<1>6. WatcherIsKnown'
  BY <1>1, <1>2 DEF WatcherIsKnown, Counted, TypeOK, Worker
<1> QED
  BY <1>3, <1>4, <1>5, <1>6

\* A worker is told to stop, and is forgotten when it has ended.
LEMMA WatchRemovedStep ==
    ASSUME TypeOK, WatchParts,
           WaitReturns \/ \E a \in Allocs : AllocationRemoved(a)
    PROVE  WatchParts'
<1> USE DEF WatchParts
<1>1. ASSUME NEW a \in Allocs, AllocationRemoved(a) PROVE WatchParts'
  <2>1. /\ left' = left \ {a} /\ removing' = {a} /\ removing = {}
        /\ stopped' = [w \in Worker |->
                         stopped[w] \/ (w[1] = a /\ w[2] = workers[a])]
        /\ recv' = "wait" /\ sync = "remove"
        /\ UNCHANGED <<listed, places, sync, fetched, pool, workers, created, wpc>>
    BY <1>1 DEF AllocationRemoved, OthersStopped, notSync, envVars
  <2>2. AddsCounted' /\ WorkersPooled'
    BY <2>1 DEF AddsCounted, WorkersPooled
  <2>3. OthersStopped'
    BY <2>1 DEF OthersStopped
  <2>4. WatcherIsKnown'
    BY <2>1 DEF WatcherIsKnown, Counted
  <2> QED
    BY <2>2, <2>3, <2>4
<1>2. CASE WaitReturns
  <2>1. /\ workers' = [a \in Allocs |-> IF a \in removing THEN 0 ELSE workers[a]]
        /\ recv' = "select" /\ removing' = {}
        /\ UNCHANGED <<listed, places, sync, fetched, left, pool, created>>
        /\ UNCHANGED <<wpc, stopped>>
    BY <1>2 DEF WaitReturns, notSync, envVars, syncVars, workerVars
  <2>2. AddsCounted' /\ WorkersPooled'
    BY <2>1 DEF AddsCounted, WorkersPooled
  <2>3. OthersStopped'
    BY <2>1 DEF OthersStopped, TypeOK, Worker
  <2>4. WatcherIsKnown'
    BY <1>2, <2>1 DEF WaitReturns, WatcherIsKnown, Counted, TypeOK, Worker
  <2> QED
    BY <2>2, <2>3, <2>4
<1> QED
  BY <1>1, <1>2

\* The broker's connection does not touch the workers, and after a restart there
\* are none.
LEMMA WatchServerStep ==
    ASSUME TypeOK, WatchParts, ServerStep \/ Restart PROVE WatchParts'
<1> USE DEF WatchParts
<1>1. CASE ServerStep
  <2>1. UNCHANGED <<envVars, syncVars, recvVars, workerVars>>
    BY <1>1 DEF ServerStep, WriteLog, WriteLogFails, AwaitOk, AwaitBye
  <2> QED
    BY <2>1
    DEF envVars, syncVars, recvVars, workerVars, AddsCounted, WorkersPooled,
        OthersStopped, WatcherIsKnown, Counted
<1>2. CASE Restart
  <2>1. AddsCounted' /\ WorkersPooled'
    BY <1>2 DEF Restart, AddsCounted, WorkersPooled, TypeOK
  <2>2. OthersStopped' /\ WatcherIsKnown'
    BY <1>2 DEF Restart, OthersStopped, WatcherIsKnown, Counted, Worker
  <2> QED
    BY <2>1, <2>2
<1> QED
  BY <1>1, <1>2

---------------------------------------------------------------------------------
(* What is handed over, marked and sent.                                   *)

\* Each allocation has one watcher at most.
LEMMA OneWatcher ==
    ASSUME WatcherIsKnown, NEW v \in Worker, NEW w \in Worker, Counted(v), Counted(w),
           v[1] = w[1]
    PROVE  v = w
  BY DEF WatcherIsKnown, Worker

\* Two workers that look at the same event are one.
LEMMA OneAtEvent ==
    ASSUME WatcherIsKnown, AtIsEvent, NEW v \in Worker, NEW w \in Worker,
           wpc[v] \in {"event", "send", "put"}, wpc[w] \in {"event", "send", "put"},
           at[v] = at[w]
    PROVE  v = w
  BY OneWatcher DEF AtIsEvent, Counted

\* NoEvent is no event.
LEMMA NoEventIsNone == NoEvent \notin Event
  BY DEF NoEvent, Event

\* A step that leaves events, marks and the connection alone keeps what is said
\* of them, if no worker gets to, or leaves, the places where it sends or marks.
LEMMA QuietStep ==
    ASSUME EventInv, UNCHANGED <<marked, failures, restarts, inHand, sent, again>>,
           server' = server \/ (server # "write" /\ server' # "write"),
           \A w \in Worker : /\ wpc'[w] \in {"send", "put"} <=> wpc[w] \in {"send", "put"}
                             /\ wpc[w] \in {"send", "put"} => wpc'[w] = wpc[w] /\ at'[w] = at[w],
           AtIsEvent'
    PROVE  EventInv'
<1>1. HandedOver'
  BY DEF EventInv, HandedOver
<1>2. MarkedIsSent'
  BY DEF EventInv, MarkedIsSent, Lost
<1>3. AtRisk' = AtRisk
  BY DEF AtRisk, Risky
<1>4. FewAtRisk'
  BY <1>3 DEF EventInv, FewAtRisk
<1> QED
  BY <1>1, <1>2, <1>4 DEF EventInv

\* Nomad, Sync, ReceiveLogs and the goroutines of a worker that do not send or mark
\* change nothing about events.
LEMMA EventQuietSteps ==
    ASSUME TypeOK, OthersStopped, EventInv,
           \/ EnvStep \/ SyncStep \/ WaitReturns \/ WriteLogFails \/ AwaitOk \/ AwaitBye
           \/ \E w \in Worker :
                 \/ StartWorker(w) \/ StartFails(w) \/ EnterWatch(w) \/ WatchTick(w)
                 \/ WatchTickFails(w) \/ ReadAlloc(w) \/ WatchStop(w) \/ TasksDone(w)
                 \/ \E t \in Tasks : NextTask(w, t)
                 \/ SendOnClosed(w) \/ ConfigStep(w)
    PROVE  EventInv'
<1> USE DEF envVars, syncVars, recvVars, loopVars, configVars, workerVars, consulVars,
            serverVars, notSync, notWorker, WGoto
<1> DEFINE Quiet ==
        /\ UNCHANGED <<marked, failures, restarts, inHand, sent, again>>
        /\ server' = server \/ (server # "write" /\ server' # "write")
        /\ \A w \in Worker :
              /\ wpc'[w] \in {"send", "put"} <=> wpc[w] \in {"send", "put"}
              /\ wpc[w] \in {"send", "put"} => wpc'[w] = wpc[w] /\ at'[w] = at[w]
        /\ AtIsEvent'
<1>1. CASE \/ EnvStep \/ SyncBegins \/ SyncRemoves \/ SyncSets \/ WaitReturns
           \/ WriteLogFails \/ AwaitOk \/ AwaitBye
           \/ \E a \in Allocs : AllocationRemoved(a)
  <2>1. /\ UNCHANGED <<marked, failures, restarts, inHand, sent, again, wpc, at>>
        /\ server' = server \/ (server # "write" /\ server' # "write")
    BY <1>1
    DEF EnvStep, Place, Leave, Happen, SyncBegins, SyncRemoves, SyncSets, WaitReturns,
        AllocationRemoved, WriteLogFails, AwaitOk, AwaitBye
  <2>2. Quiet
    BY <2>1 DEF EventInv, AtIsEvent
  <2> QED
    BY <2>2, QuietStep
<1>2. ASSUME NEW a \in Allocs, AllocationAdded(a) PROVE EventInv'
  <2> DEFINE v == <<a, created[a] + 1>>
  <2>1. /\ UNCHANGED <<marked, failures, restarts, inHand, sent, again, server, at>>
        /\ wpc' = [wpc EXCEPT ![v] = "start"]
    BY <1>2 DEF AllocationAdded
  <2>2. v \in Worker => wpc[v] = "none"
    BY DEF OthersStopped, TypeOK, Worker
  <2> HIDE DEF v
  <2>3. Quiet
    BY <2>1, <2>2 DEF EventInv, AtIsEvent, TypeOK
  <2> QED
    BY <2>3, QuietStep
<1>3. ASSUME NEW w \in Worker,
             \/ StartWorker(w) \/ StartFails(w) \/ EnterWatch(w) \/ WatchTick(w)
             \/ WatchTickFails(w) \/ ReadAlloc(w) \/ WatchStop(w) \/ TasksDone(w)
             \/ SendOnClosed(w) \/ ConfigStep(w)
      PROVE  EventInv'
  <2>1. /\ UNCHANGED <<marked, failures, restarts, inHand, sent, again, server, at>>
        /\ UNCHANGED wpc
           \/ /\ wpc[w] \notin {"event", "send", "put"}
              /\ \E l \in WorkerPC \ {"event", "send", "put"} :
                    wpc' = [wpc EXCEPT ![w] = l]
    BY <1>3
    DEF StartWorker, StartFails, EnterWatch, WatchTick, WatchTickFails, ReadAlloc,
        WatchStop, TasksDone, SendOnClosed, ConfigStep, Refresh, RefreshSets,
        RefreshStops, WorkerPC
  <2>2. Quiet
    BY <2>1 DEF EventInv, AtIsEvent, TypeOK
  <2> QED
    BY <2>2, QuietStep
<1>4. ASSUME NEW w \in Worker, NEW t \in Tasks, NextTask(w, t) PROVE EventInv'
  <2>1. /\ UNCHANGED <<marked, failures, restarts, inHand, sent, again, server>>
        /\ wpc[w] = "task" /\ wpc'[w] \in {"task", "event"}
        /\ \A v \in Worker \ {w} : wpc'[v] = wpc[v] /\ at'[v] = at[v]
    BY <1>4 DEF NextTask, TypeOK
  <2>2. wpc'[w] = "event" => at'[w] \in Event /\ at'[w][1] = w[1]
    <3>1. seen[w][t] > 0 => <<w[1], t, 1>> \in Event /\ <<w[1], t, 1>>[1] = w[1]
      BY Bounds DEF Worker, Event, TypeOK
    <3> QED
      BY <1>4, <3>1 DEF NextTask, TypeOK
  <2>3. Quiet
    BY <2>1, <2>2 DEF EventInv, AtIsEvent
  <2> QED
    BY <2>3, QuietStep
<1> QED
  BY <1>1, <1>2, <1>3, <1>4 DEF SyncStep

\* What may be sent again was handed over, and is finite.
LEMMA AtRiskFinite ==
    ASSUME HandedOver PROVE IsFiniteSet(AtRisk) /\ Cardinality(AtRisk) \in Nat
<1>1. IsFiniteSet(sent \cup {inHand}) /\ AtRisk \subseteq sent \cup {inHand}
  BY FS_AddElement DEF HandedOver, AtRisk
<1>2. IsFiniteSet(AtRisk)
  BY <1>1, FS_Subset
<1> QED
  BY <1>2, FS_CardinalityType

\* A step that puts no event at risk, and none but one for a call that failed.
LEMMA RiskGrows ==
    ASSUME TypeOK, HandedOver, HandedOver', FewAtRisk, NEW e, UNCHANGED restarts,
           \/ UNCHANGED failures /\ AtRisk' \subseteq AtRisk
           \/ failures' = failures + 1 /\ AtRisk' \subseteq AtRisk \cup {e}
    PROVE  FewAtRisk'
<1>1. IsFiniteSet(AtRisk) /\ Cardinality(AtRisk) \in Nat
  BY AtRiskFinite
<1>2. /\ IsFiniteSet(AtRisk \cup {e})
      /\ Cardinality(AtRisk \cup {e}) \in {Cardinality(AtRisk), Cardinality(AtRisk) + 1}
  BY <1>1, FS_AddElement
<1>3. IsFiniteSet(AtRisk') /\ Cardinality(AtRisk') \in Nat
  <2>1. IsFiniteSet(sent' \cup {inHand'}) /\ AtRisk' \subseteq sent' \cup {inHand'}
    BY FS_AddElement DEF HandedOver, AtRisk
  <2>2. IsFiniteSet(AtRisk')
    BY <2>1, FS_Subset
  <2> QED
    BY <2>2, FS_CardinalityType
<1>4. /\ AtRisk' \subseteq AtRisk => Cardinality(AtRisk') <= Cardinality(AtRisk)
      /\ AtRisk' \subseteq AtRisk \cup {e} =>
            Cardinality(AtRisk') <= Cardinality(AtRisk \cup {e})
  BY <1>1, <1>2, FS_Subset
<1> DEFINE r == restarts * Cardinality(Allocs)
<1>5. r \in Int /\ failures \in Int
  BY AllocsAssumption, FS_CardinalityType, Bounds DEF TypeOK
<1>6. Cardinality(AtRisk) <= failures + r
  BY DEF FewAtRisk
<1> HIDE DEF r
<1>7. Cardinality(AtRisk') <= failures' + r
  BY <1>1, <1>2, <1>3, <1>4, <1>5, <1>6
<1> QED
  BY <1>7 DEF FewAtRisk, r

\* A step that loses no marked event.
LEMMA NoMoreLost ==
    ASSUME TypeOK, HandedOver, MarkedIsSent, UNCHANGED restarts, Lost' \subseteq Lost
    PROVE  MarkedIsSent'
<1>1. IsFiniteSet(Lost)
  BY FS_Subset DEF HandedOver, Lost
<1>2. Cardinality(Lost') <= Cardinality(Lost)
  BY <1>1, FS_Subset
<1>3. IsFiniteSet(Lost')
  BY <1>1, FS_Subset
<1>4. Cardinality(Lost) \in Nat /\ Cardinality(Lost') \in Nat
  BY <1>1, <1>3, FS_CardinalityType
<1> QED
  BY <1>2, <1>4, Bounds DEF MarkedIsSent, TypeOK

\* KV().Get: what is not marked goes on to be sent, and no other worker is about to
\* mark it; what is marked does so only when the call has failed.
LEMMA EventGetStep ==
    ASSUME TypeOK, WatcherIsKnown, EventInv, NEW w \in Worker, GetMark(w)
    PROVE  EventInv'
<1>1. at[w] \in Event /\ at[w][1] = w[1] /\ wpc[w] = "event"
  BY DEF GetMark, EventInv, AtIsEvent
<1>2. UNCHANGED <<marked, restarts, inHand, sent, again, server>>
  BY DEF GetMark, notWorker, serverVars, envVars
<1>3. CASE Advance(w) /\ UNCHANGED failures
  <2>1. /\ \A v \in Worker \ {w} : wpc'[v] = wpc[v] /\ at'[v] = at[v]
        /\ wpc'[w] \in {"event", "task"}
        /\ wpc'[w] = "event" => at'[w] \in Event /\ at'[w][1] = w[1]
    BY <1>1, <1>3, AdvanceResult
  <2>2. AtIsEvent'
    BY <2>1 DEF EventInv, AtIsEvent
  <2>3. \A v \in Worker :
           /\ wpc'[v] \in {"send", "put"} <=> wpc[v] \in {"send", "put"}
           /\ wpc[v] \in {"send", "put"} => wpc'[v] = wpc[v] /\ at'[v] = at[v]
    BY <1>1, <2>1
  <2> QED
    BY <1>2, <1>3, <2>2, <2>3, QuietStep
<1>4. CASE /\ IF at[w] \in marked THEN CallFails ELSE UNCHANGED failures
           /\ WGoto(w, "send") /\ UNCHANGED at
  <2>1. /\ wpc' = [wpc EXCEPT ![w] = "send"] /\ UNCHANGED at
        /\ at[w] \in marked => failures' = failures + 1
        /\ at[w] \notin marked => UNCHANGED failures
    BY <1>4 DEF WGoto, CallFails
  <2>2. AtIsEvent' /\ HandedOver'
    BY <1>1, <1>2, <2>1 DEF EventInv, AtIsEvent, HandedOver, TypeOK
  <2>3. MarkedIsSent'
    BY <1>2, NoMoreLost DEF EventInv, Lost
  <2>4. AtRisk' \subseteq AtRisk \cup {at[w]}
    BY <1>1, <1>2, <2>1 DEF AtRisk, Risky, TypeOK
  <2>5. ASSUME at[w] \notin marked PROVE AtRisk' \subseteq AtRisk
    <3>1. \A v \in Worker : wpc[v] = "put" => at[v] # at[w]
      BY <1>1, OneAtEvent DEF EventInv
    <3>2. at[w] \in AtRisk' => at[w] \in AtRisk
      BY <1>1, <1>2, <2>5, <3>1 DEF AtRisk, Risky
    <3> QED
      BY <2>4, <3>2
  <2>6. FewAtRisk'
    BY <1>2, <2>1, <2>2, <2>4, <2>5, RiskGrows DEF EventInv
  <2> QED
    BY <2>2, <2>3, <2>6 DEF EventInv
<1> QED
  BY <1>3, <1>4 DEF GetMark

\* receiver <- log: from now on the worker is about to mark what it has handed over.
LEMMA EventSendStep ==
    ASSUME TypeOK, WatcherIsKnown, EventInv, NEW w \in Worker, SendLog(w)
    PROVE  EventInv'
<1>1. /\ at[w] \in Event /\ wpc[w] = "send" /\ inHand = NoEvent
      /\ wpc' = [wpc EXCEPT ![w] = "put"] /\ server' = "write" /\ inHand' = at[w]
      /\ UNCHANGED <<at, marked, failures, restarts, sent, again>>
  BY DEF SendLog, EventInv, AtIsEvent, HandedOver, WGoto, notWorker, consulVars,
         envVars, loopVars
<1>2. AtIsEvent' /\ HandedOver'
  BY <1>1, NoEventIsNone DEF EventInv, AtIsEvent, HandedOver, TypeOK
<1>3. MarkedIsSent'
  <2>1. Lost' \subseteq Lost
    BY <1>1, NoEventIsNone DEF Lost, TypeOK
  <2> QED
    BY <1>1, <2>1, NoMoreLost DEF EventInv
<1>4. AtRisk' \subseteq AtRisk
  <2> SUFFICES ASSUME NEW e \in AtRisk' PROVE e \in AtRisk
    OBVIOUS
  <2>1. e \in sent \cup {at[w]} /\ e # NoEvent
    BY <1>1 DEF AtRisk
  <2>2. CASE e = at[w]
    <3>1. ~ \E v \in Worker : wpc'[v] = "send" /\ at'[v] = e
      BY <1>1, <2>2, OneAtEvent DEF EventInv, TypeOK
    <3>2. wpc'[w] = "put" /\ at'[w] = e
      BY <1>1, <2>2 DEF TypeOK
    <3>3. e \in again \/ e \in sent
      BY <1>1, <2>2, <3>1, <3>2 DEF AtRisk, Risky
    <3> QED
      BY <1>1, <2>1, <2>2, <3>3 DEF AtRisk, Risky, TypeOK
  <2>3. CASE e # at[w]
    BY <1>1, <2>1, <2>3 DEF AtRisk, Risky, TypeOK
  <2> QED
    BY <2>2, <2>3
<1>5. FewAtRisk'
  BY <1>1, <1>2, <1>4, RiskGrows DEF EventInv
<1> QED
  BY <1>2, <1>3, <1>5 DEF EventInv

\* KV().Put: it marks what was handed over, or fails.
LEMMA EventPutStep ==
    ASSUME TypeOK, WatcherIsKnown, EventInv, NEW w \in Worker, PutMark(w)
    PROVE  EventInv'
<1>1. /\ at[w] \in Event /\ at[w][1] = w[1] /\ wpc[w] = "put"
      /\ at[w] \in sent \cup {inHand}
      /\ UNCHANGED <<restarts, server, inHand, sent, again>>
  BY DEF PutMark, EventInv, AtIsEvent, HandedOver, notWorker, serverVars, envVars
<1>2. /\ \A v \in Worker \ {w} : wpc'[v] = wpc[v] /\ at'[v] = at[v]
      /\ wpc'[w] \in {"event", "task"}
      /\ wpc'[w] = "event" => at'[w] \in Event /\ at'[w][1] = w[1]
  BY <1>1, AdvanceResult DEF PutMark
<1>3. \/ marked' = marked \cup {at[w]} /\ UNCHANGED failures
      \/ UNCHANGED marked /\ failures' = failures + 1
  BY DEF PutMark, CallFails
<1>4. AtIsEvent'
  BY <1>2 DEF EventInv, AtIsEvent
<1>5. HandedOver'
  <2>1. IsFiniteSet(marked')
    BY <1>3, FS_AddElement DEF EventInv, HandedOver
  <2> QED
    BY <1>1, <1>2, <2>1 DEF EventInv, HandedOver
<1>6. MarkedIsSent'
  <2>1. Lost' \subseteq Lost
    BY <1>1, <1>3 DEF Lost
  <2> QED
    BY <1>1, <2>1, NoMoreLost DEF EventInv
<1>7. ASSUME NEW e \in AtRisk', e # at[w] PROVE e \in AtRisk
  <2>1. e \in marked' <=> e \in marked
    BY <1>3, <1>7
  <2>2. (\A v \in Worker : wpc'[v] = "put" => at'[v] # e) =>
           \A v \in Worker : wpc[v] = "put" => at[v] # e
    BY <1>2, <1>7
  <2>3. (\E v \in Worker : wpc'[v] = "send" /\ at'[v] = e) =>
           \E v \in Worker : wpc[v] = "send" /\ at[v] = e
    BY <1>2
  <2> QED
    BY <1>1, <2>1, <2>2, <2>3 DEF AtRisk, Risky
<1>8. ASSUME at[w] \in marked', at[w] \in AtRisk' PROVE at[w] \in AtRisk
  <2>1. ~ \E v \in Worker : wpc'[v] = "send" /\ at'[v] = at[w]
    BY <1>1, <1>2, OneAtEvent DEF EventInv
  <2> QED
    BY <1>1, <1>8, <2>1 DEF AtRisk, Risky
<1>9. FewAtRisk'
  <2>1. CASE at[w] \in marked' /\ UNCHANGED failures
    BY <1>1, <1>5, <1>7, <1>8, <2>1, RiskGrows DEF EventInv
  <2>2. CASE failures' = failures + 1
    BY <1>1, <1>5, <1>7, <2>2, RiskGrows DEF EventInv
  <2> QED
    BY <1>3, <2>1, <2>2
<1> QED
  BY <1>4, <1>5, <1>6, <1>9 DEF EventInv

\* The connection's goroutine writes what it has in its hands.
LEMMA EventWriteStep ==
    ASSUME TypeOK, EventInv, WriteLog PROVE EventInv'
<1>1. /\ inHand \in Event /\ server' = "await"
      /\ sent' = sent \cup {inHand} /\ again' = again \cup (sent \cap {inHand})
      /\ inHand' = NoEvent
      /\ UNCHANGED <<wpc, at, marked, failures, restarts>>
  BY DEF WriteLog, EventInv, HandedOver, envVars, workerVars, loopVars, consulVars
<1>2. AtIsEvent'
  BY <1>1 DEF EventInv, AtIsEvent
<1>3. HandedOver'
  <2>1. IsFiniteSet(sent')
    BY <1>1, FS_AddElement DEF EventInv, HandedOver
  <2> QED
    BY <1>1, <2>1 DEF EventInv, HandedOver
<1>4. MarkedIsSent'
  <2>1. Lost' \subseteq Lost
    BY <1>1 DEF Lost
  <2> QED
    BY <1>1, <2>1, NoMoreLost DEF EventInv
<1>5. AtRisk' \subseteq AtRisk
  BY <1>1, NoEventIsNone DEF AtRisk, Risky
<1>6. FewAtRisk'
  BY <1>1, <1>3, <1>5, RiskGrows DEF EventInv
<1> QED
  BY <1>2, <1>3, <1>4, <1>6 DEF EventInv

\* The events that a worker has handed over and was about to mark: one per
\* allocation at most, since each has one watcher.
LEMMA OnePerAlloc ==
    ASSUME TypeOK, WatcherIsKnown, AtIsEvent
    PROVE  LET X == {e \in Event : \E w \in Worker : wpc[w] = "put" /\ at[w] = e}
           IN  IsFiniteSet(X) /\ Cardinality(X) <= Cardinality(Allocs)
<1> DEFINE X == {e \in Event : \E w \in Worker : wpc[w] = "put" /\ at[w] = e}
           f == [e \in X |-> e[1]]
<1>1. f \in [X -> Allocs]
  BY DEF Event
<1>2. ASSUME NEW d \in X, NEW e \in X, d[1] = e[1] PROVE d = e
  <2>1. PICK v \in Worker : wpc[v] = "put" /\ at[v] = d
    OBVIOUS
  <2>2. PICK w \in Worker : wpc[w] = "put" /\ at[w] = e
    OBVIOUS
  <2>3. v = w
    BY <1>2, <2>1, <2>2, OneWatcher DEF AtIsEvent, Counted
  <2> QED
    BY <2>1, <2>2, <2>3
<1>3. f \in Injection(X, Allocs)
  BY <1>1, <1>2 DEF Injection, IsInjective
<1> HIDE DEF X, f
<1>4. IsFiniteSet(X) /\ Cardinality(X) <= Cardinality(Allocs)
  BY <1>3, FS_Injection, AllocsAssumption
<1> QED
  BY <1>4 DEF X

\* The process ends: the event in the hands of the connection's goroutine is lost, and
\* what the workers were about to mark may be sent again.
LEMMA EventRestartStep ==
    ASSUME TypeOK, WatcherIsKnown, EventInv, Restart PROVE EventInv'
<1> DEFINE X == {e \in Event : \E w \in Worker : wpc[w] = "put" /\ at[w] = e}
<1>1. /\ restarts' = restarts + 1 /\ restarts \in Nat /\ failures \in Nat
      /\ server' = "receive" /\ inHand' = NoEvent
      /\ \A w \in Worker : wpc'[w] = "none"
      /\ UNCHANGED <<marked, failures, sent, again>>
  BY Bounds DEF Restart, TypeOK, consulVars
<1>2. AtIsEvent' /\ HandedOver'
  BY <1>1 DEF EventInv, AtIsEvent, HandedOver
<1>3. MarkedIsSent'
  <2>1. Lost' \subseteq Lost \cup {inHand}
    BY <1>1 DEF Lost
  <2>2. IsFiniteSet(Lost)
    BY FS_Subset DEF EventInv, HandedOver, Lost
  <2>3. /\ IsFiniteSet(Lost \cup {inHand})
        /\ Cardinality(Lost \cup {inHand}) \in {Cardinality(Lost), Cardinality(Lost) + 1}
    BY <2>2, FS_AddElement
  <2>4. IsFiniteSet(Lost') /\ Cardinality(Lost') <= Cardinality(Lost \cup {inHand})
    BY <2>1, <2>3, FS_Subset
  <2>5. Cardinality(Lost) \in Nat /\ Cardinality(Lost') \in Nat
    BY <2>2, <2>4, FS_CardinalityType
  <2> QED
    BY <1>1, <2>3, <2>4, <2>5 DEF EventInv, MarkedIsSent
<1>4. IsFiniteSet(X) /\ Cardinality(X) <= Cardinality(Allocs)
  BY OnePerAlloc DEF EventInv
<1>5. AtRisk' \subseteq AtRisk \cup X
  <2> SUFFICES ASSUME NEW e \in AtRisk', e \notin X PROVE e \in AtRisk
    OBVIOUS
  <2>1. e \in sent /\ e # NoEvent /\ e \in Event
    BY <1>1 DEF AtRisk, TypeOK
  <2>2. e \in again \/ e \notin marked
    BY <1>1, <2>1 DEF AtRisk, Risky
  <2>3. \A w \in Worker : wpc[w] = "put" => at[w] # e
    BY <2>1
  <2> QED
    BY <2>1, <2>2, <2>3 DEF AtRisk, Risky
<1> HIDE DEF X
<1>6. FewAtRisk'
  <2>1. IsFiniteSet(AtRisk) /\ Cardinality(AtRisk) \in Nat
    BY AtRiskFinite DEF EventInv
  <2>2. Cardinality(X) \in Nat /\ Cardinality(Allocs) \in Nat
    BY <1>4, AllocsAssumption, FS_CardinalityType
  <2>3. /\ IsFiniteSet(AtRisk \cup X) /\ Cardinality(AtRisk \cap X) \in Nat
        /\ Cardinality(AtRisk \cup X) =
              Cardinality(AtRisk) + Cardinality(X) - Cardinality(AtRisk \cap X)
    BY <1>4, <2>1, FS_Union, FS_Intersection, FS_CardinalityType
  <2>4. IsFiniteSet(AtRisk') /\ Cardinality(AtRisk') <= Cardinality(AtRisk \cup X)
    BY <1>5, <2>3, FS_Subset
  <2>5. Cardinality(AtRisk') \in Nat
    BY <2>4, FS_CardinalityType
  <2>6. Cardinality(AtRisk) <= failures + restarts * Cardinality(Allocs)
    BY DEF EventInv, FewAtRisk
  <2>7. \A r, c \in Nat : (r + 1) * c = r * c + c /\ r * c \in Nat
    OBVIOUS
  <2>8. (restarts + 1) * Cardinality(Allocs) =
           restarts * Cardinality(Allocs) + Cardinality(Allocs)
        /\ restarts * Cardinality(Allocs) \in Nat
    BY <1>1, <2>2, <2>7
  <2> DEFINE r == restarts * Cardinality(Allocs)
             q == (restarts + 1) * Cardinality(Allocs)
  <2>9. q = r + Cardinality(Allocs) /\ r \in Nat /\ Cardinality(AtRisk) <= failures + r
    BY <2>6, <2>8
  <2> HIDE DEF r, q
  <2>10. Cardinality(AtRisk') <= failures + q
    BY <1>1, <1>4, <2>1, <2>2, <2>3, <2>4, <2>5, <2>9
  <2> QED
    BY <1>1, <2>10 DEF FewAtRisk, q
<1> QED
  BY <1>2, <1>3, <1>6 DEF EventInv

---------------------------------------------------------------------------------
(* The theorems.                                                           *)

\* Every state of NomadAllocations satisfies WatchInv and EventInv: the types; that
\* Sync, the pool and AllocationWorkers agree on who has a worker, and all workers but
\* the known one were told to stop; and that what could be sent again is counted.
THEOREM AllocationsInvariant == Spec => [](WatchInv /\ EventInv)
<1>1. Init => WatchInv /\ EventInv
  <2> SUFFICES ASSUME Init PROVE WatchInv /\ EventInv
    OBVIOUS
  <2>1. TypeOK
    <3>1. NoEvents \in [Tasks -> 0 .. MaxEvents]
      BY Bounds DEF NoEvents
    <3>2. /\ produced \in [Allocs -> [Tasks -> 0 .. MaxEvents]]
          /\ seen \in [Worker -> [Tasks -> 0 .. MaxEvents]]
          /\ snap \in [Worker -> [Tasks -> 0 .. MaxEvents]]
      BY <3>1 DEF Init
    <3>3. /\ places \in [Allocs -> 0 .. MaxPlaces]
          /\ workers \in [Allocs -> 0 .. MaxPlaces]
          /\ created \in [Allocs -> 0 .. MaxPlaces]
      BY Bounds DEF Init
    <3>4. wpc \in [Worker -> WorkerPC] /\ stopped \in [Worker -> BOOLEAN]
      BY DEF Init, WorkerPC
    <3>5. /\ tasks \in [Worker -> SUBSET Tasks]
          /\ rpc \in [Worker -> {"off", "select", "got"}]
          /\ at \in [Worker -> Event \cup {NoEvent}]
      BY DEF Init
    <3>6. failures \in 0 .. MaxFailures /\ restarts \in 0 .. MaxRestarts
      BY Bounds DEF Init
    <3>7. /\ listed \subseteq Allocs /\ fetched \subseteq Allocs
          /\ left \subseteq Allocs /\ pool \subseteq Allocs /\ removing \subseteq Allocs
          /\ marked \subseteq Event /\ sent \subseteq Event /\ again \subseteq sent
      BY DEF Init
    <3>8. /\ crashed \in BOOLEAN /\ sync \in {"tick", "add", "remove"}
          /\ recv \in {"select", "wait"} /\ inHand \in Event \cup {NoEvent}
          /\ server \in {"receive", "write", "await", "closed"}
      BY DEF Init
    <3> QED
      BY <3>2, <3>3, <3>4, <3>5, <3>6, <3>7, <3>8 DEF TypeOK
  <2>2. AddsCounted /\ WorkersPooled /\ OthersStopped /\ WatcherIsKnown
    BY DEF Init, AddsCounted, WorkersPooled, OthersStopped, WatcherIsKnown,
           Counted, Worker
  <2>3. AtIsEvent /\ HandedOver
    BY FS_EmptySet DEF Init, AtIsEvent, HandedOver
  <2>4. AtRisk = {} /\ Lost = {}
    BY DEF Init, AtRisk, Lost
  <2>5. MarkedIsSent
    BY <2>4, FS_EmptySet DEF Init, MarkedIsSent
  <2>6. FewAtRisk
    <3>1. 0 * Cardinality(Allocs) = 0
      BY AllocsAssumption, FS_CardinalityType
    <3> QED
      BY <2>4, <3>1, FS_EmptySet DEF Init, FewAtRisk
  <2> QED
    BY <2>1, <2>2, <2>3, <2>5, <2>6 DEF WatchInv, EventInv
<1>2. WatchInv /\ EventInv /\ [Next]_vars => (WatchInv /\ EventInv)'
  <2> SUFFICES ASSUME WatchInv, EventInv, [Next]_vars PROVE WatchInv' /\ EventInv'
    OBVIOUS
  <2>1. TypeOK /\ WatchParts /\ WatcherIsKnown /\ OthersStopped /\ AddsCounted
        /\ AtIsEvent /\ HandedOver
    BY DEF WatchInv, WatchParts, EventInv
  <2>2. TypeOK' /\ WatchParts' => WatchInv'
    BY DEF WatchInv, WatchParts
  <2>3. CASE EnvStep \/ SyncStep \/ WaitReturns
    <3>1. TypeOK' /\ EventInv'
      BY <2>1, <2>3, TypeSyncStep, EventQuietSteps
    <3>2. WatchParts'
      BY <2>1, <2>3, WatchEnvStep, WatchAddedStep, WatchRemovedStep DEF SyncStep
    <3> QED
      BY <2>2, <3>1, <3>2
  <2>4. ASSUME NEW w \in Worker, WorkerStep(w) \/ ConfigStep(w)
        PROVE  WatchInv' /\ EventInv'
    <3>1. WatchInv'
      BY <2>1, <2>2, <2>4, TypeWorkerStep, WatchWorkerStep
    <3>2. CASE GetMark(w) \/ SendLog(w) \/ PutMark(w)
      BY <2>1, <3>1, <3>2, EventGetStep, EventSendStep, EventPutStep
    <3>3. CASE ~(GetMark(w) \/ SendLog(w) \/ PutMark(w))
      <4>1. \/ StartWorker(w) \/ StartFails(w) \/ EnterWatch(w) \/ WatchTick(w)
            \/ WatchTickFails(w) \/ ReadAlloc(w) \/ WatchStop(w) \/ TasksDone(w)
            \/ \E t \in Tasks : NextTask(w, t)
            \/ SendOnClosed(w) \/ ConfigStep(w)
        BY <2>4, <3>3 DEF WorkerStep
      <4> QED
        BY <2>1, <3>1, <4>1, EventQuietSteps
    <3> QED
      BY <3>2, <3>3, <3>1
  <2>5. CASE ServerStep \/ Restart
    <3>1. WatchInv'
      BY <2>1, <2>2, <2>5, TypeServerStep, WatchServerStep
    <3>2. EventInv'
      BY <2>1, <2>5, EventQuietSteps, EventWriteStep, EventRestartStep DEF ServerStep
    <3> QED
      BY <3>1, <3>2
  <2>6. CASE UNCHANGED vars
    <3> USE <2>6 DEF vars, envVars, syncVars, recvVars, loopVars, configVars,
                     workerVars, consulVars, serverVars
    <3>1. WatchInv'
      BY DEF WatchInv, TypeOK, AddsCounted, WorkersPooled, OthersStopped,
             WatcherIsKnown, Counted
    <3>2. AtIsEvent' /\ UNCHANGED <<server, wpc, at>>
      BY DEF EventInv, AtIsEvent
    <3>3. UNCHANGED <<marked, failures, restarts, inHand, sent, again>>
      OBVIOUS
    <3>4. EventInv'
      BY <3>2, <3>3, QuietStep
    <3> QED
      BY <3>1, <3>4
  <2> QED
    BY <2>3, <2>4, <2>5, <2>6 DEF Next
<1> QED
  BY <1>1, <1>2, PTL DEF Spec

\* In every behaviour each allocation has one goroutine inside watchAllocationEvents at
\* most, the one that AllocationWorkers knows (client.go 166-176): Wait never returns
\* before the former one has ended, unless it will end at its first select.
THEOREM OneWatcherPerAllocation == Spec => []WatcherIsKnown
<1>1. WatchInv /\ EventInv => WatcherIsKnown
  BY DEF WatchInv
<1> QED
  BY <1>1, AllocationsInvariant, PTL

\* In every behaviour a mark in Consul is evidence of a hand-over (worker.go 149-151),
\* but for one event per process that ended.
THEOREM MarksAreEvidence == Spec => []MarkedIsSent
<1>1. WatchInv /\ EventInv => MarkedIsSent
  BY DEF EventInv
<1> QED
  BY <1>1, AllocationsInvariant, PTL

\* In every behaviour the events written to the broker twice are at most as many as the
\* calls to Consul that failed, and one per allocation for each process that ended
\* (worker.go 123-154): the marks never let more through.
THEOREM FewAreSentAgain == Spec => []SentOnce
<1>1. WatchInv /\ EventInv => SentOnce
  <2> SUFFICES ASSUME WatchInv, EventInv PROVE SentOnce
    OBVIOUS
  <2>1. IsFiniteSet(AtRisk) /\ Cardinality(AtRisk) \in Nat
    BY AtRiskFinite DEF EventInv
  <2>2. again \subseteq AtRisk
    BY NoEventIsNone DEF WatchInv, TypeOK, AtRisk, Risky
  <2>3. IsFiniteSet(again) /\ Cardinality(again) <= Cardinality(AtRisk)
    BY <2>1, <2>2, FS_Subset
  <2>4. Cardinality(again) \in Nat
    BY <2>3, FS_CardinalityType
  <2> DEFINE r == restarts * Cardinality(Allocs)
  <2>5. r \in Int /\ failures \in Int
    BY AllocsAssumption, FS_CardinalityType, Bounds DEF WatchInv, TypeOK
  <2>6. Cardinality(AtRisk) <= failures + r
    BY DEF EventInv, FewAtRisk
  <2> HIDE DEF r
  <2>7. Cardinality(again) <= failures + r
    BY <2>1, <2>3, <2>4, <2>5, <2>6
  <2> QED
    BY <2>7 DEF SentOnce, r
<1> QED
  BY <1>1, AllocationsInvariant, PTL
=================================================================================
