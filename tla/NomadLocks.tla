------------------------------ MODULE NomadLocks ------------------------------
(***************************************************************************)
(* Which shipper collects the logs of which Nomad node: the Consul locks   *)
(* of Client.getAllocations in source/nomad/client.go.                     *)
(*                                                                         *)
(* A shipper that is configured with a node takes the node's leader lock   *)
(* and then, if failover is on, looks at every other node and takes the    *)
(* failover lock of those that have no leader.  Each call to Consul is one *)
(* step; between two of them any other shipper may run.                    *)
(*                                                                         *)
(* Consul is external and is modelled from its use: a key is a lock that   *)
(* one live session may hold; Release leaves the key without a session;    *)
(* when a session ends its keys are deleted (Behavior: "delete").          *)
(***************************************************************************)
EXTENDS Integers, FiniteSets

CONSTANTS
    Nodes,         \* the nodes of the cluster (Nodes().List)
    Shippers,      \* the log-shipper processes
    NodeOf,        \* Config["node"] of each shipper
    WithFailover,  \* the shippers with Config["failover"] = "yes"
    MaxStarts,     \* bound: how often a shipper is started
    MaxFailures,   \* bound: Consul calls that fail and whose error is ignored
    Faults,        \* what may go wrong in this instance
    NoNode, Absent, Released

\* "crash":  a shipper stops at any point (every panic of the source is one);
\* "expire": the session of a running shipper ends, its renewals being late.
FaultKinds == {"crash", "expire"}

ASSUME NodesAssumption    == Nodes # {} /\ IsFiniteSet(Nodes) /\ NoNode \notin Nodes
ASSUME NodeOfAssumption   == NodeOf \in [Shippers -> Nodes \cup {NoNode}]
ASSUME FailoverAssumption == WithFailover \subseteq Shippers
ASSUME StartsAssumption   == MaxStarts \in Nat /\ MaxFailures \in Nat
ASSUME FaultsAssumption   == Faults \subseteq FaultKinds

\* A shipper creates a new session each time it starts.
Session == Shippers \X (1 .. MaxStarts)

ASSUME NullAssumption == Absent \notin Session /\ Released \notin Session
                         /\ Absent # Released

VARIABLES
    leader,      \* the leader key of each node: its session, or Absent
    failover,    \* the failover key of each node: its session, Released or Absent
    alive,       \* Consul's live sessions
    failures,    \* how many calls have failed
    starts,      \* how often each shipper was started
    pc,          \* where getAllocations is
    todo,        \* nodes the failover loop has not yet looked at
    cur,         \* the node it looks at
    seenLeader,  \* existingLock
    toSync,      \* nodesToSync
    syncing      \* the nodes whose allocations the shipper collects

consul == <<leader, failover, alive>>
loop   == <<todo, cur, seenLeader, toSync>>
vars   == <<consul, failures, starts, pc, loop, syncing>>

PC == {"down", "idle", "acquire", "clear", "loop", "looked", "release", "delete",
       "take"}

TypeOK ==
    /\ leader \in [Nodes -> Session \cup {Absent}]
    /\ failover \in [Nodes -> Session \cup {Absent, Released}]
    /\ alive \subseteq Session
    /\ failures \in 0 .. MaxFailures
    /\ starts \in [Shippers -> 0 .. MaxStarts]
    /\ pc \in [Shippers -> PC]
    /\ todo \in [Shippers -> SUBSET Nodes]
    /\ cur \in [Shippers -> Nodes \cup {NoNode}]
    /\ seenLeader \in [Shippers -> Session \cup {Absent}]
    /\ toSync \in [Shippers -> SUBSET Nodes]
    /\ syncing \in [Shippers -> SUBSET Nodes]

Init ==
    /\ leader = [n \in Nodes |-> Absent]
    /\ failover = [n \in Nodes |-> Absent]
    /\ alive = {}
    /\ failures = 0
    /\ starts = [p \in Shippers |-> 0]
    /\ pc = [p \in Shippers |-> "down"]
    /\ todo = [p \in Shippers |-> {}]
    /\ cur = [p \in Shippers |-> NoNode]
    /\ seenLeader = [p \in Shippers |-> Absent]
    /\ toSync = [p \in Shippers |-> {}]
    /\ syncing = [p \in Shippers |-> {}]

\* c.sessionID of a shipper that has been started, and whether Consul still
\* knows it.
SessionOf(p) == <<p, starts[p]>>
HasSession(p) == SessionOf(p) \in alive

Goto(p, l) == pc' = [pc EXCEPT ![p] = l]

-------------------------------------------------------------------------------
(* Consul.                                                                 *)

\* A call is answered, or fails with an error that the code ignores.
Answered == UNCHANGED failures
Lost     == failures < MaxFailures /\ failures' = failures + 1

\* May session s of shipper p take a lock whose key is k?
Free(k, s) == s \in alive /\ k \in {Absent, Released, s}

\* A session ends: of a shipper that is gone when its TTL has passed, of a
\* running one when its renewals did not reach Consul in time.
Expire(s) ==
    /\ s \in alive
    /\ \/ pc[s[1]] = "down" \/ starts[s[1]] # s[2]
       \/ "expire" \in Faults
    /\ alive' = alive \ {s}
    /\ leader' = [n \in Nodes |-> IF leader[n] = s THEN Absent ELSE leader[n]]
    /\ failover' = [n \in Nodes |-> IF failover[n] = s THEN Absent ELSE failover[n]]
    /\ UNCHANGED <<failures, starts, pc, loop, syncing>>

-------------------------------------------------------------------------------
(* A shipper's life.                                                       *)

\* The process ends.  Its session stays until its TTL has passed.
Dies(p) ==
    /\ Goto(p, "down")
    /\ todo' = [todo EXCEPT ![p] = {}]
    /\ cur' = [cur EXCEPT ![p] = NoNode]
    /\ seenLeader' = [seenLeader EXCEPT ![p] = Absent]
    /\ toSync' = [toSync EXCEPT ![p] = {}]
    /\ syncing' = [syncing EXCEPT ![p] = {}]
    /\ UNCHANGED <<consul, failures, starts>>

Crash(p) ==
    /\ "crash" \in Faults
    /\ pc[p] # "down"
    /\ Dies(p)

\* ReceiveLogs: createSession, then syncAllocations waits for its ticker.
Start(p) ==
    /\ pc[p] = "down" /\ starts[p] < MaxStarts
    /\ starts' = [starts EXCEPT ![p] = @ + 1]
    /\ alive' = alive \cup {<<p, starts[p] + 1>>}
    /\ Goto(p, "idle")
    /\ UNCHANGED <<leader, failover, failures, loop, syncing>>

-------------------------------------------------------------------------------
(* getAllocations, once per tick.                                          *)

\* Without a node the shipper lists every node's allocations and takes no
\* lock at all.
Tick(p) ==
    /\ pc[p] = "idle"
    /\ IF NodeOf[p] = NoNode
       THEN /\ toSync' = [toSync EXCEPT ![p] = Nodes]
            /\ Goto(p, "loop")
       ELSE /\ toSync' = [toSync EXCEPT ![p] = {NodeOf[p]}]
            /\ Goto(p, "acquire")
    /\ UNCHANGED <<consul, failures, starts, todo, cur, seenLeader, syncing>>

\* The leader lock: while another session has it the loop asks again.
AcquireAnyway(p) ==
    /\ pc[p] = "acquire" /\ HasSession(p)
    /\ leader' = [leader EXCEPT ![NodeOf[p]] = SessionOf(p)]
    /\ Goto(p, "clear")
    /\ UNCHANGED <<failover, alive, failures, starts, loop, syncing>>

AcquireLeader(p) ==
    /\ pc[p] = "acquire" /\ Free(leader[NodeOf[p]], SessionOf(p))
    /\ leader' = [leader EXCEPT ![NodeOf[p]] = SessionOf(p)]
    /\ Goto(p, "clear")
    /\ UNCHANGED <<failover, alive, failures, starts, loop, syncing>>

\* Acquire for a session Consul does not know is an error: panic.
AcquireIgnored(p) == pc[p] = "acquire" /\ ~HasSession(p) /\ UNCHANGED vars
AcquireFails(p) ==
    /\ pc[p] = "acquire" /\ ~HasSession(p)
    /\ Dies(p)

\* The failover key of the shipper's own node is deleted, whoever holds it.
\* Then the failover loop starts over the other nodes, if it is configured.
ClearFailover(p) ==
    /\ pc[p] = "clear"
    /\ \/ Answered /\ failover' = [failover EXCEPT ![NodeOf[p]] = Absent]
       \/ Lost /\ UNCHANGED failover
    /\ todo' = [todo EXCEPT ![p] = IF p \in WithFailover
                                   THEN Nodes \ {NodeOf[p]} ELSE {}]
    /\ Goto(p, "loop")
    /\ UNCHANGED <<leader, alive, starts, cur, seenLeader, toSync, syncing>>

\* The first Get of the loop's body.  A Get that fails returns nil.
GetLeader(p, n) ==
    /\ pc[p] = "loop" /\ n \in todo[p]
    /\ todo' = [todo EXCEPT ![p] = @ \ {n}]
    /\ cur' = [cur EXCEPT ![p] = n]
    /\ \/ Answered /\ seenLeader' = [seenLeader EXCEPT ![p] = leader[n]]
       \/ Lost /\ seenLeader' = [seenLeader EXCEPT ![p] = Absent]
    /\ Goto(p, "looked")
    /\ UNCHANGED <<consul, starts, toSync, syncing>>

\* What the two values read make the shipper do.
TakesOver(p, l, f) == "take"
ForgetsOwn(p, l, f) == IF l = Absent /\ f = Absent THEN "take" ELSE "loop"
Decide(p, l, f) ==
    CASE l \notin {Absent, SessionOf(p)} /\ f = SessionOf(p)           -> "release"
      [] l \notin {Absent, SessionOf(p)} /\ f # SessionOf(p)           -> "loop"
      [] l \in {Absent, SessionOf(p)} /\ f \notin {Absent, SessionOf(p)} -> "loop"
      [] OTHER                                                         -> "take"

\* The second Get.
GetFailover(p) ==
    /\ pc[p] = "looked"
    /\ \/ Answered /\ Goto(p, Decide(p, seenLeader[p], failover[cur[p]]))
       \/ Lost /\ Goto(p, Decide(p, seenLeader[p], Absent))
    /\ UNCHANGED <<consul, starts, loop, syncing>>

\* The leader is back.  Release only works for the holder, and keeps the key.
ReleaseFailover(p) ==
    /\ pc[p] = "release"
    /\ \/ /\ Answered
          /\ failover' = [failover EXCEPT ![cur[p]] =
                             IF @ = SessionOf(p) THEN Released ELSE @]
       \/ Lost /\ UNCHANGED failover
    /\ Goto(p, "delete")
    /\ UNCHANGED <<leader, alive, starts, loop, syncing>>

\* Delete removes the key, whoever holds it.
DeleteFailover(p) ==
    /\ pc[p] = "delete"
    /\ \/ Answered /\ failover' = [failover EXCEPT ![cur[p]] = Absent]
       \/ Lost /\ UNCHANGED failover
    /\ Goto(p, "loop")
    /\ UNCHANGED <<leader, alive, starts, loop, syncing>>

\* Acquire of the failover lock.  A refusal skips the node, as does an error,
\* which may hide that the lock was taken.
TakeWithoutSync(p) ==
    /\ pc[p] = "take"
    /\ failover' = [failover EXCEPT ![cur[p]] =
                       IF Free(@, SessionOf(p)) THEN SessionOf(p) ELSE @]
    /\ Answered
    /\ Goto(p, "loop")
    /\ UNCHANGED <<leader, alive, starts, loop, syncing>>

TakeFailover(p) ==
    /\ pc[p] = "take"
    /\ \/ /\ Free(failover[cur[p]], SessionOf(p))
          /\ failover' = [failover EXCEPT ![cur[p]] = SessionOf(p)]
          /\ \/ Answered /\ toSync' = [toSync EXCEPT ![p] = @ \cup {cur[p]}]
             \/ Lost /\ UNCHANGED toSync
       \/ /\ Lost \/ (Answered /\ ~Free(failover[cur[p]], SessionOf(p)))
          /\ UNCHANGED <<failover, toSync>>
    /\ Goto(p, "loop")
    /\ UNCHANGED <<leader, alive, starts, todo, cur, seenLeader, syncing>>

\* The allocations of nodesToSync are fetched and given to AllocationPool.Sync,
\* which starts and stops their workers.
FetchAllocations(p) ==
    /\ pc[p] = "loop" /\ todo[p] = {}
    /\ syncing' = [syncing EXCEPT ![p] = toSync[p]]
    /\ toSync' = [toSync EXCEPT ![p] = {}]
    /\ cur' = [cur EXCEPT ![p] = NoNode]
    /\ seenLeader' = [seenLeader EXCEPT ![p] = Absent]
    /\ Goto(p, "idle")
    /\ UNCHANGED <<consul, failures, starts, todo>>

-------------------------------------------------------------------------------
Step(p) ==
    \/ Tick(p)
    \/ AcquireLeader(p) \/ AcquireFails(p)
    \/ ClearFailover(p)
    \/ \E n \in Nodes : GetLeader(p, n)
    \/ GetFailover(p)
    \/ ReleaseFailover(p) \/ DeleteFailover(p)
    \/ TakeFailover(p)
    \/ FetchAllocations(p)

Next ==
    \/ \E p \in Shippers : Start(p) \/ Crash(p) \/ Step(p)
    \/ \E s \in Session : Expire(s)

Spec == Init /\ [][Next]_vars

\* A shipper that runs keeps running, and Consul ends a session that is no
\* longer renewed.  Nobody has to start a shipper.
FairSpec ==
    /\ Spec
    /\ \A p \in Shippers : WF_vars(Step(p))
    /\ \A s \in Session :
          WF_vars(Expire(s) /\ (pc[s[1]] = "down" \/ starts[s[1]] # s[2]))

-------------------------------------------------------------------------------
(* Safety.                                                                 *)

Owns(p, n) == NodeOf[p] = n

\* The leader lock excludes (getAllocations, client.go 236-250): two shippers
\* that are configured with the same node and whose sessions are alive never
\* both collect that node, also when one has just taken over from the other or
\* waits, restarted, for its own old lock.
OnePrimary ==
    \A p, q \in Shippers, n \in Nodes :
       /\ Owns(p, n) /\ HasSession(p) /\ n \in syncing[p]
       /\ Owns(q, n) /\ HasSession(q) /\ n \in syncing[q]
       => p = q

\* A failover lock is not held in vain (client.go 300-304): a shipper that has
\* finished its round and holds the failover lock of a node collects that
\* node, so a lock that keeps the others away is one that is served.  A lost
\* answer to Acquire is the exception.
HeldIsServed ==
    failures = 0 =>
       \A p \in Shippers, n \in Nodes :
          pc[p] = "idle" /\ failover[n] = SessionOf(p) => n \in syncing[p]

-------------------------------------------------------------------------------
(* Liveness.                                                               *)

Collected(n) == \E p \in Shippers : n \in syncing[p]

\* Some shipper with failover runs and leads another node: one that still waits
\* for its own leader lock looks at no other node.
StandBy(n) ==
    \E p \in WithFailover :
       /\ NodeOf[p] \notin {n, NoNode} /\ pc[p] # "down"
       /\ leader[NodeOf[p]] = SessionOf(p)

\* Failover happens (client.go 277-306): a node whose leader lock stays free is
\* in the end collected for good by somebody, when some leader of another node
\* with failover keeps running; unless its failover key was left without a session,
\* by a shipper that ended between Release and Delete or whose Delete failed,
\* which every other shipper takes for a lock that is not its own.
FailoverHappens ==
    \A n \in Nodes :
       <>[](leader[n] = Absent /\ StandBy(n))
          => <>[](Collected(n) \/ failover[n] = Released)

\* Failover ends (client.go 281-291): once the leader lock of a node stays
\* held, every shipper that is configured with another node stops collecting
\* it.
FailoverEnds ==
    \A n \in Nodes, p \in Shippers :
       NodeOf[p] \notin {n, NoNode} =>
          (<>[](leader[n] \in alive) => <>[](n \notin syncing[p]))

\* A shipper that lost its session does not collect for ever next to its
\* successor: its next Acquire fails and the process ends (client.go 236-239).
LostSessionEnds ==
    \A p \in Shippers :
       (pc[p] # "down" /\ ~HasSession(p) /\ NodeOf[p] # NoNode) ~> (pc[p] = "down")

-------------------------------------------------------------------------------
(* What the documentation says.                                            *)

\* _docs/nomad_source_activity.puml 38-41: an allocation that is locked is
\* skipped, so no two shippers collect the same one.
OneCollector ==
    \A p, q \in Shippers : p # q => syncing[p] \cap syncing[q] = {}

\* client.go 293: a failover lock that is not ours is left alone.
LeaveOthersAlone ==
    [][\A p \in Shippers : DeleteFailover(p) =>
          failover[cur[p]] \in {Absent, Released, SessionOf(p)}]_vars

\* _docs/nomad_source_activity.puml 13-15: a node that is not locked, and not
\* locked for failover, is locked for failover and its allocations fetched.  A
\* failover key without a session locks nothing.
UnlockedIsTaken ==
    \A n \in Nodes :
       <>[](leader[n] = Absent /\ failover[n] \in {Absent, Released} /\ StandBy(n))
          => []<>Collected(n)
===============================================================================
