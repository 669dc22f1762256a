---------------------------- MODULE NomadLocksProofs ----------------------------
(***************************************************************************)
(* What holds of NomadLocks for every set of nodes and shippers, however   *)
(* often they crash, restart or lose their sessions: the leader lock keeps *)
(* two shippers off one node, and a failover lock that is held is served.  *)
(***************************************************************************)
EXTENDS NomadLocks, TLAPS

\* Consul's keys name live sessions only, and no session of the future: a
\* shipper that starts does not find the locks of its new session taken.
SessionsKnown ==
    /\ \A s \in alive : s[2] <= starts[s[1]]
    /\ \A n \in Nodes : leader[n] \in alive \cup {Absent}
    /\ \A n \in Nodes : failover[n] \in alive \cup {Absent, Released}

\* A process that runs was started; one that is down has no memory, and collects
\* nothing.
LifeCycle ==
    \A p \in Shippers :
       IF pc[p] = "down" THEN syncing[p] = {} /\ todo[p] = {} ELSE starts[p] > 0

\* The places of getAllocations behind the leader lock.
Behind == {"clear", "loop", "looked", "release", "delete", "take"}

\* A shipper with a live session that is past the leader lock of its node, or
\* collects its node since an earlier round, has the lock.
LeaderHeld ==
    \A p \in Shippers :
       /\ NodeOf[p] \in Nodes /\ HasSession(p)
       /\ pc[p] \in Behind \/ NodeOf[p] \in syncing[p]
       => leader[NodeOf[p]] = SessionOf(p)

\* The failover loop is about other nodes than the shipper's own, and about none
\* for a shipper without a node.
LoopIsAboutOthers ==
    \A p \in Shippers :
       /\ todo[p] # {} => NodeOf[p] \in Nodes /\ p \in WithFailover
       /\ NodeOf[p] \notin todo[p]
       /\ pc[p] \in {"idle", "acquire", "clear"} => todo[p] = {}
       /\ pc[p] = "clear" => NodeOf[p] \in Nodes
       /\ pc[p] = "acquire" => NodeOf[p] \in Nodes
       /\ pc[p] \in {"looked", "release", "delete", "take"} =>
             /\ cur[p] \in Nodes \ {NodeOf[p]}
             /\ NodeOf[p] \in Nodes /\ p \in WithFailover

\* Where a shipper that holds the failover lock of a node has that node: among
\* those it collects, those that its loop still comes to, the one it looks at, or
\* those that it is going to collect.
KnowsNode(p, n) ==
    /\ NodeOf[p] \in Nodes \ {n} /\ p \in WithFailover
    /\ pc[p] \in {"idle", "acquire", "clear"} => n \in syncing[p]
    /\ pc[p] = "loop" => n \in todo[p] \cup toSync[p]
    /\ pc[p] \in {"looked", "release", "delete", "take"} =>
          n \in todo[p] \cup toSync[p] \cup {cur[p]}

HolderKnowsNode ==
    \A p \in Shippers, n \in Nodes :
       HasSession(p) /\ failover[n] = SessionOf(p) => KnowsNode(p, n)

LockInv ==
    /\ TypeOK /\ SessionsKnown /\ LifeCycle
    /\ LoopIsAboutOthers
    /\ LeaderHeld
    /\ failures = 0 => HolderKnowsNode

---------------------------------------------------------------------------------

\* What Decide returns: a shipper that goes on in its loop does not hold the
\* failover lock that it has read.
LEMMA DecideResult ==
    ASSUME NEW p, NEW l, NEW f
    PROVE  /\ Decide(p, l, f) \in {"release", "loop", "take"}
           /\ Decide(p, l, f) = "loop" => f # SessionOf(p)
<1>1. CASE l \in {Absent, SessionOf(p)} /\ f \in {Absent, SessionOf(p)}
  BY <1>1 DEF Decide
<1>2. CASE l \in {Absent, SessionOf(p)} /\ f \notin {Absent, SessionOf(p)}
  BY <1>2 DEF Decide
<1>3. CASE l \notin {Absent, SessionOf(p)}
  BY <1>3 DEF Decide
<1> QED
  BY <1>1, <1>2, <1>3

\* Every step of a shipper and of Consul keeps the types.
LEMMA TypeStep ==
    ASSUME TypeOK, LoopIsAboutOthers, [Next]_vars PROVE TypeOK'
<1> USE DEF TypeOK, PC, SessionOf, HasSession, Goto
<1>1. ASSUME NEW p \in Shippers, Start(p) PROVE TypeOK'
  BY <1>1, StartsAssumption DEF Start, consul, loop, Session
<1>2. ASSUME NEW p \in Shippers, Crash(p) PROVE TypeOK'
  BY <1>2 DEF Crash, Dies, consul, loop, Session
<1>3. ASSUME NEW p \in Shippers, Tick(p) PROVE TypeOK'
  <2>1. NodeOf[p] # NoNode => NodeOf[p] \in Nodes
    BY NodeOfAssumption
  <2> QED
    BY <1>3, <2>1 DEF Tick, consul
<1>4. ASSUME NEW p \in Shippers, AcquireLeader(p) PROVE TypeOK'
  BY <1>4 DEF AcquireLeader, Free, consul, loop, Session
<1>5. ASSUME NEW p \in Shippers, AcquireFails(p) PROVE TypeOK'
  BY <1>5 DEF AcquireFails, Dies, consul, loop, Session
<1>6. ASSUME NEW p \in Shippers, ClearFailover(p) PROVE TypeOK'
  BY <1>6, StartsAssumption DEF ClearFailover, Answered, Lost, consul, loop, Session
<1>7. ASSUME NEW p \in Shippers, NEW n \in Nodes, GetLeader(p, n) PROVE TypeOK'
  BY <1>7, StartsAssumption DEF GetLeader, Answered, Lost, consul, loop, Session
<1>8. ASSUME NEW p \in Shippers, GetFailover(p) PROVE TypeOK'
  BY <1>8, StartsAssumption DEF GetFailover, Answered, Lost, Decide, consul,
       loop, Session
<1>9. ASSUME NEW p \in Shippers, ReleaseFailover(p) PROVE TypeOK'
  BY <1>9, StartsAssumption DEF ReleaseFailover, Answered, Lost, consul, loop, Session
<1>10. ASSUME NEW p \in Shippers, DeleteFailover(p) PROVE TypeOK'
  BY <1>10, StartsAssumption DEF DeleteFailover, Answered, Lost, consul, loop, Session
<1>11. ASSUME NEW p \in Shippers, TakeFailover(p) PROVE TypeOK'
  <2>1. failures' \in 0 .. MaxFailures
    BY <1>11, StartsAssumption DEF TakeFailover, Answered, Lost
  <2>2. failover' \in [Nodes -> Session \cup {Absent, Released}]
    BY <1>11 DEF TakeFailover, Free
  <2>3. toSync' \in [Shippers -> SUBSET Nodes]
    <3>1. CASE toSync' = [toSync EXCEPT ![p] = @ \cup {cur[p]}]
      <4>1. cur[p] \in Nodes
        BY <1>11 DEF TakeFailover, LoopIsAboutOthers
      <4> QED
        BY <3>1, <4>1
    <3>2. CASE UNCHANGED toSync
      BY <3>2
    <3> QED
      BY <1>11, <3>1, <3>2 DEF TakeFailover
  <2> QED
    BY <1>11, <2>1, <2>2, <2>3 DEF TakeFailover
<1>12. ASSUME NEW p \in Shippers, FetchAllocations(p) PROVE TypeOK'
  BY <1>12 DEF FetchAllocations, consul, loop, Session
<1>13. ASSUME NEW s \in Session, Expire(s) PROVE TypeOK'
  BY <1>13 DEF Expire, consul, loop, Session
<1>14. CASE UNCHANGED vars
  BY <1>14 DEF vars, consul, loop
<1> QED
  BY <1>1, <1>2, <1>3, <1>4, <1>5, <1>6, <1>7, <1>8, <1>9, <1>10, <1>11, <1>12,
     <1>13, <1>14 DEF Next, Step

\* A key is written with a live session, and loses it when the session ends.
LEMMA SessionsStep ==
    ASSUME TypeOK, SessionsKnown, [Next]_vars PROVE SessionsKnown'
<1> USE DEF TypeOK, SessionsKnown, SessionOf, HasSession, Goto
<1>1. ASSUME NEW p \in Shippers, Start(p) PROVE SessionsKnown'
  BY <1>1 DEF Start, consul, loop, Session
<1>2. ASSUME NEW p \in Shippers, Crash(p) PROVE SessionsKnown'
  BY <1>2 DEF Crash, Dies, consul, loop, Session
<1>3. ASSUME NEW p \in Shippers, Tick(p) PROVE SessionsKnown'
  BY <1>3 DEF Tick, consul, loop, Session
<1>4. ASSUME NEW p \in Shippers, AcquireLeader(p) PROVE SessionsKnown'
  BY <1>4 DEF AcquireLeader, Free, consul, loop, Session
<1>5. ASSUME NEW p \in Shippers, AcquireFails(p) PROVE SessionsKnown'
  BY <1>5 DEF AcquireFails, Dies, consul, loop, Session
<1>6. ASSUME NEW p \in Shippers, ClearFailover(p) PROVE SessionsKnown'
  BY <1>6 DEF ClearFailover, Answered, Lost, consul, loop, Session
<1>7. ASSUME NEW p \in Shippers, NEW n \in Nodes, GetLeader(p, n) PROVE SessionsKnown'
  BY <1>7 DEF GetLeader, Answered, Lost, consul, loop, Session
<1>8. ASSUME NEW p \in Shippers, GetFailover(p) PROVE SessionsKnown'
  BY <1>8 DEF GetFailover, Answered, Lost, Decide, consul, loop, Session
<1>9. ASSUME NEW p \in Shippers, ReleaseFailover(p) PROVE SessionsKnown'
  BY <1>9 DEF ReleaseFailover, Answered, Lost, consul, loop, Session
<1>10. ASSUME NEW p \in Shippers, DeleteFailover(p) PROVE SessionsKnown'
  BY <1>10 DEF DeleteFailover, Answered, Lost, consul, loop, Session
<1>11. ASSUME NEW p \in Shippers, TakeFailover(p) PROVE SessionsKnown'
  BY <1>11 DEF TakeFailover, Answered, Lost, Free, consul, loop, Session
<1>12. ASSUME NEW p \in Shippers, FetchAllocations(p) PROVE SessionsKnown'
  BY <1>12 DEF FetchAllocations, consul, loop, Session
<1>13. ASSUME NEW s \in Session, Expire(s) PROVE SessionsKnown'
  BY <1>13 DEF Expire, consul, loop, Session
<1>14. CASE UNCHANGED vars
  BY <1>14 DEF vars, consul, loop
<1> QED
  BY <1>1, <1>2, <1>3, <1>4, <1>5, <1>6, <1>7, <1>8, <1>9, <1>10, <1>11, <1>12,
     <1>13, <1>14 DEF Next, Step

\* A process that ends loses what it had in memory.
LEMMA LifeCycleStep ==
    ASSUME TypeOK, LifeCycle, [Next]_vars PROVE LifeCycle'
<1> USE DEF TypeOK, LifeCycle, Goto
<1>1. ASSUME NEW p \in Shippers, Start(p) PROVE LifeCycle'
  BY <1>1 DEF Start, consul, loop
<1>2. ASSUME NEW p \in Shippers, Crash(p) PROVE LifeCycle'
  BY <1>2 DEF Crash, Dies, consul, loop
<1>3. ASSUME NEW p \in Shippers, Tick(p) PROVE LifeCycle'
  BY <1>3 DEF Tick, consul, loop
<1>4. ASSUME NEW p \in Shippers, AcquireLeader(p) PROVE LifeCycle'
  BY <1>4 DEF AcquireLeader, Free, consul, loop
<1>5. ASSUME NEW p \in Shippers, AcquireFails(p) PROVE LifeCycle'
  BY <1>5 DEF AcquireFails, Dies, consul, loop
<1>6. ASSUME NEW p \in Shippers, ClearFailover(p) PROVE LifeCycle'
  BY <1>6 DEF ClearFailover, Answered, Lost, consul, loop
<1>7. ASSUME NEW p \in Shippers, NEW n \in Nodes, GetLeader(p, n) PROVE LifeCycle'
  BY <1>7 DEF GetLeader, Answered, Lost, consul, loop
<1>8. ASSUME NEW p \in Shippers, GetFailover(p) PROVE LifeCycle'
  BY <1>8 DEF GetFailover, Answered, Lost, Decide, consul, loop
<1>9. ASSUME NEW p \in Shippers, ReleaseFailover(p) PROVE LifeCycle'
  BY <1>9 DEF ReleaseFailover, Answered, Lost, consul, loop
<1>10. ASSUME NEW p \in Shippers, DeleteFailover(p) PROVE LifeCycle'
  BY <1>10 DEF DeleteFailover, Answered, Lost, consul, loop
<1>11. ASSUME NEW p \in Shippers, TakeFailover(p) PROVE LifeCycle'
  BY <1>11 DEF TakeFailover, Answered, Lost, Free, consul, loop
<1>12. ASSUME NEW p \in Shippers, FetchAllocations(p) PROVE LifeCycle'
  BY <1>12 DEF FetchAllocations, consul, loop
<1>13. ASSUME NEW s \in Session, Expire(s) PROVE LifeCycle'
  BY <1>13 DEF Expire, consul, loop
<1>14. CASE UNCHANGED vars
  BY <1>14 DEF vars, consul, loop
<1> QED
  BY <1>1, <1>2, <1>3, <1>4, <1>5, <1>6, <1>7, <1>8, <1>9, <1>10, <1>11, <1>12,
     <1>13, <1>14 DEF Next, Step

\* Nobody gets behind the leader lock of a node, or takes it away, while a live
\* session holds it.
LEMMA LeaderStep ==
    ASSUME TypeOK, SessionsKnown, LifeCycle, LeaderHeld, [Next]_vars
    PROVE  LeaderHeld'
<1> USE DEF TypeOK, SessionsKnown, LifeCycle, LeaderHeld, Behind,
           SessionOf, HasSession, Goto
<1>1. ASSUME NEW p \in Shippers, Start(p) PROVE LeaderHeld'
  BY <1>1 DEF Start, consul, loop, Session
<1>2. ASSUME NEW p \in Shippers, Crash(p) PROVE LeaderHeld'
  BY <1>2 DEF Crash, Dies, consul, loop, Session
<1>3. ASSUME NEW p \in Shippers, Tick(p) PROVE LeaderHeld'
  BY <1>3, NodesAssumption DEF Tick, consul, loop, Session
<1>4. ASSUME NEW p \in Shippers, AcquireLeader(p) PROVE LeaderHeld'
  BY <1>4, NullAssumption DEF AcquireLeader, Free, consul, loop, Session
<1>5. ASSUME NEW p \in Shippers, AcquireFails(p) PROVE LeaderHeld'
  BY <1>5 DEF AcquireFails, Dies, consul, loop, Session
<1>6. ASSUME NEW p \in Shippers, ClearFailover(p) PROVE LeaderHeld'
  BY <1>6 DEF ClearFailover, Answered, Lost, consul, loop, Session
<1>7. ASSUME NEW p \in Shippers, NEW n \in Nodes, GetLeader(p, n) PROVE LeaderHeld'
  BY <1>7 DEF GetLeader, Answered, Lost, consul, loop, Session
<1>8. ASSUME NEW p \in Shippers, GetFailover(p) PROVE LeaderHeld'
  BY <1>8 DEF GetFailover, Answered, Lost, Decide, consul, loop, Session
<1>9. ASSUME NEW p \in Shippers, ReleaseFailover(p) PROVE LeaderHeld'
  BY <1>9 DEF ReleaseFailover, Answered, Lost, consul, loop, Session
<1>10. ASSUME NEW p \in Shippers, DeleteFailover(p) PROVE LeaderHeld'
  BY <1>10 DEF DeleteFailover, Answered, Lost, consul, loop, Session
<1>11. ASSUME NEW p \in Shippers, TakeFailover(p) PROVE LeaderHeld'
  BY <1>11 DEF TakeFailover, Answered, Lost, Free, consul, loop, Session
<1>12. ASSUME NEW p \in Shippers, FetchAllocations(p) PROVE LeaderHeld'
  BY <1>12 DEF FetchAllocations, consul, loop, Session
<1>13. ASSUME NEW s \in Session, Expire(s) PROVE LeaderHeld'
  BY <1>13 DEF Expire, consul, loop, Session
<1>14. CASE UNCHANGED vars
  BY <1>14 DEF vars, consul, loop
<1> QED
  BY <1>1, <1>2, <1>3, <1>4, <1>5, <1>6, <1>7, <1>8, <1>9, <1>10, <1>11, <1>12,
     <1>13, <1>14 DEF Next, Step

\* The loop runs over the nodes of the list other than the shipper's own.
LEMMA LoopStep ==
    ASSUME TypeOK, LifeCycle, LoopIsAboutOthers, [Next]_vars
    PROVE  LoopIsAboutOthers'
<1> USE DEF TypeOK, LifeCycle, LoopIsAboutOthers, Goto
<1>1. ASSUME NEW p \in Shippers, Start(p) PROVE LoopIsAboutOthers'
  BY <1>1 DEF Start, consul, loop
<1>2. ASSUME NEW p \in Shippers, Crash(p) PROVE LoopIsAboutOthers'
  BY <1>2 DEF Crash, Dies, consul, loop
<1>3. ASSUME NEW p \in Shippers, Tick(p) PROVE LoopIsAboutOthers'
  BY <1>3, NodeOfAssumption, NodesAssumption DEF Tick, consul, loop
<1>4. ASSUME NEW p \in Shippers, AcquireLeader(p) PROVE LoopIsAboutOthers'
  BY <1>4 DEF AcquireLeader, consul, loop
<1>5. ASSUME NEW p \in Shippers, AcquireFails(p) PROVE LoopIsAboutOthers'
  BY <1>5 DEF AcquireFails, Dies, consul, loop
<1>6. ASSUME NEW p \in Shippers, ClearFailover(p) PROVE LoopIsAboutOthers'
  BY <1>6 DEF ClearFailover, consul, loop
<1>7. ASSUME NEW p \in Shippers, NEW n \in Nodes, GetLeader(p, n)
      PROVE LoopIsAboutOthers'
  BY <1>7 DEF GetLeader, consul, loop
<1>8. ASSUME NEW p \in Shippers, GetFailover(p) PROVE LoopIsAboutOthers'
  BY <1>8, DecideResult DEF GetFailover, consul, loop
<1>9. ASSUME NEW p \in Shippers, ReleaseFailover(p) PROVE LoopIsAboutOthers'
  BY <1>9 DEF ReleaseFailover, consul, loop
<1>10. ASSUME NEW p \in Shippers, DeleteFailover(p) PROVE LoopIsAboutOthers'
  BY <1>10 DEF DeleteFailover, consul, loop
<1>11. ASSUME NEW p \in Shippers, TakeFailover(p) PROVE LoopIsAboutOthers'
  BY <1>11 DEF TakeFailover, consul, loop
<1>12. ASSUME NEW p \in Shippers, FetchAllocations(p) PROVE LoopIsAboutOthers'
  BY <1>12 DEF FetchAllocations, consul, loop
<1>13. ASSUME NEW s \in Session, Expire(s) PROVE LoopIsAboutOthers'
  BY <1>13 DEF Expire, loop
<1>14. CASE UNCHANGED vars
  BY <1>14 DEF vars, consul, loop
<1> QED
  BY <1>1, <1>2, <1>3, <1>4, <1>5, <1>6, <1>7, <1>8, <1>9, <1>10, <1>11, <1>12,
     <1>13, <1>14 DEF Next, Step

\* No step lets a shipper forget a failover lock that it holds: the loop comes to
\* every node again, and what it takes it collects.
LEMMA HolderStep ==
    ASSUME TypeOK, SessionsKnown, LoopIsAboutOthers,
           failures = 0 => HolderKnowsNode, [Next]_vars
    PROVE  (failures = 0 => HolderKnowsNode)'
<1> SUFFICES ASSUME failures' = 0, NEW q \in Shippers, NEW m \in Nodes,
                    HasSession(q)', failover'[m] = SessionOf(q)'
             PROVE  KnowsNode(q, m)'
  BY DEF HolderKnowsNode
<1> USE DEF TypeOK, LoopIsAboutOthers, KnowsNode, SessionOf, HasSession, Goto
<1>0. ASSUME failures = 0, HasSession(q), failover[m] = SessionOf(q)
      PROVE KnowsNode(q, m)
  BY <1>0 DEF HolderKnowsNode
<1>1. ASSUME NEW p \in Shippers, Start(p) PROVE KnowsNode(q, m)'
  <2>1. p # q
    <3>1. failover[m] # <<p, starts[p] + 1>>
      <4>1. <<p, starts[p] + 1>> \notin alive
        BY DEF SessionsKnown, Session
      <4>2. <<p, starts[p] + 1>> \in Session
        BY <1>1, StartsAssumption DEF Start, Session
      <4> QED
        BY <4>1, <4>2, NullAssumption DEF SessionsKnown
    <3> QED
      BY <1>1, <3>1 DEF Start
  <2> QED
    BY <1>0, <1>1, <2>1 DEF Start, loop
<1>2. ASSUME NEW p \in Shippers, Crash(p) PROVE KnowsNode(q, m)'
  BY <1>0, <1>2 DEF Crash, Dies, consul
<1>3. ASSUME NEW p \in Shippers, Tick(p) PROVE KnowsNode(q, m)'
  BY <1>0, <1>3 DEF Tick, consul
<1>4. ASSUME NEW p \in Shippers, AcquireLeader(p) PROVE KnowsNode(q, m)'
  BY <1>0, <1>4 DEF AcquireLeader, loop
<1>5. ASSUME NEW p \in Shippers, AcquireFails(p) PROVE KnowsNode(q, m)'
  BY <1>0, <1>5 DEF AcquireFails, Dies, consul
<1>6. ASSUME NEW p \in Shippers, ClearFailover(p) PROVE KnowsNode(q, m)'
  <2>1. failures = 0 /\ failover' = [failover EXCEPT ![NodeOf[p]] = Absent]
    BY <1>6, StartsAssumption DEF ClearFailover, Answered, Lost
  <2>2. HasSession(q) /\ SessionOf(q) # Absent
    BY <1>6, NullAssumption DEF ClearFailover
  <2>3. failover[m] = SessionOf(q) /\ m # NodeOf[p]
    BY <1>6, <2>1, <2>2 DEF ClearFailover
  <2> QED
    BY <1>0, <1>6, <2>1, <2>3 DEF ClearFailover
<1>7. ASSUME NEW p \in Shippers, NEW n \in Nodes, GetLeader(p, n)
      PROVE  KnowsNode(q, m)'
  <2>1. failures = 0
    BY <1>7, StartsAssumption DEF GetLeader, Answered, Lost
  <2> QED
    BY <1>0, <1>7, <2>1 DEF GetLeader, consul
<1>8. ASSUME NEW p \in Shippers, GetFailover(p) PROVE KnowsNode(q, m)'
  <2>1. failures = 0 /\ pc' = [pc EXCEPT ![p] =
                                  Decide(p, seenLeader[p], failover[cur[p]])]
    BY <1>8, StartsAssumption DEF GetFailover, Answered, Lost
  <2>2. KnowsNode(q, m) /\ failover[m] = SessionOf(q)
    BY <1>0, <1>8, <2>1 DEF GetFailover, consul
  <2>3. CASE p = q
    <3> DEFINE d == Decide(p, seenLeader[p], failover[cur[p]])
    <3>1. d \in {"release", "loop", "take"} /\ (d = "loop" => m # cur[p])
      BY <2>2, <2>3, DecideResult
    <3>2. pc'[p] = d
      BY <2>1
    <3> HIDE DEF d
    <3> QED
      BY <1>8, <2>2, <2>3, <3>1, <3>2 DEF GetFailover, loop
  <2>4. CASE p # q
    BY <1>8, <2>1, <2>2, <2>4 DEF GetFailover, loop
  <2> QED
    BY <2>3, <2>4
<1>9. ASSUME NEW p \in Shippers, ReleaseFailover(p) PROVE KnowsNode(q, m)'
  <2>1. failures = 0
    BY <1>9, StartsAssumption DEF ReleaseFailover, Answered, Lost
  <2>2. HasSession(q) /\ SessionOf(q) # Released
    BY <1>9, NullAssumption DEF ReleaseFailover
  <2>3. failover[m] = SessionOf(q)
    BY <1>9, <2>2 DEF ReleaseFailover
  <2> QED
    BY <1>0, <1>9, <2>1, <2>2, <2>3 DEF ReleaseFailover, loop
<1>10. ASSUME NEW p \in Shippers, DeleteFailover(p) PROVE KnowsNode(q, m)'
  <2>1. failures = 0 /\ failover' = [failover EXCEPT ![cur[p]] = Absent]
    BY <1>10, StartsAssumption DEF DeleteFailover, Answered, Lost
  <2>2. HasSession(q) /\ SessionOf(q) # Absent
    BY <1>10, NullAssumption DEF DeleteFailover
  <2>3. failover[m] = SessionOf(q) /\ m # cur[p]
    BY <1>10, <2>1, <2>2 DEF DeleteFailover
  <2> QED
    BY <1>0, <1>10, <2>1, <2>2, <2>3 DEF DeleteFailover, loop
<1>11. ASSUME NEW p \in Shippers, TakeFailover(p) PROVE KnowsNode(q, m)'
  <2>1. failures = 0 /\ HasSession(q) /\ UNCHANGED starts
    BY <1>11, StartsAssumption DEF TakeFailover, Answered, Lost
  <2>2. CASE /\ failover' = [failover EXCEPT ![cur[p]] = SessionOf(p)]
             /\ toSync' = [toSync EXCEPT ![p] = @ \cup {cur[p]}]
    <3>1. CASE m = cur[p]
      BY <1>11, <2>1, <2>2, <3>1 DEF TakeFailover
    <3>2. CASE m # cur[p]
      <4>1. failover[m] = SessionOf(q)
        BY <2>1, <2>2, <3>2
      <4> QED
        BY <1>0, <1>11, <2>1, <2>2, <3>2, <4>1 DEF TakeFailover
    <3> QED
      BY <3>1, <3>2
  <2>3. CASE /\ ~Free(failover[cur[p]], SessionOf(p))
             /\ UNCHANGED <<failover, toSync>>
    <3>1. failover[m] = SessionOf(q) /\ (p = q => m # cur[p])
      BY <2>1, <2>3 DEF Free
    <3> QED
      BY <1>0, <1>11, <2>1, <2>3, <3>1 DEF TakeFailover
  <2> QED
    BY <1>11, <2>2, <2>3, StartsAssumption DEF TakeFailover, Answered, Lost
<1>12. ASSUME NEW p \in Shippers, FetchAllocations(p) PROVE KnowsNode(q, m)'
  BY <1>0, <1>12 DEF FetchAllocations, consul
<1>13. ASSUME NEW s \in Session, Expire(s) PROVE KnowsNode(q, m)'
  <2>1. HasSession(q) /\ SessionOf(q) # Absent
    BY <1>13, NullAssumption DEF Expire
  <2>2. failover[m] = SessionOf(q)
    BY <1>13, <2>1 DEF Expire
  <2> QED
    BY <1>0, <1>13, <2>1, <2>2 DEF Expire, loop
<1>14. CASE UNCHANGED vars
  BY <1>0, <1>14 DEF vars, consul, loop
<1> QED
  BY <1>1, <1>2, <1>3, <1>4, <1>5, <1>6, <1>7, <1>8, <1>9, <1>10, <1>11, <1>12,
     <1>13, <1>14 DEF Next, Step

---------------------------------------------------------------------------------
(* The theorems.                                                           *)

\* What every reachable state satisfies: the types, whose session a key of Consul
\* can name, and where getAllocations is with the locks it has.
THEOREM LockInvariant == Spec => []LockInv
<1>1. Init => LockInv
  BY StartsAssumption, NullAssumption
  DEF Init, LockInv, TypeOK, PC, SessionsKnown, LifeCycle, LoopIsAboutOthers,
      LeaderHeld, HolderKnowsNode, HasSession
<1>2. LockInv /\ [Next]_vars => LockInv'
  BY TypeStep, SessionsStep, LifeCycleStep, LoopStep, LeaderStep, HolderStep
  DEF LockInv
<1> QED
  BY <1>1, <1>2, PTL DEF Spec

\* The types of NomadLocks: what a node, a key of Consul and a shipper's variables
\* can hold.
THEOREM TypesHold == Spec => []TypeOK
<1>1. LockInv => TypeOK
  BY DEF LockInv
<1> QED
  BY <1>1, LockInvariant, PTL

\* The leader lock excludes: two shippers of the same node with live sessions never
\* both collect it, since both would hold its one leader lock.
THEOREM LeaderExcludes == Spec => []OnePrimary
<1>1. LockInv => OnePrimary
  BY DEF LockInv, LeaderHeld, OnePrimary, Owns, SessionOf
<1> QED
  BY <1>1, LockInvariant, PTL

\* A failover lock is not held in vain: a shipper that has finished its round
\* collects every node whose failover lock it holds, as long as no answer of
\* Consul was lost.
THEOREM FailoverLockServes == Spec => []HeldIsServed
<1>1. LockInv => HeldIsServed
  <2> SUFFICES ASSUME LockInv, failures = 0, NEW p \in Shippers, NEW n \in Nodes,
                      pc[p] = "idle", failover[n] = SessionOf(p)
               PROVE  n \in syncing[p]
    BY DEF HeldIsServed
  <2>1. SessionOf(p) \in Session
    BY DEF LockInv, TypeOK, LifeCycle, SessionOf, Session
  <2>2. HasSession(p)
    BY <2>1, NullAssumption DEF LockInv, SessionsKnown, HasSession
  <2> QED
    BY <2>2 DEF LockInv, HolderKnowsNode, KnowsNode
<1> QED
  BY <1>1, LockInvariant, PTL
=================================================================================
