----------------------------- MODULE BrokerProofs -----------------------------
(***************************************************************************)
(* The safety properties of Broker and of Monitoring, proved for every     *)
(* finite set of sources, targets and workers, every route and every list  *)
(* of rate limit rules.  First the broker; then what its counters say:     *)
(* they do not change what it does, they add up, they tell how the copies  *)
(* ended, and a response of the API accounts for them.                     *)
(***************************************************************************)
EXTENDS Monitoring, FiniteSetTheorems, WellFoundedInduction, TLAPS

-------------------------------------------------------------------------------
(* Copies.                                                                 *)

\* What a member of Copy looks like, in terms of its three parts.
LEMMA CopyParts ==
    ASSUME NEW c \in Copy
    PROVE  /\ c = <<c[1], c[2], c[3]>>
           /\ c[1] \in Sources
           /\ c[2] \in 1 .. MaxLines
           /\ c[3] \in 1 .. Len(Route[c[1]])
<1>1. PICK l \in Line : c \in CopiesOf(l[1], l[2])
  BY DEF Copy
<1>2. PICK i \in DOMAIN Route[l[1]] : c = <<l[1], l[2], i>>
  BY <1>1 DEF CopiesOf
<1>3. l[1] \in Sources /\ l[2] \in 1 .. MaxLines
  BY DEF Line
<1>4. DOMAIN Route[l[1]] = 1 .. Len(Route[l[1]])
  BY <1>3, RouteAssumption
<1> QED
  BY <1>2, <1>3, <1>4

\* Conversely, the copies of a line are those of its source's route.
LEMMA CopyOfLine ==
    ASSUME NEW s \in Sources, NEW k \in 1 .. MaxLines
    PROVE  /\ \A i \in 1 .. Len(Route[s]) : <<s, k, i>> \in CopiesOf(s, k)
           /\ CopiesOf(s, k) \subseteq Copy
           /\ \A c \in Copy : c \in CopiesOf(s, k) <=> c[1] = s /\ c[2] = k
<1>1. DOMAIN Route[s] = 1 .. Len(Route[s]) /\ Len(Route[s]) \in Nat
  BY RouteAssumption
<1>2. <<s, k>> \in Line /\ <<s, k>>[1] = s /\ <<s, k>>[2] = k
  BY DEF Line
<1>3. CopiesOf(s, k) \subseteq Copy
  BY <1>2 DEF Copy
<1>4. ASSUME NEW c \in Copy
      PROVE  c \in CopiesOf(s, k) <=> c[1] = s /\ c[2] = k
  BY <1>1, CopyParts DEF CopiesOf
<1> QED
  BY <1>1, <1>3, <1>4 DEF CopiesOf

\* A line has as many copies as its source has targets.
LEMMA CopiesOfCardinality ==
    ASSUME NEW s \in Sources, NEW k \in 1 .. MaxLines
    PROVE  /\ IsFiniteSet(CopiesOf(s, k))
           /\ Cardinality(CopiesOf(s, k)) = Len(Route[s])
<1> DEFINE n == Len(Route[s])
           f == [i \in 1 .. n |-> <<s, k, i>>]
<1>1. n \in Nat /\ DOMAIN Route[s] = 1 .. n
  BY RouteAssumption
<1>2. f \in Bijection(1 .. n, CopiesOf(s, k))
  BY <1>1 DEF Bijection, Injection, Surjection, IsInjective, CopiesOf
<1>3. ExistsBijection(1 .. n, CopiesOf(s, k))
  BY <1>2 DEF ExistsBijection
<1>4. IsFiniteSet(1 .. n)
  BY <1>1, FS_Interval
<1> QED
  BY <1>1, <1>3, <1>4, FS_CountingElements, FS_Bijection

\* There are finitely many copies, so those that are owed can be counted.
LEMMA CopyFinite == IsFiniteSet(Copy)
<1>1. IsFiniteSet(Line)
  <2>1. IsFiniteSet(1 .. MaxLines)
    BY MaxLinesAssumption, FS_Interval
  <2>2. IsFiniteSet(Sources)
    BY SourcesAssumption
  <2> QED
    BY <2>1, <2>2, FS_Product DEF Line
<1> DEFINE f == [l \in Line |-> CopiesOf(l[1], l[2])]
           S == {CopiesOf(l[1], l[2]) : l \in Line}
<1>2. f \in Surjection(Line, S)
  BY DEF Surjection
<1>3. IsFiniteSet(S)
  <2> HIDE DEF f, S
  <2> QED BY <1>1, <1>2, FS_Surjection
<1>4. \A T \in S : IsFiniteSet(T)
  BY CopiesOfCardinality DEF Line
<1>5. Copy = UNION S
  BY DEF Copy
<1> HIDE DEF S
<1> QED
  BY <1>3, <1>4, <1>5, FS_UNION

-------------------------------------------------------------------------------
(* Type correctness.  TypeOK is not inductive: that a line fits MaxLines,  *)
(* that a copy is one, and that the gauge does not fall below zero rest on *)
(* what HandsFull says of the processes.                                   *)

TypeInv == TypeOK /\ HandsFull

\* A route has a length.
LEMMA LenType == \A s \in Sources : Len(Route[s]) \in Nat
  BY RouteAssumption

\* The target of a rule is a name.
LEMMA RuleType ==
    \A t \in Targets : \A i \in DOMAIN Rules[t] : Rules[t][i].target \in STRING
<1> DEFINE Rule == [action : {"discard", "fallback", "none"}, target : STRING]
<1>1. ASSUME NEW t \in Targets, NEW i \in DOMAIN Rules[t]
      PROVE  Rules[t][i] \in Rule
  <2>1. Rules[t] \in Seq(Rule)
    BY RulesAssumption
  <2> HIDE DEF Rule
  <2> QED BY <2>1
<1> QED
  BY <1>1

\* The copy a worker is about to send is a copy.
LEMMA WorkerCopyType ==
    ASSUME TypeInv, NEW w \in Workers, HasNext(w)
    PROVE  WorkerCopy(w) \in Copy
<1>1. wLine[w] \in Line /\ wNext[w] \in 1 .. Len(Route[wLine[w][1]])
  BY LenType DEF TypeInv, TypeOK, HandsFull, HasNext, WorkerRoute, Line
<1>2. wLine[w][1] \in Sources /\ wLine[w][2] \in 1 .. MaxLines
  BY <1>1 DEF Line
<1> QED
  BY <1>1, <1>2, CopyOfLine DEF WorkerCopy

\* Every step preserves the types and what the processes have in their hands.
LEMMA TypeStep == TypeInv /\ [Next]_vars => TypeInv'
<1> SUFFICES ASSUME TypeInv, [Next]_vars PROVE TypeInv'
  OBVIOUS
<1> USE DEF TypeInv, TypeOK, HandsFull, MainPC, SourcePC, ReaderPC, WorkerPC,
            TargetPC, Holding, Exited, Outcome, Settled, mainVars, sourceVars,
            workerVars, targetVars
<1>1. ASSUME NEW s \in Sources, NEW f \in {"log", "garbled", "other"},
   ReadFrame(s, f)
      PROVE  TypeInv'
  BY <1>1, MaxLinesAssumption DEF ReadFrame
<1>2. ASSUME NEW s \in Sources, ReadError(s)
      PROVE  TypeInv'
  BY <1>2 DEF ReadError
<1>3. ASSUME NEW s \in Sources, ReadEOF(s)
      PROVE  TypeInv'
  BY <1>3 DEF ReadEOF
<1>4. ASSUME NEW s \in Sources, SourceConnect(s)
      PROVE  TypeInv'
  BY <1>4 DEF SourceConnect
<1>5. ASSUME NEW s \in Sources, SourceConnectFails(s)
      PROVE  TypeInv'
  BY <1>5 DEF SourceConnectFails
<1>6. ASSUME NEW s \in Sources, ReceiveLine(s)
      PROVE  TypeInv'
  <2>1. accepted' \in [Sources -> 0 .. MaxLines] /\ inFlight' \in Int
    BY <1>6, LenType, MaxLinesAssumption DEF ReceiveLine, AddMessage
  <2>2. outcome' \in [Copy -> Outcome]
    BY <1>6 DEF ReceiveLine
  <2>3. HandsFull'
    BY <1>6, <2>1, MaxLinesAssumption DEF ReceiveLine
  <2> QED
    BY <1>6, <2>1, <2>2, <2>3 DEF ReceiveLine
<1>7. ASSUME NEW s \in Sources, ReceiveOther(s)
      PROVE  TypeInv'
  BY <1>7 DEF ReceiveOther
<1>8. ASSUME NEW s \in Sources, ReceiveFailure(s)
      PROVE  TypeInv'
  BY <1>8 DEF ReceiveFailure
<1>9. ASSUME NEW s \in Sources, StopSource(s)
      PROVE  TypeInv'
  BY <1>9 DEF StopSource
<1>10. ASSUME NEW s \in Sources, NEW w \in Workers, Dispatch(s, w)
      PROVE  TypeInv'
  BY <1>10 DEF Dispatch, Line
<1>11. ASSUME NEW w \in Workers, NEW t \in Targets, SendToTarget(w, t)
      PROVE  TypeInv'
  BY <1>11, WorkerCopyType DEF SendToTarget
<1>12. ASSUME NEW w \in Workers, SendToUnknown(w)
      PROVE  TypeInv'
  BY <1>12, WorkerCopyType DEF SendToUnknown, HasNext, WorkerCopy, WorkerRoute
<1>13. ASSUME NEW w \in Workers, FinishLine(w)
      PROVE  TypeInv'
  BY <1>13 DEF FinishLine
<1>14. ASSUME NEW w \in Workers, StopWorker(w)
      PROVE  TypeInv'
  BY <1>14 DEF StopWorker
<1>15. ASSUME NEW t \in Targets, TargetConnect(t)
      PROVE  TypeInv'
  BY <1>15 DEF TargetConnect
<1>16. ASSUME NEW t \in Targets, TargetConnectFails(t)
      PROVE  TypeInv'
  BY <1>16, MonitorAssumption DEF TargetConnectFails
<1>17. ASSUME NEW t \in Targets, RateLimitPass(t)
      PROVE  TypeInv'
  BY <1>17 DEF RateLimitPass
<1>18. ASSUME NEW t \in Targets, RateLimitDiscard(t)
      PROVE  TypeInv'
  BY <1>18 DEF RateLimitDiscard, CompleteMessage, SettleAs
<1>19. ASSUME NEW t \in Targets, RateLimitFallback(t)
      PROVE  TypeInv'
  BY <1>19, RuleType DEF RateLimitFallback
<1>20. ASSUME NEW t \in Targets, FallbackToUnknown(t)
      PROVE  TypeInv'
  BY <1>20 DEF FallbackToUnknown, SettleAs
<1>21. ASSUME NEW t \in Targets, WriteLine(t)
      PROVE  TypeInv'
  BY <1>21 DEF WriteLine
<1>22. ASSUME NEW t \in Targets, WriteFails(t)
      PROVE  TypeInv'
  BY <1>22 DEF WriteFails, SettleAs
<1>23. ASSUME NEW t \in Targets, AwaitOk(t)
      PROVE  TypeInv'
  BY <1>23 DEF AwaitOk, CompleteMessage, SettleAs
<1>24. ASSUME NEW t \in Targets, AwaitRefused(t)
      PROVE  TypeInv'
  BY <1>24, MonitorAssumption DEF AwaitRefused, CompleteMessage, SettleAs
<1>25. ASSUME NEW t \in Targets, StopTarget(t)
      PROVE  TypeInv'
  BY <1>25 DEF StopTarget
<1>26. ASSUME NEW t \in Targets, NEW u \in Targets, SendToFallback(t, u)
      PROVE  TypeInv'
  BY <1>26 DEF SendToFallback
<1>27. CASE StopWorkers
  BY <1>27 DEF StopWorkers
<1>28. CASE WorkersDone
  BY <1>28 DEF WorkersDone
<1>29. CASE StopTargets
  BY <1>29 DEF StopTargets
<1>30. CASE TargetsDone
  BY <1>30 DEF TargetsDone
<1>31. CASE Stop
  BY <1>31 DEF Stop
<1>32. CASE UNCHANGED vars
  BY <1>32 DEF vars
<1> QED
  BY <1>1, <1>2, <1>3, <1>4, <1>5, <1>6, <1>7, <1>8, <1>9, <1>10, <1>11, <1>12,
     <1>13, <1>14, <1>15, <1>16, <1>17, <1>18, <1>19, <1>20, <1>21, <1>22, <1>23,
     <1>24, <1>25, <1>26, <1>27, <1>28, <1>29, <1>30, <1>31, <1>32
     DEF Next, ReaderStep, SourceStep, WorkerStep, TargetStep, MainStep

\* The types hold when Broker.Start has started its goroutines.
LEMMA TypeInit == Init => TypeInv
<1> SUFFICES ASSUME Init PROVE TypeInv
  OBVIOUS
<1>1. TypeOK
  <2>1. /\ sourceStop \in BOOLEAN /\ workerStop \in BOOLEAN
        /\ targetStop \in BOOLEAN /\ crashed \in BOOLEAN
    BY Zenon DEF Init
  <2>2. /\ main \in MainPC
        /\ src \in [Sources -> SourcePC]
        /\ reader \in [Sources -> ReaderPC]
        /\ worker \in [Workers -> WorkerPC]
        /\ target \in [Targets -> TargetPC]
        /\ outcome \in [Copy -> Outcome]
    BY DEF Init, MainPC, SourcePC, ReaderPC, WorkerPC, TargetPC, Outcome
  <2>3. /\ accepted \in [Sources -> 0 .. MaxLines]
        /\ wLine \in [Workers -> Line \cup {NoLine}]
        /\ wNext \in [Workers -> Nat \ {0}]
        /\ tCopy \in [Targets -> Copy \cup {NoCopy}]
        /\ tDest \in [Targets -> STRING \cup {NoName}]
        /\ inFlight \in Int
        /\ gauge \in [Targets -> Nat]
    BY MaxLinesAssumption DEF Init
  <2> QED
    BY <2>1, <2>2, <2>3 DEF TypeOK
<1>2. HandsFull
  BY DEF Init, HandsFull, Holding
<1> QED
  BY <1>1, <1>2 DEF TypeInv

\* Every variable has its type: in particular every copy a target connector
\* works on is one, no source is acknowledged more lines than it sent, and
\* RemoveInFlightMessage never takes a gauge below zero (which would wrap
\* round, MessagesInFlight being unsigned).
THEOREM TypeCorrect == Spec => []TypeOK
<1>1. TypeInv => TypeOK
  BY DEF TypeInv
<1> QED
  BY <1>1, TypeInit, TypeStep, PTL DEF Spec

-------------------------------------------------------------------------------
(* What a step does to the holders of the copies.  Each action of Broker   *)
(* has one of seven effects.                                               *)

SameAtSource == \A c \in Copy : AtSource(c)' <=> AtSource(c)
SameAtWorker == \A c \in Copy, w \in Workers : AtWorker(c, w)' <=> AtWorker(c, w)
SameAtTarget == \A c \in Copy, t \in Targets : AtTarget(c, t)' <=> AtTarget(c, t)

\* No copy changes hands.
Quiet ==
    /\ UNCHANGED <<accepted, outcome, inFlight>>
    /\ SameAtSource /\ SameAtWorker /\ SameAtTarget

\* The copies of a new line come into the hands of source connector s.
Accepts(s) ==
    LET k == accepted[s] + 1 IN
    /\ k \in 1 .. MaxLines
    /\ accepted' = [accepted EXCEPT ![s] = k]
    /\ inFlight' = inFlight + Len(Route[s])
    /\ outcome' = [c \in Copy |-> IF c \in CopiesOf(s, k) THEN "pending"
                                                         ELSE outcome[c]]
    /\ \A c \in Copy : AtSource(c)' <=> AtSource(c) \/ c \in CopiesOf(s, k)
    /\ SameAtWorker /\ SameAtTarget
    /\ src[s] \notin Exited

\* All that source connector s has goes to worker w, who had nothing.
Dispatches(s, w) ==
    /\ UNCHANGED <<accepted, outcome, inFlight>>
    /\ \A c \in Copy : ~AtWorker(c, w)
    /\ \A c \in Copy : AtSource(c)' <=> AtSource(c) /\ c[1] # s
    /\ \A c \in Copy, v \in Workers :
          AtWorker(c, v)' <=> AtWorker(c, v) \/ (v = w /\ AtSource(c) /\ c[1] = s)
    /\ SameAtTarget

\* Worker w lets go of d, the first copy it has.
WorkerDrops(w, d) ==
    /\ d \in Copy /\ AtWorker(d, w)
    /\ \A c \in Copy, v \in Workers :
          AtWorker(c, v)' <=> AtWorker(c, v) /\ ~(v = w /\ c = d)
    /\ SameAtSource
    /\ UNCHANGED accepted

\* Target connector t has nothing.
Idle(t) == \A c \in Copy : ~AtTarget(c, t)

\* The target that a copy is sent to first.
Home(c) == Route[c[1]][c[3]]

\* Worker w sends copy d to target connector t.
Sends(w, t, d) ==
    /\ WorkerDrops(w, d) /\ Idle(t) /\ Home(d) = t
    /\ UNCHANGED <<outcome, inFlight>>
    /\ \A c \in Copy, u \in Targets :
          AtTarget(c, u)' <=> AtTarget(c, u) \/ (u = t /\ c = d)

\* Worker w drops d, which has no target, for good.
Strands(w, d) ==
    /\ WorkerDrops(w, d) /\ Home(d) \notin Targets
    /\ SameAtTarget
    /\ outcome' = [outcome EXCEPT ![d] = "stranded"]
    /\ UNCHANGED inFlight

\* Target connector t hands its copy d to target connector u.
FallsBack(t, u, d) ==
    /\ d \in Copy /\ AtTarget(d, t) /\ Idle(u) /\ target[t] = "fallback"
    /\ \A c \in Copy, v \in Targets :
          AtTarget(c, v)' <=> \/ AtTarget(c, v) /\ ~(v = t /\ c = d)
                              \/ v = u /\ c = d
    /\ SameAtSource /\ SameAtWorker
    /\ UNCHANGED <<accepted, outcome, inFlight>>

\* Target connector t is done with its copy d, whose outcome is o.
Finishes(t, d, o) ==
    /\ d \in Copy /\ AtTarget(d, t)
    /\ \A c \in Copy, v \in Targets :
          AtTarget(c, v)' <=> AtTarget(c, v) /\ ~(v = t /\ c = d)
    /\ SameAtSource /\ SameAtWorker
    /\ outcome' = [outcome EXCEPT ![d] = o]
    /\ \/ o = "stranded" /\ inFlight' = inFlight
       \/ o \in Settled /\ inFlight' = inFlight - 1
    /\ UNCHANGED accepted

Effect ==
    \/ Quiet
    \/ \E s \in Sources : Accepts(s)
    \/ \E s \in Sources, w \in Workers : Dispatches(s, w)
    \/ \E w \in Workers, t \in Targets, d \in Copy : Sends(w, t, d)
    \/ \E w \in Workers, d \in Copy : Strands(w, d)
    \/ \E t \in Targets, u \in Targets, d \in Copy : FallsBack(t, u, d)
    \/ \E t \in Targets, d \in Copy, o \in Outcome : Finishes(t, d, o)

\* Every step of the broker has one of the effects above.
LEMMA EffectStep == TypeInv /\ [Next]_vars => Effect
<1> SUFFICES ASSUME TypeInv, [Next]_vars PROVE Effect
  OBVIOUS
<1> USE DEF TypeInv, TypeOK, HandsFull, Exited, Holding, mainVars, sourceVars,
            workerVars, targetVars, SameAtSource, SameAtWorker, SameAtTarget,
            AtSource, AtWorker, AtTarget
<1>1. ASSUME NEW s \in Sources, NEW f, ReadFrame(s, f)
      PROVE  Quiet
  BY <1>1, CopyParts DEF ReadFrame, Quiet
<1>2. ASSUME NEW s \in Sources, ReadError(s)
      PROVE  Quiet
  BY <1>2, CopyParts DEF ReadError, Quiet
<1>3. ASSUME NEW s \in Sources, ReadEOF(s)
      PROVE  Quiet
  BY <1>3, CopyParts DEF ReadEOF, Quiet
<1>4. ASSUME NEW s \in Sources, SourceConnect(s)
      PROVE  Quiet
  BY <1>4, CopyParts DEF SourceConnect, Quiet
<1>5. ASSUME NEW s \in Sources, SourceConnectFails(s)
      PROVE  Quiet
  BY <1>5, CopyParts DEF SourceConnectFails, Quiet
<1>6. ASSUME NEW s \in Sources, ReceiveOther(s)
      PROVE  Quiet
  BY <1>6, CopyParts DEF ReceiveOther, Quiet
<1>7. ASSUME NEW s \in Sources, ReceiveFailure(s)
      PROVE  Quiet
  BY <1>7, CopyParts DEF ReceiveFailure, Quiet
<1>8. ASSUME NEW s \in Sources, StopSource(s)
      PROVE  Quiet
  BY <1>8, CopyParts DEF StopSource, Quiet
<1>9. ASSUME NEW w \in Workers, FinishLine(w)
      PROVE  Quiet
  BY <1>9, CopyParts, LenType DEF FinishLine, WorkerRoute, Quiet
<1>10. ASSUME NEW w \in Workers, StopWorker(w)
      PROVE  Quiet
  BY <1>10, CopyParts DEF StopWorker, Quiet
<1>11. ASSUME NEW t \in Targets, TargetConnect(t)
      PROVE  Quiet
  BY <1>11, CopyParts DEF TargetConnect, Quiet
<1>12. ASSUME NEW t \in Targets, TargetConnectFails(t)
      PROVE  Quiet
  BY <1>12, CopyParts DEF TargetConnectFails, Quiet
<1>13. ASSUME NEW t \in Targets, RateLimitPass(t)
      PROVE  Quiet
  BY <1>13, CopyParts DEF RateLimitPass, Quiet
<1>14. ASSUME NEW t \in Targets, RateLimitFallback(t)
      PROVE  Quiet
  BY <1>14, CopyParts DEF RateLimitFallback, Quiet
<1>15. ASSUME NEW t \in Targets, WriteLine(t)
      PROVE  Quiet
  BY <1>15, CopyParts DEF WriteLine, Quiet
<1>16. ASSUME NEW t \in Targets, StopTarget(t)
      PROVE  Quiet
  BY <1>16, CopyParts DEF StopTarget, Quiet
<1>17. ASSUME StopWorkers PROVE Quiet
  BY <1>17, CopyParts DEF StopWorkers, Quiet
<1>18. ASSUME WorkersDone PROVE Quiet
  BY <1>18, CopyParts DEF WorkersDone, Quiet
<1>19. ASSUME StopTargets PROVE Quiet
  BY <1>19, CopyParts DEF StopTargets, Quiet
<1>20. ASSUME TargetsDone PROVE Quiet
  BY <1>20, CopyParts DEF TargetsDone, Quiet
<1>21. ASSUME Stop PROVE Quiet
  BY <1>21, CopyParts DEF Stop, Quiet
<1>22. ASSUME UNCHANGED vars PROVE Quiet
  BY <1>22, CopyParts DEF vars, Quiet
<1>23. ASSUME NEW s \in Sources, ReceiveLine(s)
      PROVE  Accepts(s)
  BY <1>23, CopyParts, CopyOfLine, MaxLinesAssumption
     DEF ReceiveLine, AddMessage, Accepts
<1>24. ASSUME NEW s \in Sources, NEW w \in Workers, Dispatch(s, w)
      PROVE  Dispatches(s, w)
  BY <1>24, CopyParts DEF Dispatch, Dispatches
<1>25. ASSUME NEW w \in Workers, NEW t \in Targets, SendToTarget(w, t)
      PROVE  Sends(w, t, WorkerCopy(w)) /\ WorkerCopy(w) \in Copy
  <2>1. WorkerCopy(w) \in Copy
    BY <1>25, WorkerCopyType DEF SendToTarget
  <2>2. WorkerDrops(w, WorkerCopy(w))
    BY <1>25, <2>1, CopyParts
       DEF SendToTarget, WorkerDrops, HasNext, WorkerCopy, Line
  <2>3. \A c \in Copy, u \in Targets :
           AtTarget(c, u)' <=> AtTarget(c, u) \/ (u = t /\ c = WorkerCopy(w))
    BY <1>25, <2>1 DEF SendToTarget
  <2>4. Idle(t)
    BY <1>25 DEF SendToTarget, Idle
  <2>5. Home(WorkerCopy(w)) = t
    BY <1>25 DEF SendToTarget, WorkerCopy, NextName, WorkerRoute, Home
  <2> QED
    BY <1>25, <2>1, <2>2, <2>3, <2>4, <2>5 DEF SendToTarget, Sends
<1>26. ASSUME NEW w \in Workers, SendToUnknown(w)
      PROVE  Strands(w, WorkerCopy(w)) /\ WorkerCopy(w) \in Copy
  <2>1. WorkerCopy(w) \in Copy
    BY <1>26, WorkerCopyType DEF SendToUnknown
  <2>2. WorkerDrops(w, WorkerCopy(w))
    BY <1>26, <2>1, CopyParts
       DEF SendToUnknown, WorkerDrops, HasNext, WorkerCopy, Line
  <2>3. Home(WorkerCopy(w)) \notin Targets
    BY <1>26 DEF SendToUnknown, WorkerCopy, NextName, WorkerRoute, Home
  <2> QED
    BY <1>26, <2>1, <2>2, <2>3 DEF SendToUnknown, Strands
<1>27. ASSUME NEW t \in Targets, NEW u \in Targets, SendToFallback(t, u)
      PROVE  FallsBack(t, u, tCopy[t]) /\ tCopy[t] \in Copy
  BY <1>27, CopyParts DEF SendToFallback, FallsBack, Idle
<1>28. ASSUME NEW t \in Targets, RateLimitDiscard(t)
      PROVE  Finishes(t, tCopy[t], "discarded") /\ tCopy[t] \in Copy
  BY <1>28, CopyParts DEF RateLimitDiscard, CompleteMessage, SettleAs, Finishes,
     Settled
<1>29. ASSUME NEW t \in Targets, FallbackToUnknown(t)
      PROVE  Finishes(t, tCopy[t], "stranded") /\ tCopy[t] \in Copy
  BY <1>29, CopyParts DEF FallbackToUnknown, SettleAs, Finishes, Settled
<1>30. ASSUME NEW t \in Targets, WriteFails(t)
      PROVE  Finishes(t, tCopy[t], "stranded") /\ tCopy[t] \in Copy
  BY <1>30, CopyParts DEF WriteFails, SettleAs, Finishes, Settled
<1>31. ASSUME NEW t \in Targets, AwaitOk(t)
      PROVE  Finishes(t, tCopy[t], "delivered") /\ tCopy[t] \in Copy
  BY <1>31, CopyParts DEF AwaitOk, CompleteMessage, SettleAs, Finishes, Settled
<1>32. ASSUME NEW t \in Targets, AwaitRefused(t)
      PROVE  Finishes(t, tCopy[t], "refused") /\ tCopy[t] \in Copy
  BY <1>32, CopyParts DEF AwaitRefused, CompleteMessage, SettleAs, Finishes, Settled
<1> HIDE DEF TypeInv, TypeOK, HandsFull, Exited, Holding, mainVars, sourceVars,
            workerVars, targetVars, SameAtSource, SameAtWorker, SameAtTarget,
            AtSource, AtWorker, AtTarget
<1>33. ASSUME NEW s \in Sources, ReaderStep(s) \/ SourceStep(s)
       PROVE  Effect
  BY <1>33, <1>1, <1>2, <1>3, <1>4, <1>5, <1>6, <1>7, <1>8, <1>23, <1>24
     DEF ReaderStep, SourceStep, Effect
<1>34. ASSUME NEW w \in Workers, WorkerStep(w)
       PROVE  Effect
  BY <1>34, <1>9, <1>10, <1>25, <1>26 DEF WorkerStep, Effect
<1>35. ASSUME NEW t \in Targets, TargetStep(t)
       PROVE  Effect
  <2>1. {"discarded", "stranded", "delivered", "refused"} \subseteq Outcome
    BY DEF Outcome, Settled
  <2> QED
    BY <1>35, <2>1, <1>11, <1>12, <1>13, <1>14, <1>15, <1>16, <1>27, <1>28,
       <1>29, <1>30, <1>31, <1>32 DEF TargetStep, Effect
<1>36. ASSUME MainStep \/ Stop \/ UNCHANGED vars
       PROVE  Effect
  BY <1>36, <1>17, <1>18, <1>19, <1>20, <1>21, <1>22 DEF MainStep, Effect
<1> QED
  BY <1>33, <1>34, <1>35, <1>36 DEF Next

-------------------------------------------------------------------------------
(* One holder per copy, and what is counted.  From here on AtSource,       *)
(* AtWorker and AtTarget stay folded: the effects say all there is to know.*)

LedgerInv == TypeInv /\ UnsentAhead /\ OneHolder

\* No effect gives a copy two holders, or loses one that is pending.
LEMMA LedgerStep == LedgerInv /\ TypeInv' /\ Effect => LedgerInv'
<1> SUFFICES ASSUME LedgerInv, TypeInv', Effect
             PROVE  UnsentAhead' /\ OneHolder'
  BY DEF LedgerInv
<1>0. /\ accepted \in [Sources -> 0 .. MaxLines] /\ outcome \in [Copy -> Outcome]
      /\ UnsentAhead /\ OneHolder
  BY DEF LedgerInv, TypeInv, TypeOK
<1>1. CASE Quiet
  BY <1>0, <1>1
     DEF Quiet, UnsentAhead, OneHolder, Held, SameAtSource, SameAtWorker,
        SameAtTarget
<1>2. ASSUME NEW s \in Sources, Accepts(s)
      PROVE  UnsentAhead' /\ OneHolder'
  <2> DEFINE k == accepted[s] + 1
  <2>1. \A c \in Copy : c \in CopiesOf(s, k) <=> c[1] = s /\ c[2] = k
    BY <1>2, CopyOfLine DEF Accepts
  <2>2. ASSUME NEW c \in CopiesOf(s, k), c \in Copy
        PROVE  outcome[c] = "unsent" /\ ~Held(c)
    BY <1>0, <2>1, <2>2, CopyParts DEF UnsentAhead, OneHolder
  <2>3. UnsentAhead'
    BY <1>0, <1>2, <2>1, CopyParts DEF Accepts, UnsentAhead
  <2>4. OneHolder'
    BY <1>0, <1>2, <2>2 DEF Accepts, OneHolder, Held, SameAtWorker, SameAtTarget
  <2> QED
    BY <2>3, <2>4
<1>3. ASSUME NEW s \in Sources, NEW w \in Workers, Dispatches(s, w)
      PROVE  UnsentAhead' /\ OneHolder'
  BY <1>0, <1>3 DEF Dispatches, UnsentAhead, OneHolder, Held, SameAtTarget
<1>4. ASSUME NEW w \in Workers, NEW t \in Targets, NEW d \in Copy, Sends(w, t, d)
      PROVE  UnsentAhead' /\ OneHolder'
  BY <1>0, <1>4
     DEF Sends, WorkerDrops, Idle, UnsentAhead, OneHolder, Held, SameAtSource
<1>5. ASSUME NEW w \in Workers, NEW d \in Copy, Strands(w, d)
      PROVE  UnsentAhead' /\ OneHolder'
  BY <1>0, <1>5
     DEF Strands, WorkerDrops, UnsentAhead, OneHolder, Held, SameAtSource,
        SameAtTarget
<1>6. ASSUME NEW t \in Targets, NEW u \in Targets, NEW d \in Copy, FallsBack(t, u,
   d)
      PROVE  UnsentAhead' /\ OneHolder'
  BY <1>0, <1>6
     DEF FallsBack, Idle, UnsentAhead, OneHolder, Held, SameAtSource, SameAtWorker
<1>7. ASSUME NEW t \in Targets, NEW d \in Copy, NEW o \in Outcome, Finishes(t, d, o)
      PROVE  UnsentAhead' /\ OneHolder'
  BY <1>0, <1>7
     DEF Finishes, Settled, UnsentAhead, OneHolder, Held, SameAtSource, SameAtWorker
<1> QED
  BY <1>1, <1>2, <1>3, <1>4, <1>5, <1>6, <1>7 DEF Effect

\* What is owed can be counted.
LEMMA OwedFinite == IsFiniteSet(Owed)
  BY CopyFinite, FS_Subset DEF Owed

\* Every effect changes the counter by as much as it changes what is owed.
LEMMA CountStep == LedgerInv /\ CountsOwed /\ Effect => CountsOwed'
<1> SUFFICES ASSUME LedgerInv, CountsOwed, Effect PROVE CountsOwed'
  OBVIOUS
<1>0. /\ accepted \in [Sources -> 0 .. MaxLines] /\ outcome \in [Copy -> Outcome]
      /\ UnsentAhead /\ OneHolder
  BY DEF LedgerInv, TypeInv, TypeOK
<1>1. CASE UNCHANGED <<outcome, inFlight>>
  BY <1>1 DEF CountsOwed, Owed
<1>2. ASSUME NEW s \in Sources, Accepts(s) PROVE CountsOwed'
  <2> DEFINE new == CopiesOf(s, accepted[s] + 1)
  <2>1. IsFiniteSet(new) /\ Cardinality(new) = Len(Route[s])
    BY <1>2, CopiesOfCardinality DEF Accepts
  <2>2. \A c \in new : c \in Copy /\ outcome[c] = "unsent"
    BY <1>0, <1>2, CopyOfLine, CopyParts DEF Accepts, UnsentAhead
  <2>3. Owed' = Owed \cup new
    BY <1>2, <2>2 DEF Accepts, Owed
  <2>4. Owed \cap new = {}
    BY <2>2 DEF Owed
  <2> HIDE DEF new
  <2>5. Cardinality(Owed \cup new) = Cardinality(Owed) + Len(Route[s])
    <3>1. Cardinality(Owed \cup new)
             = Cardinality(Owed) + Cardinality(new) - Cardinality(Owed \cap new)
      BY <2>1, OwedFinite, FS_Union
    <3>2. Cardinality(Owed) \in Nat /\ Cardinality(Owed \cap new) = 0
      BY <2>4, OwedFinite, FS_EmptySet, FS_CardinalityType
    <3> QED
      BY <2>1, <3>1, <3>2, LenType
  <2> QED
    BY <1>2, <2>3, <2>5 DEF Accepts, CountsOwed
<1>3. ASSUME NEW w \in Workers, NEW d \in Copy, Strands(w, d) PROVE CountsOwed'
  <2>1. outcome[d] = "pending"
    BY <1>0, <1>3 DEF Strands, WorkerDrops, OneHolder, Held
  <2>2. Owed' = Owed
    BY <1>0, <1>3, <2>1 DEF Strands, Owed
  <2> QED
    BY <1>3, <2>2 DEF Strands, CountsOwed
<1>4. ASSUME NEW t \in Targets, NEW d \in Copy, NEW o \in Outcome, Finishes(t, d, o)
      PROVE  CountsOwed'
  <2>1. outcome[d] = "pending"
    BY <1>0, <1>4 DEF Finishes, OneHolder, Held
  <2>2. CASE o = "stranded" /\ inFlight' = inFlight
    <3>1. Owed' = Owed
      BY <1>0, <1>4, <2>1, <2>2 DEF Finishes, Owed
    <3> QED
      BY <2>2, <3>1 DEF CountsOwed
  <2>3. CASE o \in Settled /\ inFlight' = inFlight - 1
    <3>1. Owed' = Owed \ {d} /\ d \in Owed
      BY <1>0, <1>4, <2>1, <2>3 DEF Finishes, Owed, Settled
    <3>2. Cardinality(Owed \ {d}) = Cardinality(Owed) - 1
      BY <3>1, OwedFinite, FS_RemoveElement
    <3> QED
      BY <2>3, <3>1, <3>2 DEF CountsOwed
  <2> QED
    BY <1>4, <2>2, <2>3 DEF Finishes
<1> QED
  BY <1>1, <1>2, <1>3, <1>4 DEF Effect, Quiet, Dispatches, Sends, FallsBack

-------------------------------------------------------------------------------
(* The phases of Broker.Start.                                             *)

\* Nothing is owed once TargetStop is closed, so no connector has a copy.
LEMMA DrainedState == IndInv => DrainedMeansSettled
<1> SUFFICES ASSUME IndInv, targetStop
             PROVE  /\ \A c \in Copy : outcome[c] \in Settled \cup {"unsent"}
                    /\ \A s \in Sources : src[s] \in Exited
                    /\ \A w \in Workers : worker[w] = "finished"
                    /\ \A t \in Targets : target[t] \notin Holding
  BY DEF DrainedMeansSettled
<1>1. Owed = {}
  BY OwedFinite, FS_EmptySet DEF IndInv, CountsOwed, Phases
<1>2. \A c \in Copy : outcome[c] \in Settled \cup {"unsent"}
  BY <1>1 DEF IndInv, TypeOK, Outcome, Owed
<1>3. ASSUME NEW t \in Targets, target[t] \in Holding PROVE FALSE
  <2>1. tCopy[t] \in Copy /\ AtTarget(tCopy[t], t)
    BY <1>3 DEF IndInv, HandsFull, AtTarget
  <2>2. outcome[tCopy[t]] = "pending"
    BY <2>1 DEF IndInv, OneHolder, Held
  <2> QED
    BY <1>1, <2>1, <2>2 DEF Owed
<1> QED
  BY <1>2, <1>3 DEF IndInv, Phases

\* Start moves on only when what it waits for is done, and it stays done.
LEMMA PhaseStep == IndInv /\ [Next]_vars => Phases'
<1> SUFFICES ASSUME IndInv, [Next]_vars PROVE Phases'
  OBVIOUS
<1>0. TypeOK /\ Phases
  BY DEF IndInv
<1> USE DEF Phases, Exited, Holding, mainVars, sourceVars, workerVars, targetVars
<1>1. ASSUME NEW s \in Sources, ReaderStep(s) PROVE Phases'
  BY <1>0, <1>1 DEF ReaderStep, ReadFrame, ReadError, ReadEOF
<1>2. ASSUME NEW s \in Sources, SourceStep(s) PROVE Phases'
  <2>1. src[s] \notin Exited /\ UNCHANGED mainVars
    BY <1>2 DEF SourceStep, SourceConnect, SourceConnectFails, ReceiveLine,
                ReceiveOther, ReceiveFailure, StopSource, Dispatch
  <2> QED
    BY <1>0, <2>1
<1>3. ASSUME NEW w \in Workers, WorkerStep(w) PROVE Phases'
  <2>1. worker[w] # "finished" /\ UNCHANGED <<mainVars, src>>
    BY <1>3 DEF WorkerStep, SendToTarget, SendToUnknown, FinishLine, StopWorker,
                HasNext
  <2> QED
    BY <1>0, <2>1
<1>4. ASSUME NEW t \in Targets, TargetStep(t) PROVE Phases'
  <2>1. UNCHANGED <<mainVars, src, worker>>
    BY <1>4 DEF TargetStep, TargetConnect, TargetConnectFails, RateLimitPass,
                RateLimitDiscard, RateLimitFallback, SendToFallback,
                FallbackToUnknown, WriteLine, WriteFails, AwaitOk, AwaitRefused,
                StopTarget
  <2>2. target[t] \notin Holding => UNCHANGED inFlight
    BY <1>4 DEF TargetStep, TargetConnect, TargetConnectFails, RateLimitPass,
                RateLimitDiscard, RateLimitFallback, SendToFallback,
                FallbackToUnknown, WriteLine, WriteFails, AwaitOk, AwaitRefused,
                StopTarget
  <2> QED
    BY <1>0, <2>1, <2>2, DrainedState DEF DrainedMeansSettled
<1>5. CASE MainStep
  BY <1>0, <1>5
     DEF MainStep, StopWorkers, WorkersDone, StopTargets, TargetsDone,
         SourcesDone, InFlightDone, TypeOK, MainPC
<1>6. CASE Stop
  BY <1>0, <1>6 DEF Stop
<1>7. CASE UNCHANGED vars
  BY <1>0, <1>7 DEF vars
<1> QED
  BY <1>1, <1>2, <1>3, <1>4, <1>5, <1>6, <1>7 DEF Next

-------------------------------------------------------------------------------
(* The invariant, and what follows from it.                                *)

\* The invariant holds when the goroutines have been started.
LEMMA IndInit == Init => IndInv
<1> SUFFICES ASSUME Init PROVE IndInv
  OBVIOUS
<1>1. TypeInv
  BY TypeInit
<1>2. UnsentAhead
  BY CopyParts DEF Init, UnsentAhead
<1>3. OneHolder
  BY CopyParts DEF Init, OneHolder, Held, AtSource, AtWorker, AtTarget, Holding
<1>4. CountsOwed
  <2>1. Owed = {}
    BY DEF Init, Owed
  <2> QED
    BY <2>1, FS_EmptySet DEF Init, CountsOwed
<1>5. Phases
  BY DEF Init, Phases
<1> QED
  BY <1>1, <1>2, <1>3, <1>4, <1>5 DEF IndInv, TypeInv

\* The inductive invariant of the broker holds in every reachable state.
THEOREM Inductive == Spec => []IndInv
<1>1. IndInv /\ [Next]_vars => IndInv'
  <2> SUFFICES ASSUME IndInv, [Next]_vars PROVE IndInv'
    OBVIOUS
  <2>1. LedgerInv /\ TypeInv
    BY DEF IndInv, LedgerInv, TypeInv
  <2>2. TypeInv' /\ Effect
    BY <2>1, TypeStep, EffectStep
  <2>3. LedgerInv'
    BY <2>1, <2>2, LedgerStep
  <2>4. CountsOwed'
    BY <2>1, <2>2, CountStep DEF IndInv
  <2>5. Phases'
    BY PhaseStep
  <2> QED
    BY <2>2, <2>3, <2>4, <2>5 DEF IndInv, LedgerInv, TypeInv
<1> QED
  BY <1>1, IndInit, PTL DEF Spec

\* No copy is ever in two hands, and exactly the pending ones are in one.
THEOREM SingleHolder == Spec => []OneHolder
<1>1. IndInv => OneHolder
  BY DEF IndInv
<1> QED
  BY <1>1, Inductive, PTL

\* InFlightWaitGroup counts exactly the copies in somebody's hands and the
\* stranded ones: CompleteMessage is called once for each unit AddMessage adds,
\* and never for a copy that is still being processed.
THEOREM CounterExact == Spec => []CounterIsExact
<1>1. IndInv => CounterIsExact
  <2> SUFFICES ASSUME IndInv PROVE CounterIsExact
    OBVIOUS
  <2>1. Open = Owed
    BY DEF IndInv, OneHolder, Open, Owed
  <2> QED
    BY <2>1 DEF IndInv, CountsOwed, CounterIsExact
<1> QED
  BY <1>1, Inductive, PTL

\* When StopTargets has closed TargetStop, every acknowledged copy is settled
\* and no goroutine is left that has one or could still produce one.
THEOREM DrainIsClean == Spec => []DrainedMeansSettled
  BY Inductive, DrainedState, PTL

\* No AddMessage happens after WaitForSources has returned.
THEOREM NoLateAdd == Spec => NoAddWhileWaiting
<1>1. IndInv /\ [Next]_vars => [main # "waitSources" => inFlight' <= inFlight]_vars
  <2> SUFFICES ASSUME IndInv, [Next]_vars, main # "waitSources"
               PROVE  inFlight' <= inFlight
    OBVIOUS
  <2>1. inFlight \in Int /\ \A s \in Sources : src[s] \in Exited
    BY DEF IndInv, TypeOK, Phases
  <2>2. Effect
    BY EffectStep DEF IndInv, TypeInv
  <2> QED
    BY <2>1, <2>2 DEF Effect, Quiet, Accepts, Dispatches, Sends, Strands,
                      FallsBack, Finishes
<1> QED
  BY <1>1, Inductive, PTL DEF Spec, NoAddWhileWaiting

-------------------------------------------------------------------------------
(* The order of the lines of a source.  With one worker a line overtakes   *)
(* no earlier one on its way to a target that sends nothing elsewhere: on  *)
(* each leg of the way, whoever has the later copy, the earlier one is     *)
(* further on.                                                             *)

\* Two copies of lines of one source, for one target that has no fallback rule.
Ahead(c, d) ==
    /\ c[1] = d[1] /\ c[3] = d[3] /\ c[2] < d[2]
    /\ Home(c) \in {t \in Targets : ~HasFallback(t)}

\* Only a rule makes a connector fall back, so that a copy for a target without one
\* stays there.
Homely ==
    /\ \A t \in Targets : target[t] = "fallback" => HasFallback(t)
    /\ \A c \in Copy, u \in Targets :
          AtTarget(c, u) /\ Home(c) \in {t \in Targets : ~HasFallback(t)} => u = Home(c)

Ordered ==
    \A c, d \in Copy : Ahead(c, d) =>
       /\ \A w \in Workers :
             AtWorker(d, w) => ~AtSource(c) /\ \A v \in Workers : ~AtWorker(c, v)
       /\ \A u \in Targets : AtTarget(d, u) => outcome[c] # "pending"
       /\ outcome[d] \notin {"unsent", "pending"} => outcome[c] # "pending"

OrderInv == Homely /\ Ordered

\* A connector is at its fallback only because of a rule.
LEMMA FallbackStep ==
    ASSUME TypeInv, \A t \in Targets : target[t] = "fallback" => HasFallback(t),
           [Next]_vars
    PROVE  \A t \in Targets : target'[t] = "fallback" => HasFallback(t)
<1> USE DEF TypeInv, TypeOK, sourceVars, workerVars, targetVars
<1>1. CASE UNCHANGED target
  BY <1>1
<1>2. ASSUME NEW w \in Workers, NEW t \in Targets, SendToTarget(w, t)
      PROVE  \A u \in Targets : target'[u] = "fallback" => HasFallback(u)
  BY <1>2 DEF SendToTarget
<1>3. ASSUME NEW t \in Targets, TargetStep(t)
      PROVE  \A u \in Targets : target'[u] = "fallback" => HasFallback(u)
  <2>1. CASE RateLimitFallback(t)
    BY <2>1 DEF RateLimitFallback, HasFallback
  <2>2. ASSUME NEW v \in Targets, SendToFallback(t, v)
        PROVE  \A u \in Targets : target'[u] = "fallback" => HasFallback(u)
    BY <2>2 DEF SendToFallback
  <2>3. CASE \/ TargetConnect(t) \/ TargetConnectFails(t) \/ RateLimitPass(t)
             \/ RateLimitDiscard(t) \/ FallbackToUnknown(t) \/ StopTarget(t)
    BY <2>3 DEF TargetConnect, TargetConnectFails, RateLimitPass, RateLimitDiscard,
                FallbackToUnknown, StopTarget
  <2>4. CASE WriteLine(t) \/ WriteFails(t) \/ AwaitOk(t) \/ AwaitRefused(t)
    BY <2>4 DEF WriteLine, WriteFails, AwaitOk, AwaitRefused
  <2> QED
    BY <1>3, <2>1, <2>2, <2>3, <2>4 DEF TargetStep
<1>4. CASE \/ \E s \in Sources : ReaderStep(s) \/ SourceStep(s)
           \/ MainStep \/ Stop \/ UNCHANGED vars
  BY <1>1, <1>4
     DEF ReaderStep, ReadFrame, ReadError, ReadEOF, SourceStep, SourceConnect,
         SourceConnectFails, ReceiveLine, ReceiveOther, ReceiveFailure, StopSource,
         Dispatch, MainStep, StopWorkers, WorkersDone, StopTargets, TargetsDone, Stop,
         vars
<1>5. ASSUME NEW w \in Workers, SendToUnknown(w) \/ FinishLine(w) \/ StopWorker(w)
      PROVE  UNCHANGED target
  BY <1>5 DEF SendToUnknown, FinishLine, StopWorker
<1> QED
  BY <1>1, <1>2, <1>3, <1>4, <1>5 DEF Next, WorkerStep

\* No effect lets a copy overtake an earlier one, if there is one worker.
LEMMA OrderStep ==
    ASSUME LedgerInv, OrderInv, Effect, \A w, v \in Workers : w = v,
           \A t \in Targets : target'[t] = "fallback" => HasFallback(t)
    PROVE  OrderInv'
<1>0. /\ accepted \in [Sources -> 0 .. MaxLines] /\ outcome \in [Copy -> Outcome]
      /\ UnsentAhead /\ OneHolder /\ Homely /\ Ordered
  BY DEF LedgerInv, TypeInv, TypeOK, OrderInv
<1>1. CASE Quiet
  BY <1>0, <1>1
     DEF Quiet, OrderInv, Homely, Ordered, SameAtSource, SameAtWorker, SameAtTarget
<1>2. ASSUME NEW s \in Sources, Accepts(s) PROVE OrderInv'
  <2> DEFINE k == accepted[s] + 1
  <2>1. \A c \in Copy : c \in CopiesOf(s, k) <=> c[1] = s /\ c[2] = k
    BY <1>2, CopyOfLine DEF Accepts
  <2>2. ASSUME NEW c \in Copy, NEW d \in Copy, Ahead(c, d), c \in CopiesOf(s, k)
        PROVE  outcome[d] = "unsent" /\ outcome'[d] = "unsent" /\ ~Held(d)
    <3>1. accepted[d[1]] < d[2] /\ d \notin CopiesOf(s, k)
      BY <1>0, <2>1, <2>2, CopyParts DEF Ahead
    <3> QED
      BY <1>0, <1>2, <3>1 DEF Accepts, UnsentAhead, OneHolder
  <2>3. Homely'
    BY <1>0, <1>2 DEF Accepts, Homely, SameAtTarget
  <2>4. ASSUME NEW c \in Copy, NEW d \in Copy, Ahead(c, d)
        PROVE  /\ \A w \in Workers :
                     AtWorker(d, w)' => ~AtSource(c)' /\ \A v \in Workers : ~AtWorker(c, v)'
               /\ \A u \in Targets : AtTarget(d, u)' => outcome'[c] # "pending"
               /\ outcome'[d] \notin {"unsent", "pending"} => outcome'[c] # "pending"
    <3>1. CASE c \in CopiesOf(s, k)
      BY <1>2, <2>2, <2>4, <3>1 DEF Accepts, SameAtWorker, SameAtTarget, Held
    <3>2. CASE c \notin CopiesOf(s, k)
      <4>1. outcome'[c] = outcome[c] /\ (AtSource(c)' <=> AtSource(c))
        BY <1>0, <1>2, <3>2 DEF Accepts
      <4>2. outcome'[d] = outcome[d] \/ outcome'[d] = "pending"
        BY <1>2 DEF Accepts
      <4> QED
        BY <1>0, <1>2, <2>4, <4>1, <4>2
           DEF Accepts, Ordered, SameAtWorker, SameAtTarget
    <3> QED
      BY <3>1, <3>2
  <2> QED
    BY <2>3, <2>4 DEF OrderInv, Ordered, Ahead, Home
<1>3. ASSUME NEW s \in Sources, NEW w \in Workers, Dispatches(s, w) PROVE OrderInv'
  <2>1. Homely'
    BY <1>0, <1>3 DEF Dispatches, Homely, SameAtTarget
  <2>2. ASSUME NEW c \in Copy, NEW d \in Copy, Ahead(c, d), NEW v \in Workers,
               AtWorker(d, v)'
        PROVE  ~AtSource(c)' /\ \A u \in Workers : ~AtWorker(c, u)'
    <3>1. v = w /\ AtSource(d) /\ d[1] = s
      BY <1>3, <2>2 DEF Dispatches
    <3>2. ~AtSource(c)
      BY <1>0, <2>2, <3>1, CopyParts DEF AtSource, Ahead
    <3> QED
      BY <1>3, <3>2 DEF Dispatches
  <2> QED
    BY <1>0, <1>3, <2>1, <2>2
       DEF Dispatches, OrderInv, Ordered, Ahead, Home, SameAtTarget
<1>4. ASSUME NEW w \in Workers, NEW t \in Targets, NEW e \in Copy, Sends(w, t, e)
      PROVE  OrderInv'
  <2>1. Homely'
    BY <1>0, <1>4 DEF Sends, Homely, Home
  <2>2. ASSUME NEW c \in Copy, Ahead(c, e) PROVE outcome[c] # "pending"
    <3>1. ~AtSource(c) /\ \A v \in Workers : ~AtWorker(c, v)
      BY <1>0, <1>4, <2>2 DEF Sends, WorkerDrops, Ordered
    <3>2. \A u \in Targets : ~AtTarget(c, u)
      <4>1. Home(c) = t
        BY <1>4, <2>2 DEF Sends, Ahead, Home
      <4> QED
        BY <1>0, <1>4, <2>2, <4>1 DEF Sends, Idle, Homely, Ahead
    <3> QED
      BY <1>0, <3>1, <3>2 DEF OneHolder, Held
  <2> QED
    BY <1>0, <1>4, <2>1, <2>2
       DEF Sends, WorkerDrops, OrderInv, Ordered, Ahead, Home, SameAtSource
<1>5. ASSUME NEW w \in Workers, NEW e \in Copy, Strands(w, e) PROVE OrderInv'
  <2>1. Homely'
    BY <1>0, <1>5 DEF Strands, Homely, SameAtTarget
  <2>2. \A c \in Copy : ~Ahead(c, e)
    BY <1>5 DEF Strands, Ahead, Home
  <2>3. \A c \in Copy : c # e => outcome'[c] = outcome[c]
    BY <1>0, <1>5 DEF Strands
  <2>4. outcome'[e] = "stranded"
    BY <1>0, <1>5 DEF Strands
  <2> QED
    BY <1>0, <1>5, <2>1, <2>2, <2>3, <2>4
       DEF Strands, WorkerDrops, OrderInv, Ordered, Ahead, Home, SameAtSource,
            SameAtTarget
<1>6. ASSUME NEW t \in Targets, NEW u \in Targets, NEW e \in Copy, FallsBack(t, u, e)
      PROVE  OrderInv'
  <2>1. Home(e) \notin {v \in Targets : ~HasFallback(v)}
    BY <1>0, <1>6 DEF FallsBack, Homely
  <2>2. Homely'
    BY <1>0, <1>6, <2>1 DEF FallsBack, Homely
  <2>3. \A c \in Copy : ~Ahead(c, e)
    BY <2>1 DEF Ahead, Home
  <2> QED
    BY <1>0, <1>6, <2>2, <2>3
       DEF FallsBack, OrderInv, Ordered, Ahead, Home, SameAtSource, SameAtWorker
<1>7. ASSUME NEW t \in Targets, NEW e \in Copy, NEW o \in Outcome, Finishes(t, e, o)
      PROVE  OrderInv'
  <2>1. Homely'
    BY <1>0, <1>7 DEF Finishes, Homely
  <2>2. \A c \in Copy : Ahead(c, e) => outcome[c] # "pending"
    BY <1>0, <1>7 DEF Finishes, Ordered
  <2>3. \A c \in Copy : c # e => outcome'[c] = outcome[c]
    BY <1>0, <1>7 DEF Finishes
  <2>4. outcome'[e] # "pending"
    BY <1>0, <1>7 DEF Finishes, Settled
  <2> QED
    BY <1>0, <1>7, <2>1, <2>2, <2>3, <2>4
       DEF Finishes, OrderInv, Ordered, Ahead, Home, SameAtSource, SameAtWorker
<1> QED
  BY <1>1, <1>2, <1>3, <1>4, <1>5, <1>6, <1>7 DEF Effect

\* With one worker, no line is settled at a target that has no fallback rule while an
\* earlier one of the same source is still on its way there (worker.go 27-59,
\* connector.go 187-258), whatever the rules of other targets send to it.
THEOREM LinesKeepTheirOrder == Spec => []InOrder
<1> DEFINE Solo == Cardinality(Workers) = 1 => OrderInv
<1>1. Init => Solo
  BY CopyParts
     DEF Init, OrderInv, Homely, Ordered, AtSource, AtWorker, AtTarget, Holding
<1>2. IndInv /\ Solo /\ [Next]_vars => Solo'
  <2> SUFFICES ASSUME IndInv, OrderInv, [Next]_vars, Cardinality(Workers) = 1
               PROVE  OrderInv'
    OBVIOUS
  <2>1. \A w, v \in Workers : w = v
    BY WorkersAssumption, FS_Singleton
  <2>2. LedgerInv /\ TypeInv
    BY DEF IndInv, LedgerInv, TypeInv
  <2>3. Effect
    BY <2>2, EffectStep
  <2>4. \A t \in Targets : target'[t] = "fallback" => HasFallback(t)
    BY <2>2, FallbackStep DEF OrderInv, Homely
  <2> QED
    BY <2>1, <2>2, <2>3, <2>4, OrderStep
<1>3. Solo => InOrder
  BY DEF OrderInv, Ordered, Ahead, Home, InOrder, Settled
<1> QED
  BY <1>1, <1>2, <1>3, Inductive, PTL DEF Spec

-------------------------------------------------------------------------------
(* The broker implements LogDelivery.                                      *)

\* A step that leaves TargetStop alone accepts a line, resolves a pending copy
\* or is invisible.
LEMMA EffectRefines ==
    ASSUME IndInv, Effect, UNCHANGED targetStop
    PROVE  [Delivery!Next]_(Delivery!vars)
<1> USE DEF Delivery!vars
<1>1. CASE UNCHANGED outcome
  BY <1>1
<1>2. ASSUME NEW s \in Sources, Accepts(s) PROVE Delivery!Next
  <2> DEFINE S == CopiesOf(s, accepted[s] + 1)
  <2>1. <<s, accepted[s] + 1>> \in Line
    BY <1>2 DEF Accepts, Line
  <2>2. S \in {CopiesOf(l[1], l[2]) : l \in Line}
    BY <2>1
  <2>3. \A c \in S : outcome[c] = "unsent"
    BY <1>2, CopyOfLine, CopyParts DEF Accepts, IndInv, UnsentAhead, TypeOK
  <2>4. ~targetStop
    BY <1>2 DEF Accepts, IndInv, Phases
  <2>5. Delivery!Accept(S)
    BY <1>2, <2>3, <2>4 DEF Accepts, Delivery!Accept
  <2> HIDE DEF S
  <2> QED
    BY <2>2, <2>5 DEF Delivery!Next
<1>3. ASSUME NEW w \in Workers, NEW d \in Copy, Strands(w, d) PROVE Delivery!Next
  <2>1. outcome[d] = "pending"
    BY <1>3 DEF Strands, WorkerDrops, IndInv, OneHolder, Held
  <2>2. ~targetStop
    BY <2>1, DrainedState DEF DrainedMeansSettled, Settled
  <2>3. Delivery!Resolve(d, "stranded")
    BY <1>3, <2>1, <2>2 DEF Strands, Delivery!Resolve
  <2> QED
    BY <2>3 DEF Delivery!Next
<1>4. ASSUME NEW t \in Targets, NEW d \in Copy, NEW o \in Outcome, Finishes(t, d, o)
      PROVE  Delivery!Next
  <2>1. outcome[d] = "pending"
    BY <1>4 DEF Finishes, IndInv, OneHolder, Held
  <2>2. ~targetStop
    BY <2>1, DrainedState DEF DrainedMeansSettled, Settled
  <2>3. Delivery!Resolve(d, o)
    BY <1>4, <2>1, <2>2 DEF Finishes, Delivery!Resolve
  <2>4. o \in Settled \cup {"stranded"}
    BY <1>4 DEF Finishes
  <2> QED
    BY <2>3, <2>4 DEF Delivery!Next, Delivery!Settled, Settled
<1> QED
  BY <1>1, <1>2, <1>3, <1>4 DEF Effect, Quiet, Dispatches, Sends, FallsBack

\* Outcomes are final, lines are acknowledged whole, and the broker tells its
\* targets to stop only when it owes nothing to anybody.
THEOREM Refinement == Spec => ImplementsLogDelivery
<1>1. Init => Delivery!Init
  BY DEF Init, Delivery!Init
<1>2. IndInv /\ [Next]_vars => [Delivery!Next]_(Delivery!vars)
  <2> SUFFICES ASSUME IndInv, [Next]_vars
               PROVE  [Delivery!Next]_(Delivery!vars)
    OBVIOUS
  <2>1. Effect
    BY EffectStep DEF IndInv, TypeInv
  <2>2. CASE UNCHANGED targetStop
    BY <2>1, <2>2, EffectRefines
  <2>3. CASE targetStop' # targetStop
    <3>1. StopTargets
      BY <2>3 DEF Next, ReaderStep, ReadFrame, ReadError, ReadEOF, SourceStep,
            SourceConnect, SourceConnectFails, ReceiveLine, ReceiveOther,
            ReceiveFailure, StopSource, Dispatch, WorkerStep, SendToTarget,
            SendToUnknown, FinishLine, StopWorker, TargetStep, TargetConnect,
            TargetConnectFails, RateLimitPass, RateLimitDiscard,
            RateLimitFallback, SendToFallback, FallbackToUnknown, WriteLine,
            WriteFails, AwaitOk, AwaitRefused, StopTarget, MainStep,
            StopWorkers, WorkersDone, TargetsDone, Stop, vars, mainVars
    <3>2. ~targetStop /\ targetStop' = TRUE /\ UNCHANGED outcome
      BY <3>1 DEF StopTargets, IndInv, Phases
    <3>3. \A c \in Copy : outcome[c] \notin {"pending", "stranded"}
      <4>1. Owed = {}
        BY <3>1, OwedFinite, FS_EmptySet
           DEF StopTargets, InFlightDone, IndInv, CountsOwed
      <4> QED
        BY <4>1 DEF Owed
    <3>4. Delivery!Drain
      BY <3>2, <3>3 DEF Delivery!Drain
    <3> QED
      BY <3>4 DEF Delivery!Next
  <2> QED
    BY <2>2, <2>3
<1> QED
  BY <1>1, <1>2, Inductive, PTL DEF Spec, ImplementsLogDelivery, Delivery!Spec

-------------------------------------------------------------------------------
(* Monitoring implements Broker.                                           *)

\* A step with counters is a step of the broker, or leaves it alone.
LEMMA BrokerStep == [MNext]_mVars => [Next]_vars
<1> SUFFICES ASSUME MNext PROVE [Next]_vars
  BY DEF mVars
<1>0. ~crashed
  BY DEF MNext
<1>1. ASSUME NEW s \in Sources, MReaderStep(s)
      PROVE  [Next]_vars
  BY <1>0, <1>1 DEF MReaderStep, Keep, Next
<1>2. ASSUME NEW s \in Sources, MSourceStep(s)
      PROVE  [Next]_vars
  <2>1. SourceStep(s) \/ UNCHANGED vars
    BY <1>2 DEF MSourceStep, MSourceQuiet, Keep, MReceiveLine, MReceiveFailure,
                MDispatch, CountSource, SourceStep
  <2> QED
    BY <1>0, <2>1 DEF Next
<1>3. ASSUME NEW w \in Workers, MWorkerStep(w)
      PROVE  [Next]_vars
  <2>1. WorkerStep(w)
    BY <1>3 DEF MWorkerStep, MWorkerQuiet, Keep, MSendToTarget, WorkerStep
  <2> QED
    BY <1>0, <2>1 DEF Next
<1>4. ASSUME NEW t \in Targets, MTargetStep(t)
      PROVE  [Next]_vars
  <2>1. TargetStep(t) \/ UNCHANGED vars
    BY <1>4 DEF MTargetStep, MTargetQuiet, Keep, MRateLimitDiscard,
                MSendToFallback, MFallbackToUnknown, MWriteLine, MWriteFails,
                MAwaitOk, MAwaitRefused, CountTarget, TargetStep
  <2> QED
    BY <1>0, <2>1 DEF Next
<1>5. CASE MMainStep
  BY <1>0, <1>5 DEF MMainStep, Keep, Next
<1>6. CASE Keep(Stop)
  BY <1>0, <1>6 DEF Keep, Next
<1>7. CASE ViewStep
  BY <1>7 DEF ViewStep, Request, Load, Respond
<1> QED
  BY <1>1, <1>2, <1>3, <1>4, <1>5, <1>6, <1>7 DEF MNext

\* The broker that counts (connector.go 145-422) is the broker: whatever
\* BrokerProofs says of Spec holds of it.
THEOREM CountingIsHarmless == MSpec => Spec
<1>1. MInit => Init
  BY DEF MInit
<1> QED
  BY <1>1, BrokerStep, PTL DEF MSpec, Spec

-------------------------------------------------------------------------------
(* The counters add up.  Accounts says of the in-flight counters only what *)
(* a reader of them may rely on; behind it is what they are at every step  *)
(* (Exact), the messages that are never taken off them included.  Exact    *)
(* is not inductive by itself: that a connection that died with a copy is  *)
(* told from one that never came up rests on what its counters were before *)
(* (Counted), and that an update is owed only at the select (Owing) keeps  *)
(* two of them from being mixed up.                                        *)

TargetExact(t) ==
    /\ HasMonitor => tStats[t].inbound =
          tStats[t].outbound + tStats[t].dropped + One(Unwritten(t))
    /\ tStats[t].inflight =
          One(target[t] \in Holding \/ tOwes[t] # "none")
          + One(DiedWithCopy(t)) + tStats[t].resent

SourceExact(s) ==
    /\ sStats[s].inflight = sStats[s].inbound - sStats[s].outbound
    /\ accepted[s] = sStats[s].outbound
                     + One(src[s] = "outbound" \/ sOwes[s] = "sent")

Exact ==
    /\ \A t \in Targets : TargetExact(t)
    /\ \A s \in Sources : SourceExact(s)

StatsType ==
    /\ sStats \in [Sources -> Stats] /\ tStats \in [Targets -> Stats]
    /\ sOwes \in [Sources -> {"none", "sent"}]
    /\ tOwes \in [Targets -> {"none", "ok", "discard", "resent"}]

Owing ==
    /\ \A s \in Sources : sOwes[s] = "sent" => src[s] = "select"
    /\ \A t \in Targets : tOwes[t] # "none" => target[t] = "select"

Counted ==
    \A t \in Targets :
       /\ target[t] = "dial" => tStats[t].inbound = 0 /\ tOwes[t] = "none"
       /\ target[t] \in Holding => tStats[t].inbound > 0

CountInv == StatsType /\ Owing /\ Counted /\ Exact

\* No counter has moved when Broker.Start has started its goroutines.
LEMMA CountInit == MInit => CountInv
  BY DEF MInit, Init, CountInv, StatsType, Owing, Counted, Exact, TargetExact,
         SourceExact, Stats, NewStats, Holding, One, Unwritten, DiedWithCopy

\* The five counters of stats.go, and below what its operations do to them.
LEMMA StatsParts ==
    ASSUME NEW st \in Stats
    PROVE  /\ st.inbound \in Nat /\ st.outbound \in Nat /\ st.dropped \in Nat
           /\ st.resent \in Nat /\ st.inflight \in Int
  BY DEF Stats

\* A message that arrives is counted twice: as inbound and as in flight.
LEMMA ArrivesParts ==
    ASSUME NEW st \in Stats
    PROVE  /\ Arrives(st) \in Stats
           /\ Arrives(st).inbound = st.inbound + 1
           /\ Arrives(st).inflight = st.inflight + 1
           /\ Arrives(st).outbound = st.outbound
           /\ Arrives(st).dropped = st.dropped /\ Arrives(st).resent = st.resent
<1>1. /\ IncrementMessagesInbound(st) \in Stats
      /\ IncrementMessagesInbound(st).inbound = st.inbound + 1
      /\ IncrementMessagesInbound(st).inflight = st.inflight
      /\ IncrementMessagesInbound(st).outbound = st.outbound
      /\ IncrementMessagesInbound(st).dropped = st.dropped
      /\ IncrementMessagesInbound(st).resent = st.resent
  BY DEF Stats, IncrementMessagesInbound
<1>2. ASSUME NEW x \in Stats
      PROVE  /\ AddInFlightMessage(x) \in Stats
             /\ AddInFlightMessage(x).inflight = x.inflight + 1
             /\ AddInFlightMessage(x).inbound = x.inbound
             /\ AddInFlightMessage(x).outbound = x.outbound
             /\ AddInFlightMessage(x).dropped = x.dropped
             /\ AddInFlightMessage(x).resent = x.resent
  BY DEF Stats, AddInFlightMessage
<1> QED
  BY <1>1, <1>2 DEF Arrives

\* IncrementMessagesOutbound changes one counter.
LEMMA OutboundParts ==
    ASSUME NEW st \in Stats
    PROVE  /\ IncrementMessagesOutbound(st) \in Stats
           /\ IncrementMessagesOutbound(st).outbound = st.outbound + 1
           /\ IncrementMessagesOutbound(st).inbound = st.inbound
           /\ IncrementMessagesOutbound(st).inflight = st.inflight
           /\ IncrementMessagesOutbound(st).dropped = st.dropped
           /\ IncrementMessagesOutbound(st).resent = st.resent
  BY DEF Stats, IncrementMessagesOutbound

\* IncrementDroppedMessages changes one counter.
LEMMA DroppedParts ==
    ASSUME NEW st \in Stats
    PROVE  /\ IncrementDroppedMessages(st) \in Stats
           /\ IncrementDroppedMessages(st).dropped = st.dropped + 1
           /\ IncrementDroppedMessages(st).inbound = st.inbound
           /\ IncrementDroppedMessages(st).inflight = st.inflight
           /\ IncrementDroppedMessages(st).outbound = st.outbound
           /\ IncrementDroppedMessages(st).resent = st.resent
  BY DEF Stats, IncrementDroppedMessages

\* IncrementResentMessages changes one counter.
LEMMA ResentParts ==
    ASSUME NEW st \in Stats
    PROVE  /\ IncrementResentMessages(st) \in Stats
           /\ IncrementResentMessages(st).resent = st.resent + 1
           /\ IncrementResentMessages(st).inbound = st.inbound
           /\ IncrementResentMessages(st).inflight = st.inflight
           /\ IncrementResentMessages(st).outbound = st.outbound
           /\ IncrementResentMessages(st).dropped = st.dropped
  BY DEF Stats, IncrementResentMessages

\* RemoveInFlightMessage takes one counter down.
LEMMA RemoveParts ==
    ASSUME NEW st \in Stats
    PROVE  /\ RemoveInFlightMessage(st) \in Stats
           /\ RemoveInFlightMessage(st).inflight = st.inflight - 1
           /\ RemoveInFlightMessage(st).inbound = st.inbound
           /\ RemoveInFlightMessage(st).outbound = st.outbound
           /\ RemoveInFlightMessage(st).dropped = st.dropped
           /\ RemoveInFlightMessage(st).resent = st.resent
  BY DEF Stats, RemoveInFlightMessage

\* A step that changes neither counters nor what the connectors do.
LEMMA CountStutter ==
    ASSUME CountInv, UNCHANGED <<statVars, oweVars, src, accepted, target>>
    PROVE  CountInv'
  BY DEF CountInv, StatsType, Owing, Counted, Exact, TargetExact, SourceExact,
         One, Unwritten, DiedWithCopy, statVars, oweVars

\* The steps of a source connector.
LEMMA CountSourceStep ==
    ASSUME TypeOK, CountInv, NEW s \in Sources, MSourceStep(s)
    PROVE  CountInv'
<1> USE DEF CountInv, StatsType, Owing, Counted, Exact, TargetExact,
            SourceExact, One, Unwritten, DiedWithCopy, statVars, oweVars,
            targetVars, TypeOK, SourcePC
<1>1. CASE MSourceQuiet(s)
  BY <1>1 DEF MSourceQuiet, Keep, SourceConnect, SourceConnectFails, ReceiveOther,
              StopSource
<1>2. CASE MReceiveLine(s)
  <2>1. /\ sStats'[s] \in Stats
        /\ sStats'[s].inbound = sStats[s].inbound + 1
        /\ sStats'[s].inflight = sStats[s].inflight + 1
        /\ sStats'[s].outbound = sStats[s].outbound
    BY <1>2, ArrivesParts DEF MReceiveLine, ReceiveLine
  <2>2. StatsType'
    BY <1>2, <2>1 DEF MReceiveLine, ReceiveLine
  <2>3. Owing' /\ Counted'
    BY <1>2, <2>1, StatsParts DEF MReceiveLine, ReceiveLine
  <2>4. SourceExact(s)'
    <3>1. /\ src[s] = "select" /\ sOwes[s] = "none"
          /\ src'[s] = "outbound" /\ sOwes'[s] = "none"
          /\ accepted'[s] = accepted[s] + 1
      BY <1>2 DEF MReceiveLine, ReceiveLine
    <3>2. /\ sStats[s].inflight = sStats[s].inbound - sStats[s].outbound
          /\ accepted[s] = sStats[s].outbound + 0
      BY <3>1
    <3>3. /\ sStats[s].inbound \in Nat /\ sStats[s].outbound \in Nat
          /\ sStats[s].inflight \in Int
      BY StatsParts
    <3>4. /\ sStats'[s].inflight = sStats'[s].inbound - sStats'[s].outbound
          /\ accepted'[s] = sStats'[s].outbound + 1
      BY ONLY <2>1, <3>1, <3>2, <3>3
    <3> QED
      BY ONLY <3>1, <3>4 DEF SourceExact, One
  <2>5. \A r \in Sources \ {s} : SourceExact(r)'
    BY <1>2, <2>1 DEF MReceiveLine, ReceiveLine
  <2>6. \A u \in Targets : TargetExact(u)'
    BY <1>2, <2>1 DEF MReceiveLine, ReceiveLine
  <2> QED
    BY <2>2, <2>3, <2>4, <2>5, <2>6
<1>3. CASE MReceiveFailure(s)
  BY <1>3, StatsParts, ArrivesParts DEF MReceiveFailure, ReceiveFailure
<1>4. ASSUME NEW w \in Workers, MDispatch(s, w)
      PROVE  CountInv'
  BY <1>4 DEF MDispatch, Dispatch
<1>5. CASE CountSource(s)
  <2>1. /\ sStats'[s] \in Stats
        /\ sStats'[s].inbound = sStats[s].inbound
        /\ sStats'[s].inflight = sStats[s].inflight - 1
        /\ sStats'[s].outbound = sStats[s].outbound + 1
    BY <1>5, OutboundParts, RemoveParts DEF CountSource, vars, sourceVars
  <2>2. StatsType'
    BY <1>5, <2>1 DEF CountSource, vars, sourceVars
  <2>3. Owing' /\ Counted'
    BY <1>5, <2>1, StatsParts DEF CountSource, vars, sourceVars
  <2>4. SourceExact(s)'
    BY <1>5, <2>1, StatsParts, MaxLinesAssumption DEF CountSource, vars, sourceVars
  <2>5. \A r \in Sources \ {s} : SourceExact(r)'
    BY <1>5, <2>1 DEF CountSource, vars, sourceVars
  <2>6. \A u \in Targets : TargetExact(u)'
    BY <1>5, <2>1 DEF CountSource, vars, sourceVars
  <2> QED
    BY <2>2, <2>3, <2>4, <2>5, <2>6
<1> QED
  BY <1>1, <1>2, <1>3, <1>4, <1>5 DEF MSourceStep

\* The steps of a worker.
LEMMA CountWorkerStep ==
    ASSUME TypeOK, CountInv, NEW w \in Workers, MWorkerStep(w)
    PROVE  CountInv'
<1>1. ASSUME NEW t \in Targets, MSendToTarget(w, t)
      PROVE  CountInv'
  BY <1>1, StatsParts, ArrivesParts
     DEF MSendToTarget, SendToTarget, CountInv, StatsType, Owing, Counted, Exact,
         TargetExact, SourceExact, One, Unwritten, DiedWithCopy, oweVars,
         sourceVars, TypeOK, TargetPC, Holding, Exited
<1>2. CASE MWorkerQuiet(w)
  BY <1>2, CountStutter DEF MWorkerQuiet, Keep, SendToUnknown, FinishLine, StopWorker,
              sourceVars, targetVars
<1> QED
  BY <1>1, <1>2 DEF MWorkerStep

\* The steps of a target connector.
LEMMA CountTargetStep ==
    ASSUME TypeOK, CountInv, NEW t \in Targets, MTargetStep(t)
    PROVE  CountInv'
<1> USE DEF CountInv, StatsType, Owing, Counted, Exact, TargetExact,
            SourceExact, One, Unwritten, DiedWithCopy, statVars, oweVars,
            sourceVars, TypeOK, TargetPC, Holding, Exited, Owe
<1>1. CASE MTargetQuiet(t)
  BY <1>1 DEF MTargetQuiet, Keep, TargetConnect, TargetConnectFails, RateLimitPass,
              RateLimitFallback, StopTarget
<1>2. CASE MRateLimitDiscard(t)
  BY <1>2 DEF MRateLimitDiscard, RateLimitDiscard
<1>3. ASSUME NEW u \in Targets, MSendToFallback(t, u)
      PROVE  CountInv'
  BY <1>3, StatsParts, ArrivesParts DEF MSendToFallback, SendToFallback
<1>4. CASE MFallbackToUnknown(t)
  BY <1>4 DEF MFallbackToUnknown, FallbackToUnknown
<1>5. CASE MWriteLine(t)
  <2>1. /\ tStats'[t] \in Stats
        /\ tStats'[t].outbound = tStats[t].outbound + 1
        /\ tStats'[t].inbound = tStats[t].inbound
        /\ tStats'[t].inflight = tStats[t].inflight
        /\ tStats'[t].dropped = tStats[t].dropped
        /\ tStats'[t].resent = tStats[t].resent
    BY <1>5, OutboundParts DEF MWriteLine, WriteLine
  <2>2. StatsType'
    BY <1>5, <2>1 DEF MWriteLine, WriteLine
  <2>3. Owing' /\ Counted'
    BY <1>5, <2>1, StatsParts DEF MWriteLine, WriteLine
  <2>4. TargetExact(t)'
    <3>1. /\ target[t] = "write" /\ tOwes[t] = "none"
          /\ target'[t] = "await" /\ tOwes'[t] = "none"
      BY <1>5 DEF MWriteLine, WriteLine
    <3>2. /\ HasMonitor => tStats[t].inbound =
                              tStats[t].outbound + tStats[t].dropped + 1
          /\ tStats[t].inflight = 1 + 0 + tStats[t].resent
      BY <3>1
    <3>3. /\ tStats[t].inbound \in Nat /\ tStats[t].outbound \in Nat
          /\ tStats[t].dropped \in Nat /\ tStats[t].resent \in Nat
      BY StatsParts
    <3>4. /\ HasMonitor => tStats'[t].inbound =
                              tStats'[t].outbound + tStats'[t].dropped + 0
          /\ tStats'[t].inflight = 1 + 0 + tStats'[t].resent
      BY ONLY <2>1, <3>2, <3>3
    <3> QED
      BY ONLY <3>1, <3>4 DEF TargetExact, One, Unwritten, DiedWithCopy, Holding
  <2>5. \A u \in Targets \ {t} : TargetExact(u)'
    BY <1>5, <2>1 DEF MWriteLine, WriteLine
  <2>6. \A s \in Sources : SourceExact(s)'
    BY <1>5, <2>1 DEF MWriteLine, WriteLine
  <2> QED
    BY <2>2, <2>3, <2>4, <2>5, <2>6
<1>6. CASE MWriteFails(t)
  <2>1. /\ tStats'[t] \in Stats
        /\ tStats'[t].dropped = tStats[t].dropped + 1
        /\ tStats'[t].inbound = tStats[t].inbound
        /\ tStats'[t].inflight = tStats[t].inflight
        /\ tStats'[t].outbound = tStats[t].outbound
        /\ tStats'[t].resent = tStats[t].resent
    BY <1>6, DroppedParts DEF MWriteFails, WriteFails
  <2>2. StatsType'
    BY <1>6, <2>1 DEF MWriteFails, WriteFails
  <2>3. Owing' /\ Counted'
    BY <1>6, <2>1, StatsParts DEF MWriteFails, WriteFails
  <2>4. TargetExact(t)'
    BY <1>6, <2>1, StatsParts DEF MWriteFails, WriteFails
  <2>5. \A u \in Targets \ {t} : TargetExact(u)'
    BY <1>6, <2>1 DEF MWriteFails, WriteFails
  <2>6. \A s \in Sources : SourceExact(s)'
    BY <1>6, <2>1 DEF MWriteFails, WriteFails
  <2> QED
    BY <2>2, <2>3, <2>4, <2>5, <2>6
<1>7. CASE MAwaitOk(t)
  BY <1>7 DEF MAwaitOk, AwaitOk
<1>8. CASE MAwaitRefused(t)
  BY <1>8, StatsParts, DroppedParts, MonitorAssumption
     DEF MAwaitRefused, AwaitRefused
<1>9. CASE CountTarget(t)
  <2>1. CASE tOwes[t] = "ok"
    <3>1. /\ tStats'[t] \in Stats
          /\ tStats'[t].inflight = tStats[t].inflight - 1
          /\ tStats'[t].inbound = tStats[t].inbound
          /\ tStats'[t].outbound = tStats[t].outbound
          /\ tStats'[t].dropped = tStats[t].dropped
          /\ tStats'[t].resent = tStats[t].resent
      BY <1>9, <2>1, RemoveParts DEF CountTarget, vars, targetVars, Afterwards
    <3>2. StatsType'
      BY <1>9, <2>1, <3>1 DEF CountTarget, vars, targetVars, Afterwards
    <3>3. Owing' /\ Counted'
      BY <1>9, <2>1, <3>1, StatsParts DEF CountTarget, vars, targetVars, Afterwards
    <3>4. TargetExact(t)'
      <4>1. /\ target[t] = "select" /\ target'[t] = "select" /\ tOwes'[t] = "none"
        BY <1>9, <2>1 DEF CountTarget, vars, targetVars
      <4>2. /\ HasMonitor => tStats[t].inbound =
                                tStats[t].outbound + tStats[t].dropped + 0
            /\ tStats[t].inflight = 1 + 0 + tStats[t].resent
        BY <2>1, <4>1
      <4>3. /\ tStats[t].inbound \in Nat /\ tStats[t].outbound \in Nat
            /\ tStats[t].dropped \in Nat /\ tStats[t].resent \in Nat
        BY StatsParts
      <4>4. /\ HasMonitor => tStats'[t].inbound =
                                tStats'[t].outbound + tStats'[t].dropped + 0
            /\ tStats'[t].inflight = 0 + 0 + tStats'[t].resent
        BY ONLY <3>1, <4>2, <4>3
      <4> QED
        BY ONLY <4>1, <4>4 DEF TargetExact, One, Unwritten, DiedWithCopy, Holding
    <3>5. \A u \in Targets \ {t} : TargetExact(u)'
      BY <1>9, <2>1, <3>1
         DEF CountTarget, vars, targetVars, Afterwards
    <3>6. \A s \in Sources : SourceExact(s)'
      BY <1>9, <2>1, <3>1
         DEF CountTarget, vars, targetVars, Afterwards
    <3> QED
      BY <3>2, <3>3, <3>4, <3>5, <3>6
  <2>2. CASE tOwes[t] = "discard"
    <3>1. /\ tStats'[t] \in Stats
          /\ tStats'[t].inflight = tStats[t].inflight - 1
          /\ tStats'[t].inbound = tStats[t].inbound
          /\ tStats'[t].outbound = tStats[t].outbound
          /\ tStats'[t].dropped = tStats[t].dropped + 1
          /\ tStats'[t].resent = tStats[t].resent
      BY <1>9, <2>2, RemoveParts, DroppedParts
         DEF CountTarget, vars, targetVars, Afterwards
    <3>2. StatsType'
      BY <1>9, <2>2, <3>1 DEF CountTarget, vars, targetVars, Afterwards
    <3>3. Owing' /\ Counted'
      BY <1>9, <2>2, <3>1, StatsParts DEF CountTarget, vars, targetVars, Afterwards
    <3>4. TargetExact(t)'
      <4>1. /\ target[t] = "select" /\ target'[t] = "select" /\ tOwes'[t] = "none"
        BY <1>9, <2>2 DEF CountTarget, vars, targetVars
      <4>2. /\ HasMonitor => tStats[t].inbound =
                                tStats[t].outbound + tStats[t].dropped + 1
            /\ tStats[t].inflight = 1 + 0 + tStats[t].resent
        BY <2>2, <4>1
      <4>3. /\ tStats[t].inbound \in Nat /\ tStats[t].outbound \in Nat
            /\ tStats[t].dropped \in Nat /\ tStats[t].resent \in Nat
        BY StatsParts
      <4>4. /\ HasMonitor => tStats'[t].inbound =
                                tStats'[t].outbound + tStats'[t].dropped + 0
            /\ tStats'[t].inflight = 0 + 0 + tStats'[t].resent
        BY ONLY <3>1, <4>2, <4>3
      <4> QED
        BY ONLY <4>1, <4>4 DEF TargetExact, One, Unwritten, DiedWithCopy, Holding
    <3>5. \A u \in Targets \ {t} : TargetExact(u)'
      BY <1>9, <2>2, <3>1
         DEF CountTarget, vars, targetVars, Afterwards
    <3>6. \A s \in Sources : SourceExact(s)'
      BY <1>9, <2>2, <3>1
         DEF CountTarget, vars, targetVars, Afterwards
    <3> QED
      BY <3>2, <3>3, <3>4, <3>5, <3>6
  <2>3. CASE tOwes[t] = "resent"
    <3>1. /\ tStats'[t] \in Stats
          /\ tStats'[t].inflight = tStats[t].inflight
          /\ tStats'[t].inbound = tStats[t].inbound
          /\ tStats'[t].outbound = tStats[t].outbound + 1
          /\ tStats'[t].dropped = tStats[t].dropped
          /\ tStats'[t].resent = tStats[t].resent + 1
      BY <1>9, <2>3, OutboundParts, ResentParts
         DEF CountTarget, vars, targetVars, Afterwards
    <3>2. StatsType'
      BY <1>9, <2>3, <3>1 DEF CountTarget, vars, targetVars, Afterwards
    <3>3. Owing' /\ Counted'
      BY <1>9, <2>3, <3>1, StatsParts DEF CountTarget, vars, targetVars, Afterwards
    <3>4. TargetExact(t)'
      BY <1>9, <2>3, <3>1, StatsParts
         DEF CountTarget, vars, targetVars, Afterwards
    <3>5. \A u \in Targets \ {t} : TargetExact(u)'
      BY <1>9, <2>3, <3>1
         DEF CountTarget, vars, targetVars, Afterwards
    <3>6. \A s \in Sources : SourceExact(s)'
      BY <1>9, <2>3, <3>1
         DEF CountTarget, vars, targetVars, Afterwards
    <3> QED
      BY <3>2, <3>3, <3>4, <3>5, <3>6
  <2> QED
    BY <1>9, <2>1, <2>2, <2>3 DEF CountTarget
<1> QED
  BY <1>1, <1>2, <1>3, <1>4, <1>5, <1>6, <1>7, <1>8, <1>9 DEF MTargetStep

\* Every step keeps the accounts.
LEMMA CountInvStep == TypeOK /\ CountInv /\ [MNext]_mVars => CountInv'
<1> SUFFICES ASSUME TypeOK, CountInv, [MNext]_mVars PROVE CountInv'
  OBVIOUS
<1>1. ASSUME NEW s \in Sources, MReaderStep(s)
      PROVE  CountInv'
  BY <1>1, CountStutter DEF MReaderStep, Keep, ReaderStep, ReadFrame, ReadError,
              ReadEOF, targetVars
<1>2. CASE MMainStep
  BY <1>2, CountStutter DEF MMainStep, Keep, MainStep, StopWorkers, WorkersDone,
              StopTargets, TargetsDone, sourceVars, targetVars
<1>3. CASE Keep(Stop)
  BY <1>3, CountStutter DEF Keep, Stop, sourceVars, targetVars
<1>4. CASE ViewStep
  BY <1>4, CountStutter DEF ViewStep, Request, Load, Respond, vars, sourceVars,
              targetVars
<1>5. CASE UNCHANGED mVars
  BY <1>5, CountStutter DEF mVars, vars, sourceVars, targetVars
<1> QED
  BY <1>1, <1>2, <1>3, <1>4, <1>5, CountSourceStep, CountWorkerStep, CountTargetStep
     DEF MNext

-------------------------------------------------------------------------------
(* What a response says.  The counters move on between two loads, but each *)
(* one in one direction; what came in before the first load is bounded by  *)
(* what was out or dropped then, and so by what is out or dropped later.   *)

\* A source connector has counted what it has accepted, and a message that did not
\* decode, after which it is gone.
GarbledOnce ==
    \A s \in Sources :
       /\ src[s] # "dead" => sStats[s].inbound = accepted[s]
       /\ sStats[s].inbound \in {sStats[s].outbound, sStats[s].outbound + 1}

\* What the counters that a request has loaded leave unaccounted for.
ViewBound ==
    /\ view \in View \cup {NoView}
    /\ view # NoView =>
          /\ HasMonitor
          /\ view.at = 1 =>
                view.missing <= StatsOf(view.entry).outbound + Dropped(view.entry) + 1
          /\ view.at # 1 => view.missing <= Dropped(view.entry) + 1

\* The steps of a source connector.
LEMMA GarbledSourceStep ==
    ASSUME TypeOK, CountInv, GarbledOnce, NEW s \in Sources, MSourceStep(s)
    PROVE  GarbledOnce'
<1> USE DEF TypeOK
<1>0. /\ sStats \in [Sources -> Stats] /\ sStats[s] \in Stats
      /\ sStats[s].inbound \in Nat /\ sStats[s].outbound \in Nat
      /\ accepted[s] \in Nat
      /\ sOwes[s] = "sent" => src[s] = "select"
      /\ accepted[s] = sStats[s].outbound
                       + One(src[s] = "outbound" \/ sOwes[s] = "sent")
  BY StatsParts, MaxLinesAssumption
     DEF CountInv, StatsType, Owing, Exact, SourceExact
<1>1. CASE MSourceQuiet(s)
  BY <1>0, <1>1
     DEF MSourceQuiet, Keep, SourceConnect, SourceConnectFails, ReceiveOther,
         StopSource, GarbledOnce, statVars
<1>2. CASE MReceiveLine(s)
  <2>1. /\ src[s] = "select" /\ sOwes[s] = "none" /\ accepted'[s] = accepted[s] + 1
        /\ sStats'[s].inbound = sStats[s].inbound + 1
        /\ sStats'[s].outbound = sStats[s].outbound
        /\ \A r \in Sources \ {s} :
              src'[r] = src[r] /\ sStats'[r] = sStats[r] /\ accepted'[r] = accepted[r]
    BY <1>0, <1>2, ArrivesParts DEF MReceiveLine, ReceiveLine
  <2>2. sStats[s].inbound = accepted[s] /\ accepted[s] = sStats[s].outbound
    BY <1>0, <2>1 DEF GarbledOnce, One
  <2> QED
    BY <1>0, <2>1, <2>2 DEF GarbledOnce
<1>3. CASE MReceiveFailure(s)
  <2>1. /\ src[s] = "select" /\ sOwes[s] = "none" /\ src'[s] = "dead"
        /\ sStats'[s].inbound \in {sStats[s].inbound, sStats[s].inbound + 1}
        /\ sStats'[s].outbound = sStats[s].outbound
        /\ \A r \in Sources \ {s} :
              src'[r] = src[r] /\ sStats'[r] = sStats[r] /\ accepted'[r] = accepted[r]
    BY <1>0, <1>3, ArrivesParts DEF MReceiveFailure, ReceiveFailure
  <2>2. sStats[s].inbound = accepted[s] /\ accepted[s] = sStats[s].outbound
    BY <1>0, <2>1 DEF GarbledOnce, One
  <2> QED
    BY <1>0, <2>1, <2>2 DEF GarbledOnce
<1>4. ASSUME NEW w \in Workers, MDispatch(s, w) PROVE GarbledOnce'
  BY <1>4 DEF MDispatch, Dispatch, GarbledOnce, statVars
<1>5. CASE CountSource(s)
  <2>1. /\ sOwes[s] = "sent" /\ UNCHANGED <<src, accepted>>
        /\ sStats'[s].inbound = sStats[s].inbound
        /\ sStats'[s].outbound = sStats[s].outbound + 1
        /\ \A r \in Sources \ {s} : sStats'[r] = sStats[r]
    BY <1>0, <1>5, OutboundParts, RemoveParts DEF CountSource, vars, sourceVars
  <2>2. sStats[s].inbound = accepted[s] /\ accepted[s] = sStats[s].outbound + 1
    BY <1>0, <2>1 DEF GarbledOnce, One
  <2> QED
    BY <1>0, <2>1, <2>2 DEF GarbledOnce
<1> QED
  BY <1>1, <1>2, <1>3, <1>4, <1>5 DEF MSourceStep

\* Nobody else counts for a source.
LEMMA GarbledStep ==
    ASSUME TypeOK, CountInv, GarbledOnce, [MNext]_mVars PROVE GarbledOnce'
<1>1. CASE UNCHANGED <<src, accepted, sStats>>
  BY <1>1 DEF GarbledOnce
<1> USE DEF sourceVars, statVars
<1>2. ASSUME NEW s \in Sources, MReaderStep(s)
      PROVE  UNCHANGED <<src, accepted, sStats>>
  BY <1>2 DEF MReaderStep, Keep, ReaderStep, ReadFrame, ReadError, ReadEOF
<1>3. ASSUME NEW w \in Workers, MWorkerStep(w)
      PROVE  UNCHANGED <<src, accepted, sStats>>
  BY <1>3 DEF MWorkerStep, MSendToTarget, SendToTarget, MWorkerQuiet, Keep,
              SendToUnknown, FinishLine, StopWorker
<1>4. ASSUME NEW t \in Targets, MTargetStep(t)
      PROVE  UNCHANGED <<src, accepted, sStats>>
  <2>1. CASE TargetStep(t) /\ UNCHANGED sStats
    BY <2>1 DEF TargetStep, TargetConnect, TargetConnectFails, RateLimitPass,
                RateLimitDiscard, RateLimitFallback, SendToFallback,
                FallbackToUnknown, WriteLine, WriteFails, AwaitOk, AwaitRefused,
                StopTarget
  <2>2. CASE CountTarget(t)
    BY <2>2 DEF CountTarget, vars
  <2> QED
    BY <1>4, <2>1, <2>2
       DEF MTargetStep, MTargetQuiet, Keep, MRateLimitDiscard, MSendToFallback,
           MFallbackToUnknown, MWriteLine, MWriteFails, MAwaitOk, MAwaitRefused,
           TargetStep
<1>5. CASE MMainStep \/ Keep(Stop)
  BY <1>1, <1>5 DEF MMainStep, Keep, MainStep, StopWorkers, WorkersDone, StopTargets,
              TargetsDone, Stop
<1>6. CASE ViewStep \/ UNCHANGED mVars
  BY <1>1, <1>6 DEF ViewStep, Request, Load, Respond, mVars, vars
<1> QED
  BY <1>1, <1>2, <1>3, <1>4, <1>5, <1>6, GarbledSourceStep DEF MNext

\* No step takes the counters of what is out and of what was dropped down.
LEMMA CountersGrow ==
    ASSUME CountInv, [MNext]_mVars, NEW e \in Entry
    PROVE  /\ StatsOf(e)'.outbound \in {StatsOf(e).outbound, StatsOf(e).outbound + 1}
           /\ StatsOf(e)'.dropped \in {StatsOf(e).dropped, StatsOf(e).dropped + 1}
<1> DEFINE Grows(a, b) ==
        /\ b.outbound \in {a.outbound, a.outbound + 1}
        /\ b.dropped \in {a.dropped, a.dropped + 1}
<1>0. /\ \A s \in Sources : sStats[s] \in Stats
      /\ \A t \in Targets : tStats[t] \in Stats
      /\ sStats \in [Sources -> Stats] /\ tStats \in [Targets -> Stats]
      /\ tOwes \in [Targets -> {"none", "ok", "discard", "resent"}]
  BY DEF CountInv, StatsType
<1>1. \A st \in Stats :
         /\ Grows(st, st) /\ Grows(st, Arrives(st))
         /\ Grows(st, IncrementMessagesOutbound(st))
         /\ Grows(st, IncrementDroppedMessages(st))
  BY StatsParts, ArrivesParts, OutboundParts, DroppedParts
<1>2. \A st \in Stats :
         Grows(st, RemoveInFlightMessage(IncrementMessagesOutbound(st)))
  BY StatsParts, OutboundParts, RemoveParts
<1>3. \A st \in Stats, o \in {"ok", "discard", "resent"} : Grows(st, Afterwards(o, st))
  BY StatsParts, OutboundParts, RemoveParts, DroppedParts, ResentParts DEF Afterwards
<1> HIDE DEF Grows
<1>4. \A s \in Sources : Grows(sStats[s], sStats'[s])
  <2>1. CASE UNCHANGED sStats
    BY <1>0, <1>1, <2>1
  <2>2. ASSUME NEW s \in Sources, MSourceStep(s)
        PROVE  \A r \in Sources : Grows(sStats[r], sStats'[r])
    BY <1>0, <1>1, <1>2, <2>2
       DEF MSourceStep, MSourceQuiet, Keep, MReceiveLine, MReceiveFailure, MDispatch,
           CountSource, statVars
  <2>3. \/ \E s \in Sources : MSourceStep(s)
        \/ UNCHANGED sStats
    BY DEF MNext, mVars, statVars, MReaderStep, MWorkerStep, MSendToTarget,
           MWorkerQuiet, MTargetStep, MTargetQuiet, MRateLimitDiscard, MSendToFallback,
           MFallbackToUnknown, MWriteLine, MWriteFails, MAwaitOk, MAwaitRefused,
           CountTarget, MMainStep, Keep, ViewStep, Request, Load, Respond
  <2> QED
    BY <2>1, <2>2, <2>3
<1>5. \A t \in Targets : Grows(tStats[t], tStats'[t])
  <2>1. CASE UNCHANGED tStats
    BY <1>0, <1>1, <2>1
  <2>2. ASSUME NEW w \in Workers, NEW u \in Targets, MSendToTarget(w, u)
        PROVE  \A t \in Targets : Grows(tStats[t], tStats'[t])
    BY <1>0, <1>1, <2>2 DEF MSendToTarget
  <2>3. ASSUME NEW u \in Targets, CountTarget(u)
        PROVE  \A t \in Targets : Grows(tStats[t], tStats'[t])
    BY <1>0, <1>1, <1>3, <2>3 DEF CountTarget
  <2>4. ASSUME NEW u \in Targets, MTargetStep(u), ~CountTarget(u)
        PROVE  \A t \in Targets : Grows(tStats[t], tStats'[t])
    BY <1>0, <1>1, <2>4
       DEF MTargetStep, MTargetQuiet, Keep, MRateLimitDiscard, MSendToFallback,
           MFallbackToUnknown, MWriteLine, MWriteFails, MAwaitOk, MAwaitRefused,
           statVars
  <2>5. \/ \E u \in Targets : MTargetStep(u)
        \/ \E w \in Workers, u \in Targets : MSendToTarget(w, u)
        \/ UNCHANGED tStats
    BY DEF MNext, mVars, statVars, MReaderStep, MWorkerStep, MWorkerQuiet, MSourceStep,
           MSourceQuiet, MReceiveLine, MReceiveFailure, MDispatch, CountSource,
           MMainStep, Keep, ViewStep, Request, Load, Respond
  <2> QED
    BY <2>1, <2>2, <2>3, <2>4, <2>5
<1> QED
  BY <1>4, <1>5 DEF Entry, StatsOf, Grows

\* What came in is out or was dropped, but for one; and what is in flight is counted
\* without wrapping round.
LEMMA EntryBounds ==
    ASSUME TypeOK, CountInv, GarbledOnce, HasMonitor, NEW e \in Entry
    PROVE  /\ StatsOf(e) \in Stats
           /\ StatsOf(e).inbound <= StatsOf(e).outbound + StatsOf(e).dropped + 1
           /\ StatsOf(e).inflight >= 0
<1>1. ASSUME NEW s \in Sources
      PROVE  /\ sStats[s] \in Stats
             /\ sStats[s].inbound <= sStats[s].outbound + sStats[s].dropped + 1
             /\ sStats[s].inflight >= 0
  <2>1. sStats[s] \in Stats
    BY DEF CountInv, StatsType
  <2>2. sStats[s].inflight = sStats[s].inbound - sStats[s].outbound
    BY DEF CountInv, Exact, SourceExact
  <2> QED
    BY <2>1, <2>2, StatsParts DEF GarbledOnce
<1>2. ASSUME NEW t \in Targets
      PROVE  /\ tStats[t] \in Stats
             /\ tStats[t].inbound <= tStats[t].outbound + tStats[t].dropped + 1
             /\ tStats[t].inflight >= 0
  <2>1. tStats[t] \in Stats
    BY DEF CountInv, StatsType
  <2>2. /\ tStats[t].inbound = tStats[t].outbound + tStats[t].dropped + One(Unwritten(t))
        /\ tStats[t].inflight =
              One(target[t] \in Holding \/ tOwes[t] # "none")
              + One(DiedWithCopy(t)) + tStats[t].resent
    BY DEF CountInv, Exact, TargetExact
  <2>3. \A b \in BOOLEAN : One(b) \in {0, 1}
    BY DEF One
  <2>4. /\ One(Unwritten(t)) \in {0, 1} /\ One(DiedWithCopy(t)) \in {0, 1}
        /\ One(target[t] \in Holding \/ tOwes[t] # "none") \in {0, 1}
    BY DEF One
  <2> QED
    BY <2>1, <2>2, <2>4, StatsParts
<1> QED
  BY <1>1, <1>2 DEF Entry, StatsOf

\* A request loads one counter after the other.
LEMMA ViewStepBound ==
    ASSUME TypeOK, CountInv, GarbledOnce, ViewBound, ViewStep PROVE ViewBound'
<1>0. ASSUME NEW e \in Entry PROVE StatsOf(e)' = StatsOf(e) /\ Dropped(e)' = Dropped(e)
  BY DEF ViewStep, Request, Load, Respond, statVars, StatsOf, Dropped
<1>1. Len(LoadOrder) = 3 /\ LoadOrder[1] = "inbound" /\ LoadOrder[2] = "outbound"
      /\ LoadOrder[3] = "inflight"
  BY DEF LoadOrder
<1>2. ASSUME NEW e \in Shown, Request(e) PROVE ViewBound'
  <2>1. e \in Entry /\ HasMonitor
    BY <1>2, ShownAssumption DEF Request
  <2>2. view' = [at |-> 1, entry |-> e, missing |-> 0 + StatsOf(e).inbound]
    BY <1>1, <1>2 DEF Request, Loaded
  <2>3. /\ StatsOf(e).inbound \in Nat
        /\ StatsOf(e).inbound <= StatsOf(e).outbound + Dropped(e) + 1
    BY <2>1, EntryBounds, StatsParts DEF Dropped
  <2>4. view' \in View /\ view'.at = 1 /\ view'.entry = e
        /\ view'.missing = StatsOf(e).inbound
    BY <1>1, <2>1, <2>2, <2>3 DEF View
  <2>5. StatsOf(e)' = StatsOf(e) /\ Dropped(e)' = Dropped(e)
    BY <1>0, <2>1
  <2> QED
    BY <2>1, <2>3, <2>4, <2>5 DEF ViewBound, StatsOf, Dropped
<1>3. CASE Load
  <2>1. view \in View /\ view.at \in {1, 2}
    BY <1>1, <1>3 DEF Load, ViewBound, NoView
  <2>2. view.entry \in Entry /\ view.missing \in Int /\ view # NoView
    BY <2>1 DEF View, NoView
  <2> PICK e \in Entry, m \in Int : e = view.entry /\ m = view.missing
    BY <2>2
  <2>3. /\ StatsOf(e).outbound \in Nat /\ StatsOf(e).inflight \in Nat
        /\ StatsOf(e).dropped \in Nat /\ HasMonitor
    BY <2>2, EntryBounds, StatsParts DEF ViewBound
  <2>4. view' = [at |-> view.at + 1, entry |-> e,
                 missing |-> Loaded(m, e, LoadOrder[view.at + 1])]
    BY <1>3 DEF Load
  <2>5. StatsOf(e)' = StatsOf(e) /\ Dropped(e)' = Dropped(e)
    BY <1>0, <2>2
  <2>6. CASE view.at = 1
    <3> DEFINE q == m - StatsOf(e).outbound
    <3>1. view' = [at |-> 2, entry |-> e, missing |-> q] /\ q \in Int
      BY <1>1, <2>3, <2>4, <2>6 DEF Loaded
    <3> HIDE DEF q
    <3>2. view'.at = 2 /\ view'.entry = e /\ view'.missing = q /\ view' \in View
      BY <1>1, <3>1 DEF View
    <3>3. m <= StatsOf(e).outbound + Dropped(e) + 1
      BY <2>2, <2>6 DEF ViewBound
    <3>4. view'.missing <= Dropped(e) + 1
      BY <2>3, <3>2, <3>3 DEF Dropped, q
    <3> QED
      BY <2>3, <2>5, <3>2, <3>4 DEF ViewBound, StatsOf, Dropped
  <2>7. CASE view.at = 2
    <3> DEFINE q == m - StatsOf(e).inflight
    <3>1. view' = [at |-> 3, entry |-> e, missing |-> q] /\ q \in Int
      BY <1>1, <2>3, <2>4, <2>7 DEF Loaded
    <3> HIDE DEF q
    <3>2. view'.at = 3 /\ view'.entry = e /\ view'.missing = q /\ view' \in View
      BY <1>1, <3>1 DEF View
    <3>3. m <= Dropped(e) + 1
      BY <2>2, <2>7 DEF ViewBound
    <3>4. view'.missing <= Dropped(e) + 1
      BY <2>3, <3>2, <3>3 DEF Dropped, q
    <3> QED
      BY <2>3, <2>5, <3>2, <3>4 DEF ViewBound, StatsOf, Dropped
  <2> QED
    BY <2>1, <2>6, <2>7
<1>4. CASE Respond
  BY <1>4 DEF Respond, ViewBound
<1> QED
  BY <1>2, <1>3, <1>4 DEF ViewStep

\* While the counters move on, what is missing stays within what they allow.
LEMMA ViewWaits ==
    ASSUME CountInv, ViewBound, [MNext]_mVars, UNCHANGED view PROVE ViewBound'
<1>1. CASE view = NoView
  BY <1>1 DEF ViewBound
<1>2. CASE view # NoView
  <2>1. view \in View /\ view.entry \in Entry /\ view.missing \in Int
    BY <1>2 DEF ViewBound, View
  <2> PICK e \in Entry : e = view.entry
    BY <2>1
  <2>2. StatsOf(e).outbound \in Nat /\ StatsOf(e).dropped \in Nat
    BY <2>1, StatsParts DEF CountInv, StatsType, Entry, StatsOf
  <2>3. /\ StatsOf(e)'.outbound \in {StatsOf(e).outbound, StatsOf(e).outbound + 1}
        /\ StatsOf(e)'.dropped \in {StatsOf(e).dropped, StatsOf(e).dropped + 1}
    BY CountersGrow
  <2> QED
    BY <1>2, <2>1, <2>2, <2>3 DEF ViewBound, Dropped
<1> QED
  BY <1>1, <1>2

\* The invariant of a request.
LEMMA ViewInvariant == MSpec => [](TypeOK /\ CountInv /\ GarbledOnce /\ ViewBound)
<1>1. MSpec => []TypeOK
  BY CountingIsHarmless, TypeCorrect, PTL
<1>2. MInit => GarbledOnce /\ ViewBound
  BY DEF MInit, Init, GarbledOnce, ViewBound, NewStats
<1>3. ASSUME TypeOK, CountInv, GarbledOnce, ViewBound, [MNext]_mVars PROVE ViewBound'
  <2>1. CASE ViewStep
    BY <1>3, <2>1, ViewStepBound
  <2>2. ViewStep \/ UNCHANGED view
    BY <1>3
       DEF MNext, mVars, MReaderStep, MSourceStep, MSourceQuiet, MReceiveLine,
           MReceiveFailure, MDispatch, CountSource, MWorkerStep, MSendToTarget,
           MWorkerQuiet, MTargetStep, MTargetQuiet, MRateLimitDiscard, MSendToFallback,
           MFallbackToUnknown, MWriteLine, MWriteFails, MAwaitOk, MAwaitRefused,
           CountTarget, MMainStep, Keep
  <2> QED
    BY <1>3, <2>1, <2>2, ViewWaits
<1>4. TypeOK /\ CountInv /\ GarbledOnce /\ ViewBound /\ [MNext]_mVars
         => GarbledOnce' /\ ViewBound'
  BY <1>3, GarbledStep
<1> QED
  BY <1>1, <1>2, <1>4, CountInit, CountInvStep, PTL DEF MSpec

\* What the exact accounts say of the counters of every connection.
LEMMA ExactAccounts ==
    ASSUME TypeOK, CountInv, GarbledOnce PROVE Accounts
<1>1. ASSUME NEW t \in Targets PROVE TargetAccount(t)
  <2>1. TargetExact(t) /\ tStats[t] \in Stats
    BY DEF CountInv, StatsType, Exact
  <2>2. tStats[t].resent \in Nat /\ tStats[t].inflight \in Int
    BY <2>1, StatsParts
  <2>3. PICK b, d : b = TargetBusy(t) /\ d = One(DiedWithCopy(t))
    OBVIOUS
  <2>4. b \in {0, 1} /\ d \in {0, 1} /\ (target[t] # "dead" => d = 0)
    BY <2>3 DEF TargetBusy, One, DiedWithCopy
  <2>5. tStats[t].inflight = b + d + tStats[t].resent
    BY <2>1, <2>3 DEF TargetExact, TargetBusy
  <2>6. /\ tStats[t].inflight >= b
        /\ target[t] # "dead" /\ tStats[t].resent = 0 => tStats[t].inflight = b
    BY ONLY <2>2, <2>4, <2>5
  <2> QED
    BY <2>1, <2>3, <2>6 DEF TargetExact, TargetAccount
<1>2. ASSUME NEW s \in Sources PROVE SourceAccount(s)
  <2>1. SourceExact(s) /\ sStats[s] \in Stats /\ accepted[s] \in Nat
    BY MaxLinesAssumption DEF CountInv, StatsType, Exact, TypeOK
  <2>2. /\ sStats[s].inbound \in Nat /\ sStats[s].outbound \in Nat
        /\ sStats[s].inbound \in {sStats[s].outbound, sStats[s].outbound + 1}
        /\ src[s] # "dead" => sStats[s].inbound = accepted[s]
    BY <2>1, StatsParts DEF GarbledOnce
  <2>3. PICK b : b = SourceBusy(s)
    OBVIOUS
  <2>4. b \in {0, 1} /\ (src[s] = "dead" => b = 0)
    BY <2>3 DEF SourceBusy, One, CountInv, Owing
  <2>5. /\ accepted[s] = sStats[s].outbound + b
        /\ sStats[s].inflight = sStats[s].inbound - sStats[s].outbound
    BY <2>1, <2>3 DEF SourceExact, SourceBusy
  <2>6. sStats[s].inflight >= b /\ (src[s] # "dead" => sStats[s].inflight = b)
    BY ONLY <2>1, <2>2, <2>4, <2>5
  <2> QED
    BY <2>3, <2>5, <2>6 DEF SourceAccount
<1> QED
  BY <1>1, <1>2 DEF Accounts

\* The counters of every connection tell where its messages are (connector.go
\* 197-258, 275-299 and 374-403), and the in-flight ones never wrap round.
THEOREM CountersAddUp == MSpec => []Accounts
  BY ExactAccounts, ViewInvariant, PTL

\* Every variable of the counters and of a request has its type.
THEOREM CounterTypes == MSpec => []MTypeOK
<1>1. TypeOK /\ CountInv /\ GarbledOnce /\ ViewBound => MTypeOK
  BY DEF CountInv, StatsType, ViewBound, MTypeOK
<1> QED
  BY <1>1, ViewInvariant, PTL

\* A response of GetSourcesRoute or GetTargetsRoute (sources.go 71-80, targets.go
\* 84-94) accounts for every message it says came in but for one, however many are
\* counted between the loads and whichever entry is asked for.
THEOREM ResponsesAccount == MSpec => []ViewMissesAtMostOne
<1>1. ViewBound => ViewMissesAtMostOne
  <2>1. Len(LoadOrder) = 3
    BY DEF LoadOrder
  <2> QED
    BY <2>1 DEF ViewBound, ViewMissesAtMostOne, NoView
<1> QED
  BY <1>1, ViewInvariant, PTL

-------------------------------------------------------------------------------
(* Sums over a finite set.  SumFunctionOnSet picks one element after the   *)
(* other; what it computes is shown by induction, in the form of a set of  *)
(* sets to which a set belongs when its proper subsets do.                 *)

\* Induction over the subsets of a finite set.
LEMMA SubsetInduction ==
    ASSUME NEW S, IsFiniteSet(S), NEW P,
           \A T \in SUBSET S : (\A U \in SUBSET T : U # T => U \in P) => T \in P
    PROVE  \A T \in SUBSET S : T \in P
<1> SUFFICES ASSUME ~(\A T \in SUBSET S : T \in P) PROVE FALSE
  OBVIOUS
<1> DEFINE Q == {T \in SUBSET S : T \notin P}
<1>1. IsWellFoundedOn(StrictSubsetOrdering(S), SUBSET S)
  <2>1. IsWellFoundedOn(StrictSubsetOrdering(S), FiniteSubsetsOf(S))
    BY FS_StrictSubsetOrderingWellFounded
  <2>2. FiniteSubsetsOf(S) = SUBSET S
    BY FS_FiniteSubsetsOfFinite
  <2> QED
    BY <2>1, <2>2
<1>2. Q \subseteq SUBSET S /\ Q # {}
  OBVIOUS
<1>3. PICK T \in Q : \A U \in Q : ~(<<U, T>> \in StrictSubsetOrdering(S))
  <2> HIDE DEF Q
  <2> QED
    BY <1>1, <1>2, WFMin
<1>4. ASSUME NEW U \in SUBSET T, U # T PROVE U \in P
  <2>1. U \in SUBSET S
    BY <1>3
  <2>2. <<U, T>> \in StrictSubsetOrdering(S)
    BY <1>3, <1>4, <2>1 DEF StrictSubsetOrdering
  <2> QED
    BY <1>3, <2>1, <2>2
<1> QED
  BY <1>3, <1>4

\* The element of s that a fold picks first.
Some(s) == CHOOSE x \in s : TRUE

\* f is the function by which SumFunctionOnSet(v, S) is defined.
SumsUp(f, v, S) ==
    f = [s \in SUBSET S |-> IF s = {} THEN 0 ELSE v[Some(s)] + f[s \ {Some(s)}]]

\* The element that is picked, and the smaller set.
LEMMA SomeIsIn ==
    ASSUME NEW s, s # {}
    PROVE  Some(s) \in s /\ s \ {Some(s)} # s
  BY DEF Some

\* The smaller set has a name.
LEMMA SmallerSet ==
    ASSUME NEW s, s # {}
    PROVE  \E u \in SUBSET s : u = s \ {Some(s)} /\ u # s
<1>1. PICK u : u = s \ {Some(s)}
  OBVIOUS
<1>2. u \subseteq s /\ u # s
  BY <1>1, SomeIsIn
<1> QED
  BY <1>1, <1>2

\* If there is such a function then the sum is its value.
LEMMA SumIsValue ==
    ASSUME NEW v, NEW S, \E f : SumsUp(f, v, S)
    PROVE  \E f : SumsUp(f, v, S) /\ SumFunctionOnSet(v, S) = f[S]
<1> DEFINE g == CHOOSE f : SumsUp(f, v, S)
<1>1. SumsUp(g, v, S)
  OBVIOUS
<1>2. SumFunctionOnSet(v, S) = g[S]
  BY DEF SumFunctionOnSet, FoldFunctionOnSet, MapThenFoldSet, SumsUp, Some
<1> QED
  BY <1>1, <1>2

\* The values of such a function.
LEMMA SumsUpAt ==
    ASSUME NEW v, NEW S, NEW f, SumsUp(f, v, S), NEW s \in SUBSET S
    PROVE  f[s] = IF s = {} THEN 0 ELSE v[Some(s)] + f[s \ {Some(s)}]
  BY DEF SumsUp

\* There is only one, whatever the set it is restricted to.
LEMMA SumsUpOnce ==
    ASSUME NEW v, NEW S, IsFiniteSet(S), NEW f, SumsUp(f, v, S),
           NEW T \in SUBSET S, NEW g, SumsUp(g, v, T)
    PROVE  \A s \in SUBSET T : f[s] = g[s]
<1> DEFINE P == {s \in SUBSET T : f[s] = g[s]}
<1>1. IsFiniteSet(T)
  BY FS_Subset
<1>2. ASSUME NEW s \in SUBSET T, \A u \in SUBSET s : u # s => u \in P
      PROVE  s \in P
  <2>1. CASE s = {}
    <3>1. f[s] = 0
      BY <2>1, SumsUpAt
    <3>2. g[s] = 0
      BY <2>1, SumsUpAt
    <3> QED
      BY <3>1, <3>2
  <2>2. CASE s # {}
    <3>1. PICK u \in SUBSET s : u = s \ {Some(s)} /\ u # s
      BY <2>2, SmallerSet
    <3>2. f[u] = g[u]
      BY <1>2, <3>1
    <3>3. f[s] = v[Some(s)] + f[u]
      BY <2>2, <3>1, SumsUpAt
    <3>4. g[s] = v[Some(s)] + g[u]
      BY <2>2, <3>1, SumsUpAt
    <3> QED
      BY <3>2, <3>3, <3>4
  <2> QED
    BY <2>1, <2>2
<1>3. \A s \in SUBSET T : s \in P
  <2> HIDE DEF P
  <2> QED
    BY <1>1, <1>2, SubsetInduction
<1> QED
  BY <1>3

\* There is one.
LEMMA SumsUpExists ==
    ASSUME NEW v, NEW S, IsFiniteSet(S)
    PROVE  \E f : SumsUp(f, v, S)
<1> DEFINE P == {T \in SUBSET S : \E f : SumsUp(f, v, T)}
           Sum(s) == SumFunctionOnSet(v, s)
<1>1. ASSUME NEW T \in SUBSET S, \A U \in SUBSET T : U # T => U \in P
      PROVE  T \in P
  <2> DEFINE g == [s \in SUBSET T |->
                      IF s = {} THEN 0 ELSE v[Some(s)] + Sum(s \ {Some(s)})]
  <2>1. ASSUME NEW u \in SUBSET T, u # T
        PROVE  Sum(u) = g[u]
    <3>1. PICK f : SumsUp(f, v, u) /\ Sum(u) = f[u]
      BY <1>1, <2>1, SumIsValue
    <3>2. CASE u = {}
      BY <3>1, <3>2, SumsUpAt
    <3>3. CASE u # {}
      <4>1. PICK w \in SUBSET u : w = u \ {Some(u)} /\ w # u
        BY <3>3, SmallerSet
      <4>2. w \in SUBSET T /\ w # T
        BY <4>1
      <4>3. PICK h : SumsUp(h, v, w) /\ Sum(w) = h[w]
        BY <1>1, <4>2, SumIsValue
      <4>4. IsFiniteSet(u)
        BY FS_Subset
      <4>5. f[w] = h[w]
        BY <3>1, <4>3, <4>4, SumsUpOnce
      <4>6. f[u] = v[Some(u)] + f[w]
        BY <3>1, <3>3, <4>1, SumsUpAt
      <4>7. g[u] = v[Some(u)] + Sum(w)
        BY <3>3, <4>1
      <4> QED
        BY <3>1, <4>3, <4>5, <4>6, <4>7
    <3> QED
      BY <3>2, <3>3
  <2>2. ASSUME NEW s \in SUBSET T
        PROVE  g[s] = IF s = {} THEN 0 ELSE v[Some(s)] + g[s \ {Some(s)}]
    <3>1. CASE s = {}
      BY <3>1
    <3>2. CASE s # {}
      <4>1. PICK u \in SUBSET s : u = s \ {Some(s)} /\ u # s
        BY <3>2, SmallerSet
      <4>2. u \in SUBSET T /\ u # T
        BY <4>1
      <4>3. Sum(u) = g[u]
        BY <2>1, <4>2
      <4>4. g[s] = v[Some(s)] + Sum(u)
        BY <3>2, <4>1
      <4> HIDE DEF g, Sum
      <4> QED
        BY <3>2, <4>1, <4>3, <4>4
    <3> QED
      BY <3>1, <3>2
  <2>3. g = [s \in SUBSET T |-> g[s]]
    OBVIOUS
  <2> HIDE DEF g
  <2>4. SumsUp(g, v, T)
    BY <2>2, <2>3 DEF SumsUp
  <2> QED
    BY <2>4
<1>2. S \in P
  <2>1. \A T \in SUBSET S : T \in P
    <3> HIDE DEF P
    <3> QED
      BY <1>1, SubsetInduction
  <2> QED
    BY <2>1
<1> QED
  BY <1>2

\* The sum over a finite set: zero, or an element and the sum over the others.
LEMMA SumUnfolds ==
    ASSUME NEW v, NEW S, IsFiniteSet(S)
    PROVE  SumFunctionOnSet(v, S) =
              IF S = {} THEN 0
              ELSE v[Some(S)] + SumFunctionOnSet(v, S \ {Some(S)})
<1>1. PICK f : SumsUp(f, v, S) /\ SumFunctionOnSet(v, S) = f[S]
  BY SumsUpExists, SumIsValue
<1>2. CASE S = {}
  BY <1>1, <1>2, SumsUpAt
<1>3. CASE S # {}
  <2>1. PICK u \in SUBSET S : u = S \ {Some(S)} /\ IsFiniteSet(u)
    BY <1>3, SmallerSet, FS_Subset
  <2>2. PICK g : SumsUp(g, v, u) /\ SumFunctionOnSet(v, u) = g[u]
    BY <2>1, SumsUpExists, SumIsValue
  <2>3. f[u] = g[u]
    BY <1>1, <2>1, <2>2, SumsUpOnce
  <2>4. f[S] = v[Some(S)] + f[u]
    BY <1>1, <1>3, <2>1, SumsUpAt
  <2> QED
    BY <1>1, <1>3, <2>1, <2>2, <2>3, <2>4
<1> QED
  BY <1>2, <1>3

\* A sum of integers is one, and depends on nothing but its summands.
LEMMA SumSame ==
    ASSUME NEW S, IsFiniteSet(S), NEW v, NEW w,
           \A x \in S : v[x] \in Int /\ w[x] = v[x]
    PROVE  SumFunctionOnSet(v, S) \in Int
           /\ SumFunctionOnSet(w, S) = SumFunctionOnSet(v, S)
<1> DEFINE Good(s) == SumFunctionOnSet(v, s) \in Int
                      /\ SumFunctionOnSet(w, s) = SumFunctionOnSet(v, s)
           P == {s \in SUBSET S : Good(s)}
<1>1. ASSUME NEW s \in SUBSET S, \A u \in SUBSET s : u # s => u \in P
      PROVE  s \in P
  <2>0. IsFiniteSet(s)
    BY FS_Subset
  <2>1. CASE s = {}
    <3>1. SumFunctionOnSet(v, s) = 0
      BY <2>0, <2>1, SumUnfolds
    <3>2. SumFunctionOnSet(w, s) = 0
      BY <2>0, <2>1, SumUnfolds
    <3> QED
      BY <3>1, <3>2
  <2>2. CASE s # {}
    <3>1. PICK u \in SUBSET s : u = s \ {Some(s)} /\ u # s
      BY <2>2, SmallerSet
    <3>2. Good(u)
      BY <1>1, <3>1
    <3>3. v[Some(s)] \in Int /\ w[Some(s)] = v[Some(s)]
      BY <2>2, SomeIsIn
    <3>4. /\ SumFunctionOnSet(v, s) = v[Some(s)] + SumFunctionOnSet(v, u)
          /\ SumFunctionOnSet(w, s) = w[Some(s)] + SumFunctionOnSet(w, u)
      BY <2>0, <2>2, <3>1, SumUnfolds
    <3> QED
      BY <3>2, <3>3, <3>4
  <2> QED
    BY <2>1, <2>2
<1>2. S \in P
  <2>1. \A s \in SUBSET S : s \in P
    <3> HIDE DEF P
    <3> QED
      BY <1>1, SubsetInduction
  <2> QED
    BY <2>1
<1> QED
  BY <1>2

\* When one summand changes, the sum changes by as much.
LEMMA SumPoint ==
    ASSUME NEW S, IsFiniteSet(S), NEW v, NEW w, NEW a \in S, w[a] \in Int,
           \A x \in S : v[x] \in Int, \A x \in S \ {a} : w[x] = v[x]
    PROVE  SumFunctionOnSet(w, S) = SumFunctionOnSet(v, S) + (w[a] - v[a])
<1> DEFINE Good(s) == a \in s => SumFunctionOnSet(w, s) =
                                    SumFunctionOnSet(v, s) + (w[a] - v[a])
           P == {s \in SUBSET S : Good(s)}
<1>1. ASSUME NEW s \in SUBSET S, \A u \in SUBSET s : u # s => u \in P
      PROVE  s \in P
  <2> SUFFICES ASSUME a \in s
               PROVE  SumFunctionOnSet(w, s) =
                         SumFunctionOnSet(v, s) + (w[a] - v[a])
    OBVIOUS
  <2>0. IsFiniteSet(s)
    BY FS_Subset
  <2>1. PICK u \in SUBSET s : u = s \ {Some(s)} /\ u # s /\ IsFiniteSet(u)
    BY <2>0, SmallerSet, FS_Subset
  <2>2. /\ SumFunctionOnSet(v, s) = v[Some(s)] + SumFunctionOnSet(v, u)
        /\ SumFunctionOnSet(w, s) = w[Some(s)] + SumFunctionOnSet(w, u)
    BY <2>0, <2>1, SumUnfolds
  <2>3. SumFunctionOnSet(v, u) \in Int
    BY <2>1, SumSame
  <2>4. v[a] \in Int /\ w[a] \in Int /\ Some(s) \in S /\ v[Some(s)] \in Int
    BY SomeIsIn
  <2>5. CASE Some(s) = a
    <3>1. SumFunctionOnSet(w, u) = SumFunctionOnSet(v, u)
      BY <2>1, <2>5, SumSame
    <3> QED
      BY <2>2, <2>3, <2>4, <2>5, <3>1
  <2>6. CASE Some(s) # a
    <3>1. SumFunctionOnSet(w, u) = SumFunctionOnSet(v, u) + (w[a] - v[a])
      BY <1>1, <2>1, <2>6
    <3>2. w[Some(s)] = v[Some(s)]
      BY <2>4, <2>6
    <3> QED
      BY <2>2, <2>3, <2>4, <3>1, <3>2
  <2> QED
    BY <2>5, <2>6
<1>2. S \in P
  <2>1. \A s \in SUBSET S : s \in P
    <3> HIDE DEF P
    <3> QED
      BY <1>1, SubsetInduction
  <2> QED
    BY <2>1
<1> QED
  BY <1>2

\* A sum of zeros.
LEMMA SumZero ==
    ASSUME NEW S, IsFiniteSet(S), NEW v, \A x \in S : v[x] = 0
    PROVE  SumFunctionOnSet(v, S) = 0
<1> DEFINE P == {s \in SUBSET S : SumFunctionOnSet(v, s) = 0}
<1>1. ASSUME NEW s \in SUBSET S, \A u \in SUBSET s : u # s => u \in P
      PROVE  s \in P
  <2>0. IsFiniteSet(s)
    BY FS_Subset
  <2>1. CASE s = {}
    BY <2>0, <2>1, SumUnfolds
  <2>2. CASE s # {}
    <3>1. PICK u \in SUBSET s : u = s \ {Some(s)} /\ u # s
      BY <2>2, SmallerSet
    <3>2. SumFunctionOnSet(v, u) = 0
      BY <1>1, <3>1
    <3>3. v[Some(s)] = 0
      BY <2>2, SomeIsIn
    <3>4. SumFunctionOnSet(v, s) = v[Some(s)] + SumFunctionOnSet(v, u)
      BY <2>0, <2>2, <3>1, SumUnfolds
    <3> QED
      BY <3>2, <3>3, <3>4
  <2> QED
    BY <2>1, <2>2
<1>2. S \in P
  <2>1. \A s \in SUBSET S : s \in P
    <3> HIDE DEF P
    <3> QED
      BY <1>1, SubsetInduction
  <2> QED
    BY <2>1
<1> QED
  BY <1>2

-------------------------------------------------------------------------------
(* The counters of all targets tell what has become of the copies.  Each   *)
(* step moves the counters of one target and the outcome of one copy, if   *)
(* any; so the sums and the numbers move by as much (TellMoves).           *)

\* Total(f) of any counters st.
TotalOf(st, f) == SumFunctionOnSet([t \in Targets |-> st[t][f]], Targets)

\* The total moves as the counter of the one target does that a step concerns.
LEMMA TotalMoves ==
    ASSUME NEW st \in [Targets -> Stats], NEW sv \in [Targets -> Stats],
           NEW t \in Targets, \A u \in Targets \ {t} : sv[u] = st[u],
           NEW f \in {"outbound", "resent", "dropped"}
    PROVE  /\ TotalOf(st, f) \in Int
           /\ TotalOf(sv, f) = TotalOf(st, f) + (sv[t][f] - st[t][f])
<1>1. PICK v : v = [u \in Targets |-> st[u][f]]
  OBVIOUS
<1>2. PICK w : w = [u \in Targets |-> sv[u][f]]
  OBVIOUS
<1>3. \A x \in Stats : x[f] \in Int
  BY StatsParts
<1>4. \A u \in Targets : /\ v[u] = st[u][f] /\ v[u] \in Int
                          /\ w[u] = sv[u][f] /\ w[u] \in Int
  BY <1>1, <1>2, <1>3
<1>5. \A u \in Targets \ {t} : w[u] = v[u]
  BY <1>4
<1>6. IsFiniteSet(Targets)
  BY TargetsAssumption
<1>7. SumFunctionOnSet(v, Targets) \in Int
  <2>1. \A u \in Targets : v[u] \in Int /\ v[u] = v[u]
    BY ONLY <1>4
  <2> QED
    BY ONLY <1>6, <2>1, SumSame
<1>8. SumFunctionOnSet(w, Targets) = SumFunctionOnSet(v, Targets) + (w[t] - v[t])
  <2>1. t \in Targets /\ w[t] \in Int /\ \A u \in Targets : v[u] \in Int
    BY <1>4
  <2> QED
    BY ONLY <1>5, <1>6, <2>1, SumPoint
<1> QED
  BY <1>1, <1>2, <1>4, <1>7, <1>8 DEF TotalOf

\* The size of a set moves as one element comes or goes.
LEMMA SizeMoves ==
    ASSUME NEW S, IsFiniteSet(S), NEW T, NEW x, T \ {x} = S \ {x}
    PROVE  /\ Cardinality(S) \in Nat
           /\ Cardinality(T) = Cardinality(S) + (One(x \in T) - One(x \in S))
<1>0. Cardinality(S) \in Nat
  BY FS_CardinalityType
<1>1. CASE x \in T /\ x \notin S
  <2>1. T = S \cup {x}
    BY <1>1
  <2>2. Cardinality(T) = Cardinality(S) + 1
    BY <1>1, <2>1, FS_AddElement
  <2> QED
    BY <1>0, <1>1, <2>2 DEF One
<1>2. CASE x \notin T /\ x \in S
  <2>1. T = S \ {x}
    BY <1>2
  <2>2. Cardinality(T) = Cardinality(S) - 1
    BY <1>2, <2>1, FS_RemoveElement
  <2> QED
    BY <1>0, <1>2, <2>2 DEF One
<1>3. CASE x \in T <=> x \in S
  <2>1. T = S
    BY <1>3
  <2> QED
    BY <1>0, <1>3, <2>1 DEF One
<1> QED
  BY <1>1, <1>2, <1>3

\* How much the membership of one element moves the size of a set.
Move(now, before) == One(now) - One(before)

\* Of the copy that a step concerns; c is no copy when it concerns none.
Moved(c, o) == Move(c \in Copy /\ outcome'[c] = o, c \in Copy /\ outcome[c] = o)

\* The number of copies with an outcome moves as the outcome of the one copy does.
LEMMA NumberMoves ==
    ASSUME NEW c, \A d \in Copy \ {c} : outcome'[d] = outcome[d], NEW o
    PROVE  Number(o) \in Nat /\ Number(o)' = Number(o) + Moved(c, o)
<1>1. PICK S : S = {d \in Copy : outcome[d] = o}
  OBVIOUS
<1>2. PICK T : T = {d \in Copy : outcome'[d] = o}
  OBVIOUS
<1>3. IsFiniteSet(S)
  BY <1>1, CopyFinite, FS_Subset
<1>4. T \ {c} = S \ {c}
  BY <1>1, <1>2
<1>5. /\ One(c \in T) = One(c \in Copy /\ outcome'[c] = o)
      /\ One(c \in S) = One(c \in Copy /\ outcome[c] = o)
  BY <1>1, <1>2 DEF One
<1>6. /\ Cardinality(S) \in Nat
      /\ Cardinality(T) = Cardinality(S) + (One(c \in T) - One(c \in S))
  BY <1>3, <1>4, SizeMoves
<1> QED
  BY <1>1, <1>2, <1>5, <1>6 DEF Number, Moved, Move

\* The targets that await, discard or are lost: the same of all targets but one.
LEMMA TargetsMove ==
    ASSUME NEW S, NEW T, S \subseteq Targets, T \subseteq Targets, NEW t \in Targets,
           \A u \in Targets \ {t} : u \in T <=> u \in S
    PROVE  /\ Cardinality(S) \in Nat
           /\ Cardinality(T) = Cardinality(S) + Move(t \in T, t \in S)
<1>1. T \ {t} = S \ {t}
  OBVIOUS
<1>2. IsFiniteSet(S)
  BY TargetsAssumption, FS_Subset
<1> QED
  BY <1>1, <1>2, SizeMoves DEF Move

\* The step concerns target t and copy c, and its counters balance.
Concerns(t, c) ==
    /\ \A d \in Copy \ {c} : outcome'[d] = outcome[d]
    /\ \A u \in Targets \ {t} :
          /\ tStats'[u] = tStats[u] /\ tOwes'[u] = tOwes[u]
          /\ target'[u] = target[u]

Balances(t, c) ==
    LET Added(f) == tStats'[t][f] - tStats[t][f] IN
    /\ Added("outbound") - Added("resent") =
          Moved(c, "delivered") + Moved(c, "refused")
          + Move(t \in Awaiting', t \in Awaiting)
    /\ HasMonitor =>
          Added("dropped") + Move(t \in Discarding', t \in Discarding) =
             Moved(c, "discarded") - Moved(c, "refused") + Move(t \in Lost', t \in Lost)

\* Then the totals and the numbers still agree.
LEMMA TellMoves ==
    ASSUME StatsType, StatsType', CountersTellOutcomes, NEW t \in Targets, NEW c,
           Concerns(t, c), Balances(t, c)
    PROVE  CountersTellOutcomes'
<1> DEFINE Added(f) == tStats'[t][f] - tStats[t][f]
<1>1. ASSUME NEW f \in {"outbound", "resent", "dropped"}
      PROVE  Total(f) \in Int /\ Added(f) \in Int /\ Total(f)' = Total(f) + Added(f)
  <2>1. PICK st \in [Targets -> Stats], sv \in [Targets -> Stats] :
           st = tStats /\ sv = tStats'
    BY DEF StatsType
  <2>2. Total(f) = TotalOf(st, f) /\ Total(f)' = TotalOf(sv, f)
    BY <2>1 DEF Total, TotalOf
  <2>3. \A u \in Targets \ {t} : sv[u] = st[u]
    BY <2>1 DEF Concerns
  <2>4. /\ TotalOf(st, f) \in Int
        /\ TotalOf(sv, f) = TotalOf(st, f) + (sv[t][f] - st[t][f])
    BY <2>3, TotalMoves
  <2>5. sv[t][f] \in Int /\ st[t][f] \in Int
    BY StatsParts
  <2> QED
    BY <2>1, <2>2, <2>4, <2>5
<1>2. ASSUME NEW o
      PROVE  Number(o) \in Nat /\ Number(o)' = Number(o) + Moved(c, o)
  BY NumberMoves DEF Concerns
<1>3. ASSUME NEW b1, NEW b2
      PROVE  Move(b1, b2) \in Int
  BY DEF Move, One
<1>4. /\ Cardinality(Awaiting) \in Nat
      /\ Cardinality(Awaiting)' =
            Cardinality(Awaiting) + Move(t \in Awaiting', t \in Awaiting)
  BY TargetsMove DEF Concerns, Awaiting
<1>5. /\ Cardinality(Discarding) \in Nat
      /\ Cardinality(Discarding)' =
            Cardinality(Discarding) + Move(t \in Discarding', t \in Discarding)
  BY TargetsMove DEF Concerns, Discarding
<1>6. /\ Cardinality(Lost) \in Nat
      /\ Cardinality(Lost)' = Cardinality(Lost) + Move(t \in Lost', t \in Lost)
  BY TargetsMove DEF Concerns, Lost, DiedWithCopy
<1>7. /\ Moved(c, "delivered") \in Int /\ Moved(c, "refused") \in Int
      /\ Moved(c, "discarded") \in Int
  BY <1>3 DEF Moved
<1>8. /\ Move(t \in Awaiting', t \in Awaiting) \in Int
      /\ Move(t \in Discarding', t \in Discarding) \in Int
      /\ Move(t \in Lost', t \in Lost) \in Int
  BY <1>3
<1>9. /\ Added("outbound") - Added("resent") =
            Moved(c, "delivered") + Moved(c, "refused")
            + Move(t \in Awaiting', t \in Awaiting)
      /\ HasMonitor =>
            Added("dropped") + Move(t \in Discarding', t \in Discarding) =
               Moved(c, "discarded") - Moved(c, "refused")
               + Move(t \in Lost', t \in Lost)
  BY DEF Balances
<1> HIDE DEF Added
<1>10. (Total("outbound") - Total("resent") =
          Number("delivered") + Number("refused") + Cardinality(Awaiting))'
  BY <1>1, <1>2, <1>4, <1>7, <1>8, <1>9 DEF CountersTellOutcomes
<1>11. (HasMonitor =>
          Total("dropped") + Cardinality(Discarding) =
             Number("discarded") - Number("refused") + Cardinality(Lost))'
  BY <1>1, <1>2, <1>5, <1>6, <1>7, <1>8, <1>9 DEF CountersTellOutcomes
<1> QED
  BY <1>10, <1>11 DEF CountersTellOutcomes

\* A step that changes nothing that is counted, of any target or copy.
Silent ==
    /\ \A u \in Targets :
          /\ \A f \in {"outbound", "resent", "dropped"} : tStats'[u][f] = tStats[u][f]
          /\ u \in Awaiting' <=> u \in Awaiting
          /\ u \in Discarding' <=> u \in Discarding
          /\ u \in Lost' <=> u \in Lost
    /\ \A c \in Copy, o \in Settled : outcome'[c] = o <=> outcome[c] = o

\* Then nothing has to be told.
LEMMA TellSame ==
    ASSUME CountersTellOutcomes, Silent PROVE CountersTellOutcomes'
<1>1. ASSUME NEW f \in {"outbound", "resent", "dropped"} PROVE Total(f)' = Total(f)
  BY DEF Total, Silent
<1>2. ASSUME NEW o \in Settled PROVE Number(o)' = Number(o)
  BY DEF Number, Silent
<1>3. Awaiting' = Awaiting /\ Discarding' = Discarding /\ Lost' = Lost
  BY DEF Silent, Awaiting, Discarding, Lost
<1> QED
  BY <1>1, <1>2, <1>3 DEF CountersTellOutcomes, Settled

\* What a target connector has in its hands is pending.
LEMMA InHandsPending ==
    ASSUME IndInv, NEW t \in Targets, target[t] \in Holding
    PROVE  tCopy[t] \in Copy /\ outcome[tCopy[t]] = "pending"
<1>1. tCopy[t] \in Copy
  BY DEF IndInv, HandsFull
<1>2. AtTarget(tCopy[t], t)
  BY DEF AtTarget
<1> QED
  BY <1>1, <1>2 DEF IndInv, OneHolder, Held

\* The copy of connector t is settled, or stranded.
LEMMA SettleMoves ==
    ASSUME IndInv, NEW t \in Targets, target[t] \in Holding,
           NEW o \in Outcome, SettleAs(t, o)
    PROVE  \E c \in Copy :
              /\ \A d \in Copy \ {c} : outcome'[d] = outcome[d]
              /\ \A q \in Settled : Moved(c, q) = One(q = o)
<1>1. PICK c \in Copy : c = tCopy[t] /\ outcome[c] = "pending"
  BY InHandsPending
<1>2. outcome \in [Copy -> Outcome]
  BY DEF IndInv, TypeOK
<1>3. outcome' = [outcome EXCEPT ![c] = o]
  BY <1>1 DEF SettleAs
<1>4. outcome'[c] = o /\ \A d \in Copy \ {c} : outcome'[d] = outcome[d]
  BY <1>2, <1>3
<1>5. ASSUME NEW q \in Settled PROVE Moved(c, q) = One(q = o)
  <2>1. q # "pending"
    BY DEF Settled
  <2> QED
    BY <1>1, <1>4, <2>1 DEF Moved, Move, One
<1> QED
  BY <1>4, <1>5

\* The steps of a target connector.
LEMMA TellTargetStep ==
    ASSUME IndInv, CountInv, CountInv', CountersTellOutcomes,
           NEW t \in Targets, MTargetStep(t)
    PROVE  CountersTellOutcomes'
<1>0. /\ target \in [Targets -> TargetPC] /\ tStats \in [Targets -> Stats]
      /\ tOwes \in [Targets -> {"none", "ok", "discard", "resent"}]
      /\ outcome \in [Copy -> Outcome] /\ StatsType /\ StatsType'
  BY DEF IndInv, TypeOK, CountInv, StatsType
<1>p. /\ tStats[t] \in Stats /\ tStats[t].outbound \in Nat /\ tStats[t].dropped \in Nat
      /\ tStats[t].resent \in Nat
  BY <1>0, StatsParts
<1>c. /\ target[t] = "dial" => tStats[t].inbound = 0
      /\ target[t] \in Holding => tStats[t].inbound > 0
      /\ tOwes[t] # "none" => target[t] = "select"
  BY DEF CountInv, Counted, Owing
<1> USE DEF statVars, oweVars, Owe
<1>1. CASE MTargetQuiet(t)
  <2>1. Silent
    BY <1>0, <1>c, <1>1
       DEF MTargetQuiet, Keep, TargetConnect, TargetConnectFails, RateLimitPass,
           RateLimitFallback, StopTarget, Silent, Awaiting, Discarding, Lost,
           DiedWithCopy
  <2> QED
    BY <2>1, TellSame
<1>2. CASE MRateLimitDiscard(t)
  <2>1. /\ target[t] = "limit" /\ tOwes[t] = "none" /\ SettleAs(t, "discarded")
        /\ target'[t] = "select" /\ tOwes'[t] = "discard" /\ tStats' = tStats
        /\ \A u \in Targets \ {t} : target'[u] = target[u] /\ tOwes'[u] = tOwes[u]
    BY <1>0, <1>2 DEF MRateLimitDiscard, RateLimitDiscard
  <2>2. PICK c \in Copy : /\ \A d \in Copy \ {c} : outcome'[d] = outcome[d]
                          /\ \A q \in Settled : Moved(c, q) = One(q = "discarded")
    BY <2>1, SettleMoves DEF Holding, Outcome, Settled
  <2>3. Concerns(t, c)
    BY <2>1, <2>2 DEF Concerns
  <2>4. /\ Moved(c, "delivered") = 0 /\ Moved(c, "refused") = 0
        /\ Moved(c, "discarded") = 1
    BY <2>2 DEF Settled, One
  <2>5. /\ Move(t \in Awaiting', t \in Awaiting) = 0
        /\ Move(t \in Discarding', t \in Discarding) = 1
        /\ Move(t \in Lost', t \in Lost) = 0
    BY <2>1 DEF Move, One, Awaiting, Discarding, Lost, DiedWithCopy
  <2>6. Balances(t, c)
    BY <1>p, <2>1, <2>4, <2>5 DEF Balances
  <2> QED
    BY <1>0, <2>3, <2>6, TellMoves
<1>3. ASSUME NEW u \in Targets, MSendToFallback(t, u) PROVE CountersTellOutcomes'
  <2>1. /\ target[t] = "fallback" /\ tOwes[t] = "none" /\ tOwes[u] = "none"
        /\ target[u] = "select" /\ outcome' = outcome
        /\ target' = [target EXCEPT ![t] = "select", ![u] = "limit"]
        /\ tStats' = [tStats EXCEPT ![u] = Arrives(@)]
        /\ tOwes' = [tOwes EXCEPT ![t] = "resent"]
    BY <1>3 DEF MSendToFallback, SendToFallback
  <2>2. /\ tStats'[u].outbound = tStats[u].outbound
        /\ tStats'[u].resent = tStats[u].resent
        /\ tStats'[u].dropped = tStats[u].dropped
        /\ \A r \in Targets \ {u} : tStats'[r] = tStats[r]
    BY <1>0, <2>1, ArrivesParts
  <2>3. \A r \in Targets \ {t, u} : target'[r] = target[r] /\ tOwes'[r] = tOwes[r]
    BY <1>0, <2>1
  <2>4. /\ target'[t] = "select" /\ target'[u] = "limit" /\ u # t
        /\ tOwes'[t] = "resent" /\ tOwes'[u] = "none"
    BY <1>0, <2>1
  <2>5. ASSUME NEW r \in Targets
        PROVE  /\ r \in Awaiting' <=> r \in Awaiting
               /\ r \in Discarding' <=> r \in Discarding
               /\ r \in Lost' <=> r \in Lost
    <3>1. CASE r \in {t, u}
      BY <2>1, <2>4, <3>1 DEF Awaiting, Discarding, Lost, DiedWithCopy
    <3>2. CASE r \notin {t, u}
      BY <2>2, <2>3, <3>2 DEF Awaiting, Discarding, Lost, DiedWithCopy
    <3> QED
      BY <3>1, <3>2
  <2>6. Silent
    BY <2>1, <2>2, <2>5 DEF Silent
  <2> QED
    BY <2>6, TellSame
<1>4. CASE MFallbackToUnknown(t)
  <2>1. /\ target[t] = "fallback" /\ tOwes[t] = "none" /\ SettleAs(t, "stranded")
        /\ target'[t] = "select" /\ tOwes'[t] = "resent" /\ tStats' = tStats
        /\ \A u \in Targets \ {t} : target'[u] = target[u] /\ tOwes'[u] = tOwes[u]
    BY <1>0, <1>4 DEF MFallbackToUnknown, FallbackToUnknown
  <2>2. tCopy[t] \in Copy /\ outcome[tCopy[t]] = "pending"
    BY <2>1, InHandsPending DEF Holding
  <2>3. \A c \in Copy, o \in Settled : outcome'[c] = o <=> outcome[c] = o
    BY <1>0, <2>1, <2>2 DEF SettleAs, Settled
  <2>4. Silent
    BY <2>1, <2>3 DEF Silent, Awaiting, Discarding, Lost, DiedWithCopy
  <2> QED
    BY <2>4, TellSame
<1>5. CASE MWriteLine(t)
  <2>1. /\ target[t] = "write" /\ tOwes' = tOwes /\ outcome' = outcome
        /\ target'[t] = "await"
        /\ \A u \in Targets \ {t} : target'[u] = target[u] /\ tStats'[u] = tStats[u]
        /\ tStats'[t].outbound = tStats[t].outbound + 1
        /\ tStats'[t].resent = tStats[t].resent
        /\ tStats'[t].dropped = tStats[t].dropped
    BY <1>0, <1>5, OutboundParts DEF MWriteLine, WriteLine
  <2>2. Concerns(t, NoCopy)
    BY <2>1 DEF Concerns
  <2>3. \A q \in Settled : Moved(NoCopy, q) = 0
    BY <2>1 DEF Moved, Move, One
  <2>4. /\ Move(t \in Awaiting', t \in Awaiting) = 1
        /\ Move(t \in Discarding', t \in Discarding) = 0
        /\ Move(t \in Lost', t \in Lost) = 0
    BY <2>1 DEF Move, One, Awaiting, Discarding, Lost, DiedWithCopy
  <2>5. Balances(t, NoCopy)
    BY <1>p, <2>1, <2>3, <2>4 DEF Balances, Settled
  <2> QED
    BY <1>0, <2>2, <2>5, TellMoves
<1>6. CASE MWriteFails(t)
  <2>1. /\ target[t] = "write" /\ tOwes' = tOwes /\ SettleAs(t, "stranded")
        /\ target'[t] = "dead"
        /\ \A u \in Targets \ {t} : target'[u] = target[u] /\ tStats'[u] = tStats[u]
        /\ tStats'[t].dropped = tStats[t].dropped + 1
        /\ tStats'[t].inbound = tStats[t].inbound
        /\ tStats'[t].resent = tStats[t].resent
        /\ tStats'[t].outbound = tStats[t].outbound
    BY <1>0, <1>6, DroppedParts DEF MWriteFails, WriteFails
  <2>2. PICK c \in Copy : /\ \A d \in Copy \ {c} : outcome'[d] = outcome[d]
                          /\ \A q \in Settled : Moved(c, q) = One(q = "stranded")
    BY <2>1, SettleMoves DEF Holding, Outcome
  <2>3. Concerns(t, c)
    BY <2>1, <2>2 DEF Concerns
  <2>4. /\ Moved(c, "delivered") = 0 /\ Moved(c, "refused") = 0
        /\ Moved(c, "discarded") = 0
    BY <2>2 DEF Settled, One
  <2>5. /\ Move(t \in Awaiting', t \in Awaiting) = 0
        /\ Move(t \in Discarding', t \in Discarding) = 0
        /\ Move(t \in Lost', t \in Lost) = 1
    BY <1>c, <2>1 DEF Move, One, Awaiting, Discarding, Lost, DiedWithCopy, Holding
  <2>6. Balances(t, c)
    BY <1>p, <2>1, <2>4, <2>5 DEF Balances
  <2> QED
    BY <1>0, <2>3, <2>6, TellMoves
<1>7. CASE MAwaitOk(t)
  <2>1. /\ target[t] = "await" /\ tOwes[t] = "none" /\ SettleAs(t, "delivered")
        /\ target'[t] = "select" /\ tOwes'[t] = "ok" /\ tStats' = tStats
        /\ \A u \in Targets \ {t} : target'[u] = target[u] /\ tOwes'[u] = tOwes[u]
    BY <1>0, <1>7 DEF MAwaitOk, AwaitOk
  <2>2. PICK c \in Copy : /\ \A d \in Copy \ {c} : outcome'[d] = outcome[d]
                          /\ \A q \in Settled : Moved(c, q) = One(q = "delivered")
    BY <2>1, SettleMoves DEF Holding, Outcome, Settled
  <2>3. Concerns(t, c)
    BY <2>1, <2>2 DEF Concerns
  <2>4. /\ Moved(c, "delivered") = 1 /\ Moved(c, "refused") = 0
        /\ Moved(c, "discarded") = 0
    BY <2>2 DEF Settled, One
  <2>5. /\ Move(t \in Awaiting', t \in Awaiting) = -1
        /\ Move(t \in Discarding', t \in Discarding) = 0
        /\ Move(t \in Lost', t \in Lost) = 0
    BY <2>1 DEF Move, One, Awaiting, Discarding, Lost, DiedWithCopy
  <2>6. Balances(t, c)
    BY <1>p, <2>1, <2>4, <2>5 DEF Balances
  <2> QED
    BY <1>0, <2>3, <2>6, TellMoves
<1>8. CASE MAwaitRefused(t)
  <2>1. /\ target[t] = "await" /\ tOwes' = tOwes /\ SettleAs(t, "refused")
        /\ target'[t] = "dead"
        /\ \A u \in Targets \ {t} : target'[u] = target[u] /\ tStats'[u] = tStats[u]
        /\ HasMonitor => tStats'[t].dropped = tStats[t].dropped
        /\ tStats'[t].inbound = tStats[t].inbound
        /\ tStats'[t].resent = tStats[t].resent
        /\ tStats'[t].outbound = tStats[t].outbound
    BY <1>0, <1>8, DroppedParts DEF MAwaitRefused, AwaitRefused
  <2>2. PICK c \in Copy : /\ \A d \in Copy \ {c} : outcome'[d] = outcome[d]
                          /\ \A q \in Settled : Moved(c, q) = One(q = "refused")
    BY <2>1, SettleMoves DEF Holding, Outcome, Settled
  <2>3. Concerns(t, c)
    BY <2>1, <2>2 DEF Concerns
  <2>4. /\ Moved(c, "delivered") = 0 /\ Moved(c, "refused") = 1
        /\ Moved(c, "discarded") = 0
    BY <2>2 DEF Settled, One
  <2>5. /\ Move(t \in Awaiting', t \in Awaiting) = -1
        /\ Move(t \in Discarding', t \in Discarding) = 0
        /\ Move(t \in Lost', t \in Lost) = 1
    BY <1>c, <2>1 DEF Move, One, Awaiting, Discarding, Lost, DiedWithCopy, Holding
  <2>6. Balances(t, c)
    BY <1>p, <2>1, <2>4, <2>5 DEF Balances
  <2> QED
    BY <1>0, <2>3, <2>6, TellMoves
<1>9. CASE CountTarget(t)
  <2>1. /\ tOwes[t] \in {"ok", "discard", "resent"} /\ target[t] = "select"
        /\ target' = target /\ outcome' = outcome /\ tOwes'[t] = "none"
        /\ tStats'[t] = Afterwards(tOwes[t], tStats[t])
        /\ \A u \in Targets \ {t} : tStats'[u] = tStats[u] /\ tOwes'[u] = tOwes[u]
    BY <1>0, <1>c, <1>9 DEF CountTarget, vars, targetVars
  <2>2. Concerns(t, NoCopy)
    BY <2>1 DEF Concerns
  <2>3. \A q \in Settled : Moved(NoCopy, q) = 0
    BY <2>1 DEF Moved, Move, One
  <2>4. /\ Move(t \in Awaiting', t \in Awaiting) = 0
        /\ Move(t \in Discarding', t \in Discarding) = - One(tOwes[t] = "discard")
        /\ Move(t \in Lost', t \in Lost) = 0
    BY <2>1 DEF Move, One, Awaiting, Discarding, Lost, DiedWithCopy
  <2>5. CASE tOwes[t] = "ok"
    <3>1. /\ tStats'[t].outbound = tStats[t].outbound
          /\ tStats'[t].resent = tStats[t].resent
          /\ tStats'[t].dropped = tStats[t].dropped
      BY <1>p, <2>1, <2>5, RemoveParts DEF Afterwards
    <3>2. Balances(t, NoCopy)
      BY <1>p, <2>3, <2>4, <2>5, <3>1 DEF Balances, Settled, One
    <3> QED
      BY <1>0, <2>2, <3>2, TellMoves
  <2>6. CASE tOwes[t] = "discard"
    <3>1. /\ tStats'[t].outbound = tStats[t].outbound
          /\ tStats'[t].resent = tStats[t].resent
          /\ tStats'[t].dropped = tStats[t].dropped + 1
      BY <1>p, <2>1, <2>6, RemoveParts, DroppedParts DEF Afterwards
    <3>2. Balances(t, NoCopy)
      BY <1>p, <2>3, <2>4, <2>6, <3>1 DEF Balances, Settled, One
    <3> QED
      BY <1>0, <2>2, <3>2, TellMoves
  <2>7. CASE tOwes[t] = "resent"
    <3>1. /\ tStats'[t].outbound = tStats[t].outbound + 1
          /\ tStats'[t].resent = tStats[t].resent + 1
          /\ tStats'[t].dropped = tStats[t].dropped
      BY <1>p, <2>1, <2>7, OutboundParts, ResentParts DEF Afterwards
    <3>2. Balances(t, NoCopy)
      BY <1>p, <2>3, <2>4, <2>7, <3>1 DEF Balances, Settled, One
    <3> QED
      BY <1>0, <2>2, <3>2, TellMoves
  <2> QED
    BY <2>1, <2>5, <2>6, <2>7
<1> QED
  BY <1>1, <1>2, <1>3, <1>4, <1>5, <1>6, <1>7, <1>8, <1>9 DEF MTargetStep

\* The steps of a worker.
LEMMA TellWorkerStep ==
    ASSUME IndInv, CountInv, CountersTellOutcomes, NEW w \in Workers, MWorkerStep(w)
    PROVE  CountersTellOutcomes'
<1>0. /\ target \in [Targets -> TargetPC] /\ tStats \in [Targets -> Stats]
      /\ outcome \in [Copy -> Outcome] /\ TypeInv
  BY DEF IndInv, TypeOK, TypeInv, CountInv, StatsType
<1>1. ASSUME NEW t \in Targets, MSendToTarget(w, t) PROVE CountersTellOutcomes'
  <2>1. /\ target[t] = "select" /\ target'[t] = "limit"
        /\ tOwes' = tOwes /\ outcome' = outcome
        /\ \A u \in Targets \ {t} : target'[u] = target[u] /\ tStats'[u] = tStats[u]
        /\ tStats'[t] = Arrives(tStats[t])
    BY <1>0, <1>1 DEF MSendToTarget, SendToTarget, oweVars
  <2>2. /\ tStats'[t].outbound = tStats[t].outbound
        /\ tStats'[t].resent = tStats[t].resent
        /\ tStats'[t].dropped = tStats[t].dropped
    BY <1>0, <2>1, ArrivesParts
  <2>3. Silent
    BY <2>1, <2>2 DEF Silent, Awaiting, Discarding, Lost, DiedWithCopy
  <2> QED
    BY <2>3, TellSame
<1>2. CASE MWorkerQuiet(w)
  <2>1. target' = target /\ tStats' = tStats /\ tOwes' = tOwes
    BY <1>2 DEF MWorkerQuiet, Keep, SendToUnknown, FinishLine, StopWorker, targetVars,
                statVars, oweVars
  <2>2. \A c \in Copy, o \in Settled : outcome'[c] = o <=> outcome[c] = o
    <3>1. CASE SendToUnknown(w)
      <4>1. PICK c \in Copy : c = WorkerCopy(w)
        BY <1>0, <3>1, WorkerCopyType DEF SendToUnknown
      <4>2. AtWorker(c, w)
        BY <1>0, <3>1, <4>1
           DEF SendToUnknown, HasNext, WorkerCopy, AtWorker, TypeInv, TypeOK, HandsFull,
               Line
      <4>3. outcome[c] = "pending"
        BY <4>2 DEF IndInv, OneHolder, Held
      <4>4. outcome' = [outcome EXCEPT ![c] = "stranded"]
        BY <3>1, <4>1 DEF SendToUnknown
      <4> QED
        BY <1>0, <4>3, <4>4 DEF Settled
    <3>2. CASE FinishLine(w) \/ StopWorker(w)
      BY <3>2 DEF FinishLine, StopWorker
    <3> QED
      BY <1>2, <3>1, <3>2 DEF MWorkerQuiet, Keep
  <2>3. Silent
    BY <2>1, <2>2 DEF Silent, Awaiting, Discarding, Lost, DiedWithCopy
  <2> QED
    BY <2>3, TellSame
<1> QED
  BY <1>1, <1>2 DEF MWorkerStep

\* The steps of everybody else: a new line is the only one that changes an outcome.
LEMMA TellOtherStep ==
    ASSUME IndInv, CountersTellOutcomes, UNCHANGED <<target, tStats, tOwes>>,
           \/ UNCHANGED outcome
           \/ \E s \in Sources : ReceiveLine(s)
    PROVE  CountersTellOutcomes'
<1>1. \A c \in Copy, o \in Settled : outcome'[c] = o <=> outcome[c] = o
  <2>1. ASSUME NEW s \in Sources, ReceiveLine(s)
        PROVE  \A c \in Copy, o \in Settled : outcome'[c] = o <=> outcome[c] = o
    <3>1. accepted[s] \in 0 .. MaxLines /\ accepted[s] < MaxLines
      BY <2>1 DEF ReceiveLine, IndInv, TypeOK, HandsFull
    <3>2. PICK k \in 1 .. MaxLines : k = accepted[s] + 1
      BY <3>1, MaxLinesAssumption
    <3>3. \A c \in Copy : c \in CopiesOf(s, k) => c[1] = s /\ c[2] = k
      BY <3>2, CopyOfLine
    <3>4. \A c \in Copy : c \in CopiesOf(s, k) => outcome[c] = "unsent"
      BY <3>1, <3>2, <3>3 DEF IndInv, UnsentAhead
    <3>5. \A c \in Copy :
             outcome'[c] = IF c \in CopiesOf(s, k) THEN "pending" ELSE outcome[c]
      BY <2>1, <3>2 DEF ReceiveLine
    <3> QED
      BY <3>4, <3>5 DEF Settled
  <2> QED
    BY <2>1
<1>2. Silent
  BY <1>1 DEF Silent, Awaiting, Discarding, Lost, DiedWithCopy
<1> QED
  BY <1>2, TellSame

\* The counters of all targets tell how many copies were delivered, refused and
\* discarded (connector.go 197-258 and 275-299), at any time, and whoever counts late.
THEOREM CountersTell == MSpec => []CountersTellOutcomes
<1>1. MInit => CountersTellOutcomes
  <2> SUFFICES ASSUME MInit PROVE CountersTellOutcomes
    OBVIOUS
  <2>1. ASSUME NEW f \in {"outbound", "resent", "dropped"} PROVE Total(f) = 0
    <3>1. PICK v : v = [t \in Targets |-> tStats[t][f]]
      OBVIOUS
    <3>2. \A t \in Targets : v[t] = 0
      BY <3>1 DEF MInit, NewStats
    <3>3. SumFunctionOnSet(v, Targets) = 0
      BY <3>2, TargetsAssumption, SumZero
    <3> QED
      BY <3>1, <3>3 DEF Total
  <2>2. ASSUME NEW o \in Settled PROVE Number(o) = 0
    <3>1. {c \in Copy : outcome[c] = o} = {}
      BY DEF MInit, Init, Settled
    <3> QED
      BY <3>1, FS_EmptySet DEF Number
  <2>3. Awaiting = {} /\ Discarding = {} /\ Lost = {}
    BY DEF MInit, Init, Awaiting, Discarding, Lost, DiedWithCopy
  <2> QED
    BY <2>1, <2>2, <2>3, FS_EmptySet DEF CountersTellOutcomes, Settled
<1>2. ASSUME IndInv, CountInv, CountInv', CountersTellOutcomes, [MNext]_mVars
      PROVE  CountersTellOutcomes'
  <2>1. ASSUME NEW s \in Sources, MReaderStep(s) \/ MSourceStep(s)
        PROVE  CountersTellOutcomes'
    <3>1. UNCHANGED <<target, tStats, tOwes>> /\ (UNCHANGED outcome \/ ReceiveLine(s))
      BY <2>1
         DEF MReaderStep, Keep, ReaderStep, ReadFrame, ReadError, ReadEOF, MSourceStep,
             MSourceQuiet, SourceConnect, SourceConnectFails, ReceiveOther, StopSource,
             MReceiveLine, ReceiveLine, MReceiveFailure, ReceiveFailure, MDispatch,
             Dispatch, CountSource, statVars, oweVars, vars, targetVars
    <3> QED
      BY <1>2, <3>1, TellOtherStep
  <2>2. CASE MMainStep \/ Keep(Stop)
    <3>1. UNCHANGED <<target, tStats, tOwes, outcome>>
      BY <2>2 DEF MMainStep, Keep, MainStep, StopWorkers, WorkersDone, StopTargets,
                  TargetsDone, Stop, statVars, oweVars, targetVars
    <3> QED
      BY <1>2, <3>1, TellOtherStep
  <2>3. CASE ViewStep \/ UNCHANGED mVars
    <3>1. UNCHANGED <<target, tStats, tOwes, outcome>>
      BY <2>3 DEF ViewStep, Request, Load, Respond, mVars, vars, statVars, oweVars,
                  targetVars
    <3> QED
      BY <1>2, <3>1, TellOtherStep
  <2> QED
    BY <1>2, <2>1, <2>2, <2>3, TellWorkerStep, TellTargetStep DEF MNext
<1>3. MSpec => []IndInv
  BY CountingIsHarmless, Inductive, PTL
<1>4. IndInv => TypeOK
  BY DEF IndInv
<1>5. IndInv /\ CountInv /\ CountersTellOutcomes /\ [MNext]_mVars
         => CountInv' /\ CountersTellOutcomes'
  BY <1>2, <1>4, CountInvStep
<1> QED
  BY <1>1, <1>3, <1>5, CountInit, PTL DEF MSpec
===============================================================================
