-------------------------------- MODULE Broker --------------------------------
(***************************************************************************)
(* The log broker: broker/broker.go, broker/worker.go, broker/connector.go *)
(* and the connection reader of protocol/protocol.go.                      *)
(*                                                                         *)
(* Every goroutine is a process with a program counter: one connector and  *)
(* one reader per source, the workers, one connector per target, and the   *)
(* goroutine that called Broker.Start.  All channels are unbuffered, so a  *)
(* send and its receive are one joint step of two processes; a closed      *)
(* channel is a flag that stays TRUE.  Init is the state in which          *)
(* ConnectorManager.Start and WorkerManager.Start have returned: a         *)
(* goroutine that was not yet started differs in nothing from one that was *)
(* not yet scheduled.                                                      *)
(*                                                                         *)
(* A log line <<s, k>> is the k-th line of source s.  Its copy <<s, k, i>> *)
(* is the line on its way to the i-th target of the source's route; it is  *)
(* what InFlightWaitGroup counts one by one.                               *)
(***************************************************************************)
EXTENDS Integers, Sequences, FiniteSets

CONSTANTS
    Sources,      \* names of the configured sources
    Targets,      \* names of the configured targets
    Workers,      \* the broker's workers
    Route,        \* Source.Targets: the sequence of target names of a source
    Rules,        \* RateLimitRules of a target: sequence of [action, target]
    MaxLines,     \* bound: lines a source sends in a behaviour
    HasMonitor,   \* is ConnectorManager.Monitor set?  (always, but in tests)
    Faults        \* what the environment may do wrong in this instance

FaultKinds == {"dial", "eof", "error", "garbled", "other", "write", "refuse"}

ASSUME SourcesAssumption == Sources # {} /\ IsFiniteSet(Sources)
ASSUME WorkersAssumption == IsFiniteSet(Workers)
ASSUME RouteAssumption   == Route \in [Sources -> Seq(STRING)]
ASSUME TargetsAssumption == Targets \subseteq STRING /\ IsFiniteSet(Targets)
ASSUME RulesAssumption   ==
    Rules \in [Targets -> Seq([action : {"discard", "fallback", "none"},
                               target : STRING])]
ASSUME MaxLinesAssumption == MaxLines \in Nat
ASSUME MonitorAssumption  == HasMonitor \in BOOLEAN
ASSUME FaultsAssumption   == Faults \subseteq FaultKinds

Line == Sources \X (1 .. MaxLines)

\* The copies of the k-th line of source s, and all copies.
CopiesOf(s, k) == {<<s, k, i>> : i \in DOMAIN Route[s]}
Copy == UNION {CopiesOf(l[1], l[2]) : l \in Line}

NoLine == <<>>
NoCopy == <<>>
NoName == ""

Exited == {"finished", "dead"}                      \* monitoring states on return
SourcePC == {"dial", "select", "outbound"} \cup Exited
ReaderPC == {"none", "read", "log", "garbled", "other", "error", "returned"}
WorkerPC == {"select", "send", "finished"}
Holding  == {"limit", "fallback", "write", "await"} \* a target connector has a copy
TargetPC == {"dial", "select"} \cup Holding \cup Exited
MainPC   == {"waitSources", "waitWorkers", "waitInFlight", "waitTargets", "done"}

VARIABLES
    main,         \* where Broker.Start is
    sourceStop,   \* ConnectorManager.SourceStop is closed
    workerStop,   \* WorkerManager.StopChan is closed
    targetStop,   \* ConnectorManager.TargetStop is closed
    crashed,      \* a goroutine panicked: the process is gone
    src,          \* SourceConnector.Handle of each source
    reader,       \* ReadToChannel of each source: reading, or blocked on a send
    accepted,     \* lines each source got its OK for
    worker,       \* Worker.Start of each worker
    wLine,        \* the line a worker is sending
    wNext,        \* index of the target the worker sends it to next
    target,       \* TargetConnector.Handle of each target
    tCopy,        \* the copy a target connector is processing
    tDest,        \* the target a connector falls back to
    inFlight,     \* the counter of InFlightWaitGroup
    gauge,        \* Stats.MessagesInFlight of each target connection
    outcome       \* history: what has become of each copy

mainVars   == <<main, workerStop, targetStop>>
sourceVars == <<src, reader, accepted>>
workerVars == <<worker, wLine, wNext>>
targetVars == <<target, tCopy, tDest, gauge>>
vars == <<mainVars, sourceStop, crashed, sourceVars, workerVars, targetVars,
          inFlight, outcome>>

Settled == {"delivered", "discarded", "refused"}
Outcome == {"unsent", "pending", "stranded"} \cup Settled

TypeOK ==
    /\ main \in MainPC
    /\ sourceStop \in BOOLEAN /\ workerStop \in BOOLEAN /\ targetStop \in BOOLEAN
    /\ crashed \in BOOLEAN
    /\ src \in [Sources -> SourcePC]
    /\ reader \in [Sources -> ReaderPC]
    /\ accepted \in [Sources -> 0 .. MaxLines]
    /\ worker \in [Workers -> WorkerPC]
    /\ wLine \in [Workers -> Line \cup {NoLine}]
    /\ wNext \in [Workers -> Nat \ {0}]
    /\ target \in [Targets -> TargetPC]
    /\ tCopy \in [Targets -> Copy \cup {NoCopy}]
    /\ tDest \in [Targets -> STRING \cup {NoName}]
    /\ inFlight \in Int
    /\ gauge \in [Targets -> Nat]
    /\ outcome \in [Copy -> Outcome]

Init ==
    /\ main = "waitSources"
    /\ sourceStop = FALSE /\ workerStop = FALSE /\ targetStop = FALSE
    /\ crashed = FALSE
    /\ src = [s \in Sources |-> "dial"]
    /\ reader = [s \in Sources |-> "none"]
    /\ accepted = [s \in Sources |-> 0]
    /\ worker = [w \in Workers |-> "select"]
    /\ wLine = [w \in Workers |-> NoLine]
    /\ wNext = [w \in Workers |-> 1]
    /\ target = [t \in Targets |-> "dial"]
    /\ tCopy = [t \in Targets |-> NoCopy]
    /\ tDest = [t \in Targets |-> NoName]
    /\ inFlight = 0
    /\ gauge = [t \in Targets |-> 0]
    /\ outcome = [c \in Copy |-> "unsent"]

-------------------------------------------------------------------------------
(* The in-flight counter and the ledger of outcomes.                       *)

\* AddMessage: the delta is the number of targets of the line.
AddMessageOnce(delta) == inFlight' = inFlight + 1
AddMessage(delta) == inFlight' = inFlight + delta

CompleteTwice == inFlight' = inFlight - 2
CompleteMessage == inFlight' = inFlight - 1

\* The copy that connector t is processing gets outcome o.
SettleAs(t, o) == outcome' = [outcome EXCEPT ![tCopy[t]] = o]

-------------------------------------------------------------------------------
(* ReadToChannel: the goroutine that reads a source's connection.  A       *)
(* source sends its next line only after the OK for the previous one, so   *)
(* the line in the reader's hands is always number accepted[s] + 1.        *)

ReadFrame(s, f) ==
    /\ reader[s] = "read" /\ src[s] \notin Exited
    /\ f = "log" => accepted[s] < MaxLines
    /\ reader' = [reader EXCEPT ![s] = f]
    /\ UNCHANGED <<mainVars, sourceStop, crashed, src, accepted, workerVars,
                   targetVars, inFlight, outcome>>

\* An error other than EOF is offered to errorChan.  Once the connector has
\* closed the connection every read fails, and nobody takes the error.
ReadError(s) ==
    /\ reader[s] = "read"
    /\ "error" \in Faults \/ src[s] \in Exited
    /\ reader' = [reader EXCEPT ![s] = "error"]
    /\ UNCHANGED <<mainVars, sourceStop, crashed, src, accepted, workerVars,
                   targetVars, inFlight, outcome>>

\* io.EOF ends the goroutine; the error is not sent to errorChan.
ReadEOF(s) ==
    /\ reader[s] = "read" /\ src[s] \notin Exited
    /\ "eof" \in Faults
    /\ reader' = [reader EXCEPT ![s] = "returned"]
    /\ UNCHANGED <<mainVars, sourceStop, crashed, src, accepted, workerVars,
                   targetVars, inFlight, outcome>>

-------------------------------------------------------------------------------
(* SourceConnector.Handle.                                                 *)

\* The connection is opened, HELLO is sent and the reader is started.
SourceConnect(s) ==
    /\ src[s] = "dial"
    /\ src' = [src EXCEPT ![s] = "select"]
    /\ reader' = [reader EXCEPT ![s] = "read"]
    /\ UNCHANGED <<mainVars, sourceStop, crashed, accepted, workerVars,
                   targetVars, inFlight, outcome>>

\* OpenTCPConnection or SendHello fails: the connector returns.
SourceConnectFails(s) ==
    /\ src[s] = "dial" /\ "dial" \in Faults
    /\ src' = [src EXCEPT ![s] = "dead"]
    /\ UNCHANGED <<mainVars, sourceStop, crashed, reader, accepted, workerVars,
                   targetVars, inFlight, outcome>>

\* A line arrives: SendOk, AddMessage, then the blocking send on Outbound.
ReceiveLine(s) ==
    /\ src[s] = "select" /\ reader[s] = "log"
    /\ reader' = [reader EXCEPT ![s] = "read"]
    /\ accepted' = [accepted EXCEPT ![s] = @ + 1]
    /\ AddMessage(Len(Route[s]))
    /\ outcome' = [c \in Copy |-> IF c \in CopiesOf(s, accepted[s] + 1)
                                  THEN "pending" ELSE outcome[c]]
    /\ src' = [src EXCEPT ![s] = "outbound"]
    /\ UNCHANGED <<mainVars, sourceStop, crashed, workerVars, targetVars>>

\* A frame that is not a SMSG is ignored.
ReceiveOther(s) ==
    /\ src[s] = "select" /\ reader[s] = "other"
    /\ reader' = [reader EXCEPT ![s] = "read"]
    /\ UNCHANGED <<mainVars, sourceStop, crashed, src, accepted, workerVars,
                   targetVars, inFlight, outcome>>

\* ProtobufToSource fails, or an error comes out of errorChan: the connector
\* returns; the reader goes back to reading the closed connection.
ReceiveFailure(s) ==
    /\ src[s] = "select" /\ reader[s] \in {"garbled", "error"}
    /\ reader' = [reader EXCEPT ![s] = "read"]
    /\ src' = [src EXCEPT ![s] = "dead"]
    /\ UNCHANGED <<mainVars, sourceStop, crashed, accepted, workerVars,
                   targetVars, inFlight, outcome>>

\* SourceStop is closed.
StopSource(s) ==
    /\ src[s] = "select" /\ sourceStop
    /\ src' = [src EXCEPT ![s] = "finished"]
    /\ UNCHANGED <<mainVars, sourceStop, crashed, reader, accepted, workerVars,
                   targetVars, inFlight, outcome>>
-------------------------------------------------------------------------------
(* Worker.Start.                                                           *)

\* The source connector's send on Outbound meets the worker's receive.
Dispatch(s, w) ==
    /\ src[s] = "outbound" /\ worker[w] = "select"
    /\ src' = [src EXCEPT ![s] = "select"]
    /\ worker' = [worker EXCEPT ![w] = "send"]
    /\ wLine' = [wLine EXCEPT ![w] = <<s, accepted[s]>>]
    /\ wNext' = [wNext EXCEPT ![w] = 1]
    /\ UNCHANGED <<mainVars, sourceStop, crashed, reader, accepted, targetVars,
                   inFlight, outcome>>

WorkerRoute(w) == Route[wLine[w][1]]
WorkerCopy(w)  == <<wLine[w][1], wLine[w][2], wNext[w]>>

\* The worker has a target left, and its name.
HasNext(w)  == worker[w] = "send" /\ wNext[w] <= Len(WorkerRoute(w))
NextName(w) == WorkerRoute(w)[wNext[w]]

\* SendToTarget for a configured target: t.Inbound <- msg meets its receive.
SendToTarget(w, t) ==
    /\ HasNext(w) /\ NextName(w) = t
    /\ target[t] = "select"
    /\ wNext' = [wNext EXCEPT ![w] = @ + 1]
    /\ target' = [target EXCEPT ![t] = "limit"]
    /\ tCopy' = [tCopy EXCEPT ![t] = WorkerCopy(w)]
    /\ gauge' = [gauge EXCEPT ![t] = @ + 1]
    /\ UNCHANGED <<mainVars, sourceStop, crashed, sourceVars, worker, wLine,
                   tDest, inFlight, outcome>>

\* SendToTarget for a name that is not configured returns an error, which the
\* worker ignores: nobody will ever complete this copy.
BreakOnUnknown(w) ==
    /\ HasNext(w) /\ NextName(w) \notin Targets
    /\ wNext' = [wNext EXCEPT ![w] = Len(WorkerRoute(w)) + 1]
    /\ outcome' = [outcome EXCEPT ![WorkerCopy(w)] = "stranded"]
    /\ UNCHANGED <<mainVars, sourceStop, crashed, sourceVars, worker, wLine,
                   targetVars, inFlight>>

SendToUnknown(w) ==
    /\ HasNext(w) /\ NextName(w) \notin Targets
    /\ wNext' = [wNext EXCEPT ![w] = @ + 1]
    /\ outcome' = [outcome EXCEPT ![WorkerCopy(w)] = "stranded"]
    /\ UNCHANGED <<mainVars, sourceStop, crashed, sourceVars, worker, wLine,
                   targetVars, inFlight>>

\* The line went to all its targets: back to the select.
FinishAnytime(w) ==
    /\ worker[w] = "send"
    /\ worker' = [worker EXCEPT ![w] = "select"]
    /\ wLine' = [wLine EXCEPT ![w] = NoLine]
    /\ wNext' = [wNext EXCEPT ![w] = 1]
    /\ UNCHANGED <<mainVars, sourceStop, crashed, sourceVars, targetVars,
                   inFlight, outcome>>

FinishLine(w) ==
    /\ worker[w] = "send" /\ wNext[w] > Len(WorkerRoute(w))
    /\ worker' = [worker EXCEPT ![w] = "select"]
    /\ wLine' = [wLine EXCEPT ![w] = NoLine]
    /\ wNext' = [wNext EXCEPT ![w] = 1]
    /\ UNCHANGED <<mainVars, sourceStop, crashed, sourceVars, targetVars,
                   inFlight, outcome>>

StopWorker(w) ==
    /\ worker[w] = "select" /\ workerStop
    /\ worker' = [worker EXCEPT ![w] = "finished"]
    /\ UNCHANGED <<mainVars, sourceStop, crashed, sourceVars, wLine, wNext,
                   targetVars, inFlight, outcome>>

-------------------------------------------------------------------------------
(* TargetConnector.Handle.                                                 *)

\* The connection is opened and HELLO is sent.  A failed HELLO does not end
\* the connector: it goes on to its loop.
TargetConnect(t) ==
    /\ target[t] = "dial"
    /\ target' = [target EXCEPT ![t] = "select"]
    /\ UNCHANGED <<mainVars, sourceStop, crashed, sourceVars, workerVars, tCopy,
                   tDest, gauge, inFlight, outcome>>

\* OpenTCPConnection fails.  The monitor is used here without a nil check.
TargetConnectFails(t) ==
    /\ target[t] = "dial" /\ "dial" \in Faults
    /\ target' = [target EXCEPT ![t] = "dead"]
    /\ crashed' = ~HasMonitor
    /\ UNCHANGED <<mainVars, sourceStop, sourceVars, workerVars, tCopy, tDest,
                   gauge, inFlight, outcome>>

\* handleRateLimiting walks the rules in order; over is the set of rules whose
\* limiter says that its average is over the limit.  The first such rule with
\* an action decides; a rule without one lets the walk continue.
Acting(t, i) == Rules[t][i].action \in {"discard", "fallback"}

Passes(t, over) == \A i \in over : ~Acting(t, i)

Breaches(t, over, i) ==
    /\ i \in over /\ Acting(t, i)
    /\ \A j \in over : j < i => ~Acting(t, j)

RateLimitPass(t) ==
    /\ target[t] = "limit"
    /\ \E over \in SUBSET DOMAIN Rules[t] : Passes(t, over)
    /\ target' = [target EXCEPT ![t] = "write"]
    /\ UNCHANGED <<mainVars, sourceStop, crashed, sourceVars, workerVars, tCopy,
                   tDest, gauge, inFlight, outcome>>

RateLimitDiscard(t) ==
    /\ target[t] = "limit"
    /\ \E over \in SUBSET DOMAIN Rules[t], i \in DOMAIN Rules[t] :
          Breaches(t, over, i) /\ Rules[t][i].action = "discard"
    /\ CompleteMessage
    /\ SettleAs(t, "discarded")
    /\ target' = [target EXCEPT ![t] = "select"]
    /\ tCopy' = [tCopy EXCEPT ![t] = NoCopy]
    /\ gauge' = [gauge EXCEPT ![t] = @ - 1]
    /\ UNCHANGED <<mainVars, sourceStop, crashed, sourceVars, workerVars, tDest>>

RateLimitFallback(t) ==
    /\ target[t] = "limit"
    /\ \E over \in SUBSET DOMAIN Rules[t], i \in DOMAIN Rules[t] :
          /\ Breaches(t, over, i) /\ Rules[t][i].action = "fallback"
          /\ tDest' = [tDest EXCEPT ![t] = Rules[t][i].target]
    /\ target' = [target EXCEPT ![t] = "fallback"]
    /\ UNCHANGED <<mainVars, sourceStop, crashed, sourceVars, workerVars, tCopy,
                   gauge, inFlight, outcome>>

\* The connector hands the copy to the fallback target's connector, once that
\* one is at its select; the copy stays in flight.  Its own gauge keeps it.
FallbackAndWrite(t, u) ==
    /\ target[t] = "fallback" /\ tDest[t] = u
    /\ target[u] = "select"
    /\ target' = [target EXCEPT ![t] = "write", ![u] = "limit"]
    /\ tCopy' = [tCopy EXCEPT ![u] = tCopy[t]]
    /\ tDest' = [tDest EXCEPT ![t] = NoName]
    /\ gauge' = [gauge EXCEPT ![u] = @ + 1]
    /\ UNCHANGED <<mainVars, sourceStop, crashed, sourceVars, workerVars,
                   inFlight, outcome>>

SendToFallback(t, u) ==
    /\ target[t] = "fallback" /\ tDest[t] = u
    /\ target[u] = "select"
    /\ target' = [target EXCEPT ![t] = "select", ![u] = "limit"]
    /\ tCopy' = [tCopy EXCEPT ![t] = NoCopy, ![u] = tCopy[t]]
    /\ tDest' = [tDest EXCEPT ![t] = NoName]
    /\ gauge' = [gauge EXCEPT ![u] = @ + 1]
    /\ UNCHANGED <<mainVars, sourceStop, crashed, sourceVars, workerVars,
                   inFlight, outcome>>

\* The fallback target is not configured: the error is logged, and the copy is
\* dropped without being completed.
FallbackToUnknown(t) ==
    /\ target[t] = "fallback" /\ tDest[t] \notin Targets
    /\ SettleAs(t, "stranded")
    /\ target' = [target EXCEPT ![t] = "select"]
    /\ tCopy' = [tCopy EXCEPT ![t] = NoCopy]
    /\ tDest' = [tDest EXCEPT ![t] = NoName]
    /\ UNCHANGED <<mainVars, sourceStop, crashed, sourceVars, workerVars, gauge,
                   inFlight>>
\* The TMSG is written.
WriteLine(t) ==
    /\ target[t] = "write"
    /\ target' = [target EXCEPT ![t] = "await"]
    /\ UNCHANGED <<mainVars, sourceStop, crashed, sourceVars, workerVars, tCopy,
                   tDest, gauge, inFlight, outcome>>

\* The write fails: the connector returns without completing the copy.
WriteFails(t) ==
    /\ target[t] = "write" /\ "write" \in Faults
    /\ SettleAs(t, "stranded")
    /\ target' = [target EXCEPT ![t] = "dead"]
    /\ tCopy' = [tCopy EXCEPT ![t] = NoCopy]
    /\ UNCHANGED <<mainVars, sourceStop, crashed, sourceVars, workerVars, tDest,
                   gauge, inFlight>>

\* WaitForOk returns true: the limiters are incremented, the copy is complete.
OkUncounted(t) ==
    /\ target[t] = "await"
    /\ SettleAs(t, "delivered")
    /\ target' = [target EXCEPT ![t] = "select"]
    /\ tCopy' = [tCopy EXCEPT ![t] = NoCopy]
    /\ gauge' = [gauge EXCEPT ![t] = @ - 1]
    /\ UNCHANGED <<mainVars, sourceStop, crashed, sourceVars, workerVars, tDest,
                   inFlight>>

AwaitOk(t) ==
    /\ target[t] = "await"
    /\ CompleteMessage
    /\ SettleAs(t, "delivered")
    /\ target' = [target EXCEPT ![t] = "select"]
    /\ tCopy' = [tCopy EXCEPT ![t] = NoCopy]
    /\ gauge' = [gauge EXCEPT ![t] = @ - 1]
    /\ UNCHANGED <<mainVars, sourceStop, crashed, sourceVars, workerVars, tDest>>

\* WaitForOk returns false: the copy is completed and the connector returns;
\* but with a monitor it first logs err.Error(), and err is nil here.
AwaitRefused(t) ==
    /\ target[t] = "await" /\ "refuse" \in Faults
    /\ CompleteMessage
    /\ SettleAs(t, "refused")
    /\ target' = [target EXCEPT ![t] = "dead"]
    /\ tCopy' = [tCopy EXCEPT ![t] = NoCopy]
    /\ crashed' = HasMonitor
    /\ UNCHANGED <<mainVars, sourceStop, sourceVars, workerVars, tDest, gauge>>

StopTarget(t) ==
    /\ target[t] = "select" /\ targetStop
    /\ target' = [target EXCEPT ![t] = "finished"]
    /\ UNCHANGED <<mainVars, sourceStop, crashed, sourceVars, workerVars, tCopy,
                   tDest, gauge, inFlight, outcome>>

-------------------------------------------------------------------------------
(* Broker.Start after the goroutines are up, and Broker.Stop.              *)

\* WaitForSources, then the close of WorkerManager.Stop.
SourcesSkipped == TRUE
SourcesDone == \A s \in Sources : src[s] \in Exited

StopWorkers ==
    /\ main = "waitSources" /\ SourcesDone
    /\ workerStop' = TRUE
    /\ main' = "waitWorkers"
    /\ UNCHANGED <<sourceStop, targetStop, crashed, sourceVars, workerVars,
                   targetVars, inFlight, outcome>>

WorkersDone ==
    /\ main = "waitWorkers"
    /\ \A w \in Workers : worker[w] = "finished"
    /\ main' = "waitInFlight"
    /\ UNCHANGED <<sourceStop, workerStop, targetStop, crashed, sourceVars,
                   workerVars, targetVars, inFlight, outcome>>

\* StopTargets: InFlightWaitGroup.Wait, then the close.
Skipped == TRUE
InFlightDone == inFlight = 0

StopTargets ==
    /\ main = "waitInFlight" /\ InFlightDone
    /\ targetStop' = TRUE
    /\ main' = "waitTargets"
    /\ UNCHANGED <<sourceStop, workerStop, crashed, sourceVars, workerVars,
                   targetVars, inFlight, outcome>>

TargetsDone ==
    /\ main = "waitTargets"
    /\ \A t \in Targets : target[t] \in Exited
    /\ main' = "done"
    /\ UNCHANGED <<sourceStop, workerStop, targetStop, crashed, sourceVars,
                   workerVars, targetVars, inFlight, outcome>>

\* Broker.Stop, which may be called once: it closes SourceStop.
Stop ==
    /\ ~sourceStop
    /\ sourceStop' = TRUE
    /\ UNCHANGED <<mainVars, crashed, sourceVars, workerVars, targetVars,
                   inFlight, outcome>>

-------------------------------------------------------------------------------
ReaderStep(s) ==
    \/ \E f \in {"log"} \cup (Faults \cap {"garbled", "other"}) : ReadFrame(s, f)
    \/ ReadError(s)
    \/ ReadEOF(s)

SourceStep(s) ==
    \/ SourceConnect(s) \/ SourceConnectFails(s)
    \/ ReceiveLine(s) \/ ReceiveOther(s) \/ ReceiveFailure(s)
    \/ StopSource(s)
    \/ \E w \in Workers : Dispatch(s, w)

WorkerStep(w) ==
    \/ \E t \in Targets : SendToTarget(w, t)
    \/ SendToUnknown(w)
    \/ FinishLine(w)
    \/ StopWorker(w)

TargetStep(t) ==
    \/ TargetConnect(t) \/ TargetConnectFails(t)
    \/ RateLimitPass(t) \/ RateLimitDiscard(t) \/ RateLimitFallback(t)
    \/ \E u \in Targets : SendToFallback(t, u)
    \/ FallbackToUnknown(t)
    \/ WriteLine(t) \/ WriteFails(t)
    \/ AwaitOk(t) \/ AwaitRefused(t)
    \/ StopTarget(t)

MainStep == StopWorkers \/ WorkersDone \/ StopTargets \/ TargetsDone

Next ==
    /\ ~crashed
    /\ \/ \E s \in Sources : ReaderStep(s) \/ SourceStep(s)
       \/ \E w \in Workers : WorkerStep(w)
       \/ \E t \in Targets : TargetStep(t)
       \/ MainStep
       \/ Stop

Spec == Init /\ [][Next]_vars

\* The Go scheduler runs every goroutine that can run.  A source that stays
\* silent and a caller that never calls Stop are both legal, so neither the
\* reader nor Stop is fair.  A select draws lots among its ready cases, so that
\* frames which keep coming do not keep a connector from its StopChan.
Fairness ==
    /\ \A s \in Sources :
          WF_vars(~crashed /\ SourceStep(s)) /\ SF_vars(~crashed /\ StopSource(s))
    /\ \A w \in Workers : WF_vars(~crashed /\ WorkerStep(w))
    /\ \A t \in Targets : WF_vars(~crashed /\ TargetStep(t))
    /\ WF_vars(~crashed /\ MainStep)

FairSpec == Spec /\ Fairness
-------------------------------------------------------------------------------
(* Properties.                                                             *)

\* Who has a copy: a source connector blocked on Outbound, a worker that has
\* not sent it yet, a target connector that is processing it.
AtSource(c)    == src[c[1]] = "outbound" /\ accepted[c[1]] = c[2]
AtWorker(c, w) == worker[w] = "send" /\ wLine[w] = <<c[1], c[2]>> /\ wNext[w] <= c[3]
AtTarget(c, t) == target[t] \in Holding /\ tCopy[t] = c

Held(c) ==
    \/ AtSource(c)
    \/ \E w \in Workers : AtWorker(c, w)
    \/ \E t \in Targets : AtTarget(c, t)

\* The copies that InFlightWaitGroup has to count: those somebody still has,
\* and those that were dropped without CompleteMessage.
Open == {c \in Copy : Held(c) \/ outcome[c] = "stranded"}

\* The in-flight counter is exactly the number of copies that some goroutine
\* has in its hands, plus the stranded ones: no path of Handle, fallback or
\* rate limiting completes a copy twice (which would panic the WaitGroup) or
\* forgets one it still has.
CounterIsExact == inFlight = Cardinality(Open)

\* A copy is in the hands of at most one goroutine, and exactly the pending
\* ones are in somebody's hands: nothing is delivered twice, nothing vanishes.
OneHolder ==
    \A c \in Copy :
        /\ outcome[c] = "pending" <=> Held(c)
        /\ AtSource(c) => \A w \in Workers : ~AtWorker(c, w)
        /\ AtSource(c) => \A t \in Targets : ~AtTarget(c, t)
        /\ \A w \in Workers, t \in Targets : ~(AtWorker(c, w) /\ AtTarget(c, t))
        /\ \A w, v \in Workers : AtWorker(c, w) /\ AtWorker(c, v) => w = v
        /\ \A t, u \in Targets : AtTarget(c, t) /\ AtTarget(c, u) => t = u

\* When StopTargets closes TargetStop every acknowledged copy was delivered,
\* discarded by a rule or refused by its target, and no goroutine is left that
\* could still send to a target connector: a target that takes the StopChan
\* branch of its select abandons nothing.
DrainedMeansSettled ==
    targetStop =>
        /\ \A c \in Copy : outcome[c] \in Settled \cup {"unsent"}
        /\ \A s \in Sources : src[s] \in Exited
        /\ \A w \in Workers : worker[w] = "finished"
        /\ \A t \in Targets : target[t] \notin Holding

\* InFlightWaitGroup is never raised again once Start has got past
\* WaitForSources, so its Wait cannot race with an Add from zero.
NoAddWhileWaiting == [][main # "waitSources" => inFlight' <= inFlight]_vars

\* The broker implements LogDelivery: outcomes are final, and it is drained
\* only when nothing is pending or stranded.
Delivery == INSTANCE LogDelivery WITH
                Copy    <- Copy,
                Line    <- {CopiesOf(l[1], l[2]) : l \in Line},
                outcome <- outcome,
                drained <- targetStop

ImplementsLogDelivery == Delivery!Spec

\* The process panicked, or a target connector is gone: workers block on its
\* channel for ever.
Broken == crashed \/ \E t \in Targets : target[t] = "dead"

\* Once Stop is called, Start returns, unless the system is broken or a copy was
\* stranded (InFlightWaitGroup never gets back to zero).
StopCompletes ==
    sourceStop ~> (main = "done" \/ Broken \/ \E c \in Copy : outcome[c] = "stranded")

\* Every acknowledged copy is eventually settled, or stranded itself, unless the
\* system is broken, whether or not Stop is called.
PendingSettles ==
    \A c \in Copy : outcome[c] = "pending" ~> (outcome[c] # "pending" \/ Broken)

-------------------------------------------------------------------------------
(* The inductive invariant behind the theorems of BrokerProofs.            *)

\* What a process must have in its hands at the points where it uses it.
HandsFull ==
    /\ \A s \in Sources : reader[s] = "log" => accepted[s] < MaxLines
    /\ \A s \in Sources : src[s] = "outbound" => accepted[s] > 0
    /\ \A w \in Workers : worker[w] = "send" => wLine[w] \in Line
    /\ \A t \in Targets : target[t] \in Holding => tCopy[t] \in Copy /\ gauge[t] > 0

\* The unsent copies are those of the lines after the last acknowledged one.
UnsentAhead ==
    \A c \in Copy : outcome[c] = "unsent" <=> accepted[c[1]] < c[2]

\* The counter in terms of outcomes instead of holders.
Owed == {c \in Copy : outcome[c] \in {"pending", "stranded"}}
CountsOwed == inFlight = Cardinality(Owed)

\* What Start has waited for by the time it is at each of its waits.
Phases ==
    /\ main # "waitSources" => \A s \in Sources : src[s] \in Exited
    /\ main \notin {"waitSources", "waitWorkers"} =>
           \A w \in Workers : worker[w] = "finished"
    /\ targetStop <=> main \in {"waitTargets", "done"}
    /\ targetStop => inFlight = 0

\* IndInv holds initially, every step of Next preserves it, and it implies the
\* invariants above: OneHolder needs HandsFull and UnsentAhead (a new line has
\* no holder yet), the counter needs OneHolder (what is completed was pending)
\* and DrainedMeansSettled needs all of them and Phases.
IndInv ==
    /\ TypeOK
    /\ HandsFull
    /\ UnsentAhead
    /\ OneHolder
    /\ CountsOwed
    /\ Phases

-------------------------------------------------------------------------------
(* What the repository's comments and documentation say, and the code does *)
(* not do; and an ordering property of a special case.                     *)

\* What the comment of ReadToChannel says: "Any errors received are sent to the
\* errorChan."  If so, a connection that ended would end its source connector.
EOFEndsSource == \A s \in Sources : reader[s] = "returned" ~> src[s] \in Exited

\* What config-example.yaml says of the fallback target: "Logs will be sent here
\* while in breach."  If so, a connector does not stay in its fallback for ever.
FallbackIsSent == \A t \in Targets : target[t] = "fallback" ~> target[t] # "fallback"

\* What the help text of the messages_inflight gauge says: "The total number of
\* messages in flight/being processed."  Of a target that is not in the middle
\* of a message and has not failed, that is none.
GaugeIsInFlight == \A t \in Targets : target[t] = "select" => gauge[t] = 0

\* With one worker, the lines of a source are settled by a target that has no
\* fallback rule in the order in which they were acknowledged: neither the
\* reader, nor a fallback of another line to the same target, overtakes one.
HasFallback(t) == \E i \in DOMAIN Rules[t] : Rules[t][i].action = "fallback"

InOrder ==
    Cardinality(Workers) = 1 =>
        \A c, d \in Copy :
            /\ c[1] = d[1] /\ c[3] = d[3] /\ c[2] < d[2]
            /\ Route[c[1]][c[3]] \in {t \in Targets : ~HasFallback(t)}
            /\ outcome[d] \in Settled
            => outcome[c] # "pending"
==============================================================================
