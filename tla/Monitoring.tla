------------------------------ MODULE Monitoring ------------------------------
(***************************************************************************)
(* The counters of monitoring/stats.go that the broker's goroutines keep   *)
(* and the web API (web/api/sources.go, web/api/targets.go) reports.       *)
(*                                                                         *)
(* The module extends Broker: each of its steps is a step of Broker with   *)
(* what the goroutine adds to its counters before it moves on, or the      *)
(* update of the counters that the goroutine makes after it, when others   *)
(* may already have gone ahead (owes), or a step of a request to the API.  *)
(* Counters are updated and read with atomics, one at a time, and a        *)
(* request takes no lock; updates that one goroutine makes in a row are    *)
(* one step.  Bytes are counted where inbound messages are and are left    *)
(* out, and so are the counters of workers, whose inbound counts lines and *)
(* whose outbound counts copies.  Broker's gauge is the in-flight counter  *)
(* of a target at the coarser steps of Broker; here it is stats.inflight.  *)
(***************************************************************************)
EXTENDS Broker, FiniteSetsExt

CONSTANT Shown    \* bound: the connections whose entry requests ask for

\* The entries of the responses of the two routes.
Entry == ({"source"} \X Sources) \cup ({"target"} \X Targets)

ASSUME ShownAssumption == Shown \subseteq Entry

Stats == [inbound : Nat, outbound : Nat, dropped : Nat, resent : Nat, inflight : Int]
NewStats == [inbound |-> 0, outbound |-> 0, dropped |-> 0, resent |-> 0, inflight |-> 0]

VARIABLES
    sStats,    \* the counters of each source connection
    tStats,    \* of each target connection
    sOwes,     \* the update a source connector has yet to make, if any
    tOwes,     \* a target connector
    view       \* the request to the API that is being answered

statVars == <<sStats, tStats>>
oweVars  == <<sOwes, tOwes>>
mVars    == <<vars, statVars, oweVars, view>>

\* The counters that a response has, in the order in which they are loaded.
InboundLast == <<"outbound", "inflight", "inbound">>
LoadOrder == <<"inbound", "outbound", "inflight">>

NoView == [at |-> 0]
View   == [at : 1 .. Len(LoadOrder), entry : Entry, missing : Int]

MTypeOK ==
    /\ TypeOK
    /\ sStats \in [Sources -> Stats]
    /\ tStats \in [Targets -> Stats]
    /\ sOwes \in [Sources -> {"none", "sent"}]
    /\ tOwes \in [Targets -> {"none", "ok", "discard", "resent"}]
    /\ view \in View \cup {NoView}

MInit ==
    /\ Init
    /\ sStats = [s \in Sources |-> NewStats]
    /\ tStats = [t \in Targets |-> NewStats]
    /\ sOwes = [s \in Sources |-> "none"]
    /\ tOwes = [t \in Targets |-> "none"]
    /\ view = NoView

-------------------------------------------------------------------------------
(* stats.go.                                                               *)

IncrementMessagesInbound(st)  == [st EXCEPT !.inbound = @ + 1]
IncrementMessagesOutbound(st) == [st EXCEPT !.outbound = @ + 1]
IncrementDroppedMessages(st)  == [st EXCEPT !.dropped = @ + 1]
IncrementResentMessages(st)   == [st EXCEPT !.resent = @ + 1]

\* MessagesInFlight is unsigned: taken below zero it would wrap round, which
\* Accounts excludes.
AddInFlightMessage(st)        == [st EXCEPT !.inflight = @ + 1]
RemoveInFlightMessage(st)     == [st EXCEPT !.inflight = @ - 1]

\* A connector has taken a message.
Arrives(st) == AddInFlightMessage(IncrementMessagesInbound(st))

-------------------------------------------------------------------------------
(* Source connectors and readers.  A connector that owes an update makes   *)
(* it before anything else.                                                *)

Keep(steps) == steps /\ UNCHANGED <<statVars, oweVars, view>>

\* Connecting, ignoring a frame and stopping count nothing.
MSourceQuiet(s) ==
    /\ sOwes[s] = "none"
    /\ Keep(SourceConnect(s) \/ SourceConnectFails(s) \/ ReceiveOther(s)
            \/ StopSource(s))

MReceiveLine(s) ==
    /\ sOwes[s] = "none"
    /\ ReceiveLine(s)
    /\ sStats' = [sStats EXCEPT ![s] = Arrives(@)]
    /\ UNCHANGED <<tStats, oweVars, view>>

\* A message that does not decode is counted, and stays in flight for good; an
\* error from errorChan is not a message.
MReceiveFailure(s) ==
    /\ sOwes[s] = "none"
    /\ ReceiveFailure(s)
    /\ sStats' = IF reader[s] = "garbled" THEN [sStats EXCEPT ![s] = Arrives(@)]
                                          ELSE sStats
    /\ UNCHANGED <<tStats, oweVars, view>>

\* The line goes to a worker; the connector counts it as sent afterwards.
MDispatch(s, w) ==
    /\ sOwes[s] = "none"
    /\ Dispatch(s, w)
    /\ sOwes' = [sOwes EXCEPT ![s] = "sent"]
    /\ UNCHANGED <<statVars, tOwes, view>>

SentStaysInFlight(s) ==
    /\ sOwes[s] = "sent"
    /\ sStats' = [sStats EXCEPT ![s] = IncrementMessagesOutbound(@)]
    /\ sOwes' = [sOwes EXCEPT ![s] = "none"]
    /\ UNCHANGED <<vars, tStats, tOwes, view>>

CountSource(s) ==
    /\ sOwes[s] = "sent"
    /\ sStats' = [sStats EXCEPT ![s] =
                     RemoveInFlightMessage(IncrementMessagesOutbound(@))]
    /\ sOwes' = [sOwes EXCEPT ![s] = "none"]
    /\ UNCHANGED <<vars, tStats, tOwes, view>>

-------------------------------------------------------------------------------
(* Workers and target connectors.                                          *)

MSendToTarget(w, t) ==
    /\ tOwes[t] = "none"
    /\ SendToTarget(w, t)
    /\ tStats' = [tStats EXCEPT ![t] = Arrives(@)]
    /\ UNCHANGED <<sStats, oweVars, view>>

MWorkerQuiet(w) == Keep(SendToUnknown(w) \/ FinishLine(w) \/ StopWorker(w))

\* Connecting, the verdict of the rules and stopping count nothing.
MTargetQuiet(t) ==
    /\ tOwes[t] = "none"
    /\ Keep(TargetConnect(t) \/ TargetConnectFails(t) \/ RateLimitPass(t)
            \/ RateLimitFallback(t) \/ StopTarget(t))

Owe(t, o) == tOwes' = [tOwes EXCEPT ![t] = o]

\* CompleteMessage comes first, the counters after it.
MRateLimitDiscard(t) ==
    /\ tOwes[t] = "none"
    /\ RateLimitDiscard(t)
    /\ Owe(t, "discard")
    /\ UNCHANGED <<statVars, sOwes, view>>

MSendToFallback(t, u) ==
    /\ tOwes[t] = "none" /\ tOwes[u] = "none"
    /\ SendToFallback(t, u)
    /\ tStats' = [tStats EXCEPT ![u] = Arrives(@)]
    /\ Owe(t, "resent")
    /\ UNCHANGED <<sStats, sOwes, view>>

\* A fallback that could not be sent is counted as one that was.
MFallbackToUnknown(t) ==
    /\ tOwes[t] = "none"
    /\ FallbackToUnknown(t)
    /\ Owe(t, "resent")
    /\ UNCHANGED <<statVars, sOwes, view>>

MWriteLine(t) ==
    /\ tOwes[t] = "none"
    /\ WriteLine(t)
    /\ tStats' = [tStats EXCEPT ![t] = IncrementMessagesOutbound(@)]
    /\ UNCHANGED <<sStats, oweVars, view>>

MWriteFails(t) ==
    /\ tOwes[t] = "none"
    /\ WriteFails(t)
    /\ tStats' = [tStats EXCEPT ![t] = IncrementDroppedMessages(@)]
    /\ UNCHANGED <<sStats, oweVars, view>>

MAwaitOk(t) ==
    /\ tOwes[t] = "none"
    /\ AwaitOk(t)
    /\ Owe(t, "ok")
    /\ UNCHANGED <<statVars, sOwes, view>>

\* With a monitor the panic comes before the message is counted as dropped.
MAwaitRefused(t) ==
    /\ tOwes[t] = "none"
    /\ AwaitRefused(t)
    /\ tStats' = IF HasMonitor THEN tStats
                 ELSE [tStats EXCEPT ![t] = IncrementDroppedMessages(@)]
    /\ UNCHANGED <<sStats, oweVars, view>>

\* What a connector adds to its counters when it has completed, discarded or
\* resent a message.  A message that is resent stays in flight for good.
ResentAsDropped(o, st) ==
    CASE o = "ok"      -> RemoveInFlightMessage(st)
      [] o = "discard" -> IncrementDroppedMessages(RemoveInFlightMessage(st))
      [] OTHER         -> IncrementResentMessages(IncrementDroppedMessages(st))

Afterwards(o, st) ==
    CASE o = "ok"      -> RemoveInFlightMessage(st)
      [] o = "discard" -> IncrementDroppedMessages(RemoveInFlightMessage(st))
      [] OTHER         -> IncrementResentMessages(IncrementMessagesOutbound(st))

CountTarget(t) ==
    /\ tOwes[t] # "none"
    /\ tStats' = [tStats EXCEPT ![t] = Afterwards(tOwes[t], @)]
    /\ Owe(t, "none")
    /\ UNCHANGED <<vars, sStats, sOwes, view>>

-------------------------------------------------------------------------------
(* GetSourcesRoute and GetTargetsRoute without a node parameter.  Of the   *)
(* entry being put together the model keeps how many counters are loaded,  *)
(* and how many of the messages that came in those do not account for      *)
(* (missing).  The counters are loaded in the order of the struct literal; *)
(* the dropped one, for which both entries have a field, is not among      *)
(* them.  The state, the bytes, and the resent counter of a target, which  *)
(* is part of the outbound one, are left out.                              *)

StatsOf(e) == IF e[1] = "source" THEN sStats[e[2]] ELSE tStats[e[2]]

Loaded(m, e, f) == IF f = "inbound" THEN m + StatsOf(e)[f] ELSE m - StatsOf(e)[f]

\* A request arrives, and the first counter of an entry is loaded.
Request(e) ==
    /\ HasMonitor /\ view = NoView
    /\ view' = [at |-> 1, entry |-> e, missing |-> Loaded(0, e, LoadOrder[1])]
    /\ UNCHANGED <<vars, statVars, oweVars>>

Load ==
    /\ view.at \in 1 .. Len(LoadOrder) - 1
    /\ view' = [at |-> view.at + 1, entry |-> view.entry,
                missing |-> Loaded(view.missing, view.entry, LoadOrder[view.at + 1])]
    /\ UNCHANGED <<vars, statVars, oweVars>>

\* The response is sent.
Respond ==
    /\ view.at = Len(LoadOrder)
    /\ view' = NoView
    /\ UNCHANGED <<vars, statVars, oweVars>>

-------------------------------------------------------------------------------
MReaderStep(s) == Keep(ReaderStep(s))

MSourceStep(s) ==
    \/ MSourceQuiet(s) \/ MReceiveLine(s) \/ MReceiveFailure(s)
    \/ \E w \in Workers : MDispatch(s, w)
    \/ CountSource(s)

MWorkerStep(w) ==
    \/ \E t \in Targets : MSendToTarget(w, t)
    \/ MWorkerQuiet(w)

MTargetStep(t) ==
    \/ MTargetQuiet(t) \/ MRateLimitDiscard(t)
    \/ \E u \in Targets : MSendToFallback(t, u)
    \/ MFallbackToUnknown(t)
    \/ MWriteLine(t) \/ MWriteFails(t)
    \/ MAwaitOk(t) \/ MAwaitRefused(t)
    \/ CountTarget(t)

MMainStep == Keep(MainStep)

ViewStep == (\E e \in Shown : Request(e)) \/ Load \/ Respond

MNext ==
    /\ ~crashed
    /\ \/ \E s \in Sources : MReaderStep(s) \/ MSourceStep(s)
       \/ \E w \in Workers : MWorkerStep(w)
       \/ \E t \in Targets : MTargetStep(t)
       \/ MMainStep
       \/ Keep(Stop)
       \/ ViewStep

MSpec == MInit /\ [][MNext]_mVars

-------------------------------------------------------------------------------
(* Properties.                                                             *)

One(b) == IF b THEN 1 ELSE 0

\* The copy a target connector has before it is written or sent elsewhere, and
\* the one that was lost when its connection failed.
Unwritten(t) == target[t] \in {"limit", "fallback", "write"}
                \/ tOwes[t] \in {"discard", "resent"}
DiedWithCopy(t) == target[t] = "dead" /\ tStats[t].inbound > 0

\* A connector is in the middle of a message, or has yet to count its end.
TargetBusy(t) == One(target[t] \in Holding \/ tOwes[t] # "none")
SourceBusy(s) == One(src[s] = "outbound" \/ sOwes[s] = "sent")

TargetAccount(t) ==
    /\ HasMonitor => tStats[t].inbound =
          tStats[t].outbound + tStats[t].dropped + One(Unwritten(t))
    /\ tStats[t].inflight >= TargetBusy(t)
    /\ target[t] # "dead" /\ tStats[t].resent = 0
          => tStats[t].inflight = TargetBusy(t)

SourceAccount(s) ==
    /\ accepted[s] = sStats[s].outbound + SourceBusy(s)
    /\ sStats[s].inflight >= SourceBusy(s)
    /\ src[s] # "dead" => sStats[s].inflight = SourceBusy(s)

\* The counters of a connection tell where its messages are, between any two
\* steps of any goroutine.  At a target (connector.go 197-258 and 275-299) every
\* message that came in went out, was dropped, or is not yet written; at a source
\* (374-403) what was acknowledged goes out.  The in-flight counter, which is
\* unsigned, is never taken below the message being processed, and is just that
\* one for a connector that has not failed and, at a target, has resent nothing:
\* that a resent message is never taken off it is what GaugeIsInFlight finds.
Accounts ==
    /\ \A t \in Targets : TargetAccount(t)
    /\ \A s \in Sources : SourceAccount(s)

Total(f) == SumFunctionOnSet([t \in Targets |-> tStats[t][f]], Targets)
Number(o) == Cardinality({c \in Copy : outcome[c] = o})

Awaiting   == {t \in Targets : target[t] = "await"}
Discarding == {t \in Targets : tOwes[t] = "discard"}
Lost       == {t \in Targets : DiedWithCopy(t)}

\* The counters of all targets together tell what has become of the copies:
\* what went out and was not resent is delivered, refused or awaits its OK; what
\* was dropped was discarded by a rule or lost with its connection, although
\* each counter is updated after the step that decides, and elsewhere.
CountersTellOutcomes ==
    /\ Total("outbound") - Total("resent") =
          Number("delivered") + Number("refused") + Cardinality(Awaiting)
    /\ HasMonitor =>
          Total("dropped") + Cardinality(Discarding) =
             Number("discarded") - Number("refused") + Cardinality(Lost)

\* A response of the API, put together from counters that move on between the
\* loads (targets.go 84-94, sources.go 71-80), accounts for every message that
\* it says came in, but for one: what came in is out, in flight or was dropped
\* by then.  Were the inbound counter not the first one to be loaded, any number
\* could be missing.
Dropped(e) == StatsOf(e).dropped

ViewMissesAtMostOne ==
    view.at = Len(LoadOrder) => view.missing <= Dropped(view.entry) + 1

-------------------------------------------------------------------------------
(* What the dashboard says.                                                *)

\* web/ui/src/views/Home.vue 155 shows "Dropped Messages" from the response: if
\* so, the dropped messages need not be looked for in the process.
DroppedIsShown == view.at = Len(LoadOrder) => view.missing <= 1
===============================================================================
