---------------------------- MODULE TargetSession ----------------------------
(***************************************************************************)
(* The connection between a TargetConnector (broker/connector.go) and the  *)
(* server of its target (target/blackhole, target/stdout, target/logzio):  *)
(* HELLO, then TMSG and OK in turn, then BYE.                              *)
(*                                                                         *)
(* Frames travel in order, and are read whole or, with the fault           *)
(* "garbled", short (Protocol is about when that happens).  What is left   *)
(* of a connection after a side has closed it is read by the other, then   *)
(* EOF.  The server has two goroutines: its loop, and ReadToChannel.       *)
(* Broker and servers are one process, so a panic of a server ends them    *)
(* all.                                                                    *)
(***************************************************************************)
EXTENDS Integers, Sequences

CONSTANTS
    Provider,     \* "blackhole", "stdout" or "logzio"
    Kinds,        \* lines with Attributes ("full") or without ("bare")
    MaxLines,     \* bound: lines written in a behaviour
    HasMonitor,   \* is ConnectorManager.Monitor set?  (always, but in tests)
    Faults        \* what may go wrong in this instance

\* "cut": the connection breaks; "store": l.Send fails; "garbled": a frame is
\* read short.
FaultKinds == {"cut", "store", "garbled"}

ASSUME ProviderAssumption == Provider \in {"blackhole", "stdout", "logzio"}
ASSUME LinesAssumption    == Kinds \subseteq {"full", "bare"} /\ MaxLines \in Nat
ASSUME MonitorAssumption  == HasMonitor \in BOOLEAN
ASSUME FaultsAssumption   == Faults \subseteq FaultKinds

VARIABLES
    connector,    \* where TargetConnector.Handle is
    written,      \* lines it has written
    acked,        \* numbers of the lines it got an OK for
    toServer,     \* frames on their way to the server
    toConnector,  \* and back
    hungUp,       \* the sides that have closed the connection
    cut,          \* the connection is broken
    server,       \* the loop of the target's server
    reader,       \* its ReadToChannel: reading, or holding a frame
    outOfStep,    \* it read a frame short, the rest of which is still to be read
    handled,      \* numbers of the lines the server has processed
    crashed       \* a goroutine panicked

vars == <<connector, written, acked, toServer, toConnector, hungUp, cut, server,
          reader, outOfStep, handled, crashed>>

\* A line as it is written, and one that came out of a short read so that
\* ProtobufToTarget fails.
Line    == [cmd : {"TMSG"}, n : 1 .. MaxLines, kind : Kinds]
Garbled == [cmd |-> "garbled"]
Hello == [cmd |-> "HELLO"]
Ok    == [cmd |-> "OK"]
Bye   == [cmd |-> "BYE"]
Nothing == [cmd |-> "none"]
Error   == [cmd |-> "error"]

TypeOK ==
    /\ connector \in {"hello", "select", "await", "ended"}
    /\ written \in 0 .. MaxLines
    /\ acked \subseteq 1 .. MaxLines /\ handled \subseteq 1 .. MaxLines
    /\ toServer \in Seq(Line \cup {Hello, Bye}) /\ toConnector \in Seq({Ok})
    /\ hungUp \subseteq {"connector", "server"} /\ cut \in BOOLEAN
    /\ server \in {"hello", "select", "ended"}
    /\ reader \in Line \cup {Bye, Garbled, Nothing, Error}
    /\ outOfStep \in BOOLEAN
    /\ crashed \in BOOLEAN

Init ==
    /\ connector = "hello" /\ written = 0 /\ acked = {}
    /\ toServer = <<>> /\ toConnector = <<>> /\ hungUp = {} /\ cut = FALSE
    /\ server = "hello" /\ reader = Nothing /\ outOfStep = FALSE
    /\ handled = {}
    /\ crashed = FALSE

-------------------------------------------------------------------------------
(* TargetConnector.Handle.                                                 *)

\* A failure is logged, and the loop entered all the same.
SendHello ==
    /\ connector = "hello"
    /\ connector' = "select"
    /\ toServer' = IF cut THEN toServer ELSE Append(toServer, Hello)
    /\ UNCHANGED <<written, acked, toConnector, hungUp, cut, server, reader,
                   outOfStep, handled, crashed>>

WriteLine(k) ==
    /\ connector = "select" /\ written < MaxLines
    /\ connector' = "await"
    /\ written' = written + 1
    /\ toServer' = IF cut THEN toServer
                   ELSE Append(toServer, [cmd |-> "TMSG", n |-> written + 1, kind |-> k])
    /\ UNCHANGED <<acked, toConnector, hungUp, cut, server, reader, outOfStep,
                   handled, crashed>>

\* The deferred function: BYE, which goes nowhere on a broken connection, and
\* Close.
HangUp ==
    /\ connector' = "ended"
    /\ toServer' = IF cut THEN toServer ELSE Append(toServer, Bye)
    /\ hungUp' = hungUp \cup {"connector"}

WriteFails ==
    /\ connector = "select" /\ cut
    /\ HangUp
    /\ UNCHANGED <<written, acked, toConnector, cut, server, reader, outOfStep,
                   handled, crashed>>

\* WaitForOk.
AwaitOk ==
    /\ connector = "await"
    /\ toConnector # <<>> /\ Head(toConnector) = Ok
    /\ toConnector' = Tail(toConnector)
    /\ acked' = acked \cup {written}
    /\ connector' = "select"
    /\ UNCHANGED <<written, toServer, hungUp, cut, server, reader, outOfStep,
                   handled, crashed>>

\* WaitForOk returns false: the connection is gone, or the OK was read short.
\* With a monitor err.Error() is logged, and err is nil.
AwaitFails ==
    /\ connector = "await"
    /\ \/ toConnector = <<>> /\ (cut \/ "server" \in hungUp)
       \/ toConnector # <<>> /\ "garbled" \in Faults
    /\ HangUp
    /\ crashed' = HasMonitor
    /\ UNCHANGED <<written, acked, toConnector, cut, server, reader, outOfStep,
                   handled>>

\* StopChan: BYE and Close, once more in the deferred function to no effect.
StopSilently ==
    /\ connector = "select"
    /\ connector' = "ended"
    /\ hungUp' = hungUp \cup {"connector"}
    /\ UNCHANGED <<written, acked, toServer, toConnector, cut, server, reader,
                   outOfStep, handled, crashed>>

Stop ==
    /\ connector = "select"
    /\ HangUp
    /\ UNCHANGED <<written, acked, toConnector, cut, server, reader, outOfStep,
                   handled, crashed>>

-------------------------------------------------------------------------------
(* The server.                                                             *)

HelloAnswered ==
    /\ server = "hello" /\ toServer # <<>> /\ Head(toServer) = Hello
    /\ toServer' = Tail(toServer)
    /\ toConnector' = Append(toConnector, Ok)
    /\ server' = "select"
    /\ UNCHANGED <<connector, written, acked, hungUp, cut, reader, outOfStep,
                   handled, crashed>>

WaitForHello ==
    /\ server = "hello" /\ toServer # <<>> /\ Head(toServer) = Hello
    /\ toServer' = Tail(toServer)
    /\ server' = "select"
    /\ UNCHANGED <<connector, written, acked, toConnector, hungUp, cut, reader,
                   outOfStep, handled, crashed>>

\* The connection broke before HELLO was read, or HELLO was read short: the
\* server panics.
HelloFails ==
    /\ server = "hello"
    /\ \/ toServer = <<>> /\ cut
       \/ toServer # <<>> /\ "garbled" \in Faults
    /\ crashed' = TRUE
    /\ UNCHANGED <<connector, written, acked, toServer, toConnector, hungUp, cut,
                   server, reader, outOfStep, handled>>

\* ReadToChannel: a frame, or an error, of which EOF is none.
ReadFrame ==
    /\ server # "hello" /\ reader = Nothing /\ ~outOfStep
    /\ IF toServer # <<>> /\ "server" \notin hungUp
       THEN reader' = Head(toServer) /\ toServer' = Tail(toServer)
       ELSE /\ cut \/ "server" \in hungUp
            /\ reader' = Error /\ UNCHANGED toServer
    /\ UNCHANGED <<connector, written, acked, toConnector, hungUp, cut, server,
                   outOfStep, handled, crashed>>

\* A frame is read short, the missing bytes being zeros.  Of a line the frame
\* itself may not decode, or the line in it, or only its text has lost its end.
ReadShort ==
    /\ "garbled" \in Faults
    /\ server # "hello" /\ reader = Nothing /\ ~outOfStep
    /\ toServer # <<>> /\ "server" \notin hungUp
    /\ toServer' = Tail(toServer)
    /\ \/ reader' = Error
       \/ Head(toServer).cmd = "TMSG" /\ reader' \in {Head(toServer), Garbled}
    /\ outOfStep' = TRUE
    /\ UNCHANGED <<connector, written, acked, toConnector, hungUp, cut, server,
                   handled, crashed>>

\* What is left of that frame is taken for a header and a payload, which do not
\* decode; or there is too little of it, and the Read of the payload waits.  (Zeros
\* make an empty message, which the loop ignores, and are left out.)
ReadRest ==
    /\ outOfStep /\ server # "hello" /\ reader = Nothing
    /\ reader' = Error
    /\ UNCHANGED <<connector, written, acked, toServer, toConnector, hungUp, cut,
                   server, outOfStep, handled, crashed>>

\* The server's loop has a TMSG.  One that ProtobufToTarget does not decode is
\* passed over: no OK is sent.
SkipLine ==
    /\ server = "select" /\ reader = Garbled
    /\ reader' = Nothing
    /\ UNCHANGED <<connector, written, acked, toServer, toConnector, hungUp, cut,
                   server, outOfStep, handled, crashed>>

\* The store of the logz.io sender may fail, and a line without Attributes is
\* dereferenced there; both panic.
Panics(l) ==
    /\ Provider = "logzio"
    /\ l.kind = "bare" \/ "store" \in Faults

Survives(l) == Provider = "logzio" => l.kind = "full"

TakesLine == server = "select" /\ reader.cmd = "TMSG"

\* Any other is processed and answered.
AnswersNothing ==
    /\ TakesLine /\ Survives(reader)
    /\ handled' = handled \cup {reader.n}
    /\ reader' = Nothing
    /\ UNCHANGED <<connector, written, acked, toServer, toConnector, hungUp, cut,
                   server, outOfStep, crashed>>

HandleLine ==
    /\ TakesLine /\ Survives(reader)
    /\ handled' = handled \cup {reader.n}
    /\ toConnector' = IF cut THEN toConnector ELSE Append(toConnector, Ok)
    /\ reader' = Nothing
    /\ UNCHANGED <<connector, written, acked, toServer, hungUp, cut, server,
                   outOfStep, crashed>>

HandleLinePanics ==
    /\ TakesLine /\ Panics(reader)
    /\ crashed' = TRUE
    /\ UNCHANGED <<connector, written, acked, toServer, toConnector, hungUp, cut,
                   server, reader, outOfStep, handled>>

\* BYE, or an error: Close; the deferred BYE finds the connection closed.
ServerEnd ==
    /\ server = "select" /\ reader.cmd \in {"BYE", "error"}
    /\ server' = "ended"
    /\ reader' = Nothing
    /\ hungUp' = hungUp \cup {"server"}
    /\ UNCHANGED <<connector, written, acked, toServer, toConnector, cut,
                   outOfStep, handled, crashed>>

-------------------------------------------------------------------------------
\* The connection breaks: what was on its way may be lost.
Cut ==
    /\ "cut" \in Faults /\ ~cut
    /\ cut' = TRUE
    /\ \E i \in 0 .. Len(toServer) : toServer' = SubSeq(toServer, 1, i)
    /\ \E i \in 0 .. Len(toConnector) : toConnector' = SubSeq(toConnector, 1, i)
    /\ UNCHANGED <<connector, written, acked, hungUp, server, reader, outOfStep,
                   handled, crashed>>

ConnectorStep ==
    \/ SendHello \/ WriteFails \/ AwaitOk \/ AwaitFails
    \/ \E k \in Kinds : WriteLine(k)

ServerStep ==
    \/ WaitForHello \/ HelloFails
    \/ SkipLine \/ HandleLine \/ HandleLinePanics \/ ServerEnd

Next ==
    /\ ~crashed
    /\ \/ ConnectorStep \/ Stop
       \/ ServerStep \/ ReadFrame \/ ReadShort \/ ReadRest
       \/ Cut

Spec == Init /\ [][Next]_vars

\* Every goroutine runs, and what TCP has accepted arrives.  Lines and Stop come
\* from outside, and nothing ends a Read that waits for the rest of a payload.
FairSpec ==
    /\ Spec
    /\ WF_vars(~crashed /\ (AwaitOk \/ AwaitFails))
    /\ WF_vars(~crashed /\ ServerStep)
    /\ WF_vars(~crashed /\ ReadFrame)

-------------------------------------------------------------------------------
(* Properties.                                                             *)

\* A line that the connector completes (connector.go 242-257) is one that the
\* target has processed, although perhaps without the end of its text when it was
\* read short: no OK is taken for another line's, none is sent for a line that the
\* server passed over.
AckedIsHandled == acked \subseteq handled

\* The server reads on after a frame that was read short, and waits for more.
WaitsForRest == outOfStep /\ reader = Nothing /\ server = "select"

\* The connector does not wait for an OK for ever (connector.go 242): it is
\* answered, or told that the connection is gone, or the process has ended.  The
\* exception is a frame read short that does not make the server hang up: the
\* line in it is passed over without an OK when it does not decode
\* (blackhole/server.go 60-62), and the next one may never be found.
AwaitEnds == <>[](connector = "await" /\ ~crashed) => <>[]WaitsForRest

\* When the connector has ended so does the server's loop (stdout/server.go 68-76).
\* EOF would not do it, since ReadToChannel swallows it: BYE does, or an error,
\* unless the server waits for the rest of a frame that was read short.
ServerEnds ==
    <>[](connector = "ended" /\ server # "ended" /\ ~crashed) => <>[]WaitsForRest

-------------------------------------------------------------------------------
(* What the connector relies on, and the servers do not do.                *)

\* The answer of the server is waited for without a timeout: every line would
\* have to be answered, one that does not decode too.
LinesAreAnswered == (connector = "await") ~> (connector # "await" \/ crashed)
===============================================================================
