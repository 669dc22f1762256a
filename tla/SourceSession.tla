---------------------------- MODULE SourceSession ----------------------------
(***************************************************************************)
(* The connection between a SourceConnector (broker/connector.go) and the  *)
(* dummy source (source/dummy): HELLO, then SMSG and OK in turn, until the *)
(* connector closes.                                                       *)
(*                                                                         *)
(* Frames travel whole and in order; one that Protocol shows cut is        *)
(* "garbled" here, and its reader gets an error.  Connector and source are *)
(* one process, so a panic of the source ends both.                        *)
(***************************************************************************)
EXTENDS Integers, Sequences, FiniteSets

CONSTANTS
    MaxLines,     \* bound on written
    Faults        \* "cut": the connection breaks; "garbled": a frame is misread

ASSUME LinesAssumption  == MaxLines \in Nat
ASSUME FaultsAssumption == Faults \subseteq {"cut", "garbled"}

VARIABLES
    dummy,        \* where the source's goroutine is
    written,      \* lines it has written while the connection was there
    acked,        \* lines it got an OK for
    toConnector,  \* frames on their way to the connector
    toDummy,      \* and back
    closed,       \* the connector has closed its side
    cut,          \* the connection is broken
    reader,       \* ReadToChannel of the connector: the frame it holds
    connector,    \* where SourceConnector.Handle is
    taken,        \* lines the connector has handed to the workers, or is about to
    crashed       \* the source panicked

vars == <<dummy, written, acked, toConnector, toDummy, closed, cut, reader,
          connector, taken, crashed>>

TypeOK ==
    /\ dummy \in {"hello", "write", "await", "spin", "ended"}
    /\ written \in 0 .. MaxLines /\ acked \in 0 .. MaxLines /\ taken \in 0 .. MaxLines
    /\ toConnector \in Seq({"SMSG"}) /\ toDummy \in Seq({"HELLO", "OK", "BYE"})
    /\ closed \in BOOLEAN /\ cut \in BOOLEAN /\ crashed \in BOOLEAN
    /\ reader \in {"none", "SMSG", "error"}
    /\ connector \in {"hello", "select", "outbound", "ended"}

Init ==
    /\ dummy = "hello" /\ written = 0 /\ acked = 0
    /\ toConnector = <<>> /\ toDummy = <<>> /\ closed = FALSE /\ cut = FALSE
    /\ reader = "none" /\ connector = "hello" /\ taken = 0
    /\ crashed = FALSE

\* A frame sent on a broken or closed connection goes nowhere.
Gone == cut \/ closed

Sent(frame) == IF Gone THEN toDummy ELSE Append(toDummy, frame)

-------------------------------------------------------------------------------
(* SourceConnector.Handle and its ReadToChannel.                           *)

SendHello ==
    /\ connector = "hello"
    /\ toDummy' = Sent("HELLO")
    /\ connector' = "select"
    /\ UNCHANGED <<dummy, written, acked, toConnector, closed, cut, reader, taken, crashed>>

SendHelloFails ==
    /\ connector = "hello" /\ cut
    /\ connector' = "ended"
    /\ UNCHANGED <<dummy, written, acked, toConnector, toDummy, closed, cut, reader,
                   taken, crashed>>

ReadFrame ==
    /\ connector # "hello" /\ reader = "none"
    /\ toConnector # <<>> /\ ~closed
    /\ toConnector' = Tail(toConnector)
    /\ \/ reader' = "SMSG"
       \/ reader' = "error" /\ "garbled" \in Faults
    /\ UNCHANGED <<dummy, written, acked, toDummy, closed, cut, connector, taken, crashed>>

\* A broken connection, or one the connector has closed itself, is an error.
ReadError ==
    /\ connector # "hello" /\ reader = "none"
    /\ closed \/ (cut /\ toConnector = <<>>)
    /\ reader' = "error"
    /\ UNCHANGED <<dummy, written, acked, toConnector, toDummy, closed, cut, connector,
                   taken, crashed>>

\* SendOk comes first, AddMessage and the send on Outbound after it.
ReceiveSilently ==
    /\ connector = "select" /\ reader = "SMSG"
    /\ reader' = "none"
    /\ taken' = taken + 1
    /\ connector' = "outbound"
    /\ UNCHANGED <<dummy, written, acked, toConnector, toDummy, closed, cut, crashed>>

ReceiveWithTwoOks ==
    /\ connector = "select" /\ reader = "SMSG"
    /\ reader' = "none"
    /\ toDummy' = Sent("OK") \o <<"OK">>
    /\ taken' = taken + 1
    /\ connector' = "outbound"
    /\ UNCHANGED <<dummy, written, acked, toConnector, closed, cut, crashed>>

ReceiveLine ==
    /\ connector = "select" /\ reader = "SMSG"
    /\ reader' = "none"
    /\ toDummy' = Sent("OK")
    /\ taken' = taken + 1
    /\ connector' = "outbound"
    /\ UNCHANGED <<dummy, written, acked, toConnector, closed, cut, crashed>>

\* A worker takes the line, if there is one that does not wait itself.
HandOver ==
    /\ connector = "outbound"
    /\ connector' = "select"
    /\ UNCHANGED <<dummy, written, acked, toConnector, toDummy, closed, cut, reader,
                   taken, crashed>>

\* errorChan: BYE and Close, both deferred.
ReceiveError ==
    /\ connector = "select" /\ reader = "error"
    /\ reader' = "none"
    /\ toDummy' = Sent("BYE")
    /\ closed' = TRUE
    /\ connector' = "ended"
    /\ UNCHANGED <<dummy, written, acked, toConnector, cut, taken, crashed>>

\* StopChan: Close comes first, and the deferred BYE finds the connection closed.
Stop ==
    /\ connector = "select"
    /\ closed' = TRUE
    /\ connector' = "ended"
    /\ UNCHANGED <<dummy, written, acked, toConnector, toDummy, cut, reader, taken,
                   crashed>>

-------------------------------------------------------------------------------
(* The dummy source.                                                       *)

WaitForHello ==
    /\ dummy = "hello" /\ toDummy # <<>> /\ Head(toDummy) = "HELLO"
    /\ toDummy' = Tail(toDummy)
    /\ dummy' = "write"
    /\ UNCHANGED <<written, acked, toConnector, closed, cut, reader, connector, taken,
                   crashed>>

HelloFails ==
    /\ dummy = "hello" /\ toDummy = <<>> /\ Gone
    /\ crashed' = TRUE
    /\ UNCHANGED <<dummy, written, acked, toConnector, toDummy, closed, cut, reader,
                   connector, taken>>

\* The first write after the connector's Close still succeeds.
WriteAndGoOn ==
    /\ dummy = "write"
    /\ IF Gone THEN UNCHANGED <<toConnector, written>>
       ELSE /\ written < MaxLines
            /\ toConnector' = Append(toConnector, "SMSG")
            /\ written' = written + 1
    /\ dummy' \in {"await", "write"}
    /\ UNCHANGED <<acked, toDummy, closed, cut, reader, connector, taken, crashed>>

WriteLine ==
    /\ dummy = "write"
    /\ IF Gone THEN UNCHANGED <<toConnector, written>>
       ELSE /\ written < MaxLines
            /\ toConnector' = Append(toConnector, "SMSG")
            /\ written' = written + 1
    /\ dummy' = "await"
    /\ UNCHANGED <<acked, toDummy, closed, cut, reader, connector, taken, crashed>>

\* The loop continues with another write, which fails too, and so on.
WriteFails ==
    /\ dummy = "write" /\ cut
    /\ dummy' = "spin"
    /\ UNCHANGED <<written, acked, toConnector, toDummy, closed, cut, reader, connector,
                   taken, crashed>>

AwaitOk ==
    /\ dummy = "await" /\ toDummy # <<>> /\ Head(toDummy) = "OK"
    /\ toDummy' = Tail(toDummy)
    /\ acked' = acked + 1
    /\ dummy' = "write"
    /\ UNCHANGED <<written, toConnector, closed, cut, reader, connector, taken, crashed>>

\* WaitForOk is false on BYE, EOF and errors.  A connector that closes while a
\* line is unread resets the connection, which is an error here too.
Refused ==
    /\ dummy = "await"
    /\ \/ toDummy # <<>> /\ Head(toDummy) = "BYE"
       \/ toDummy = <<>> /\ Gone

AwaitRetries ==
    /\ Refused
    /\ dummy' = "write"
    /\ UNCHANGED <<written, acked, toConnector, toDummy, closed, cut, reader, connector,
                   taken, crashed>>

AwaitFails ==
    /\ Refused
    /\ dummy' = "ended"
    /\ UNCHANGED <<written, acked, toConnector, toDummy, closed, cut, reader, connector,
                   taken, crashed>>

-------------------------------------------------------------------------------
\* The connection breaks: what was on its way may be lost.
Cut ==
    /\ "cut" \in Faults /\ ~cut
    /\ cut' = TRUE
    /\ \E i \in 0 .. Len(toConnector) : toConnector' = SubSeq(toConnector, 1, i)
    /\ \E i \in 0 .. Len(toDummy) : toDummy' = SubSeq(toDummy, 1, i)
    /\ UNCHANGED <<dummy, written, acked, closed, reader, connector, taken, crashed>>

ReaderStep == ReadFrame \/ ReadError

ConnectorStep ==
    \/ SendHello \/ SendHelloFails
    \/ ReceiveLine \/ HandOver \/ ReceiveError

DummyStep ==
    \/ WaitForHello \/ HelloFails
    \/ WriteLine \/ WriteFails \/ AwaitOk \/ AwaitFails

Next ==
    /\ ~crashed
    /\ ReaderStep \/ ConnectorStep \/ Stop \/ DummyStep \/ Cut

Spec == Init /\ [][Next]_vars

\* Every goroutine runs, and what TCP has accepted arrives.  HandOver is not
\* fair: when all workers wait at the Inbound of a target connector that is gone
\* (connector.go 316), nobody takes what is sent on Outbound.  Stop comes from
\* outside.
FairSpec ==
    /\ Spec
    /\ WF_vars(~crashed /\ ReaderStep)
    /\ WF_vars(~crashed /\ (SendHello \/ SendHelloFails \/ ReceiveLine \/ ReceiveError))
    /\ WF_vars(~crashed /\ DummyStep)

-------------------------------------------------------------------------------
(* Properties.                                                             *)

HeldLines == IF reader = "SMSG" THEN 1 ELSE 0
OksUnread == Cardinality({i \in 1 .. Len(toDummy) : toDummy[i] = "OK"})

\* A line on its way, in the reader's hands or answered by an unread OK: there is
\* never more than one of them (dummy.go 60-72).  Broker relies on it when it
\* lets a source write its next line only after the OK.
OneOutstanding == Len(toConnector) + HeldLines + OksUnread <= 1

\* A line that the source takes for accepted is one that the connector has taken
\* over (connector.go 398-401): no OK is read for another line's.
AckedIsTaken == acked <= taken

\* The connector still offers the line before the one the source has written.
Backlogged == connector = "outbound" /\ taken = acked

\* The source waits for an OK for ever (dummy.go 67) only if no worker ever takes
\* the line before, which was acknowledged (connector.go 398-401): its own line
\* needs no worker to be answered.  Otherwise it gets the OK, or learns that the
\* connection is gone.
AwaitEnds == <>[](dummy = "await" /\ ~crashed) => <>[]Backlogged

\* When the connector has ended so does the source, although Stop sends it no
\* BYE (connector.go 416-420) and it learns of the end only when it reads.  On
\* a connection that broke it may spin instead.
DummyEnds == (connector = "ended") ~> (dummy = "ended" \/ crashed \/ cut)
===============================================================================
