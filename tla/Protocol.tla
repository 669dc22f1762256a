------------------------------- MODULE Protocol -------------------------------
(***************************************************************************)
(* One direction of a connection: WriteMessage on one side, ReadMessage on *)
(* a bufio.Reader on the other (protocol/protocol.go).                     *)
(*                                                                         *)
(* A frame is a header with the size of the payload, and the payload.  The *)
(* content of bytes does not matter here, only where they are: in flight,  *)
(* in the reader's socket or in the buffer of its bufio.Reader.  What      *)
(* matters is that ReadMessage asks for the header and for the payload     *)
(* with one Read each, takes what it gets and does not look at the count.  *)
(***************************************************************************)
EXTENDS Integers, Sequences, FiniteSetsExt

CONSTANTS
    Header,       \* bytes of the size field (4)
    BufSize,      \* size of the bufio.Reader's buffer (4096)
    Sizes,        \* sizes of payloads
    Unanswered,   \* frames a peer may write before the first of them is read
    Split,        \* may the network deliver a frame in pieces?
    MaxFrames     \* bound: frames written in a behaviour

ASSUME SizesAssumption ==
    /\ Header \in Nat \ {0} /\ BufSize \in Nat /\ Header < BufSize
    /\ Sizes \subseteq Nat \ {0}
    /\ Unanswered \in Nat \ {0} /\ Split \in BOOLEAN /\ MaxFrames \in Nat

VARIABLES
    written,      \* number of frames written so far
    frames,       \* payload sizes of the frames that were not yet returned
    flight,       \* bytes written that have not arrived
    socket,       \* bytes that have arrived and were not yet read
    buffered,     \* bytes in the bufio.Reader
    reader        \* where ReadMessage is; "desync" once it has gone wrong

vars == <<written, frames, flight, socket, buffered, reader>>

TypeOK ==
    /\ written \in 0 .. MaxFrames
    /\ frames \in Seq(Sizes)
    /\ flight \in Nat /\ socket \in Nat /\ buffered \in 0 .. BufSize
    /\ reader \in {"header", "payload", "desync"}

Init ==
    /\ written = 0 /\ frames = <<>>
    /\ flight = 0 /\ socket = 0 /\ buffered = 0
    /\ reader = "header"

\* WriteProtobuf puts header and payload into one Write.
WriteWithHeader(size) ==
    /\ written < MaxFrames /\ Len(frames) < Unanswered
    /\ written' = written + 1
    /\ frames' = Append(frames, Header + size)
    /\ flight' = flight + Header + size
    /\ UNCHANGED <<socket, buffered, reader>>

Write(size) ==
    /\ written < MaxFrames /\ Len(frames) < Unanswered
    /\ written' = written + 1
    /\ frames' = Append(frames, size)
    /\ flight' = flight + Header + size
    /\ UNCHANGED <<socket, buffered, reader>>

\* The network delivers bytes in order: all there are, or any number of them.
Arrive(n) ==
    /\ n \in 1 .. flight
    /\ Split \/ n = flight
    /\ flight' = flight - n
    /\ socket' = socket + n
    /\ UNCHANGED <<written, frames, buffered, reader>>

-------------------------------------------------------------------------------
(* bufio.Reader.Read(p): from the buffer if there is anything in it, else  *)
(* after one read of the connection, which bypasses the buffer when p is   *)
(* at least as long.                                                       *)

SocketReadable == socket > 0
Readable == buffered > 0 \/ socket > 0

\* Bytes in the buffer when it is read from.
Filled == IF buffered > 0 THEN buffered ELSE Min({socket, BufSize})

\* Bytes that a Read of n bytes returns.
Got(n) ==
    IF buffered = 0 /\ n >= BufSize THEN Min({socket, n}) ELSE Min({Filled, n})

Read(n) ==
    /\ Readable
    /\ IF buffered = 0 /\ n >= BufSize
       THEN socket' = socket - Got(n) /\ buffered' = 0
       ELSE socket' = socket - (Filled - buffered) /\ buffered' = Filled - Got(n)
    /\ UNCHANGED <<written, flight>>

-------------------------------------------------------------------------------
(* ReadMessage.  A short read is not noticed: the rest of the header counts *)
(* as zero bytes, the rest of the payload too, and what was left in the     *)
(* stream is taken for the next header.  From then on anything may come out.*)

ReadHeaderTwice ==
    /\ reader = "header"
    /\ Read(2 * Header)
    /\ reader' = IF Got(2 * Header) = 2 * Header THEN "payload" ELSE "desync"
    /\ UNCHANGED frames

ReadHeader ==
    /\ reader = "header"
    /\ Read(Header)
    /\ reader' = IF Got(Header) = Header THEN "payload" ELSE "desync"
    /\ UNCHANGED frames

ReadPayload ==
    /\ reader = "payload"
    /\ Read(Head(frames))
    /\ IF Got(Head(frames)) = Head(frames)
       THEN reader' = "header" /\ frames' = Tail(frames)
       ELSE reader' = "desync" /\ UNCHANGED frames

Next ==
    \/ \E size \in Sizes : Write(size)
    \/ \E n \in 1 .. flight : Arrive(n)
    \/ ReadHeader
    \/ ReadPayload

Spec == Init /\ [][Next]_vars

\* TCP delivers what was written, and the reading goroutine runs.
FairSpec ==
    /\ Spec
    /\ WF_vars(\E n \in 1 .. flight : Arrive(n))
    /\ WF_vars(ReadHeader \/ ReadPayload)

-------------------------------------------------------------------------------
(* Properties.                                                             *)

\* "ReadMessage reads from an instance of io.Reader and returns a single message
\* when found": what it returns is the frame that was written, never a part of
\* it or a part of the next.
SingleMessage == reader # "desync"

\* The bytes of the first i frames, for every i.
UpTo(fs) ==
    LET bytes[i \in 0 .. Len(fs)] ==
            IF i = 0 THEN 0 ELSE bytes[i - 1] + Header + fs[i]
    IN  bytes

\* Between two messages the bytes on their way are those of the frames that
\* were not yet returned, however they were cut up on the way and wherever the
\* buffer ended (protocol.go 25-37): as long as no Read was short, no frame leaves
\* anything behind for the next one, or takes anything from it.
NothingLeftOver ==
    reader = "header" => flight + socket + buffered = UpTo(frames)[Len(frames)]

\* The two Reads of ReadMessage (protocol.go 25 and 34) are short in two cases
\* only: some of the bytes written have not arrived, or the frame lies across
\* the end of the buffer, a part in it and a part in the socket.
ShortReads ==
    [][reader # "desync" /\ reader' = "desync"
          => flight > 0 \/ (buffered > 0 /\ socket > 0)]_vars

\* Every frame that is written is returned, in whatever pieces it arrives, if no
\* Read is short.
AllRead == frames # <<>> ~> (frames = <<>> \/ reader = "desync")
==============================================================================
