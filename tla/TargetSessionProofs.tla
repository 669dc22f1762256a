--------------------------- MODULE TargetSessionProofs ---------------------------
(***************************************************************************)
(* For any number of lines, whichever provider the target has, wherever    *)
(* the connection breaks and whichever frames are read short: a line that  *)
(* the TargetConnector completes is one that the target has processed.     *)
(***************************************************************************)
EXTENDS TargetSession, SequenceTheorems, TLAPS

\* Where the connector's line can be: on its way, in the reader's hands, or
\* answered by an OK that is on its way.
Pending(i)   == i \in 1 .. Len(toServer) /\ toServer[i].cmd = "TMSG"
LineOnTheWay == \E i \in 1 .. Len(toServer) : Pending(i)
LineHeld     == reader.cmd = "TMSG"
Answered     == toConnector # <<>>

\* The connection begins with HELLO, and only the server's first read sees it.
HelloIsFirst ==
    /\ connector = "hello" => toServer = <<>> /\ server = "hello"
    /\ server = "hello" => reader = Nothing
    /\ \A i \in 1 .. Len(toServer) :
          toServer[i].cmd = "HELLO" => i = 1 /\ server = "hello"

\* There is one line at most, the last that was written, and it is in one place;
\* none when the connector is not waiting for an answer.
OneLine ==
    /\ \A i, j \in 1 .. Len(toServer) : Pending(i) /\ Pending(j) => i = j
    /\ \A i \in 1 .. Len(toServer) : Pending(i) => toServer[i].n = written
    /\ LineHeld => reader.n = written
    /\ Len(toConnector) <= 1
    /\ Answered => written \in handled
    /\ LineOnTheWay => ~LineHeld /\ ~Answered
    /\ LineHeld => ~Answered
    /\ connector \in {"hello", "select"} => ~LineOnTheWay /\ ~LineHeld /\ ~Answered

SessionInv == TypeOK /\ HelloIsFirst /\ OneLine /\ AckedIsHandled

----------------------------------------------------------------------------------
(* Facts about frames and sequences of them.                               *)

Frame == Line \cup {Hello, Bye}

\* A frame is told by its command.
LEMMA FrameKinds ==
    /\ Hello.cmd = "HELLO" /\ Bye.cmd = "BYE" /\ Nothing.cmd = "none"
    /\ Error.cmd = "error" /\ Garbled.cmd = "garbled"
    /\ \A l \in Line : l.cmd = "TMSG" /\ l.n \in 1 .. MaxLines
    /\ \A f \in Frame : f.cmd = "HELLO" => f = Hello
    /\ \A f \in Frame : f.cmd # "HELLO" => f \in Line \cup {Bye}
    /\ \A n \in 1 .. MaxLines, k \in Kinds :
          LET l == [cmd |-> "TMSG", n |-> n, kind |-> k]
          IN  l \in Line /\ l.cmd = "TMSG" /\ l.n = n
  BY DEF Line, Hello, Bye, Nothing, Error, Garbled, Frame

\* What a frame that is sent does to the others on the connection.
LEMMA AppendAt ==
    ASSUME NEW S, NEW s \in Seq(S), NEW x \in S
    PROVE  /\ Append(s, x) \in Seq(S) /\ Len(Append(s, x)) = Len(s) + 1
           /\ Len(s) \in Nat
           /\ \A i \in 1 .. Len(s) : Append(s, x)[i] = s[i]
           /\ Append(s, x)[Len(s) + 1] = x
  OBVIOUS

\* What reading a frame does to them.
LEMMA TailAt ==
    ASSUME NEW S, NEW s \in Seq(S), s # <<>>
    PROVE  /\ Tail(s) \in Seq(S) /\ Len(Tail(s)) = Len(s) - 1
           /\ Len(s) \in Nat /\ Len(s) > 0
           /\ Head(s) = s[1] /\ Head(s) \in S
           /\ \A i \in 1 .. Len(s) - 1 : Tail(s)[i] = s[i + 1]
  OBVIOUS

\* What is left of them when the connection breaks.
LEMMA PrefixAt ==
    ASSUME NEW S, NEW s \in Seq(S), NEW n \in 0 .. Len(s)
    PROVE  /\ SubSeq(s, 1, n) \in Seq(S) /\ Len(SubSeq(s, 1, n)) = n
           /\ \A i \in 1 .. n : SubSeq(s, 1, n)[i] = s[i]
  OBVIOUS

----------------------------------------------------------------------------------
(* Every step keeps the invariant.                                         *)

\* What a write of the connector does: the frame is the last one, or goes nowhere.
Written(f) ==
    \/ UNCHANGED toServer
    \/ /\ toServer' \in Seq(Frame) /\ Len(toServer') = Len(toServer) + 1
       /\ \A i \in 1 .. Len(toServer) : toServer'[i] = toServer[i]
       /\ toServer'[Len(toServer) + 1] = f

\* That is what the actions of the connector say of a write.
LEMMA WrittenIf ==
    ASSUME toServer \in Seq(Frame), NEW f \in Frame,
           toServer' = IF cut THEN toServer ELSE Append(toServer, f)
    PROVE  Written(f)
  BY AppendAt DEF Written

\* The connector's actions.
LEMMA ConnectorStepInv ==
    ASSUME SessionInv, ConnectorStep \/ Stop PROVE SessionInv'
<1> USE FrameKinds DEF SessionInv
<1>0. toServer \in Seq(Frame) /\ Len(toServer) \in Nat /\ Len(toConnector) \in Nat
  BY DEF TypeOK, Frame
<1> DEFINE Sends(f) == /\ Written(f)
                       /\ UNCHANGED <<toConnector, server, reader, outOfStep>>
                       /\ UNCHANGED <<handled, acked>>
<1>1. CASE SendHello
  <2>1. Sends(Hello) /\ connector' = "select" /\ connector = "hello"
    BY <1>0, <1>1, WrittenIf DEF SendHello, Frame
  <2>2. TypeOK'
    BY <1>1, <2>1 DEF SendHello, TypeOK, Written, Frame
  <2>3. HelloIsFirst'
    BY <1>0, <2>1 DEF HelloIsFirst, Written
  <2>4. OneLine'
    BY <1>0, <1>1, <2>1 DEF SendHello, HelloIsFirst, OneLine, Pending,
       LineOnTheWay, LineHeld, Answered, Written
  <2> QED
    BY <2>1, <2>2, <2>3, <2>4 DEF AckedIsHandled
<1>2. ASSUME NEW k \in Kinds, WriteLine(k) PROVE SessionInv'
  <2> DEFINE l == [cmd |-> "TMSG", n |-> written + 1, kind |-> k]
  <2>0. l \in Line /\ l.cmd = "TMSG" /\ l.n = written + 1
    BY <1>2, LinesAssumption DEF WriteLine, TypeOK
  <2> HIDE DEF l
  <2>1. Sends(l) /\ connector' = "await" /\ connector = "select"
        /\ written' = written + 1
    BY <1>0, <1>2, <2>0, WrittenIf DEF WriteLine, Frame, l
  <2>2. TypeOK'
    BY <1>2, <2>1, LinesAssumption DEF WriteLine, TypeOK, Written, Frame
  <2>3. HelloIsFirst'
    BY <1>0, <2>0, <2>1 DEF HelloIsFirst, Written
  <2>4. OneLine'
    <3>1. ~LineOnTheWay /\ ~LineHeld /\ ~Answered
      BY <2>1 DEF OneLine
    <3>2. UNCHANGED <<reader, toConnector, handled>> /\ connector' = "await"
      BY <1>2, <2>1 DEF WriteLine
    <3>3. ~LineHeld' /\ ~Answered'
      BY <3>1, <3>2 DEF LineHeld, Answered
    <3>4. \A i \in 1 .. Len(toServer') :
             Pending(i)' => i = Len(toServer) + 1 /\ toServer'[i].n = written'
      BY <1>0, <2>0, <2>1, <3>1 DEF Pending, LineOnTheWay, Written
    <3>5. Len(toConnector') <= 1
      BY <3>2 DEF OneLine
    <3> QED
      BY <3>2, <3>3, <3>4, <3>5 DEF OneLine
  <2> QED
    BY <2>1, <2>2, <2>3, <2>4 DEF AckedIsHandled
<1>3. CASE WriteFails \/ AwaitFails \/ Stop
  <2>1. /\ Sends(Bye) /\ UNCHANGED <<written, cut>> /\ connector' = "ended"
        /\ hungUp' = hungUp \cup {"connector"} /\ crashed' \in BOOLEAN
        /\ connector \in {"select", "await"}
    BY <1>0, <1>3, WrittenIf, MonitorAssumption
    DEF WriteFails, AwaitFails, Stop, HangUp, Frame, TypeOK
  <2>2. TypeOK'
    BY <2>1 DEF TypeOK, Written, Frame
  <2>3. HelloIsFirst'
    BY <1>0, <2>1 DEF HelloIsFirst, Written
  <2>4. OneLine'
    <3>1. \A i \in 1 .. Len(toServer') :
             Pending(i)' => /\ i \in 1 .. Len(toServer) /\ Pending(i)
                            /\ toServer'[i] = toServer[i]
      BY <1>0, <2>1 DEF Pending, Written
    <3>2. LineOnTheWay' => LineOnTheWay
      BY <3>1 DEF LineOnTheWay
    <3>3. (LineHeld' <=> LineHeld) /\ (Answered' <=> Answered)
      BY <2>1 DEF LineHeld, Answered
    <3> QED
      BY <2>1, <3>1, <3>2, <3>3 DEF OneLine
  <2> QED
    BY <2>1, <2>2, <2>3, <2>4 DEF AckedIsHandled
<1>4. CASE AwaitOk
  <2>1. toConnector' = <<>> /\ written \in handled /\ ~LineOnTheWay /\ ~LineHeld
    BY <1>0, <1>4 DEF AwaitOk, OneLine, Answered, TypeOK
  <2>2. TypeOK'
    <3>1. toConnector' \in Seq({Ok})
      BY <2>1, EmptySeq
    <3>2. acked' \subseteq 1 .. MaxLines
      BY <1>4, <2>1 DEF AwaitOk, TypeOK
    <3>3. /\ UNCHANGED <<written, toServer, hungUp, cut, server, reader, outOfStep>>
          /\ UNCHANGED <<handled, crashed>> /\ connector' = "select"
      BY <1>4 DEF AwaitOk
    <3> QED
      BY <3>1, <3>2, <3>3 DEF TypeOK
  <2>3. HelloIsFirst'
    BY <1>4 DEF AwaitOk, HelloIsFirst
  <2>4. OneLine'
    BY <1>4, <2>1 DEF AwaitOk, OneLine, Pending, LineOnTheWay, LineHeld, Answered
  <2> QED
    BY <1>4, <2>1, <2>2, <2>3, <2>4 DEF AwaitOk, AckedIsHandled
<1> QED
  BY <1>1, <1>2, <1>3, <1>4 DEF ConnectorStep

\* What a read of the server does.
LEMMA ReadOne ==
    ASSUME toServer \in Seq(Frame), toServer # <<>>, toServer' = Tail(toServer)
    PROVE  /\ toServer' \in Seq(Frame) /\ Len(toServer) \in Nat
           /\ Len(toServer') = Len(toServer) - 1 /\ Len(toServer) > 0
           /\ Head(toServer) = toServer[1] /\ Head(toServer) \in Frame
           /\ \A i \in 1 .. Len(toServer') : toServer'[i] = toServer[i + 1]
  BY TailAt

\* Once HELLO was read there is no other, whatever is read next.
LEMMA HelloNotAgain ==
    ASSUME HelloIsFirst, server # "hello", Len(toServer) \in Nat,
           Len(toServer') = Len(toServer) - 1,
           \A i \in 1 .. Len(toServer') : toServer'[i] = toServer[i + 1]
    PROVE  \A i \in 1 .. Len(toServer') : toServer'[i].cmd # "HELLO"
  BY DEF HelloIsFirst

\* The actions of the server's loop and of its reader.
LEMMA ServerStepInv ==
    ASSUME SessionInv, ServerStep \/ ReadFrame \/ ReadShort \/ ReadRest
    PROVE  SessionInv'
<1> USE FrameKinds DEF SessionInv
<1>0. toServer \in Seq(Frame) /\ Len(toServer) \in Nat /\ Len(toConnector) \in Nat
  BY DEF TypeOK, Frame
<1>1. CASE WaitForHello
  <2>1. /\ toServer' \in Seq(Frame) /\ Len(toServer') = Len(toServer) - 1
        /\ \A i \in 1 .. Len(toServer') : toServer'[i] = toServer[i + 1]
        /\ Len(toServer) > 0
    BY <1>0, <1>1, ReadOne DEF WaitForHello
  <2>2. TypeOK'
    BY <1>1, <2>1 DEF WaitForHello, TypeOK, Frame
  <2>3. HelloIsFirst'
    BY <1>0, <1>1, <2>1 DEF WaitForHello, HelloIsFirst
  <2>4. OneLine'
    <3>1. \A i \in 1 .. Len(toServer') : Pending(i)' => Pending(i + 1)
      BY <1>0, <2>1 DEF Pending
    <3> QED
      BY <1>0, <1>1, <2>1, <3>1
      DEF WaitForHello, OneLine, Pending, LineOnTheWay, LineHeld, Answered
  <2> QED
    BY <1>1, <2>2, <2>3, <2>4 DEF WaitForHello, AckedIsHandled
<1>2. CASE HelloFails \/ HandleLinePanics
  <2>1. /\ UNCHANGED <<connector, written, acked, toServer, toConnector, hungUp, cut>>
        /\ UNCHANGED <<server, reader, outOfStep, handled>> /\ crashed' = TRUE
    BY <1>2 DEF HelloFails, HandleLinePanics
  <2>2. TypeOK' /\ HelloIsFirst' /\ AckedIsHandled'
    BY <2>1 DEF TypeOK, HelloIsFirst, AckedIsHandled
  <2>3. OneLine'
    BY <2>1 DEF OneLine, Pending, LineOnTheWay, LineHeld, Answered
  <2> QED
    BY <2>2, <2>3
<1>3. CASE HandleLine
  <2>1. /\ LineHeld /\ reader \in Line /\ reader.n = written /\ ~LineOnTheWay
        /\ toConnector = <<>> /\ connector \notin {"hello", "select"}
    BY <1>3 DEF HandleLine, TakesLine, LineHeld, OneLine, Answered, TypeOK
  <2>2. toConnector' \in Seq({Ok}) /\ Len(toConnector') <= 1
    <3>1. CASE cut
      BY <1>3, <3>1 DEF HandleLine, TypeOK, OneLine
    <3>2. CASE ~cut
      <4>1. Len(toConnector) = 0
        BY <2>1
      <4>2. toConnector' = Append(toConnector, Ok)
        BY <1>3, <3>2 DEF HandleLine
      <4> QED
        BY <4>1, <4>2, AppendAt DEF TypeOK
    <3> QED
      BY <3>1, <3>2
  <2>3. TypeOK'
    BY <1>3, <2>1, <2>2 DEF HandleLine, TypeOK
  <2>4. HelloIsFirst'
    BY <1>3 DEF HandleLine, HelloIsFirst
  <2>5. OneLine'
    BY <1>3, <2>1, <2>2
    DEF HandleLine, OneLine, Pending, LineOnTheWay, LineHeld, Answered
  <2> QED
    BY <1>3, <2>3, <2>4, <2>5 DEF HandleLine, AckedIsHandled
<1>4. CASE ServerEnd
  <2>1. ~LineHeld' /\ ~LineHeld
    BY <1>4 DEF ServerEnd, LineHeld
  <2>2. TypeOK'
    BY <1>4 DEF ServerEnd, TypeOK
  <2>3. HelloIsFirst'
    BY <1>4 DEF ServerEnd, HelloIsFirst
  <2>4. OneLine'
    BY <1>4, <2>1 DEF ServerEnd, OneLine, Pending, LineOnTheWay, Answered
  <2> QED
    BY <1>4, <2>2, <2>3, <2>4 DEF ServerEnd, AckedIsHandled
<1>5. CASE /\ ReadFrame \/ ReadShort
           /\ reader' = Head(toServer) /\ toServer' = Tail(toServer)
           /\ toServer # <<>>
  <2>1. /\ toServer' \in Seq(Frame) /\ Len(toServer') = Len(toServer) - 1
        /\ \A i \in 1 .. Len(toServer') : toServer'[i] = toServer[i + 1]
        /\ Len(toServer) > 0 /\ reader' = toServer[1] /\ reader' \in Frame
    BY <1>0, <1>5, ReadOne
  <2>2. /\ server # "hello" /\ ~LineHeld
        /\ UNCHANGED <<connector, written, acked, toConnector, hungUp, cut, server,
                       handled, crashed>>
        /\ outOfStep' \in BOOLEAN
    BY <1>5 DEF ReadFrame, ReadShort, LineHeld, TypeOK
  <2>3. toServer[1].cmd # "HELLO"
    BY <1>0, <2>1, <2>2 DEF HelloIsFirst
  <2>4. TypeOK'
    BY <2>1, <2>2, <2>3 DEF TypeOK, Frame
  <2>5. HelloIsFirst'
    BY <1>0, <2>1, <2>2, HelloNotAgain DEF HelloIsFirst
  <2>6. OneLine'
    <3>1. \A i \in 1 .. Len(toServer') : Pending(i)' => Pending(i + 1)
      BY <1>0, <2>1 DEF Pending
    <3>2. LineHeld' => Pending(1)
      BY <1>0, <2>1 DEF LineHeld, Pending
    <3>3. \A i \in 1 .. Len(toServer') : i + 1 \in 1 .. Len(toServer) /\ i + 1 # 1
      BY <1>0, <2>1
    <3>4. \A i, j \in 1 .. Len(toServer') : Pending(i)' /\ Pending(j)' => i = j
      BY <1>0, <3>1, <3>3 DEF OneLine
    <3>5. /\ \A i \in 1 .. Len(toServer') : Pending(i)' => toServer'[i].n = written
          /\ LineHeld' => reader'.n = written
      <4>1. \A i \in 1 .. Len(toServer) : Pending(i) => toServer[i].n = written
        BY DEF OneLine
      <4>2. \A i \in 1 .. Len(toServer') : Pending(i)' => toServer'[i].n = written
        BY <2>1, <3>1, <3>3, <4>1
      <4>3. LineHeld' => reader'.n = written
        BY <1>0, <2>1, <3>2, <4>1 DEF Pending
      <4> QED
        BY <4>2, <4>3
    <3>6. LineOnTheWay' => LineOnTheWay /\ ~LineHeld'
      BY <3>1, <3>2, <3>3 DEF OneLine, LineOnTheWay, Pending
    <3>7. LineHeld' => LineOnTheWay
      BY <3>2 DEF LineOnTheWay, Pending
    <3> QED
      BY <2>2, <3>4, <3>5, <3>6, <3>7 DEF OneLine, LineHeld, Answered
  <2> QED
    BY <2>2, <2>4, <2>5, <2>6 DEF AckedIsHandled
<1>6. CASE \/ ReadFrame /\ reader' = Error /\ UNCHANGED toServer
           \/ SkipLine \/ ReadRest
  <2>1. /\ reader' \in {Error, Nothing} /\ ~LineHeld'
        /\ UNCHANGED <<connector, written, acked, toServer, toConnector, hungUp, cut>>
        /\ UNCHANGED <<server, outOfStep, handled, crashed>>
    BY <1>6 DEF ReadFrame, SkipLine, ReadRest, LineHeld
  <2>2. TypeOK'
    BY <2>1 DEF TypeOK
  <2>3. server = "hello" => reader' = Nothing
    BY <1>6 DEF ReadFrame, SkipLine, ReadRest, HelloIsFirst
  <2>4. HelloIsFirst'
    BY <2>1, <2>3 DEF HelloIsFirst
  <2>5. OneLine'
    BY <2>1 DEF OneLine, Pending, LineOnTheWay, Answered
  <2> QED
    BY <2>1, <2>2, <2>4, <2>5 DEF AckedIsHandled
<1>7. CASE /\ ReadShort /\ reader' \in {Error, Garbled}
           /\ toServer' = Tail(toServer) /\ toServer # <<>>
  <2>1. /\ toServer' \in Seq(Frame) /\ Len(toServer') = Len(toServer) - 1
        /\ \A i \in 1 .. Len(toServer') : toServer'[i] = toServer[i + 1]
        /\ Len(toServer) > 0
    BY <1>0, <1>7, ReadOne
  <2>2. /\ server # "hello" /\ ~LineHeld'
        /\ UNCHANGED <<connector, written, acked, toConnector, hungUp, cut, server>>
        /\ UNCHANGED <<handled, crashed>> /\ outOfStep' \in BOOLEAN
    BY <1>7 DEF ReadShort, LineHeld
  <2>3. TypeOK'
    BY <1>7, <2>1, <2>2 DEF TypeOK, Frame
  <2>4. HelloIsFirst'
    BY <1>0, <2>1, <2>2, HelloNotAgain DEF HelloIsFirst
  <2>5. OneLine'
    <3>1. \A i \in 1 .. Len(toServer') :
             /\ i + 1 \in 1 .. Len(toServer) /\ toServer'[i] = toServer[i + 1]
             /\ Pending(i)' => Pending(i + 1)
      BY <1>0, <2>1 DEF Pending
    <3>2. \A i, j \in 1 .. Len(toServer') : Pending(i)' /\ Pending(j)' => i = j
      BY <1>0, <3>1 DEF OneLine
    <3>3. /\ \A i \in 1 .. Len(toServer') : Pending(i)' => toServer'[i].n = written
          /\ LineOnTheWay' => LineOnTheWay
      BY <3>1 DEF OneLine, LineOnTheWay
    <3> QED
      BY <2>2, <3>2, <3>3 DEF OneLine, Answered
  <2> QED
    BY <2>2, <2>3, <2>4, <2>5 DEF AckedIsHandled
<1>8. \/ ServerStep \/ ReadRest
      \/ ReadFrame /\ reader' = Error /\ UNCHANGED toServer
      \/ /\ ReadFrame \/ ReadShort
         /\ reader' = Head(toServer) /\ toServer' = Tail(toServer) /\ toServer # <<>>
      \/ /\ ReadShort /\ reader' \in {Error, Garbled}
         /\ toServer' = Tail(toServer) /\ toServer # <<>>
  BY DEF ReadFrame, ReadShort
<1> QED
  BY <1>1, <1>2, <1>3, <1>4, <1>5, <1>6, <1>7, <1>8 DEF ServerStep

\* A break loses frames from the end of what is on its way, and adds none.
LEMMA CutInv ==
    ASSUME SessionInv, Cut PROVE SessionInv'
<1> USE FrameKinds DEF SessionInv
<1>0. toServer \in Seq(Frame) /\ Len(toServer) \in Nat /\ Len(toConnector) \in Nat
  BY DEF TypeOK, Frame
<1>1. PICK m \in 0 .. Len(toServer) : toServer' = SubSeq(toServer, 1, m)
  BY DEF Cut
<1>2. PICK n \in 0 .. Len(toConnector) : toConnector' = SubSeq(toConnector, 1, n)
  BY DEF Cut
<1>3. /\ toServer' \in Seq(Frame) /\ Len(toServer') = m
      /\ \A i \in 1 .. m : toServer'[i] = toServer[i]
  BY <1>0, <1>1, PrefixAt
<1>4. toConnector' \in Seq({Ok}) /\ Len(toConnector') = n
  BY <1>2, PrefixAt DEF TypeOK
<1>5. Answered' => Answered
  BY <1>0, <1>2, <1>4 DEF Answered
<1>6. \A i \in 1 .. m : Pending(i)' => Pending(i)
  BY <1>0, <1>3 DEF Pending
<1>7. TypeOK'
  BY <1>3, <1>4 DEF Cut, TypeOK, Frame
<1>8. HelloIsFirst'
  BY <1>0, <1>3 DEF Cut, HelloIsFirst
<1>9. OneLine'
  <2>1. UNCHANGED <<connector, written, reader, handled>> /\ (LineHeld' <=> LineHeld)
    BY DEF Cut, LineHeld
  <2>2. LineOnTheWay' => LineOnTheWay
    BY <1>0, <1>3, <1>6 DEF LineOnTheWay
  <2>3. \A i, j \in 1 .. m : Pending(i)' /\ Pending(j)' => i = j
    BY <1>0, <1>6 DEF OneLine
  <2>4. \A i \in 1 .. m : Pending(i)' => toServer'[i].n = written
    BY <1>0, <1>3, <1>6 DEF OneLine
  <2> QED
    BY <1>0, <1>3, <1>4, <1>5, <2>1, <2>2, <2>3, <2>4 DEF OneLine
<1> QED
  BY <1>7, <1>8, <1>9 DEF Cut, AckedIsHandled

----------------------------------------------------------------------------------
(* The theorems.                                                           *)

\* The line a connector waits for is in one place: on its way, in the server's
\* hands, or answered; and the types.
THEOREM SessionInvariant == Spec => []SessionInv
<1>1. ASSUME Init PROVE SessionInv
  <2>1. Len(toServer) = 0 /\ Len(toConnector) = 0 /\ ~LineHeld
    BY <1>1, FrameKinds DEF Init, LineHeld
  <2>2. TypeOK
    <3>1. toServer \in Seq(Line \cup {Hello, Bye}) /\ toConnector \in Seq({Ok})
      BY <1>1, EmptySeq DEF Init
    <3>2. /\ connector \in {"hello", "select", "await", "ended"}
          /\ written \in 0 .. MaxLines /\ acked \subseteq 1 .. MaxLines
          /\ handled \subseteq 1 .. MaxLines /\ hungUp \subseteq {"connector", "server"}
          /\ server \in {"hello", "select", "ended"}
      BY <1>1, LinesAssumption DEF Init
    <3>3. /\ reader \in Line \cup {Bye, Garbled, Nothing, Error} /\ outOfStep \in BOOLEAN
          /\ cut \in BOOLEAN /\ crashed \in BOOLEAN
      BY <1>1 DEF Init
    <3> QED
      BY <3>1, <3>2, <3>3 DEF TypeOK
  <2>3. HelloIsFirst /\ AckedIsHandled
    BY <1>1, <2>1 DEF Init, HelloIsFirst, AckedIsHandled
  <2>4. OneLine
    BY <1>1, <2>1 DEF Init, OneLine, Pending, LineOnTheWay, Answered
  <2> QED
    BY <2>2, <2>3, <2>4 DEF SessionInv
<1>2. ASSUME SessionInv, UNCHANGED vars PROVE SessionInv'
  BY <1>2
  DEF vars, SessionInv, TypeOK, HelloIsFirst, OneLine, Pending, LineOnTheWay, LineHeld,
      Answered, AckedIsHandled
<1>3. SessionInv /\ [Next]_vars => SessionInv'
  BY <1>2, ConnectorStepInv, ServerStepInv, CutInv DEF Next
<1> QED
  BY <1>1, <1>3, PTL DEF Spec

\* A line that the TargetConnector completes was processed by the target: the
\* connector never takes an OK for another line's or for one that was passed over,
\* for any number of lines, wherever the connection breaks or a goroutine panics,
\* and whichever frame is read short.
THEOREM AcksAreEarned == Spec => []AckedIsHandled
<1>1. SessionInv => AckedIsHandled
  BY DEF SessionInv
<1> QED
  BY <1>1, SessionInvariant, PTL
==================================================================================
