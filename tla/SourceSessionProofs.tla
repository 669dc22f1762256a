--------------------------- MODULE SourceSessionProofs ---------------------------
(***************************************************************************)
(* For any number of lines, and wherever the connection breaks or a frame  *)
(* is misread: the source never has more than one line outstanding, and a  *)
(* line that it takes for accepted is one that the connector took over.    *)
(***************************************************************************)
EXTENDS SourceSession, SequenceTheorems, FiniteSetTheorems, TLAPS

\* The unread OKs.
OkAt(i) == i \in 1 .. Len(toDummy) /\ toDummy[i] = "OK"
OkThere == \E i \in 1 .. Len(toDummy) : OkAt(i)

\* The line of the source is in one place at most, and nowhere while the source
\* has not written the next one.
OnePlace ==
    /\ Len(toConnector) <= 1
    /\ toConnector # <<>> => reader # "SMSG" /\ ~OkThere
    /\ reader = "SMSG" => ~OkThere
    /\ \A i, j \in 1 .. Len(toDummy) : OkAt(i) /\ OkAt(j) => i = j
    /\ dummy \in {"hello", "write"} =>
          toConnector = <<>> /\ reader # "SMSG" /\ ~OkThere

\* Lines are written, taken and acknowledged in this order.
Counts ==
    /\ taken + Len(toConnector) + HeldLines <= written
    /\ acked <= taken
    /\ OkThere => acked < taken

SessionInv == TypeOK /\ OnePlace /\ Counts

----------------------------------------------------------------------------------
(* Facts about frames on the connection.                                   *)

\* What a frame that is sent does to the others.
LEMMA AppendAt ==
    ASSUME NEW S, NEW s \in Seq(S), NEW x \in S
    PROVE  /\ Append(s, x) \in Seq(S) /\ Len(Append(s, x)) = Len(s) + 1
           /\ Len(s) \in Nat
           /\ \A i \in 1 .. Len(s) : Append(s, x)[i] = s[i]
           /\ Append(s, x)[Len(s) + 1] = x
  OBVIOUS

\* What reading one does.
LEMMA TailAt ==
    ASSUME NEW S, NEW s \in Seq(S), s # <<>>
    PROVE  /\ Tail(s) \in Seq(S) /\ Len(Tail(s)) = Len(s) - 1
           /\ Len(s) \in Nat /\ Len(s) > 0
           /\ Head(s) = s[1] /\ Head(s) \in S
           /\ \A i \in 1 .. Len(s) - 1 : Tail(s)[i] = s[i + 1]
  OBVIOUS

\* What is left when the connection breaks.
LEMMA PrefixAt ==
    ASSUME NEW S, NEW s \in Seq(S), NEW n \in 0 .. Len(s)
    PROVE  /\ SubSeq(s, 1, n) \in Seq(S) /\ Len(SubSeq(s, 1, n)) = n
           /\ \A i \in 1 .. n : SubSeq(s, 1, n)[i] = s[i]
  OBVIOUS

\* A sequence without frames.
LEMMA LenZero ==
    ASSUME NEW S, NEW s \in Seq(S) PROVE Len(s) \in Nat /\ (s = <<>> <=> Len(s) = 0)
  BY EmptySeq

\* The frames that the two sides send.
DummyFrame == {"HELLO", "OK", "BYE"}

----------------------------------------------------------------------------------
(* Every step keeps the invariant.                                         *)

\* HELLO or BYE, sent by the connector or read by the source, is no OK.
LEMMA OtherFrame ==
    ASSUME TypeOK, NEW f \in {"HELLO", "BYE"}, toDummy' = Sent(f)
    PROVE  /\ toDummy' \in Seq(DummyFrame)
           /\ OkThere' => OkThere
           /\ (\A i, j \in 1 .. Len(toDummy) : OkAt(i) /\ OkAt(j) => i = j)
                => (\A i, j \in 1 .. Len(toDummy) : OkAt(i) /\ OkAt(j) => i = j)'
<1>1. toDummy \in Seq(DummyFrame)
  BY DEF TypeOK, DummyFrame
<1>2. CASE toDummy' = toDummy
  BY <1>1, <1>2 DEF OkAt, OkThere
<1>3. CASE toDummy' = Append(toDummy, f)
  <2>1. /\ toDummy' \in Seq(DummyFrame) /\ Len(toDummy') = Len(toDummy) + 1
        /\ Len(toDummy) \in Nat /\ toDummy'[Len(toDummy) + 1] = f
        /\ \A i \in 1 .. Len(toDummy) : toDummy'[i] = toDummy[i]
    BY <1>1, <1>3, AppendAt DEF DummyFrame
  <2>2. \A i : OkAt(i)' => OkAt(i)
    BY <2>1 DEF OkAt
  <2> QED
    BY <2>1, <2>2 DEF OkThere, OkAt
<1> QED
  BY <1>2, <1>3 DEF Sent

\* The actions of the connector and its reader.
LEMMA ConnectorStepInv ==
    ASSUME SessionInv, ReaderStep \/ ConnectorStep \/ Stop PROVE SessionInv'
<1> USE DEF SessionInv
<1>0. /\ toDummy \in Seq(DummyFrame) /\ Len(toDummy) \in Nat
      /\ toConnector \in Seq({"SMSG"}) /\ Len(toConnector) \in Nat
      /\ toConnector = <<>> <=> Len(toConnector) = 0
  BY LenZero DEF TypeOK, DummyFrame
<1>1. CASE SendHello \/ ReceiveError
  <2>1. PICK f \in {"HELLO", "BYE"} : toDummy' = Sent(f)
    BY <1>1 DEF SendHello, ReceiveError
  <2>2. UNCHANGED <<dummy, written, acked, toConnector, taken, crashed>>
        /\ (reader' = "SMSG" <=> reader = "SMSG")
    BY <1>1 DEF SendHello, ReceiveError
  <2>3. TypeOK'
    BY <1>1, <2>1, OtherFrame DEF SendHello, ReceiveError, TypeOK, DummyFrame
  <2>4. OnePlace'
    BY <2>1, <2>2, OtherFrame DEF OnePlace
  <2>5. Counts'
    BY <2>1, <2>2, OtherFrame DEF Counts, HeldLines
  <2> QED
    BY <2>3, <2>4, <2>5
<1>2. CASE SendHelloFails \/ HandOver \/ Stop
  <2>1. /\ UNCHANGED <<dummy, written, acked, toConnector, toDummy, cut, reader>>
        /\ UNCHANGED <<taken, crashed>> /\ connector' \in {"select", "ended"}
        /\ closed' \in BOOLEAN
    BY <1>2 DEF SendHelloFails, HandOver, Stop, TypeOK
  <2>2. TypeOK'
    BY <2>1 DEF TypeOK
  <2>3. OnePlace' /\ Counts'
    BY <2>1 DEF OnePlace, Counts, HeldLines, OkAt, OkThere
  <2> QED
    BY <2>2, <2>3
<1>3. CASE ReadFrame
  <2>1. /\ toConnector' \in Seq({"SMSG"}) /\ Len(toConnector) = 1
        /\ Len(toConnector') = 0 /\ toConnector' = <<>>
    <3>1. toConnector # <<>> /\ toConnector' = Tail(toConnector)
      BY <1>3 DEF ReadFrame
    <3>2. toConnector' \in Seq({"SMSG"}) /\ Len(toConnector') = Len(toConnector) - 1
      BY <1>0, <3>1, TailAt
    <3>3. Len(toConnector) = 1
      <4>1. Len(toConnector) <= 1
        BY DEF OnePlace
      <4>2. Len(toConnector) # 0
        BY <1>0, <3>1
      <4>3. \A n \in Nat : n <= 1 /\ n # 0 => n = 1
        OBVIOUS
      <4> QED
        BY <1>0, <4>1, <4>2, <4>3
    <3>4. Len(toConnector') = 0
      BY <3>2, <3>3
    <3>5. toConnector' = <<>>
      BY <3>2, <3>4, LenZero
    <3> QED
      BY <3>2, <3>3, <3>4, <3>5
  <2>2. TypeOK'
    BY <1>3, <2>1 DEF ReadFrame, TypeOK
  <2>3. OnePlace'
    <3>1. ~OkThere /\ dummy \notin {"hello", "write"}
      BY <1>3 DEF ReadFrame, OnePlace
    <3>2. UNCHANGED <<dummy, toDummy>>
      BY <1>3 DEF ReadFrame
    <3> QED
      BY <2>1, <3>1, <3>2 DEF OnePlace, OkAt, OkThere
  <2>4. Counts'
    <3>1. UNCHANGED <<toDummy, written, acked, taken>>
      BY <1>3 DEF ReadFrame
    <3>2. HeldLines = 0 /\ HeldLines' \in {0, 1}
      BY <1>3 DEF ReadFrame, HeldLines
    <3>3. taken \in Nat /\ written \in Nat
      BY LinesAssumption DEF TypeOK
    <3>4. taken + 1 + 0 <= written
      BY <2>1, <3>2 DEF Counts
    <3>5. \A h \in {0, 1} : taken + 0 + h <= written
      BY ONLY <3>3, <3>4
    <3>6. taken' + Len(toConnector') + HeldLines' <= written'
      BY <2>1, <3>1, <3>2, <3>5
    <3> QED
      BY <3>1, <3>6 DEF Counts, OkAt, OkThere
  <2> QED
    BY <2>2, <2>3, <2>4
<1>4. CASE ReadError
  <2>1. TypeOK'
    BY <1>4 DEF ReadError, TypeOK
  <2>2. OnePlace' /\ Counts'
    BY <1>4 DEF ReadError, OnePlace, Counts, HeldLines, OkAt, OkThere
  <2> QED
    BY <2>1, <2>2
<1>5. CASE ReceiveLine
  <2>1. toConnector = <<>> /\ ~OkThere /\ dummy \notin {"hello", "write"}
    BY <1>0, <1>5 DEF ReceiveLine, OnePlace
  <2>2. taken' \in 0 .. MaxLines
    <3>1. taken + 1 <= written
      BY <1>0, <1>5 DEF ReceiveLine, Counts, HeldLines, TypeOK
    <3> QED
      BY <1>5, <3>1, LinesAssumption DEF ReceiveLine, TypeOK
  <2>3. CASE toDummy' = toDummy
    <3>1. TypeOK'
      BY <1>5, <2>2, <2>3 DEF ReceiveLine, TypeOK
    <3>2. OnePlace' /\ Counts'
      BY <1>0, <1>5, <2>1, <2>3
      DEF ReceiveLine, OnePlace, Counts, HeldLines, OkAt, OkThere, TypeOK
    <3> QED
      BY <3>1, <3>2
  <2>4. CASE toDummy' = Append(toDummy, "OK")
    <3>1. /\ toDummy' \in Seq(DummyFrame) /\ Len(toDummy') = Len(toDummy) + 1
          /\ \A i \in 1 .. Len(toDummy) : toDummy'[i] = toDummy[i]
      BY <1>0, <2>4, AppendAt DEF DummyFrame
    <3>2. \A i : OkAt(i)' => i = Len(toDummy) + 1
      BY <1>0, <2>1, <3>1 DEF OkAt, OkThere
    <3>3. TypeOK'
      BY <1>5, <2>2, <3>1 DEF ReceiveLine, TypeOK, DummyFrame
    <3>4. OnePlace'
      BY <1>0, <1>5, <2>1, <3>2 DEF ReceiveLine, OnePlace
    <3>5. Counts'
      BY <1>0, <1>5, <2>1 DEF ReceiveLine, Counts, HeldLines, TypeOK
    <3> QED
      BY <3>3, <3>4, <3>5
  <2> QED
    BY <1>5, <2>3, <2>4 DEF ReceiveLine, Sent
<1> QED
  BY <1>1, <1>2, <1>3, <1>4, <1>5 DEF ReaderStep, ConnectorStep

\* The actions of the dummy source.
LEMMA DummyStepInv ==
    ASSUME SessionInv, DummyStep PROVE SessionInv'
<1> USE DEF SessionInv
<1>0. /\ toDummy \in Seq(DummyFrame) /\ Len(toDummy) \in Nat
      /\ toConnector \in Seq({"SMSG"}) /\ Len(toConnector) \in Nat
      /\ toConnector = <<>> <=> Len(toConnector) = 0
  BY LenZero DEF TypeOK, DummyFrame
<1>1. CASE WaitForHello \/ AwaitOk
  <2>1. toDummy # <<>> /\ toDummy' = Tail(toDummy)
        /\ UNCHANGED <<written, toConnector, closed, cut, reader, connector, taken,
                       crashed>>
    BY <1>1 DEF WaitForHello, AwaitOk
  <2>2. /\ toDummy' \in Seq(DummyFrame) /\ Len(toDummy') = Len(toDummy) - 1
        /\ Len(toDummy) > 0 /\ Head(toDummy) = toDummy[1]
        /\ \A i \in 1 .. Len(toDummy') : toDummy'[i] = toDummy[i + 1]
    BY <1>0, <2>1, TailAt
  <2>3. \A i : OkAt(i)' => OkAt(i + 1) /\ i + 1 \in 1 .. Len(toDummy) /\ i > 0
    BY <1>0, <2>2 DEF OkAt
  <2>4. OkThere' => OkThere
    BY <1>0, <2>2, <2>3 DEF OkThere, OkAt
  <2>5. CASE WaitForHello
    <3>1. TypeOK'
      BY <2>1, <2>2, <2>5 DEF WaitForHello, TypeOK, DummyFrame
    <3>2. ~OkThere' /\ toConnector' = <<>> /\ reader' # "SMSG" /\ dummy = "hello"
      BY <2>1, <2>4, <2>5 DEF WaitForHello, OnePlace
    <3>3. OnePlace'
      BY <1>0, <2>1, <3>2 DEF OnePlace, OkThere
    <3>4. Counts'
      BY <2>1, <2>5, <3>2 DEF WaitForHello, Counts, HeldLines
    <3> QED
      BY <3>1, <3>3, <3>4
  <2>6. CASE AwaitOk
    <3>1. OkAt(1) /\ OkThere
      BY <1>0, <2>2, <2>6 DEF AwaitOk, OkAt, OkThere
    <3>2. ~OkThere'
      BY <1>0, <2>3, <3>1 DEF OnePlace, OkThere, OkAt
    <3>3. toConnector = <<>> /\ reader # "SMSG" /\ acked < taken
      BY <3>1 DEF OnePlace, Counts
    <3>4. TypeOK'
      <4>1. acked' \in 0 .. MaxLines
        BY <2>6, <3>3, LinesAssumption DEF AwaitOk, TypeOK
      <4> QED
        BY <2>1, <2>2, <2>6, <4>1 DEF AwaitOk, TypeOK, DummyFrame
    <3>5. OnePlace'
      BY <1>0, <2>1, <3>2, <3>3 DEF OnePlace, OkThere
    <3>6. Counts'
      BY <2>1, <2>6, <3>2, <3>3 DEF AwaitOk, Counts, HeldLines, TypeOK
    <3> QED
      BY <3>4, <3>5, <3>6
  <2> QED
    BY <1>1, <2>5, <2>6
<1>2. CASE HelloFails \/ WriteFails \/ AwaitFails
  <2>1. /\ UNCHANGED <<written, acked, toConnector, toDummy, closed, cut, reader>>
        /\ UNCHANGED <<connector, taken>>
        /\ dummy' \in {dummy, "spin", "ended"} /\ crashed' \in BOOLEAN
    BY <1>2 DEF HelloFails, WriteFails, AwaitFails, TypeOK
  <2>2. TypeOK'
    BY <2>1 DEF TypeOK
  <2>3. OnePlace' /\ Counts'
    BY <2>1 DEF OnePlace, Counts, HeldLines, OkAt, OkThere
  <2> QED
    BY <2>2, <2>3
<1>3. CASE WriteLine
  <2>1. toConnector = <<>> /\ reader # "SMSG" /\ ~OkThere
    BY <1>3 DEF WriteLine, OnePlace
  <2>2. CASE UNCHANGED <<toConnector, written>>
    <3>1. TypeOK'
      BY <1>3, <2>2 DEF WriteLine, TypeOK
    <3>2. OnePlace' /\ Counts'
      BY <1>0, <1>3, <2>1, <2>2
      DEF WriteLine, OnePlace, Counts, HeldLines, OkAt, OkThere
    <3> QED
      BY <3>1, <3>2
  <2>3. CASE /\ written < MaxLines /\ written' = written + 1
             /\ toConnector' = Append(toConnector, "SMSG")
    <3>1. toConnector' \in Seq({"SMSG"}) /\ Len(toConnector') = 1
      BY <1>0, <2>1, <2>3, AppendAt
    <3>2. TypeOK'
      <4>1. written' \in 0 .. MaxLines
        BY <2>3, LinesAssumption DEF TypeOK
      <4> QED
        BY <1>3, <3>1, <4>1 DEF WriteLine, TypeOK
    <3>3. OnePlace'
      BY <1>0, <1>3, <2>1, <3>1 DEF WriteLine, OnePlace, OkAt, OkThere
    <3>4. Counts'
      BY <1>0, <1>3, <2>1, <2>3, <3>1
      DEF WriteLine, Counts, HeldLines, OkAt, OkThere, TypeOK
    <3> QED
      BY <3>2, <3>3, <3>4
  <2> QED
    BY <1>3, <2>2, <2>3 DEF WriteLine
<1> QED
  BY <1>1, <1>2, <1>3 DEF DummyStep

\* A break loses frames from the end of what is on its way.
LEMMA CutInv ==
    ASSUME SessionInv, Cut PROVE SessionInv'
<1> USE DEF SessionInv
<1>0. /\ toDummy \in Seq(DummyFrame) /\ Len(toDummy) \in Nat
      /\ toConnector \in Seq({"SMSG"}) /\ Len(toConnector) \in Nat
      /\ toConnector = <<>> <=> Len(toConnector) = 0
  BY LenZero DEF TypeOK, DummyFrame
<1>1. PICK m \in 0 .. Len(toConnector) : toConnector' = SubSeq(toConnector, 1, m)
  BY DEF Cut
<1>2. PICK n \in 0 .. Len(toDummy) : toDummy' = SubSeq(toDummy, 1, n)
  BY DEF Cut
<1>3. /\ toConnector' \in Seq({"SMSG"}) /\ Len(toConnector') = m
      /\ toConnector' = <<>> <=> m = 0
  <2>1. toConnector' \in Seq({"SMSG"}) /\ Len(toConnector') = m
    BY <1>0, <1>1, PrefixAt
  <2> QED
    BY <2>1, LenZero
<1>4. /\ toDummy' \in Seq(DummyFrame) /\ Len(toDummy') = n
      /\ \A i \in 1 .. n : toDummy'[i] = toDummy[i]
  BY <1>0, <1>2, PrefixAt
<1>5. \A i : OkAt(i)' => OkAt(i)
  BY <1>0, <1>4 DEF OkAt
<1>6. OkThere' => OkThere
  BY <1>0, <1>4, <1>5 DEF OkThere, OkAt
<1>7. UNCHANGED <<dummy, written, acked, closed, reader, connector, taken, crashed>>
  BY DEF Cut
<1>8. TypeOK'
  BY <1>3, <1>4, <1>7 DEF Cut, TypeOK, DummyFrame
<1>9. OnePlace'
  <2>1. \A i, j \in 1 .. n : OkAt(i)' /\ OkAt(j)' => i = j
    BY <1>0, <1>5 DEF OnePlace
  <2> QED
    BY <1>0, <1>3, <1>4, <1>6, <1>7, <2>1 DEF OnePlace
<1>10. Counts'
  BY <1>0, <1>3, <1>6, <1>7 DEF Counts, HeldLines, TypeOK
<1> QED
  BY <1>8, <1>9, <1>10

----------------------------------------------------------------------------------
(* The theorems.                                                           *)

\* The line of a source is in one place, the lines are counted in order; and the
\* types.
THEOREM SessionInvariant == Spec => []SessionInv
<1>1. ASSUME Init PROVE SessionInv
  <2>1. Len(toDummy) = 0 /\ Len(toConnector) = 0
    BY <1>1 DEF Init
  <2>2. TypeOK
    <3>1. toConnector \in Seq({"SMSG"}) /\ toDummy \in Seq({"HELLO", "OK", "BYE"})
      BY <1>1, EmptySeq DEF Init
    <3>2. written \in 0 .. MaxLines /\ acked \in 0 .. MaxLines /\ taken \in 0 .. MaxLines
      BY <1>1, LinesAssumption DEF Init
    <3> QED
      BY <1>1, <3>1, <3>2 DEF Init, TypeOK
  <2>3. OnePlace /\ Counts
    BY <1>1, <2>1 DEF Init, OnePlace, Counts, HeldLines, OkThere, OkAt
  <2> QED
    BY <2>2, <2>3 DEF SessionInv
<1>2. ASSUME SessionInv, UNCHANGED vars PROVE SessionInv'
  BY <1>2
  DEF vars, SessionInv, TypeOK, OnePlace, Counts, HeldLines, OkThere, OkAt
<1>3. SessionInv /\ [Next]_vars => SessionInv'
  BY <1>2, ConnectorStepInv, DummyStepInv, CutInv DEF Next
<1> QED
  BY <1>1, <1>3, PTL DEF Spec

\* A source has one line outstanding at most, so that Broker may let it write its
\* next line only after the OK of the last.
THEOREM OneLineOutstanding == Spec => []OneOutstanding
<1>1. ASSUME SessionInv PROVE OneOutstanding
  <2> DEFINE Oks == {i \in 1 .. Len(toDummy) : toDummy[i] = "OK"}
  <2>0. /\ Len(toConnector) \in Nat /\ (toConnector = <<>> <=> Len(toConnector) = 0)
    BY <1>1, LenZero DEF SessionInv, TypeOK
  <2>1. CASE OkThere
    <3>1. PICK i \in 1 .. Len(toDummy) : OkAt(i)
      BY <2>1 DEF OkThere
    <3>2. Oks = {i}
      BY <1>1, <3>1 DEF SessionInv, OnePlace, OkAt
    <3>3. OksUnread = 1
      BY <3>2, FS_Singleton DEF OksUnread
    <3> QED
      BY <1>1, <2>0, <2>1, <3>3 DEF SessionInv, OnePlace, HeldLines, OneOutstanding
  <2>2. CASE ~OkThere
    <3>1. Oks = {}
      BY <2>2 DEF OkThere, OkAt
    <3>2. OksUnread = 0
      BY <3>1, FS_EmptySet DEF OksUnread
    <3> QED
      BY <1>1, <2>0, <3>2 DEF SessionInv, OnePlace, HeldLines, OneOutstanding
  <2> QED
    BY <2>1, <2>2
<1> QED
  BY <1>1, SessionInvariant, PTL

\* A line that the source takes for accepted was taken over by the connector: the
\* source never reads an OK that answers another line.
THEOREM AcceptedIsTaken == Spec => []AckedIsTaken
<1>1. SessionInv => AckedIsTaken
  BY DEF SessionInv, Counts, AckedIsTaken
<1> QED
  BY <1>1, SessionInvariant, PTL
==================================================================================
