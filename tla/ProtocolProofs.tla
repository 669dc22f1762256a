---------------------------- MODULE ProtocolProofs ----------------------------
(***************************************************************************)
(* However the network cuts up what is written, and whatever the sizes of  *)
(* frames and buffer: until a Read of ReadMessage is short, nothing of a   *)
(* frame is left over (NothingLeftOver), and a Read is short only when     *)
(* bytes have not arrived or the frame lies across the end of the buffer   *)
(* (ShortReads).                                                           *)
(*                                                                         *)
(* The bytes of a sequence of frames are a recursive function.  What it    *)
(* computes is shown by induction, in the form of a set of numbers that    *)
(* holds zero and with every number its successor.                         *)
(***************************************************************************)
EXTENDS Protocol, WellFoundedInduction, TLAPS

-------------------------------------------------------------------------------
(* Induction.                                                              *)

\* A set of natural numbers that is not empty has a least element.
LEMMA LeastNumber ==
    ASSUME NEW T, T \subseteq Nat, T # {}
    PROVE  \E n \in T : \A m \in T : n <= m
<1> DEFINE R == OpToRel(<, Nat)
<1>1. \A x, y \in Nat : x < y => <<x, y>> \in R
  BY DEF OpToRel
<1>2. IsWellFoundedOn(R, Nat)
  BY NatLessThanWellFounded
<1> HIDE DEF R
<1>3. PICK x \in T : \A y \in T : ~(<<y, x>> \in R)
  BY <1>2, WFMin
<1>4. \A y \in T : x <= y
  <2> SUFFICES ASSUME NEW y \in T, ~(x <= y) PROVE FALSE
    OBVIOUS
  <2>1. x \in Nat /\ y \in Nat
    OBVIOUS
  <2>2. y < x
    BY <2>1
  <2> QED
    BY <1>1, <1>3, <2>1, <2>2
<1> QED
  BY <1>4

\* Induction: what holds of zero, and of n + 1 whenever of n, holds of all.
LEMMA Induction ==
    ASSUME NEW P, 0 \in P, \A n \in Nat : n \in P => n + 1 \in P
    PROVE  Nat \subseteq P
<1> SUFFICES ASSUME ~(Nat \subseteq P) PROVE FALSE
  OBVIOUS
<1> DEFINE T == Nat \ P
<1>1. PICK n \in T : \A m \in T : n <= m
  <2>1. T # {} /\ T \subseteq Nat
    OBVIOUS
  <2> HIDE DEF T
  <2> QED
    BY <2>1, LeastNumber
<1>2. n # 0 /\ n - 1 \in Nat /\ n - 1 \in P
  BY <1>1
<1> QED
  BY <1>1, <1>2

-------------------------------------------------------------------------------
(* The bytes of a sequence of frames.                                      *)

Adds(f, fs) ==
    f = [i \in 0 .. Len(fs) |-> IF i = 0 THEN 0 ELSE f[i - 1] + Header + fs[i]]

\* The frames of a sequence have sizes.
LEMMA SizesOf ==
    ASSUME NEW fs \in Seq(Sizes)
    PROVE  Len(fs) \in Nat /\ \A i \in 1 .. Len(fs) : fs[i] \in Nat \ {0}
<1>1. \A i \in 1 .. Len(fs) : fs[i] \in Sizes
  OBVIOUS
<1>2. Sizes \subseteq Nat \ {0} /\ Len(fs) \in Nat
  BY SizesAssumption
<1> QED
  BY <1>1, <1>2

\* There is such a function.
LEMMA AddsExists ==
    ASSUME NEW fs \in Seq(Sizes)
    PROVE  \E f : Adds(f, fs)
<1> USE SizesAssumption
<1>0. Len(fs) \in Nat /\ \A i \in 1 .. Len(fs) : fs[i] \in Nat
  BY SizesOf
<1> DEFINE Good(n, f) ==
             /\ f \in [0 .. n -> Nat]
             /\ \A i \in 0 .. n :
                   f[i] = IF i = 0 THEN 0 ELSE f[i - 1] + Header + fs[i]
           P == {n \in Nat : n <= Len(fs) => \E f \in [0 .. n -> Nat] : Good(n, f)}
<1>1. 0 \in P
  <2> DEFINE f == [i \in {0} |-> 0]
  <2>1. 0 .. 0 = {0}
    OBVIOUS
  <2>2. f \in [0 .. 0 -> Nat] /\ \A i \in 0 .. 0 : i = 0 /\ f[i] = 0
    BY <2>1
  <2> QED
    BY <1>0, <2>2
<1>2. ASSUME NEW n \in Nat, n \in P PROVE n + 1 \in P
  <2> SUFFICES ASSUME n + 1 <= Len(fs)
               PROVE  \E f \in [0 .. n + 1 -> Nat] : Good(n + 1, f)
    <3>1. n + 1 \in Nat
      OBVIOUS
    <3> HIDE DEF Good
    <3> QED
      BY <3>1
  <2>1. PICK f \in [0 .. n -> Nat] : Good(n, f)
    BY <1>0, <1>2
  <2> DEFINE g == [i \in 0 .. n + 1 |->
                      IF i = n + 1 THEN f[n] + Header + fs[n + 1] ELSE f[i]]
  <2>2. f[n] + Header + fs[n + 1] \in Nat
    BY <1>0, <2>1
  <2>3. g \in [0 .. n + 1 -> Nat]
    BY <2>1, <2>2
  <2>4. ASSUME NEW i \in 0 .. n + 1
        PROVE  g[i] = IF i = 0 THEN 0 ELSE g[i - 1] + Header + fs[i]
    <3>1. CASE i = n + 1
      BY <3>1
    <3>2. CASE i \in 0 .. n
      <4>1. i # n + 1 /\ (i # 0 => i - 1 \in 0 .. n /\ i - 1 # n + 1)
        BY <3>2
      <4> QED
        BY <2>1, <3>2, <4>1
    <3> QED
      BY <3>1, <3>2
  <2> QED
    BY <2>3, <2>4
<1>3. Len(fs) \in P
  <2> HIDE DEF P
  <2> QED
    BY <1>0, <1>1, <1>2, Induction
<1>4. PICK f \in [0 .. Len(fs) -> Nat] : Good(Len(fs), f)
  BY <1>0, <1>3
<1>5. f = [i \in 0 .. Len(fs) |-> f[i]]
  BY <1>4
<1> QED
  BY <1>4, <1>5 DEF Adds

\* UpTo is one.
LEMMA UpToIsOne ==
    ASSUME NEW fs, \E f : Adds(f, fs)
    PROVE  Adds(UpTo(fs), fs)
<1> DEFINE g == CHOOSE f : Adds(f, fs)
<1>1. Adds(g, fs)
  OBVIOUS
<1>2. UpTo(fs) = g
  BY DEF UpTo, Adds
<1> QED
  BY <1>1, <1>2

\* What UpTo computes.
LEMMA UpToAdds ==
    ASSUME NEW fs \in Seq(Sizes)
    PROVE  /\ UpTo(fs) \in [0 .. Len(fs) -> Nat]
           /\ UpTo(fs)[0] = 0
           /\ \A i \in 1 .. Len(fs) : UpTo(fs)[i] = UpTo(fs)[i - 1] + Header + fs[i]
<1> USE SizesAssumption
<1>0. Len(fs) \in Nat /\ \A i \in 1 .. Len(fs) : fs[i] \in Nat
  BY SizesOf
<1>1. PICK g : g = UpTo(fs)
  OBVIOUS
<1>2. Adds(g, fs)
  BY <1>1, AddsExists, UpToIsOne
<1>3. /\ g[0] = 0
      /\ \A i \in 1 .. Len(fs) : g[i] = g[i - 1] + Header + fs[i]
      /\ g = [i \in 0 .. Len(fs) |-> g[i]]
  <2>1. \A i \in 0 .. Len(fs) :
           g[i] = IF i = 0 THEN 0 ELSE g[i - 1] + Header + fs[i]
    BY <1>2 DEF Adds
  <2>2. 0 \in 0 .. Len(fs) /\ \A i \in 1 .. Len(fs) : i \in 0 .. Len(fs) /\ i # 0
    BY <1>0
  <2>3. g = [i \in 0 .. Len(fs) |-> g[i]]
    BY <1>2 DEF Adds
  <2> QED
    BY <2>1, <2>2, <2>3
<1> DEFINE P == {n \in Nat : n <= Len(fs) => g[n] \in Nat}
<1>4. 0 \in P
  BY <1>3
<1>5. ASSUME NEW n \in Nat, n \in P PROVE n + 1 \in P
  <2> SUFFICES ASSUME n + 1 <= Len(fs) PROVE g[n + 1] \in Nat
    OBVIOUS
  <2>1. n + 1 \in 1 .. Len(fs) /\ (n + 1) - 1 = n /\ g[n] \in Nat
    BY <1>0, <1>5
  <2>2. g[n + 1] = g[n] + Header + fs[n + 1]
    BY <1>3, <2>1
  <2> QED
    BY <1>0, <2>1, <2>2
<1>6. \A i \in 0 .. Len(fs) : i \in P
  <2> HIDE DEF P
  <2> QED
    BY <1>0, <1>4, <1>5, Induction
<1>7. g \in [0 .. Len(fs) -> Nat]
  BY <1>0, <1>3, <1>6
<1> QED
  BY <1>1, <1>3, <1>7

\* A sequence that is another one from its element k + 1 on has its bytes, less
\* those of the first k.
LEMMA UpToShift ==
    ASSUME NEW fs \in Seq(Sizes), NEW gs \in Seq(Sizes), NEW k \in 0 .. Len(fs),
           NEW n \in Nat, n <= Len(gs), n + k <= Len(fs),
           \A i \in 1 .. n : gs[i] = fs[i + k]
    PROVE  \A i \in 0 .. n : UpTo(gs)[i] = UpTo(fs)[i + k] - UpTo(fs)[k]
<1> USE SizesAssumption
<1>1. PICK f : f = UpTo(fs)
  OBVIOUS
<1>2. PICK g : g = UpTo(gs)
  OBVIOUS
<1>3. /\ f \in [0 .. Len(fs) -> Nat]
      /\ \A i \in 1 .. Len(fs) : f[i] = f[i - 1] + Header + fs[i]
  BY <1>1, UpToAdds
<1>4. /\ g \in [0 .. Len(gs) -> Nat] /\ g[0] = 0
      /\ \A i \in 1 .. Len(gs) : g[i] = g[i - 1] + Header + gs[i]
  BY <1>2, UpToAdds
<1>5. Len(fs) \in Nat /\ Len(gs) \in Nat /\ \A i \in 1 .. Len(fs) : fs[i] \in Nat
  BY SizesOf
<1>0. k \in Nat /\ 0 + k = k /\ f[k] \in Nat /\ f[k] - f[k] = 0
  <2>1. k \in Nat /\ 0 + k = k
    BY ONLY k \in 0 .. Len(fs), <1>5
  <2>2. f[k] \in Nat
    BY ONLY k \in 0 .. Len(fs), <1>3
  <2> QED
    BY ONLY <2>1, <2>2
<1> DEFINE P == {i \in Nat : i <= n => g[i] = f[i + k] - f[k]}
<1>6. 0 \in P
  <2>1. g[0] = f[0 + k] - f[k]
    BY ONLY <1>0, <1>4
  <2> QED
    BY ONLY <2>1
<1>7. ASSUME NEW i \in Nat, i \in P PROVE i + 1 \in P
  <2> SUFFICES ASSUME i + 1 <= n PROVE g[i + 1] = f[i + 1 + k] - f[k]
    OBVIOUS
  <2>1. /\ i + 1 \in 1 .. Len(gs) /\ i + 1 + k \in 1 .. Len(fs) /\ i + 1 \in 1 .. n
        /\ (i + 1) - 1 = i /\ (i + 1 + k) - 1 = i + k
    BY <1>5
  <2>2. g[i + 1] = g[i] + Header + gs[i + 1]
    BY <1>4, <2>1
  <2>3. f[i + 1 + k] = f[i + k] + Header + fs[i + 1 + k]
    <3>1. PICK q \in 1 .. Len(fs) : q = i + 1 + k /\ q - 1 = i + k
      BY ONLY <2>1
    <3>2. f[q] = f[q - 1] + Header + fs[q]
      BY ONLY <1>3, <3>1
    <3> QED
      BY ONLY <3>1, <3>2
  <2>4. g[i] = f[i + k] - f[k] /\ gs[i + 1] = fs[i + 1 + k]
    <3>1. i <= n
      BY ONLY i + 1 <= n, i \in Nat, n \in Nat
    <3>2. g[i] = f[i + k] - f[k]
      BY ONLY <1>7, <3>1
    <3>3. PICK q \in 1 .. n : q = i + 1
      BY ONLY <2>1
    <3>4. gs[q] = fs[q + k]
      BY ONLY <3>3, \A e \in 1 .. n : gs[e] = fs[e + k]
    <3> QED
      BY ONLY <3>2, <3>3, <3>4
  <2>5. i + k \in 0 .. Len(fs)
    BY <1>0, <1>5, <2>1
  <2>6. f[i + k] \in Nat /\ f[k] \in Nat
    BY <1>0, <1>3, <2>5
  <2>7. fs[i + 1 + k] \in Nat
    BY <1>5, <2>1
  <2>8. PICK x \in Nat, y \in Nat, z \in Nat, h \in Nat :
           x = f[i + k] /\ y = f[k] /\ z = fs[i + 1 + k] /\ h = Header
    BY <2>6, <2>7
  <2>9. (x - y) + h + z = (x + h + z) - y
    BY ONLY TRUE
  <2> QED
    BY ONLY <2>2, <2>3, <2>4, <2>8, <2>9
<1>8. \A i \in 0 .. n : i \in P
  <2> HIDE DEF P
  <2> QED
    <3>1. Nat \subseteq P
      BY <1>6, <1>7, Induction
    <3> QED
      BY <3>1
<1> QED
  BY <1>1, <1>2, <1>8

\* More frames have more bytes.
LEMMA UpToGrows ==
    ASSUME NEW fs \in Seq(Sizes), NEW i \in 0 .. Len(fs), NEW j \in i .. Len(fs)
    PROVE  UpTo(fs)[i] <= UpTo(fs)[j]
<1> USE SizesAssumption
<1>1. PICK f : f = UpTo(fs)
  OBVIOUS
<1>2. /\ f \in [0 .. Len(fs) -> Nat]
      /\ \A n \in 1 .. Len(fs) : f[n] = f[n - 1] + Header + fs[n]
  BY <1>1, UpToAdds
<1>3. Len(fs) \in Nat /\ \A n \in 1 .. Len(fs) : fs[n] \in Nat
  BY SizesOf
<1> DEFINE P == {n \in Nat : i + n <= Len(fs) => f[i] <= f[i + n]}
<1>4. 0 \in P
  <2>1. i + 0 = i /\ f[i] \in Nat
    BY <1>2, <1>3
  <2> QED
    BY ONLY <2>1
<1>5. ASSUME NEW n \in Nat, n \in P PROVE n + 1 \in P
  <2> SUFFICES ASSUME i + (n + 1) <= Len(fs) PROVE f[i] <= f[i + (n + 1)]
    OBVIOUS
  <2>1. /\ i + (n + 1) \in 1 .. Len(fs) /\ i + n \in 0 .. Len(fs)
        /\ i + (n + 1) - 1 = i + n
    BY <1>3
  <2>2. f[i + (n + 1)] = f[i + n] + Header + fs[i + (n + 1)]
    BY <1>2, <2>1
  <2>3. f[i] <= f[i + n]
    BY <1>3, <1>5, <2>1
  <2>4. f[i] \in Nat /\ f[i + n] \in Nat /\ fs[i + (n + 1)] \in Nat
    BY <1>2, <1>3, <2>1
  <2> QED
    BY <2>2, <2>3, <2>4
<1>6. j - i \in Nat /\ i + (j - i) = j
  BY <1>3
<1>7. j - i \in P
  <2> HIDE DEF P
  <2> QED
    BY <1>4, <1>5, <1>6, Induction
<1> QED
  BY <1>1, <1>3, <1>6, <1>7

\* The bytes after a frame is appended.
LEMMA UpToAppend ==
    ASSUME NEW fs \in Seq(Sizes), NEW z \in Sizes
    PROVE  /\ Len(Append(fs, z)) = Len(fs) + 1
           /\ \A i \in 0 .. Len(fs) : UpTo(Append(fs, z))[i] = UpTo(fs)[i]
           /\ UpTo(Append(fs, z))[Len(fs) + 1] = UpTo(fs)[Len(fs)] + Header + z
<1>0. Append(fs, z) \in Seq(Sizes)
  OBVIOUS
<1>1. PICK gs \in Seq(Sizes) : gs = Append(fs, z)
  BY <1>0
<1>2. /\ Len(fs) \in Nat /\ Len(gs) = Len(fs) + 1 /\ gs[Len(fs) + 1] = z
      /\ \A i \in 1 .. Len(fs) : fs[i] = gs[i + 0]
  BY <1>1
<1>3. 0 \in 0 .. Len(gs) /\ Len(fs) <= Len(fs) /\ Len(fs) + 0 <= Len(gs)
  BY <1>2
<1>4. \A i \in 0 .. Len(fs) : UpTo(fs)[i] = UpTo(gs)[i + 0] - UpTo(gs)[0]
  BY <1>2, <1>3, UpToShift
<1>5. /\ UpTo(gs)[0] = 0 /\ UpTo(gs) \in [0 .. Len(gs) -> Nat]
      /\ \A i \in 1 .. Len(gs) : UpTo(gs)[i] = UpTo(gs)[i - 1] + Header + gs[i]
  BY UpToAdds
<1>6. ASSUME NEW i \in 0 .. Len(fs) PROVE UpTo(gs)[i] = UpTo(fs)[i]
  <2>1. i + 0 = i /\ i \in 0 .. Len(gs) /\ UpTo(gs)[i] \in Nat
    BY <1>2, <1>5
  <2> QED
    BY <1>4, <1>5, <2>1
<1>7. Len(fs) + 1 \in 1 .. Len(gs) /\ Len(fs) + 1 - 1 = Len(fs)
  BY <1>2
<1>8. UpTo(gs)[Len(fs) + 1] = UpTo(gs)[Len(fs)] + Header + z
  BY <1>2, <1>5, <1>7
<1>9. Len(fs) \in 0 .. Len(fs)
  BY <1>2
<1> QED
  BY <1>1, <1>2, <1>6, <1>8, <1>9

\* The bytes after the first frame is gone.
LEMMA UpToTail ==
    ASSUME NEW fs \in Seq(Sizes), fs # <<>>
    PROVE  /\ Tail(fs) \in Seq(Sizes) /\ Len(Tail(fs)) = Len(fs) - 1
           /\ \A i \in 0 .. Len(fs) - 1 :
                 UpTo(Tail(fs))[i] = UpTo(fs)[i + 1] - Header - Head(fs)
<1>0. Tail(fs) \in Seq(Sizes)
  OBVIOUS
<1>1. PICK gs \in Seq(Sizes) : gs = Tail(fs)
  BY <1>0
<1>2. /\ Len(fs) \in Nat \ {0} /\ Len(gs) = Len(fs) - 1 /\ fs[1] = Head(fs)
      /\ \A i \in 1 .. Len(gs) : gs[i] = fs[i + 1]
  BY <1>1
<1>3. /\ 1 \in 0 .. Len(fs) /\ Len(gs) \in Nat /\ Len(gs) <= Len(gs)
      /\ Len(gs) + 1 <= Len(fs)
  BY <1>2
<1>4. \A i \in 0 .. Len(gs) : UpTo(gs)[i] = UpTo(fs)[i + 1] - UpTo(fs)[1]
  <2>1. \A i \in 1 .. Len(gs) : gs[i] = fs[i + 1]
    BY <1>2
  <2> QED
    BY ONLY <1>3, <2>1, UpToShift, fs \in Seq(Sizes), gs \in Seq(Sizes)
<1>5. /\ UpTo(fs)[0] = 0 /\ UpTo(fs) \in [0 .. Len(fs) -> Nat]
      /\ \A i \in 1 .. Len(fs) : UpTo(fs)[i] = UpTo(fs)[i - 1] + Header + fs[i]
  BY UpToAdds
<1>6. fs[1] \in Nat /\ Header \in Nat
  BY <1>2, SizesOf, SizesAssumption
<1>7. UpTo(fs)[1] = Header + Head(fs)
  <2>1. 1 \in 1 .. Len(fs) /\ 1 - 1 = 0
    BY <1>2
  <2> QED
    BY <1>2, <1>5, <1>6, <2>1
<1>8. ASSUME NEW i \in 0 .. Len(fs) - 1
      PROVE  UpTo(gs)[i] = UpTo(fs)[i + 1] - Header - Head(fs)
  <2>0. i \in 0 .. Len(gs) /\ i + 1 \in 0 .. Len(fs)
    BY <1>2
  <2>1. UpTo(fs)[i + 1] \in Nat
    BY <1>5, <2>0
  <2> QED
    BY <1>2, <1>4, <1>6, <1>7, <2>0, <2>1
<1> QED
  BY <1>1, <1>2, <1>8

-------------------------------------------------------------------------------
(* The invariant.                                                          *)

\* The part of the first frame that was read.
Taken == IF reader = "payload" THEN Header ELSE 0

\* As long as no Read was short every byte of the frames that were not yet
\* returned is somewhere, and no other is.
BytesInv ==
    /\ TypeOK
    /\ reader # "desync" =>
          buffered + socket + flight + Taken = UpTo(frames)[Len(frames)]
    /\ reader = "payload" => frames # <<>>

\* The lesser of two numbers.
LEMMA MinOfTwo ==
    ASSUME NEW a \in Nat, NEW b \in Nat
    PROVE  Min({a, b}) = IF a <= b THEN a ELSE b
<1> DEFINE m == IF a <= b THEN a ELSE b
<1>1. m \in {a, b} /\ \A y \in {a, b} : m <= y
  OBVIOUS
<1>2. ASSUME NEW x \in {a, b}, \A y \in {a, b} : x <= y PROVE x = m
  BY <1>2
<1> QED
  BY <1>1, <1>2 DEF Min

\* What is taken from one place and was counted elsewhere: the sum stays.
LEMMA SumStays ==
    ASSUME NEW b \in Nat, NEW s \in Nat, NEW b2 \in Nat, NEW s2 \in Nat,
           NEW f \in Nat, NEW g \in Nat, NEW h \in Nat, b2 + s2 + g = b + s
    PROVE  /\ b2 + s2 + f + g = b + s + f + 0
           /\ b2 + s2 + f + 0 = (b + s + f + h) - h - g
  OBVIOUS

\* Taking from a store at most what is asked for, and at most what is there.
LEMMA TakeSome ==
    ASSUME NEW a \in Nat, NEW n \in Nat, NEW g, g = IF a <= n THEN a ELSE n
    PROVE  g \in Nat /\ g <= n /\ g <= a /\ a - g \in Nat /\ (g # n => a < n)
  OBVIOUS

\* The numbers of a state.
LEMMA Numbers ==
    ASSUME TypeOK
    PROVE  /\ frames \in Seq(Sizes) /\ Len(frames) \in Nat
           /\ \A i \in 1 .. Len(frames) : frames[i] \in Nat \ {0}
           /\ Header \in Nat \ {0} /\ BufSize \in Nat /\ Header < BufSize
           /\ flight \in Nat /\ socket \in Nat /\ buffered \in Nat
           /\ buffered <= BufSize
  BY SizesOf, SizesAssumption DEF TypeOK

\* What a Read of n bytes does: it takes what it returns from the buffer and the
\* socket, and returns less than n only if the buffer, or what has arrived, ends.
LEMMA ReadTakes ==
    ASSUME TypeOK, NEW n \in Nat \ {0}, Read(n)
    PROVE  /\ Got(n) \in Nat /\ Got(n) <= n /\ buffered + socket > 0
           /\ socket' \in Nat /\ buffered' \in 0 .. BufSize
           /\ buffered' + socket' + Got(n) = buffered + socket
           /\ UNCHANGED <<written, flight>>
           /\ Got(n) # n => \/ buffered > 0 /\ buffered < n
                            \/ buffered = 0 /\ socket < n
<1>0. socket \in Nat /\ buffered \in Nat /\ BufSize \in Nat /\ buffered <= BufSize
  BY Numbers
<1>1. UNCHANGED <<written, flight>> /\ buffered + socket > 0
  BY <1>0 DEF Read, Readable
<1>2. CASE buffered = 0 /\ n >= BufSize
  <2>1. Got(n) = IF socket <= n THEN socket ELSE n
    BY <1>0, <1>2, MinOfTwo DEF Got
  <2>2. socket' = socket - Got(n) /\ buffered' = 0
    BY <1>2 DEF Read
  <2>3. PICK g : g = Got(n)
    OBVIOUS
  <2>4. g \in Nat /\ g <= n /\ g <= socket /\ (g # n => socket < n)
    BY <1>0, <2>1, <2>3, TakeSome
  <2>5. /\ socket - g \in Nat /\ 0 \in 0 .. BufSize
        /\ 0 + (socket - g) + g = 0 + socket
    BY <1>0, <2>4
  <2> QED
    BY ONLY <1>1, <1>2, <2>2, <2>3, <2>4, <2>5
<1>3. CASE buffered > 0
  <2>1. Filled = buffered
    BY <1>3 DEF Filled
  <2>2. Got(n) = IF buffered <= n THEN buffered ELSE n
    BY <1>0, <1>3, <2>1, MinOfTwo DEF Got
  <2>3. socket' = socket - (buffered - buffered) /\ buffered' = buffered - Got(n)
    BY <1>0, <1>3, <2>1 DEF Read
  <2>4. PICK g : g = Got(n)
    OBVIOUS
  <2>5. g \in Nat /\ g <= n /\ g <= buffered /\ (g # n => buffered < n)
    BY <1>0, <2>2, <2>4, TakeSome
  <2>6. /\ socket - (buffered - buffered) = socket
        /\ buffered - g \in 0 .. BufSize
        /\ (buffered - g) + socket + g = buffered + socket
    BY <1>0, <2>5
  <2> QED
    BY ONLY <1>0, <1>1, <1>3, <2>3, <2>4, <2>5, <2>6
<1>4. CASE buffered = 0 /\ n < BufSize
  <2>1. Filled = IF socket <= BufSize THEN socket ELSE BufSize
    BY <1>0, <1>4, MinOfTwo DEF Filled
  <2>2. PICK a : a = Filled
    OBVIOUS
  <2>3. /\ a \in Nat /\ a <= BufSize /\ a <= socket
        /\ (a # BufSize => a = socket)
    BY <1>0, <2>1, <2>2
  <2>4. Got(n) = IF a <= n THEN a ELSE n
    BY <1>0, <1>4, <2>2, <2>3, MinOfTwo DEF Got
  <2>5. socket' = socket - (a - 0) /\ buffered' = a - Got(n)
    BY <1>0, <1>4, <2>2 DEF Read
  <2>6. PICK g : g = Got(n)
    OBVIOUS
  <2>7. g \in Nat /\ g <= n /\ g <= a /\ (g # n => a < n)
    BY <2>3, <2>4, <2>6, TakeSome
  <2>8. /\ socket - (a - 0) \in Nat /\ a - g \in 0 .. BufSize
        /\ (a - g) + (socket - (a - 0)) + g = 0 + socket
    BY <1>0, <2>3, <2>7
  <2>9. g # n => socket < n
    BY <1>0, <1>4, <2>3, <2>7
  <2> QED
    BY ONLY <1>1, <1>4, <2>5, <2>6, <2>7, <2>8, <2>9
<1> QED
  BY <1>0, <1>2, <1>3, <1>4

\* While anything is left there is a frame, and all its bytes are among them.
LEMMA FirstFrame ==
    ASSUME NEW fs \in Seq(Sizes), UpTo(fs)[Len(fs)] > 0
    PROVE  /\ fs # <<>> /\ Head(fs) \in Sizes /\ Head(fs) \in Nat \ {0}
           /\ Header + Head(fs) <= UpTo(fs)[Len(fs)]
<1>1. /\ Len(fs) \in Nat /\ UpTo(fs) \in [0 .. Len(fs) -> Nat] /\ UpTo(fs)[0] = 0
      /\ \A i \in 1 .. Len(fs) : UpTo(fs)[i] = UpTo(fs)[i - 1] + Header + fs[i]
      /\ \A i \in 1 .. Len(fs) : fs[i] \in Nat \ {0}
  BY UpToAdds, SizesOf
<1>2. Len(fs) # 0
  BY <1>1
<1>3. /\ 1 \in 1 .. Len(fs) /\ 1 - 1 = 0 /\ 1 \in 0 .. Len(fs)
      /\ Len(fs) \in 1 .. Len(fs)
  BY <1>1, <1>2
<1>4. fs # <<>> /\ fs[1] = Head(fs) /\ Head(fs) \in Sizes
  BY <1>3
<1>5. UpTo(fs)[1] <= UpTo(fs)[Len(fs)]
  BY <1>3, UpToGrows
<1>6. UpTo(fs)[1] = 0 + Header + fs[1] /\ fs[1] \in Nat \ {0} /\ Header \in Nat
  BY <1>1, <1>3, SizesAssumption
<1> QED
  BY <1>4, <1>5, <1>6

-------------------------------------------------------------------------------
(* Every step keeps it.                                                    *)

\* A frame that is written is one more, all of it in flight.
LEMMA WriteKeeps ==
    ASSUME BytesInv, NEW size \in Sizes, Write(size)
    PROVE  BytesInv'
<1>0. /\ flight \in Nat /\ socket \in Nat /\ buffered \in Nat /\ Header \in Nat
      /\ frames \in Seq(Sizes) /\ Len(frames) \in Nat
  BY Numbers DEF BytesInv
<1>1. /\ frames' = Append(frames, size) /\ UNCHANGED <<socket, buffered, reader>>
      /\ flight' = flight + Header + size /\ size \in Nat
      /\ Taken' = Taken /\ Taken \in Nat
  BY <1>0, SizesAssumption DEF Write, Taken
<1>2. TypeOK'
  BY <1>0, <1>1, SizesAssumption DEF BytesInv, TypeOK, Write
<1>3. /\ Len(frames') = Len(frames) + 1
      /\ UpTo(frames')[Len(frames')] = UpTo(frames)[Len(frames)] + Header + size
  BY <1>0, <1>1, UpToAppend
<1>4. reader' # "desync" =>
         buffered' + socket' + flight' + Taken' = UpTo(frames')[Len(frames')]
  BY <1>0, <1>1, <1>3 DEF BytesInv
<1>5. frames' # <<>>
  BY <1>0, <1>3
<1> QED
  BY <1>2, <1>4, <1>5 DEF BytesInv

\* Bytes that arrive are no longer in flight.
LEMMA ArriveKeeps ==
    ASSUME BytesInv, NEW n \in 1 .. flight, Arrive(n)
    PROVE  BytesInv'
<1>0. flight \in Nat /\ socket \in Nat /\ buffered \in Nat /\ Header \in Nat
  BY Numbers DEF BytesInv
<1>1. /\ UNCHANGED <<written, frames, buffered, reader>> /\ n \in Nat /\ n <= flight
      /\ flight' = flight - n /\ socket' = socket + n
      /\ Taken' = Taken /\ Taken \in Nat
  BY <1>0 DEF Arrive, Taken
<1>2. TypeOK'
  BY <1>0, <1>1 DEF BytesInv, TypeOK
<1>3. buffered' + socket' + flight' + Taken' = buffered + socket + flight + Taken
  BY <1>0, <1>1
<1> QED
  BY <1>1, <1>2, <1>3 DEF BytesInv

\* A header is read whole, or a Read was short.
LEMMA ReadHeaderKeeps ==
    ASSUME BytesInv, ReadHeader
    PROVE  BytesInv'
<1>0. /\ flight \in Nat /\ socket \in Nat /\ buffered \in Nat
      /\ Header \in Nat \ {0} /\ frames \in Seq(Sizes)
  BY Numbers DEF BytesInv
<1>1. /\ Read(Header) /\ UNCHANGED frames /\ reader = "header" /\ Taken = 0
      /\ reader' = IF Got(Header) = Header THEN "payload" ELSE "desync"
  BY DEF ReadHeader, Taken
<1>2. /\ socket' \in Nat /\ buffered' \in 0 .. BufSize /\ UNCHANGED <<written, flight>>
      /\ buffered' + socket' + Got(Header) = buffered + socket
      /\ Got(Header) \in Nat /\ buffered + socket > 0
  BY <1>0, <1>1, ReadTakes DEF BytesInv
<1>3. TypeOK'
  BY <1>1, <1>2 DEF BytesInv, TypeOK
<1>4. CASE Got(Header) = Header
  <2>1. reader' = "payload" /\ Taken' = Header
    BY <1>1, <1>4 DEF Taken
  <2>2. buffered + socket + flight + 0 = UpTo(frames)[Len(frames)]
    BY <1>1 DEF BytesInv
  <2>3. buffered' + socket' + flight' + Taken' = UpTo(frames')[Len(frames')]
    <3>1. /\ buffered' \in Nat /\ flight' = flight /\ frames' = frames
          /\ buffered' + socket' + Header = buffered + socket
      BY <1>1, <1>2, <1>4, SizesAssumption
    <3>2. buffered' + socket' + flight + Header = buffered + socket + flight + 0
      <4>1. PICK b2 \in Nat, s2 \in Nat : b2 = buffered' /\ s2 = socket'
        BY <1>2, <3>1
      <4>2. b2 + s2 + Header = buffered + socket
        BY ONLY <3>1, <4>1
      <4>3. b2 + s2 + flight + Header = buffered + socket + flight + 0
        BY ONLY <1>0, <4>2, SumStays, b2 \in Nat, s2 \in Nat
      <4> QED
        BY ONLY <4>1, <4>3
    <3> QED
      BY ONLY <2>1, <2>2, <3>1, <3>2
  <2>4. frames # <<>>
    BY <1>0, <1>2, <2>2, FirstFrame
  <2> QED
    BY <1>1, <1>3, <2>3, <2>4 DEF BytesInv
<1>5. CASE Got(Header) # Header
  BY <1>1, <1>3, <1>5 DEF BytesInv
<1> QED
  BY <1>4, <1>5

\* A payload is read whole and the frame returned, or a Read was short.
LEMMA ReadPayloadKeeps ==
    ASSUME BytesInv, ReadPayload
    PROVE  BytesInv'
<1>0. /\ flight \in Nat /\ socket \in Nat /\ buffered \in Nat
      /\ Header \in Nat \ {0} /\ frames \in Seq(Sizes) /\ Len(frames) \in Nat
  BY Numbers DEF BytesInv
<1>1. /\ reader = "payload" /\ frames # <<>> /\ Taken = Header
  BY DEF ReadPayload, Taken, BytesInv
<1>2. PICK z \in Nat \ {0} : z = Head(frames)
  <2>1. 1 \in 1 .. Len(frames) /\ frames[1] = Head(frames)
    BY <1>0, <1>1
  <2> QED
    BY <2>1, Numbers DEF BytesInv
<1>3. /\ Read(z)
      /\ IF Got(z) = z THEN reader' = "header" /\ frames' = Tail(frames)
                       ELSE reader' = "desync" /\ UNCHANGED frames
  BY <1>2 DEF ReadPayload
<1>4. /\ socket' \in Nat /\ buffered' \in 0 .. BufSize /\ UNCHANGED <<written, flight>>
      /\ buffered' + socket' + Got(z) = buffered + socket /\ Got(z) \in Nat
  BY <1>3, ReadTakes DEF BytesInv
<1>5. /\ Tail(frames) \in Seq(Sizes) /\ Len(Tail(frames)) = Len(frames) - 1
      /\ \A i \in 0 .. Len(frames) - 1 :
            UpTo(Tail(frames))[i] = UpTo(frames)[i + 1] - Header - z
  BY <1>0, <1>1, <1>2, UpToTail
<1>6. TypeOK'
  BY <1>3, <1>4, <1>5 DEF BytesInv, TypeOK
<1>7. CASE Got(z) = z
  <2>1. reader' = "header" /\ frames' = Tail(frames) /\ Taken' = 0
    BY <1>3, <1>7 DEF Taken
  <2>2. buffered + socket + flight + Header = UpTo(frames)[Len(frames)]
    BY <1>1 DEF BytesInv
  <2>3. UpTo(frames')[Len(frames')] = UpTo(frames)[Len(frames)] - Header - z
    <3>1. Len(frames) # 0
      BY <1>0, <1>1
    <3>2. Len(frames) - 1 \in 0 .. Len(frames) - 1 /\ (Len(frames) - 1) + 1 = Len(frames)
      BY <1>0, <3>1
    <3> QED
      BY <1>5, <2>1, <3>2
  <2>4. buffered' + socket' + flight' + Taken' = UpTo(frames')[Len(frames')]
    <3>1. /\ buffered' \in Nat /\ flight' = flight
          /\ buffered' + socket' + z = buffered + socket
      BY <1>4, <1>7, SizesAssumption
    <3>2. buffered' + socket' + flight + 0 =
             (buffered + socket + flight + Header) - Header - z
      <4>1. PICK b2 \in Nat, s2 \in Nat : b2 = buffered' /\ s2 = socket'
        BY <1>4, <3>1
      <4>2. b2 + s2 + z = buffered + socket
        BY ONLY <3>1, <4>1
      <4>3. b2 + s2 + flight + 0 = (buffered + socket + flight + Header) - Header - z
        BY ONLY <1>0, <4>2, SumStays, b2 \in Nat, s2 \in Nat, z \in Nat
      <4> QED
        BY ONLY <4>1, <4>3
    <3> QED
      BY ONLY <2>1, <2>2, <2>3, <3>1, <3>2
  <2> QED
    BY <1>6, <2>1, <2>4 DEF BytesInv
<1>8. CASE Got(z) # z
  BY <1>3, <1>6, <1>8 DEF BytesInv
<1> QED
  BY <1>7, <1>8

\* A Read that is short although all that was written has arrived found a part of
\* the frame in the buffer and the rest in the socket.
LEMMA ShortHasCause ==
    ASSUME BytesInv, ReadHeader \/ ReadPayload, reader' = "desync"
    PROVE  flight > 0 \/ (buffered > 0 /\ socket > 0)
<1>0. /\ flight \in Nat /\ socket \in Nat /\ buffered \in Nat
      /\ Header \in Nat \ {0} /\ frames \in Seq(Sizes)
  BY Numbers DEF BytesInv
<1>1. CASE ReadHeader
  <2>1. Read(Header) /\ Got(Header) # Header /\ Taken = 0 /\ reader # "desync"
    BY <1>1 DEF ReadHeader, Taken
  <2>2. buffered + socket + flight + 0 = UpTo(frames)[Len(frames)]
    BY <2>1 DEF BytesInv
  <2>3. /\ buffered + socket > 0
        /\ \/ buffered > 0 /\ buffered < Header
           \/ buffered = 0 /\ socket < Header
    BY <1>0, <2>1, ReadTakes DEF BytesInv
  <2>4. Header <= buffered + socket + flight
    <3>1. PICK u \in Nat : u = UpTo(frames)[Len(frames)] /\ u > 0
      BY <1>0, <2>2, <2>3
    <3>2. Header + Head(frames) <= u /\ Head(frames) \in Nat
      BY <1>0, <3>1, FirstFrame
    <3> QED
      BY <1>0, <2>2, <3>1, <3>2
  <2> QED
    BY <1>0, <2>3, <2>4
<1>2. CASE ReadPayload
  <2>1. reader = "payload" /\ Taken = Header /\ frames # <<>>
    BY <1>2 DEF ReadPayload, Taken, BytesInv
  <2>2. buffered + socket + flight + Header = UpTo(frames)[Len(frames)]
    BY <2>1 DEF BytesInv
  <2>3. PICK u \in Nat : u = UpTo(frames)[Len(frames)] /\ u > 0
    BY <1>0, <2>2
  <2>4. PICK z \in Nat \ {0} : z = Head(frames) /\ Header + z <= u
    BY <1>0, <2>3, FirstFrame
  <2>5. Read(z) /\ Got(z) # z
    BY <1>2, <2>4 DEF ReadPayload
  <2>6. \/ buffered > 0 /\ buffered < z
        \/ buffered = 0 /\ socket < z
    BY <2>5, ReadTakes DEF BytesInv
  <2> QED
    BY <1>0, <2>2, <2>3, <2>4, <2>6
<1> QED
  BY <1>1, <1>2

-------------------------------------------------------------------------------
(* The theorems.                                                           *)

\* Where the bytes are, until a Read is short: those of the frames that were not
\* yet returned are in flight, in the socket or in the buffer, and no others; for
\* every way in which they arrive.
THEOREM BytesAddUp == Spec => []BytesInv
<1>1. Init => BytesInv
  <2> SUFFICES ASSUME Init PROVE BytesInv
    OBVIOUS
  <2>1. TypeOK /\ frames \in Seq(Sizes) /\ Len(frames) = 0 /\ Taken = 0
    BY SizesAssumption DEF Init, TypeOK, Taken
  <2>2. UpTo(frames)[0] = 0
    BY <2>1, UpToAdds
  <2> QED
    BY <2>1, <2>2 DEF Init, BytesInv
<1>2. BytesInv /\ [Next]_vars => BytesInv'
  <2> SUFFICES ASSUME BytesInv, [Next]_vars PROVE BytesInv'
    OBVIOUS
  <2>1. CASE Next
    BY <2>1, WriteKeeps, ArriveKeeps, ReadHeaderKeeps, ReadPayloadKeeps DEF Next
  <2>2. CASE UNCHANGED vars
    BY <2>2 DEF vars, BytesInv, TypeOK, Taken
  <2> QED
    BY <2>1, <2>2
<1> QED
  BY <1>1, <1>2, PTL DEF Spec

\* No message leaves a byte behind for the one after it, or takes one from it,
\* until a Read is short: for all sizes, also of frames that are cut up on their
\* way or longer than the buffer.
THEOREM NoBytesLeft == Spec => []NothingLeftOver
<1>1. BytesInv => NothingLeftOver
  <2> SUFFICES ASSUME BytesInv, reader = "header"
               PROVE  flight + socket + buffered = UpTo(frames)[Len(frames)]
    BY DEF NothingLeftOver
  <2>1. flight \in Nat /\ socket \in Nat /\ buffered \in Nat
    BY Numbers DEF BytesInv
  <2>2. buffered + socket + flight + 0 = UpTo(frames)[Len(frames)]
    BY DEF BytesInv, Taken
  <2> QED
    BY <2>1, <2>2
<1> QED
  BY <1>1, BytesAddUp, PTL

\* ReadMessage goes wrong in two cases and in no other: the frame has not arrived
\* altogether, or it lies across the end of the buffer of the bufio.Reader.
THEOREM ShortReadsHaveCause == Spec => ShortReads
<1>1. BytesInv /\ [Next]_vars =>
         [reader # "desync" /\ reader' = "desync"
             => flight > 0 \/ (buffered > 0 /\ socket > 0)]_vars
  <2> SUFFICES ASSUME BytesInv, Next, reader # "desync", reader' = "desync"
               PROVE  flight > 0 \/ (buffered > 0 /\ socket > 0)
    OBVIOUS
  <2>1. ReadHeader \/ ReadPayload
    BY DEF Next, Write, Arrive
  <2> QED
    BY <2>1, ShortHasCause
<1> QED
  BY <1>1, BytesAddUp, PTL DEF Spec, ShortReads
===============================================================================
