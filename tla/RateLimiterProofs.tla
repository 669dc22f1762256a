--------------------------- MODULE RateLimiterProofs ---------------------------
(***************************************************************************)
(* What a rate limiter counts, for every interval, multiplier and limit,   *)
(* however late the ticks are handled: no recent byte is missed.  If ticks *)
(* are handled in the interval in which they are due, the total is what is *)
(* stored, and no breach is reported that is none.                         *)
(***************************************************************************)
EXTENDS RateLimiter, FiniteSetTheorems, WellFoundedInduction, TLAPS

\* How long an item lives, and the latest time at which one expires.
Life    == StoreMultiplier * FlushInterval
Horizon == MaxTime + Life

\* The bytes that were incremented at time t or later.
Instants == 0 .. MaxTime
Since(t) == {u \in Instants : u >= t}
From(t)  == BytesIn(Since(t))

\* What the items st that expire by time e add up to.
ValueBy(st, e) ==
    [k \in Instants |-> IF k \in DOMAIN st /\ st[k].ttl <= e THEN st[k].value ELSE 0]
StoredBy(st, e) == SumFunctionOnSet(ValueBy(st, e), Instants)

--------------------------------------------------------------------------------
(* The invariant.                                                          *)

Types ==
    /\ TypeOK
    /\ DOMAIN Store \subseteq Instants /\ currentKey \in DOMAIN Store
    /\ check # "idle" => length # 0

\* The ticker goroutine handles one tick after the other, each in time.
Clock ==
    /\ now < due
    /\ tick # NoTick => tick <= now /\ now <= tick + MaxLate
    /\ handled # NoTick => handled <= now /\ now <= handled + MaxLate
    /\ handled # NoTick /\ tick # NoTick => handled <= tick
    /\ handled = NoTick <=> ticker = "idle"

\* The item of a tick is empty and fresh until the flush fills it.
Flushing ==
    /\ ticker \notin {"idle", "key"} => Store[currentKey].ttl >= handled + Life
    /\ ticker \in {"lock", "purge", "swap", "get", "set"} => Store[currentKey].value = 0
    /\ ticker \in {"set", "add"} => /\ currentStored.value = flushCount
                                    /\ currentStored.ttl = Store[currentKey].ttl

\* Nothing is incremented in the future.
NotYet == \A u \in Instants : u > now => added[u] = 0

\* The flushed bytes that the total lacks when their item has them already.
Unadded == IF ticker = "add" THEN currentStored.value ELSE 0

\* The flushed bytes that go to an item that expires by time e.
HandBy(e) ==
    IF ticker \in {"get", "set"} /\ Store[currentKey].ttl <= e THEN flushCount ELSE 0

\* The items that expire by a time e that has not passed may be purged: the bytes that
\* are too recent to be in one of them are counted without them.
Covered ==
    /\ StoredBy(Store, Horizon) <= total + Unadded
    /\ \A e \in Time : e >= now =>
          From(e - Life + MaxLate + 1) + StoredBy(Store, e) + HandBy(e)
             <= total + currentCount + InHand

RecentInv == Types /\ Clock /\ Flushing /\ NotYet /\ Covered

\* The limiter as cmd/run.go sets it up, and ticks that are handled in the interval in
\* which they are due.
Punctual ==
    /\ FlushInterval = Interval
    /\ \A p \in Phases : p + MaxLate < Interval

\* When the last tick was due that has been handled, and the one whose key is current.
Done  == IF tick = NoTick /\ handled = NoTick THEN due - FlushInterval
                                              ELSE due - 2 * FlushInterval
Keyed == IF ticker \in {"idle", "key"} THEN Done ELSE Done + FlushInterval

\* Ticks do not pile up.
OneTick ==
    /\ handled # NoTick => tick = NoTick /\ handled = Done + FlushInterval
    /\ tick # NoTick => tick = Done + FlushInterval
    /\ Done <= now

\* A tick finds a key that was not there.
NewKeys ==
    /\ currentKey * Interval <= Keyed /\ Keyed + MaxLate < (currentKey + 1) * Interval
    /\ \A k \in DOMAIN Store : k <= currentKey

Exact == StoredBy(Store, Horizon) = total + Unadded

\* Items live until the tick after their time.
Lifetimes ==
    /\ \A k \in DOMAIN Store : /\ Store[k].ttl >= Done
                               /\ Store[k].ttl <= Keyed + MaxLate + Life
    /\ ticker = "purge" => \A k \in DOMAIN Store \ visit : Store[k].ttl >= handled
    /\ ticker \in {"swap", "get", "set", "add"} =>
          \A k \in DOMAIN Store : Store[k].ttl >= handled

\* What is in currentCount came after the last swap.
Unflushed ==
    /\ currentCount <= From(Done)
    /\ ticker \in {"get", "set", "add"} => currentCount <= From(Done + FlushInterval)

\* What is counted came after a tick was due, or is in an item stored by that tick or
\* an earlier one.
Seen    == total + currentCount + InHand
Bounded ==
    \A j \in 0 .. StoreMultiplier + 1 :
       Seen <=
          From(Done - j * FlushInterval)
             + StoredBy(Store, Done - j * FlushInterval + MaxLate + Life)

\* What a check has read is no more than what came in the window before it.
WindowBytes == BytesIn(Last(Window, since))
Checking ==
    /\ check = "total"   => Seen <= WindowBytes
    /\ check = "current" => loaded + currentCount <= WindowBytes
    /\ check = "checked" => /\ loaded <= WindowBytes
                            /\ over = (Mean(loaded, length) > Limit)

PunctualInv ==
    /\ RecentInv /\ OneTick /\ NewKeys /\ Exact
    /\ Lifetimes /\ Unflushed /\ Bounded /\ Checking

--------------------------------------------------------------------------------
(* Sums over a finite set.  SumFunctionOnSet picks one element after the   *)
(* other; what it computes is shown by induction, in the form of a set of  *)
(* sets to which a set belongs when its proper subsets do (as in           *)
(* BrokerProofs, whose module has other variables).                        *)

\* Induction over the subsets of a finite set.
LEMMA SubsetInduction ==
    ASSUME NEW S, IsFiniteSet(S), NEW P,
           \A T \in SUBSET S : (\A U \in SUBSET T : U # T => U \in P) => T \in P
    PROVE  \A T \in SUBSET S : T \in P
<1> SUFFICES ASSUME ~(\A T \in SUBSET S : T \in P) PROVE FALSE
  OBVIOUS
<1> DEFINE Q == {T \in SUBSET S : T \notin P}
<1>1. IsWellFoundedOn(StrictSubsetOrdering(S), SUBSET S)
  <2>1. IsWellFoundedOn(StrictSubsetOrdering(S), FiniteSubsetsOf(S))
    BY FS_StrictSubsetOrderingWellFounded
  <2>2. FiniteSubsetsOf(S) = SUBSET S
    BY FS_FiniteSubsetsOfFinite
  <2> QED
    BY <2>1, <2>2
<1>2. Q \subseteq SUBSET S /\ Q # {}
  OBVIOUS
<1>3. PICK T \in Q : \A U \in Q : ~(<<U, T>> \in StrictSubsetOrdering(S))
  <2> HIDE DEF Q
  <2> QED
    BY <1>1, <1>2, WFMin
<1>4. ASSUME NEW U \in SUBSET T, U # T PROVE U \in P
  <2>1. U \in SUBSET S
    BY <1>3
  <2>2. <<U, T>> \in StrictSubsetOrdering(S)
    BY <1>3, <1>4, <2>1 DEF StrictSubsetOrdering
  <2> QED
    BY <1>3, <2>1, <2>2
<1> QED
  BY <1>3, <1>4

\* The element of s that a fold picks first.
Some(s) == CHOOSE x \in s : TRUE

\* f is the function by which SumFunctionOnSet(v, S) is defined.
SumsUp(f, v, S) ==
    f = [s \in SUBSET S |-> IF s = {} THEN 0 ELSE v[Some(s)] + f[s \ {Some(s)}]]

\* The element that is picked, and the smaller set.
LEMMA SomeIsIn ==
    ASSUME NEW s, s # {}
    PROVE  Some(s) \in s /\ s \ {Some(s)} # s
  BY DEF Some

\* The smaller set has a name.
LEMMA SmallerSet ==
    ASSUME NEW s, s # {}
    PROVE  \E u \in SUBSET s : u = s \ {Some(s)} /\ u # s
<1>1. PICK u : u = s \ {Some(s)}
  OBVIOUS
<1>2. u \subseteq s /\ u # s
  BY <1>1, SomeIsIn
<1> QED
  BY <1>1, <1>2

\* If there is such a function then the sum is its value.
LEMMA SumIsValue ==
    ASSUME NEW v, NEW S, \E f : SumsUp(f, v, S)
    PROVE  \E f : SumsUp(f, v, S) /\ SumFunctionOnSet(v, S) = f[S]
<1> DEFINE g == CHOOSE f : SumsUp(f, v, S)
<1>1. SumsUp(g, v, S)
  OBVIOUS
<1>2. SumFunctionOnSet(v, S) = g[S]
  BY DEF SumFunctionOnSet, FoldFunctionOnSet, MapThenFoldSet, SumsUp, Some
<1> QED
  BY <1>1, <1>2

\* The values of such a function.
LEMMA SumsUpAt ==
    ASSUME NEW v, NEW S, NEW f, SumsUp(f, v, S), NEW s \in SUBSET S
    PROVE  f[s] = IF s = {} THEN 0 ELSE v[Some(s)] + f[s \ {Some(s)}]
  BY DEF SumsUp

\* There is only one, whatever the set it is restricted to.
LEMMA SumsUpOnce ==
    ASSUME NEW v, NEW S, IsFiniteSet(S), NEW f, SumsUp(f, v, S),
           NEW T \in SUBSET S, NEW g, SumsUp(g, v, T)
    PROVE  \A s \in SUBSET T : f[s] = g[s]
<1> DEFINE P == {s \in SUBSET T : f[s] = g[s]}
<1>1. IsFiniteSet(T)
  BY FS_Subset
<1>2. ASSUME NEW s \in SUBSET T, \A u \in SUBSET s : u # s => u \in P
      PROVE  s \in P
  <2>1. CASE s = {}
    <3>1. f[s] = 0
      BY <2>1, SumsUpAt
    <3>2. g[s] = 0
      BY <2>1, SumsUpAt
    <3> QED
      BY <3>1, <3>2
  <2>2. CASE s # {}
    <3>1. PICK u \in SUBSET s : u = s \ {Some(s)} /\ u # s
      BY <2>2, SmallerSet
    <3>2. f[u] = g[u]
      BY <1>2, <3>1
    <3>3. f[s] = v[Some(s)] + f[u]
      BY <2>2, <3>1, SumsUpAt
    <3>4. g[s] = v[Some(s)] + g[u]
      BY <2>2, <3>1, SumsUpAt
    <3> QED
      BY <3>2, <3>3, <3>4
  <2> QED
    BY <2>1, <2>2
<1>3. \A s \in SUBSET T : s \in P
  <2> HIDE DEF P
  <2> QED
    BY <1>1, <1>2, SubsetInduction
<1> QED
  BY <1>3

\* There is one.
LEMMA SumsUpExists ==
    ASSUME NEW v, NEW S, IsFiniteSet(S)
    PROVE  \E f : SumsUp(f, v, S)
<1> DEFINE P == {T \in SUBSET S : \E f : SumsUp(f, v, T)}
           Sum(s) == SumFunctionOnSet(v, s)
<1>1. ASSUME NEW T \in SUBSET S, \A U \in SUBSET T : U # T => U \in P
      PROVE  T \in P
  <2> DEFINE g == [s \in SUBSET T |->
                      IF s = {} THEN 0 ELSE v[Some(s)] + Sum(s \ {Some(s)})]
  <2>1. ASSUME NEW u \in SUBSET T, u # T
        PROVE  Sum(u) = g[u]
    <3>1. PICK f : SumsUp(f, v, u) /\ Sum(u) = f[u]
      BY <1>1, <2>1, SumIsValue
    <3>2. CASE u = {}
      BY <3>1, <3>2, SumsUpAt
    <3>3. CASE u # {}
      <4>1. PICK w \in SUBSET u : w = u \ {Some(u)} /\ w # u
        BY <3>3, SmallerSet
      <4>2. w \in SUBSET T /\ w # T
        BY <4>1
      <4>3. PICK h : SumsUp(h, v, w) /\ Sum(w) = h[w]
        BY <1>1, <4>2, SumIsValue
      <4>4. IsFiniteSet(u)
        BY FS_Subset
      <4>5. f[w] = h[w]
        BY <3>1, <4>3, <4>4, SumsUpOnce
      <4>6. f[u] = v[Some(u)] + f[w]
        BY <3>1, <3>3, <4>1, SumsUpAt
      <4>7. g[u] = v[Some(u)] + Sum(w)
        BY <3>3, <4>1
      <4> QED
        BY <3>1, <4>3, <4>5, <4>6, <4>7
    <3> QED
      BY <3>2, <3>3
  <2>2. ASSUME NEW s \in SUBSET T
        PROVE  g[s] = IF s = {} THEN 0 ELSE v[Some(s)] + g[s \ {Some(s)}]
    <3>1. CASE s = {}
      BY <3>1
    <3>2. CASE s # {}
      <4>1. PICK u \in SUBSET s : u = s \ {Some(s)} /\ u # s
        BY <3>2, SmallerSet
      <4>2. u \in SUBSET T /\ u # T
        BY <4>1
      <4>3. Sum(u) = g[u]
        BY <2>1, <4>2
      <4>4. g[s] = v[Some(s)] + Sum(u)
        BY <3>2, <4>1
      <4> HIDE DEF g, Sum
      <4> QED
        BY <3>2, <4>1, <4>3, <4>4
    <3> QED
      BY <3>1, <3>2
  <2>3. g = [s \in SUBSET T |-> g[s]]
    OBVIOUS
  <2> HIDE DEF g
  <2>4. SumsUp(g, v, T)
    BY <2>2, <2>3 DEF SumsUp
  <2> QED
    BY <2>4
<1>2. S \in P
  <2>1. \A T \in SUBSET S : T \in P
    <3> HIDE DEF P
    <3> QED
      BY <1>1, SubsetInduction
  <2> QED
    BY <2>1
<1> QED
  BY <1>2

\* The sum over a finite set: zero, or an element and the sum over the others.
LEMMA SumUnfolds ==
    ASSUME NEW v, NEW S, IsFiniteSet(S)
    PROVE  SumFunctionOnSet(v, S) =
              IF S = {} THEN 0
              ELSE v[Some(S)] + SumFunctionOnSet(v, S \ {Some(S)})
<1>1. PICK f : SumsUp(f, v, S) /\ SumFunctionOnSet(v, S) = f[S]
  BY SumsUpExists, SumIsValue
<1>2. CASE S = {}
  BY <1>1, <1>2, SumsUpAt
<1>3. CASE S # {}
  <2>1. PICK u \in SUBSET S : u = S \ {Some(S)} /\ IsFiniteSet(u)
    BY <1>3, SmallerSet, FS_Subset
  <2>2. PICK g : SumsUp(g, v, u) /\ SumFunctionOnSet(v, u) = g[u]
    BY <2>1, SumsUpExists, SumIsValue
  <2>3. f[u] = g[u]
    BY <1>1, <2>1, <2>2, SumsUpOnce
  <2>4. f[S] = v[Some(S)] + f[u]
    BY <1>1, <1>3, <2>1, SumsUpAt
  <2> QED
    BY <1>1, <1>3, <2>1, <2>2, <2>3, <2>4
<1> QED
  BY <1>2, <1>3

\* A sum of integers is one, and depends on nothing but its summands.
LEMMA SumSame ==
    ASSUME NEW S, IsFiniteSet(S), NEW v, NEW w,
           \A x \in S : v[x] \in Int /\ w[x] = v[x]
    PROVE  SumFunctionOnSet(v, S) \in Int
           /\ SumFunctionOnSet(w, S) = SumFunctionOnSet(v, S)
<1> DEFINE Good(s) == SumFunctionOnSet(v, s) \in Int
                      /\ SumFunctionOnSet(w, s) = SumFunctionOnSet(v, s)
           P == {s \in SUBSET S : Good(s)}
<1>1. ASSUME NEW s \in SUBSET S, \A u \in SUBSET s : u # s => u \in P
      PROVE  s \in P
  <2>0. IsFiniteSet(s)
    BY FS_Subset
  <2>1. CASE s = {}
    <3>1. SumFunctionOnSet(v, s) = 0
      BY <2>0, <2>1, SumUnfolds
    <3>2. SumFunctionOnSet(w, s) = 0
      BY <2>0, <2>1, SumUnfolds
    <3> QED
      BY <3>1, <3>2
  <2>2. CASE s # {}
    <3>1. PICK u \in SUBSET s : u = s \ {Some(s)} /\ u # s
      BY <2>2, SmallerSet
    <3>2. Good(u)
      BY <1>1, <3>1
    <3>3. v[Some(s)] \in Int /\ w[Some(s)] = v[Some(s)]
      BY <2>2, SomeIsIn
    <3>4. /\ SumFunctionOnSet(v, s) = v[Some(s)] + SumFunctionOnSet(v, u)
          /\ SumFunctionOnSet(w, s) = w[Some(s)] + SumFunctionOnSet(w, u)
      BY <2>0, <2>2, <3>1, SumUnfolds
    <3> QED
      BY <3>2, <3>3, <3>4
  <2> QED
    BY <2>1, <2>2
<1>2. S \in P
  <2>1. \A s \in SUBSET S : s \in P
    <3> HIDE DEF P
    <3> QED
      BY <1>1, SubsetInduction
  <2> QED
    BY <2>1
<1> QED
  BY <1>2

\* A set without one of its elements.
LEMMA Without ==
    ASSUME NEW s, NEW a \in s
    PROVE  \E u : u \subseteq s /\ u = s \ {a} /\ u # s
<1>1. PICK u : u = s \ {a}
  OBVIOUS
<1>2. u \subseteq s /\ u # s
  BY <1>1
<1> QED
  BY <1>1, <1>2

\* Any element can be taken out of a sum.
LEMMA SumTakeOut ==
    ASSUME NEW S, IsFiniteSet(S), NEW v, \A x \in S : v[x] \in Int, NEW a \in S
    PROVE  SumFunctionOnSet(v, S) = v[a] + SumFunctionOnSet(v, S \ {a})
<1> DEFINE Good(s) == \A b \in s : SumFunctionOnSet(v, s) =
                                      v[b] + SumFunctionOnSet(v, s \ {b})
           P == {s \in SUBSET S : Good(s)}
<1>1. ASSUME NEW s \in SUBSET S, \A u \in SUBSET s : u # s => u \in P
      PROVE  s \in P
  <2> SUFFICES ASSUME NEW b \in s
               PROVE  SumFunctionOnSet(v, s) = v[b] + SumFunctionOnSet(v, s \ {b})
    OBVIOUS
  <2>1. PICK c \in s : c = Some(s)
    BY SomeIsIn
  <2>2. SumFunctionOnSet(v, s) = v[c] + SumFunctionOnSet(v, s \ {c})
    BY <2>1, FS_Subset, SumUnfolds
  <2>3. CASE b = c
    BY <2>2, <2>3
  <2>4. CASE b # c
    <3>1. PICK u : u \subseteq s /\ u = s \ {c} /\ u # s
      BY ONLY c \in s, Without
    <3>2. PICK w : w \subseteq s /\ w = s \ {b} /\ w # s
      BY ONLY b \in s, Without
    <3>3. PICK z : z \subseteq u /\ z = u \ {b} /\ z = w \ {c}
      <4>1. b \in u /\ u \ {b} = w \ {c}
        BY <2>4, <3>1, <3>2
      <4> QED
        BY <4>1, Without
    <3>4. SumFunctionOnSet(v, u) = v[b] + SumFunctionOnSet(v, z)
      BY <1>1, <2>4, <3>1, <3>3
    <3>5. SumFunctionOnSet(v, w) = v[c] + SumFunctionOnSet(v, z)
      BY <1>1, <2>4, <3>2, <3>3
    <3>6. SumFunctionOnSet(v, z) \in Int
      <4>1. z \subseteq S
        BY <3>1, <3>3
      <4>2. IsFiniteSet(z) /\ \A x \in z : v[x] \in Int /\ v[x] = v[x]
        BY <4>1, FS_Subset
      <4> QED
        BY ONLY <4>2, SumSame
    <3>7. v[b] \in Int /\ v[c] \in Int
      OBVIOUS
    <3>8. SumFunctionOnSet(v, s) = v[c] + SumFunctionOnSet(v, u)
      BY <2>2, <3>1
    <3> QED
      BY ONLY <3>2, <3>4, <3>5, <3>6, <3>7, <3>8
  <2> QED
    BY <2>3, <2>4
<1>2. \A s \in SUBSET S : s \in P
  <2> HIDE DEF P
  <2> QED
    BY <1>1, SubsetInduction
<1> QED
  BY <1>2

\* When one summand changes, the sum changes by as much.
LEMMA SumPoint ==
    ASSUME NEW S, IsFiniteSet(S), NEW v, NEW w, NEW a \in S, w[a] \in Int,
           \A x \in S : v[x] \in Int, \A x \in S \ {a} : w[x] = v[x]
    PROVE  SumFunctionOnSet(w, S) = SumFunctionOnSet(v, S) + (w[a] - v[a])
<1>1. PICK u : u \subseteq S /\ u = S \ {a} /\ IsFiniteSet(u)
  BY Without, FS_Subset
<1>2. SumFunctionOnSet(v, S) = v[a] + SumFunctionOnSet(v, u)
  BY <1>1, SumTakeOut
<1>3. \A x \in S : w[x] \in Int
  OBVIOUS
<1>4. SumFunctionOnSet(w, S) = w[a] + SumFunctionOnSet(w, u)
  BY <1>1, <1>3, SumTakeOut
<1>5. SumFunctionOnSet(w, u) = SumFunctionOnSet(v, u) /\ SumFunctionOnSet(v, u) \in Int
  BY <1>1, SumSame
<1>6. v[a] \in Int /\ w[a] \in Int
  OBVIOUS
<1> QED
  BY ONLY <1>2, <1>4, <1>5, <1>6

\* A sum of natural numbers is one, and grows with its summands.
LEMMA SumGrows ==
    ASSUME NEW S, IsFiniteSet(S), NEW v, NEW w,
           \A x \in S : v[x] \in Nat /\ w[x] \in Nat /\ v[x] <= w[x]
    PROVE  /\ SumFunctionOnSet(v, S) \in Nat /\ SumFunctionOnSet(w, S) \in Nat
           /\ SumFunctionOnSet(v, S) <= SumFunctionOnSet(w, S)
<1> DEFINE Good(s) == /\ SumFunctionOnSet(v, s) \in Nat
                      /\ SumFunctionOnSet(w, s) \in Nat
                      /\ SumFunctionOnSet(v, s) <= SumFunctionOnSet(w, s)
           P == {s \in SUBSET S : Good(s)}
<1>1. ASSUME NEW s \in SUBSET S, \A u \in SUBSET s : u # s => u \in P
      PROVE  s \in P
  <2>0. IsFiniteSet(s)
    BY FS_Subset
  <2>1. CASE s = {}
    <3>1. SumFunctionOnSet(v, s) = 0
      BY <2>0, <2>1, SumUnfolds
    <3>2. SumFunctionOnSet(w, s) = 0
      BY <2>0, <2>1, SumUnfolds
    <3> QED
      BY <3>1, <3>2
  <2>2. CASE s # {}
    <3>1. PICK u \in SUBSET s : u = s \ {Some(s)} /\ u # s
      BY <2>2, SmallerSet
    <3>2. Good(u)
      BY <1>1, <3>1
    <3>3. v[Some(s)] \in Nat /\ w[Some(s)] \in Nat /\ v[Some(s)] <= w[Some(s)]
      BY <2>2, SomeIsIn
    <3>4. /\ SumFunctionOnSet(v, s) = v[Some(s)] + SumFunctionOnSet(v, u)
          /\ SumFunctionOnSet(w, s) = w[Some(s)] + SumFunctionOnSet(w, u)
      BY <2>0, <2>2, <3>1, SumUnfolds
    <3> QED
      BY <3>2, <3>3, <3>4
  <2> QED
    BY <2>1, <2>2
<1>2. \A s \in SUBSET S : s \in P
  <2> HIDE DEF P
  <2> QED
    BY <1>1, SubsetInduction
<1> QED
  BY <1>2

\* A sum over a part is no more than the whole, and the whole if the rest is zero.
LEMMA SumPart ==
    ASSUME NEW T, IsFiniteSet(T), NEW S \in SUBSET T, NEW v, \A x \in T : v[x] \in Nat
    PROVE  /\ SumFunctionOnSet(v, S) <= SumFunctionOnSet(v, T)
           /\ (\A x \in T \ S : v[x] = 0) =>
                 SumFunctionOnSet(v, S) = SumFunctionOnSet(v, T)
<1> DEFINE Good(s) == /\ SumFunctionOnSet(v, s \cap S) <= SumFunctionOnSet(v, s)
                      /\ (\A x \in T \ S : v[x] = 0) =>
                            SumFunctionOnSet(v, s \cap S) = SumFunctionOnSet(v, s)
           P == {s \in SUBSET T : Good(s)}
<1>0. \A s \in SUBSET T : IsFiniteSet(s) /\ SumFunctionOnSet(v, s) \in Nat
  <2>1. \A s \in SUBSET T : IsFiniteSet(s)
    BY FS_Subset
  <2>2. ASSUME NEW s \in SUBSET T PROVE SumFunctionOnSet(v, s) \in Nat
    <3>1. IsFiniteSet(s) /\ \A x \in s : v[x] \in Nat /\ v[x] <= v[x]
      BY <2>1
    <3> QED
      BY ONLY <3>1, SumGrows
  <2> QED
    BY <2>1, <2>2
<1>1. ASSUME NEW s \in SUBSET T, \A u \in SUBSET s : u # s => u \in P
      PROVE  s \in P
  <2>1. CASE s = {}
    <3>1. s \cap S = s
      BY <2>1
    <3>2. SumFunctionOnSet(v, s) \in Nat
      BY <1>0
    <3> QED
      BY <3>1, <3>2
  <2>2. CASE s # {}
    <3>1. PICK a \in s : TRUE
      BY <2>2
    <3>2. PICK u : u \subseteq s /\ u = s \ {a} /\ u # s
      BY ONLY a \in s, Without
    <3>3. Good(u)
      BY <1>1, <3>2
    <3>4. \A r \in SUBSET T : \A b \in r :
             SumFunctionOnSet(v, r) = v[b] + SumFunctionOnSet(v, r \ {b})
      <4>1. ASSUME NEW r \in SUBSET T, NEW b \in r
            PROVE  SumFunctionOnSet(v, r) = v[b] + SumFunctionOnSet(v, r \ {b})
        <5>1. IsFiniteSet(r) /\ \A x \in r : v[x] \in Int
          BY <1>0
        <5> QED
          BY ONLY <4>1, <5>1, SumTakeOut
      <4> QED
        BY <4>1
    <3>5. SumFunctionOnSet(v, s) = v[a] + SumFunctionOnSet(v, u)
      BY <3>2, <3>4
    <3>6. v[a] \in Nat /\ SumFunctionOnSet(v, u) \in Nat
      BY <1>0, <3>2
    <3>7. PICK r \in SUBSET T, q \in SUBSET T : r = s \cap S /\ q = u \cap S
      OBVIOUS
    <3>8. SumFunctionOnSet(v, q) \in Nat
      BY <1>0
    <3>9. CASE a \in S
      <4>1. a \in r /\ q = r \ {a}
        BY <3>2, <3>7, <3>9
      <4>2. SumFunctionOnSet(v, r) = v[a] + SumFunctionOnSet(v, q)
        BY <3>4, <4>1
      <4>3. /\ SumFunctionOnSet(v, q) <= SumFunctionOnSet(v, u)
            /\ (\A x \in T \ S : v[x] = 0) =>
                  SumFunctionOnSet(v, q) = SumFunctionOnSet(v, u)
        BY <3>3, <3>7
      <4>4. /\ SumFunctionOnSet(v, r) <= SumFunctionOnSet(v, s)
            /\ (\A x \in T \ S : v[x] = 0) =>
                  SumFunctionOnSet(v, r) = SumFunctionOnSet(v, s)
        BY ONLY <3>5, <3>6, <3>8, <4>2, <4>3
      <4> QED
        BY <3>7, <4>4
    <3>10. CASE a \notin S
      <4>1. q = r /\ a \in T \ S
        BY <3>2, <3>7, <3>10
      <4>2. /\ SumFunctionOnSet(v, r) <= SumFunctionOnSet(v, u)
            /\ (\A x \in T \ S : v[x] = 0) =>
                  SumFunctionOnSet(v, r) = SumFunctionOnSet(v, u)
        BY <3>3, <3>7, <4>1
      <4>3. (\A x \in T \ S : v[x] = 0) => v[a] = 0
        BY <4>1
      <4>4. /\ SumFunctionOnSet(v, r) <= SumFunctionOnSet(v, s)
            /\ (\A x \in T \ S : v[x] = 0) =>
                  SumFunctionOnSet(v, r) = SumFunctionOnSet(v, s)
        BY ONLY <3>5, <3>6, <3>8, <4>1, <4>2, <4>3
      <4> QED
        BY <3>7, <4>4
    <3> QED
      BY <3>9, <3>10
  <2> QED
    BY <2>1, <2>2
<1>2. T \in P
  <2>1. \A s \in SUBSET T : s \in P
    <3> HIDE DEF P
    <3> QED
      BY <1>1, SubsetInduction
  <2> QED
    BY <2>1
<1>3. T \cap S = S
  OBVIOUS
<1> QED
  BY <1>2, <1>3

--------------------------------------------------------------------------------
(* The bytes of a set of times, and the items of a store.                  *)

\* The constants as numbers.
LEMMA Numbers ==
    /\ Life \in Nat /\ MaxTime \in Nat /\ MaxLate \in Nat /\ FlushInterval \in Nat
    /\ FlushInterval > 0 /\ Horizon = MaxTime + Life /\ Horizon \in Nat
    /\ Time = 0 .. Horizon
<1>1. Life \in Nat
  BY IntervalAssumption DEF Life
<1>2. MaxTime \in Nat /\ MaxLate \in Nat /\ FlushInterval \in Nat /\ FlushInterval > 0
  BY IntervalAssumption, BytesAssumption
<1>3. Time = 0 .. Horizon
  BY DEF Time, Horizon, Life
<1> QED
  BY <1>1, <1>2, <1>3 DEF Horizon

\* There are finitely many times.
LEMMA InstantsFinite == IsFiniteSet(Instants) /\ \A S \in SUBSET Instants : IsFiniteSet(S)
<1>1. IsFiniteSet(Instants)
  BY Numbers, FS_Interval DEF Instants
<1> QED
  BY <1>1, FS_Subset

\* A number of bytes is natural, and a part of the times has a part of them.
LEMMA BytesPart ==
    ASSUME added \in [Instants -> Nat],
           NEW T \in SUBSET Instants, NEW S \in SUBSET T
    PROVE  /\ BytesIn(S) \in Nat /\ BytesIn(T) \in Nat
           /\ BytesIn(S) <= BytesIn(T)
           /\ (\A u \in T \ S : added[u] = 0) => BytesIn(S) = BytesIn(T)
<1>1. IsFiniteSet(S) /\ IsFiniteSet(T)
  BY InstantsFinite
<1>2. \A u \in T : added[u] \in Nat /\ added[u] <= added[u]
  OBVIOUS
<1>3. BytesIn(S) \in Nat
  BY <1>1, <1>2, SumGrows DEF BytesIn
<1>4. BytesIn(T) \in Nat
  BY <1>1, <1>2, SumGrows DEF BytesIn
<1>5. /\ BytesIn(S) <= BytesIn(T)
      /\ (\A u \in T \ S : added[u] = 0) => BytesIn(S) = BytesIn(T)
  BY <1>1, <1>2, SumPart DEF BytesIn
<1> QED
  BY <1>3, <1>4, <1>5

\* What Increment adds.
LEMMA BytesMove ==
    ASSUME added \in [Instants -> Nat], now \in Instants, NEW d \in Nat,
           added' = [added EXCEPT ![now] = @ + d], NEW S \in SUBSET Instants
    PROVE  /\ added' \in [Instants -> Nat]
           /\ BytesIn(S)' = BytesIn(S) + (IF now \in S THEN d ELSE 0)
<1>1. added' \in [Instants -> Nat]
  OBVIOUS
<1>2. PICK f, g, a : f = added /\ g = added' /\ a = now
  OBVIOUS
<1>3. IsFiniteSet(S) /\ \A u \in S : f[u] \in Int
  BY <1>2, InstantsFinite
<1>4. BytesIn(S) = SumFunctionOnSet(f, S) /\ BytesIn(S)' = SumFunctionOnSet(g, S)
  BY <1>2 DEF BytesIn
<1>5. SumFunctionOnSet(f, S) \in Int
  <2>1. \A u \in S : f[u] \in Int /\ f[u] = f[u]
    BY <1>3
  <2> QED
    BY ONLY <1>3, <2>1, SumSame
<1>6. CASE now \in S
  <2>1. a \in S /\ f[a] \in Int /\ g[a] = f[a] + d /\ \A u \in S \ {a} : g[u] = f[u]
    BY <1>2, <1>6
  <2>2. g[a] \in Int
    BY <2>1
  <2>3. SumFunctionOnSet(g, S) = SumFunctionOnSet(f, S) + (g[a] - f[a])
    BY ONLY <1>3, <2>1, <2>2, SumPoint
  <2> QED
    BY <1>1, <1>4, <1>5, <1>6, <2>1, <2>3
<1>7. CASE now \notin S
  <2>1. \A u \in S : f[u] \in Int /\ g[u] = f[u]
    BY <1>2, <1>7
  <2>2. SumFunctionOnSet(g, S) = SumFunctionOnSet(f, S)
    BY ONLY <1>3, <2>1, SumSame
  <2> QED
    BY <1>1, <1>4, <1>5, <1>7, <2>2
<1> QED
  BY <1>6, <1>7

\* The bytes since a time.
LEMMA FromParts ==
    ASSUME added \in [Instants -> Nat], now \in Instants, NEW t \in Int
    PROVE  /\ Since(t) \in SUBSET Instants /\ From(t) \in Nat
           /\ NotYet /\ t > now => From(t) = 0
<1>1. Since(t) \in SUBSET Instants
  BY DEF Since
<1>2. From(t) \in Nat
  BY <1>1, BytesPart DEF From
<1>3. ASSUME NotYet, t > now PROVE From(t) = 0
  <2>1. \A u \in Since(t) : u > now
    BY <1>3, Numbers DEF Since, Instants
  <2>2. \A u \in Since(t) \ {} : added[u] = 0
    BY <1>1, <1>3, <2>1 DEF NotYet
  <2>3. BytesIn({}) = 0
    BY FS_EmptySet, SumUnfolds DEF BytesIn
  <2> QED
    BY <1>1, <2>2, <2>3, BytesPart DEF From
<1> QED
  BY <1>1, <1>2, <1>3

\* The states of a store.
IsStore(st) == DOMAIN st \subseteq Instants /\ \A k \in DOMAIN st : st[k] \in Item

\* An item has a value and a time.
LEMMA ItemParts ==
    ASSUME NEW i \in Item
    PROVE  i.value \in Nat /\ i.ttl \in Nat /\ i.ttl <= Horizon
  BY Numbers DEF Item

\* What the items of a store add up to.
LEMMA StoredParts ==
    ASSUME NEW st, IsStore(st), NEW e \in Int
    PROVE  /\ \A k \in Instants : ValueBy(st, e)[k] \in Nat
           /\ StoredBy(st, e) \in Nat
           /\ (\A k \in DOMAIN st : st[k].ttl > e \/ st[k].value = 0) =>
                 StoredBy(st, e) = 0
<1>1. ASSUME NEW k \in Instants PROVE ValueBy(st, e)[k] \in Nat
  <2>1. k \in DOMAIN st => st[k].value \in Nat
    BY ItemParts DEF IsStore
  <2> QED
    BY <2>1 DEF ValueBy
<1>2. PICK v : v = ValueBy(st, e)
  OBVIOUS
<1>3. StoredBy(st, e) = SumFunctionOnSet(v, Instants)
  BY <1>2 DEF StoredBy
<1>4. \A k \in Instants : v[k] \in Nat /\ v[k] <= v[k]
  BY <1>1, <1>2
<1>5. SumFunctionOnSet(v, Instants) \in Nat
  BY ONLY <1>4, InstantsFinite, SumGrows
<1>6. ASSUME \A k \in DOMAIN st : st[k].ttl > e \/ st[k].value = 0
      PROVE  StoredBy(st, e) = 0
  <2>0. \A k \in DOMAIN st : st[k].ttl \in Int
    BY ItemParts DEF IsStore
  <2>1. \A k \in DOMAIN st : ~(st[k].ttl <= e) \/ st[k].value = 0
    BY <1>6, <2>0
  <2>2. \A k \in Instants \ {} : v[k] = 0
    BY <1>2, <2>1 DEF ValueBy
  <2>3. SumFunctionOnSet(v, {}) = 0
    BY FS_EmptySet, SumUnfolds
  <2>4. {} \in SUBSET Instants
    OBVIOUS
  <2>5. SumFunctionOnSet(v, {}) = SumFunctionOnSet(v, Instants)
    BY ONLY <1>4, <2>2, <2>4, InstantsFinite, SumPart
  <2> QED
    BY <1>3, <2>3, <2>5
<1> QED
  BY <1>1, <1>3, <1>5, <1>6

\* Of a later time it is more, but no more than all items have.
LEMMA StoredGrows ==
    ASSUME NEW st, IsStore(st), NEW e \in Int, NEW f \in Int
    PROVE  /\ e <= f => StoredBy(st, e) <= StoredBy(st, f)
           /\ (\A k \in DOMAIN st : st[k].ttl <= e /\ st[k].ttl <= f) =>
                 StoredBy(st, e) = StoredBy(st, f)
<1>0. \A k \in DOMAIN st : st[k].ttl \in Int /\ st[k].value \in Nat
  BY ItemParts DEF IsStore
<1>1. PICK v, w : v = ValueBy(st, e) /\ w = ValueBy(st, f)
  OBVIOUS
<1>2. /\ StoredBy(st, e) = SumFunctionOnSet(v, Instants)
      /\ StoredBy(st, f) = SumFunctionOnSet(w, Instants)
  BY <1>1 DEF StoredBy
<1>3. \A k \in Instants : v[k] \in Nat /\ w[k] \in Nat
  BY <1>1, StoredParts
<1>4. ASSUME e <= f PROVE SumFunctionOnSet(v, Instants) <= SumFunctionOnSet(w, Instants)
  <2>1. ASSUME NEW k \in Instants PROVE v[k] <= w[k]
    BY <1>0, <1>1, <1>4 DEF ValueBy
  <2>2. \A k \in Instants : v[k] \in Nat /\ w[k] \in Nat /\ v[k] <= w[k]
    BY <1>3, <2>1
  <2> QED
    BY ONLY <2>2, InstantsFinite, SumGrows
<1>5. ASSUME \A k \in DOMAIN st : st[k].ttl <= e /\ st[k].ttl <= f
      PROVE  v = w
  BY <1>1, <1>5 DEF ValueBy
<1> QED
  BY <1>2, <1>4, <1>5

\* When one item changes, comes or goes, the sum changes by as much.
LEMMA StoredMoves ==
    ASSUME NEW st, IsStore(st), NEW su, IsStore(su), NEW k \in Instants, NEW e \in Int,
           \A j \in Instants \ {k} :
              (j \in DOMAIN su <=> j \in DOMAIN st) /\ (j \in DOMAIN st => su[j] = st[j])
    PROVE  StoredBy(su, e) =
              StoredBy(st, e) + (ValueBy(su, e)[k] - ValueBy(st, e)[k])
<1>1. PICK v, w : v = ValueBy(st, e) /\ w = ValueBy(su, e)
  OBVIOUS
<1>2. /\ StoredBy(st, e) = SumFunctionOnSet(v, Instants)
      /\ StoredBy(su, e) = SumFunctionOnSet(w, Instants)
  BY <1>1 DEF StoredBy
<1>3. \A j \in Instants : v[j] \in Nat /\ w[j] \in Nat
  BY <1>1, StoredParts
<1>4. \A j \in Instants \ {k} : w[j] = v[j]
  BY <1>1 DEF ValueBy
<1>5. w[k] \in Int /\ \A j \in Instants : v[j] \in Int
  BY <1>3
<1>6. SumFunctionOnSet(w, Instants) = SumFunctionOnSet(v, Instants) + (w[k] - v[k])
  BY ONLY <1>4, <1>5, k \in Instants, InstantsFinite, SumPoint
<1> QED
  BY <1>1, <1>2, <1>6

--------------------------------------------------------------------------------
(* The types, the clock and the item of a tick.                            *)

\* Integer division.
LEMMA Quotient ==
    ASSUME NEW n \in Nat \ {0}
    PROVE  /\ \A t \in Nat : t \div n \in Nat /\ t \div n <= t
           /\ \A a, b \in Int : a <= b => a \div n <= b \div n
           /\ \A t, q \in Nat : q * n <= t /\ t < (q + 1) * n => t \div n = q
<1>1. \A t \in Nat : t \div n \in Nat /\ t \div n <= t
  BY Z3
<1>2. \A a, b \in Int : a <= b => a \div n <= b \div n
  BY Z3
<1>3. \A t, q \in Nat : q * n <= t /\ t < (q + 1) * n => t \div n = q
  BY Z3
<1> QED
  BY <1>1, <1>2, <1>3

\* The key of a time.
LEMMA KeyIn == \A t \in Instants : KeyAt(t) \in Instants /\ KeyAt(t) \in Nat
  BY IntervalAssumption, Numbers, Quotient DEF KeyAt, Instants

\* The item that updateCurrentKey and New store.
LEMMA FreshIn ==
    ASSUME now \in Instants
    PROVE  FreshItem \in Item /\ FreshItem.value = 0 /\ FreshItem.ttl = now + Life
<1>1. FreshItem = [value |-> 0, ttl |-> now + Life]
  BY DEF FreshItem, Life
<1>2. now + Life \in Time
  BY Numbers DEF Instants
<1> QED
  BY <1>1, <1>2 DEF Item

\* What Store.Set does.
LEMMA SetParts ==
    ASSUME NEW k, NEW i
    PROVE  /\ DOMAIN StoreSet(k, i) = DOMAIN Store \cup {k}
           /\ StoreSet(k, i)[k] = i
           /\ \A j \in DOMAIN Store \ {k} : StoreSet(k, i)[j] = Store[j]
           /\ i \in Item /\ (\A j \in DOMAIN Store : Store[j] \in Item) =>
                 \A j \in DOMAIN StoreSet(k, i) : StoreSet(k, i)[j] \in Item
<1>1. /\ DOMAIN StoreSet(k, i) = DOMAIN Store \cup {k}
      /\ StoreSet(k, i)[k] = i
      /\ \A j \in DOMAIN Store \ {k} : StoreSet(k, i)[j] = Store[j]
  BY DEF StoreSet
<1> QED
  BY ONLY <1>1

\* Types hold initially.
LEMMA InitTypes == Init => Types
<1> SUFFICES ASSUME Init PROVE Types
  OBVIOUS
<1>1. now \in Instants /\ now \in Nat /\ 0 \in 0 .. MaxTime
  BY BytesAssumption, Numbers DEF Init, Instants
<1>2. KeyAt(now) \in Instants /\ KeyAt(now) \in Nat
  BY <1>1, KeyIn
<1>3. FreshItem \in Item /\ NoItem \in Item
  BY <1>1, FreshIn, Numbers DEF NoItem, Item
<1>4. /\ DOMAIN Store = {KeyAt(now)} /\ currentKey = KeyAt(now)
      /\ \A k \in DOMAIN Store : Store[k] \in Item
  BY <1>3 DEF Init
<1>5. due \in Nat
  BY <1>1, Numbers DEF Init
<1>6. over \in BOOLEAN
  BY DEF Init
<1>7. added \in [0 .. MaxTime -> Nat]
  BY DEF Init
<1>8. /\ tick = NoTick /\ handled = NoTick /\ total = 0 /\ currentCount = 0
      /\ ticker = "idle" /\ visit = {} /\ flushCount = 0 /\ currentStored = NoItem
      /\ check = "idle" /\ length = 0 /\ loaded = 0 /\ since = 0
  BY DEF Init
<1> QED
  BY <1>1, <1>2, <1>3, <1>4, <1>5, <1>6, <1>7, <1>8 DEF Types, TypeOK, Instants

\* Every step keeps the types.
LEMMA TypesKept ==
    ASSUME Types, [Next]_vars PROVE Types'
<1> USE DEF Types, TypeOK, clockVars, flushVars, checkVars
<1>0. now \in Instants /\ NoTick \notin Nat
  BY Numbers DEF Instants, NoTick
<1>1. CASE UNCHANGED vars
  BY <1>1 DEF vars
<1>2. CASE Pass
  BY <1>2, Numbers DEF Pass
<1>3. CASE ReceiveTick
  BY <1>3 DEF ReceiveTick
<1>4. CASE updateCurrentKey
  <2>1. KeyAt(now) \in Instants /\ KeyAt(now) \in Nat
    BY <1>0, KeyIn
  <2>2. FreshItem \in Item
    BY <1>0, FreshIn
  <2>3. /\ DOMAIN Store' = DOMAIN Store \cup {KeyAt(now)}
        /\ \A k \in DOMAIN Store' : Store'[k] \in Item
    <3>1. Store' = StoreSet(KeyAt(now), FreshItem)
      BY <1>4 DEF updateCurrentKey
    <3>2. \A k \in DOMAIN Store : Store[k] \in Item
      OBVIOUS
    <3> QED
      BY ONLY <2>2, <3>1, <3>2, SetParts
  <2> QED
    BY <1>4, <2>1, <2>3 DEF updateCurrentKey
<1>5. CASE PurgeBegins \/ PurgeEnds
  BY <1>5 DEF PurgeBegins, PurgeEnds
<1>6. ASSUME NEW k \in visit, KeepKey(k) PROVE Types'
  BY <1>6 DEF KeepKey
<1>7. ASSUME NEW k \in visit, PurgeKey(k) PROVE Types'
  <2>1. /\ DOMAIN Store' = DOMAIN Store \ {k}
        /\ \A j \in DOMAIN Store' : Store'[j] = Store[j]
    BY <1>7 DEF PurgeKey
  <2>2. k # currentKey /\ Store[k].value \in Nat
    BY <1>7, ItemParts DEF PurgeKey, MustKeep
  <2>3. total' \in Int /\ visit' \subseteq DOMAIN Store'
    BY <1>7, <2>1, <2>2 DEF PurgeKey
  <2> QED
    BY <1>7, <2>1, <2>2, <2>3 DEF PurgeKey
<1>8. CASE FlushSwap
  BY <1>8 DEF FlushSwap
<1>9. CASE FlushGet
  <2>1. currentStored' \in Item
    <3>1. PICK i : i = Store[currentKey]
      OBVIOUS
    <3>2. i \in Item /\ flushCount \in Nat
      BY <3>1
    <3>3. currentStored' = [i EXCEPT !.value = @ + flushCount]
      BY <1>9, <3>1 DEF FlushGet
    <3> QED
      BY ONLY <3>2, <3>3 DEF Item
  <2> QED
    BY <1>9, <2>1 DEF FlushGet
<1>10. CASE FlushSet
  <2>1. /\ DOMAIN Store' = DOMAIN Store \cup {currentKey}
        /\ \A k \in DOMAIN Store' : Store'[k] \in Item
    <3>1. Store' = StoreSet(currentKey, currentStored)
      BY <1>10 DEF FlushSet
    <3>2. currentStored \in Item /\ \A k \in DOMAIN Store : Store[k] \in Item
      OBVIOUS
    <3> QED
      BY ONLY <3>1, <3>2, SetParts
  <2> QED
    BY <1>10, <2>1 DEF FlushSet
<1>11. CASE FlushAdd
  <2>1. NoItem \in Item
    BY Numbers DEF NoItem, Item
  <2>2. total' \in Int
    BY <1>11, ItemParts DEF FlushAdd
  <2> QED
    BY <1>11, <2>1, <2>2 DEF FlushAdd
<1>12. CASE LoadLen
  <2>1. Cardinality(DOMAIN Store) \in Nat
    BY InstantsFinite, FS_CardinalityType
  <2>2. length' \in Nat /\ length' # 0
    BY <1>12, <2>1 DEF LoadLen
  <2> QED
    BY <1>12, <2>2 DEF LoadLen
<1>13. CASE LoadTotal \/ LoadCurrent
  <2>1. over' \in BOOLEAN
    <3>1. CASE LoadTotal
      BY <3>1 DEF LoadTotal
    <3>2. CASE LoadCurrent
      <4>1. over' = (Mean(loaded', length) > Limit)
        BY <3>2 DEF LoadCurrent
      <4> QED
        BY ONLY <4>1
    <3> QED
      BY <1>13, <3>1, <3>2
  <2>2. loaded' \in Int /\ length' = length /\ since' = since /\ check # "idle"
        /\ check' \in {"current", "checked"} /\ added' = added
        /\ UNCHANGED <<now, due, tick, handled, Store, total, currentCount, currentKey>>
        /\ UNCHANGED <<ticker, visit, flushCount, currentStored>>
    BY <1>13 DEF LoadTotal, LoadCurrent
  <2> QED
    BY <2>1, <2>2
<1>14. ASSUME NEW d \in Deltas, Increment(d) PROVE Types'
  <2>1. d \in Nat
    BY BytesAssumption
  <2>2. added' \in [0 .. MaxTime -> Nat] /\ currentCount' \in Nat
    BY <1>14, <2>1 DEF Increment
  <2>3. 0 \in 0 .. MaxTime
    BY Numbers
  <2>4. /\ check' = "idle" /\ length' = 0 /\ loaded' = 0 /\ since' = 0
        /\ UNCHANGED <<now, due, tick, handled, Store, total, currentKey>>
        /\ UNCHANGED <<ticker, visit, flushCount, currentStored>>
    BY <1>14 DEF Increment, Forget
  <2>5. over' \in BOOLEAN
    BY <1>14 DEF Increment, Forget
  <2> QED
    BY <2>2, <2>3, <2>4, <2>5
<1>15. CASE KeptBack
  <2>1. 0 \in 0 .. MaxTime
    BY Numbers
  <2>2. /\ check' = "idle" /\ length' = 0 /\ loaded' = 0 /\ since' = 0
        /\ UNCHANGED <<now, due, tick, handled, Store, total, currentCount, currentKey>>
        /\ UNCHANGED <<ticker, visit, flushCount, currentStored, added>>
    BY <1>15 DEF KeptBack, Forget
  <2>3. over' \in BOOLEAN
    BY <1>15 DEF KeptBack, Forget
  <2> QED
    BY <2>1, <2>2, <2>3
<1> QED
  BY <1>1, <1>2, <1>3, <1>4, <1>5, <1>6, <1>7, <1>8, <1>9, <1>10, <1>11, <1>12,
     <1>13, <1>14, <1>15 DEF Next

\* The types of the clock.
LEMMA ClockTypes ==
    ASSUME Types
    PROVE  /\ now \in Nat /\ due \in Nat /\ tick \in Int /\ handled \in Int
           /\ NoTick = -1 /\ (tick = NoTick \/ tick >= 0)
           /\ (handled = NoTick \/ handled >= 0) /\ now \in Instants
  BY Numbers DEF Types, TypeOK, NoTick, Instants

\* The steps other than those of the clock and the ends of a tick.
LEMMA ClockStands ==
    ASSUME [Next]_vars, ~Pass, ~ReceiveTick, ~FlushAdd
    PROVE  UNCHANGED <<now, due, tick, handled>> /\ (ticker' = "idle" <=> ticker = "idle")
  BY DEF vars, clockVars, flushVars, checkVars, Next, updateCurrentKey, PurgeBegins,
         PurgeEnds, KeepKey, PurgeKey, FlushSwap, FlushGet, FlushSet, LoadLen, LoadTotal,
         LoadCurrent, Increment, KeptBack

\* Every step keeps the clock.
LEMMA ClockKept ==
    ASSUME Types, Clock, [Next]_vars PROVE Clock'
<1> USE ClockTypes, Numbers DEF Clock
<1>1. CASE Pass
  <2>1. /\ now' = now + 1 /\ UNCHANGED <<handled, ticker>>
        /\ handled # NoTick => now < handled + MaxLate
        /\ handled = NoTick /\ tick # NoTick => now < tick + MaxLate
    BY <1>1 DEF Pass, Outstanding, flushVars
  <2>2. CASE now' = due
    <3>1. tick' = (IF tick = NoTick THEN due ELSE tick) /\ due' = due + FlushInterval
      BY <1>1, <2>2 DEF Pass
    <3> QED
      BY <2>1, <2>2, <3>1
  <2>3. CASE now' # due
    <3>1. UNCHANGED <<tick, due>>
      BY <1>1, <2>3 DEF Pass
    <3> QED
      BY <2>1, <2>3, <3>1
  <2> QED
    BY <2>2, <2>3
<1>2. CASE ReceiveTick
  BY <1>2 DEF ReceiveTick
<1>3. CASE FlushAdd
  BY <1>3 DEF FlushAdd
<1>4. CASE ~Pass /\ ~ReceiveTick /\ ~FlushAdd
  BY <1>4, ClockStands
<1> QED
  BY <1>1, <1>2, <1>3, <1>4

\* The steps that leave the ticker goroutine's data alone.
Idle ==
    /\ UNCHANGED <<Store, currentKey, flushCount, currentStored, total>>
    /\ \/ UNCHANGED ticker
       \/ ticker \in {"idle", "lock", "purge"} /\ ticker' \in {"key", "purge", "swap"}
          /\ (ticker = "idle" <=> ticker' = "key")

\* There are five others.
LEMMA IdleSteps ==
    ASSUME [Next]_vars
    PROVE  \/ Idle \/ updateCurrentKey \/ FlushSwap \/ FlushGet \/ FlushSet \/ FlushAdd
           \/ \E k \in visit : PurgeKey(k)
  BY DEF Idle, vars, clockVars, flushVars, checkVars, Next, Pass, ReceiveTick, PurgeBegins,
         PurgeEnds, KeepKey, LoadLen, LoadTotal, LoadCurrent, Increment, KeptBack

\* Every step keeps the item of a tick.
LEMMA FlushingKept ==
    ASSUME Types, Clock, Flushing, [Next]_vars PROVE Flushing'
<1> USE DEF Flushing
<1>0. handled' = handled \/ ticker' \in {"idle", "key"}
  <2>1. CASE Pass
    BY <2>1 DEF Pass
  <2>2. CASE ReceiveTick
    BY <2>2 DEF ReceiveTick
  <2>3. CASE FlushAdd
    BY <2>3 DEF FlushAdd
  <2> QED
    BY <2>1, <2>2, <2>3, ClockStands
<1>1. CASE Idle
  <2>1. CASE ticker' = ticker
    BY <1>0, <1>1, <2>1 DEF Idle
  <2>2. CASE ticker' # ticker
    BY <1>0, <1>1, <2>2 DEF Idle
  <2> QED
    BY <2>1, <2>2
<1>2. CASE updateCurrentKey
  <2>1. /\ currentKey' = KeyAt(now) /\ Store'[KeyAt(now)] = FreshItem
        /\ ticker' = "lock" /\ handled' = handled /\ handled # NoTick
    BY <1>2, SetParts DEF updateCurrentKey, clockVars, Clock
  <2>2. FreshItem.value = 0 /\ FreshItem.ttl = now + Life
    BY ClockTypes, FreshIn
  <2>3. now + Life >= handled + Life
    BY <2>1, ClockTypes, Numbers DEF Clock
  <2> QED
    BY <2>1, <2>2, <2>3
<1>3. CASE FlushSwap
  BY <1>0, <1>3 DEF FlushSwap
<1>4. CASE FlushGet
  <2>1. /\ currentStored' = [Store[currentKey] EXCEPT !.value = @ + flushCount]
        /\ UNCHANGED <<Store, currentKey, flushCount, handled>> /\ ticker' = "set"
        /\ ticker = "get"
    BY <1>4 DEF FlushGet, clockVars
  <2>2. Store[currentKey] \in Item /\ flushCount \in Nat
    BY DEF Types, TypeOK
  <2>3. /\ currentStored'.value = Store[currentKey].value + flushCount
        /\ currentStored'.ttl = Store[currentKey].ttl
    BY <2>1, <2>2 DEF Item
  <2>4. currentStored'.value = flushCount
    BY <2>1, <2>2, <2>3
  <2> QED
    BY <2>1, <2>3, <2>4
<1>5. CASE FlushSet
  <2>1. /\ Store' = StoreSet(currentKey, currentStored) /\ ticker = "set" /\ ticker' = "add"
        /\ UNCHANGED <<currentKey, flushCount, currentStored, handled>>
    BY <1>5 DEF FlushSet, clockVars
  <2>2. Store'[currentKey] = currentStored
    BY <2>1, SetParts
  <2> QED
    BY <2>1, <2>2
<1>6. CASE FlushAdd
  BY <1>6 DEF FlushAdd
<1>7. ASSUME NEW k \in visit, PurgeKey(k) PROVE Flushing'
  <2>1. Store'[currentKey] = Store[currentKey]
    BY <1>7 DEF PurgeKey, MustKeep, Types
  <2> QED
    BY <1>7, <2>1 DEF PurgeKey, clockVars
<1> QED
  BY <1>1, <1>2, <1>3, <1>4, <1>5, <1>6, <1>7, IdleSteps

\* Only Increment changes what was added.
LEMMA AddedStands ==
    ASSUME [Next]_vars, ~ \E d \in Deltas : Increment(d)
    PROVE  UNCHANGED added
  BY DEF vars, clockVars, flushVars, checkVars, Next, Pass, ReceiveTick, updateCurrentKey,
         PurgeBegins, PurgeEnds, KeepKey, PurgeKey, FlushSwap, FlushGet, FlushSet, FlushAdd,
         LoadLen, LoadTotal, LoadCurrent, KeptBack

\* Time does not go back.
LEMMA TimePasses ==
    ASSUME Types, [Next]_vars PROVE now' \in Nat /\ now <= now'
<1>1. CASE Pass
  BY <1>1, ClockTypes DEF Pass
<1>2. CASE ReceiveTick \/ FlushAdd
  BY <1>2, ClockTypes DEF ReceiveTick, FlushAdd
<1> QED
  BY <1>1, <1>2, ClockTypes, ClockStands

\* Every step keeps the future empty.
LEMMA NotYetKept ==
    ASSUME Types, NotYet, [Next]_vars PROVE NotYet'
<1> USE DEF NotYet
<1>1. CASE UNCHANGED added
  <2>1. now \in Nat /\ now' \in Nat /\ now <= now' /\ \A u \in Instants : u \in Nat
    BY TimePasses, ClockTypes, Numbers DEF Instants
  <2>2. \A u \in Instants : u > now' => u > now
    BY ONLY <2>1
  <2> QED
    BY <1>1, <2>2 DEF Instants
<1>2. ASSUME NEW d \in Deltas, Increment(d) PROVE NotYet'
  <2>1. now' = now /\ added' = [added EXCEPT ![now] = @ + d]
    BY <1>2 DEF Increment, clockVars
  <2>2. now \in Nat /\ added \in [Instants -> Nat] /\ \A u \in Instants : u \in Nat
    BY ClockTypes, Numbers DEF Types, TypeOK, Instants
  <2>3. \A u \in Instants : u > now => added'[u] = added[u]
    BY <2>1, <2>2
  <2> QED
    BY <2>1, <2>3 DEF Instants
<1> QED
  BY <1>1, <1>2, AddedStands

--------------------------------------------------------------------------------
(* No recent byte is missed.                                               *)

\* The bytes in the hands of a flush.
LEMMA HandParts ==
    ASSUME Types, NEW e \in Int
    PROVE  /\ InHand = IF ticker \in {"get", "set"} THEN flushCount ELSE Unadded
           /\ InHand \in Nat /\ Unadded \in Nat /\ HandBy(e) \in Nat
           /\ total \in Int /\ currentCount \in Nat /\ flushCount \in Nat
           /\ IsStore(Store) /\ added \in [Instants -> Nat] /\ now \in Instants
<1>1. /\ total \in Int /\ currentCount \in Nat /\ flushCount \in Nat
      /\ currentStored.value \in Nat
      /\ IsStore(Store) /\ added \in [Instants -> Nat] /\ now \in Instants
  BY ItemParts, ClockTypes DEF Types, TypeOK, IsStore, Instants
<1>2. InHand = IF ticker \in {"get", "set"} THEN flushCount ELSE Unadded
  BY DEF InHand, Unadded
<1> QED
  BY <1>1, <1>2 DEF Unadded, HandBy

\* The same after a step.
LEMMA HandPartsNext ==
    ASSUME Types', NEW e \in Int
    PROVE  /\ InHand' \in Nat /\ Unadded' \in Nat /\ HandBy(e)' \in Nat
           /\ total' \in Int /\ currentCount' \in Nat
           /\ IsStore(Store') /\ added' \in [Instants -> Nat] /\ now' \in Instants
<1>1. /\ total' \in Int /\ currentCount' \in Nat /\ flushCount' \in Nat
      /\ currentStored' \in Item
      /\ IsStore(Store') /\ added' \in [Instants -> Nat] /\ now' \in Instants
  BY DEF Types, TypeOK, IsStore, Instants
<1>2. currentStored'.value \in Nat
  BY <1>1, ItemParts
<1> QED
  BY <1>1, <1>2 DEF Unadded, HandBy, InHand

\* What a step does to one item.
LEMMA StoreSteps ==
    ASSUME Types, Types', NEW k \in Instants, NEW e \in Int,
           \A j \in Instants \ {k} : /\ j \in DOMAIN Store' <=> j \in DOMAIN Store
                                     /\ j \in DOMAIN Store => Store'[j] = Store[j]
    PROVE  /\ StoredBy(Store', e) =
                 StoredBy(Store, e) + (ValueBy(Store', e)[k] - ValueBy(Store, e)[k])
           /\ StoredBy(Store, e) \in Nat /\ StoredBy(Store', e) \in Nat
           /\ ValueBy(Store, e)[k] \in Nat
           /\ ValueBy(Store', e)[k] \in Nat
<1>1. PICK st, su : st = Store /\ su = Store'
  OBVIOUS
<1>2. IsStore(st) /\ IsStore(su)
  BY <1>1 DEF Types, TypeOK, IsStore
<1>3. \A j \in Instants \ {k} :
         (j \in DOMAIN su <=> j \in DOMAIN st) /\ (j \in DOMAIN st => su[j] = st[j])
  BY <1>1
<1>4. /\ StoredBy(st, e) \in Nat /\ StoredBy(su, e) \in Nat
      /\ ValueBy(st, e)[k] \in Nat /\ ValueBy(su, e)[k] \in Nat
  BY ONLY <1>2, k \in Instants, e \in Int, StoredParts
<1>5. StoredBy(su, e) = StoredBy(st, e) + (ValueBy(su, e)[k] - ValueBy(st, e)[k])
  BY ONLY <1>2, <1>3, k \in Instants, e \in Int, StoredMoves
<1> QED
  BY <1>1, <1>4, <1>5

\* updateCurrentKey stores an item without bytes.
LEMMA KeyStep ==
    ASSUME Types, Types', updateCurrentKey, NEW e \in Int
    PROVE  /\ StoredBy(Store', e) <= StoredBy(Store, e)
           /\ KeyAt(now) \notin DOMAIN Store => StoredBy(Store', e) = StoredBy(Store, e)
<1> DEFINE k == KeyAt(now)
<1>1. /\ DOMAIN Store' = DOMAIN Store \cup {k} /\ Store'[k] = FreshItem
      /\ \A j \in DOMAIN Store \ {k} : Store'[j] = Store[j]
  <2>1. Store' = StoreSet(k, FreshItem)
    BY DEF updateCurrentKey
  <2> HIDE DEF k
  <2> QED
    BY ONLY <2>1 DEF StoreSet
<1>2. k \in Instants
  BY KeyIn, ClockTypes
<1> HIDE DEF k
<1>3. /\ StoredBy(Store', e) =
            StoredBy(Store, e) + (ValueBy(Store', e)[k] - ValueBy(Store, e)[k])
      /\ StoredBy(Store, e) \in Nat /\ ValueBy(Store, e)[k] \in Nat
  BY <1>1, <1>2, StoreSteps
<1>4. ValueBy(Store', e)[k] = 0
  BY <1>1, <1>2, ClockTypes, FreshIn DEF ValueBy
<1>5. k \notin DOMAIN Store => ValueBy(Store, e)[k] = 0
  BY <1>2 DEF ValueBy
<1>6. /\ StoredBy(Store', e) <= StoredBy(Store, e)
      /\ k \notin DOMAIN Store => StoredBy(Store', e) = StoredBy(Store, e)
  BY ONLY <1>3, <1>4, <1>5
<1> QED
  BY <1>6 DEF k

\* PurgeKey takes an item away.
LEMMA PurgeStep ==
    ASSUME Types, Types', NEW k \in visit, PurgeKey(k), NEW e \in Int
    PROVE  /\ k \in DOMAIN Store /\ k # currentKey /\ now >= Store[k].ttl
           /\ Store[k].ttl \in Nat /\ Store[k].ttl <= Horizon /\ Store[k].value \in Nat
           /\ total' = total - Store[k].value /\ UNCHANGED <<added, currentCount>>
           /\ StoredBy(Store', e) = StoredBy(Store, e) -
                 (IF Store[k].ttl <= e THEN Store[k].value ELSE 0)
           /\ \A j \in DOMAIN Store' : j \in DOMAIN Store /\ Store'[j] = Store[j]
<1>1. k \in DOMAIN Store /\ k \in Instants
  BY DEF Types, TypeOK
<1>2. Store[k].ttl \in Nat /\ Store[k].ttl <= Horizon /\ Store[k].value \in Nat
  BY <1>1, ItemParts DEF Types, TypeOK
<1>3. k # currentKey /\ now >= Store[k].ttl
  BY <1>2, ClockTypes DEF PurgeKey, MustKeep
<1>4. /\ DOMAIN Store' = DOMAIN Store \ {k}
      /\ \A j \in DOMAIN Store' : j \in DOMAIN Store /\ Store'[j] = Store[j]
  BY DEF PurgeKey
<1>5. /\ StoredBy(Store', e) =
            StoredBy(Store, e) + (ValueBy(Store', e)[k] - ValueBy(Store, e)[k])
      /\ StoredBy(Store, e) \in Nat
  BY <1>1, <1>4, StoreSteps
<1>6. /\ ValueBy(Store', e)[k] = 0
      /\ ValueBy(Store, e)[k] = IF Store[k].ttl <= e THEN Store[k].value ELSE 0
  BY <1>1, <1>4 DEF ValueBy
<1>7. StoredBy(Store', e) = StoredBy(Store, e) -
         (IF Store[k].ttl <= e THEN Store[k].value ELSE 0)
  BY ONLY <1>2, <1>5, <1>6
<1>8. total' = total - Store[k].value /\ UNCHANGED <<added, currentCount>>
  BY DEF PurgeKey
<1> QED
  BY <1>1, <1>2, <1>3, <1>4, <1>7, <1>8

\* FlushSet puts the flushed bytes into the item of the tick.
LEMMA SetStep ==
    ASSUME Types, Types', Flushing, FlushSet, NEW e \in Int
    PROVE  /\ currentKey \in DOMAIN Store /\ currentStored.value = flushCount
           /\ Store[currentKey].ttl \in Nat /\ Store[currentKey].ttl <= Horizon
           /\ StoredBy(Store', e) = StoredBy(Store, e) +
                 (IF Store[currentKey].ttl <= e THEN flushCount ELSE 0)
           /\ DOMAIN Store' = DOMAIN Store
           /\ \A j \in DOMAIN Store : Store'[j].ttl = Store[j].ttl
<1> DEFINE k == currentKey
<1>0. ticker = "set" /\ Store' = StoreSet(k, currentStored)
  BY DEF FlushSet
<1>1. k \in DOMAIN Store /\ k \in Instants
  BY DEF Types
<1>2. /\ Store[k].ttl \in Nat /\ Store[k].ttl <= Horizon /\ Store[k].value = 0
      /\ currentStored.value = flushCount /\ currentStored.ttl = Store[k].ttl
      /\ flushCount \in Nat
  BY <1>0, <1>1, ItemParts DEF Types, TypeOK, Flushing
<1> HIDE DEF k
<1>3. /\ DOMAIN Store' = DOMAIN Store /\ Store'[k] = currentStored
      /\ \A j \in DOMAIN Store \ {k} : Store'[j] = Store[j]
  <2>1. /\ DOMAIN Store' = DOMAIN Store \cup {k} /\ Store'[k] = currentStored
        /\ \A j \in DOMAIN Store \ {k} : Store'[j] = Store[j]
    BY ONLY <1>0 DEF StoreSet
  <2> QED
    BY <1>1, <2>1
<1>4. /\ StoredBy(Store', e) =
            StoredBy(Store, e) + (ValueBy(Store', e)[k] - ValueBy(Store, e)[k])
      /\ StoredBy(Store, e) \in Nat
  BY <1>1, <1>3, StoreSteps
<1>5. /\ ValueBy(Store', e)[k] = IF Store[k].ttl <= e THEN flushCount ELSE 0
      /\ ValueBy(Store, e)[k] = 0
  BY <1>1, <1>2, <1>3 DEF ValueBy
<1>6. StoredBy(Store', e) = StoredBy(Store, e) +
         (IF Store[k].ttl <= e THEN flushCount ELSE 0)
  BY ONLY <1>2, <1>4, <1>5
<1> QED
  BY <1>1, <1>2, <1>3, <1>6 DEF k

\* What the items have, the total has, or is about to have.
LEMMA TotalKept ==
    ASSUME RecentInv, [Next]_vars, Types'
    PROVE  StoredBy(Store', Horizon) <= total' + Unadded'
<1> USE DEF RecentInv
<1>0. /\ Horizon \in Int /\ StoredBy(Store, Horizon) <= total + Unadded
      /\ total \in Int /\ Unadded \in Nat /\ total' \in Int /\ Unadded' \in Nat
      /\ StoredBy(Store, Horizon) \in Nat
  <2>1. /\ Horizon \in Int /\ total \in Int /\ Unadded \in Nat /\ IsStore(Store)
        /\ total' \in Int /\ Unadded' \in Nat
    BY Numbers, HandParts, HandPartsNext
  <2>2. StoredBy(Store, Horizon) \in Nat
    BY ONLY <2>1, StoredParts
  <2> QED
    BY <2>1, <2>2 DEF Covered
<1>1. CASE Idle
  BY <1>0, <1>1 DEF Idle, Unadded
<1>2. CASE updateCurrentKey
  <2>1. StoredBy(Store', Horizon) <= StoredBy(Store, Horizon)
    BY <1>0, <1>2, KeyStep
  <2>2. total' = total /\ Unadded' = 0 /\ Unadded = 0
    BY <1>2 DEF updateCurrentKey, Unadded
  <2>3. StoredBy(Store', Horizon) \in Nat
    <3>1. IsStore(Store')
      BY <1>0, HandPartsNext
    <3> QED
      BY ONLY <1>0, <3>1, StoredParts
  <2> QED
    BY ONLY <1>0, <2>1, <2>2, <2>3
<1>3. CASE FlushSwap \/ FlushGet
  BY <1>0, <1>3 DEF FlushSwap, FlushGet, Unadded
<1>4. CASE FlushSet
  <2>1. /\ StoredBy(Store', Horizon) = StoredBy(Store, Horizon) + flushCount
        /\ currentStored.value = flushCount /\ flushCount \in Nat
    BY <1>0, <1>4, SetStep, HandParts
  <2>2. total' = total /\ Unadded = 0 /\ Unadded' = currentStored.value
    BY <1>4 DEF FlushSet, Unadded
  <2> QED
    BY ONLY <1>0, <2>1, <2>2
<1>5. CASE FlushAdd
  <2>1. Store' = Store /\ total' = total + Unadded /\ Unadded' = 0
    BY <1>5 DEF FlushAdd, Unadded
  <2> QED
    BY ONLY <1>0, <2>1
<1>6. ASSUME NEW k \in visit, PurgeKey(k)
      PROVE  StoredBy(Store', Horizon) <= total' + Unadded'
  <2>1. /\ Store[k].value \in Nat /\ total' = total - Store[k].value
        /\ StoredBy(Store', Horizon) = StoredBy(Store, Horizon) - Store[k].value
    BY <1>0, <1>6, PurgeStep
  <2>2. Unadded = 0 /\ Unadded' = 0
    BY <1>6 DEF PurgeKey, Unadded
  <2> QED
    BY ONLY <1>0, <2>1, <2>2
<1> QED
  BY <1>1, <1>2, <1>3, <1>4, <1>5, <1>6, IdleSteps

\* Steps that increment nothing do not change the bytes since a time.
LEMMA FromStands ==
    ASSUME UNCHANGED added, NEW t PROVE From(t)' = From(t)
  BY DEF From, Since, BytesIn

\* What is incremented now came since any time that has passed.
LEMMA FromMoves ==
    ASSUME Types, NEW d \in Deltas, Increment(d), NEW t \in Int
    PROVE  /\ From(t)' = From(t) + (IF t <= now THEN d ELSE 0)
           /\ currentCount' = currentCount + d /\ d \in Nat /\ Idle
           /\ UNCHANGED <<now, due, tick, handled, ticker>>
<1>1. /\ currentCount' = currentCount + d /\ d \in Nat /\ Idle
      /\ UNCHANGED <<now, due, tick, handled, ticker>>
  BY BytesAssumption DEF Increment, Idle, flushVars, clockVars
<1>2. /\ added \in [Instants -> Nat] /\ now \in Instants
      /\ added' = [added EXCEPT ![now] = @ + d] /\ Since(t) \in SUBSET Instants
  BY HandParts DEF Increment, Since
<1>3. BytesIn(Since(t))' = BytesIn(Since(t)) + (IF now \in Since(t) THEN d ELSE 0)
  <2>1. PICK S \in SUBSET Instants : S = Since(t)
    BY <1>2
  <2>2. BytesIn(S)' = BytesIn(S) + (IF now \in S THEN d ELSE 0)
    BY <1>1, <1>2, BytesMove
  <2> QED
    BY <2>1, <2>2 DEF BytesIn, Since
<1>4. now \in Since(t) <=> t <= now
  BY <1>2, Numbers DEF Since, Instants
<1> QED
  BY <1>1, <1>3, <1>4 DEF From

\* Every step keeps the recent bytes counted.
LEMMA CoveredKept ==
    ASSUME RecentInv, [Next]_vars, Types'
    PROVE  Covered'
<1> USE DEF RecentInv
<1>1. ASSUME NEW e \in Time, e >= now'
      PROVE  (From(e - Life + MaxLate + 1) + StoredBy(Store, e) + HandBy(e)
                 <= total + currentCount + InHand)'
  <2>0. e \in Int /\ e <= Horizon /\ e >= now
    BY <1>1, Numbers, TimePasses, ClockTypes
  <2>1. PICK t \in Int : t = e - Life + MaxLate + 1
    BY <2>0, Numbers
  <2>2. From(t) + StoredBy(Store, e) + HandBy(e) <= total + currentCount + InHand
    BY <1>1, <2>0, <2>1 DEF Covered
  <2>3. /\ From(t) \in Nat /\ StoredBy(Store, e) \in Nat /\ HandBy(e) \in Nat
        /\ total \in Int /\ currentCount \in Nat /\ InHand \in Nat
    BY <2>0, HandParts, FromParts, StoredParts
  <2>4. /\ From(t)' \in Nat /\ StoredBy(Store', e) \in Nat /\ HandBy(e)' \in Nat
        /\ total' \in Int /\ currentCount' \in Nat /\ InHand' \in Nat
    <3>1. IsStore(Store') /\ total' \in Int /\ currentCount' \in Nat /\ InHand' \in Nat
          /\ HandBy(e)' \in Nat /\ added' \in [Instants -> Nat] /\ now' \in Instants
      BY <2>0, HandPartsNext
    <3>2. StoredBy(Store', e) \in Nat
      BY <2>0, <3>1, StoredParts
    <3>3. From(t)' \in Nat
      <4>1. From(t)' = SumFunctionOnSet(added', Since(t))
        BY DEF From, BytesIn, Since
      <4>2. IsFiniteSet(Since(t)) /\ Since(t) \subseteq Instants
        BY InstantsFinite DEF Since
      <4>3. PICK f : f = added'
        OBVIOUS
      <4>4. \A u \in Since(t) : f[u] \in Nat /\ f[u] <= f[u]
        BY <3>1, <4>2, <4>3
      <4>5. SumFunctionOnSet(f, Since(t)) \in Nat
        BY ONLY <4>2, <4>4, SumGrows
      <4> QED
        BY <4>1, <4>3, <4>5
    <3> QED
      BY <3>1, <3>2, <3>3
  <2> SUFFICES From(t)' + StoredBy(Store', e) + HandBy(e)'
                  <= total' + currentCount' + InHand'
    BY <2>1
  <2>5. CASE \E d \in Deltas : Increment(d)
    <3>1. PICK d \in Deltas : Increment(d)
      BY <2>5
    <3>2. /\ From(t)' <= From(t) + d /\ currentCount' = currentCount + d /\ d \in Nat
      BY <2>3, <3>1, FromMoves, ClockTypes
    <3>3. /\ StoredBy(Store', e) = StoredBy(Store, e) /\ HandBy(e)' = HandBy(e)
          /\ total' = total /\ InHand' = InHand
      BY <3>1, FromMoves DEF Idle, HandBy, InHand
    <3> QED
      BY ONLY <2>2, <2>3, <2>4, <3>2, <3>3
  <2>6. CASE UNCHANGED added
    <3>0. From(t)' = From(t)
      BY <2>6, FromStands
    <3>1. CASE Idle /\ UNCHANGED currentCount
      <4>1. /\ StoredBy(Store', e) = StoredBy(Store, e) /\ HandBy(e)' = HandBy(e)
            /\ total' = total /\ InHand' = InHand /\ currentCount' = currentCount
        BY <3>1 DEF Idle, HandBy, InHand
      <4> QED
        BY ONLY <2>2, <3>0, <4>1
    <3>2. CASE updateCurrentKey
      <4>1. StoredBy(Store', e) <= StoredBy(Store, e)
        BY <2>0, <3>2, KeyStep
      <4>2. /\ HandBy(e)' = 0 /\ total' = total /\ InHand' = InHand
            /\ currentCount' = currentCount
        BY <3>2 DEF updateCurrentKey, HandBy, InHand
      <4> QED
        BY ONLY <2>2, <2>3, <2>4, <3>0, <4>1, <4>2
    <3>3. CASE FlushSwap
      <4>1. /\ StoredBy(Store', e) = StoredBy(Store, e) /\ HandBy(e) = 0
            /\ total' = total /\ InHand = 0 /\ InHand' = currentCount
            /\ currentCount' = 0 /\ ticker = "swap"
            /\ HandBy(e)' = IF Store[currentKey].ttl <= e THEN currentCount ELSE 0
        BY <3>3 DEF FlushSwap, HandBy, InHand
      <4>2. CASE Store[currentKey].ttl <= e
        <5>1. handled # NoTick /\ handled + Life <= Store[currentKey].ttl
              /\ now <= handled + MaxLate /\ Store[currentKey].ttl \in Nat
          BY <4>1, ItemParts DEF Flushing, Clock, Types, TypeOK
        <5>2. t > now
          BY <2>0, <2>1, <4>2, <5>1, ClockTypes, Numbers
        <5>3. From(t) = 0
          BY <2>0, <5>2, HandParts, FromParts
        <5>4. StoredBy(Store, e) <= StoredBy(Store, Horizon)
          <6>1. IsStore(Store) /\ Horizon \in Int
            BY <2>0, HandParts, Numbers
          <6> QED
            BY ONLY <2>0, <6>1, StoredGrows
        <5>5. StoredBy(Store, Horizon) <= total /\ StoredBy(Store, Horizon) \in Nat
          <6>1. Unadded = 0 /\ IsStore(Store) /\ Horizon \in Int
            BY <2>0, <4>1, HandParts, Numbers DEF Unadded
          <6>2. StoredBy(Store, Horizon) \in Nat
            BY <6>1, StoredParts
          <6>3. StoredBy(Store, Horizon) <= total + 0
            BY <6>1 DEF Covered
          <6> QED
            BY <2>3, <6>2, <6>3
        <5> QED
          BY ONLY <2>3, <3>0, <4>1, <4>2, <5>3, <5>4, <5>5
      <4>3. CASE ~(Store[currentKey].ttl <= e)
        BY ONLY <2>2, <2>3, <3>0, <4>1, <4>3
      <4> QED
        BY <4>2, <4>3
    <3>4. CASE FlushGet
      <4>1. /\ StoredBy(Store', e) = StoredBy(Store, e) /\ HandBy(e)' = HandBy(e)
            /\ total' = total /\ InHand' = InHand /\ currentCount' = currentCount
        BY <3>4 DEF FlushGet, HandBy, InHand
      <4> QED
        BY ONLY <2>2, <3>0, <4>1
    <3>5. CASE FlushSet
      <4>1. /\ StoredBy(Store', e) = StoredBy(Store, e) +
                  (IF Store[currentKey].ttl <= e THEN flushCount ELSE 0)
            /\ currentStored.value = flushCount /\ flushCount \in Nat
        BY <2>0, <3>5, SetStep, HandParts
      <4>2. /\ HandBy(e) = IF Store[currentKey].ttl <= e THEN flushCount ELSE 0
            /\ HandBy(e)' = 0 /\ InHand = flushCount /\ InHand' = currentStored.value
            /\ total' = total /\ currentCount' = currentCount
        BY <3>5 DEF FlushSet, HandBy, InHand
      <4> QED
        BY ONLY <2>2, <2>3, <3>0, <4>1, <4>2
    <3>6. CASE FlushAdd
      <4>1. /\ StoredBy(Store', e) = StoredBy(Store, e) /\ HandBy(e) = 0 /\ HandBy(e)' = 0
            /\ total' = total + InHand /\ InHand' = 0 /\ currentCount' = currentCount
        BY <3>6 DEF FlushAdd, HandBy, InHand
      <4> QED
        BY ONLY <2>2, <2>3, <3>0, <4>1
    <3>7. ASSUME NEW k \in visit, PurgeKey(k)
          PROVE  From(t)' + StoredBy(Store', e) + HandBy(e)'
                    <= total' + currentCount' + InHand'
      <4>1. /\ Store[k].value \in Nat /\ total' = total - Store[k].value
            /\ Store[k].ttl \in Nat /\ now >= Store[k].ttl
            /\ StoredBy(Store', e) = StoredBy(Store, e) -
                  (IF Store[k].ttl <= e THEN Store[k].value ELSE 0)
            /\ currentCount' = currentCount
        BY <2>0, <3>7, PurgeStep
      <4>2. Store[k].ttl <= e
        BY <2>0, <4>1, ClockTypes
      <4>3. HandBy(e) = 0 /\ HandBy(e)' = 0 /\ InHand' = InHand
        BY <3>7 DEF PurgeKey, HandBy, InHand
      <4> QED
        BY ONLY <2>2, <2>3, <3>0, <4>1, <4>2, <4>3
    <3>8. Idle => UNCHANGED currentCount \/ (\E d \in Deltas : Increment(d)) \/ FlushSwap
      BY DEF vars, clockVars, flushVars, checkVars, Next, Pass, ReceiveTick, PurgeBegins,
             PurgeEnds, KeepKey, PurgeKey, LoadLen, LoadTotal, LoadCurrent, KeptBack,
             updateCurrentKey, FlushGet, FlushSet, FlushAdd
    <3> QED
      BY <2>5, <3>1, <3>2, <3>3, <3>4, <3>5, <3>6, <3>7, <3>8, IdleSteps
  <2> QED
    BY <2>5, <2>6, AddedStands
<1>2. (StoredBy(Store, Horizon) <= total + Unadded)'
  BY TotalKept DEF Horizon
<1> QED
  BY <1>1, <1>2 DEF Covered

\* Initially there are no bytes.
LEMMA InitZero ==
    ASSUME Init
    PROVE  /\ Types /\ total = 0 /\ currentCount = 0 /\ InHand = 0 /\ Unadded = 0
           /\ \A e \in Int : StoredBy(Store, e) = 0 /\ From(e) = 0 /\ HandBy(e) = 0
<1>1. Types
  BY InitTypes
<1>2. total = 0 /\ currentCount = 0 /\ InHand = 0 /\ Unadded = 0
  BY DEF Init, InHand, Unadded
<1>3. ASSUME NEW e \in Int PROVE StoredBy(Store, e) = 0
  <2>1. \A k \in DOMAIN Store : Store[k].value = 0
    BY DEF Init, FreshItem
  <2>2. IsStore(Store)
    BY <1>1, HandParts
  <2> QED
    BY ONLY <1>3, <2>1, <2>2, StoredParts
<1>4. ASSUME NEW e \in Int PROVE From(e) = 0
  <2>1. /\ added \in [Instants -> Nat] /\ Since(e) \in SUBSET Instants
        /\ {} \in SUBSET Since(e)
    BY <1>1, HandParts DEF Since
  <2>2. \A u \in Since(e) \ {} : added[u] = 0
    BY DEF Init, Since, Instants
  <2>3. BytesIn({}) = 0
    BY FS_EmptySet, SumUnfolds DEF BytesIn
  <2> QED
    BY <2>1, <2>2, <2>3, BytesPart DEF From
<1>5. \A e \in Int : HandBy(e) = 0
  BY DEF Init, HandBy
<1> QED
  BY <1>1, <1>2, <1>3, <1>4, <1>5

\* The invariant holds initially.
LEMMA InitRecent == Init => RecentInv
<1> SUFFICES ASSUME Init PROVE RecentInv
  OBVIOUS
<1>1. Types
  BY InitZero
<1>2. Clock
  BY <1>1, ClockTypes, Numbers DEF Init, Clock
<1>3. Flushing
  BY DEF Init, Flushing
<1>4. NotYet
  BY DEF Init, NotYet, Instants
<1>5. Covered
  <2>1. \A e \in Time : e \in Int /\ e - Life + MaxLate + 1 \in Int
    BY Numbers
  <2> QED
    BY <2>1, InitZero, Numbers DEF Covered
<1> QED
  BY <1>1, <1>2, <1>3, <1>4, <1>5 DEF RecentInv

\* The invariant behind the next theorem: what of the limiter's data holds however late the
\* ticks are handled.
THEOREM RecentInvariant == Spec => []RecentInv
<1>1. RecentInv /\ [Next]_vars => RecentInv'
  <2> SUFFICES ASSUME RecentInv, [Next]_vars PROVE RecentInv'
    OBVIOUS
  <2>1. Types'
    BY TypesKept DEF RecentInv
  <2>2. Clock' /\ Flushing' /\ NotYet'
    BY ClockKept, FlushingKept, NotYetKept DEF RecentInv
  <2>3. Covered'
    BY <2>1, CoveredKept
  <2> QED
    BY <2>1, <2>2, <2>3 DEF RecentInv
<1> QED
  BY <1>1, InitRecent, PTL DEF Spec

\* The variables of the limiter keep their types.
THEOREM TypesHold == Spec => []TypeOK
<1>1. RecentInv => TypeOK
  BY DEF RecentInv, Types
<1> QED
  BY <1>1, RecentInvariant, PTL

\* No byte that Increment counted in the window is missing from what IsAverageOverLimit
\* adds up, whatever updateCurrentKey, purgeExpiredKeys and Flush do meanwhile, and even
\* if ticks come so late that two fall into one interval or some are dropped.
THEOREM NoByteIsMissed == Spec => []RecentIsCounted
<1>1. ASSUME RecentInv PROVE RecentIsCounted
  <2>1. now \in Time /\ now \in Int /\ now \in Instants
    BY <1>1, ClockTypes, Numbers DEF RecentInv, Instants
  <2>2. PICK t \in Int : t = now - Life + MaxLate + 1
    BY <2>1, Numbers
  <2>3. From(t) + StoredBy(Store, now) + HandBy(now) <= total + currentCount + InHand
    BY <1>1, <2>1, <2>2 DEF RecentInv, Covered
  <2>4. /\ HandBy(now) \in Nat /\ InHand \in Nat /\ IsStore(Store)
        /\ total \in Int /\ currentCount \in Nat /\ added \in [Instants -> Nat]
    BY <1>1, <2>1, HandParts DEF RecentInv
  <2>5. StoredBy(Store, now) \in Nat
    BY ONLY <2>1, <2>4, StoredParts
  <2>6. PICK S : S = Last(Life - MaxLate, now)
    OBVIOUS
  <2>7. S \subseteq Since(t) /\ Since(t) \subseteq Instants
    BY <2>1, <2>2, <2>6, Numbers DEF Last, Since, Instants
  <2>8. BytesIn(S) \in Nat /\ From(t) \in Nat /\ BytesIn(S) <= From(t)
    BY <2>4, <2>7, BytesPart DEF From
  <2>9. BytesIn(S) <= total + currentCount + InHand
    BY ONLY <2>3, <2>4, <2>5, <2>8
  <2> QED
    BY <2>6, <2>9 DEF RecentIsCounted, Life
<1> QED
  BY <1>1, RecentInvariant, PTL

--------------------------------------------------------------------------------
(* Ticks that are handled in their interval.                               *)

\* How late they may be, and when they are due.
LEMMA DueTimes ==
    ASSUME Punctual, Types, NewKeys
    PROVE  /\ Done \in Int /\ Keyed \in Int /\ currentKey \in Nat
           /\ FlushInterval = Interval /\ MaxLate < FlushInterval
           /\ currentKey * Interval \in Nat
           /\ (currentKey + 1) * Interval = currentKey * Interval + Interval
           /\ (currentKey + 2) * Interval = currentKey * Interval + 2 * Interval
<1>1. Done \in Int /\ Keyed \in Int
  BY ClockTypes, Numbers DEF Done, Keyed
<1>2. currentKey \in Nat /\ Interval \in Nat /\ FlushInterval = Interval
  BY IntervalAssumption DEF Types, TypeOK, Punctual
<1>3. /\ currentKey * Interval \in Nat
      /\ (currentKey + 1) * Interval = currentKey * Interval + Interval
      /\ (currentKey + 2) * Interval = currentKey * Interval + 2 * Interval
  BY ONLY <1>2, Z3
<1>4. MaxLate < FlushInterval
  <2>1. currentKey * Interval <= Keyed /\ Keyed + MaxLate < (currentKey + 1) * Interval
    BY DEF NewKeys
  <2> QED
    BY <1>1, <1>2, <1>3, <2>1, Numbers
<1> QED
  BY <1>1, <1>2, <1>3, <1>4

\* A tick is done when FlushAdd ends it.
LEMMA DoneSteps ==
    ASSUME Punctual, PunctualInv, [Next]_vars
    PROVE  /\ FlushAdd => Done' = Done + FlushInterval
           /\ ~FlushAdd => Done' = Done
           /\ OneTick'
<1> USE DEF PunctualInv, RecentInv
<1>0. /\ Done \in Int /\ MaxLate < FlushInterval /\ now \in Nat /\ due \in Nat
      /\ tick \in Int /\ handled \in Int /\ NoTick = -1
      /\ FlushInterval \in Nat /\ FlushInterval > 0 /\ MaxLate \in Nat
  BY DueTimes, ClockTypes, Numbers
<1>1. CASE Pass
  <2>1. /\ now' = now + 1 /\ handled' = handled
        /\ handled # NoTick => now < handled + MaxLate
        /\ handled = NoTick /\ tick # NoTick => now < tick + MaxLate
    BY <1>1 DEF Pass, Outstanding
  <2>2. CASE now' = due
    <3>1. handled = NoTick /\ tick = NoTick
      BY <1>0, <2>1, <2>2 DEF OneTick, Done
    <3>2. tick' = due /\ due' = due + FlushInterval
      BY <1>1, <2>2, <3>1 DEF Pass
    <3>3. Done' = Done /\ Done = due - FlushInterval
      BY <1>0, <2>1, <3>1, <3>2 DEF Done
    <3>4. OneTick'
      BY <1>0, <2>1, <2>2, <3>1, <3>2, <3>3 DEF OneTick
    <3> QED
      BY <1>1, <3>3, <3>4 DEF Pass, FlushAdd
  <2>3. CASE now' # due
    <3>1. UNCHANGED <<tick, due>>
      BY <1>1, <2>3 DEF Pass
    <3>2. Done' = Done
      BY <2>1, <3>1 DEF Done
    <3>3. OneTick'
      BY <1>0, <2>1, <3>1, <3>2 DEF OneTick
    <3> QED
      BY <1>1, <2>1, <3>2, <3>3 DEF Pass, FlushAdd
  <2> QED
    BY <2>2, <2>3
<1>2. CASE ReceiveTick
  <2>1. /\ handled = NoTick /\ tick # NoTick /\ handled' = tick /\ tick' = NoTick
        /\ UNCHANGED <<now, due>>
    BY <1>2 DEF ReceiveTick, Clock
  <2>2. Done' = Done
    BY <1>0, <2>1 DEF Done
  <2>3. OneTick'
    BY <2>1, <2>2 DEF OneTick
  <2> QED
    BY <1>2, <2>2, <2>3 DEF ReceiveTick, FlushAdd
<1>3. CASE FlushAdd
  <2>1. /\ handled # NoTick /\ tick = NoTick /\ handled = Done + FlushInterval
        /\ handled' = NoTick /\ UNCHANGED <<now, due, tick>>
    BY <1>3 DEF FlushAdd, Clock, OneTick
  <2>2. Done' = Done + FlushInterval
    BY <1>0, <2>1 DEF Done
  <2>3. OneTick'
    BY <1>0, <2>1, <2>2 DEF OneTick, Clock
  <2> QED
    BY <1>3, <2>2, <2>3
<1>4. CASE ~Pass /\ ~ReceiveTick /\ ~FlushAdd
  <2>1. UNCHANGED <<now, due, tick, handled>>
    BY <1>4, ClockStands
  <2>2. Done' = Done
    BY <2>1 DEF Done
  <2> QED
    BY <1>4, <2>1, <2>2 DEF OneTick
<1> QED
  BY <1>1, <1>2, <1>3, <1>4

\* When the tick was due whose key is current.
LEMMA KeyedSteps ==
    ASSUME Punctual, PunctualInv, [Next]_vars
    PROVE  /\ updateCurrentKey => Keyed' = Keyed + FlushInterval /\ Keyed = Done
                                  /\ handled = Done + FlushInterval
           /\ ~updateCurrentKey => Keyed' = Keyed
<1> USE DEF PunctualInv, RecentInv
<1>1. CASE updateCurrentKey
  BY <1>1, DoneSteps DEF updateCurrentKey, Keyed, FlushAdd, OneTick, Clock
<1>2. CASE FlushAdd
  BY <1>2, DoneSteps DEF FlushAdd, Keyed, updateCurrentKey
<1>3. CASE ~updateCurrentKey /\ ~FlushAdd
  <2>1. ticker' \in {"idle", "key"} <=> ticker \in {"idle", "key"}
    BY <1>3 DEF vars, clockVars, flushVars, checkVars, Next, Pass, ReceiveTick, PurgeBegins,
           PurgeEnds, KeepKey, PurgeKey, FlushSwap, FlushGet, FlushSet,
           LoadLen, LoadTotal, LoadCurrent, Increment, KeptBack
  <2> QED
    BY <1>3, <2>1, DoneSteps DEF Keyed
<1> QED
  BY <1>1, <1>2, <1>3

\* The key that a tick stores is the next one.
LEMMA KeyIsNext ==
    ASSUME Punctual, PunctualInv, updateCurrentKey, [Next]_vars
    PROVE  KeyAt(now) = currentKey + 1 /\ KeyAt(now) \notin DOMAIN Store
<1> USE DEF PunctualInv, RecentInv
<1>1. /\ Keyed = Done /\ handled = Done + FlushInterval /\ handled # NoTick
  BY KeyedSteps DEF Clock, updateCurrentKey
<1>2. /\ currentKey * Interval <= Done /\ Done + MaxLate < (currentKey + 1) * Interval
      /\ handled <= now /\ now <= handled + MaxLate
  BY <1>1 DEF NewKeys, Clock
<1>3. /\ now \in Nat /\ MaxLate \in Nat /\ Interval \in Nat \ {0}
  BY ClockTypes, Numbers, IntervalAssumption
<1>4. (currentKey + 1) * Interval <= now /\ now < (currentKey + 2) * Interval
  BY <1>1, <1>2, <1>3, DueTimes
<1>5. PICK q \in Nat : q = currentKey + 1
  BY DueTimes
<1>6. q * Interval <= now /\ now < (q + 1) * Interval
  <2>1. q + 1 = currentKey + 2
    BY <1>5, DueTimes
  <2> QED
    BY <1>4, <1>5, <2>1
<1>7. now \div Interval = q
  BY <1>3, <1>6, Quotient
<1>8. \A k \in DOMAIN Store : k \in Nat /\ k <= currentKey
  BY DEF NewKeys, Types, TypeOK
<1> QED
  BY <1>5, <1>7, <1>8, DueTimes DEF KeyAt

\* Every step keeps the keys in order.
LEMMA NewKeysKept ==
    ASSUME Punctual, PunctualInv, [Next]_vars PROVE NewKeys'
<1> USE DEF PunctualInv, RecentInv
<1>1. CASE updateCurrentKey
  <2>1. currentKey' = currentKey + 1 /\ DOMAIN Store' = DOMAIN Store \cup {currentKey + 1}
    BY <1>1, KeyIsNext, SetParts DEF updateCurrentKey
  <2>2. Keyed' = Keyed + Interval
    BY <1>1, KeyedSteps DEF Punctual
  <2>3. /\ (currentKey + 1) * Interval <= Keyed + Interval
        /\ Keyed + Interval + MaxLate < (currentKey + 2) * Interval
    <3>1. /\ Keyed \in Int /\ Interval \in Nat /\ MaxLate \in Nat
          /\ currentKey * Interval \in Nat
          /\ (currentKey + 1) * Interval = currentKey * Interval + Interval
          /\ (currentKey + 2) * Interval = currentKey * Interval + 2 * Interval
      BY DueTimes, IntervalAssumption
    <3>2. PICK m, p, q : /\ m = currentKey * Interval
                         /\ p = (currentKey + 1) * Interval
                         /\ q = (currentKey + 2) * Interval
      OBVIOUS
    <3>3. m <= Keyed /\ Keyed + MaxLate < p
      BY <3>2 DEF NewKeys
    <3>4. m \in Nat /\ p = m + Interval /\ q = m + 2 * Interval
      BY <3>1, <3>2
    <3>5. p <= Keyed + Interval /\ Keyed + Interval + MaxLate < q
      BY ONLY <3>1, <3>3, <3>4
    <3> QED
      BY <3>2, <3>5
  <2>4. currentKey' + 1 = currentKey + 2
    BY <2>1, DueTimes
  <2>5. \A k \in DOMAIN Store' : k <= currentKey'
    BY <2>1, DueTimes DEF NewKeys, Types, TypeOK
  <2> QED
    BY <2>1, <2>2, <2>3, <2>4, <2>5 DEF NewKeys
<1>2. CASE ~updateCurrentKey
  <2>1. Keyed' = Keyed
    BY <1>2, KeyedSteps
  <2>2. currentKey' = currentKey /\ DOMAIN Store' \subseteq DOMAIN Store
    <3>1. CASE Idle \/ FlushSwap \/ FlushGet \/ FlushAdd
      BY <3>1 DEF Idle, FlushSwap, FlushGet, FlushAdd
    <3>2. CASE FlushSet
      <4>1. Store' = StoreSet(currentKey, currentStored) /\ currentKey' = currentKey
        BY <3>2 DEF FlushSet
      <4>2. DOMAIN Store' = DOMAIN Store \cup {currentKey}
        BY ONLY <4>1 DEF StoreSet
      <4> QED
        BY <4>1, <4>2 DEF Types
    <3>3. ASSUME NEW k \in visit, PurgeKey(k)
          PROVE  currentKey' = currentKey /\ DOMAIN Store' \subseteq DOMAIN Store
      BY <3>3 DEF PurgeKey
    <3> QED
      BY <1>2, <3>1, <3>2, <3>3, IdleSteps
  <2> QED
    BY <2>1, <2>2 DEF NewKeys
<1> QED
  BY <1>1, <1>2

\* Every step keeps the total exact.
LEMMA ExactKept ==
    ASSUME Punctual, PunctualInv, [Next]_vars, Types'
    PROVE  Exact'
<1> USE DEF PunctualInv, RecentInv
<1>0. /\ Horizon \in Int /\ StoredBy(Store, Horizon) = total + Unadded
      /\ total \in Int /\ Unadded \in Nat
  BY Numbers, HandParts DEF Exact
<1>1. CASE Idle
  BY <1>0, <1>1 DEF Idle, Unadded, Exact, Horizon
<1>2. CASE updateCurrentKey
  <2>1. StoredBy(Store', Horizon) = StoredBy(Store, Horizon)
    BY <1>0, <1>2, KeyIsNext, KeyStep
  <2>2. total' = total /\ Unadded' = Unadded
    BY <1>2 DEF updateCurrentKey, Unadded
  <2> QED
    BY <1>0, <2>1, <2>2 DEF Exact, Horizon
<1>3. CASE FlushSwap \/ FlushGet
  BY <1>0, <1>3 DEF FlushSwap, FlushGet, Unadded, Exact, Horizon
<1>4. CASE FlushSet
  <2>1. /\ StoredBy(Store', Horizon) = StoredBy(Store, Horizon) + flushCount
        /\ currentStored.value = flushCount /\ flushCount \in Nat
    BY <1>0, <1>4, SetStep, HandParts
  <2>2. total' = total /\ Unadded = 0 /\ Unadded' = currentStored.value
    BY <1>4 DEF FlushSet, Unadded
  <2>3. StoredBy(Store', Horizon) = total' + Unadded'
    BY ONLY <1>0, <2>1, <2>2
  <2> QED
    BY <2>3 DEF Exact, Horizon
<1>5. CASE FlushAdd
  <2>1. Store' = Store /\ total' = total + Unadded /\ Unadded' = 0
    BY <1>5 DEF FlushAdd, Unadded
  <2>2. StoredBy(Store', Horizon) = total' + Unadded'
    BY ONLY <1>0, <2>1
  <2> QED
    BY <2>2 DEF Exact, Horizon
<1>6. ASSUME NEW k \in visit, PurgeKey(k) PROVE Exact'
  <2>1. /\ Store[k].value \in Nat /\ total' = total - Store[k].value
        /\ StoredBy(Store', Horizon) = StoredBy(Store, Horizon) - Store[k].value
    BY <1>0, <1>6, PurgeStep
  <2>2. Unadded = 0 /\ Unadded' = 0
    BY <1>6 DEF PurgeKey, Unadded
  <2>3. StoredBy(Store', Horizon) = total' + Unadded'
    BY ONLY <1>0, <2>1, <2>2
  <2> QED
    BY <2>3 DEF Exact, Horizon
<1> QED
  BY <1>1, <1>2, <1>3, <1>4, <1>5, <1>6, IdleSteps

\* A time in the life of an item, as a number.
LEMMA TtlIn ==
    ASSUME Types PROVE \A k \in DOMAIN Store : Store[k].ttl \in Nat
  BY ItemParts DEF Types, TypeOK

\* Every step keeps the items' times within bounds.
LEMMA LifetimesKept ==
    ASSUME Punctual, PunctualInv, [Next]_vars, Types'
    PROVE  Lifetimes'
<1> USE DEF PunctualInv, RecentInv
<1>0. /\ Done \in Int /\ Keyed \in Int /\ MaxLate \in Nat /\ Life \in Nat
      /\ FlushInterval \in Nat /\ now \in Nat /\ handled \in Int
      /\ \A k \in DOMAIN Store : Store[k].ttl \in Nat
  BY DueTimes, ClockTypes, Numbers, TtlIn
<1>1. CASE Idle
  <2>0. Store' = Store
    BY <1>1 DEF Idle
  <2>1. ~FlushAdd /\ ~updateCurrentKey
    BY <1>1 DEF Idle, FlushAdd, updateCurrentKey
  <2>2. Done' = Done /\ Keyed' = Keyed
    BY <2>1, DoneSteps, KeyedSteps
  <2>3. \A k \in DOMAIN Store' : /\ Store'[k].ttl >= Done'
                                 /\ Store'[k].ttl <= Keyed' + MaxLate + Life
    BY <2>0, <2>2 DEF Lifetimes
  <2>4. CASE UNCHANGED <<ticker, visit>>
    <3>1. handled' = handled \/ ticker' \in {"idle", "key"}
      BY <2>1, ClockStands DEF Pass, ReceiveTick
    <3> QED
      BY <2>0, <2>3, <2>4, <3>1 DEF Lifetimes
  <2>5. CASE PurgeBegins
    BY <2>0, <2>3, <2>5 DEF Lifetimes, PurgeBegins
  <2>6. CASE PurgeEnds
    BY <2>0, <2>3, <2>6 DEF Lifetimes, PurgeEnds, clockVars
  <2>7. CASE ReceiveTick
    BY <2>0, <2>3, <2>7 DEF Lifetimes, ReceiveTick
  <2>8. ASSUME NEW k \in visit, KeepKey(k) PROVE Lifetimes'
    <3>1. /\ ticker = "purge" /\ ticker' = "purge" /\ visit' = visit \ {k}
          /\ handled' = handled /\ handled # NoTick /\ k \in DOMAIN Store
      BY <2>8 DEF KeepKey, clockVars, Clock, Types, TypeOK
    <3>2. CASE k = currentKey
      <4>1. Store[k].ttl >= handled + Life
        BY <3>1, <3>2 DEF Flushing
      <4>2. Store[k].ttl >= handled
        BY <1>0, <3>1, <4>1
      <4> QED
        BY <2>0, <2>3, <3>1, <4>2 DEF Lifetimes
    <3>3. CASE k # currentKey
      <4>1. ~(now > Store[k].ttl) /\ handled <= now
        BY <2>8, <3>1, <3>3 DEF KeepKey, MustPurge, Clock
      <4>2. Store[k].ttl >= handled
        BY <1>0, <3>1, <4>1
      <4> QED
        BY <2>0, <2>3, <3>1, <4>2 DEF Lifetimes
    <3> QED
      BY <3>2, <3>3
  <2>9. \/ UNCHANGED <<ticker, visit>> \/ PurgeBegins \/ PurgeEnds \/ ReceiveTick
        \/ \E k \in visit : KeepKey(k)
        \/ updateCurrentKey \/ FlushSwap \/ FlushGet \/ FlushSet \/ FlushAdd
        \/ \E k \in visit : PurgeKey(k)
    BY DEF vars, clockVars, flushVars, checkVars, Next, Pass, LoadLen, LoadTotal,
           LoadCurrent, Increment, KeptBack
  <2>10. ASSUME NEW k \in visit, PurgeKey(k) PROVE UNCHANGED ticker /\ Store' # Store
    BY <2>10 DEF PurgeKey, Types, TypeOK
  <2> QED
    BY <1>1, <2>0, <2>1, <2>4, <2>5, <2>6, <2>7, <2>8, <2>9, <2>10
       DEF Idle, FlushSwap, FlushGet, FlushSet
<1>2. CASE updateCurrentKey
  <2>1. /\ Keyed' = Keyed + FlushInterval /\ Keyed = Done /\ handled = Done + FlushInterval
        /\ Done' = Done /\ ticker' = "lock"
    BY <1>2, DoneSteps, KeyedSteps DEF updateCurrentKey, FlushAdd
  <2>2. /\ DOMAIN Store' = DOMAIN Store \cup {KeyAt(now)} /\ Store'[KeyAt(now)] = FreshItem
        /\ \A j \in DOMAIN Store \ {KeyAt(now)} : Store'[j] = Store[j]
    <3>1. PICK n : n = KeyAt(now)
      OBVIOUS
    <3>2. Store' = StoreSet(n, FreshItem)
      BY <1>2, <3>1 DEF updateCurrentKey
    <3>3. /\ DOMAIN Store' = DOMAIN Store \cup {n} /\ Store'[n] = FreshItem
          /\ \A j \in DOMAIN Store \ {n} : Store'[j] = Store[j]
      BY ONLY <3>2 DEF StoreSet
    <3> QED
      BY <3>1, <3>3
  <2>3. FreshItem.ttl = now + Life /\ handled <= now /\ now <= handled + MaxLate
    BY <1>2, ClockTypes, FreshIn DEF Clock, updateCurrentKey
  <2>4. FreshItem.ttl >= Done /\ FreshItem.ttl <= Keyed + FlushInterval + MaxLate + Life
    BY ONLY <1>0, <2>1, <2>3
  <2>5. \A k \in DOMAIN Store : /\ Store[k].ttl >= Done
                                /\ Store[k].ttl <= Keyed + FlushInterval + MaxLate + Life
    BY <1>0 DEF Lifetimes
  <2>6. \A k \in DOMAIN Store' :
           /\ Store'[k].ttl >= Done'
           /\ Store'[k].ttl <= Keyed' + MaxLate + Life
    BY <2>1, <2>2, <2>4, <2>5
  <2> QED
    BY <2>1, <2>6 DEF Lifetimes
<1>3. CASE FlushSwap \/ FlushGet
  <2>1. Store' = Store /\ handled' = handled /\ ~FlushAdd /\ ~updateCurrentKey
        /\ ticker \in {"swap", "get"} /\ ticker' \in {"get", "set"}
    BY <1>3 DEF FlushSwap, FlushGet, clockVars, FlushAdd, updateCurrentKey
  <2>2. Done' = Done /\ Keyed' = Keyed
    BY <2>1, DoneSteps, KeyedSteps
  <2> QED
    BY <2>1, <2>2 DEF Lifetimes
<1>4. CASE FlushSet
  <2>1. handled' = handled /\ ~FlushAdd /\ ~updateCurrentKey
        /\ ticker = "set" /\ ticker' = "add"
    BY <1>4 DEF FlushSet, clockVars, FlushAdd, updateCurrentKey
  <2>2. Done' = Done /\ Keyed' = Keyed
    BY <2>1, DoneSteps, KeyedSteps
  <2>3. DOMAIN Store' = DOMAIN Store /\ \A j \in DOMAIN Store : Store'[j].ttl = Store[j].ttl
    BY <1>0, <1>4, SetStep
  <2> QED
    BY <2>1, <2>2, <2>3 DEF Lifetimes
<1>5. CASE FlushAdd
  <2>1. Store' = Store /\ ticker = "add" /\ ticker' = "idle" /\ ~updateCurrentKey
        /\ handled # NoTick
    BY <1>5 DEF FlushAdd, updateCurrentKey, Clock
  <2>2. Done' = Done + FlushInterval /\ Keyed' = Keyed /\ handled = Done + FlushInterval
    BY <1>5, <2>1, DoneSteps, KeyedSteps DEF OneTick
  <2> QED
    BY <2>1, <2>2 DEF Lifetimes
<1>6. ASSUME NEW k \in visit, PurgeKey(k) PROVE Lifetimes'
  <2>1. handled' = handled /\ ~FlushAdd /\ ~updateCurrentKey
        /\ ticker = "purge" /\ ticker' = "purge" /\ visit' = visit \ {k}
        /\ DOMAIN Store' = DOMAIN Store \ {k}
    BY <1>6 DEF PurgeKey, clockVars, FlushAdd, updateCurrentKey
  <2>2. Done' = Done /\ Keyed' = Keyed
    BY <2>1, DoneSteps, KeyedSteps
  <2>3. \A j \in DOMAIN Store' : j \in DOMAIN Store /\ Store'[j] = Store[j]
    BY <1>0, <1>6, PurgeStep
  <2> QED
    BY <2>1, <2>2, <2>3 DEF Lifetimes
<1> QED
  BY <1>1, <1>2, <1>3, <1>4, <1>5, <1>6, IdleSteps

\* Only Increment lets what is counted grow.
LEMMA SeenSteps ==
    ASSUME Types, Types', Flushing, [Next]_vars
    PROVE  /\ Seen \in Int /\ Seen' \in Int /\ currentCount \in Nat /\ currentCount' \in Nat
           /\ \A d \in Deltas : Increment(d) => Seen' = Seen + d /\ d \in Nat
           /\ (~ \E d \in Deltas : Increment(d)) =>
                 UNCHANGED added /\ Seen' <= Seen /\ currentCount' <= currentCount
           /\ \A k \in visit : PurgeKey(k) => Seen' = Seen - Store[k].value
<1>0. /\ total \in Int /\ currentCount \in Nat /\ InHand \in Nat /\ 0 \in Int
      /\ total' \in Int /\ currentCount' \in Nat /\ InHand' \in Nat
  BY HandParts, HandPartsNext
<1>1. Seen \in Int /\ Seen' \in Int
  BY <1>0 DEF Seen
<1>2. ASSUME NEW d \in Deltas, Increment(d) PROVE Seen' = Seen + d /\ d \in Nat
  <2>1. currentCount' = currentCount + d /\ d \in Nat /\ total' = total /\ InHand' = InHand
    BY <1>0, <1>2, FromMoves DEF Idle, InHand
  <2> QED
    BY <1>0, <2>1 DEF Seen
<1>3. ASSUME NEW k \in visit, PurgeKey(k)
      PROVE  /\ Seen' = Seen - Store[k].value /\ Store[k].value \in Nat
             /\ currentCount' = currentCount
  <2>1. /\ Store[k].value \in Nat /\ total' = total - Store[k].value
        /\ currentCount' = currentCount
    BY <1>0, <1>3, PurgeStep
  <2>2. InHand' = InHand
    BY <1>3 DEF PurgeKey, InHand
  <2> QED
    BY <1>0, <2>1, <2>2 DEF Seen
<1>4. ASSUME ~ \E d \in Deltas : Increment(d)
      PROVE  UNCHANGED added /\ Seen' <= Seen /\ currentCount' <= currentCount
  <2>0. UNCHANGED added
    BY <1>4, AddedStands
  <2>1. CASE Idle /\ UNCHANGED currentCount
    <3>1. total' = total /\ InHand' = InHand /\ currentCount' = currentCount
      BY <2>1 DEF Idle, InHand
    <3> QED
      BY <1>0, <2>0, <3>1 DEF Seen
  <2>2. CASE updateCurrentKey
    <3>1. total' = total /\ InHand' = InHand /\ currentCount' = currentCount
      BY <2>2 DEF updateCurrentKey, InHand
    <3> QED
      BY <1>0, <2>0, <3>1 DEF Seen
  <2>3. CASE FlushSwap
    <3>1. total' = total /\ InHand = 0 /\ InHand' = currentCount /\ currentCount' = 0
      BY <2>3 DEF FlushSwap, InHand
    <3> QED
      BY <1>0, <2>0, <3>1 DEF Seen
  <2>4. CASE FlushGet
    <3>1. total' = total /\ InHand' = InHand /\ currentCount' = currentCount
      BY <2>4 DEF FlushGet, InHand
    <3> QED
      BY <1>0, <2>0, <3>1 DEF Seen
  <2>5. CASE FlushSet
    <3>1. total' = total /\ InHand' = InHand /\ currentCount' = currentCount
      BY <2>5 DEF FlushSet, Flushing, InHand
    <3> QED
      BY <1>0, <2>0, <3>1 DEF Seen
  <2>6. CASE FlushAdd
    <3>1. total' = total + InHand /\ InHand' = 0 /\ currentCount' = currentCount
      BY <2>6 DEF FlushAdd, InHand
    <3> QED
      BY <1>0, <2>0, <3>1 DEF Seen
  <2>7. CASE \E k \in visit : PurgeKey(k)
    BY <1>0, <1>1, <1>3, <2>0, <2>7
  <2>8. Idle => UNCHANGED currentCount \/ (\E d \in Deltas : Increment(d)) \/ FlushSwap
    BY DEF vars, clockVars, flushVars, checkVars, Next, Pass, ReceiveTick, PurgeBegins,
           PurgeEnds, KeepKey, PurgeKey, LoadLen, LoadTotal, LoadCurrent, KeptBack,
           updateCurrentKey, FlushGet, FlushSet, FlushAdd
  <2> QED
    BY <1>4, <2>1, <2>2, <2>3, <2>4, <2>5, <2>6, <2>7, <2>8, IdleSteps
<1> QED
  BY <1>0, <1>1, <1>2, <1>3, <1>4

\* A time that a step leaves alone, as a constant.
LEMMA FromAt ==
    ASSUME NEW t
    PROVE  /\ Done' = t => From(Done)' = From(t)'
           /\ (Done + FlushInterval)' = t => From(Done + FlushInterval)' = From(t)'
  BY DEF From, Since, BytesIn

\* Every step keeps currentCount within what came after the last swap.
LEMMA UnflushedKept ==
    ASSUME Punctual, PunctualInv, [Next]_vars, Types'
    PROVE  Unflushed'
<1> USE DEF PunctualInv, RecentInv
<1>0. /\ Done \in Int /\ FlushInterval \in Nat /\ now \in Nat /\ handled \in Int
      /\ added \in [Instants -> Nat] /\ now \in Instants
  BY DueTimes, ClockTypes, Numbers, HandParts
<1>1. PICK t, s \in Int : t = Done /\ s = Done + FlushInterval
  BY <1>0
<1>2. From(t) \in Nat /\ From(s) \in Nat
  BY <1>0, FromParts
<1>3. /\ currentCount <= From(t)
      /\ ticker \in {"get", "set", "add"} => currentCount <= From(s)
  BY <1>1 DEF Unflushed
<1>4. currentCount \in Nat /\ currentCount' \in Nat
  BY SeenSteps
<1>5. ASSUME NEW d \in Deltas, Increment(d) PROVE Unflushed'
  <2>1. /\ From(t)' = From(t) + (IF t <= now THEN d ELSE 0)
        /\ From(s)' = From(s) + (IF s <= now THEN d ELSE 0)
        /\ currentCount' = currentCount + d /\ d \in Nat
        /\ UNCHANGED <<now, due, tick, handled, ticker>>
    BY <1>5, FromMoves
  <2>2. Done' = t /\ (Done + FlushInterval)' = s
    BY <1>1, <2>1 DEF Done
  <2>3. t <= now
    BY <1>1 DEF OneTick
  <2>4. ticker \in {"get", "set", "add"} => s <= now
    BY <1>1 DEF OneTick, Clock
  <2>5. /\ currentCount' <= From(t)'
        /\ ticker' \in {"get", "set", "add"} => currentCount' <= From(s)'
    BY <1>2, <1>3, <1>4, <2>1, <2>3, <2>4
  <2> QED
    BY <2>2, <2>5, FromAt DEF Unflushed
<1>6. CASE ~ \E d \in Deltas : Increment(d)
  <2>1. UNCHANGED added /\ currentCount' <= currentCount
    BY <1>6, SeenSteps
  <2>2. From(t)' = From(t) /\ From(s)' = From(s)
    BY <2>1, FromStands
  <2>3. CASE FlushSwap
    <3>1. currentCount' = 0 /\ Done' = t
      BY <1>1, <2>3, DoneSteps DEF FlushSwap, FlushAdd
    <3>2. (Done + FlushInterval)' = s
      BY <1>1, <3>1
    <3>3. currentCount' <= From(t)' /\ currentCount' <= From(s)'
      BY <1>2, <2>2, <3>1
    <3> QED
      BY <3>1, <3>2, <3>3, FromAt DEF Unflushed
  <2>4. CASE FlushAdd
    <3>1. Done' = s /\ ticker' = "idle" /\ ticker = "add"
      BY <1>1, <2>4, DoneSteps DEF FlushAdd
    <3>2. currentCount' <= From(s)'
      BY <1>2, <1>3, <1>4, <2>1, <2>2, <3>1
    <3> QED
      BY <3>1, <3>2, FromAt DEF Unflushed
  <2>5. CASE ~FlushSwap /\ ~FlushAdd
    <3>1. Done' = t
      BY <1>1, <2>5, DoneSteps
    <3>2. (Done + FlushInterval)' = s
      BY <1>1, <3>1
    <3>3. ticker' \in {"get", "set", "add"} => ticker \in {"get", "set", "add"}
      BY <2>5 DEF vars, clockVars, flushVars, checkVars, Next, Pass, ReceiveTick,
             updateCurrentKey, PurgeBegins, PurgeEnds, KeepKey, PurgeKey, FlushGet,
             FlushSet, LoadLen, LoadTotal, LoadCurrent, Increment, KeptBack
    <3>4. /\ currentCount' <= From(t)'
          /\ ticker' \in {"get", "set", "add"} => currentCount' <= From(s)'
      BY <1>2, <1>3, <1>4, <2>1, <2>2, <3>3
    <3> QED
      BY <3>1, <3>2, <3>4, FromAt DEF Unflushed
  <2> QED
    BY <2>3, <2>4, <2>5
<1> QED
  BY <1>5, <1>6

\* The bound of one tick, after a step that ends none.
LEMMA BoundStep ==
    ASSUME Punctual, PunctualInv, [Next]_vars, Types', ~FlushAdd,
           NEW t \in Int, t <= Done, NEW e \in Int,
           Seen <= From(t) + StoredBy(Store, e)
    PROVE  Seen' <= From(t)' + StoredBy(Store', e)
<1> USE DEF PunctualInv, RecentInv
<1>0. /\ Seen \in Int /\ Seen' \in Int /\ From(t) \in Nat /\ StoredBy(Store, e) \in Nat
  <2>1. IsStore(Store) /\ added \in [Instants -> Nat] /\ now \in Instants
    BY HandParts
  <2>2. From(t) \in Nat
    BY <2>1, FromParts
  <2>3. StoredBy(Store, e) \in Nat
    BY ONLY <2>1, e \in Int, StoredParts
  <2> QED
    BY <2>2, <2>3, SeenSteps
<1>1. ASSUME NEW d \in Deltas, Increment(d)
      PROVE  Seen' <= From(t)' + StoredBy(Store', e)
  <2>1. /\ From(t)' = From(t) + (IF t <= now THEN d ELSE 0)
        /\ Store' = Store /\ d \in Nat
    BY <1>1, FromMoves DEF Idle
  <2>2. t <= now
    BY DueTimes, ClockTypes DEF OneTick
  <2>3. Seen' = Seen + d
    BY <1>1, SeenSteps
  <2> QED
    BY <1>0, <2>1, <2>2, <2>3
<1>2. CASE ~ \E d \in Deltas : Increment(d)
  <2>1. UNCHANGED added /\ Seen' <= Seen
    BY <1>2, SeenSteps
  <2>2. From(t)' = From(t)
    BY <2>1, FromStands
  <2>3. CASE Idle \/ FlushSwap \/ FlushGet
    <3>1. Store' = Store
      BY <2>3 DEF Idle, FlushSwap, FlushGet
    <3> QED
      BY <1>0, <2>1, <2>2, <3>1
  <2>4. CASE updateCurrentKey
    <3>1. StoredBy(Store', e) = StoredBy(Store, e)
      BY <2>4, KeyIsNext, KeyStep
    <3> QED
      BY <1>0, <2>1, <2>2, <3>1
  <2>5. CASE FlushSet
    <3>1. /\ StoredBy(Store', e) = StoredBy(Store, e) +
                (IF Store[currentKey].ttl <= e THEN flushCount ELSE 0)
          /\ flushCount \in Nat
      BY <2>5, SetStep, HandParts
    <3> QED
      BY <1>0, <2>1, <2>2, <3>1
  <2>6. ASSUME NEW k \in visit, PurgeKey(k)
        PROVE  Seen' <= From(t)' + StoredBy(Store', e)
    <3>1. /\ Store[k].value \in Nat
          /\ StoredBy(Store', e) = StoredBy(Store, e) -
                (IF Store[k].ttl <= e THEN Store[k].value ELSE 0)
      BY <2>6, PurgeStep
    <3>2. Seen' = Seen - Store[k].value
      BY <2>6, SeenSteps
    <3> QED
      BY <1>0, <2>2, <3>1, <3>2
  <2> QED
    BY <2>3, <2>4, <2>5, <2>6, IdleSteps
<1> QED
  BY <1>1, <1>2

\* The tick that FlushAdd ends: all that is stored was stored by then.
LEMMA BoundNew ==
    ASSUME Punctual, PunctualInv, [Next]_vars, Types', FlushAdd
    PROVE  Seen' <= From(Done + FlushInterval)
                       + StoredBy(Store, Done + FlushInterval + MaxLate + Life)
<1> USE DEF PunctualInv, RecentInv
<1>0. /\ Done \in Int /\ FlushInterval \in Nat /\ MaxLate \in Nat /\ Life \in Nat
      /\ Horizon \in Nat
  BY DueTimes, Numbers
<1>1. PICK e \in Int : e = Done + FlushInterval + MaxLate + Life
  BY <1>0
<1>2. Keyed = Done + FlushInterval
  BY DEF FlushAdd, Keyed
<1>3. \A k \in DOMAIN Store : Store[k].ttl <= e /\ Store[k].ttl <= Horizon
  BY <1>1, <1>2, ItemParts DEF Lifetimes, Types, TypeOK
<1>4. StoredBy(Store, e) = StoredBy(Store, Horizon)
  <2>1. IsStore(Store) /\ Horizon \in Int
    BY <1>0, HandParts
  <2> QED
    BY ONLY <1>1, <1>3, <2>1, StoredGrows
<1>5. StoredBy(Store, Horizon) = total + InHand
  BY DEF Exact, FlushAdd, Unadded, InHand
<1>6. currentCount <= From(Done + FlushInterval)
  BY DEF Unflushed, FlushAdd
<1>7. From(Done + FlushInterval) \in Nat
  <2>1. Done + FlushInterval \in Int /\ added \in [Instants -> Nat] /\ now \in Instants
    BY <1>0, HandParts
  <2> QED
    BY <2>1, FromParts
<1>8. Seen' <= Seen /\ Seen' \in Int /\ Seen \in Int
  BY SeenSteps DEF FlushAdd, Increment, flushVars
<1>9. /\ total \in Int /\ currentCount \in Nat /\ InHand \in Nat
      /\ Seen = total + currentCount + InHand
  BY <1>0, HandParts DEF Seen
<1>10. Seen' <= From(Done + FlushInterval) + StoredBy(Store, e)
  BY ONLY <1>4, <1>5, <1>6, <1>7, <1>8, <1>9
<1> QED
  BY <1>1, <1>10

\* Every step keeps the bounds.
LEMMA BoundedKept ==
    ASSUME Punctual, PunctualInv, [Next]_vars, Types'
    PROVE  Bounded'
<1> USE DEF PunctualInv, RecentInv
<1>0. /\ Done \in Int /\ FlushInterval \in Nat /\ MaxLate \in Nat /\ Life \in Nat
      /\ StoreMultiplier \in Nat
  BY DueTimes, Numbers, IntervalAssumption
<1> SUFFICES ASSUME NEW j \in 0 .. StoreMultiplier + 1
             PROVE  (Seen <= From(Done - j * FlushInterval)
                        + StoredBy(Store, Done - j * FlushInterval + MaxLate + Life))'
  BY DEF Bounded
<1>1. PICK n \in Nat : n = j * FlushInterval
  <2>1. j \in Nat
    BY <1>0
  <2> QED
    BY ONLY <1>0, <2>1, Z3
<1>2. CASE ~FlushAdd
  <2>1. PICK t \in Int : t = Done - n
    BY <1>0
  <2>2. Done' - n = t
    BY <1>2, <2>1, DoneSteps
  <2>3. Seen <= From(t) + StoredBy(Store, t + MaxLate + Life)
    BY <1>1, <2>1 DEF Bounded
  <2>4. PICK e \in Int : e = t + MaxLate + Life
    BY <1>0
  <2>5. t <= Done
    BY <1>0, <2>1
  <2>6. Seen' <= From(t)' + StoredBy(Store', e)
    BY <1>2, <2>3, <2>4, <2>5, BoundStep
  <2>7. From(Done - n)' = From(t)'
    BY <2>2 DEF From, Since, BytesIn
  <2> QED
    BY <1>1, <2>2, <2>4, <2>6, <2>7 DEF Life
<1>3. CASE FlushAdd
  <2>1. PICK t \in Int : t = Done + FlushInterval - n
    BY <1>0
  <2>2. Done' - n = t
    <3>1. Done' = Done + FlushInterval
      BY <1>3, DoneSteps
    <3> QED
      BY <1>0, <2>1, <3>1
  <2>3. Store' = Store /\ UNCHANGED added
    BY <1>3 DEF FlushAdd
  <2>4. Seen' <= From(t) + StoredBy(Store, t + MaxLate + Life)
    <3>1. CASE j = 0
      <4>1. t = Done + FlushInterval
        BY <1>0, <1>1, <2>1, <3>1
      <4> QED
        BY <1>3, <4>1, BoundNew
    <3>2. CASE j # 0
      <4>1. PICK i \in 0 .. StoreMultiplier + 1 : i = j - 1
        BY <1>0, <3>2
      <4>2. i * FlushInterval = n - FlushInterval
        <5>1. i \in Int /\ j \in Int
          BY <1>0
        <5> QED
          BY ONLY <1>0, <1>1, <4>1, <5>1, Z3
      <4>3. Done - i * FlushInterval = t
        BY <1>0, <2>1, <4>2
      <4>4. Seen <= From(t) + StoredBy(Store, t + MaxLate + Life)
        BY <4>1, <4>3 DEF Bounded
      <4>5. Seen' <= Seen /\ Seen' \in Int /\ Seen \in Int
        BY <1>3, SeenSteps DEF FlushAdd, Increment, flushVars
      <4>6. From(t) \in Nat
        BY <1>0, HandParts, FromParts
      <4>7. StoredBy(Store, t + MaxLate + Life) \in Nat
        <5>1. t + MaxLate + Life \in Int /\ IsStore(Store)
          BY <1>0, HandParts
        <5> QED
          BY ONLY <5>1, StoredParts
      <4> QED
        BY ONLY <4>4, <4>5, <4>6, <4>7
    <3> QED
      BY <3>1, <3>2
  <2>5. From(Done - n)' = From(t)
    BY <2>2, <2>3 DEF From, Since, BytesIn
  <2> QED
    BY <1>1, <2>2, <2>3, <2>4, <2>5 DEF Life
<1> QED
  BY <1>2, <1>3

\* What is counted came in the window.
LEMMA StateBound ==
    ASSUME Punctual, PunctualInv
    PROVE  Seen <= BytesIn(Last(Window, now))
<1> USE DEF PunctualInv, RecentInv
<1>0. /\ Done \in Int /\ FlushInterval \in Nat /\ MaxLate \in Nat /\ Life \in Nat
      /\ StoreMultiplier \in Nat /\ MaxLate < FlushInterval /\ now \in Nat /\ due \in Nat
      /\ tick \in Int /\ handled \in Int /\ Life = StoreMultiplier * FlushInterval
  BY DueTimes, Numbers, ClockTypes, IntervalAssumption DEF Life
<1>1. /\ (StoreMultiplier + 1) * FlushInterval = Life + FlushInterval
      /\ (StoreMultiplier + 2) * FlushInterval = Life + 2 * FlushInterval
  BY ONLY <1>0, Z3
<1>2. PICK t \in Int : t = Done - (Life + FlushInterval)
  BY <1>0
<1>3. PICK e \in Int : e = t + MaxLate + Life
  BY <1>0
<1>4. Seen <= From(t) + StoredBy(Store, e)
  <2>1. StoreMultiplier + 1 \in 0 .. StoreMultiplier + 1
    BY <1>0
  <2> QED
    BY <1>1, <1>2, <1>3, <2>1 DEF Bounded
<1>5. /\ IsStore(Store) /\ added \in [Instants -> Nat] /\ now \in Instants
      /\ Since(t) \in SUBSET Instants /\ From(t) \in Nat
  BY <1>0, HandParts, FromParts
<1>6. StoredBy(Store, e) = 0
  <2>1. e < Done
    BY <1>0, <1>2, <1>3
  <2>2. \A k \in DOMAIN Store : Store[k].ttl > e
    BY <1>0, <2>1, TtlIn DEF Lifetimes
  <2> QED
    BY ONLY <1>3, <1>5, <2>2, StoredParts
<1>7. now <= Done + FlushInterval + MaxLate
  <2>1. CASE handled # NoTick
    BY <2>1 DEF OneTick, Clock
  <2>2. CASE tick # NoTick
    BY <2>2 DEF OneTick, Clock
  <2>3. CASE handled = NoTick /\ tick = NoTick
    BY <1>0, <2>3 DEF Done, Clock
  <2> QED
    BY <2>1, <2>2, <2>3
<1>8. PICK S \in SUBSET Since(t) : S = {u \in Since(t) : u <= now}
  OBVIOUS
<1>9. BytesIn(S) = From(t)
  <2>1. \A u \in Since(t) \ S : added[u] = 0
    BY <1>0, <1>5, <1>8, Numbers DEF NotYet, Instants
  <2> QED
    BY <1>5, <2>1, BytesPart DEF From
<1>10. S \subseteq Last(Window, now) /\ Last(Window, now) \subseteq Instants
  <2>1. t > now - Window
    BY <1>0, <1>1, <1>2, <1>7 DEF Window
  <2>2. Window \in Int
    BY <1>0, <1>1 DEF Window
  <2>3. \A u \in S : u \in Instants /\ u >= t /\ u <= now /\ u \in Int
    BY <1>8, Numbers DEF Since, Instants
  <2>4. \A u \in S : u > now - Window
    BY <1>0, <2>1, <2>2, <2>3
  <2> QED
    BY <2>3, <2>4 DEF Last, Instants
<1>11. BytesIn(S) <= BytesIn(Last(Window, now))
  BY <1>5, <1>10, BytesPart
<1>12. Seen \in Int
  BY <1>0, HandParts DEF Seen
<1>13. Seen <= BytesIn(S)
  BY ONLY <1>4, <1>5, <1>6, <1>9, <1>12
<1>14. BytesIn(S) \in Nat /\ BytesIn(Last(Window, now)) \in Nat
  BY <1>5, <1>10, BytesPart
<1> QED
  BY ONLY <1>11, <1>12, <1>13, <1>14

\* Every step keeps what a check has read.
LEMMA CheckingKept ==
    ASSUME Punctual, PunctualInv, [Next]_vars, Types'
    PROVE  Checking'
<1> USE DEF PunctualInv, RecentInv
<1>0. /\ Seen \in Int /\ Seen' \in Int /\ currentCount \in Nat /\ currentCount' \in Nat
      /\ total \in Int /\ InHand \in Nat /\ loaded \in Int
      /\ Seen = total + currentCount + InHand
  <2>1. 0 \in Int
    OBVIOUS
  <2> QED
    BY <2>1, SeenSteps, HandParts DEF Seen, Types, TypeOK
<1>1. WindowBytes \in Nat
  <2>1. Last(Window, since) \in SUBSET Instants
    BY DEF Last, Instants
  <2>2. added \in [Instants -> Nat]
    BY DEF Types, TypeOK, Instants
  <2> QED
    BY <2>1, <2>2, BytesPart DEF WindowBytes
<1>2. CASE LoadLen
  <2>1. /\ check' = "total" /\ since' = now /\ UNCHANGED added
        /\ Seen' = Seen
    BY <1>2 DEF LoadLen, Seen, InHand, flushVars
  <2>2. WindowBytes' = BytesIn(Last(Window, now))
    BY <2>1 DEF WindowBytes, Last, Window, BytesIn
  <2> QED
    BY <2>1, <2>2, StateBound DEF Checking
<1>3. CASE LoadTotal
  <2>1. /\ check = "total" /\ check' = "current" /\ loaded' = total
        /\ UNCHANGED <<since, added, currentCount>>
    BY <1>3 DEF LoadTotal
  <2>2. WindowBytes' = WindowBytes
    BY <2>1 DEF WindowBytes, Last, Window, BytesIn
  <2>3. Seen <= WindowBytes
    BY <2>1 DEF Checking
  <2>4. loaded' + currentCount' <= WindowBytes'
    BY ONLY <1>0, <1>1, <2>1, <2>2, <2>3
  <2> QED
    BY <2>1, <2>4 DEF Checking
<1>4. CASE LoadCurrent
  <2>1. /\ check = "current" /\ check' = "checked" /\ loaded' = loaded + currentCount
        /\ UNCHANGED <<since, added, length>>
    BY <1>4 DEF LoadCurrent
  <2>2. WindowBytes' = WindowBytes
    BY <2>1 DEF WindowBytes, Last, Window, BytesIn
  <2>3. loaded' <= WindowBytes'
    BY <2>1, <2>2 DEF Checking
  <2>4. over' = (Mean(loaded', length') > Limit)
    BY <1>4, <2>1 DEF LoadCurrent
  <2>5. check' # "total" /\ check' # "current"
    BY <2>1
  <2> QED
    BY <2>3, <2>4, <2>5 DEF Checking, Mean
<1>5. CASE KeptBack \/ \E d \in Deltas : Increment(d)
  <2>1. check' = "idle"
    BY <1>5 DEF KeptBack, Increment, Forget
  <2> QED
    BY <2>1 DEF Checking
<1>6. CASE UNCHANGED checkVars /\ ~ \E d \in Deltas : Increment(d)
  <2>1. UNCHANGED <<check, length, loaded, over, since>>
    BY <1>6 DEF checkVars
  <2>2. UNCHANGED added /\ Seen' <= Seen /\ currentCount' <= currentCount
    BY <1>6, SeenSteps
  <2>3. WindowBytes' = WindowBytes
    BY <2>1, <2>2 DEF WindowBytes, Last, Window, BytesIn
  <2>4. (check = "total" => Seen <= WindowBytes)'
    <3>1. check = "total" => Seen <= WindowBytes
      BY DEF Checking
    <3> QED
      BY ONLY <1>0, <1>1, <2>1, <2>2, <2>3, <3>1
  <2>5. (check = "current" => loaded + currentCount <= WindowBytes)'
    <3>1. check = "current" => loaded + currentCount <= WindowBytes
      BY DEF Checking
    <3>2. check' = check /\ loaded' = loaded
      BY <2>1
    <3>3. loaded \in Int /\ currentCount \in Nat /\ currentCount' \in Nat
      BY <1>0
    <3>4. currentCount' <= currentCount
      BY <2>2
    <3>5. ASSUME check' = "current" PROVE loaded' + currentCount' <= WindowBytes'
      <4>1. loaded + currentCount <= WindowBytes
        BY <3>1, <3>2, <3>5
      <4>2. PICK l, w \in Int : l = loaded /\ w = WindowBytes
        BY <1>1, <3>3
      <4>3. PICK c, d \in Nat : c = currentCount /\ d = currentCount'
        BY <3>3
      <4>4. l + c <= w /\ d <= c
        BY <3>4, <4>1, <4>2, <4>3
      <4>5. l + d <= w
        BY ONLY <4>4, l \in Int, w \in Int, c \in Nat, d \in Nat
      <4>6. loaded' = l /\ WindowBytes' = w
        BY <2>3, <3>2, <4>2
      <4> QED
        BY <4>3, <4>5, <4>6
    <3> QED
      BY <3>5
  <2>6. (check = "checked" => loaded <= WindowBytes)'
    BY <2>1, <2>3 DEF Checking
  <2>7. (check = "checked" => over = (Mean(loaded, length) > Limit))'
    BY <2>1 DEF Checking, Mean
  <2> QED
    BY <2>4, <2>5, <2>6, <2>7 DEF Checking
<1>7. \/ UNCHANGED checkVars \/ LoadLen \/ LoadTotal \/ LoadCurrent \/ KeptBack
      \/ \E d \in Deltas : Increment(d)
  BY DEF vars, Next, Pass, ReceiveTick, updateCurrentKey, PurgeBegins, PurgeEnds, KeepKey,
         PurgeKey, FlushSwap, FlushGet, FlushSet, FlushAdd
<1> QED
  BY <1>2, <1>3, <1>4, <1>5, <1>6, <1>7

\* The invariant of punctual ticks holds initially.
LEMMA InitPunctual ==
    ASSUME Punctual, Init PROVE PunctualInv
<1>1. RecentInv
  BY InitRecent
<1>2. /\ now \in Nat /\ now + MaxLate < Interval /\ Interval \in Nat /\ Interval > 0
      /\ due = now + FlushInterval /\ tick = NoTick /\ handled = NoTick /\ ticker = "idle"
      /\ FlushInterval \in Nat /\ MaxLate \in Nat /\ Life \in Nat /\ StoreMultiplier \in Nat
  BY Numbers, IntervalAssumption DEF Init, Punctual
<1>3. Done = now /\ Keyed = now
  BY <1>2 DEF Done, Keyed
<1>4. OneTick
  BY <1>2, <1>3 DEF OneTick
<1>5. currentKey = 0 /\ DOMAIN Store = {0} /\ Store[0].ttl = now + Life
  <2>1. 0 * Interval <= now /\ now < (0 + 1) * Interval
    BY <1>2
  <2>2. now \div Interval = 0
    BY <1>2, <2>1, Quotient
  <2>3. currentKey = 0
    BY <2>2 DEF Init, KeyAt
  <2>4. Store = [k \in {currentKey} |-> FreshItem] /\ FreshItem.ttl = now + Life
    BY DEF Init, FreshItem, Life
  <2> QED
    BY <2>3, <2>4
<1>6. NewKeys
  BY <1>2, <1>3, <1>5 DEF NewKeys
<1>7. Exact
  BY InitZero, Numbers DEF Exact
<1>8. Lifetimes
  BY <1>2, <1>3, <1>5 DEF Lifetimes
<1>9. Unflushed
  BY <1>2, <1>3, InitZero DEF Unflushed
<1>10. Bounded
  <2>1. ASSUME NEW j \in 0 .. StoreMultiplier + 1
        PROVE  Seen <= From(Done - j * FlushInterval)
                  + StoredBy(Store, Done - j * FlushInterval + MaxLate + Life)
    <3>1. PICK t \in Int : t = Done - j * FlushInterval
      BY <1>2, <1>3
    <3>2. t + MaxLate + Life \in Int
      BY <1>2
    <3>3. Seen = 0
      BY InitZero DEF Seen
    <3>4. From(t) = 0 /\ StoredBy(Store, t + MaxLate + Life) = 0
      BY <3>2, InitZero
    <3> QED
      BY <3>1, <3>3, <3>4
  <2> QED
    BY <2>1 DEF Bounded
<1>11. Checking
  BY DEF Init, Checking
<1> QED
  BY <1>1, <1>4, <1>6, <1>7, <1>8, <1>9, <1>10, <1>11 DEF PunctualInv

\* The invariant behind the next two theorems, of a limiter that is set up as cmd/run.go
\* does it (the same interval for keys and flushes) and whose goroutine handles each tick
\* in the interval in which it is due: every tick then stores a key of its own, items live
\* for their StoreMultiplier intervals, and what is counted can be traced to when it came.
THEOREM PunctualInvariant == Punctual => (Spec => []PunctualInv)
<1> SUFFICES ASSUME Punctual PROVE Spec => []PunctualInv
  OBVIOUS
<1>1. Init => PunctualInv
  BY InitPunctual
<1>2. PunctualInv /\ [Next]_vars => PunctualInv'
  <2> SUFFICES ASSUME PunctualInv, [Next]_vars PROVE PunctualInv'
    OBVIOUS
  <2>0. RecentInv
    BY DEF PunctualInv
  <2>1. Types'
    BY <2>0, TypesKept DEF RecentInv
  <2>2. Clock' /\ Flushing' /\ NotYet'
    BY <2>0, ClockKept, FlushingKept, NotYetKept DEF RecentInv
  <2>3. Covered'
    BY <2>0, <2>1, CoveredKept
  <2>4. OneTick' /\ NewKeys'
    BY DoneSteps, NewKeysKept
  <2>5. Exact' /\ Lifetimes'
    BY <2>1, ExactKept, LifetimesKept
  <2>6. Unflushed' /\ Bounded' /\ Checking'
    BY <2>1, UnflushedKept, BoundedKept, CheckingKept
  <2> QED
    BY <2>1, <2>2, <2>3, <2>4, <2>5, <2>6 DEF PunctualInv, RecentInv
<1> QED
  BY <1>1, <1>2, PTL DEF Spec

\* Between two ticks TotalStoredCount is what the items of the Store add up to: what
\* purgeExpiredKeys subtracts is what Flush had added, so that the total goes back to zero
\* when the lines stop, and never below.
THEOREM TotalIsWhatIsStored == Punctual => (Spec => []TotalIsStored)
<1> SUFFICES ASSUME Punctual PROVE Spec => []TotalIsStored
  OBVIOUS
<1>1. ASSUME PunctualInv, ticker = "idle"
      PROVE  total = SumFunction([k \in DOMAIN Store |-> Store[k].value])
  <2>1. /\ Types /\ StoredBy(Store, Horizon) = total + Unadded /\ Unadded = 0
        /\ total \in Int
    BY <1>1 DEF PunctualInv, RecentInv, Exact, Unadded, Types, TypeOK
  <2>2. PICK D, v, w : /\ D = DOMAIN Store /\ v = [k \in D |-> Store[k].value]
                       /\ w = ValueBy(Store, Horizon)
    OBVIOUS
  <2>3. D \in SUBSET Instants /\ IsFiniteSet(D)
    BY <2>1, <2>2, InstantsFinite DEF Types
  <2>4. \A k \in D : Store[k].value \in Nat /\ Store[k].ttl <= Horizon
    BY <2>1, <2>2, ItemParts DEF Types, TypeOK
  <2>5. /\ \A k \in D : v[k] \in Int /\ w[k] = v[k]
        /\ \A k \in Instants \ D : w[k] = 0
        /\ \A k \in Instants : w[k] \in Nat
    BY <2>2, <2>3, <2>4 DEF ValueBy
  <2>6. SumFunctionOnSet(w, D) = SumFunctionOnSet(v, D)
    BY ONLY <2>3, <2>5, SumSame
  <2>7. SumFunctionOnSet(w, D) = SumFunctionOnSet(w, Instants)
    BY ONLY <2>3, <2>5, InstantsFinite, SumPart
  <2>8. SumFunctionOnSet(v, D) = SumFunction(v)
    BY <2>2 DEF SumFunction
  <2> QED
    BY <2>1, <2>2, <2>6, <2>7, <2>8 DEF StoredBy
<1>2. PunctualInv => TotalIsStored
  BY <1>1 DEF TotalIsStored
<1> QED
  BY <1>2, PunctualInvariant, PTL

\* When IsAverageOverLimit says that the limit is exceeded, so many bytes really were
\* counted by Increment in the window before the check, even if the goroutine stored a
\* key, purged or flushed between the three loads: no line is kept back without reason.
THEOREM BreachesAreReal == Punctual => (Spec => []NoFalseBreach)
<1> SUFFICES ASSUME Punctual PROVE Spec => []NoFalseBreach
  OBVIOUS
<1>1. ASSUME PunctualInv, check = "checked", over PROVE Mean(WindowBytes, length) > Limit
  <2>1. length \in Nat \ {0} /\ loaded \in Int /\ added \in [Instants -> Nat]
    BY <1>1 DEF PunctualInv, RecentInv, Types, TypeOK, Instants
  <2>2. loaded <= WindowBytes
    BY <1>1 DEF PunctualInv, Checking
  <2>3. Mean(loaded, length) > Limit
    BY <1>1 DEF PunctualInv, Checking
  <2>4. WindowBytes \in Nat
    <3>1. Last(Window, since) \in SUBSET Instants
      BY DEF Last, Instants
    <3> QED
      BY <2>1, <3>1, BytesPart DEF WindowBytes
  <2>5. PICK a, b \in Int, n \in Nat \ {0} : a = loaded /\ b = WindowBytes /\ n = length
    BY <2>1, <2>4
  <2>6. a \div n <= b \div n
    BY <2>2, <2>5, Quotient
  <2>7. a \div n > Limit
    BY <2>3, <2>5 DEF Mean
  <2>8. b \div n > Limit
    BY ONLY <2>5, <2>6, <2>7, BytesAssumption
  <2> QED
    BY <2>5, <2>8 DEF Mean
<1>2. PunctualInv => NoFalseBreach
  BY <1>1 DEF NoFalseBreach, WindowBytes
<1> QED
  BY <1>2, PunctualInvariant, PTL
================================================================================
