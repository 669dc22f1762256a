----------------------------- MODULE RateLimiter -----------------------------
(***************************************************************************)
(* A rate limiter of limiter/limiter.go, as cmd/run.go sets it up and a    *)
(* target connector uses it.                                               *)
(*                                                                         *)
(* Two goroutines share it: the ticker goroutine started by Init, and the  *)
(* connector, which asks IsAverageOverLimit before it writes a line and    *)
(* calls Increment after it.  The counters are atomics and the Store is    *)
(* behind a lock, so every load, add, Get and Set is a step of its own.    *)
(* Stop, which only tests call, is left out.                               *)
(*                                                                         *)
(* Time is counted in units much longer than a step.  A tick is due every  *)
(* FlushInterval; the goroutine may handle it up to MaxLate units late.    *)
(***************************************************************************)
EXTENDS Integers, FiniteSets, FiniteSetsExt

CONSTANTS
    Interval,         \* length of the interval a key stands for
    FlushInterval,    \* time between ticks
    StoreMultiplier,  \* an item lives for this many flush intervals
    Limit,            \* bytes per interval
    Phases,           \* when, within an interval, Init may be called
    MaxLate,          \* how late the goroutine may be with a tick
    Deltas,           \* sizes of a line
    MaxTime,          \* bound: length of a behaviour
    MaxBytes          \* bound: bytes incremented in a behaviour

ASSUME IntervalAssumption ==
    /\ Interval \in Nat \ {0} /\ FlushInterval \in Nat \ {0}
    /\ StoreMultiplier \in Nat
    /\ Phases \subseteq 0 .. (Interval - 1)
    /\ MaxLate \in Nat
ASSUME BytesAssumption ==
    /\ Limit \in Nat /\ MaxTime \in Nat /\ MaxBytes \in Nat
    /\ Deltas \subseteq Nat
    /\ Phases \subseteq 0 .. MaxTime

VARIABLES
    now,          \* the clock
    due,          \* when the time.Ticker fires next
    tick,         \* due time of the tick in the ticker's channel
    handled,      \* due time of the tick the goroutine is handling
    Store,        \* key -> [value, ttl]
    total,        \* TotalStoredCount
    currentCount,
    currentKey,
    ticker,       \* where the ticker goroutine is
    visit,        \* keys purgeExpiredKeys has still to look at
    flushCount,   \* Flush's locals
    currentStored,
    check,        \* where the connector is in IsAverageOverLimit
    length,       \* its locals: Store.Len() + 1,
    loaded,       \*   TotalStoredCount,
    over,         \*   and its answer
    since,        \* history: when the check began
    added         \* history: bytes incremented at each time

clockVars   == <<now, due, tick, handled>>
flushVars   == <<ticker, visit, flushCount, currentStored>>
checkVars   == <<check, length, loaded, over, since>>
vars == <<clockVars, Store, total, currentCount, currentKey, flushVars,
          checkVars, added>>

Time    == 0 .. (MaxTime + StoreMultiplier * FlushInterval)
NoTick  == -1
Item    == [value : Nat, ttl : Time]
NoItem  == [value |-> 0, ttl |-> 0]

TypeOK ==
    /\ now \in 0 .. MaxTime /\ due \in Nat /\ {tick, handled} \subseteq Nat \cup {NoTick}
    /\ DOMAIN Store \subseteq Nat /\ \A k \in DOMAIN Store : Store[k] \in Item
    /\ total \in Int /\ currentCount \in Nat /\ currentKey \in Nat
    /\ ticker \in {"idle", "key", "lock", "purge", "swap", "get", "set", "add"}
    /\ visit \subseteq DOMAIN Store
    /\ flushCount \in Nat /\ currentStored \in Item
    /\ check \in {"idle", "total", "current", "checked"}
    /\ length \in Nat /\ loaded \in Int /\ over \in BOOLEAN /\ since \in 0 .. MaxTime
    /\ added \in [0 .. MaxTime -> Nat]

\* The name of the interval that contains time t, as far as it matters.
KeyRounded(t) == (2 * t + Interval) \div (2 * Interval)
KeyAt(t) == t \div Interval

\* Store.Set.
StoreSet(k, i) == [j \in DOMAIN Store \cup {k} |-> IF j = k THEN i ELSE Store[j]]

FreshItem == [value |-> 0, ttl |-> now + StoreMultiplier * FlushInterval]

\* New and Init: the first key is stored and the ticker is started.
Init ==
    /\ now \in Phases
    /\ due = now + FlushInterval /\ tick = NoTick /\ handled = NoTick
    /\ currentKey = KeyAt(now)
    /\ Store = [k \in {currentKey} |-> FreshItem]
    /\ total = 0 /\ currentCount = 0
    /\ ticker = "idle"
    /\ visit = {}
    /\ flushCount = 0 /\ currentStored = NoItem
    /\ check = "idle" /\ length = 0 /\ loaded = 0 /\ over = FALSE /\ since = 0
    /\ added = [t \in 0 .. MaxTime |-> 0]

-------------------------------------------------------------------------------
(* The clock and time.Ticker.                                              *)

\* The tick the goroutine is to finish next.
Outstanding == IF handled # NoTick THEN handled ELSE tick

\* Time passes unless the ticker goroutine would be later than MaxLate.  A tick
\* that is due goes into the ticker's channel, which holds one: the next is
\* dropped.
Pass ==
    /\ now < MaxTime
    /\ Outstanding # NoTick => now < Outstanding + MaxLate
    /\ now' = now + 1
    /\ IF now' = due
       THEN tick' = (IF tick = NoTick THEN due ELSE tick) /\ due' = due + FlushInterval
       ELSE UNCHANGED <<tick, due>>
    /\ UNCHANGED <<handled, Store, total, currentCount, currentKey, flushVars,
                   checkVars, added>>

-------------------------------------------------------------------------------
(* The ticker goroutine.                                                   *)

\* The store's lock is free: purgeExpiredKeys has it throughout its loop.
Unlocked == ticker # "purge"

ReceiveTick ==
    /\ ticker = "idle" /\ tick # NoTick
    /\ handled' = tick /\ tick' = NoTick
    /\ ticker' = "key"
    /\ UNCHANGED <<now, due, Store, total, currentCount, currentKey, visit,
                   flushCount, currentStored, checkVars, added>>

\* The key of the present interval is stored, with no bytes, whether or not it
\* is there already.
updateCurrentKey ==
    /\ ticker = "key"
    /\ currentKey' = KeyAt(now)
    /\ Store' = StoreSet(KeyAt(now), FreshItem)
    /\ ticker' = "lock"
    /\ UNCHANGED <<clockVars, total, currentCount, visit, flushCount, currentStored,
                   checkVars, added>>

PurgeBegins ==
    /\ ticker = "lock"
    /\ visit' = DOMAIN Store
    /\ ticker' = "purge"
    /\ UNCHANGED <<clockVars, Store, total, currentCount, currentKey, flushCount,
                   currentStored, checkVars, added>>

\* One iteration of the loop.  Within the unit in which the TTL ends, the
\* comparison of the two instants may go either way.
KeepCurrent(k) == k = currentKey
MustKeep(k)    == k = currentKey \/ now < Store[k].ttl

PurgeLate(k) == k # currentKey /\ now > Store[k].ttl + FlushInterval
MustPurge(k) == k # currentKey /\ now > Store[k].ttl

KeepKey(k) ==
    /\ ticker = "purge" /\ k \in visit
    /\ ~MustPurge(k)
    /\ visit' = visit \ {k}
    /\ UNCHANGED <<clockVars, Store, total, currentCount, currentKey, ticker,
                   flushCount, currentStored, checkVars, added>>

PurgeKey(k) ==
    /\ ticker = "purge" /\ k \in visit
    /\ ~MustKeep(k)
    /\ visit' = visit \ {k}
    /\ total' = total - Store[k].value
    /\ Store' = [j \in DOMAIN Store \ {k} |-> Store[j]]
    /\ UNCHANGED <<clockVars, currentCount, currentKey, ticker, flushCount,
                   currentStored, checkVars, added>>

PurgeEnds ==
    /\ ticker = "purge" /\ visit = {}
    /\ ticker' = "swap"
    /\ UNCHANGED <<clockVars, Store, total, currentCount, currentKey, visit,
                   flushCount, currentStored, checkVars, added>>

-------------------------------------------------------------------------------
(* Flush.                                                                  *)

FlushSwap ==
    /\ ticker = "swap"
    /\ flushCount' = currentCount
    /\ currentCount' = 0
    /\ ticker' = "get"
    /\ UNCHANGED <<clockVars, Store, total, currentKey, visit, currentStored,
                   checkVars, added>>

\* The current key is always in the store, so Get always finds it.
FlushGet ==
    /\ ticker = "get"
    /\ currentStored' = [Store[currentKey] EXCEPT !.value = @ + flushCount]
    /\ ticker' = "set"
    /\ UNCHANGED <<clockVars, Store, total, currentCount, currentKey, visit,
                   flushCount, checkVars, added>>

FlushSet ==
    /\ ticker = "set"
    /\ Store' = StoreSet(currentKey, currentStored)
    /\ ticker' = "add"
    /\ UNCHANGED <<clockVars, total, currentCount, currentKey, visit, flushCount,
                   currentStored, checkVars, added>>

\* What is added is the new value of the item; the tick is done with.
FlushAdd ==
    /\ ticker = "add"
    /\ total' = total + currentStored.value
    /\ ticker' = "idle"
    /\ handled' = NoTick
    /\ flushCount' = 0 /\ currentStored' = NoItem
    /\ UNCHANGED <<now, due, tick, Store, currentCount, currentKey, visit,
                   checkVars, added>>

-------------------------------------------------------------------------------
(* The connector: IsAverageOverLimit, then Increment once the line is      *)
(* acknowledged, unless this rule or another keeps the line back.          *)

\* Store.Len() + 1.
LoadLen ==
    /\ check = "idle" /\ Unlocked
    /\ length' = Cardinality(DOMAIN Store) + 1
    /\ since' = now
    /\ check' = "total"
    /\ UNCHANGED <<clockVars, Store, total, currentCount, currentKey, flushVars,
                   loaded, over, added>>

LoadTotal ==
    /\ check = "total"
    /\ loaded' = total
    /\ check' = "current"
    /\ UNCHANGED <<clockVars, Store, total, currentCount, currentKey, flushVars,
                   length, over, since, added>>

\* Integer division gives the mean that is compared with the limit.
Mean(bytes, n) == bytes \div n

LoadCurrent ==
    /\ check = "current"
    /\ loaded' = loaded + currentCount
    /\ over' = (Mean(loaded', length) > Limit)
    /\ check' = "checked"
    /\ UNCHANGED <<clockVars, Store, total, currentCount, currentKey, flushVars,
                   length, since, added>>

\* Back to waiting for the next line.
Forget == check' = "idle" /\ length' = 0 /\ loaded' = 0 /\ over' = FALSE /\ since' = 0

BytesIn(S) == SumFunctionOnSet(added, S)

Increment(d) ==
    /\ check = "checked"
    /\ BytesIn(0 .. MaxTime) + d <= MaxBytes
    /\ currentCount' = currentCount + d
    /\ added' = [added EXCEPT ![now] = @ + d]
    /\ Forget
    /\ UNCHANGED <<clockVars, Store, total, currentKey, flushVars>>

KeptBack ==
    /\ check = "checked"
    /\ Forget
    /\ UNCHANGED <<clockVars, Store, total, currentCount, currentKey, flushVars,
                   added>>

-------------------------------------------------------------------------------
Next ==
    \/ Pass
    \/ ReceiveTick
    \/ updateCurrentKey
    \/ PurgeBegins \/ PurgeEnds
    \/ \E k \in visit : KeepKey(k) \/ PurgeKey(k)
    \/ FlushSwap \/ FlushGet \/ FlushSet \/ FlushAdd
    \/ LoadLen \/ LoadTotal \/ LoadCurrent
    \/ \E d \in Deltas : Increment(d)
    \/ KeptBack

Spec == Init /\ [][Next]_vars

-------------------------------------------------------------------------------
(* Properties.                                                             *)

\* Bytes that a Flush has taken out of currentCount and not added to the total.
InHand ==
    CASE ticker \in {"get", "set"} -> flushCount
      [] ticker = "add"            -> currentStored.value
      [] OTHER                     -> 0

\* The last n units up to time t.
Last(n, t) == {u \in 0 .. MaxTime : u <= t /\ u > t - n}

\* Every byte of the last StoreMultiplier flush intervals (less what a tick may
\* be late between storing its key and swapping the count) is counted, in the
\* total, in currentCount or in the hands of a Flush: no purge takes away bytes
\* that are still in the window, and no flush loses any, so that a breach is not
\* overlooked.
RecentIsCounted ==
    BytesIn(Last(StoreMultiplier * FlushInterval - MaxLate, now))
        <= total + currentCount + InHand

\* A check that says the limit is exceeded is right: so many bytes really were
\* incremented in the window before it, even when a tick moves bytes from
\* currentCount to the total in the middle of the check.  The window is the
\* configured one, plus the interval being counted, plus the one that a tick
\* needs to purge.
Window == (StoreMultiplier + 2) * FlushInterval + MaxLate + 1

NoFalseBreach ==
    check = "checked" /\ over
        => Mean(BytesIn(Last(Window, since)), length) > Limit

\* Between two ticks TotalStoredCount is what the items of the store add up to,
\* so that purging them takes it back to zero and never below.
TotalIsStored ==
    ticker = "idle"
        => total = SumFunction([k \in DOMAIN Store |-> Store[k].value])
==============================================================================
