----------------------------- MODULE LogDelivery -----------------------------
(***************************************************************************)
(* What the broker promises about the log lines it has acknowledged.       *)
(*                                                                         *)
(* A copy is one log line on its way to one of the targets its source is   *)
(* routed to.  Acknowledging a line makes all its copies pending; from     *)
(* then on every copy gets at most one outcome, which never changes; and   *)
(* the broker may declare itself drained only when no copy is pending and  *)
(* none was stranded (dropped without anybody being told).  Once drained   *)
(* it accepts nothing more.                                                *)
(*                                                                         *)
(* Broker.tla implements this specification.                               *)
(***************************************************************************)
CONSTANTS
    Copy,         \* the copies that can ever exist
    Line          \* for each log line, the set of its copies

VARIABLES
    outcome,      \* what has become of each copy
    drained       \* TRUE once the broker has told its targets to stop

Settled   == {"delivered", "discarded", "refused"}
Outcome   == {"unsent", "pending", "stranded"} \cup Settled

vars == <<outcome, drained>>

TypeOK ==
    /\ outcome \in [Copy -> Outcome]
    /\ drained \in BOOLEAN

Init ==
    /\ outcome = [c \in Copy |-> "unsent"]
    /\ drained = FALSE

\* A line is acknowledged to its source: its copies become pending.
Accept(S) ==
    /\ ~drained
    /\ \A c \in S : outcome[c] = "unsent"
    /\ outcome' = [c \in Copy |-> IF c \in S THEN "pending" ELSE outcome[c]]
    /\ UNCHANGED drained

\* A pending copy gets its outcome.
Resolve(c, o) ==
    /\ ~drained
    /\ outcome[c] = "pending"
    /\ outcome' = [outcome EXCEPT ![c] = o]
    /\ UNCHANGED drained

\* The broker stops its targets: nothing is owed to anybody any more.
Drain ==
    /\ ~drained
    /\ \A c \in Copy : outcome[c] \notin {"pending", "stranded"}
    /\ drained' = TRUE
    /\ UNCHANGED outcome

Next ==
    \/ \E S \in Line : Accept(S)
    \/ \E c \in Copy, o \in Settled \cup {"stranded"} : Resolve(c, o)
    \/ Drain

Spec == Init /\ [][Next]_vars
==============================================================================
