-------------------------- MODULE MCNomadAllocations --------------------------
(* Instances of NomadAllocations for TLC.                                  *)
EXTENDS NomadAllocations, TLC

CONSTANTS a1, t1, t2

On == [enabled |-> "unset", watch |-> "true"]

\* One allocation with one task: nothing is said about shipping.
OneJob  == (a1 :> "unset")
OneTask == (a1 :> (t1 :> On))

\* One allocation with a task that is watched and one that is not.
MixedTasks == (a1 :> ((t1 :> On) @@ (t2 :> [enabled |-> "true", watch |-> "false"])))
===============================================================================
