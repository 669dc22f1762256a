----------------------------- MODULE MCMonitoring -----------------------------
(* Instances of Monitoring for TLC, with the routes and rules of MCBroker. *)
EXTENDS Monitoring, TLC

Discard == [action |-> "discard", target |-> ""]
FallBackTo(t) == [action |-> "fallback", target |-> t]

\* One source; its second target, and one of the fallbacks of "a", are not
\* configured; "b" discards.
UnknownRoute == "s1" :> <<"a", "x", "b">>
MixedRules   == "a" :> <<FallBackTo("y"), FallBackTo("b")>> @@ "b" :> <<Discard>>

\* Requests ask for what target "b" has done, to which the fallbacks go.
ShownB == {<<"target", "b">>}
===============================================================================
