------------------------------- MODULE MCBroker -------------------------------
(* Instances of Broker for TLC: routes and rate limit rules.               *)
EXTENDS Broker, TLC

NoRules == <<>>
Discard == [action |-> "discard", target |-> ""]
Alert   == [action |-> "none", target |-> ""]
FallBackTo(t) == [action |-> "fallback", target |-> t]

\* Two sources that share target "b"; "a" falls back to "b", which discards.
SharedRoute  == "s1" :> <<"a", "b">> @@ "s2" :> <<"b">>
ChainedRules == "a" :> <<Alert, FallBackTo("b")>> @@ "b" :> <<Discard>>

\* Two targets that fall back to each other.
CycleRules == "a" :> <<FallBackTo("b")>> @@ "b" :> <<FallBackTo("a")>>

\* No fallback.
PlainRoute == "s1" :> <<"a", "b">>
PlainRules == "a" :> <<Discard>> @@ "b" :> NoRules
==============================================================================
