------------------------------- MODULE MCStartup -------------------------------
(* Instances of Startup for TLC.                                           *)
EXTENDS Startup, TLC

\* Two sources that share two targets; one routes to a name that is not there.
SharedRoute == "s1" :> {"a", "b"} @@ "s2" :> {"b", "x"}
AllKnown ==
    <<"source", "s1">> :> "dummy" @@ <<"source", "s2">> :> "nomad"
    @@ <<"target", "a">> :> "logzio" @@ <<"target", "b">> :> "blackhole"
OneUnknown == [AllKnown EXCEPT ![<<"source", "s2">>] = "external"]
WithUnknown == {AllKnown, OneUnknown}
NoLimits == "a" :> <<>> @@ "b" :> <<>>

\* One source and one target, whose provider may not be known.
OneRoute == "s1" :> {"a"}
Example  == {<<"source", "s1">> :> "nomad" @@ <<"target", "a">> :> "logz.io"}
OneKnown == {<<"source", "s1">> :> "dummy" @@ <<"target", "a">> :> "stdout"}

\* The period of the second rule lacks its unit.
Misspelt == "a" :> <<[throughput |-> "30KB", period |-> "1s"],
                     [throughput |-> "30KB", period |-> "junk"]>>
OneLimit == "a" :> <<[throughput |-> "30KB", period |-> "1s"]>>
================================================================================
