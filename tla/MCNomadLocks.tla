----------------------------- MODULE MCNomadLocks -----------------------------
(* Instances of NomadLocks for TLC.                                        *)
EXTENDS NomadLocks, TLC

CONSTANTS n1, n2, n3, p1, p2, p3

\* One shipper per node.
OneEach == (p1 :> n1) @@ (p2 :> n2)
ThreeEach == (p1 :> n1) @@ (p2 :> n2) @@ (p3 :> n3)

\* Two shippers for the first node (a rolling deploy), one for the second.
TwoForOne == (p1 :> n1) @@ (p2 :> n1) @@ (p3 :> n2)

\* A node of the first shipper, one that the other two compete for, and (with
\* three nodes) one that nobody is configured with.
TwoForSecond == (p1 :> n1) @@ (p2 :> n2) @@ (p3 :> n2)

\* Two nodes with a shipper each, and a shipper without a node.
WithCollectAll == (p1 :> n1) @@ (p2 :> n2) @@ (p3 :> NoNode)
===============================================================================
