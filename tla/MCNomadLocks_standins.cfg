\* Two shippers compete for the second node, nobody leads the third; shippers
\* crash, and one Consul call fails unnoticed.
SPECIFICATION FairSpec
CONSTANTS
    n1 = n1 n2 = n2 n3 = n3
    p1 = p1 p2 = p2 p3 = p3
    NoNode = NoNode Absent = Absent Released = Released
    Nodes = {n1, n2, n3}
    Shippers = {p1, p2, p3}
    NodeOf <- TwoForSecond
    WithFailover = {p1, p2}
    MaxStarts = 1
    MaxFailures = 1
    Faults = {"crash"}
INVARIANTS
    OnePrimary
    HeldIsServed
PROPERTIES
    FailoverHappens
    FailoverEnds
CHECK_DEADLOCK FALSE
