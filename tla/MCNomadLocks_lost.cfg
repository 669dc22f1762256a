\* Sessions of running shippers end; one of the shippers has no node, and
\* one Consul call fails unnoticed.
SPECIFICATION FairSpec
CONSTANTS
    n1 = n1 n2 = n2 n3 = n3
    p1 = p1 p2 = p2 p3 = p3
    NoNode = NoNode Absent = Absent Released = Released
    Nodes = {n1, n2}
    Shippers = {p1, p2, p3}
    NodeOf <- WithCollectAll
    WithFailover = {p1, p2}
    MaxStarts = 1
    MaxFailures = 1
    Faults = {"expire"}
PROPERTIES
    LostSessionEnds
CHECK_DEADLOCK FALSE
