SPECIFICATION Spec
CONSTANTS
    n1 = n1 n2 = n2 n3 = n3
    p1 = p1 p2 = p2 p3 = p3
    NoNode = NoNode Absent = Absent Released = Released
    Nodes = {n1, n2, n3}
    Shippers = {p1, p2, p3}
    NodeOf <- ThreeEach
    WithFailover = {p2, p3}
    MaxStarts = 1
    MaxFailures = 0
    Faults = {}
CHECK_DEADLOCK FALSE
PROPERTIES LeaveOthersAlone
