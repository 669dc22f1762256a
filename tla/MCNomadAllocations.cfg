\* One allocation that leaves and returns, and every fault: failing calls to
\* Nomad and Consul, a broker that leaves, a process that ends and starts over.
SPECIFICATION FairSpec
CONSTANTS
    a1 = a1 t1 = t1 t2 = t2
    Allocs = {a1}
    Tasks = {t1}
    JobMeta <- OneJob
    TaskMeta <- OneTask
    MaxEvents = 1
    MaxPlaces = 2
    MaxFailures = 1
    MaxRestarts = 1
    Faults = {"info", "bye", "crash"}
INVARIANTS
    WatcherIsKnown
    SentOnce
    MarkedIsSent
PROPERTIES
    EventSent
    WaitEnds
CHECK_DEADLOCK FALSE
