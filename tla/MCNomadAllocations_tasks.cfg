\* An allocation with a task that is watched and one that is not, two events of
\* each, and a process that ends at any point.
SPECIFICATION Spec
CONSTANTS
    a1 = a1 t1 = t1 t2 = t2
    Allocs = {a1}
    Tasks = {t1, t2}
    JobMeta <- OneJob
    TaskMeta <- MixedTasks
    MaxEvents = 2
    MaxPlaces = 2
    MaxFailures = 0
    MaxRestarts = 1
    Faults = {"crash"}
INVARIANTS
    TypeOK
    WatcherIsKnown
    SentOnce
    MarkedIsSent
CHECK_DEADLOCK FALSE
