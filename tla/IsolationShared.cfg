\* Two strategies, driven one after the other or at the same time from two
\* threads; a run built without persistence fails in init_multi_working
\* after its tasks are on the queue.
CONSTANTS
    NumRuns = 2
    Modes <- MCModes
    TasksPerRun = 2
    QTypes <- MCQTypes
    Persistences <- MCPersistences
    Overlap = TRUE
    NoQueue = NoQueue
    NoTask = NoTask

SPECIFICATION Spec

INVARIANTS
    RunSeesOwnTasks
