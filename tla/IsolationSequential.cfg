\* Runs one after the other, each with a working persistence strategy.
CONSTANTS
    NumRuns = 3
    Modes <- MCModes
    TasksPerRun = 2
    QTypes <- MCQTypes
    Persistences <- MCSuccessful
    Overlap = FALSE
    NoQueue = NoQueue
    NoTask = NoTask

SPECIFICATION Spec

INVARIANTS
    TypeOK
    RunSeesOwnTasks

PROPERTIES
    ImplementsRunTasks
