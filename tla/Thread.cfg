CONSTANTS
    MaxThreads <- MCMaxThreads
    TaskList <- MCTaskList
    NoQueue = NoQueue
    MaxCpus <- MCMaxCpus
    PoolSizes <- MCPoolSizes
    NoPoolSize = NoPoolSize

SPECIFICATION FairSpec

INVARIANTS
    TypeOK
    NoLostUpdate
    EndedAfterAllDone
    ConnectionsAsSpecified

PROPERTIES
    RunTerminates

\* The run really stops once the caller returned or raised and the threads
\* are done; progress is what RunTerminates checks.
CHECK_DEADLOCK FALSE
