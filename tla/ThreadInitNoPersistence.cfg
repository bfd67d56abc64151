CONSTANTS
    MaxThreads <- MCMaxThreads
    TaskList <- MCTaskList
    NoQueue = NoQueue
    MaxCpus <- MCMaxCpus
    PoolSizes <- MCPoolSizes
    NoPoolSize = NoPoolSize

SPECIFICATION Spec

INVARIANTS
    InitWithoutPersistence
