CONSTANTS
    WorkersNumber <- MCWorkersNumber

SPECIFICATION Spec

INVARIANTS
    EveryWorkerHasResult
