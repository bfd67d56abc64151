CONSTANTS
    WorkersNumber <- MCWorkersNumber

SPECIFICATION FairSpec

INVARIANTS
    TypeOK
    RecordedResultsFaithful

PROPERTIES
    ImplementsCollection
    RunTerminates
    ImplementsFairCollection

\* The run really stops once the caller returned or raised; progress is
\* what RunTerminates checks.
CHECK_DEADLOCK FALSE
