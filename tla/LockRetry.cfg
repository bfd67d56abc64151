\* Three worker processes running either executor_client_with_lock.py's
\* lock_function (@retry.bounded_function over @RunWith.Lock, a body that
\* always raises) or the integration examples' @RunWith.Lock over
\* @retry.function (a body that returns).
CONSTANTS
    Workers = {w1, w2, w3}
    Retries <- MCRetries
    Examples <- MCExamples
    NoHolder = NoHolder
SPECIFICATION FairSpec
INVARIANTS
    TypeOK
    BodiesExclusive
PROPERTIES
    ResultCollected
