\* Spec 4.1 contract of the asyncio and gevent adapters on the loop and
\* lock arguments: AsyncArgumentsChecked.
CONSTANTS
    Clients <- MCClients
    UsedAdapters <- MCAsyncAdapters
    MaxCalls <- MCMaxCalls
    NoObject = NoObject
    Idle = Idle
    TypeError = TypeError
    RuntimeError = RuntimeError
SPECIFICATION Spec
INVARIANTS
    AsyncArgumentsChecked
