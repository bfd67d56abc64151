\* Interleaved factory and globalize calls of two clients.
CONSTANTS
    Clients <- MCClients
    UsedAdapters <- MCGreenletAdapters
    MaxCalls <- MCMaxCalls
    NoObject = NoObject
    Idle = Idle
    TypeError = TypeError
    RuntimeError = RuntimeError
SPECIFICATION Spec
INVARIANTS
    TypeOK
    RegistryIsLastGlobalized
