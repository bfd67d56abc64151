\* executor_client_with_event.py under every executor main_run offers.
CONSTANTS
    Modes <- MCModes
    MaxSleep <- MCMaxSleep
    ConsumerSleep <- MCConsumerSleep
SPECIFICATION Spec
INVARIANTS
    TypeOK
PROPERTIES
    NoCoalescedSet
