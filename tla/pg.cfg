SPECIFICATION Spec
CONSTANTS
    c1 = c1
    c2 = c2
    c3 = c3
    Calls <- ThreeCalls
    MaxRestarts = 1
INVARIANTS
    RememberLostOnlyToFailure
PROPERTIES
    AbortOutlivesHandlers
    ImplementsDurableWrites
