CONSTANTS
    Lines <- MCLines
    Handlers <- MCHandlers
    MaxEvents = 3
    MaxSpurious = 1
CHECK_DEADLOCK FALSE
SPECIFICATION Spec
INVARIANTS
    NothingLeftInService
    NoEventLost
PROPERTIES
    GenuineIsDispatched
    RequestIsServed
