SPECIFICATION FairSpec
CONSTANTS
    NumDevices = 2
    MaxRequests = 2
    MaxSpurious = 1
INVARIANTS
    Inv
    NoLostWakeup
PROPERTIES
    ImplementsIOService
    EveryRequestServed
    TimerKeepsFiring
