SPECIFICATION Spec
CONSTANTS
    NumDevices = 1
    MaxRequests = 1
    MaxSpurious = 0
PROPERTY DelayBeforeInterrupt
