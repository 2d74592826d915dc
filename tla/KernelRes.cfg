SPECIFICATION FairSpec
CONSTANTS
    boot = boot
    idle = idle
    io1 = io1
    io2 = io2
    comp1 = comp1
    comp2 = comp2
    prod = prod
    cons = cons
    p1 = p1
    p2 = p2
    Boot = boot
    Idle = idle
    IOProcs = {}
    CompProcs = {}
    CPPairs <- NoPairs
    ResPairs <- OneRes
    DEADLOCK = TRUE
    UserMaxPC <- MCUserMaxPC
    Terminate <- MCTerminate
    IOTrapAt <- MCIOTrapAt
    CP_LOCK_PC = 1
    CP_WAIT_PC = 2
    CP_SIGNAL_PC = 4
    CP_UNLOCK_PC = 5
    CP_MAX_PC = 5
    RES_LOCK1_PC = 1
    RES_LOCK2_PC = 2
    RES_UNLOCK2_PC = 3
    RES_UNLOCK1_PC = 4
    RES_MAX_PC = 4
    MaxPriority = 1
    MaxZombies = 2
    IO_PROCESS_MAX = 2
    COMPUTE_PROCESS_MAX = 2
    PRO_CON_MAX = 1
    SHARED_RESOURCE_MAX = 1
    IOCheckReturns = {TRUE, FALSE}
    CounterModulus = 2
INVARIANTS
    TypeOK
    NoProcessLost
    ReadyByPriority
    OwnerIsInside
    LocksAreLegal
    FourEdgesMeanStuck
    DestructedIsGone
PROPERTIES
    StuckIsDestructed
    LockIsGranted
    ReadyRuns
