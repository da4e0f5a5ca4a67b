CONSTANTS
    NumProcs = 2
    MaxCode = 3
    IoLengths = {1, 3}
    ProcMaxTime = 40
    MaxJobs = 3
    Runtimes = {0, 1, 2, 4}
    Quanta = {1, 2}
    LotJobs = 3
    LotRuntimes = {0, 1, 3}
    LotTickets = {0, 1, 2}
    LotQuanta = {1, 2}
    MlfqJobs = 2
    MlfqWorkloads <- MCMlfqWorkloads
    MlfqMaxTime = 40
    MlfqOptions <- MCMlfqOptions
    NumCpus = 2
    MultiJobs = {"a", "b", "c"}
    JobOrder <- MCJobOrder
    MultiWorks <- MCMultiWorks
    MultiMaxTime = 40
    MultiOptions <- MCMultiOptions
    X86Options <- MCX86All
    LoadAddr = 1000
    StackTop = 3000
    StackSize = 1000
    DmOptions <- MCDmOptions
    UintMax = 99
    SemOptions <- MCSemOptions
    Enqueuers = {e1, e2}
    Dequeuers = {d1}
    Nodes = {n1, n2, n3, n4}
    NULL = NULL
    StartValues = {0, 7}
    MaxEnqueues = 2
    CounterOptions <- MCCounterOptions
    MaxUpdates = 2
    Simulators = {"process", "scheduler", "lottery", "mlfq", "multi", "x86", "resy",
                  "semaphores", "queue", "counter"}
SPECIFICATION CpuSpec
INVARIANTS  MlfqRight MultiRight 
PROPERTIES ThreadsIsolated AllFinish
CHECK_DEADLOCK FALSE
