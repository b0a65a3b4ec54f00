CONSTANTS
    p0 = p0
    p1 = p1
    p2 = p2
    p3 = p3
    Procs <- MCProcs
    Idle = p0
    NoProc = NoProc
    MaxProcesses = 4
    MaxPid = 5
    Quantum = 2
    BootProcs = 2
    LateCreate = TRUE
    Signals = {}
SPECIFICATION Spec
INVARIANT QueueLinksConsistent
