\* Two processes, twelve frames: enough for one process with a full heap
\* and a clone of a small one, so fork both succeeds and fails part way.
CONSTANTS
    P1 = P1
    P2 = P2
    Procs <- MCProcs
    NFrames = 12
    PAGE_SIZE = 2
    HeapPages = 2
    StackPages = 1
    Increments <- MCIncrements
    Images <- MCImages
    Ops <- MCAllOps
SPECIFICATION Spec
\* A panic halts the kernel.
CHECK_DEADLOCK FALSE
INVARIANT TypeOK
INVARIANT ExclusiveFrames
INVARIANT LiveFramesAllocated
INVARIANT UserMemoryMapped
