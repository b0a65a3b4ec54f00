\* process_create and sys_sbrk only: no fork, exec or reap, whose frees
\* are known to be incomplete (the TODOs in vmm.c).
CONSTANTS
    P1 = P1
    P2 = P2
    Procs <- MCProcs
    NFrames = 12
    PAGE_SIZE = 2
    HeapPages = 2
    StackPages = 1
    Increments <- MCIncrements
    Images <- MCImages
    Ops <- MCSbrkOnly
SPECIFICATION Spec
\* A panic halts the kernel.
CHECK_DEADLOCK FALSE
INVARIANT NoFrameLeaked
