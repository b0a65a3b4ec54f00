CONSTANTS
    KbdSize = 3
    NVT = 2
    VGA_WIDTH = 4
    VGA_HEIGHT = 1
    ColBound = 5
    RowBound = 2
    ReadCounts = {1}
    KThreads = {k1}
    KOutputs <- MCKOutputs
    SleepTimes = {0, 2000}
    Scancodes <- MCScancodesThr
    Outputs <- MCOutputsThr
    BootOutputs <- MCBootOutputs

SPECIFICATION Spec

VIEW MCViewThr

\* A sys_read of stdin with an empty ring, or sys_sleep, executes hlt with
\* interrupts off: the machine stops there, a state with no step.
CHECK_DEADLOCK FALSE

INVARIANT TypeOK
INVARIANT RegularWritesInBounds
PROPERTY KbdIsQueue
