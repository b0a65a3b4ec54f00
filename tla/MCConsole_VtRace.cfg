\* A kernel thread prints on the bottom row; between its scroll check and
\* its store an echoed Enter moves the cursor below the last row.
CONSTANTS
    KbdSize = 3
    NVT = 2
    VGA_WIDTH = 4
    VGA_HEIGHT = 1
    ColBound = 5
    RowBound = 2
    ReadCounts = {1}
    KThreads = {k1}
    KOutputs <- MCKOutputs
    SleepTimes = {0}
    Scancodes <- MCScancodesRace
    Outputs <- MCOutputsThr
    BootOutputs <- MCBootOutputs

SPECIFICATION Spec

VIEW MCView

CHECK_DEADLOCK FALSE

INVARIANT ThreadWritesInBounds
