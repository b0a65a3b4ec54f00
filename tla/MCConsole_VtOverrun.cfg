\* An Enter echoed on the bottom row, a tab written by a process and an
\* echoed Backspace: vt_putchar's '\b' store lands past the VT buffer.
CONSTANTS
    KbdSize = 3
    NVT = 2
    VGA_WIDTH = 8
    VGA_HEIGHT = 2
    ColBound = 9
    RowBound = 3
    ReadCounts = {1}
    KThreads = {}
    KOutputs <- MCKOutputs
    SleepTimes = {0}
    Scancodes <- MCScancodesAll
    Outputs <- MCOutputsTab
    BootOutputs <- MCBootOutputs

SPECIFICATION Spec

VIEW MCView

CHECK_DEADLOCK FALSE

INVARIANT VtWritesInBounds
