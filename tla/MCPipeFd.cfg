CONSTANTS
    pA = pA
    pB = pB
    q1 = q1
    q2 = q2
    Procs = {pA, pB}
    First = pA
    Pipes = {q1, q2}
    NoPipe = NoPipe
    MaxFds = 5
    PipeSize = 2
    Data = {0, 1}
    MaxCall = 2
    MaxBytes = 3
    CallFds = {3, 4}
SPECIFICATION Spec
\* A pipe call that must wait spins with interrupts off: the machine hangs
\* (pipe.c:44 and 71); such states have no successor.
CHECK_DEADLOCK FALSE
INVARIANT TypeOK
INVARIANT PipeBounds
PROPERTY PipeIsChannel
