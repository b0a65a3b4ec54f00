CONSTANTS
    HeapSize = 128
    Requests = {1, 16, 40}
SPECIFICATION Spec
\* kmalloc panics when no chunk fits: the kernel halts there.
CHECK_DEADLOCK FALSE
INVARIANT TypeOK
INVARIANT HeapTiled
INVARIANT NoAdjacentFree
INVARIANT HeldIsAllocated
PROPERTY AllocatorSpec
