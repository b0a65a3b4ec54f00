----------------------------- MODULE MCUserMem -----------------------------
EXTENDS UserMem

CONSTANTS P1, P2

MCProcs == {P1, P2}

\* Growth that spans two pages and shrinks that leave a page half used.
MCIncrements == {-2, -1, 1, 3}

\* Every operation.
MCAllOps == {"fork", "exec", "reap", "elf"}

\* Three images: a note header and a load segment at the heap's first page
\* (the usual link address 0x400000 is USER_HEAP_START), a header that
\* fails elf_validate, and a segment whose file size exceeds its memory
\* size, so the copy reaches a page the loader did not map.
MCImages ==
    {[valid |-> TRUE,
      segs |-> <<[load |-> FALSE, l4 |-> HEAP_L4, vaddr |-> 0, memsz |-> 0, filesz |-> 0],
                 [load |-> TRUE, l4 |-> HEAP_L4, vaddr |-> 1, memsz |-> 2, filesz |-> 1]>>],
     [valid |-> FALSE, segs |-> <<>>],
     [valid |-> TRUE,
      segs |-> <<[load |-> TRUE, l4 |-> HEAP_L4, vaddr |-> 0, memsz |-> 1, filesz |-> 3]>>]}

\* Only process_create and sys_sbrk.
MCSbrkOnly == {}
====
