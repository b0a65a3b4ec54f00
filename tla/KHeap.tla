-------------------------------- MODULE KHeap --------------------------------
(***************************************************************************)
(* The kernel heap (src/src/mm/kmalloc.c): a first-fit allocator over one  *)
(* arena, with a block_t header in front of every chunk, split on          *)
(* allocation and forward coalescing on free.                              *)
(*                                                                         *)
(* Offsets are bytes from heap_start; the arena is HeapSize bytes (16 MiB  *)
(* in the code).  hdr maps the offset of every header on the chunk list to *)
(* its fields.  A header merged away by coalescing is dropped from hdr:    *)
(* the callers below free only pointers they hold, so no stale header is   *)
(* ever read.                                                              *)
(*                                                                         *)
(* Heap calls run with interrupts off (system calls) or before interrupts  *)
(* are enabled (boot), so each call is one step.  The one exception is     *)
(* process_create called from the idle loop with interrupts on (the 'e'   *)
(* debug key), which can be cut by a tick; that race is not modelled here. *)
(* held records, for every pointer kmalloc returned and its caller still *)
(* holds, the size asked for.  Callers: any number of kernel objects       *)
(* (PCBs, stacks, fd tables, pipes), of the sizes in Requests, freed or   *)
(* reallocated in any order.                                               *)
(***************************************************************************)
EXTENDS Integers, Sequences, FiniteSets, TLC

CONSTANTS
    HeapSize,   \* HEAP_SIZE
    Requests    \* sizes callers pass to kmalloc / krealloc

BLOCK_HEADER_SIZE == 24     \* sizeof(block_t): size, next, free, padded
MIN_BLOCK_SIZE == 16
Null == -1

ASSUME HeapSize % 8 = 0 /\ HeapSize > BLOCK_HEADER_SIZE

VARIABLES
    heap_initialized,
    head,               \* offset of the first header, or Null
    hdr,                \* hdr[a] = [size, next, free] for the header at a
    total_allocated,
    total_free,
    allocation_count,
    held,               \* held[p]: size requested for live pointer p
    panicked            \* panic() has halted the kernel

vars == <<heap_initialized, head, hdr, total_allocated, total_free,
          allocation_count, held, panicked>>

Header(size, next, free) == [size |-> size, next |-> next, free |-> free]

\* init_heap: one free chunk spanning the arena.
init_heap == 0 :> Header(HeapSize - BLOCK_HEADER_SIZE, Null, TRUE)

\* Mutant: the size is rounded up but not masked.
AlignNoMask(n) == n + 7

\* "size = (size + 7) & ~7".
Align(n) == ((n + 7) \div 8) * 8

\* Mutant: the free test is dropped from the first-fit scan.
RECURSIVE FindAnyFit(_, _, _)
FindAnyFit(h, cur, size) ==
    IF cur = Null THEN Null
    ELSE IF h[cur].size >= size THEN cur
    ELSE FindAnyFit(h, h[cur].next, size)

\* find_free_block: first chunk on the list that is free and big enough.
RECURSIVE FindFree(_, _, _)
FindFree(h, cur, size) ==
    IF cur = Null THEN Null
    ELSE IF h[cur].free /\ h[cur].size >= size THEN cur
    ELSE FindFree(h, h[cur].next, size)

\* Mutant: the new header is placed "size" bytes after the chunk header,
\* forgetting the header itself.
SplitNoHeader(h, b, size) ==
    IF h[b].size >= size + BLOCK_HEADER_SIZE + MIN_BLOCK_SIZE
    THEN LET nb == b + size IN
         (nb :> Header(h[b].size - size - BLOCK_HEADER_SIZE, h[b].next, TRUE))
           @@ [h EXCEPT ![b].size = size, ![b].next = nb]
    ELSE h

\* split_block: carve a free chunk off the end when the rest can hold a
\* header and MIN_BLOCK_SIZE bytes.
split_block(h, b, size) ==
    IF h[b].size >= size + BLOCK_HEADER_SIZE + MIN_BLOCK_SIZE
    THEN LET nb == b + BLOCK_HEADER_SIZE + size IN
         (nb :> Header(h[b].size - size - BLOCK_HEADER_SIZE, h[b].next, TRUE))
           @@ [h EXCEPT ![b].size = size, ![b].next = nb]
    ELSE h

\* Merge the chunk at cur with its successor nx.
Merge(h, cur, nx) ==
    [a \in DOMAIN h \ {nx} |->
        IF a = cur
        THEN [h[cur] EXCEPT !.size = @ + BLOCK_HEADER_SIZE + h[nx].size,
                            !.next = h[nx].next]
        ELSE h[a]]

\* Mutant: after a merge the walk moves on instead of retrying the merged
\* chunk with its new successor.
RECURSIVE CoalesceSkip(_, _)
CoalesceSkip(h, cur) ==
    IF cur = Null \/ h[cur].next = Null THEN h
    ELSE LET nx == h[cur].next IN
         IF h[cur].free /\ h[nx].free
         THEN CoalesceSkip(Merge(h, cur, nx), h[nx].next)
         ELSE CoalesceSkip(h, nx)

\* coalesce_free_blocks: walk from the head, merging a free chunk with a
\* free successor and staying on it.
RECURSIVE Coalesce(_, _)
Coalesce(h, cur) ==
    IF cur = Null \/ h[cur].next = Null THEN h
    ELSE LET nx == h[cur].next IN
         IF h[cur].free /\ h[nx].free
         THEN Coalesce(Merge(h, cur, nx), cur)
         ELSE Coalesce(h, nx)

\* The heap after kmalloc's find / split / mark steps for a chunk of
\* "size" bytes: [block |-> the chunk or Null, hdr |-> the headers].
kmalloc(h, size) ==
    LET b == FindFree(h, 0, size) IN
    IF b = Null THEN [block |-> Null, hdr |-> h]
    ELSE [block |-> b, hdr |-> [split_block(h, b, size) EXCEPT ![b].free = FALSE]]

\* kfree of a valid used chunk b: mark it free, then coalesce.
kfree(h, b) == Coalesce([h EXCEPT ![b].free = TRUE], 0)

\* Mutant: krealloc frees the old chunk before allocating the new one.
ReallocFreeFirst(h, b, size) == kmalloc(kfree(h, b), size)

\* krealloc growing chunk b: kmalloc the new chunk, copy, kfree the old.
realloc_move(h, b, size) ==
    LET r == kmalloc(h, size) IN
    IF r.block = Null THEN r ELSE [r EXCEPT !.hdr = kfree(r.hdr, b)]

Ptr(b) == b + BLOCK_HEADER_SIZE
Block(p) == p - BLOCK_HEADER_SIZE

Init ==
    /\ heap_initialized = FALSE
    /\ head = Null
    /\ hdr = [a \in {} |-> Header(0, Null, TRUE)]
    /\ total_allocated = 0
    /\ total_free = HeapSize
    /\ allocation_count = 0
    /\ held = [p \in {} |-> 0]
    /\ panicked = FALSE

\* kmalloc(n) / kzalloc(n): initialises the heap on first use; panics when
\* no chunk fits.
Kmalloc ==
    /\ ~panicked
    /\ \E n \in Requests :
        LET h0 == IF heap_initialized THEN hdr ELSE init_heap
            r  == kmalloc(h0, Align(n))
        IN IF r.block = Null
           THEN /\ panicked' = TRUE
                /\ UNCHANGED <<heap_initialized, head, hdr, total_allocated,
                               total_free, allocation_count, held>>
           ELSE LET sz == r.hdr[r.block].size IN
                /\ heap_initialized' = TRUE
                /\ head' = 0
                /\ hdr' = r.hdr
                /\ total_allocated' = total_allocated + sz
                /\ total_free' = total_free - sz
                /\ allocation_count' = allocation_count + 1
                /\ held' = (Ptr(r.block) :> n) @@ held
                /\ UNCHANGED panicked

\* kfree(p) of a pointer the caller holds.
Kfree ==
    /\ ~panicked
    /\ \E p \in DOMAIN held :
        LET sz == hdr[Block(p)].size IN
        /\ hdr' = kfree(hdr, Block(p))
        /\ total_allocated' = total_allocated - sz
        /\ total_free' = total_free + sz
        /\ allocation_count' = allocation_count - 1
        /\ held' = [q \in DOMAIN held \ {p} |-> held[q]]
        /\ UNCHANGED <<heap_initialized, head, panicked>>

\* krealloc(p, n) of a held pointer: kept in place when n fits (the chunk
\* size is not changed), otherwise moved; kmalloc panics when nothing fits.
Krealloc ==
    /\ ~panicked
    /\ \E p \in DOMAIN held, n \in Requests :
        LET old == hdr[Block(p)].size IN
        IF n <= old
        THEN /\ held' = [held EXCEPT ![p] = n]
             /\ UNCHANGED <<heap_initialized, head, hdr, total_allocated,
                            total_free, allocation_count, panicked>>
        ELSE LET r == realloc_move(hdr, Block(p), Align(n)) IN
             IF r.block = Null
             THEN /\ panicked' = TRUE
                  /\ UNCHANGED <<heap_initialized, head, hdr, total_allocated,
                                 total_free, allocation_count, held>>
             ELSE LET sz == r.hdr[r.block].size IN
                  /\ hdr' = r.hdr
                  /\ total_allocated' = total_allocated + sz - old
                  /\ total_free' = total_free - sz + old
                  /\ held' = (Ptr(r.block) :> n)
                                @@ [q \in DOMAIN held \ {p} |-> held[q]]
                  /\ UNCHANGED <<heap_initialized, head, allocation_count,
                                 panicked>>

Next == Kmalloc \/ Kfree \/ Krealloc

Spec == Init /\ [][Next]_vars

(***************************************************************************)
(* Properties.                                                             *)
(***************************************************************************)
UsedBlocks == {a \in DOMAIN hdr : ~hdr[a].free}

\* The headers reached from head by next links, in list order, at most k.
RECURSIVE Chain(_, _, _)
Chain(h, cur, k) ==
    IF cur = Null \/ k = 0 \/ cur \notin DOMAIN h THEN <<>>
    ELSE <<cur>> \o Chain(h, h[cur].next, k - 1)

TypeOK ==
    /\ heap_initialized \in BOOLEAN /\ panicked \in BOOLEAN
    /\ DOMAIN hdr \subseteq 0..(HeapSize - 1)
    /\ \A a \in DOMAIN hdr :
          /\ hdr[a].size \in 0..HeapSize /\ hdr[a].size % 8 = 0
          /\ hdr[a].next \in DOMAIN hdr \cup {Null}
          /\ hdr[a].free \in BOOLEAN
    /\ DOMAIN held \subseteq 0..HeapSize /\ \A p \in DOMAIN held : held[p] \in Requests

\* The chunk list tiles the arena: it starts at heap_start, each header
\* follows the previous chunk's data exactly, the last chunk ends at
\* heap_end, and every header is on the list -- after any sequence of
\* splits and coalescing merges.
HeapTiled ==
    heap_initialized =>
        LET c == Chain(hdr, head, Cardinality(DOMAIN hdr)) IN
        /\ Len(c) = Cardinality(DOMAIN hdr) /\ c[1] = 0
        /\ \A i \in 1..(Len(c) - 1) :
              c[i + 1] = c[i] + BLOCK_HEADER_SIZE + hdr[c[i]].size
        /\ c[Len(c)] + BLOCK_HEADER_SIZE + hdr[c[Len(c)]].size = HeapSize

\* spec 4.2 "on free, coalesce forward through adjacent free blocks": no
\* free chunk is followed by a free chunk, whatever order the chunks were
\* freed in.
NoAdjacentFree ==
    \A a \in DOMAIN hdr :
        (hdr[a].free /\ hdr[a].next \in DOMAIN hdr) => ~hdr[hdr[a].next].free

\* Every pointer a caller holds is the data of its own used chunk, at least
\* as large as it asked for, every used chunk is held by its caller, and
\* kmalloc's allocation_count is the number of live allocations (a chunk
\* handed out twice counts twice).
HeldIsAllocated ==
    /\ {Ptr(b) : b \in UsedBlocks} = DOMAIN held
    /\ allocation_count = Cardinality(DOMAIN held)
    /\ \A p \in DOMAIN held : hdr[Block(p)].size >= held[p]

\* The heap implements HeapAllocator: live chunks, as regions, are created
\* disjoint from each other and from the region krealloc copies from.
Alloc == INSTANCE HeapAllocator
    WITH ArenaSize <- HeapSize,
         regions <- [p \in {Ptr(b) : b \in UsedBlocks} |-> hdr[Block(p)].size]
AllocatorSpec == Alloc!Spec
=============================================================================
