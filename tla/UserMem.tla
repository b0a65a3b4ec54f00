------------------------------- MODULE UserMem -------------------------------
(***************************************************************************)
(* Physical frames (src/src/mm/pmm.c), page tables (src/src/mm/vmm.c) and *)
(* the user-memory system calls built on them: process_create's address   *)
(* space and user stack, sys_sbrk, fork's clone, execve's clear, and       *)
(* free_process_struct's destroy (kernel/process.c, kernel/syscall.c),    *)
(* and the ELF loader's elf_create_process (src/src/lib/elf.c).           *)
(*                                                                         *)
(* A frame is a bitmap index.  ent[f] is the content of frame f read as a  *)
(* page table: two entries per table (the user-half entries the code       *)
(* touches), each a frame or NoFrame.  A table walk has four levels: the   *)
(* PML4 entry picks the heap (0) or the stack (1) region, the PDPT and PD  *)
(* use entry 0, the PT entry picks the page.  Page contents are not        *)
(* modelled; pmm_alloc_page zeroes a frame, so a new table is empty.       *)
(*                                                                         *)
(* Each operation runs inside one system call or in boot code, with       *)
(* interrupts off, so it is one step.  Memory operations are operators on  *)
(* a record S = [used, ent, free, panic] and return the new S with their   *)
(* result, so that a caller composes them in the code's order, failure     *)
(* paths included.                                                         *)
(***************************************************************************)
EXTENDS Integers, Sequences, FiniteSets, FiniteSetsExt

CONSTANTS
    Procs,          \* PCBs
    NFrames,        \* frames the PMM manages
    PAGE_SIZE,      \* bytes per page (4096 in the code)
    HeapPages,      \* heap_max - heap_start, in pages (256 MiB in the code)
    StackPages,     \* USER_STACK_SIZE / PAGE_SIZE
    Increments,     \* sbrk arguments programs pass
    Ops,            \* which of "fork", "exec", "reap", "elf" happen
    Images          \* the ELF images elf_create_process is given

Frames == 0..(NFrames - 1)
NoFrame == -1
Idx == {0, 1}
Zero == [i \in Idx |-> NoFrame]
HEAP_L4 == 0
STACK_L4 == 1
HeapMax == HeapPages * PAGE_SIZE    \* heap offsets start at heap_start = 0

ASSUME StackPages <= 2 /\ HeapPages <= 2

VARIABLES
    used,               \* pmm_bitmap: frames in use
    ent,                \* ent[f]: frame f's entries, as a page table
    pmm_free_pages,
    panicked,
    live,               \* processes with an address space
    page_table,         \* page_table[p]: p's PML4 frame
    heap_current,       \* p's break, as an offset from heap_start
    pages_allocated,
    execd               \* p's user half was cleared by execve

vars == <<used, ent, pmm_free_pages, panicked, live, page_table,
          heap_current, pages_allocated, execd>>

Mem == [used |-> used, ent |-> ent, free |-> pmm_free_pages, panic |-> panicked]

Store(S) ==
    /\ used' = S.used /\ ent' = S.ent
    /\ pmm_free_pages' = S.free /\ panicked' = S.panic

(***************************************************************************)
(* pmm.c                                                                   *)
(***************************************************************************)
\* bitmap_find_free: lowest clear bit, or -1.
bitmap_find_free(S) ==
    IF Frames \subseteq S.used THEN NoFrame ELSE Min(Frames \ S.used)

\* pmm_alloc_page's step once frame f is found: set the bit, count it, zero it.
TakePage(S, f) ==
    IF f = NoFrame THEN [S |-> S, frame |-> NoFrame]
    ELSE [S |-> [S EXCEPT !.used = @ \cup {f}, !.free = @ - 1, !.ent[f] = Zero],
          frame |-> f]

\* Mutant: the page is taken without pmm_free_pages--.
PmmAllocUncounted(S) ==
    [TakePage(S, bitmap_find_free(S)) EXCEPT !.S.free = S.free]

\* pmm_alloc_page
pmm_alloc_page(S) == TakePage(S, bitmap_find_free(S))

\* pmm_free_page: panics on a frame that is not in use.
pmm_free_page(S, f) ==
    IF f \notin S.used THEN [S EXCEPT !.panic = TRUE]
    ELSE [S EXCEPT !.used = @ \ {f}, !.free = @ + 1]

(***************************************************************************)
(* vmm.c.  Each operator returns [S, frame] or [S, ok]; a helper takes the *)
(* result of the call before it as a parameter.                            *)
(***************************************************************************)
\* vmm_get_or_create_table's creation branch: link the new table r.frame.
LinkTable(r, t, i) ==
    IF r.frame = NoFrame THEN r
    ELSE [S |-> [r.S EXCEPT !.ent[t][i] = r.frame], frame |-> r.frame]

vmm_get_or_create_table(S, t, i) ==
    IF S.ent[t][i] # NoFrame THEN [S |-> S, frame |-> S.ent[t][i]]
    ELSE LinkTable(pmm_alloc_page(S), t, i)

\* vmm_map_page's walk: get or create the tables along path, from t.
RECURSIVE WalkCreate(_, _, _)
WalkOn(r, path) ==
    IF r.frame = NoFrame THEN r ELSE WalkCreate(r.S, r.frame, path)

WalkCreate(S, t, path) ==
    IF path = <<>> THEN [S |-> S, frame |-> t]
    ELSE WalkOn(vmm_get_or_create_table(S, t, Head(path)), Tail(path))

\* vmm_map_page's last step: the PT entry is overwritten whatever it held.
SetEntry(w, i, phys) ==
    IF w.frame = NoFrame THEN [S |-> w.S, ok |-> FALSE]
    ELSE [S |-> [w.S EXCEPT !.ent[w.frame][i] = phys], ok |-> TRUE]

vmm_map_page(S, root, va, phys) ==
    SetEntry(WalkCreate(S, root, <<va.l4, 0, 0>>), va.l1, phys)

\* When vmm_map_page fails the frame f is freed again.
UndoFailedMap(m, f) ==
    IF m.ok THEN m ELSE [S |-> pmm_free_page(m.S, f), ok |-> FALSE]

MapNew(r, root, va) ==
    IF r.frame = NoFrame THEN [S |-> r.S, ok |-> FALSE]
    ELSE UndoFailedMap(vmm_map_page(r.S, root, va, r.frame), r.frame)

\* One iteration of vmm_alloc_user_pages: allocate a frame and map it.
vmm_alloc_user_page(S, root, va) == MapNew(pmm_alloc_page(S), root, va)

\* vmm_alloc_user_pages over the pages vas, stopping at the first failure
\* (earlier pages stay mapped); n counts pages_allocated increments.
RECURSIVE vmm_alloc_user_pages(_, _, _)
CountOne(rest) == [rest EXCEPT !.n = @ + 1]

AllocRest(r, root, vas) ==
    IF ~r.ok THEN [S |-> r.S, ok |-> FALSE, n |-> 0]
    ELSE CountOne(vmm_alloc_user_pages(r.S, root, vas))

vmm_alloc_user_pages(S, root, vas) ==
    IF vas = <<>> THEN [S |-> S, ok |-> TRUE, n |-> 0]
    ELSE AllocRest(vmm_alloc_user_page(S, root, Head(vas)), root, Tail(vas))

vmm_create_address_space(S) == pmm_alloc_page(S)

\* vmm_destroy_address_space: frees the PML4 frame only (the TODO).
vmm_destroy_address_space(S, root) == pmm_free_page(S, root)

\* vmm_clear_user_space: zeroes the user PML4 entries, freeing nothing.
vmm_clear_user_space(S, root) == [S EXCEPT !.ent[root] = Zero]

\* A walk of the tables in S from t along path; NoFrame where it stops.
RECURSIVE WalkIn(_, _, _)
WalkIn(S, t, path) ==
    IF path = <<>> \/ t = NoFrame THEN t
    ELSE WalkIn(S, S.ent[t][Head(path)], Tail(path))

(***************************************************************************)
(* Fork's clone: clone_pt, clone_pd, clone_pdpt and the PML4 loop of       *)
(* vmm_clone_address_space have one shape.  Each allocates a zeroed child *)
(* table and copies every present entry, recursing one level down (a PT   *)
(* entry is copied by clone_page).  On a failure it frees its own child   *)
(* table and returns 0; the subtrees already copied into it are not freed.*)
(* Level d = 1 is a PT, 4 a PML4 (whose failure path calls                *)
(* vmm_destroy_address_space, which frees the same one frame).            *)
(***************************************************************************)
RECURSIVE CloneTable(_, _, _), CloneEntries(_, _, _, _, _)

\* Mutant: the child shares the parent's page.
ClonePageShared(S, f) == [S |-> S, frame |-> f]

\* clone_page: a fresh frame for the copy of page f.
clone_page(S, f) == pmm_alloc_page(S)

\* The copy of entry f one level down.
CloneChild(S, f, d) ==
    IF d = 1 THEN clone_page(S, f) ELSE CloneTable(S, f, d - 1)

\* Mutant: the failure path frees the parent's table instead of the child's.
CloneLinkFreeParent(c, pt, ct, d, i) ==
    IF c.frame = NoFrame THEN [S |-> pmm_free_page(c.S, pt), frame |-> NoFrame]
    ELSE CloneEntries([c.S EXCEPT !.ent[ct][i] = c.frame], pt, ct, d, i + 1)

CloneEntriesFreeParent(S, pt, ct, d, i) ==
    IF i > 1 THEN [S |-> S, frame |-> ct]
    ELSE IF S.ent[pt][i] = NoFrame THEN CloneEntries(S, pt, ct, d, i + 1)
    ELSE CloneLinkFreeParent(CloneChild(S, S.ent[pt][i], d), pt, ct, d, i)

\* Entry i's copy c is stored in ct, or ct is freed when c failed.
CloneLink(c, pt, ct, d, i) ==
    IF c.frame = NoFrame THEN [S |-> pmm_free_page(c.S, ct), frame |-> NoFrame]
    ELSE CloneEntries([c.S EXCEPT !.ent[ct][i] = c.frame], pt, ct, d, i + 1)

\* The copy loop of table pt into child table ct from entry i on.
CloneEntries(S, pt, ct, d, i) ==
    IF i > 1 THEN [S |-> S, frame |-> ct]
    ELSE IF S.ent[pt][i] = NoFrame THEN CloneEntries(S, pt, ct, d, i + 1)
    ELSE CloneLink(CloneChild(S, S.ent[pt][i], d), pt, ct, d, i)

CloneInto(r, pt, d) ==
    IF r.frame = NoFrame THEN r ELSE CloneEntries(r.S, pt, r.frame, d, 0)

CloneTable(S, pt, d) == CloneInto(pmm_alloc_page(S), pt, d)

vmm_clone_address_space(S, root) == CloneTable(S, root, 4)

(***************************************************************************)
(* sys_sbrk                                                                *)
(***************************************************************************)
PageDown(a) == (a \div PAGE_SIZE) * PAGE_SIZE

\* Mutant: new_page is rounded down, not up.
PageUpTruncated(a) == PageDown(a)

PageUp(a) == ((a + PAGE_SIZE - 1) \div PAGE_SIZE) * PAGE_SIZE

\* Heap page at offset a: PML4 entry HEAP_L4, PT entry a / PAGE_SIZE.
HeapVA(a) == [l4 |-> HEAP_L4, l1 |-> a \div PAGE_SIZE]

\* The growth loop: the pages from old_page up to new_page that lie at or
\* above the old break, one vmm_alloc_user_pages call each, in order.
SbrkPages(hc, new) ==
    LET ps == {k \in (PageDown(hc) \div PAGE_SIZE)..(PageUp(new) \div PAGE_SIZE - 1) :
                  k * PAGE_SIZE >= hc}
    IN  [j \in 1..Cardinality(ps) |-> HeapVA((Min(ps) + j - 1) * PAGE_SIZE)]

StackVAs == [j \in 1..StackPages |-> [l4 |-> STACK_L4, l1 |-> j - 1]]

\* process_create's stack step on the new PML4 root: a failure destroys
\* the address space and panics.  n is 0: pages_allocated is reset after
\* the stack pages counted it.
StackOrPanic(st, root) ==
    IF st.ok THEN [S |-> st.S, frame |-> root, n |-> 0]
    ELSE [S |-> [vmm_destroy_address_space(st.S, root) EXCEPT !.panic = TRUE],
          frame |-> NoFrame, n |-> 0]

CreateStack(a) ==
    IF a.frame = NoFrame
    THEN [S |-> [a.S EXCEPT !.panic = TRUE], frame |-> NoFrame, n |-> 0]
    ELSE StackOrPanic(vmm_alloc_user_pages(a.S, a.frame, StackVAs), a.frame)

\* process_create's memory part: a new address space and the user stack.
\* frame is the PML4, or NoFrame after a panic.
process_create(S) == CreateStack(vmm_create_address_space(S))

\* process_destroy's memory part: vmm_destroy_address_space (PML4 only).
process_destroy(S, root) == vmm_destroy_address_space(S, root)

(***************************************************************************)
(* elf.c.  An image is [valid, segs]: valid abstracts elf_validate's four  *)
(* header checks (magic, class, type, machine); a segment is [load, l4,   *)
(* vaddr, memsz, filesz] with load for p_type = PT_LOAD, and vaddr an      *)
(* offset in PML4 region l4.  Byte contents are not modelled: the copy and *)
(* the BSS loops change no modelled state, but the copy fails when a page *)
(* it copies to is not mapped (filesz > memsz).                            *)
(***************************************************************************)
elf_validate(img) == img.valid

\* The pages from vaddr rounded down to vaddr + memsz rounded up.
ElfSegPages(seg) ==
    [j \in 1..(PageUp(seg.vaddr + seg.memsz) \div PAGE_SIZE
               - PageDown(seg.vaddr) \div PAGE_SIZE) |->
        [l4 |-> seg.l4, l1 |-> PageDown(seg.vaddr) \div PAGE_SIZE + j - 1]]

\* The copy loop: vmm_get_physical of every byte it copies is non-zero.
ElfCopyOk(S, root, seg) ==
    \A a \in seg.vaddr..(seg.vaddr + seg.filesz - 1) :
        WalkIn(S, root, <<seg.l4, 0, 0, a \div PAGE_SIZE>>) # NoFrame

\* elf_load's loop over the program headers from segs on; n counts the
\* pages_allocated increments.  The page loop has vmm_alloc_user_pages's
\* shape (allocate, map, free the frame when the map fails, stop); m is
\* its result for the head segment.
RECURSIVE ElfLoadSegs(_, _, _, _)
ElfSegDone(m, root, segs, n) ==
    IF ~m.ok \/ ~ElfCopyOk(m.S, root, Head(segs))
    THEN [S |-> m.S, ok |-> FALSE, n |-> n + m.n]
    ELSE ElfLoadSegs(m.S, root, Tail(segs), n + m.n)

ElfLoadSegs(S, root, segs, n) ==
    IF segs = <<>> THEN [S |-> S, ok |-> TRUE, n |-> n]
    ELSE IF ~Head(segs).load THEN ElfLoadSegs(S, root, Tail(segs), n)
    ELSE ElfSegDone(vmm_alloc_user_pages(S, root, ElfSegPages(Head(segs))),
                    root, segs, n)

elf_load(S, root, img) ==
    IF ~elf_validate(img) THEN [S |-> S, ok |-> FALSE, n |-> 0]
    ELSE ElfLoadSegs(S, root, img.segs, 0)

\* elf_create_process after process_create returned c: elf_load into its
\* address space; a failed load calls process_destroy.
ElfLoaded(l, root) ==
    IF l.ok THEN [S |-> l.S, frame |-> root, n |-> l.n]
    ELSE [S |-> process_destroy(l.S, root), frame |-> NoFrame, n |-> 0]

ElfLoadInto(c, img) ==
    IF c.frame = NoFrame THEN c
    ELSE ElfLoaded(elf_load(c.S, c.frame, img), c.frame)

elf_create_process(S, img) == ElfLoadInto(process_create(S), img)

(***************************************************************************)
(* Operations                                                              *)
(***************************************************************************)

Init ==
    /\ used = {}
    /\ ent = [f \in Frames |-> Zero]
    /\ pmm_free_pages = NFrames
    /\ panicked = FALSE
    /\ live = {}
    /\ page_table = [p \in Procs |-> NoFrame]
    /\ heap_current = [p \in Procs |-> 0]
    /\ pages_allocated = [p \in Procs |-> 0]
    /\ execd = [p \in Procs |-> FALSE]

\* A process p becomes live on the PML4 root with an empty heap.
Start(p, root, pages) ==
    /\ live' = live \cup {p}
    /\ page_table' = [page_table EXCEPT ![p] = root]
    /\ heap_current' = [heap_current EXCEPT ![p] = 0]
    /\ pages_allocated' = [pages_allocated EXCEPT ![p] = pages]
    /\ execd' = [execd EXCEPT ![p] = FALSE]

\* The result c of a creation is stored; p starts when it has a root.
Created(p, c) ==
    /\ Store(c.S)
    /\ IF c.frame = NoFrame
       THEN UNCHANGED <<live, page_table, heap_current, pages_allocated, execd>>
       ELSE Start(p, c.frame, c.n)

ProcessCreate(p) ==
    /\ ~panicked /\ p \notin live
    /\ Created(p, process_create(Mem))

\* elf_create_process (test_elf_loader's 'e' key).
ElfCreateProcess(p, img) ==
    /\ "elf" \in Ops
    /\ ~panicked /\ p \notin live
    /\ Created(p, elf_create_process(Mem, img))

\* sys_sbrk's growth by p to the break new, r the result of the page loop:
\* the break moves only when all pages were mapped.
SbrkGrow(p, new, r) ==
    /\ Store(r.S)
    /\ pages_allocated' = [pages_allocated EXCEPT ![p] = @ + r.n]
    /\ heap_current' = IF r.ok THEN [heap_current EXCEPT ![p] = new]
                       ELSE heap_current

\* sys_sbrk by the current process p.  increment 0 and a break outside
\* [heap_start, heap_max] return without a change, so only the other
\* increments are steps.  Shrinking only moves the break.
SysSbrk(p, increment) ==
    /\ ~panicked /\ p \in live
    /\ increment # 0
    /\ 0 <= heap_current[p] + increment /\ heap_current[p] + increment <= HeapMax
    /\ IF increment > 0
       THEN SbrkGrow(p, heap_current[p] + increment,
                vmm_alloc_user_pages(Mem, page_table[p],
                    SbrkPages(heap_current[p], heap_current[p] + increment)))
       ELSE /\ heap_current' = [heap_current EXCEPT ![p] = @ + increment]
            /\ UNCHANGED <<used, ent, pmm_free_pages, panicked, pages_allocated>>
    /\ UNCHANGED <<live, page_table, execd>>

\* sys_fork's result r for child PCB c of p: on failure the PCB is
\* released (free_process_struct, page_table still NULL).
ForkDone(p, c, r) ==
    /\ Store(r.S)
    /\ IF r.frame = NoFrame
       THEN UNCHANGED <<live, page_table, heap_current, pages_allocated, execd>>
       ELSE /\ live' = live \cup {c}
            /\ page_table' = [page_table EXCEPT ![c] = r.frame]
            /\ heap_current' = [heap_current EXCEPT ![c] = heap_current[p]]
            /\ pages_allocated' = [pages_allocated EXCEPT ![c] = pages_allocated[p]]
            /\ execd' = [execd EXCEPT ![c] = execd[p]]

\* sys_fork by p into a free PCB c: clone the address space.
SysFork(p, c) ==
    /\ "fork" \in Ops
    /\ ~panicked /\ p \in live /\ c \notin live
    /\ ForkDone(p, c, vmm_clone_address_space(Mem, page_table[p]))

\* sys_execve of a built-in program: the user half is cleared; the break,
\* heap_current, is left where it was.
SysExecve(p) ==
    /\ "exec" \in Ops
    /\ ~panicked /\ p \in live
    /\ Store(vmm_clear_user_space(Mem, page_table[p]))
    /\ execd' = [execd EXCEPT ![p] = TRUE]
    /\ UNCHANGED <<live, page_table, heap_current, pages_allocated>>

\* sys_wait reaping exited p: free_process_struct destroys its address space.
Reap(p) ==
    /\ "reap" \in Ops
    /\ ~panicked /\ p \in live
    /\ Store(vmm_destroy_address_space(Mem, page_table[p]))
    /\ live' = live \ {p}
    /\ UNCHANGED <<page_table, heap_current, pages_allocated, execd>>

Next ==
    \E p \in Procs :
        \/ ProcessCreate(p)
        \/ \E img \in Images : ElfCreateProcess(p, img)
        \/ \E i \in Increments : SysSbrk(p, i)
        \/ \E c \in Procs : SysFork(p, c)
        \/ SysExecve(p)
        \/ Reap(p)

Spec == Init /\ [][Next]_vars

(***************************************************************************)
(* Page-table walks                                                        *)
(***************************************************************************)
Walk(t, path) == WalkIn(Mem, t, path)

\* vmm_get_physical: the frame va maps to in root's tree, or NoFrame.
vmm_get_physical(root, va) == Walk(root, <<va.l4, 0, 0, va.l1>>)

\* The entries <<t, i>> in use in the tree under table t at level d.
RECURSIVE Edges(_, _)
Edges(t, d) ==
    UNION { {<<t, i>>} \cup (IF d = 1 THEN {} ELSE Edges(ent[t][i], d - 1)) :
            i \in {j \in Idx : ent[t][j] # NoFrame} }

Target(e) == ent[e[1]][e[2]]

\* Every frame p's page tables reach, tables and pages, its PML4 included.
Owned(p) == {page_table[p]} \cup {Target(e) : e \in Edges(page_table[p], 4)}

LiveEdges == UNION {Edges(page_table[p], 4) : p \in live}

(***************************************************************************)
(* Properties                                                              *)
(***************************************************************************)
TypeOK ==
    /\ used \subseteq Frames
    /\ ent \in [Frames -> [Idx -> Frames \cup {NoFrame}]]
    /\ pmm_free_pages = NFrames - Cardinality(used)
    /\ panicked \in BOOLEAN
    /\ live \subseteq Procs
    /\ page_table \in [Procs -> Frames \cup {NoFrame}]
    /\ heap_current \in [Procs -> 0..HeapMax]
    /\ pages_allocated \in [Procs -> Nat]
    /\ execd \in [Procs -> BOOLEAN]

\* No physical frame is reachable twice from the live address spaces:
\* every PML4 is its process's own, and every table entry of every live
\* tree (fork's clone_pt/pd/pdpt copies, sbrk's and the stack's mappings)
\* points to a frame no other entry and no PML4 points to.  A frame shared
\* by two processes lets one write the other's memory or page tables.
ExclusiveFrames ==
    /\ \A p, q \in live : p # q => page_table[p] # page_table[q]
    /\ \A e1, e2 \in LiveEdges : e1 # e2 => Target(e1) # Target(e2)
    /\ \A e \in LiveEdges, p \in live : Target(e) # page_table[p]

\* Every frame a live process's page tables reach is still allocated in the
\* PMM bitmap: no failure path of the clone, the map or the stack setup
\* frees a frame that stays linked, so pmm_alloc_page cannot hand it out.
LiveFramesAllocated ==
    \A p \in live : Owned(p) \subseteq used

\* A running process that has not exec'd has its user stack mapped and
\* every heap page below its break mapped: sys_sbrk moves the break only
\* past pages it mapped, and fork's copy keeps them.
UserMemoryMapped ==
    \A p \in live : ~execd[p] =>
        /\ \A j \in 1..StackPages :
               vmm_get_physical(page_table[p], StackVAs[j]) # NoFrame
        /\ \A a \in 0..(heap_current[p] - 1) :
               vmm_get_physical(page_table[p], HeapVA(a)) # NoFrame

\* While the kernel runs, every allocated frame belongs to a live address
\* space: a frame that no page table reaches and the bitmap holds is lost
\* until reboot.  With sys_sbrk alone this is the promise of its comment
\* "allocate new pages as needed": a page is mapped once.
NoFrameLeaked ==
    ~panicked => used \subseteq UNION {Owned(p) : p \in live}
====
