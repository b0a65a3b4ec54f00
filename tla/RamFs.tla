-------------------------------- MODULE RamFs --------------------------------
(***************************************************************************)
(* The RAM filesystem of src/src/fs/fs.c and the file system calls of     *)
(* kernel/syscall.c that use it (open, close, read, write and mkdir on    *)
(* files, through one process's fd table).                                 *)
(*                                                                         *)
(* ramfs is the C global: the node table, every block's next_block and     *)
(* data, the block bitmap (the set of blocks whose bit is set), the root   *)
(* directory's entries and next_inode.  The functions of fs.c are          *)
(* operators on such a record F that return the new record with their     *)
(* result, so that a system call composes them in the code's order.       *)
(*                                                                         *)
(* Every name resolves under root (spec 4.9), so the root's block is the   *)
(* only directory block entries are ever added to; it is modelled as       *)
(* entries.  The other directories' blocks are zeroed and never written.  *)
(* Names are model values; a byte is a small integer, 0 being the zero    *)
(* that never-written block bytes hold.                                    *)
(***************************************************************************)
EXTENDS Integers, Sequences, FiniteSets, FiniteSetsExt

CONSTANTS
    Names,          \* file names programs pass
    FS_MAX_FILES,
    FS_MAX_BLOCKS,
    FS_BLOCK_SIZE,
    MaxEntries,     \* FS_BLOCK_SIZE / sizeof(fs_dirent_t)
    MAX_FDS,
    InitFiles,      \* the files fs_init creates: <<[name, data], ...>>
    WriteData,      \* byte strings passed to write
    ReadCounts,     \* counts passed to read
    MaxInode        \* bound on next_inode

None == -1
Slots == 0..(FS_MAX_FILES - 1)
Blocks == 0..(FS_MAX_BLOCKS - 1)
Offs == 0..(FS_BLOCK_SIZE - 1)
EntryIdx == 0..(MaxEntries - 1)
Fds == 3..(MAX_FDS - 1)
ZeroBlock == [o \in Offs |-> 0]
NoEntry == [name |-> "", inode |-> 0]
Unused == [inode_num |-> 0, name |-> "", type |-> "FILE", size |-> 0,
           first_block |-> 0]

VARIABLES
    ramfs,      \* the filesystem
    fds,        \* the current process's fd table: node slot and offset
    got         \* the bytes the last successful read returned

vars == <<ramfs, fds, got>>

\* The static ramfs before fs_init: all zero.
Zeroed ==
    [nodes |-> [k \in Slots |-> Unused],
     next |-> [b \in Blocks |-> 0],
     data |-> [b \in Blocks |-> ZeroBlock],
     used |-> {},
     entries |-> [i \in EntryIdx |-> NoEntry],
     next_inode |-> 0]

(***************************************************************************)
(* Blocks and nodes                                                        *)
(***************************************************************************)
\* Mutant: next_block keeps what the block held (0 in the zeroed BSS).
AllocateBlockNoEnd(F) ==
    IF Blocks \subseteq F.used THEN [F |-> F, b |-> None]
    ELSE LET b == Min(Blocks \ F.used) IN
         [F |-> [F EXCEPT !.used = @ \cup {b}], b |-> b]

\* allocate_block: the lowest clear bit; sets it and ends the chain there.
allocate_block(F) ==
    IF Blocks \subseteq F.used THEN [F |-> F, b |-> None]
    ELSE LET b == Min(Blocks \ F.used) IN
         [F |-> [F EXCEPT !.used = @ \cup {b}, !.next[b] = None], b |-> b]

\* The "find free node" loop of ramfs_create_file and ramfs_create_dir.
FreeNode(F) ==
    LET free == {k \in Slots : F.nodes[k].inode_num = 0} IN
    IF free = {} THEN None ELSE Min(free)

\* The "add to parent directory" loop: the first empty entry of the root's
\* block, and the root's size counts it.  A full block adds nothing.
AddEntry(F, k) ==
    LET free == {i \in EntryIdx : F.entries[i].inode = 0} IN
    IF free = {} THEN F
    ELSE [F EXCEPT !.entries[Min(free)] = [name |-> F.nodes[k].name,
                                           inode |-> F.nodes[k].inode_num],
                   !.nodes[0].size = @ + 1]

NewNode(F, k, name, type) ==
    [F EXCEPT !.nodes[k] = [inode_num |-> F.next_inode, name |-> name,
                            type |-> type, size |-> 0, first_block |-> None],
              !.next_inode = @ + 1]

ramfs_create_file(F, name) ==
    LET k == FreeNode(F) IN
    IF k = None THEN [F |-> F, node |-> None]
    ELSE [F |-> AddEntry(NewNode(F, k, name, "FILE"), k), node |-> k]

\* Mutant: the failure path keeps the node's inode number.
CreateDirNoReset(F, name) ==
    LET k  == FreeNode(F)
        F1 == NewNode(F, k, name, "DIR")
        a  == allocate_block(F1)
    IN  IF k = None THEN [F |-> F, node |-> None]
        ELSE IF a.b = None THEN [F |-> F1, node |-> None]
        ELSE [F |-> AddEntry([a.F EXCEPT !.nodes[k].first_block = a.b,
                                         !.data[a.b] = ZeroBlock], k),
              node |-> k]

\* ramfs_create_dir: a node with a zeroed block; without a block the node
\* is released again (next_inode stays incremented).
ramfs_create_dir(F, name) ==
    LET k  == FreeNode(F)
        F1 == NewNode(F, k, name, "DIR")
        a  == allocate_block(F1)
    IN  IF k = None THEN [F |-> F, node |-> None]
        ELSE IF a.b = None THEN [F |-> [F1 EXCEPT !.nodes[k].inode_num = 0], node |-> None]
        ELSE [F |-> AddEntry([a.F EXCEPT !.nodes[k].first_block = a.b,
                                         !.data[a.b] = ZeroBlock], k),
              node |-> k]

\* ramfs_finddir on the root: the first entry with the name whose inode a
\* node has, and the first such node.
ramfs_finddir(F, name) ==
    LET hits == {h \in EntryIdx \X Slots :
                    /\ F.entries[h[1]].inode # 0
                    /\ F.entries[h[1]].name = name
                    /\ F.nodes[h[2]].inode_num = F.entries[h[1]].inode}
        i == Min({h[1] : h \in hits})
    IN  IF hits = {} THEN None ELSE Min({h[2] : h \in {g \in hits : g[1] = i}})

(***************************************************************************)
(* Reading and writing a block chain                                       *)
(***************************************************************************)
Least(a, b) == IF a < b THEN a ELSE b

\* ramfs_read's skip loop: follow the chain to the block holding offset o.
RECURSIVE SkipRead(_, _, _)
SkipRead(F, b, o) ==
    IF o >= FS_BLOCK_SIZE /\ b # None THEN SkipRead(F, F.next[b], o - FS_BLOCK_SIZE)
    ELSE [b |-> b, o |-> o]

\* ramfs_read's copy loop, one block's part per iteration.
RECURSIVE ReadLoop(_, _, _, _, _)
ReadLoop(F, b, o, size, acc) ==
    IF Len(acc) < size /\ b # None
    THEN LET n == Least(FS_BLOCK_SIZE - o, size - Len(acc)) IN
         ReadLoop(F, F.next[b], 0, size, acc \o [j \in 1..n |-> F.data[b][o + j - 1]])
    ELSE acc

\* ramfs_read of node k: ok is FALSE for the -1 of a directory.
ramfs_read(F, k, off, size) ==
    LET n  == F.nodes[k]
        sz == IF off + size > n.size THEN n.size - off ELSE size
        s  == SkipRead(F, n.first_block, off)
    IN  IF n.type # "FILE" THEN [ok |-> FALSE, bytes |-> <<>>]
        ELSE IF off >= n.size THEN [ok |-> TRUE, bytes |-> <<>>]
        ELSE [ok |-> TRUE, bytes |-> ReadLoop(F, s.b, s.o, sz, <<>>)]

\* ramfs_write's skip loop: extends the chain with a new block wherever it
\* ends before offset o; ok is FALSE for its "return -1".
RECURSIVE SkipWrite(_, _, _)
SkipWrite(F, b, o) ==
    IF o < FS_BLOCK_SIZE THEN [F |-> F, b |-> b, o |-> o, ok |-> TRUE]
    ELSE IF F.next[b] # None THEN SkipWrite(F, F.next[b], o - FS_BLOCK_SIZE)
    ELSE LET a == allocate_block(F) IN
         IF a.b = None THEN [F |-> a.F, b |-> b, o |-> o, ok |-> FALSE]
         ELSE SkipWrite([a.F EXCEPT !.next[b] = a.b], a.b, o - FS_BLOCK_SIZE)

\* Stores bytes done+1.. of d into block b from offset o, n of them.
Store(F, b, o, d, done, n) ==
    [F EXCEPT !.data[b] = [x \in Offs |-> IF x >= o /\ x < o + n
                                          THEN d[done + x - o + 1] ELSE @[x]]]

RECURSIVE WriteLoop(_, _, _, _, _)

\* Mutant: block_offset is not reset after the first block.
WriteLoopNoReset(F, b, o, d, done) ==
    LET n  == Least(FS_BLOCK_SIZE - o, Len(d) - done)
        F1 == Store(F, b, o, d, done, n)
        a  == allocate_block(F1)
    IN  IF done + n >= Len(d) THEN [F |-> F1, done |-> done + n]
        ELSE IF F1.next[b] # None THEN WriteLoop(F1, F1.next[b], o, d, done + n)
        ELSE IF a.b = None THEN [F |-> F1, done |-> done + n]
        ELSE WriteLoop([a.F EXCEPT !.next[b] = a.b], a.b, o, d, done + n)

\* ramfs_write's copy loop: after each block, the next one, allocated and
\* linked if the chain ends; no block left is its "break".
WriteLoop(F, b, o, d, done) ==
    LET n  == Least(FS_BLOCK_SIZE - o, Len(d) - done)
        F1 == Store(F, b, o, d, done, n)
        a  == allocate_block(F1)
    IN  IF done + n >= Len(d) THEN [F |-> F1, done |-> done + n]
        ELSE IF F1.next[b] # None THEN WriteLoop(F1, F1.next[b], 0, d, done + n)
        ELSE IF a.b = None THEN [F |-> F1, done |-> done + n]
        ELSE WriteLoop([a.F EXCEPT !.next[b] = a.b], a.b, 0, d, done + n)

\* ramfs_write of the non-empty d at off into node k: the first block is
\* allocated on the first write; size grows to off + written.
ramfs_write(F, k, off, d) ==
    LET n  == F.nodes[k]
        a  == allocate_block(F)
        F1 == IF n.first_block = None THEN [a.F EXCEPT !.nodes[k].first_block = a.b]
              ELSE F
        s  == SkipWrite(F1, F1.nodes[k].first_block, off)
        w  == WriteLoop(s.F, s.b, s.o, d, 0)
    IN  IF n.type # "FILE" THEN [F |-> F, written |-> -1]
        ELSE IF n.first_block = None /\ a.b = None THEN [F |-> F, written |-> -1]
        ELSE IF ~s.ok THEN [F |-> s.F, written |-> -1]
        ELSE [F |-> [w.F EXCEPT !.nodes[k].size = IF off + w.done > @
                                                  THEN off + w.done ELSE @],
              written |-> w.done]

\* fs_read and fs_write: the dispatch through ramfs_ops.
fs_read(F, k, off, size) == ramfs_read(F, k, off, size)

fs_write(F, k, off, d) == ramfs_write(F, k, off, d)

(***************************************************************************)
(* fs_init and the system calls                                            *)
(***************************************************************************)
\* fs_init's "create, find, write" for one initial file.
InitFile(F, f) ==
    LET c == ramfs_create_file(F, f.name)
        k == ramfs_finddir(c.F, f.name)
    IN  IF k = None THEN c.F ELSE ramfs_write(c.F, k, 0, f.data).F

RECURSIVE InitFilesFrom(_, _)
InitFilesFrom(F, s) ==
    IF s = <<>> THEN F ELSE InitFilesFrom(InitFile(F, Head(s)), Tail(s))

\* fs_init: the root directory in node 0 with inode 1 and a block, then the
\* initial files.
fs_init ==
    LET a == allocate_block([Zeroed EXCEPT !.next_inode = 1]) IN
    InitFilesFrom([a.F EXCEPT !.nodes[0] = [inode_num |-> 1, name |-> "/",
                                            type |-> "DIR", size |-> 0,
                                            first_block |-> a.b],
                              !.next_inode = 2],
                  InitFiles)

Init ==
    /\ ramfs = fs_init
    /\ fds = [fd \in Fds |-> [node |-> None, offset |-> 0]]
    /\ got = <<>>

FreeFd == Min({fd \in Fds : fds[fd].node = None})

\* sys_open: the lowest free fd, bound at offset 0 to the node found by
\* name, or to a new file when none is.  No free fd, or no free node, is -1
\* with nothing changed.
SysOpen(name) ==
    LET k == ramfs_finddir(ramfs, name)
        c == ramfs_create_file(ramfs, name)
    IN
    /\ \E fd \in Fds : fds[fd].node = None
    /\ k # None \/ (c.node # None /\ ramfs.next_inode < MaxInode)
    /\ ramfs' = IF k # None THEN ramfs ELSE c.F
    /\ fds' = [fds EXCEPT ![FreeFd] = [node |-> IF k # None THEN k ELSE c.node,
                                       offset |-> 0]]
    /\ UNCHANGED got

\* sys_close: clears the entry.
SysClose(fd) ==
    /\ fds[fd].node # None
    /\ fds' = [fds EXCEPT ![fd] = [node |-> None, offset |-> 0]]
    /\ UNCHANGED <<ramfs, got>>

\* sys_write to a file fd: the offset advances by what was written.
SysWrite(fd, d) ==
    LET w == fs_write(ramfs, fds[fd].node, fds[fd].offset, d) IN
    /\ fds[fd].node # None
    /\ ramfs' = w.F
    /\ fds' = IF w.written > 0 THEN [fds EXCEPT ![fd].offset = @ + w.written]
              ELSE fds
    /\ UNCHANGED got

\* sys_read from a file fd: the offset advances by what was read.
SysRead(fd, count) ==
    LET r == fs_read(ramfs, fds[fd].node, fds[fd].offset, count) IN
    /\ fds[fd].node # None
    /\ fds' = [fds EXCEPT ![fd].offset = @ + Len(r.bytes)]
    /\ got' = IF r.ok THEN r.bytes ELSE got
    /\ UNCHANGED ramfs

\* sys_mkdir: ramfs_create_dir under root, with no check that the name is
\* free.  With no free node it returns before any change.
SysMkdir(name) ==
    /\ FreeNode(ramfs) # None
    /\ ramfs.next_inode < MaxInode
    /\ ramfs' = ramfs_create_dir(ramfs, name).F
    /\ UNCHANGED <<fds, got>>

Next ==
    \/ \E name \in Names : SysOpen(name) \/ SysMkdir(name)
    \/ \E fd \in Fds :
          \/ SysClose(fd)
          \/ \E d \in WriteData : SysWrite(fd, d)
          \/ \E n \in ReadCounts : SysRead(fd, n)

Spec == Init /\ [][Next]_vars

(***************************************************************************)
(* Properties                                                              *)
(***************************************************************************)
Live == {k \in Slots : ramfs.nodes[k].inode_num # 0}
FileSlots == {k \in Live : ramfs.nodes[k].type = "FILE"}

\* The j-th block of the chain from b (None past its end).
RECURSIVE ChainAt(_, _)
ChainAt(b, j) ==
    IF b = None \/ j = 0 THEN b ELSE ChainAt(ramfs.next[b], j - 1)

\* The blocks of the chain from b, following at most FS_MAX_BLOCKS links.
Chain(b) == {ChainAt(b, j) : j \in 0..(FS_MAX_BLOCKS - 1)} \ {None}

\* The first `size` bytes of node k's chain, -1 where the chain has ended.
FileBytes(k) ==
    LET n == ramfs.nodes[k] IN
    [i \in 1..n.size |->
        LET b == ChainAt(n.first_block, (i - 1) \div FS_BLOCK_SIZE) IN
        IF b = None THEN -1 ELSE ramfs.data[b][(i - 1) % FS_BLOCK_SIZE]]

TypeOK ==
    /\ ramfs.used \subseteq Blocks
    /\ \A k \in Slots : ramfs.nodes[k].type \in {"FILE", "DIR"}
    /\ \A k \in Live : ramfs.nodes[k].first_block \in Blocks \cup {None}
    /\ \A k \in Live : ramfs.nodes[k].type = "DIR" => ramfs.nodes[k].first_block \in Blocks
    /\ \A i \in EntryIdx : ramfs.entries[i].inode \in 0..MaxInode
    /\ ramfs.next_inode \in 2..MaxInode
    /\ fds \in [Fds -> [node : Live \cup {None}, offset : Nat]]

\* spec 3: every block in a chain has its bitmap bit set; and the chains
\* of two nodes (files' chains, directories' blocks) share no block.  A
\* block on two chains is data one file's write puts into another.
ChainsExclusive ==
    /\ \A k \in Live : Chain(ramfs.nodes[k].first_block) \subseteq ramfs.used
    /\ \A k1, k2 \in Live :
          k1 # k2 => Chain(ramfs.nodes[k1].first_block)
                       \cap Chain(ramfs.nodes[k2].first_block) = {}

\* The files, read through their block chains, behave as FileStore: what
\* sys_read returns at an fd's offset is what the sys_writes through any fd
\* stored there, including writes that extend the chain in ramfs_write's
\* skip loop or stop short when the blocks run out.
Files == INSTANCE FileStore WITH
    contents <- [k \in FileSlots |-> FileBytes(k)], Keys <- Slots
FilesImplementStore == Files!Spec
====
