------------------------------- MODULE PipeFd -------------------------------
(***************************************************************************)
(* Pipes (src/src/ipc/pipe.c) and the per-process file-descriptor table    *)
(* calls that use them (sys_pipe, sys_close, sys_dup2, sys_read and        *)
(* sys_write on pipe ends, fork's copy of the table; kernel/syscall.c).    *)
(*                                                                         *)
(* A system call runs with interrupts off (INT 0x80 is an interrupt gate), *)
(* so while a process is inside pipe_read or pipe_write no other process   *)
(* and no timer tick can run.  The loops of pipe_read and pipe_write are   *)
(* modelled one byte per step; their "continue" when the pipe is empty or  *)
(* full changes nothing and lets nothing else run, so a call that has to   *)
(* wait leaves the machine with no step at all: it hangs.                  *)
(*                                                                         *)
(* Files (fs nodes) are left out; here an fd entry is free or a pipe end.  *)
(* sys_write sends fds 1 and 2, and sys_read fd 0, to the console before   *)
(* looking at the table, so those never reach a pipe.                      *)
(***************************************************************************)
EXTENDS Naturals, Sequences, FiniteSets, FiniteSetsExt

CONSTANTS
    Procs,      \* user processes
    First,      \* the process that exists initially
    Pipes,      \* pipe_t allocations available to pipe_create
    NoPipe,     \* NULL
    MaxFds,     \* MAX_FDS (16 in the code)
    PipeSize,   \* PIPE_SIZE (4096 in the code)
    Data,       \* byte values
    MaxCall,    \* model bound: bytes per read or write call
    MaxBytes,   \* model bound: bytes written into one pipe in a behaviour
    CallFds     \* the fd arguments programs pass to close, dup2, read, write

ASSUME First \in Procs /\ NoPipe \notin Pipes /\ PipeSize \in Nat \ {0}
ASSUME CallFds \subseteq 0..(MaxFds - 1)

Fds == 0..(MaxFds - 1)

VARIABLES
    alive,      \* processes that exist
    cur,        \* the process on the CPU
    fds,        \* fds[p][fd]: [pipe, flags] (flags 0 read end, 1 write end)
    made,       \* pipes pipe_create has returned
    pipes,      \* the pipe_t of each pipe
    call,       \* the pipe_read/pipe_write loop a process is in, if any
    got         \* got[pp]: the bytes readers have copied out of pp, in order

vars == <<alive, cur, fds, made, pipes, call, got>>

FreeEntry == [pipe |-> NoPipe, flags |-> 0]

NoCall == [op |-> "none", pipe |-> NoPipe, left |-> 0]

(***************************************************************************)
(* pipe.c                                                                  *)
(***************************************************************************)
\* pipe_create: kmalloc'd, cursors and flags cleared; the buffer is not.
pipe_create ==
    [buf |-> [i \in 0..(PipeSize - 1) |-> CHOOSE d \in Data : TRUE],
     rpos |-> 0, wpos |-> 0, count |-> 0, rclosed |-> 0, wclosed |-> 0]

\* pipe_destroy: only marks both ends closed; the memory is kept.
pipe_destroy(pr) == [pr EXCEPT !.rclosed = 1, !.wclosed = 1]

\* Mutant: the ring cursor advanced without the wrap.
NextPosNoWrap(i) == i + 1

\* "(pos + 1) % PIPE_SIZE".
NextPos(i) == (i + 1) % PipeSize

\* Mutant: "pipe is full" tested one byte late.
PipeFullOffByOne(pr) == pr.count = PipeSize + 1

\* "pipe->count == PIPE_SIZE" (pipe_write's wait condition).
PipeFull(pr) == pr.count = PipeSize

\* One iteration of pipe_write's loop that stores byte d.
pipe_write_byte(pr, d) ==
    [pr EXCEPT !.buf[pr.wpos] = d, !.wpos = NextPos(pr.wpos),
               !.count = @ + 1]

\* Mutant: the byte is taken from the write cursor.
ReadSlotAtWrite(pr) == pr.buf[pr.wpos]

\* The byte pipe_read's loop copies out: buffer[read_pos].
ReadSlot(pr) == pr.buf[pr.rpos]

\* One iteration of pipe_read's loop that consumes a byte.
pipe_read_byte(pr) ==
    [pr EXCEPT !.rpos = NextPos(pr.rpos), !.count = @ - 1]

\* The bytes buffered in the ring, oldest first.
RingContents(pr) ==
    [i \in 1..pr.count |-> pr.buf[(pr.rpos + i - 1) % PipeSize]]

(***************************************************************************)
(* The fd table (syscall.c 662-700): free entries from 3 upwards.          *)
(***************************************************************************)
FreeFds(p) == {i \in 3..(MaxFds - 1) : fds[p][i].pipe = NoPipe}

Init ==
    /\ alive = {First}
    /\ cur = First
    /\ fds = [p \in Procs |-> [i \in Fds |-> FreeEntry]]
    /\ made = {}
    /\ pipes = [pp \in Pipes |-> pipe_create]
    /\ call = [p \in Procs |-> NoCall]
    /\ got = [pp \in Pipes |-> <<>>]

\* User code runs (interrupts on) only when no kernel loop holds the CPU.
UserCode == call[cur].op = "none"

\* Timer preemption between system calls; which process runs next is
\* the scheduler's business (module ProcSched), here any other one.
Preempt ==
    /\ UserCode
    /\ \E q \in alive \ {cur} : cur' = q
    /\ UNCHANGED <<alive, fds, made, pipes, call, got>>

\* sys_fork: the child gets a copy of the parent's fd table (no
\* reference counts are taken).
SysFork ==
    /\ UserCode
    /\ \E q \in Procs \ alive :
          /\ alive' = alive \cup {q}
          /\ fds' = [fds EXCEPT ![q] = fds[cur]]
    /\ UNCHANGED <<cur, made, pipes, call, got>>

\* sys_pipe (syscall.c 852-898).
SysPipe ==
    /\ UserCode
    /\ made # Pipes
    /\ LET pp == CHOOSE x \in Pipes \ made : TRUE
           free == FreeFds(cur)
       IN /\ made' = made \cup {pp}
          /\ IF Cardinality(free) < 2
             THEN /\ pipes' = [pipes EXCEPT ![pp] = pipe_destroy(pipe_create)]
                  /\ UNCHANGED fds
             ELSE LET r == Min(free)
                      w == Min(free \ {r})
                  IN /\ pipes' = [pipes EXCEPT ![pp] = pipe_create]
                     /\ fds' = [fds EXCEPT ![cur][r] = [pipe |-> pp, flags |-> 0],
                                           ![cur][w] = [pipe |-> pp, flags |-> 1]]
    /\ UNCHANGED <<alive, cur, call, got>>

\* sys_close (syscall.c 746-761): clears the entry, nothing else.
SysClose ==
    /\ UserCode
    /\ \E fd \in CallFds : fds' = [fds EXCEPT ![cur][fd] = FreeEntry]
    /\ UNCHANGED <<alive, cur, made, pipes, call, got>>

\* sys_dup2 (syscall.c 901-940) with a valid oldfd # newfd.
SysDup2 ==
    /\ UserCode
    /\ \E old, new \in CallFds :
          /\ fds[cur][old].pipe # NoPipe
          /\ old # new
          /\ fds' = [fds EXCEPT ![cur][new] = fds[cur][old]]
    /\ UNCHANGED <<alive, cur, made, pipes, call, got>>

\* sys_write / sys_read on an fd holding a pipe, entering pipe_write or
\* pipe_read (which fail at once on a closed end).  The entry's flags are
\* not consulted.
SysWrite ==
    /\ UserCode
    /\ \E fd \in CallFds \ {1, 2}, n \in 1..MaxCall :
          LET pp == fds[cur][fd].pipe IN
          /\ pp # NoPipe
          /\ pipes[pp].wclosed = 0 /\ pipes[pp].rclosed = 0
          /\ Len(got[pp]) + pipes[pp].count + n <= MaxBytes
          /\ call' = [call EXCEPT ![cur] = [op |-> "write", pipe |-> pp, left |-> n]]
    /\ UNCHANGED <<alive, cur, fds, made, pipes, got>>

SysRead ==
    /\ UserCode
    /\ \E fd \in CallFds \ {0}, n \in 1..MaxCall :
          LET pp == fds[cur][fd].pipe IN
          /\ pp # NoPipe
          /\ pipes[pp].rclosed = 0
          /\ call' = [call EXCEPT ![cur] = [op |-> "read", pipe |-> pp, left |-> n]]
    /\ UNCHANGED <<alive, cur, fds, made, pipes, got>>

\* The call ends when its last byte is done.
Finish(c) == IF c.left = 1 THEN NoCall ELSE [c EXCEPT !.left = @ - 1]

\* pipe_write loop iteration with room in the ring.
WriteByte ==
    LET c == call[cur] IN
    /\ c.op = "write" /\ ~PipeFull(pipes[c.pipe])
    /\ \E d \in Data : pipes' = [pipes EXCEPT ![c.pipe] = pipe_write_byte(@, d)]
    /\ call' = [call EXCEPT ![cur] = Finish(c)]
    /\ UNCHANGED <<alive, cur, fds, made, got>>

\* pipe_read loop iteration with a byte in the ring.
ReadByte ==
    LET c == call[cur] IN
    /\ c.op = "read" /\ pipes[c.pipe].count # 0
    /\ got' = [got EXCEPT ![c.pipe] = Append(@, ReadSlot(pipes[c.pipe]))]
    /\ pipes' = [pipes EXCEPT ![c.pipe] = pipe_read_byte(@)]
    /\ call' = [call EXCEPT ![cur] = Finish(c)]
    /\ UNCHANGED <<alive, cur, fds, made>>

\* pipe_read's EOF branch ("if (pipe->writer_closed) break;") is not an
\* action: writer_closed is set only by pipe_destroy, which sets
\* reader_closed with it, and pipe_read returns -1 on reader_closed before
\* its loop.  No reachable state enters the loop with writer_closed set.

KernelStep == WriteByte \/ ReadByte

Next ==
    \/ Preempt \/ SysFork \/ SysPipe \/ SysClose \/ SysDup2
    \/ SysWrite \/ SysRead
    \/ KernelStep

Spec == Init /\ [][Next]_vars

(***************************************************************************)
(* Properties.                                                             *)
(***************************************************************************)
TypeOK ==
    /\ alive \subseteq Procs /\ cur \in alive
    /\ fds \in [Procs -> [Fds -> [pipe : Pipes \cup {NoPipe}, flags : {0, 1}]]]
    /\ made \subseteq Pipes
    /\ \A pp \in Pipes :
          /\ pipes[pp].rpos \in 0..(PipeSize - 1)
          /\ pipes[pp].wpos \in 0..(PipeSize - 1)
          /\ pipes[pp].count \in Nat
    /\ got \in [Pipes -> Seq(Data)]

\* spec 8: "for every pipe, buffered count <= capacity and cursors stay
\* within [0, capacity)", and the write cursor is the read cursor plus the
\* count, around the ring, after any interleaving of readers and writers.
PipeBounds ==
    \A pp \in made :
        /\ pipes[pp].count <= PipeSize
        /\ pipes[pp].wpos = (pipes[pp].rpos + pipes[pp].count) % PipeSize

\* The ring, read from read_pos, is a bounded FIFO of the bytes written:
\* readers receive exactly the bytes written, in order, none lost or
\* duplicated (spec 8 "write(pipe, s); read(pipe, |s|) yields exactly s").
Channel == INSTANCE ByteChannel
    WITH chan <- [pp \in Pipes |-> RingContents(pipes[pp])], out <- got,
         Cap <- PipeSize
PipeIsChannel == Channel!Spec

=============================================================================
