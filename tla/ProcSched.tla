------------------------------ MODULE ProcSched ------------------------------
(***************************************************************************)
(* The process core of SimpleOS on its single CPU:                         *)
(*   - the process table and PCB lifecycle (src/src/kernel/process.c),     *)
(*   - the round-robin scheduler and timer tick (scheduler.c),             *)
(*   - the lifecycle system calls fork, exit, wait and kill                *)
(*     (src/src/kernel/syscall.c) and signal delivery (src/src/ipc/        *)
(*     signal.c), and Ctrl-C from the keyboard IRQ (keyboard.c).           *)
(* The ready queue is the linked list of module ReadyQueue.                *)
(*                                                                         *)
(* Atomicity.  INT 0x80 and the IRQ gates are interrupt gates (kernel.c    *)
(* 378-403: type 0x8E/0xEE), so a system call or an IRQ handler runs with  *)
(* interrupts off and is one step here, its trailing schedule() included.  *)
(* The one piece of kernel code that runs with interrupts on is            *)
(* kernel_main's loop in the idle context (kernel.c 496-564), which calls  *)
(* process_create; its steps are separate actions that a timer tick can    *)
(* interleave.                                                             *)
(*                                                                         *)
(* Data abstraction.  PCBs are handles from Procs (kzalloc picks one not   *)
(* in use); names, registers, address spaces, fd tables and exit statuses  *)
(* are left out.  User programs are abstracted to "the current process may  *)
(* issue any system call at any time".                                     *)
(***************************************************************************)
EXTENDS Naturals, FiniteSets, FiniteSetsExt

CONSTANTS
    Procs,          \* PCB handles; Idle is the static idle_process
    Idle,
    NoProc,         \* NULL
    MaxProcesses,   \* process table size (MAX_PROCESSES, 64 in the code)
    MaxPid,         \* model bound: PIDs 1..MaxPid-1 are handed out
    Quantum,        \* DEFAULT_QUANTUM (10 in the code)
    BootProcs,      \* processes kernel_main creates before scheduler_enable
    LateCreate,     \* TRUE: kernel_main also creates processes afterwards
                    \* (debug key 'e', kernel.c 550-552, through
                    \* elf_create_process; 'F' and 'S', 553-558, cannot
                    \* be typed: kbd_us has no upper case)
    Signals         \* signal numbers user code may pass to kill

ASSUME Idle \in Procs /\ NoProc \notin Procs
ASSUME Quantum \in Nat \ {0} /\ BootProcs \in Nat /\ LateCreate \in BOOLEAN

SIGINT == 2   SIGKILL == 9   SIGTERM == 15   SIGSTOP == 19   SIGCONT == 18

States == {"READY", "RUNNING", "BLOCKED", "WAITING", "ZOMBIE", "TERMINATED"}
Slots  == 0..(MaxProcesses - 1)

VARIABLES
    table,      \* process_table[slot]: a PCB handle or NoProc
    live,       \* PCBs currently allocated (kzalloc'd and not kfree'd)
    pid,        \* pid[p]
    state,      \* state[p]
    parent,     \* parent_pid[p]
    ticks,      \* ticks_remaining[p]
    nextPid,    \* next_pid
    current,    \* process_get_current(): current_process, NULL read as idle
    rq,         \* ready_queue_head/tail and the PCBs' next/prev links
    enabled,    \* scheduler_enabled
    km          \* kernel_main inside process_create: pc, slot, PCB, cached tail

vars == <<table, live, pid, state, parent, ticks, nextPid, current,
          rq, enabled, km>>

RQ == INSTANCE ReadyQueue

(***************************************************************************)
(* Helpers of process.c.                                                   *)
(***************************************************************************)
InTable == {table[s] : s \in {x \in Slots : table[x] # NoProc}}

\* The first free slot >= 1 (the search loop of process_create and
\* allocate_process_struct); undefined when the table is full.
FreeSlots == {s \in 1..(MaxProcesses - 1) : table[s] = NoProc}
FirstFreeSlot == Min(FreeSlots)

\* kzalloc(sizeof(process_t)): some PCB-sized chunk that is not in use.
NewPCB == CHOOSE p \in Procs \ live : TRUE

\* Mutant of find_zombie_child that forgets the state test.
ChildSlots(ppid) ==
    {s \in Slots : table[s] # NoProc /\ parent[table[s]] = ppid}

\* find_zombie_child(parent_pid): slots holding a ZOMBIE child; the code
\* returns the one in the lowest slot.
ZombieChildSlots(ppid) ==
    {s \in Slots : /\ table[s] # NoProc
                   /\ parent[table[s]] = ppid
                   /\ state[table[s]] = "ZOMBIE"}

\* process_find_by_pid(pid): called by signal.c but defined nowhere in the
\* repository; taken to be the PCB in the table with that PID, if any.
FindByPid(n) == {p \in InTable : pid[p] = n}

(***************************************************************************)
(* schedule() (scheduler.c 21-73) run by the current process after its    *)
(* state has become st.  A RUNNING current process goes back to READY and *)
(* to the tail of the queue; the head is popped, or the idle process in    *)
(* table slot 0 is taken when the queue is empty; if that is another       *)
(* process it becomes RUNNING and current.                                 *)
(***************************************************************************)
\* Mutant: the popped head is taken without the fallback to idle.
PickHeadNoFallback(q) == RQ!ready_queue_head(q)

\* The next process: the head of the queue, or the idle process in table
\* slot 0 when the queue is empty.
PickNext(q) ==
    IF RQ!ready_queue_head(q) = NoProc THEN table[0] ELSE RQ!ready_queue_head(q)

\* Mutant: the outgoing process is requeued without leaving RUNNING.
ScheduleNoDemote(on, st, q) ==
    IF ~on THEN state' = st /\ rq' = q /\ current' = current
    ELSE
    LET cur     == current
        requeue == st[cur] = "RUNNING"
        q1      == IF requeue THEN RQ!ready_queue_push(q, cur) ELSE q
        next    == PickNext(q1)
    IN /\ rq' = RQ!ready_queue_pop(q1)
       /\ state' = IF cur # next THEN [st EXCEPT ![next] = "RUNNING"] ELSE st
       /\ current' = next

schedule(on, st, q) ==
    IF ~on THEN state' = st /\ rq' = q /\ current' = current
    ELSE
    LET cur     == current
        requeue == st[cur] = "RUNNING"
        st1     == IF requeue THEN [st EXCEPT ![cur] = "READY"] ELSE st
        q1      == IF requeue THEN RQ!ready_queue_push(q, cur) ELSE q
        next    == PickNext(q1)
    IN /\ rq' = RQ!ready_queue_pop(q1)
       /\ state' = IF cur # next THEN [st1 EXCEPT ![next] = "RUNNING"] ELSE st1
       /\ current' = next

(***************************************************************************)
(* signal_send(pid, sig) (signal.c 12-67) as the new state function.       *)
(***************************************************************************)
SignalEffect(p, sig) ==
    CASE sig \in {SIGKILL, SIGTERM, SIGINT} -> "TERMINATED"
      [] sig = SIGSTOP /\ state[p] \in {"RUNNING", "READY"} -> "BLOCKED"
      [] sig = SIGCONT /\ state[p] = "BLOCKED" -> "READY"
      [] OTHER -> state[p]

\* Mutant: SIGCONT also puts the continued process on the ready queue.
SignalSendPushOnCont(n, sig) ==
    IF FindByPid(n) = {} THEN UNCHANGED <<state, rq>>
    ELSE LET p == CHOOSE x \in FindByPid(n) : TRUE
         IN /\ state' = [state EXCEPT ![p] = SignalEffect(p, sig)]
            /\ rq' = IF sig = SIGCONT /\ state[p] = "BLOCKED"
                     THEN RQ!ready_queue_push(rq, p) ELSE rq

signal_send(n, sig) ==
    /\ state' = IF FindByPid(n) = {} THEN state
                ELSE LET p == CHOOSE x \in FindByPid(n) : TRUE
                     IN [state EXCEPT ![p] = SignalEffect(p, sig)]
    /\ UNCHANGED rq

(***************************************************************************)
(* Initial state: after process_init and scheduler_init (kernel.c 483-484) *)
(* with interrupts enabled (496), before the test processes are created.   *)
(***************************************************************************)
Init ==
    /\ table   = [s \in Slots |-> IF s = 0 THEN Idle ELSE NoProc]
    /\ live    = {Idle}
    /\ pid     = [p \in Procs |-> 0]
    /\ state   = [p \in Procs |-> "READY"]
    /\ parent  = [p \in Procs |-> 0]
    /\ ticks   = [p \in Procs |-> IF p = Idle THEN 1 ELSE 0]
    /\ nextPid = 1
    /\ current = Idle
    /\ rq      = RQ!EmptyQueue
    /\ enabled = FALSE
    /\ km      = [pc |-> "loop", slot |-> 0, proc |-> NoProc, tail |-> NoProc]

(***************************************************************************)
(* kernel_main (idle context, interrupts on) calling process_create        *)
(* (process.c 110-216), split where a timer interrupt can cut it:          *)
(*  1. the free-slot search;                                               *)
(*  2. PCB and stack allocation, PID, fields, process_table[slot] = proc,  *)
(*     and the first two statements of ready_queue_push (next = NULL,      *)
(*     prev = ready_queue_tail);                                           *)
(*  3. "if (tail) tail->next = proc; else head = proc", where tail is the  *)
(*     value loaded in step 2 or reloaded (the global is not volatile and  *)
(*     the build may do either);                                           *)
(*  4. ready_queue_tail = proc.                                            *)
(***************************************************************************)
KernelMainRuns == current = Idle

MayCreate == ~enabled \/ LateCreate

CreateFindSlot ==
    /\ KernelMainRuns /\ km.pc = "loop" /\ MayCreate
    /\ IF enabled THEN TRUE ELSE nextPid <= BootProcs
    /\ nextPid < MaxPid
    /\ FreeSlots # {}
    /\ km' = [km EXCEPT !.pc = "init", !.slot = FirstFreeSlot]
    /\ UNCHANGED <<table, live, pid, state, parent, ticks, nextPid,
                   current, rq, enabled>>

CreateInit ==
    /\ KernelMainRuns /\ km.pc = "init"
    /\ Procs \ live # {}
    /\ LET p == NewPCB IN
       /\ live'    = live \cup {p}
       /\ pid'     = [pid EXCEPT ![p] = nextPid]
       /\ nextPid' = nextPid + 1
       /\ state'   = [state EXCEPT ![p] = "READY"]
       /\ parent'  = [parent EXCEPT ![p] = 0]
       /\ ticks'   = [ticks EXCEPT ![p] = Quantum]
       /\ table'   = [table EXCEPT ![km.slot] = p]
       /\ rq'      = [rq EXCEPT !.next[p] = NoProc, !.prev[p] = rq.tail]
       /\ km'      = [km EXCEPT !.pc = "link", !.proc = p, !.tail = rq.tail]
    /\ UNCHANGED <<current, enabled>>

CreateLink ==
    /\ KernelMainRuns /\ km.pc = "link"
    /\ \E t \in {km.tail, rq.tail} :
          rq' = IF t # NoProc THEN [rq EXCEPT !.next[t] = km.proc]
                ELSE [rq EXCEPT !.head = km.proc]
    /\ km' = [km EXCEPT !.pc = "tail"]
    /\ UNCHANGED <<table, live, pid, state, parent, ticks, nextPid,
                   current, enabled>>

CreateTail ==
    /\ KernelMainRuns /\ km.pc = "tail"
    /\ rq' = [rq EXCEPT !.tail = km.proc]
    /\ km' = [km EXCEPT !.pc = "loop"]
    /\ UNCHANGED <<table, live, pid, state, parent, ticks, nextPid,
                   current, enabled>>

\* scheduler_enable (scheduler.c 109-115), once the boot processes exist.
SchedulerEnable ==
    /\ KernelMainRuns /\ km.pc = "loop" /\ ~enabled
    /\ nextPid = BootProcs + 1
    /\ enabled' = TRUE
    /\ schedule(TRUE, state, rq)
    /\ UNCHANGED <<table, live, pid, parent, ticks, nextPid, km>>

(***************************************************************************)
(* Timer IRQ: timer_callback -> scheduler_tick (scheduler.c 76-99).        *)
(***************************************************************************)
TickQuantumLeft ==
    /\ enabled
    /\ ticks[current] > 1
    /\ ticks' = [ticks EXCEPT ![current] = @ - 1]
    /\ UNCHANGED <<table, live, pid, state, parent, nextPid, current,
                   rq, enabled, km>>

\* Mutant: the quantum is reset but schedule() is not called.
TickExpiredNoSchedule ==
    /\ enabled
    /\ ticks[current] <= 1
    /\ ticks' = [ticks EXCEPT ![current] = Quantum]
    /\ UNCHANGED <<table, live, pid, state, parent, nextPid, current,
                   rq, enabled, km>>

TickQuantumExpired ==
    /\ enabled
    /\ ticks[current] <= 1
    /\ ticks' = [ticks EXCEPT ![current] = Quantum]
    /\ schedule(TRUE, state, rq)
    /\ UNCHANGED <<table, live, pid, parent, nextPid, enabled, km>>

scheduler_tick == TickQuantumLeft \/ TickQuantumExpired

(***************************************************************************)
(* Keyboard IRQ, Ctrl-C (keyboard.c 117-126): SIGINT to the current        *)
(* process unless its PID is 1.                                            *)
(***************************************************************************)
KeyboardCtrlC ==
    /\ pid[current] # 1
    /\ signal_send(pid[current], SIGINT)
    /\ UNCHANGED <<table, live, pid, parent, ticks, nextPid, current,
                   enabled, km>>

(***************************************************************************)
(* System calls, issued by the current process's own code.                 *)
(***************************************************************************)
UserCode == enabled /\ current # Idle

\* allocate_process_struct (process.c 363-399) and its mutant that does
\* not advance next_pid.
AllocNoPidBump(c, s) ==
    /\ live'    = live \cup {c}
    /\ pid'     = [pid EXCEPT ![c] = nextPid]
    /\ nextPid' = nextPid
    /\ table'   = [table EXCEPT ![s] = c]

allocate_process_struct(c, s) ==
    /\ live'    = live \cup {c}
    /\ pid'     = [pid EXCEPT ![c] = nextPid]
    /\ nextPid' = nextPid + 1
    /\ table'   = [table EXCEPT ![s] = c]

\* sys_fork (syscall.c 255-327), success: the child is pushed on the
\* ready queue.
SysFork ==
    /\ UserCode
    /\ FreeSlots # {} /\ Procs \ live # {} /\ nextPid < MaxPid
    /\ LET c == NewPCB IN
       /\ allocate_process_struct(c, FirstFreeSlot)
       /\ parent' = [parent EXCEPT ![c] = pid[current]]
       /\ state'  = [state EXCEPT ![c] = "READY"]
       /\ ticks'  = [ticks EXCEPT ![c] = Quantum]
       /\ rq'     = RQ!ready_queue_push(rq, c)
    /\ UNCHANGED <<current, enabled, km>>

\* sys_fork when vmm_clone_address_space runs out of frames: the child is
\* released by free_process_struct, only its PID is consumed.
SysForkCloneFails ==
    /\ UserCode
    /\ FreeSlots # {} /\ Procs \ live # {} /\ nextPid < MaxPid
    /\ nextPid' = nextPid + 1
    /\ UNCHANGED <<table, live, pid, state, parent, ticks, current,
                   rq, enabled, km>>

\* sys_exit (syscall.c 62-91): ZOMBIE, or via process_exit TERMINATED when
\* the parent PID is 0; then schedule().  No parent is woken.
\* process_exit: the current process is TERMINATED (its schedule() call
\* is the caller's).
process_exit(st) == [st EXCEPT ![current] = "TERMINATED"]

SysExit ==
    LET zombie == [state EXCEPT ![current] = "ZOMBIE"] IN
    /\ UserCode
    /\ schedule(TRUE,
                IF parent[current] = 0 THEN process_exit(zombie) ELSE zombie,
                rq)
    /\ UNCHANGED <<table, live, pid, parent, ticks, nextPid, enabled, km>>

\* sys_wait (syscall.c 330-368) finding a zombie child: free_process_struct
\* clears its slot and frees the PCB and its kernel stack.
SysWaitReap ==
    /\ UserCode
    /\ ZombieChildSlots(pid[current]) # {}
    /\ LET s == Min(ZombieChildSlots(pid[current])) IN
       /\ table' = [table EXCEPT ![s] = NoProc]
       /\ live'  = live \ {table[s]}
    /\ UNCHANGED <<pid, state, parent, ticks, nextPid, current, rq,
                   enabled, km>>

\* sys_wait with no zombie child: WAITING, then schedule().
SysWaitBlock ==
    /\ UserCode
    /\ ZombieChildSlots(pid[current]) = {}
    /\ schedule(TRUE, [state EXCEPT ![current] = "WAITING"], rq)
    /\ UNCHANGED <<table, live, pid, parent, ticks, nextPid, enabled, km>>

\* sys_kill (syscall.c 842-849) -> signal_send.
SysKill ==
    /\ UserCode
    /\ \E n \in 0..MaxPid, sig \in Signals : signal_send(n, sig)
    /\ UNCHANGED <<table, live, pid, parent, ticks, nextPid, current,
                   enabled, km>>

Next ==
    \/ CreateFindSlot \/ CreateInit \/ CreateLink \/ CreateTail
    \/ SchedulerEnable
    \/ scheduler_tick
    \/ KeyboardCtrlC
    \/ SysFork \/ SysForkCloneFails \/ SysExit
    \/ SysWaitReap \/ SysWaitBlock \/ SysKill

\* The PIT interrupts at a fixed rate and kernel_main runs its boot code
\* to the end: both are weakly fair.  User code is not assumed to do
\* anything.
BootSteps == CreateFindSlot \/ CreateInit \/ CreateLink \/ CreateTail
             \/ SchedulerEnable

Fairness == WF_vars(scheduler_tick) /\ WF_vars(~enabled /\ BootSteps)

Spec == Init /\ [][Next]_vars /\ Fairness

(***************************************************************************)
(* Properties.                                                             *)
(***************************************************************************)
TypeOK ==
    /\ table \in [Slots -> Procs \cup {NoProc}]
    /\ live \subseteq Procs
    /\ pid \in [Procs -> 0..MaxPid]
    /\ state \in [Procs -> States]
    /\ parent \in [Procs -> 0..MaxPid]
    /\ ticks \in [Procs -> 0..Quantum]
    /\ nextPid \in 1..MaxPid
    /\ current \in Procs
    /\ RQ!QueueType(rq)
    /\ enabled \in BOOLEAN
    /\ km.pc \in {"loop", "init", "link", "tail"}

\* Only the current process is RUNNING: schedule() demotes the outgoing
\* process before promoting the incoming one, through every interleaving of
\* ticks, exits, waits and signals.
RunningIsCurrent ==
    \A p \in live : state[p] = "RUNNING" => p = current

\* PIDs are unique among the processes in the table and below next_pid
\* (process_create and allocate_process_struct both take next_pid++).
PidsUnique ==
    \A s, t \in Slots :
        /\ table[s] # NoProc => pid[table[s]] < nextPid
        /\ (s # t /\ table[s] # NoProc /\ table[t] # NoProc)
              => pid[table[s]] # pid[table[t]]

\* No freed PCB is still referenced: everything on the ready queue, the
\* current process and every table entry are allocated PCBs.  wait frees
\* only zombies, which are neither queued nor current.
NoDanglingPCB ==
    /\ current \in live
    /\ RQ!Queued(rq) \subseteq live
    /\ InTable \subseteq live

\* The ready queue, as the whole kernel uses it, behaves as a FIFO of
\* distinct PCBs: no caller pushes a PCB that is already queued, and the
\* list links stay consistent.
ProcFifo == INSTANCE FifoQueue WITH queue <- RQ!Contents(rq)
QueueIsFifo == ProcFifo!Spec

\* Outside kernel_main's process_create the ready list is well formed:
\* head, tail, next and prev links agree and PCBs off the list have NULL
\* links, after any mix of pushes and pops by fork, tick and exit.
QueueLinksConsistent ==
    km.pc = "loop" => RQ!WellFormed(rq)

\* Round robin never starves a queued process: under a fair timer every
\* process on the ready queue eventually runs.
QueuedEventuallyRuns ==
    \A p \in Procs \ {Idle} : (p \in RQ!Queued(rq)) ~> (current = p)

(***************************************************************************)
(* What spec.md requires of the process core (checked for violations).     *)
(***************************************************************************)
\* spec 8: "no READY PCB is missing from the queue" (the running process
\* and the idle process aside).
NoReadyProcessLost ==
    \A p \in (live \cap InTable) \ {Idle} :
        (state[p] = "READY" /\ (km.pc = "loop" \/ p # km.proc))
            => p \in RQ!Queued(rq) \/ p = current
=============================================================================
