# TLA+ models of SimpleOS

This directory holds TLA+ specifications of the SimpleOS kernel (`src/`), the
TLC configurations that check them, and `PROJECT.json`. `PROJECT.json`
records:
- the components;
- the runs, and for every property of every passing run a mutant that TLC
  must catch;
- which source lines each definition translates;
- the findings;
- the hazards of the code.

Every module is written from the C source. The only exception is
`FindByPid`: `process_find_by_pid` is called by `signal.c` but defined
nowhere in the repository, so it is modelled from its use and marked
`spec_modelled`.

## 1. The system

SimpleOS is a single-CPU x86_64 kernel. Its parts and how they interact:

| Part | Source | State | Operations |
|------|--------|-------|------------|
| PMM | `mm/pmm.c` | frame bitmap, used/free counts | alloc, free, alloc contiguous |
| Kernel heap | `mm/kmalloc.c` | chunk list in a 16 MiB arena | kmalloc (first fit, split), kfree (forward coalesce), krealloc |
| VMM | `mm/vmm.c` | 4-level page tables per address space | create, map, unmap, clone (eager copy), destroy, clear user half |
| Process table, ready queue | `kernel/process.c` | `process_table[64]`, `next_pid`, `ready_queue_head/tail`, intrusive `next/prev`, `current_process`, static idle PCB | process_create, allocate/free_process_struct, find_zombie_child, process_exit, push/pop/remove |
| Scheduler | `kernel/scheduler.c`, `drivers/timer.c` | `scheduler_enabled`, per-PCB `ticks_remaining` | schedule, scheduler_tick (from timer IRQ), scheduler_enable |
| Syscalls | `kernel/syscall.c` | per-process fd table (16 entries), heap break | exit, write, read, getpid, sleep, sbrk, fork, wait, execve, ps, open, close, stat, mkdir, readdir, kill, pipe, dup2 |
| Signals | `ipc/signal.c` | target PCB state | signal_send |
| Pipes | `ipc/pipe.c` | 4 KiB ring, `read_pos`, `write_pos`, `count`, closed flags | pipe_create, pipe_read, pipe_write |
| RAM FS | `fs/fs.c` | inode table, root directory entries | create, mkdir, finddir, read, write, readdir |
| Keyboard | `drivers/keyboard.c` | 256-byte ring, modifier flags | IRQ handler, getchar, Ctrl-C → SIGINT |
| ELF loader, user mode | `lib/elf.c`, `arch/x86_64/usermode.c` | the new process's pages | elf_load, create_user_process |
| Shell line editor | `programs/shell_v2.c` | `cmd_buffer`, `cmd_pos`, `cmd_len`, history ring, `history_count`, `history_pos` | read_line's keys (printable, Backspace, Tab completion, arrows, Enter), add_to_history |
| Console | `drivers/terminal.c`, `drivers/vt.c` | VGA row/column, per-VT 80x25 cells and cursor, current VT, `vt_enabled` | terminal_putchar (plain or VT), vt_putchar, vt_switch (Alt+F1-F4), echo of typed keys, sys_write/sys_read on fds 0-2 |

### Concurrency

The IDT gates for INT 0x80 and for the IRQs are interrupt gates
(`kernel.c` 378-403, types 0x8E/0xEE). Each one clears IF on entry. So a
system call, together with the `schedule()` it may call at its end, runs
with no preemption: it is one atomic step. The same holds for a timer or
keyboard IRQ handler.

The one kernel code that runs with interrupts enabled is `kernel_main`. It
enables interrupts (`sti`, line 496), creates the boot processes and
enables the scheduler. It then becomes the idle loop, which is the idle
process's context. While it is the idle loop, the debug key `e` calls
`process_create` from it (via `test_elf_loader` and `elf_create_process`),
and that call can be interrupted by the timer. (The keys `F` and `S`, which
would do the same through `test_fork_exec` and `test_shell`, cannot be
typed: `kbd_us` has no shift and no upper-case letters.)

User processes (ring-0 kernel threads here) run with interrupts on and are
preempted by the timer.

## 2. Modules

### FifoQueue: abstract ready queue

`FifoQueue` is a sequence of distinct PCBs. Its actions are:
- `Enqueue`: add at the tail;
- `Dequeue`: remove the head;
- `Delete`: remove any member;
- `Requeue`: in one step, add at the tail and remove the head. This is
  the atomic push-then-pop of `schedule()`.

It is what `spec.md` §4.4 and §4.6 promise of the queue ("O(1) push/pop and
arbitrary removal", "pure FIFO").

### ReadyQueue: the intrusive list of `process.c`

`rq` is a record holding:
- `head` and `tail` (the two globals, lines 22-23);
- `next` and `prev`, functions from PCB to PCB or `NoProc` (the links
  embedded in each PCB).

Each list operation is an operator, so that callers apply it inside their
own atomic step:
- `ready_queue_push` (lines 30-41);
- `ready_queue_remove` (43-59);
- `ready_queue_pop` (61-68).

`Contents` walks the `next` links from `head`; it is RECURSIVE and bounded
by the number of PCBs. That walk is the refinement mapping to `FifoQueue`.
The module has no specification of its own: `ProcSched` applies the
operations inside its actions and checks the list and the refinement there.

### ProcSched: process core

This module composes the process table, the scheduler, the lifecycle
system calls, signals and Ctrl-C, and uses `ReadyQueue` through
`RQ == INSTANCE ReadyQueue`.

State:
- `table`, `live` (allocated PCBs), `nextPid`, `current` and `enabled`;
- the per-PCB fields `pid`, `state`, `parent` and `ticks`;
- `rq`;
- `km`: where `kernel_main` is inside `process_create`.

Actions:

| Action | Code |
|--------|------|
| `CreateFindSlot`, `CreateInit`, `CreateLink`, `CreateTail` | `process_create`, split where a timer tick may cut it. The last two are the third and fourth statements of `ready_queue_push`. The tail written in `CreateLink` is either the value loaded earlier or a reload, because the global is not `volatile`. |
| `SchedulerEnable` | `scheduler_enable` → `schedule` |
| `TickQuantumLeft`, `TickQuantumExpired` (`scheduler_tick`) | `timer_callback` → `scheduler_tick` → `schedule` |
| `KeyboardCtrlC` | the Ctrl-C branch of `keyboard_callback` → `signal_send(pid, SIGINT)` |
| `SysFork`, `SysForkCloneFails` | `sys_fork` with `allocate_process_struct`; the clone-failure path with `free_process_struct` |
| `SysExit` | `sys_exit` (+ `process_exit` for parent PID 0) → `schedule` |
| `SysWaitReap`, `SysWaitBlock` | `sys_wait` with `find_zombie_child` / `free_process_struct`, or WAITING → `schedule` |
| `SysKill` | `sys_kill` → `signal_send` |

`schedule(on, st, q)` is one operator, applied inside the action that calls
it, to the process states `st` that action has already produced. It
translates `scheduler.c` 21-73:
1. Demote and requeue a RUNNING current process.
2. Pop the head, or take `process_table[0]` (the idle process).
3. If that is a different process, promote it and make it current.

Data abstraction: PCBs are model values. Left out are names, registers,
address spaces, fd tables and exit status, which no property here tells
apart. User programs are abstracted to "the current process may make any of
these system calls at any moment". This covers everything the programs in
`src/programs` can do to the process core.

### ByteChannel and PipeFd: pipes and the fd table

`ByteChannel` is what `spec.md` §4.10 and §8 promise of a pipe: a bounded
FIFO of bytes per pipe (`chan`) and the bytes readers have taken from it
so far (`out`). `Send` needs room; `Recv` moves the head byte to `out`.

`PipeFd` models `ipc/pipe.c` together with the fd-table calls in
`kernel/syscall.c` that use pipes. State:
- `alive`, `cur`: the user processes and the one on the CPU;
- `fds[p][fd]`: free, or a pipe end with its direction flag;
- `pipes[pp]`: the `pipe_t` (ring `buf`, `rpos`, `wpos`, `count`, both
  closed flags); `made`: the pipes `pipe_create` has returned;
- `call[p]`: the `pipe_read` / `pipe_write` loop `p` is inside, with the
  bytes still to move;
- `got[pp]`: the bytes readers copied out of `pp`, in order.

A system call runs with interrupts off, so the only things that run while a
process is inside a pipe loop are that loop's own iterations (`WriteByte`,
`ReadByte`). Their `continue` on a full or empty ring is no step at all,
which is exactly what the code does: nothing else can run. A loop on an
empty or full ring that no one else can change is a state with no step:
the kernel hangs there. `Preempt` and the system-call actions need
`UserCode` (no loop in progress).
`SysFork` copies the fd table; `SysPipe` takes the two lowest free fds
from 3, or calls `pipe_destroy` when there are fewer than two;
`SysClose` and `SysDup2` overwrite entries.

The EOF branch of `pipe_read` is not an action: `writer_closed` is set
only by `pipe_destroy`, together with `reader_closed`, on a pipe no fd
holds, and `pipe_read` returns -1 on `reader_closed` first.

The refinement `Channel == INSTANCE ByteChannel WITH chan <- RingContents,
out <- got` reads the ring from `rpos`.

### HeapAllocator and KHeap: the kernel heap

`HeapAllocator` is what `spec.md` §4.2 promises. `regions` maps each live
allocation's offset to its length. Its actions:
- `Malloc`: a new 8-aligned region of at least the requested size, inside
  the arena and disjoint from the live ones;
- `Free`: removes one region;
- `Realloc`: moves a region to a larger one, disjoint from the others and
  from the old region it copies from. A size that fits keeps the region,
  which is a stutter.

`KHeap` models `mm/kmalloc.c`:
- `hdr` maps the offset of every header on the chunk list to its
  `size`, `next` and `free` fields;
- the statistics counters and `heap_initialized`;
- `held`: each pointer a caller holds, with the size it asked for.

The list walks are RECURSIVE operators: `FindFree` (first fit) and
`Coalesce`. `split_block`, `kmalloc`, `kfree` and `realloc_move` are
operators, so `krealloc` composes them in the code's order. Each heap call
is one action:
- `Kmalloc`: initialises the heap on first use and panics when no chunk
  fits;
- `Kfree`;
- `Krealloc`.

A panic halts the model. A header that coalescing merges away is dropped
from `hdr`: callers free only pointers they hold, so no stale header is
read.

The refinement maps `regions` to the used chunks' data pointers and
sizes.

`kernel/kernel.c` also defines a bump-pointer `kmalloc`. No build file in
the repository says which one is linked; the one modelled is the
allocator `spec.md` describes.

### UserMem: frames, page tables and the user heap

`UserMem` models `mm/pmm.c`, `mm/vmm.c` and the calls that build user
address spaces on them: `process_create`, `elf_create_process`
(`lib/elf.c`), `sys_sbrk`, `sys_fork`, `sys_execve` (built-in programs)
and the reap in `sys_wait`.

State:
- `used` and `pmm_free_pages`: the bitmap and its counter;
- `ent[f]`: frame `f` read as a page table, two entries per table, each a
  frame or `NoFrame`. The PML4 entry picks the heap (0) or the stack (1);
  the PDPT and PD use entry 0; the PT entry picks the page. The real heap
  (0x400000) and stack (below 0x7FFFFFFFE000) sit under different PML4
  entries too;
- per process: `page_table`, `heap_current`, `pages_allocated`, and
  `execd`, which records that `execve` cleared the user half.

The memory functions are operators on a record `S` that return the new
`S` with their result. So an action composes them in the code's order,
every failure path included. When a C function tests the result of a
call and then goes on, the test is a helper that takes that result as a
parameter. Examples are `LinkTable`, `MapNew`, `AllocRest`, `CloneLink`,
`StackOrPanic` and `ElfLoaded`. TLC's profiler re-expands every use of
a `LET` name, so a `LET` here would make coverage runs blow up.
- `pmm_alloc_page` zeroes the frame;
- `pmm_free_page` panics on a double free;
- `WalkCreate` is `vmm_map_page`'s get-or-create walk;
- `vmm_alloc_user_pages` stops at the first failure and leaves earlier
  pages mapped;
- `CloneTable`/`CloneEntries` are `clone_pt`, `clone_pd`, `clone_pdpt` and
  the PML4 loop, which share one shape. Each frees only its own child table
  on failure.

`vmm_destroy_address_space` frees the PML4 alone and `vmm_clear_user_space`
only zeroes entries, as the code's TODOs say. Page contents are not
modelled.

The ELF loader (`ElfCreateProcess`, the `'e'` debug key's
`test_elf_loader`) is `process_create` followed by `elf_load`:
- an image is `[valid, segs]`. `valid` stands for `elf_validate`'s four
  header checks. A segment has a `load` flag (`PT_LOAD`), a region, a
  `vaddr`, a `memsz` and a `filesz`;
- `ElfSegPages` rounds `vaddr` down and `vaddr + memsz` up to pages.
  `ElfLoadSegs` maps them with `vmm_alloc_user_pages`'s loop, which
  `elf_load` repeats inline;
- the copy loop fails when a page it copies to is unmapped, which happens
  when `filesz > memsz`. The BSS loop cannot fail and changes no modelled
  state;
- a failed load calls `process_destroy`. Its memory part is
  `vmm_destroy_address_space`, so the stack and any pages already loaded
  stay allocated.

Each system call is one step, because it runs with interrupts off.

### FileStore and RamFs: the RAM filesystem

`FileStore` is what the file calls promise (`spec.md` §4.8, §4.9). Each
file is a byte sequence. Its actions:
- `Create` adds an empty file;
- `Write` at an offset within the file overwrites and extends it with a
  non-empty prefix of the caller's data (a short write);
- `Read` at an offset sets `got` to at most the requested number of
  stored bytes.

`RamFs` models `fs/fs.c` with `sys_open`, `sys_close`, `sys_read`,
`sys_write` and `sys_mkdir`. Its state:
- `ramfs`: the C global, a record of the node table, each block's
  `next_block` and data, the bitmap (the set of used blocks), the root
  block's directory entries, and `next_inode`;
- `fds`: the current process's file fds;
- `got`: the bytes the last successful read returned.

Every `fs.c` function is an operator on such a record:
- `allocate_block`;
- `ramfs_create_file` and `ramfs_create_dir`, with their "find free node"
  and "add to parent" loops;
- `ramfs_finddir`;
- `ramfs_read` and `ramfs_write`: RECURSIVE skip and copy loops over the
  chain, one block per iteration, with every early return.

`Init` is `fs_init`, computed by the same operators: the root, then
`hello.txt` and `readme.txt` with their contents.

All paths resolve under root, so entries are only ever added to the root's
block, which is the one modelled. Other directories get a zeroed block.

The refinement maps each file node to the first `size` bytes of its chain.
`FileBytes`, the mapping, is written independently of the read loop.

### KeyQueue and Console: keyboard, terminal and VTs

`KeyQueue` is what the keyboard source port promises (`spec.md`, "Keyboard
source port"): the bytes of each key go, in order, into a bounded queue
from which readers take bytes at the head. Its constant `Whole` says
whether a key's several bytes (an arrow's `ESC [ A`) go in all or none, or
as the longest prefix that fits.

`Console` models `drivers/keyboard.c`, `drivers/terminal.c`,
`drivers/vt.c` and the console branches of `sys_read` and `sys_write`.
Its state:
- `kbd_buffer`, `kbd_read_pos`, `kbd_write_pos`, `ctrl_pressed`,
  `alt_pressed`: the C globals of `keyboard.c`;
- `vt_enabled`, `terminal_row`, `terminal_column`: `terminal.c`;
- `current_terminal` and, per VT, `cursor_x`, `cursor_y`, `active`:
  `vt.c`. Cell contents and colours are left out;
- `overrun`: the kinds of write (`"char"` from `vt_putchar` called with
  interrupts off, `"kchar"` from a kernel thread, `"bs"`) that have
  landed outside a VT's 80 x 25 cell array;
- `booted`, `got` (what the last read returned) and `hung` (a stdin read
  or `sys_sleep` is stuck in `hlt`);
- `kt[k]`: each kernel thread's place inside `vt_putchar` (`pc`), the VT
  it read at its start, and the rest of the string it is printing.

The terminal functions are operators on a record `T` of the terminal
state: `vt_putchar` with its `\n`, `\r`, `\b`, `\t` and regular branches
(`VtWrap`, `VtScroll`, `VtStore`), `terminal_putchar` in plain and VT
mode, and `vt_switch`. `keyboard_callback` is its `if` chain, one operator
per branch; `KbdPush` is the nested full checks of the arrow branch, so a
key's bytes stop at the first byte that does not fit.

The actions:
- `BootWrite`: `kernel_main`'s output before `terminal_enable_vt`;
- `Boot`: `init_keyboard`, `vt_init`, `terminal_enable_vt` and `sti`;
- `KeyboardIrq`: one IRQ 1 (interrupt gate, so one step);
- `IdleGetchar`: the idle loop's `keyboard_getchar`;
- `SysReadStdin`: `sys_read(0, ...)`, whose loop takes bytes up to the
  count or a newline and otherwise runs `hlt` with IF = 0 and hangs;
- `SysWriteStdout`: `sys_write(1, ...)`, `terminal_putchar` per byte;
- `SysSleep`: `sys_sleep(ms)`, which calls `sleep_ms` inside the system
  call; for `ms > 0` its `hlt` loop with IF = 0 never ends;
- the kernel threads (`test_process_1` and the others of `kernel.c`,
  created at boot with IF = 1): `KThreadWrite` starts a
  `terminal_writestring`; a control character is one step
  (`KPutcharControl`), but a regular one is split at the statements of
  `vt_putchar`'s last branch: read the VT (`KPutcharRegular`), wrap
  (`KThreadWrap`), scroll (`KThreadScroll`), store the cell
  (`KThreadStore`) and advance (`KThreadAdvance`). A keyboard IRQ may
  run between any two, and its echo moves the same cursor.

The refinement `KbdIsQueue` maps the ring to the bytes between the read
and write positions (`KbdQueue`) and checks `KeyQueue` with
`Whole <- FALSE`, capacity `KbdSize - 1`. The code keeps a prefix: an
arrow pressed with one or two free bytes queues `ESC` or `ESC [`, a torn
escape sequence. `spec.md` does not say which of the two queues it
means, so the prefix-keeping one is what is checked.

### LineEditor and ShellLine: shell_v2's line editor and history

`LineEditor` says what line editing promises its user:
- a line of at most `Cap` characters, with a cursor in it;
- characters are inserted and erased at the cursor;
- the cursor moves inside the line;
- a line from the history, or the empty line, can be recalled;
- a submitted line is kept unless it is empty or repeats the last one kept.

`Insert` says how the new line relates to the old one; it does not pick
the characters. So the module is used only as a property.

`ShellLine` models `read_line`, `add_to_history` and the part of
`shell_v2_main` that runs between two lines. Its state is the C
variables `cmd_buffer` (with the NUL at `cmd_len`), `cmd_pos`, `cmd_len`,
`history` (a ring of `HISTORY_SIZE` lines), `history_count` and
`history_pos`. Two auxiliary variables are added:
- `added`: every line `add_to_history` stored, in order;
- `recalled`: the line was loaded by an arrow and not edited since.

Each branch of `read_line`'s loop that changes state is one action, since
the shell reads one byte per `sys_read(0, &c, 1)`:

| Action | Code |
|--------|------|
| `KeyPrintable(c)` | insert at the cursor, shifting the tail right (951-975) |
| `KeyBackspace` | shift the tail left over the character before the cursor (812-822) |
| `HistoryUp`, `HistoryDown` | `ESC [ A` / `ESC [ B`, with `str_cpy` of a ring slot (827-852) |
| `CursorRight`, `CursorLeft` | `ESC [ C` / `ESC [ D` (853-864) |
| `KeyTab` | the word before the cursor, the table of 15 commands, and insertion when exactly one matches and fits (867-950) |
| `Enter` | return, `add_to_history`, `history_pos = history_count`, then a fresh line (979-999, 356-367) |

A key that a branch ignores changes nothing, so it is a stuttering step.
Examples are Backspace at the start of the line, Tab with no single match,
and an escape sequence other than `ESC [ A..D`.

Left out:
- the echo, `redraw_line` and the completion list: output only;
- running the command: it changes none of the editor's state.

`LineEditing` maps the buffer's first `cmd_len` cells to `line`,
`cmd_pos` to `cursor` and `added` to `past`, and checks `LineEditor!Spec`.

## 3. Runs

| Run | Config | Expect | Shows |
|-----|--------|--------|-------|
| `proc_sched` | `MCProcSched.cfg` | pass | With creations at boot only, see below. |
| `lone_process_lost` | `MCProcSched_LostProcess.cfg` | violation | The only runnable process drops out of the round robin (next == current skips the RUNNING update). |
| `late_create_race` | `MCProcSched_LateCreate.cfg` | violation | `process_create` from the idle loop races `schedule()` and corrupts the list. |
| `pipe_fd` | `MCPipeFd.cfg` | pass | `TypeOK`; `PipeBounds`: count within capacity and `wpos = (rpos + count) % PIPE_SIZE`; `PipeIsChannel`: every pipe refines the bounded FIFO of `ByteChannel`. |
| `user_mem` | `MCUserMem.cfg` | pass | Over process creation, ELF loading (valid, invalid and failing images), sbrk, fork, execve and reaping: `TypeOK` (free counter matches the bitmap); `ExclusiveFrames`: no frame is reachable twice from the live address spaces; `LiveFramesAllocated`: every frame a live tree reaches is still allocated; `UserMemoryMapped`: a process that has not exec'd has its stack and every heap page below its break mapped. |
| `sbrk_leak` | `MCUserMem_SbrkLeak.cfg` | violation | `sbrk(+1)`, `sbrk(-1)`, `sbrk(+1)` maps heap page 0 a second time and its first frame is lost. |
| `ramfs` | `MCRamFs.cfg` | pass | `TypeOK` (a live directory has its block); `ChainsExclusive`: every chain block is allocated and no block is on two nodes' chains (spec §3); `FilesImplementStore`: reads through the fd return what writes stored, i.e. refinement of `FileStore`. |
| `console` | `MCConsole.cfg` | pass | Keys, the idle loop's getchar, stdin reads, console writes, sleeps and a kernel thread's output, before and after VT mode: `TypeOK` (the current VT is in range); `RegularWritesInBounds`: a regular character never lands outside the VT's cells; `KbdIsQueue`: the scancode ring refines `KeyQueue`, a bounded queue that keeps the prefix of a key's bytes that fits. |
| `vt_overrun` | `MCConsole_VtOverrun.cfg` | violation | Newlines past the last row or a tab past the last column, then Backspace: `vt_putchar` writes outside the VT's cell array. |
| `vt_race` | `MCConsole_VtRace.cfg` | violation | A kernel thread passes the bottom-row scroll check, the keyboard echo of Enter moves the cursor below the last row, and the thread stores its character outside the VT's cell array. |
| `shell_line` | `MCShellLine.cfg` | pass | Typing, Backspace, Tab completion (at the end and in the middle of a line), arrows and Enter over the history ring: `TypeOK` (the line, with any completion, fits the buffer); `HistoryRecallExact`: a line an arrow loads, within the last `HISTORY_SIZE` stored, is exactly the one `history_pos` names; `LineEditing`: refinement of `LineEditor`. |
| `kheap` | `MCKHeap.cfg` | pass | `TypeOK` (chunk sizes 8-aligned); `HeapTiled`: the list tiles the arena; `NoAdjacentFree`: coalescing is complete; `HeldIsAllocated`: each held pointer owns its own used chunk, big enough, and `allocation_count` counts them; `AllocatorSpec`: refinement of `HeapAllocator`. |

The passing run `proc_sched` checks:
- `TypeOK`, which includes the list's type;
- `RunningIsCurrent`;
- `PidsUnique` (unique among table entries and below `next_pid`);
- `NoDanglingPCB`: no freed PCB is queued, current or in the table;
- `QueueLinksConsistent`: list well formed whenever `kernel_main` is
  outside `process_create`;
- `QueueIsFifo`: the ready list as the whole kernel uses it refines
  `FifoQueue`;
- `QueuedEventuallyRuns`: every queued process eventually runs.

`ReadyQueue`'s own `TypeOK` is checked as part of `ProcSched`'s. None of
the ready-queue operations can store a non-PCB link, so checking it
separately would add no run that a mutant could break.

Each property of a passing run has a mutant in `PROJECT.json`. Each mutant
is a plausible bug in the mapped code, for example:
- a dropped guard: `PickHeadNoFallback`, `ChildSlots`;
- a missing step: `ScheduleNoDemote`, `AllocNoPidBump`,
  `TickExpiredNoSchedule`, `RemoveKeepPrev`;
- the spec's own SIGCONT behaviour: `SignalSendPushOnCont`. SIGCONT
  enqueues, but SIGSTOP left the PCB queued, so it ends up on the list
  twice.

TLC finds each mutant's property violated.

Two earlier violation runs were retired to make room for the console
runs; what they showed can be read from the code directly:
- `signal_send` (`signal.c:23`) sets a queued READY process TERMINATED
  or BLOCKED without `ready_queue_remove`, so `schedule()` later pops it
  and runs the killed process;
- no code sets a pipe's `writer_closed` while an fd still names it, so
  after the last write end is closed a reader never sees EOF (`pipe.c:39`
  is dead) and hangs.

`wait_never_woken` was retired to make room for `shell_line`. It showed
that a parent that calls `wait` before its child exits stays WAITING for
good, because `sys_exit` (`syscall.c:78`) wakes no one. That can be read
from `sys_exit` directly, and it is listed as a hazard.

A further retired run, `pipe_call_hangs`, showed that a read of an empty pipe no one can
write spins with interrupts off for ever. That is the same wait as a stdin
read of an empty ring and `sys_sleep`; all three are listed as hazards.

`vt_overrun` is the one violation found in the console: `vt_putchar`'s
`\n` (line 63) has no bottom check and `\t` (line 73) no right-edge
check, and `\b` (line 69) then writes cell `cursor_y * 80 + cursor_x - 1`
outside `buffer[2000]`. With the real sizes, 25 Enter presses (each
echoed), a tab written to stdout and a Backspace write cell 2007, the
VT's `shell_pid`. The passing run shows the regular-character branch,
which wraps and scrolls, never does when it runs with interrupts off.

`vt_race` shows that it does when a kernel thread runs it with IF = 1. The
thread checks `cursor_y >= VGA_HEIGHT` (line 81) on the last row, the
keyboard IRQ echoes Enter (`cursor_y` becomes 25, line 63) and the thread
stores at `cursor_y * 80 + cursor_x` (line 92): past `buffer[2000]`.

### Bounds

`MCProcSched` bounds:
- 4 PCB handles (idle + 3);
- 4 table slots;
- PIDs below 5;
- quantum 2;
- 2 boot processes.

These let both boot processes run, fork twice, exit, be reaped and have a
slot reused. A full table is reached as well.

The failures found need:
- 2 processes: the lone process;
- a late create interleaved with one tick: the list race.

Quantum 2 gives both "quantum left" and "quantum expired" ticks. The code's
10 only lengthens the runs.

Signals: `{9, 18, 19}` in the passing run, which covers kill, stop and
continue. The violation runs use `{}` where signals would only give
shorter, unrelated traces.

`MCPipeFd` bounds:
- two processes (one forks the other);
- two pipes, so the second `pipe` call finds no free fd pair;
- five fds, so the fds passed to calls are 3 and 4;
- a ring of 2 bytes and 2 byte values;
- calls of 1-2 bytes;
- at most 3 bytes written per pipe.

These reach a full ring, both cursors wrapping, a write that waits, a read
that waits, and reads and writes from both processes through forked and
dup2'ed fds. `PIPE_SIZE` 4096 only makes the ring longer. The passing run
has `CHECK_DEADLOCK FALSE`: a state with no step is the real hang of a
pipe call (listed as a hazard).

`MCKHeap` bounds:
- a 128-byte arena: exactly four 8-byte chunks with their 24-byte
  headers, so exhaustion and the panic are reached;
- requests of 1 (aligned up to 8), 16 and 40 bytes, covering splits,
  exact fits, remainders too small to split, and krealloc moves.

`CHECK_DEADLOCK FALSE` there too: the only state with no step is after
`panic`, which halts the kernel.

`MCRamFs` bounds:
- four nodes (root, the two initial files, one more);
- five 2-byte blocks, so that:
  - a 3-byte write crosses a block;
  - an offset lands exactly on the end of the chain;
  - blocks run out both in the skip loop and in the copy loop;
- a root block of three entries;
- one fd;
- names `hello` (which exists) and `a` (which does not);
- writes `<<2>>` and `<<1, 2, 1>>`, and reads of 1 and 3 bytes, which
  move the offset off block boundaries.

Two fds on one file behave like one fd reopened at another offset, because
offsets are per fd and each call is atomic.

`MCUserMem` bounds:
- two processes;
- twelve frames. A process with a full heap holds 10, so a fork of a small
  process succeeds and a fork of a large one runs out part way, at every
  level of the clone;
- 2-unit pages, two heap pages and one stack page;
- increments `{-2, -1, 1, 3}`: growth across two pages, and shrinks that
  leave a page partly used;
- three ELF images:
  - one with a note header and a load segment at the heap's first page
    (0x400000 is both the usual link address and `USER_HEAP_START`);
  - one that fails validation;
  - one whose `filesz` exceeds its `memsz`.

  With two processes, a second image load runs out of frames part way.

`CHECK_DEADLOCK FALSE`: a panic (an address space or stack that cannot be
built) halts the kernel. The leak run allows only `process_create` and
`sys_sbrk` (`Ops` empty): reaping and `execve` leak at once through the
TODOs of `vmm.c`, and would hide the `sbrk` leak.

`MCConsole` bounds:
- a ring of 3 bytes, 2 usable: an arrow is always cut to `ESC [` or
  `ESC`, while single-byte keys fit whole or are dropped. A 4-byte ring
  (where an arrow fits an empty ring) runs past 2 million states;
- two VTs of 4 x 1 cells (8 x 2 in `vt_overrun`, so the tab stop of 8
  is the line width); Alt+F2 switches while Alt+F4 is out of range;
- cursors bounded below 5 columns and 2 rows (9 and 3 in `vt_overrun`);
  `KeyboardIrq`, `SysWriteStdout` and `KThreadWrite` are disabled beyond;
- keys Ctrl, Alt and their releases, F2, F4, Up, `c`, a release and an
  unmapped key; `vt_overrun` adds Enter, Tab and Backspace, `vt_race`
  has only `c` and Enter;
- reads of 1 byte; writes of `x` or a backspace (`vt_overrun` adds a
  tab); sleeps of 0 and 2000 ms;
- one kernel thread printing `x` and a newline (none in `vt_overrun`).
  Enter is left out of the passing run: with a thread it takes the run
  past the time limit, and `vt_race` is the run about it.

A `VIEW` hides the ring bytes outside the live part, the plain VGA row and
column after VT mode starts, and, in the passing run, the `active` flags,
the `"kchar"` overrun and the VT a thread read before it returned to its
idle point, none of which the run's properties or later steps read.
`CHECK_DEADLOCK FALSE`: a stdin read on an empty ring and `sys_sleep`
stop the kernel in `hlt` with IF = 0.

`MCShellLine` bounds:
- `MAX_CMD_LEN` 5: lines of up to 4 characters. `"p"` completes to `"ps"`
  at the end of a line, and also in the middle of one (`pp` with the
  cursor after the first `p`), where the tail moves right (lines 916-918).
  A line of 3 has no room for the completion;
- `HISTORY_SIZE` 2 and `MaxLines` 2: both slots are written and read back
  through Up and Down. The ring does not wrap here. A 5-byte buffer with
  a third stored line took 5.4 million states and four and a half
  minutes without coverage. The mid-line completion was chosen over the
  wrap: the wrap is where the Up bug lies, which `HistoryRecallExact`
  leaves out in any case. With these bounds every stored line is inside
  the window, so the property checks every recall;
- `Chars` `{"p"}`: the one prefix with a single match and a short
  completion. Adding a space, so that a word can start after it, took the
  run past 12 million states and ten minutes, so `WordStart` is only
  exercised at the start of the line.

A `VIEW` hides the buffer cells at and past `cmd_len`, which no later step
reads as part of a line. The run has 175 thousand distinct states.

### Fairness

`WF(scheduler_tick)`: the PIT fires at a fixed rate while the scheduler is
enabled, and every tick either decrements or reschedules.

`WF` on `kernel_main`'s boot steps: its code before `scheduler_enable`
runs to the end.

`PipeFd` assumes no fairness: it is checked for safety and refinement,
and its hangs are states with no step.

No fairness is assumed for user code, which may stop issuing system calls
at any point. `Console` is checked for safety and refinement only: keys
and writes come when the user and processes choose. `ShellLine` has no
fairness either: the user types when, and what, they like.

## 4. Plan

Remaining work, most important first:
1. `elf_load` after `process_create` from the idle loop, interleaved with
   ticks (a process scheduled before its image is mapped).

## 5. What is not modelled

- Boot code, GDT/IDT/TSS, exceptions and panic: no recoverable state.
- The byte copies of ELF loading, `execve` and `clone_page`: data, not
  control.
- Cell contents, colours, `vt_refresh`, `vt_clear` and `terminal_set_cursor`:
  copies to the VGA memory and the hardware cursor.
- The user programs, beyond the abstraction above and shell_v2's line
  editor. The rest of `shell_v2.c` is not modelled: `parse_command_line`,
  the built-ins, the job table and the pipes and redirections. Its state
  lives in the process core, the pipes and the file system, and those are
  modelled as their system calls. The redirections never take effect:
  `sys_read(0)` and `sys_write(1)` serve the console before they look at
  the fd table, so `dup2` onto fds 0 and 1 changes nothing.
- `process_destroy`'s ready-queue removal and `kfree`s: only reached when
  an ELF load fails. Its address-space part is in `UserMem`.
- `process_block`, `process_unblock` and `process_yield`: never called.
- `pmm_alloc_pages`, `pmm_free_pages` and `vmm_unmap_page`: never called.
- `sys_stat` and `sys_readdir`: `stat` changes nothing. `readdir` advances
  an fd only on a directory with entries, and only root has entries, but
  root cannot be opened.
- File delete (spec §4.9): neither `ramfs_delete` nor an unlink call exists.

Further defects the model reaches but no run checks (each is a hazard in
`PROJECT.json`): `wait` with no child blocks for good; a fork between
`process_create`'s slot search and its store loses a table entry; a
stdin read with no key waiting hangs in `hlt`; so does `sys_sleep` with
a positive time, since `sleep_ms` waits for timer ticks inside the system
call with interrupts off; a pipe call no one else can satisfy spins the
same way.

Known leaks and defects are recorded as hazards, not as properties:
- TERMINATED PCBs are never freed;
- orphaned zombies are never reaped;
- `free_process_struct` never frees the fd table;
- `vmm_destroy_address_space` frees only the PML4;
- `execve` clears the user half, stack included, and keeps the break;
- a file created when the root block is full has an inode and an fd but
  no directory entry, against `spec.md` §3 ("every inode with
  `inode_num != 0` is reachable from root");
- `mkdir` of an existing name adds a second entry with that name;
- shell_v2's Up arrow goes down to `history_pos` 0 even after the ring
  has wrapped. It then reads slot `history_pos % HISTORY_SIZE`, which
  holds a newer line (`shell_v2.c:829`). Without the window restriction,
  `HistoryRecallExact` fails in 8 states with a 4-byte buffer, a ring of 2
  and three different lines stored, then Up to the oldest;
- ESC read by `read_line` makes it call `sys_read(0, seq, 2)`. That read
  stops at a newline, so ESC followed by Enter swallows the Enter
  (`shell_v2.c:826`).
