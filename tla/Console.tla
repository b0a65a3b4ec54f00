------------------------------ MODULE Console ------------------------------
(***************************************************************************)
(* The console: the keyboard driver (keyboard.c), the terminal and the    *)
(* virtual terminals it writes to (terminal.c, vt.c), and the two readers *)
(* of the keyboard ring, the idle loop of kernel_main and sys_read on     *)
(* stdin.  The keyboard IRQ and INT 0x80 enter through interrupt gates,   *)
(* so a callback and a system call are each one step; the idle loop's    *)
(* keyboard_getchar is one step as well (the ring has one producer and   *)
(* one consumer, so an IRQ inside it changes nothing it reads).           *)
(*                                                                         *)
(* Screen contents are abstracted away: a VT keeps its cursor, and        *)
(* overrun records the kinds of buffer writes ("char" for a printable     *)
(* character, "bs" for a backspace) that fell outside its 80 x 25 cells.  *)
(***************************************************************************)
EXTENDS Integers, Sequences, FiniteSets

CONSTANTS
    KbdSize,        \* 256: kbd_buffer's size (uint8_t positions)
    NVT,            \* NUM_VIRTUAL_TERMINALS
    VGA_WIDTH,      \* 80
    VGA_HEIGHT,     \* 25
    Scancodes,      \* the scancodes the keyboard controller delivers
    Outputs,        \* the buffers processes pass to sys_write(1, ...)
    BootOutputs,    \* the characters kernel_main prints before vt mode
    ReadCounts,     \* the counts passed to sys_read(0, ...)
    KThreads,       \* the kernel threads kernel_main creates
    KOutputs,       \* the strings they pass to terminal_writestring
    SleepTimes,     \* the ms passed to sys_sleep
    ColBound,       \* bound: no output once a cursor column reaches it
    RowBound        \* bound: no output once a cursor row reaches it

VARIABLES
    kbd_buffer, kbd_read_pos, kbd_write_pos, ctrl_pressed, alt_pressed,
    vt_enabled, terminal_row, terminal_column,
    current_terminal, cursor_x, cursor_y, active, overrun,
    booted,   \* kernel_main has executed sti
    got,      \* the bytes the last read took from the ring
    hung,     \* the CPU executed hlt with IF = 0
    kt        \* per kernel thread: where it is in terminal_writestring

kbd  == <<kbd_buffer, kbd_read_pos, kbd_write_pos, ctrl_pressed, alt_pressed>>
term == <<vt_enabled, terminal_row, terminal_column, current_terminal,
          cursor_x, cursor_y, active, overrun>>
vars == <<kbd, term, booted, got, hung, kt>>

\* Characters.  Control characters are named; others stand for themselves.
NUL == "nul"
ESC == "esc"
NL  == "nl"
CR  == "cr"
BS  == "bs"
TAB == "tab"

KEY_UP == 72
KEY_DOWN == 80
KEY_LEFT == 75
KEY_RIGHT == 77
KEY_TAB == 15
KEY_CTRL == 29
KEY_CTRL_RELEASE == 157
KEY_ALT == 56
KEY_ALT_RELEASE == 184
KEY_F1 == 59
KEY_F4 == 62

\* kbd_us, the entries the model's scancodes use (0 elsewhere).  There is
\* no shift: no scancode yields an upper-case letter.
kbd_us(sc) ==
    CASE sc = 1  -> ESC  [] sc = 14 -> BS  [] sc = 15 -> TAB
      [] sc = 28 -> NL   [] sc = 30 -> "a" [] sc = 46 -> "c"
      [] sc = 57 -> " "  [] OTHER   -> NUL

ArrowChar(sc) ==
    CASE sc = KEY_DOWN -> "B" [] sc = KEY_RIGHT -> "C"
      [] sc = KEY_LEFT -> "D" [] OTHER -> "A"

(***************************************************************************)
(* terminal.c and vt.c, as operators on the record T of the terminal      *)
(* state.                                                                  *)
(***************************************************************************)
Term == [en |-> vt_enabled, row |-> terminal_row, col |-> terminal_column,
         cur |-> current_terminal, cx |-> cursor_x, cy |-> cursor_y,
         active |-> active, overrun |-> overrun]

TStore(T) ==
    /\ vt_enabled' = T.en /\ terminal_row' = T.row /\ terminal_column' = T.col
    /\ current_terminal' = T.cur /\ cursor_x' = T.cx /\ cursor_y' = T.cy
    /\ active' = T.active /\ overrun' = T.overrun

\* A write of kind k to cell i of the current VT's 80 x 25 buffer.
VtWriteAt(T, i, k) ==
    IF i \in 0..(VGA_WIDTH * VGA_HEIGHT - 1) THEN T
    ELSE [T EXCEPT !.overrun = @ \cup {k}]

\* Mutant: the wrap test is one column late.
VtWrapPastEdge(T, t) ==
    IF T.cx[t] > VGA_WIDTH
    THEN [T EXCEPT !.cx[t] = 0, !.cy[t] = @ + 1] ELSE T

\* vt_putchar's regular character on VT t, one operator per statement:
\* wrap at the right edge, scroll at the bottom, store (a write of kind
\* k), advance.
VtWrap(T, t) ==
    IF T.cx[t] >= VGA_WIDTH
    THEN [T EXCEPT !.cx[t] = 0, !.cy[t] = @ + 1] ELSE T

VtScroll(T, t) ==
    IF T.cy[t] >= VGA_HEIGHT THEN [T EXCEPT !.cy[t] = VGA_HEIGHT - 1]
    ELSE T

VtCell(T, t, k) == VtWriteAt(T, T.cy[t] * VGA_WIDTH + T.cx[t], k)

VtAdvance(T, t) == [T EXCEPT !.cx[t] = @ + 1]

VtStore(T) == VtAdvance(VtCell(T, T.cur, "char"), T.cur)

\* vt_putchar: '\n' moves down without the bottom check, '\b' writes a blank
\* at the cell left of the cursor, '\t' moves to the next multiple of 8
\* without the right-edge check; other control characters are dropped.
\* (vt_refresh and terminal_set_cursor only copy to the VGA.)
vt_putchar(T, c) ==
    CASE c = NL  -> [T EXCEPT !.cx[T.cur] = 0, !.cy[T.cur] = @ + 1]
      [] c = CR  -> [T EXCEPT !.cx[T.cur] = 0]
      [] c = BS  -> IF T.cx[T.cur] > 0
                    THEN VtWriteAt([T EXCEPT !.cx[T.cur] = @ - 1],
                                   T.cy[T.cur] * VGA_WIDTH + T.cx[T.cur] - 1, "bs")
                    ELSE T
      [] c = TAB -> [T EXCEPT !.cx[T.cur] = ((@ + 8) \div 8) * 8]
      [] c \in {ESC, NUL} -> T
      [] OTHER   -> VtStore(VtScroll(VtWrap(T, T.cur), T.cur))

\* terminal_scroll: the cursor goes to the last line.
PlainNewRow(T) ==
    IF T.row + 1 = VGA_HEIGHT THEN [T EXCEPT !.row = VGA_HEIGHT - 1]
    ELSE [T EXCEPT !.row = @ + 1]

\* terminal_putchar before terminal_enable_vt: the VGA text buffer itself.
PlainPutchar(T, c) ==
    CASE c = NL -> PlainNewRow([T EXCEPT !.col = 0])
      [] c = CR -> [T EXCEPT !.col = 0]
      [] c = BS -> IF T.col > 0 THEN [T EXCEPT !.col = @ - 1] ELSE T
      [] OTHER  -> IF T.col + 1 = VGA_WIDTH THEN PlainNewRow([T EXCEPT !.col = 0])
                   ELSE [T EXCEPT !.col = @ + 1]

terminal_putchar(T, c) == IF T.en THEN vt_putchar(T, c) ELSE PlainPutchar(T, c)

RECURSIVE terminal_write(_, _)
terminal_write(T, s) ==
    IF s = <<>> THEN T ELSE terminal_write(terminal_putchar(T, Head(s)), Tail(s))

\* Mutant: the range check is dropped.
VtSwitchUnchecked(T, t) ==
    IF t = T.cur THEN T ELSE [T EXCEPT !.cur = t, !.active[t] = TRUE]

\* vt_switch: out-of-range and current terminals are ignored.
vt_switch(T, t) ==
    IF t < 0 \/ t >= NVT \/ t = T.cur THEN T
    ELSE [T EXCEPT !.cur = t, !.active[t] = TRUE]

\* Output is bounded for model checking.
Bounded(T) ==
    \A t \in 0..(NVT - 1) : T.cx[t] < ColBound /\ T.cy[t] < RowBound
(***************************************************************************)
(* keyboard.c                                                              *)
(***************************************************************************)
\* The bytes between the read and the write position, oldest first.
KbdQueue ==
    [i \in 1..((kbd_write_pos - kbd_read_pos) % KbdSize) |->
        kbd_buffer[(kbd_read_pos + i - 1) % KbdSize]]

\* Mutant: a byte is stored whether or not the ring is full.
RECURSIVE KbdPush(_, _, _, _), KbdPushNoFullCheck(_, _, _, _)
KbdPushNoFullCheck(buf, w, r, s) ==
    IF s = <<>> THEN [buf |-> buf, w |-> w]
    ELSE KbdPushNoFullCheck([buf EXCEPT ![w] = Head(s)], (w + 1) % KbdSize, r, Tail(s))

\* The callback's nested stores: each byte of s is stored while next_write
\* differs from kbd_read_pos; the first full check that fails ends it.
KbdPush(buf, w, r, s) ==
    IF s = <<>> \/ (w + 1) % KbdSize = r THEN [buf |-> buf, w |-> w]
    ELSE KbdPush([buf EXCEPT ![w] = Head(s)], (w + 1) % KbdSize, r, Tail(s))

KbdStore(k) == kbd_buffer' = k.buf /\ kbd_write_pos' = k.w

\* The bytes a scancode queues, whole.
KeyBytes(sc) ==
    CASE sc \in {KEY_UP, KEY_DOWN, KEY_LEFT, KEY_RIGHT} -> <<ESC, "[", ArrowChar(sc)>>
      [] sc = KEY_TAB -> <<TAB>>
      [] sc < 128 /\ kbd_us(sc) # NUL -> <<kbd_us(sc)>>
      [] OTHER -> <<>>

\* keyboard_callback's branches, in the order of its if-chain.
KbdModifier(sc) ==
    /\ sc \in {KEY_CTRL, KEY_CTRL_RELEASE, KEY_ALT, KEY_ALT_RELEASE}
    /\ ctrl_pressed' = IF sc \in {KEY_CTRL, KEY_CTRL_RELEASE}
                       THEN sc = KEY_CTRL ELSE ctrl_pressed
    /\ alt_pressed' = IF sc \in {KEY_ALT, KEY_ALT_RELEASE}
                      THEN sc = KEY_ALT ELSE alt_pressed
    /\ UNCHANGED <<kbd_buffer, kbd_read_pos, kbd_write_pos, term>>

KbdAltFn(sc) ==
    /\ alt_pressed /\ sc \in KEY_F1..KEY_F4
    /\ TStore(vt_switch(Term, sc - KEY_F1))
    /\ UNCHANGED kbd

\* Arrows and TAB are queued without echo.
KbdSpecial(sc) ==
    /\ sc \in {KEY_UP, KEY_DOWN, KEY_LEFT, KEY_RIGHT, KEY_TAB}
    /\ KbdStore(KbdPush(kbd_buffer, kbd_write_pos, kbd_read_pos, KeyBytes(sc)))
    /\ UNCHANGED <<kbd_read_pos, ctrl_pressed, alt_pressed, term>>

\* Ctrl+C prints ^C and sends SIGINT to the current process (signal_send,
\* modelled in ProcSched as KeyboardCtrlC); nothing is queued.
KbdCtrlC(sc) ==
    /\ ctrl_pressed /\ kbd_us(sc) \in {"c", "C"}
    /\ TStore(terminal_write(Term, <<"^", "C", NL>>))
    /\ UNCHANGED kbd

\* Any other mapped key: queued when the ring has room, echoed always
\* (but ESC).
KbdChar(sc) ==
    /\ ~(ctrl_pressed /\ kbd_us(sc) \in {"c", "C"})
    /\ KbdStore(KbdPush(kbd_buffer, kbd_write_pos, kbd_read_pos, <<kbd_us(sc)>>))
    /\ TStore(IF kbd_us(sc) # ESC THEN terminal_putchar(Term, kbd_us(sc)) ELSE Term)
    /\ UNCHANGED <<kbd_read_pos, ctrl_pressed, alt_pressed>>

\* keyboard_callback: one IRQ 1.  A release (bit 7), an Alt+F-key out of
\* range and an unmapped key change nothing.
keyboard_callback(sc) ==
    IF sc \in {KEY_CTRL, KEY_CTRL_RELEASE, KEY_ALT, KEY_ALT_RELEASE}
    THEN KbdModifier(sc)
    ELSE IF alt_pressed /\ sc \in KEY_F1..KEY_F4 THEN KbdAltFn(sc)
    ELSE IF sc >= 128 THEN UNCHANGED <<kbd, term>>
    ELSE IF sc \in {KEY_UP, KEY_DOWN, KEY_LEFT, KEY_RIGHT, KEY_TAB}
    THEN KbdSpecial(sc)
    ELSE IF kbd_us(sc) = NUL THEN UNCHANGED <<kbd, term>>
    ELSE IF ctrl_pressed /\ kbd_us(sc) \in {"c", "C"} THEN KbdCtrlC(sc)
    ELSE KbdChar(sc)

keyboard_has_char == kbd_read_pos # kbd_write_pos

\* sys_read's stdin loop from position r with the bytes acc already read:
\* take a byte while one is there, stop at count or after '\n'; with the
\* ring empty it executes hlt, and as INT 0x80 entered with IF = 0 no
\* interrupt ever ends it.
RECURSIVE StdinRead(_, _, _, _, _)
StdinRead(buf, r, w, count, acc) ==
    IF Len(acc) = count THEN [r |-> r, got |-> acc, hang |-> FALSE]
    ELSE IF r = w THEN [r |-> r, got |-> acc, hang |-> TRUE]
    ELSE IF buf[r] = NL THEN [r |-> (r + 1) % KbdSize, got |-> Append(acc, NL), hang |-> FALSE]
    ELSE StdinRead(buf, (r + 1) % KbdSize, w, count, Append(acc, buf[r]))

(***************************************************************************)
(* Operations                                                              *)
(***************************************************************************)
Init ==
    /\ kbd_buffer = [i \in 0..(KbdSize - 1) |-> NUL]
    /\ kbd_read_pos = 0 /\ kbd_write_pos = 0
    /\ ctrl_pressed = FALSE /\ alt_pressed = FALSE
    /\ vt_enabled = FALSE /\ terminal_row = 0 /\ terminal_column = 0
    /\ current_terminal = 0
    /\ cursor_x = [t \in 0..(NVT - 1) |-> 0]
    /\ cursor_y = [t \in 0..(NVT - 1) |-> 0]
    /\ active = [t \in 0..(NVT - 1) |-> FALSE]
    /\ overrun = {}
    /\ booted = FALSE /\ got = <<>> /\ hung = FALSE
    /\ kt = [k \in KThreads |-> [pc |-> "next", vt |-> 0, rest |-> <<>>]]

\* kernel_main's terminal_writestring calls before vt mode.
BootWrite(c) ==
    /\ ~booted
    /\ TStore(terminal_putchar(Term, c))
    /\ UNCHANGED <<kbd, booted, got, hung, kt>>

\* kernel_main from init_keyboard to sti: init_keyboard, vt_init (every VT
\* cleared, the first active), terminal_enable_vt, then interrupts on.
Boot ==
    /\ ~booted
    /\ kbd_read_pos' = 0 /\ kbd_write_pos' = 0
    /\ cursor_x' = [t \in 0..(NVT - 1) |-> 0]
    /\ cursor_y' = [t \in 0..(NVT - 1) |-> 0]
    /\ active' = [t \in 0..(NVT - 1) |-> t = 0]
    /\ vt_enabled' = TRUE
    /\ booted' = TRUE
    /\ UNCHANGED <<kbd_buffer, ctrl_pressed, alt_pressed, terminal_row,
                   terminal_column, current_terminal, overrun, got, hung, kt>>

KeyboardIrq(sc) ==
    /\ booted /\ ~hung /\ Bounded(Term)
    /\ keyboard_callback(sc)
    /\ UNCHANGED <<booted, got, hung, kt>>

\* kernel_main's idle loop: keyboard_getchar, then the debug command (whose
\* effects are modelled in ProcSched and UserMem).
IdleGetchar ==
    /\ booted /\ ~hung /\ keyboard_has_char
    /\ got' = <<kbd_buffer[kbd_read_pos]>>
    /\ kbd_read_pos' = (kbd_read_pos + 1) % KbdSize
    /\ UNCHANGED <<kbd_buffer, kbd_write_pos, ctrl_pressed, alt_pressed,
                   term, booted, hung, kt>>

StdinDone(res) ==
    /\ kbd_read_pos' = res.r /\ got' = res.got /\ hung' = res.hang

\* sys_read(0, buf, count) by a process.
SysReadStdin(count) ==
    /\ booted /\ ~hung
    /\ StdinDone(StdinRead(kbd_buffer, kbd_read_pos, kbd_write_pos, count, <<>>))
    /\ UNCHANGED <<kbd_buffer, kbd_write_pos, ctrl_pressed, alt_pressed,
                   term, booted, kt>>

\* sys_write(1, buf, count): terminal_putchar of every byte.
SysWriteStdout(buf) ==
    /\ booted /\ ~hung /\ Bounded(Term)
    /\ TStore(terminal_write(Term, buf))
    /\ UNCHANGED <<kbd, booted, got, hung, kt>>

\* sys_sleep(ms) (test_syscall_process's loop): sleep_ms runs inside INT
\* 0x80 with IF = 0, so timer_ticks never moves and for ms > 0 the hlt at
\* timer.c:33 is never left.
SysSleep(ms) ==
    /\ booted /\ ~hung
    /\ hung' = (ms > 0)
    /\ UNCHANGED <<kbd, term, booted, got, kt>>

(***************************************************************************)
(* The kernel threads of kernel_main (test_process_1..3,                  *)
(* test_memory_process, test_syscall_process) print with                  *)
(* terminal_writestring while interrupts are on, so a keyboard IRQ, or a  *)
(* tick that switches to another writer, can come between two statements *)
(* of vt_putchar.  A thread's printable character is split where a        *)
(* concurrent write can change what the next statement reads: line 59    *)
(* (which VT), 76-79 (wrap), 81-90 (scroll), 92 (store), 93 (advance).   *)
(* Other characters change the cursor in one statement or two that no     *)
(* property tells apart and are one step.  sleep_ms between messages runs *)
(* with IF = 1 and returns; it is the thread's idle state.                *)
(***************************************************************************)
Printable(c) == c \notin {NUL, ESC, NL, CR, BS, TAB}

KIdle(k) == kt[k].pc = "next" /\ kt[k].rest = <<>>

\* terminal_writestring(s) begins.
KThreadWrite(k, s) ==
    /\ booted /\ ~hung /\ KIdle(k) /\ Bounded(Term)
    /\ kt' = [kt EXCEPT ![k].rest = s]
    /\ UNCHANGED <<kbd, term, booted, got, hung>>

\* terminal_putchar of a printable character: vt_enabled is set, and
\* vt_putchar takes the current VT's address (line 59).
KPutcharRegular(k) ==
    /\ ~hung /\ kt[k].pc = "next" /\ kt[k].rest # <<>>
    /\ Printable(Head(kt[k].rest))
    /\ kt' = [kt EXCEPT ![k] = [pc |-> "wrap", vt |-> current_terminal,
                                rest |-> Tail(@.rest)]]
    /\ UNCHANGED <<kbd, term, booted, got, hung>>

\* terminal_putchar of any other character, whole.
KPutcharControl(k) ==
    /\ ~hung /\ kt[k].pc = "next" /\ kt[k].rest # <<>>
    /\ ~Printable(Head(kt[k].rest))
    /\ TStore(vt_putchar(Term, Head(kt[k].rest)))
    /\ kt' = [kt EXCEPT ![k].rest = Tail(@)]
    /\ UNCHANGED <<kbd, booted, got, hung>>

\* One statement of vt_putchar's printable branch on the thread's VT.
KStep(k, from, to, T2) ==
    /\ ~hung /\ kt[k].pc = from
    /\ TStore(T2)
    /\ kt' = [kt EXCEPT ![k].pc = to]
    /\ UNCHANGED <<kbd, booted, got, hung>>

KThreadWrap(k)    == KStep(k, "wrap", "scroll", VtWrap(Term, kt[k].vt))
KThreadScroll(k)  == KStep(k, "scroll", "store", VtScroll(Term, kt[k].vt))
KThreadStore(k)   == KStep(k, "store", "advance", VtCell(Term, kt[k].vt, "kchar"))
KThreadAdvance(k) == KStep(k, "advance", "next", VtAdvance(Term, kt[k].vt))

Next ==
    \/ \E c \in BootOutputs : BootWrite(c)
    \/ Boot
    \/ \E sc \in Scancodes : KeyboardIrq(sc)
    \/ IdleGetchar
    \/ \E n \in ReadCounts : SysReadStdin(n)
    \/ \E b \in Outputs : SysWriteStdout(b)
    \/ \E ms \in SleepTimes : SysSleep(ms)
    \/ \E k \in KThreads :
          \/ \E s \in KOutputs : KThreadWrite(k, s)
          \/ KPutcharRegular(k) \/ KPutcharControl(k)
          \/ KThreadWrap(k) \/ KThreadScroll(k)
          \/ KThreadStore(k) \/ KThreadAdvance(k)

Spec == Init /\ [][Next]_vars

(***************************************************************************)
(* Properties                                                              *)
(***************************************************************************)
TypeOK ==
    /\ kbd_buffer \in [0..(KbdSize - 1) -> STRING]
    /\ kbd_read_pos \in 0..(KbdSize - 1) /\ kbd_write_pos \in 0..(KbdSize - 1)
    /\ current_terminal \in 0..(NVT - 1)
    /\ cursor_x \in [0..(NVT - 1) -> Nat] /\ cursor_y \in [0..(NVT - 1) -> Nat]
    /\ terminal_row \in 0..(VGA_HEIGHT - 1) /\ terminal_column \in 0..(VGA_WIDTH - 1)
    /\ overrun \subseteq {"char", "kchar", "bs"}
    /\ \A k \in KThreads :
          /\ kt[k].pc \in {"next", "wrap", "scroll", "store", "advance"}
          /\ kt[k].vt \in 0..(NVT - 1)

\* The ring, read from kbd_read_pos to kbd_write_pos, implements the
\* keyboard source port: the IRQ handler queues the longest prefix of a
\* key's bytes that fits and never loses or reorders a queued byte, and
\* keyboard_getchar and sys_read take bytes from the head.
KQ == INSTANCE KeyQueue WITH
        Cap <- KbdSize - 1, Whole <- FALSE,
        Encodings <- {KeyBytes(sc) : sc \in Scancodes},
        queue <- KbdQueue
KbdIsQueue == KQ!Spec

\* vt_putchar called with interrupts off (keyboard echo, sys_write, boot
\* output) stores a printable character inside the VT's 80 x 25 buffer
\* whatever the cursor, because it wraps and scrolls before the store,
\* even when a kernel thread was stopped half way through its own
\* vt_putchar on the same VT.
RegularWritesInBounds == "char" \notin overrun

\* A kernel thread's vt_putchar also stores its printable character inside
\* the buffer.  It wraps and scrolls first too, but with interrupts on a
\* keyboard echo can move the cursor between the scroll check (line 81)
\* and the store (line 92).
ThreadWritesInBounds == "kchar" \notin overrun

\* Every store vt_putchar makes lands inside the VT buffer.  The '\n' and
\* '\t' branches move the cursor without the bottom and right-edge checks,
\* so a later '\b' (the keyboard echoes Backspace) writes past the end.
VtWritesInBounds == overrun = {}
====
