----------------------------- MODULE MCConsole -----------------------------
(***************************************************************************)
(* Console for TLC: a 3-byte ring (2 bytes usable, so an arrow's three    *)
(* bytes are always cut to a prefix while single-byte keys fit whole),    *)
(* two VTs of one row (4 columns in the passing and race runs, 8 x 2 in  *)
(* vt_overrun so that the tab stop of 8 is a line), one kernel thread,   *)
(* and keys for keyboard_callback's modifier, Alt+F, arrow, Ctrl+C and    *)
(* character branches (vt_overrun adds Tab, Backspace, a release and an   *)
(* unmapped key).                                                         *)
(***************************************************************************)
EXTENDS Console

\* Ctrl, Ctrl release, Alt, Alt release, F2, F4 (no VT 3 with two VTs),
\* Up, 'c', Enter, release of 'c', Caps Lock (unmapped).
MCScancodes == {KEY_CTRL, KEY_CTRL_RELEASE, KEY_ALT, KEY_ALT_RELEASE,
                KEY_F1 + 1, KEY_F4, KEY_UP, 46, 28, 174, 58}

\* What processes write: a printable byte, a tab, a backspace.
MCOutputs == {<<"x">>, <<TAB>>, <<BS>>}

\* The passing run with a kernel thread: no Enter, release or unmapped
\* key, and processes write a byte or a backspace.
MCScancodesThr == MCScancodes \ {28, 174, 58}

MCOutputsThr == {<<"x">>, <<BS>>}

\* The vt_race run: a kernel thread printing and the keys 'c' and Enter.
MCScancodesRace == {46, 28}

\* The vt_overrun run: the Tab and Backspace keys too, and processes that
\* write only a tab.
MCScancodesAll == MCScancodes \cup {KEY_TAB, 14}

MCOutputsTab == {<<TAB>>}

MCBootOutputs == {"x", NL}

\* What the kernel threads print: a message and its newline, written by
\* back-to-back terminal_writestring calls as test_process_1 does.
MCKOutputs == {<<"x", NL>>}
\* States that differ only in the stale bytes outside the live part of the
\* ring behave alike: no step reads those bytes before overwriting them.
\* Likewise terminal_row and terminal_column once vt mode is on: after
\* Boot no step reads or changes them.
MCView == <<KbdQueue, kbd_read_pos, kbd_write_pos, ctrl_pressed, alt_pressed,
            IF booted THEN <<>> ELSE <<terminal_row, terminal_column>>,
            vt_enabled, current_terminal, cursor_x, cursor_y, active, overrun,
            booted, got, hung, kt>>

\* For the passing run, also: which VTs were ever made active (written by
\* vt_init and vt_switch, read by nothing), the VT a thread took at line
\* 59 once its character is done (the next one takes it again), and
\* whether a thread's store fell outside (no step or checked property
\* reads it there; the vt_race run checks it with MCView).
KtView(k) == IF kt[k].pc = "next" THEN <<"next", kt[k].rest>> ELSE kt[k]

MCViewThr == <<KbdQueue, kbd_read_pos, kbd_write_pos, ctrl_pressed, alt_pressed,
               IF booted THEN <<>> ELSE <<terminal_row, terminal_column>>,
               vt_enabled, current_terminal, cursor_x, cursor_y,
               overrun \ {"kchar"}, booted, got, hung,
               [k \in KThreads |-> KtView(k)]>>
====
