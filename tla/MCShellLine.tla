---------------------------- MODULE MCShellLine -----------------------------
(***************************************************************************)
(* ShellLine for TLC: a 5-byte command buffer (lines of up to 4            *)
(* characters), a history ring of 2 slots and at most 2 stored lines; the  *)
(* user types "p", so that "p" is completed to "ps" at the end of a line,  *)
(* in the middle of one (the tail moves right), and not at all when the   *)
(* line has no room.                                                       *)
(***************************************************************************)
EXTENDS ShellLine

\* Cells at and past cmd_len are never read as part of a line (the tab
\* shift moves cmd_buffer[cmd_len] past the new end, and every other read
\* is below cmd_len), so states that differ only there are merged.
MCView ==
    <<[i \in BufIdx |-> IF i < cmd_len THEN cmd_buffer[i] ELSE NUL],
      cmd_pos, cmd_len, history, history_count, history_pos, added,
      recalled>>
=============================================================================
