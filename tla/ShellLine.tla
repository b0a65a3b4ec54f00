----------------------------- MODULE ShellLine ------------------------------
(***************************************************************************)
(* The line editor and command history of shell_v2                        *)
(* (src/programs/shell_v2.c): read_line, add_to_history and the part of    *)
(* shell_v2_main that runs between two lines.                              *)
(*                                                                         *)
(* The shell reads one byte per sys_read(0, &c, 1) and handles it in one   *)
(* iteration of read_line's loop; each branch of that loop that changes    *)
(* the editor's state is an action.  The byte is the action's input: a    *)
(* printable character of Chars, '\b', '\t', '\n', or an escape sequence   *)
(* read with sys_read(0, seq, 2).  A sequence that is not ESC [ A..D (the  *)
(* read stopped at a newline, or another byte) changes nothing, and        *)
(* neither does a key a branch ignores (Backspace at the start of the      *)
(* line, Tab with no single match): those iterations are stuttering steps. *)
(*                                                                         *)
(* The characters are kept: the line editing and the tab completion       *)
(* compare them.  Output (the echo, redraw_line, the completion list) is   *)
(* left out; the command a line runs is left out too, since it changes     *)
(* none of the editor's state: read_line starts every line afresh.        *)
(***************************************************************************)
EXTENDS Naturals, Sequences, SequencesExt, FiniteSets

CONSTANTS
    MAX_CMD_LEN,    \* size of cmd_buffer and of each history line
    HISTORY_SIZE,   \* number of slots of the history ring
    Chars,          \* printable characters the user types
    MaxLines        \* bound: lines add_to_history stores

ASSUME MAX_CMD_LEN \in Nat \ {0, 1} /\ HISTORY_SIZE \in Nat \ {0}
       /\ MaxLines \in Nat

VARIABLES
    cmd_buffer, cmd_pos, cmd_len,            \* the line being edited
    history, history_count, history_pos,     \* the history ring
    added,    \* auxiliary: every line add_to_history stored, in order
    recalled  \* auxiliary: the line is a history line an arrow loaded,
              \* not edited since

vars == <<cmd_buffer, cmd_pos, cmd_len, history, history_count,
          history_pos, added, recalled>>

NUL == "NUL"
BufIdx == 0..(MAX_CMD_LEN - 1)

\* The completion table of read_line, each name as its characters.
completion_commands ==
    << <<"h","e","l","p">>, <<"p","s">>, <<"e","c","h","o">>,
       <<"f","o","r","k">>, <<"s","t","r","e","s","s">>, <<"l","s">>,
       <<"c","a","t">>, <<"k","i","l","l">>, <<"w","c">>,
       <<"g","r","e","p">>, <<"c","l","e","a","r">>, <<"e","x","i","t">>,
       <<"h","i","s","t","o","r","y">>, <<"j","o","b","s">>, <<"f","g">> >>

\* The string held by the first n cells of a buffer (str_len stops at the
\* NUL the code keeps at cmd_buffer[cmd_len]).
Line(b, n) == [i \in 1..n |-> b[i - 1]]

\* str_cpy of a history line into cmd_buffer, with its terminating NUL.
str_cpy(b, l) ==
    [i \in BufIdx |-> IF i < Len(l) THEN l[i + 1]
                      ELSE IF i = Len(l) THEN NUL ELSE b[i]]

Init ==
    /\ cmd_buffer = [i \in BufIdx |-> NUL]
    /\ cmd_pos = 0
    /\ cmd_len = 0
    /\ history = [s \in 0..(HISTORY_SIZE - 1) |-> <<>>]
    /\ history_count = 0
    /\ history_pos = 0
    /\ added = <<>>
    /\ recalled = FALSE

(***************************************************************************)
(* add_to_history: an empty line, or the line stored last, is not stored; *)
(* otherwise it goes to slot history_count % HISTORY_SIZE.                 *)
(***************************************************************************)
Repeats(cmd) ==
    history_count > 0
    /\ history[(history_count - 1) % HISTORY_SIZE] = cmd

Stores(cmd) == cmd # <<>> /\ ~Repeats(cmd)

add_to_history_next_slot(cmd) ==
    IF Stores(cmd)
    THEN /\ history' = [history EXCEPT
                          ![(history_count + 1) % HISTORY_SIZE] = cmd]
         /\ history_count' = history_count + 1
         /\ added' = Append(added, cmd)
    ELSE UNCHANGED <<history, history_count, added>>

add_to_history(cmd) ==
    IF Stores(cmd)
    THEN /\ history' = [history EXCEPT
                          ![history_count % HISTORY_SIZE] = cmd]
         /\ history_count' = history_count + 1
         /\ added' = Append(added, cmd)
    ELSE UNCHANGED <<history, history_count, added>>

(***************************************************************************)
(* '\n': read_line returns cmd_len; shell_v2_main stores the line with     *)
(* add_to_history when it is not empty, runs it, sets history_pos to       *)
(* history_count at the top of its loop, and read_line starts the next     *)
(* line with cmd_len = cmd_pos = 0 and cmd_buffer[0] = NUL.  The parsers   *)
(* write NULs into the cells of the old line, which no later step reads.   *)
(***************************************************************************)
Enter ==
    /\ Stores(Line(cmd_buffer, cmd_len)) => history_count < MaxLines
    /\ add_to_history(Line(cmd_buffer, cmd_len))
    /\ history_pos' = history_count'
    /\ cmd_buffer' = [cmd_buffer EXCEPT ![0] = NUL]
    /\ cmd_pos' = 0
    /\ cmd_len' = 0
    /\ recalled' = FALSE

\* '\b' with cmd_pos > 0: the characters from the cursor on move one cell
\* left over the one before the cursor.
KeyBackspace ==
    /\ cmd_pos > 0
    /\ cmd_buffer' = [i \in BufIdx |->
                        IF cmd_pos - 1 <= i /\ i < cmd_len - 1
                        THEN cmd_buffer[i + 1] ELSE cmd_buffer[i]]
    /\ cmd_pos' = cmd_pos - 1
    /\ cmd_len' = cmd_len - 1
    /\ recalled' = FALSE
    /\ UNCHANGED <<history, history_count, history_pos, added>>

\* A history line replaces the buffer; the cursor goes to its end.
Load(l) ==
    /\ cmd_buffer' = str_cpy(cmd_buffer, l)
    /\ cmd_len' = Len(l)
    /\ cmd_pos' = Len(l)
    /\ recalled' = TRUE

HistoryUpStaleIndex ==
    /\ history_count > 0 /\ history_pos > 0
    /\ history_pos' = history_pos - 1
    /\ IF history_pos - 1 < history_count
       THEN Load(history[history_pos % HISTORY_SIZE])
       ELSE UNCHANGED <<cmd_buffer, cmd_len, cmd_pos, recalled>>
    /\ UNCHANGED <<history, history_count, added>>

\* ESC [ A: one line back, while history_pos > 0.
HistoryUp ==
    /\ history_count > 0 /\ history_pos > 0
    /\ history_pos' = history_pos - 1
    /\ IF history_pos - 1 < history_count
       THEN Load(history[(history_pos - 1) % HISTORY_SIZE])
       ELSE UNCHANGED <<cmd_buffer, cmd_len, cmd_pos, recalled>>
    /\ UNCHANGED <<history, history_count, added>>

\* ESC [ B: one line forward, or past the newest line to an empty line.
HistoryDown ==
    /\ \/ /\ history_pos < history_count - 1
          /\ history_pos' = history_pos + 1
          /\ Load(history[(history_pos + 1) % HISTORY_SIZE])
       \/ /\ ~(history_pos < history_count - 1)
          /\ history_pos < history_count
          /\ history_pos' = history_count
          /\ cmd_buffer' = [cmd_buffer EXCEPT ![0] = NUL]
          /\ cmd_len' = 0
          /\ cmd_pos' = 0
          /\ recalled' = FALSE
    /\ UNCHANGED <<history, history_count, added>>

\* ESC [ C and ESC [ D move the cursor inside the line.
CursorRight ==
    /\ cmd_pos < cmd_len
    /\ cmd_pos' = cmd_pos + 1
    /\ UNCHANGED <<cmd_buffer, cmd_len, history, history_count,
                   history_pos, added, recalled>>

CursorLeft ==
    /\ cmd_pos > 0
    /\ cmd_pos' = cmd_pos - 1
    /\ UNCHANGED <<cmd_buffer, cmd_len, history, history_count,
                   history_pos, added, recalled>>

(***************************************************************************)
(* '\t': tab completion.  The word before the cursor (back to a space or  *)
(* the start) is compared with the completion table; with exactly one     *)
(* match, and room for it, the rest of the name is inserted at the cursor. *)
(* Several matches are only listed, none does nothing.                    *)
(***************************************************************************)
WordStart(b, pos) ==
    CHOOSE j \in 0..pos :
        /\ j = 0 \/ b[j - 1] = " "
        /\ \A k \in j..(pos - 1) : b[k] # " "

Partial(b, ws, pos) == [k \in 1..(pos - ws) |-> b[ws + k - 1]]

Matching(partial) ==
    {i \in 1..Len(completion_commands) :
        IsPrefix(partial, completion_commands[i])}

InsertedNoShift(b, w, plen, to_add) ==
    [i \in BufIdx |->
        IF cmd_pos <= i /\ i < cmd_pos + to_add
        THEN w[plen + (i - cmd_pos) + 1]
        ELSE b[i]]

\* The characters from the cursor on move to_add cells right, then the
\* rest of the name fills the gap.
Inserted(b, w, plen, to_add) ==
    [i \in BufIdx |->
        IF cmd_pos <= i /\ i < cmd_pos + to_add
        THEN w[plen + (i - cmd_pos) + 1]
        ELSE IF cmd_pos + to_add <= i /\ i <= cmd_len + to_add
             THEN b[i - to_add]
             ELSE b[i]]

CompleteNoRoomCheck(partial, w) ==
    /\ cmd_buffer' = Inserted(cmd_buffer, w, Len(partial),
                              Len(w) - Len(partial))
    /\ cmd_pos' = cmd_pos + (Len(w) - Len(partial))
    /\ cmd_len' = cmd_len + (Len(w) - Len(partial))

Complete(partial, w) ==
    /\ cmd_len + (Len(w) - Len(partial)) < MAX_CMD_LEN - 1
    /\ cmd_buffer' = Inserted(cmd_buffer, w, Len(partial),
                              Len(w) - Len(partial))
    /\ cmd_pos' = cmd_pos + (Len(w) - Len(partial))
    /\ cmd_len' = cmd_len + (Len(w) - Len(partial))

TabComplete(partial) ==
    /\ Cardinality(Matching(partial)) = 1
    /\ Complete(partial,
                completion_commands[CHOOSE i \in Matching(partial) : TRUE])

KeyTab ==
    /\ TabComplete(Partial(cmd_buffer, WordStart(cmd_buffer, cmd_pos),
                           cmd_pos))
    /\ recalled' = FALSE
    /\ UNCHANGED <<history, history_count, history_pos, added>>

\* A printable character while the line has room: the characters from the
\* cursor on move one cell right and c goes in at the cursor.
KeyPrintable(c) ==
    /\ cmd_len < MAX_CMD_LEN - 1
    /\ cmd_buffer' = [i \in BufIdx |->
                        IF i = cmd_pos THEN c
                        ELSE IF i = cmd_len + 1 THEN NUL
                        ELSE IF cmd_pos < i /\ i <= cmd_len
                             THEN cmd_buffer[i - 1]
                             ELSE cmd_buffer[i]]
    /\ cmd_pos' = cmd_pos + 1
    /\ cmd_len' = cmd_len + 1
    /\ recalled' = FALSE
    /\ UNCHANGED <<history, history_count, history_pos, added>>

Next ==
    \/ Enter
    \/ KeyBackspace
    \/ HistoryUp \/ HistoryDown \/ CursorRight \/ CursorLeft
    \/ KeyTab
    \/ \E c \in Chars : KeyPrintable(c)

\* No fairness: the user types when, and what, they like.
Spec == Init /\ [][Next]_vars

(***************************************************************************)
(* Properties.                                                             *)
(***************************************************************************)
\* Characters the buffer can hold: typed ones and those of completions.
BufChars == Chars \cup UNION {ToSet(w) : w \in ToSet(completion_commands)}

TypeOK ==
    /\ cmd_buffer \in [BufIdx -> BufChars \cup {NUL}]
    /\ cmd_len \in 0..(MAX_CMD_LEN - 1)
    /\ cmd_pos \in 0..cmd_len
    /\ history \in [0..(HISTORY_SIZE - 1) -> Seq(BufChars)]
    /\ history_count \in 0..MaxLines
    /\ history_pos \in 0..history_count

\* An arrow shows exactly the line it points at: while history_pos is
\* within the last HISTORY_SIZE stored lines, a line loaded by Up or Down
\* and not edited since is the history_pos-th line stored.  This ties the
\* ring slot add_to_history writes (history_count % HISTORY_SIZE), the
\* slot the arrows read ((history_pos -/+ 1) % HISTORY_SIZE), the moves of
\* history_pos and the copy into cmd_buffer together, over any mix of
\* stored, repeated and empty lines.
HistoryRecallExact ==
    (recalled /\ history_pos >= history_count - HISTORY_SIZE)
        => Line(cmd_buffer, cmd_len) = added[history_pos + 1]

\* read_line and add_to_history implement LineEditor: keys insert and
\* erase at the cursor, arrows move it inside the line, completion fits
\* the buffer, recalled lines are stored ones, and a submitted line is
\* stored unless empty or a repeat of the last.
LE == INSTANCE LineEditor
        WITH line <- Line(cmd_buffer, cmd_len), cursor <- cmd_pos,
             past <- added, Chars <- BufChars, Cap <- MAX_CMD_LEN - 1
LineEditing == LE!Spec
=============================================================================
