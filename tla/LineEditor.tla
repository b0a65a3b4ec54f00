----------------------------- MODULE LineEditor -----------------------------
(***************************************************************************)
(* What an interactive shell's line editing promises its user: a line of   *)
(* at most Cap characters with a cursor in it.  Characters are inserted    *)
(* and erased at the cursor, the cursor moves left and right inside the    *)
(* line, a line submitted earlier can be brought back, and the line is     *)
(* submitted.  The history keeps every submitted line that is not empty   *)
(* and not a repeat of the line submitted just before it.                  *)
(*                                                                         *)
(* ShellLine checks that shell_v2's read_line and history ring implement   *)
(* this, through INSTANCE ... WITH.  Insert does not choose the inserted   *)
(* characters: it says how the new line relates to the old one, so the   *)
(* module is used as a property and not run on its own.                    *)
(***************************************************************************)
EXTENDS Naturals, Sequences, SequencesExt

CONSTANTS Chars, Cap

VARIABLES line, cursor, past

vars == <<line, cursor, past>>

Init ==
    /\ line = <<>>
    /\ cursor = 0
    /\ past = <<>>

\* One or more characters go in at the cursor, which ends up after them.
Insert ==
    \E n \in 1..(Cap - Len(line)) :
        /\ cursor' = cursor + n
        /\ line' \in Seq(Chars)
        /\ Len(line') = Len(line) + n
        /\ SubSeq(line', 1, cursor) = SubSeq(line, 1, cursor)
        /\ SubSeq(line', cursor + n + 1, Len(line'))
               = SubSeq(line, cursor + 1, Len(line))
        /\ UNCHANGED past

\* The character before the cursor goes.
Erase ==
    /\ cursor > 0
    /\ line' = RemoveAt(line, cursor)
    /\ cursor' = cursor - 1
    /\ UNCHANGED past

MoveLeft ==
    /\ cursor > 0
    /\ cursor' = cursor - 1
    /\ UNCHANGED <<line, past>>

MoveRight ==
    /\ cursor < Len(line)
    /\ cursor' = cursor + 1
    /\ UNCHANGED <<line, past>>

\* A line of the history, or the empty line, replaces the line; the cursor
\* goes to its end.
Recall ==
    \E l \in ToSet(past) \cup {<<>>} :
        /\ line' = l
        /\ cursor' = Len(l)
        /\ UNCHANGED past

Submit ==
    /\ line' = <<>>
    /\ cursor' = 0
    /\ past' = IF line = <<>> \/ (past # <<>> /\ Last(past) = line)
               THEN past
               ELSE Append(past, line)

Next == Insert \/ Erase \/ MoveLeft \/ MoveRight \/ Recall \/ Submit

Spec == Init /\ [][Next]_vars
=============================================================================
