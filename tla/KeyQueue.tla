------------------------------ MODULE KeyQueue ------------------------------
(***************************************************************************)
(* What the keyboard source port promises (spec.md line "Keyboard source  *)
(* port"): the bytes of each key pressed go, in order, into a            *)
(* bounded queue of Cap bytes from which readers take bytes at the head.  *)
(* With Whole, a key's bytes (an arrow's ESC [ X) are queued all or not   *)
(* at all; without it, the longest prefix that fits is queued.  got holds *)
(* the bytes the last read took.                                          *)
(***************************************************************************)
EXTENDS Naturals, Sequences

CONSTANTS
    Cap,        \* bytes the queue holds
    Encodings,  \* the byte strings a key press queues
    Whole       \* TRUE: a key's bytes are queued all or none

VARIABLES queue, got

Room == Cap - Len(queue)

\* The part of s that a key press adds.
Accepted(s) ==
    IF Whole THEN IF Len(s) <= Room THEN s ELSE <<>>
    ELSE SubSeq(s, 1, IF Len(s) <= Room THEN Len(s) ELSE Room)

Init ==
    /\ queue = <<>>
    /\ got = <<>>

Press(s) ==
    /\ queue' = queue \o Accepted(s)
    /\ UNCHANGED got

Take(n) ==
    /\ got' = SubSeq(queue, 1, n)
    /\ queue' = SubSeq(queue, n + 1, Len(queue))

Next ==
    \/ \E s \in Encodings : Press(s)
    \/ \E n \in 0..Len(queue) : Take(n)

Spec == Init /\ [][Next]_<<queue, got>>
====
