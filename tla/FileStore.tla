------------------------------ MODULE FileStore ------------------------------
(***************************************************************************)
(* What the file calls promise (spec 4.8, 4.9): each file is a sequence of *)
(* bytes.  A write at an offset within the file overwrites and extends it  *)
(* with a non-empty prefix of the caller's data (a short write when space  *)
(* runs out); a read at an offset returns the bytes stored from there, at  *)
(* most as many as asked; creating a file adds an empty one.  got holds    *)
(* the bytes the last read returned.                                       *)
(***************************************************************************)
EXTENDS Integers, Sequences, TLC

CONSTANTS
    Keys,       \* file identities
    WriteData,  \* the byte strings callers write
    ReadCounts  \* the byte counts callers read

VARIABLES contents, got

Overwrite(s, off, d) ==
    [i \in 1..IF off + Len(d) > Len(s) THEN off + Len(d) ELSE Len(s) |->
        IF i > off /\ i <= off + Len(d) THEN d[i - off] ELSE s[i]]

Init ==
    /\ DOMAIN contents \subseteq Keys
    /\ got = <<>>

Create ==
    \E k \in Keys \ DOMAIN contents :
        /\ contents' = (k :> <<>>) @@ contents
        /\ UNCHANGED got

Write ==
    \E k \in DOMAIN contents, d \in WriteData :
        \E off \in 0..Len(contents[k]), m \in 1..Len(d) :
            /\ contents' = [contents EXCEPT ![k] = Overwrite(@, off, SubSeq(d, 1, m))]
            /\ UNCHANGED got

Read ==
    \E k \in DOMAIN contents, n \in ReadCounts :
        \E off \in 0..Len(contents[k]) :
            /\ got' = SubSeq(contents[k], off + 1,
                             IF off + n < Len(contents[k]) THEN off + n
                             ELSE Len(contents[k]))
            /\ UNCHANGED contents

Next == Create \/ Write \/ Read

Spec == Init /\ [][Next]_<<contents, got>>
====
