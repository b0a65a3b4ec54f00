-------------------------------- MODULE MCKHeap --------------------------------
(* Model-checking instance of KHeap: a 128-byte arena (room for four        *)
(* chunks of 8 bytes) and requests that exercise alignment (1 -> 8), exact   *)
(* fits and splits (16) and a chunk too big to split next to (40).          *)
EXTENDS KHeap
=============================================================================
