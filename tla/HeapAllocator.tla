---------------------------- MODULE HeapAllocator ----------------------------
(***************************************************************************)
(* What the kernel heap promises its callers (spec 4.2): kmalloc(n)        *)
(* returns an 8-byte-aligned region of at least n bytes inside the arena   *)
(* that overlaps no live allocation; kfree ends an allocation and touches  *)
(* no other; krealloc to a larger size moves the data to a new region that *)
(* overlaps neither the live allocations nor the old region it copies      *)
(* from, and to a size that fits keeps the region where it is.             *)
(***************************************************************************)
EXTENDS Naturals, TLC

CONSTANTS
    ArenaSize,  \* bytes in the arena
    Requests    \* sizes callers pass

VARIABLE regions    \* regions[p]: length of the live allocation at offset p

Ptrs == {p \in 0..(ArenaSize - 1) : p % 8 = 0}
Lens == {l \in 1..ArenaSize : l % 8 = 0}

Span(p, len) == p..(p + len - 1)

\* Region [p, p + len) lies in the arena and overlaps none of rs.
FreeRegion(p, len, rs) ==
    /\ p + len <= ArenaSize
    /\ \A q \in DOMAIN rs : Span(p, len) \cap Span(q, rs[q]) = {}

Without(rs, p) == [q \in DOMAIN rs \ {p} |-> rs[q]]

Init == regions = [p \in {} |-> 0]

Malloc ==
    \E n \in Requests, p \in Ptrs, len \in Lens :
        /\ len >= n
        /\ FreeRegion(p, len, regions)
        /\ regions' = (p :> len) @@ regions

Free ==
    \E p \in DOMAIN regions : regions' = Without(regions, p)

\* The grown region is disjoint from the old one too: the bytes are copied
\* from the old region into the new one.
Realloc ==
    \E p \in DOMAIN regions, n \in Requests, q \in Ptrs, len \in Lens :
        /\ n > regions[p] /\ len >= n
        /\ FreeRegion(q, len, regions)
        /\ regions' = (q :> len) @@ Without(regions, p)

Next == Malloc \/ Free \/ Realloc

Spec == Init /\ [][Next]_regions
=============================================================================
