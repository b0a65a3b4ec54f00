----------------------------- MODULE MCProcSched -----------------------------
(* Model-checking instance of ProcSched.  MCProcs: the idle PCB and three   *)
(* more handles.                                                            *)
EXTENDS ProcSched

CONSTANTS p0, p1, p2, p3

MCProcs == {p0, p1, p2, p3}
=============================================================================
