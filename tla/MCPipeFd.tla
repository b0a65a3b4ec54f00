------------------------------- MODULE MCPipeFd -------------------------------
(* Model-checking instance of PipeFd: two processes, two pipe allocations, *)
(* a 2-byte ring and five fds (2 beyond the console ones, so that a second *)
(* pipe call runs out of fds).                                              *)
EXTENDS PipeFd

CONSTANTS pA, pB, q1, q2
=============================================================================
