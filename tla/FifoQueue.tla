------------------------------ MODULE FifoQueue ------------------------------
(***************************************************************************)
(* Abstract specification of the scheduler's ready queue (spec.md 3, 4.4): *)
(* a FIFO of distinct PCBs with O(1) push at the tail, pop at the head and *)
(* removal of an arbitrary member.  The intrusive doubly-linked list of    *)
(* src/src/kernel/process.c (module ReadyQueue) is shown to implement it.  *)
(***************************************************************************)
EXTENDS Sequences, SequencesExt

CONSTANT Procs          \* PCB handles that may be queued

VARIABLE queue          \* the queue contents, head first

Members == ToSet(queue)

TypeOK == queue \in Seq(Procs)

Init == queue = <<>>

\* A PCB that is not queued joins at the tail.
Enqueue(p) ==
    /\ p \notin Members
    /\ queue' = Append(queue, p)

\* The head leaves the queue.
Dequeue ==
    /\ queue # <<>>
    /\ queue' = Tail(queue)

\* Any member leaves the queue; the others keep their order.
Delete(p) ==
    /\ p \in Members
    /\ queue' = Remove(queue, p)

\* In one atomic step a PCB that is not queued joins at the tail and the
\* head leaves (the scheduler putting the running process back and taking
\* the next one).
Requeue(p) ==
    /\ p \notin Members
    /\ queue' = Tail(Append(queue, p))

Next ==
    \/ \E p \in Procs : Enqueue(p)
    \/ Dequeue
    \/ \E p \in Procs : Requeue(p)
    \/ \E p \in Procs : Delete(p)

Spec == Init /\ [][Next]_queue
=============================================================================
