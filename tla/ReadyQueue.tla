----------------------------- MODULE ReadyQueue -----------------------------
(***************************************************************************)
(* The scheduler's ready queue, src/src/kernel/process.c lines 21-68: an   *)
(* intrusive doubly-linked list threaded through the PCBs' next/prev       *)
(* fields, with the globals ready_queue_head and ready_queue_tail.  A      *)
(* queue value is a record                                                 *)
(*   [head, tail : Procs \cup {NoProc}, next, prev : [Procs -> ...]]       *)
(* and ready_queue_push, ready_queue_remove and ready_queue_pop are        *)
(* operators on it, so that ProcSched can apply them inside its actions.   *)
(* ProcSched checks, with its own actions, that the list stays well      *)
(* formed and that walking it implements FifoQueue.                        *)
(***************************************************************************)
EXTENDS Naturals, Sequences, SequencesExt, FiniteSets, Functions

CONSTANTS Procs,        \* PCB handles (process_t* values)
          NoProc        \* the NULL pointer

VARIABLE rq             \* the list: head, tail and every PCB's links

Link == Procs \cup {NoProc}

\* Initial state: both globals NULL; kzalloc'd PCBs have NULL links.
EmptyQueue == [head |-> NoProc, tail |-> NoProc,
               next |-> [p \in Procs |-> NoProc],
               prev |-> [p \in Procs |-> NoProc]]

\* A store through a link that the code guards with "if (x)": no store
\* when x is NULL.
StoreLink(f, x, v) == IF x = NoProc THEN f ELSE [f EXCEPT ![x] = v]

\* ready_queue_remove that forgets "proc->next->prev = proc->prev".
RemoveKeepPrev(q, p) ==
    LET n == q.next[p]
        b == q.prev[p]
    IN [q EXCEPT !.next = [StoreLink(q.next, b, n) EXCEPT ![p] = NoProc],
                 !.prev[p] = NoProc,
                 !.head = IF b = NoProc THEN n ELSE q.head,
                 !.tail = IF n = NoProc THEN b ELSE q.tail]

(***************************************************************************)
(* The list operations.                                                    *)
(***************************************************************************)
\* ready_queue_push: proc->next = NULL; proc->prev = tail; link it after
\* the tail (or make it the head); tail = proc.
ready_queue_push(q, p) ==
    [q EXCEPT !.next = StoreLink([q.next EXCEPT ![p] = NoProc], q.tail, p),
              !.prev[p] = q.tail,
              !.head = IF q.tail = NoProc THEN p ELSE q.head,
              !.tail = p]

\* ready_queue_remove: unlink proc from its neighbours (or move head/tail)
\* and clear its own links.
ready_queue_remove(q, p) ==
    LET n == q.next[p]
        b == q.prev[p]
    IN [q EXCEPT !.next = [StoreLink(q.next, b, n) EXCEPT ![p] = NoProc],
                 !.prev = [StoreLink(q.prev, n, b) EXCEPT ![p] = NoProc],
                 !.head = IF b = NoProc THEN n ELSE q.head,
                 !.tail = IF n = NoProc THEN b ELSE q.tail]

\* ready_queue_pop: remove and return the head, NULL when empty.
ready_queue_head(q) == q.head
ready_queue_pop(q) == IF q.head # NoProc THEN ready_queue_remove(q, q.head) ELSE q

(***************************************************************************)
(* Reading the list.                                                       *)
(***************************************************************************)
\* The PCBs met following next links from p, at most n of them.
RECURSIVE Walk(_, _, _)
Walk(q, p, n) ==
    IF p = NoProc \/ n = 0 THEN <<>>
    ELSE <<p>> \o Walk(q, q.next[p], n - 1)

\* The queue as seen from ready_queue_head.  One step more than there are
\* PCBs, so that a cycle shows up as a repeated element.
Contents(q) == Walk(q, q.head, Cardinality(Procs) + 1)

Queued(q) == ToSet(Contents(q))

\* The list is a proper doubly-linked list from head to tail, and a PCB
\* that is not on it has NULL links.
WellFormed(q) ==
    LET s == Contents(q) IN
    /\ IsInjective(s)
    /\ (s = <<>>) = (q.head = NoProc)
    /\ q.tail = IF s = <<>> THEN NoProc ELSE Last(s)
    /\ \A i \in 1..Len(s) : q.prev[s[i]] = IF i = 1 THEN NoProc ELSE s[i - 1]
    /\ \A p \in Procs \ ToSet(s) : q.next[p] = NoProc /\ q.prev[p] = NoProc

QueueType(q) ==
    /\ q.head \in Link /\ q.tail \in Link
    /\ q.next \in [Procs -> Link] /\ q.prev \in [Procs -> Link]
====
