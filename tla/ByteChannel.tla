----------------------------- MODULE ByteChannel -----------------------------
(***************************************************************************)
(* What a SimpleOS pipe promises (spec.md 4.10, 8): a bounded FIFO of      *)
(* bytes per pipe.  A write adds a byte at the end while fewer than Cap    *)
(* are buffered; a read hands the oldest byte to the reader.  "out" is     *)
(* everything readers have received from the pipe, in order.               *)
(***************************************************************************)
EXTENDS Naturals, Sequences

CONSTANTS Pipes, Data, Cap

VARIABLES chan, out

TypeOK ==
    /\ chan \in [Pipes -> Seq(Data)]
    /\ out \in [Pipes -> Seq(Data)]

Init ==
    /\ chan = [pp \in Pipes |-> <<>>]
    /\ out = [pp \in Pipes |-> <<>>]

Send(pp, d) ==
    /\ Len(chan[pp]) < Cap
    /\ chan' = [chan EXCEPT ![pp] = Append(@, d)]
    /\ UNCHANGED out

Recv(pp) ==
    /\ chan[pp] # <<>>
    /\ out' = [out EXCEPT ![pp] = Append(@, Head(chan[pp]))]
    /\ chan' = [chan EXCEPT ![pp] = Tail(@)]

Next == \E pp \in Pipes : Recv(pp) \/ \E d \in Data : Send(pp, d)

Spec == Init /\ [][Next]_<<chan, out>>
=============================================================================
