------------------------------ MODULE EgressFifo ------------------------------
(***************************************************************************)
(* What transport_egress promises the transport for every UDP socket: the  *)
(* packets of a batch go to the kernel at once, wait behind the packets    *)
(* submitted before them, or are lost together with the rest of the batch. *)
(* No packet overtakes another, is sent twice, or is lost after it was     *)
(* queued except by a hard error of the kernel.                            *)
(***************************************************************************)
EXTENDS Integers, Sequences

CONSTANTS Sockets, Packets, Batch

VARIABLES
    waiting,    \* packets kept for each socket, in submission order
    out         \* packets the last step handed to the kernel, per socket

vars == <<waiting, out>>

Prefix(seq, n) == SubSeq(seq, 1, n)
Suffix(seq, n) == SubSeq(seq, n + 1, Len(seq))

Batches == UNION {[1 .. n -> Packets] : n \in 1 .. Batch}

Init ==
    /\ waiting = [s \in Sockets |-> <<>>]
    /\ out = [s \in Sockets |-> <<>>]

Silent == [s \in Sockets |-> <<>>]

\* A batch is submitted: n packets go straight to the kernel, which is only
\* allowed with nothing waiting; the rest waits or is lost.
Submit(s, batch, n, kept) ==
    /\ n > 0 => waiting[s] = <<>>
    /\ out' = [Silent EXCEPT ![s] = Prefix(batch, n)]
    /\ waiting' = [waiting EXCEPT ![s] = IF kept THEN @ \o Suffix(batch, n) ELSE @]

\* Waiting packets go to the kernel, oldest first.
Send(s, n) ==
    /\ out' = [Silent EXCEPT ![s] = Prefix(waiting[s], n)]
    /\ waiting' = [waiting EXCEPT ![s] = Suffix(@, n)]

\* The kernel refuses the oldest packet for good.
Discard(s) ==
    /\ waiting[s] # <<>>
    /\ out' = Silent
    /\ waiting' = [waiting EXCEPT ![s] = Tail(@)]

Quiet == out' = Silent /\ UNCHANGED waiting

Next ==
    \/ \E s \in Sockets, batch \in Batches, kept \in BOOLEAN :
          \E n \in 0 .. Len(batch) : Submit(s, batch, n, kept)
    \/ \E s \in Sockets : \E n \in 0 .. Len(waiting[s]) : Send(s, n)
    \/ \E s \in Sockets : Discard(s)
    \/ Quiet

Spec == Init /\ [][Next]_vars

=============================================================================
