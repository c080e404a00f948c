-------------------------------- MODULE Egress --------------------------------
(***************************************************************************)
(* The egress queues of the transport: one ring of copied packets per UDP  *)
(* socket (transport_egress), flushed at the start of every tick, and the  *)
(* send loop of transport_tick, which asks QUIC for a batch only while     *)
(* every socket could queue a whole one.                                   *)
(*                                                                         *)
(* Abstractions.  A packet is its destination, its size and a tag for its  *)
(* bytes.  The kernel accepts any number of the packets of one call, or    *)
(* fails hard on the first one.  A flush is a loop: while `flushing' holds *)
(* a budget nothing else runs.                                             *)
(***************************************************************************)
EXTENDS Integers, Sequences, FiniteSets, FiniteSetsExt, Functions

CONSTANTS
    Sockets,        \* fds of the transport
    Destinations,
    Sizes,          \* packet sizes
    Tags,           \* packet contents
    Capacity,       \* max_egress_packets_per_socket
    ByteLimit,      \* max_egress_bytes_per_socket
    Batch,          \* TRANSPORT_EGRESS_BATCH, and the 64 packets of a send
    MaxPacket       \* largest datagram QUIC writes

ASSUME LimitsAssumption ==
    /\ Capacity \in Nat \ {0} /\ Batch \in Nat \ {0} /\ MaxPacket \in Nat \ {0}
    /\ ByteLimit \in Nat
    /\ Sizes \subseteq 1 .. MaxPacket
\* transport_limits_resolve: each queue holds one send batch
ASSUME BatchFits == Batch <= Capacity /\ Batch * MaxPacket <= ByteLimit

Packets == [dest: Destinations, size: Sizes, tag: Tags]
Empty == [size |-> 0]
Slots == 0 .. Capacity - 1

VARIABLES
    ring,       \* transport_egress_t of each socket
    flushing,   \* the socket being flushed and the budget left
    out,        \* packets the last step handed to the kernel, per socket
    refused     \* a batch was lost because its ring had no room

vars == <<ring, flushing, out, refused>>

Idle == [budget |-> 0]
Ring == [slots: [Slots -> Packets \cup {Empty}], head: Slots, count: Nat, bytes: Nat]

TypeOK ==
    /\ ring \in [Sockets -> Ring]
    /\ \A s \in Sockets : ring[s].count <= Capacity
    /\ flushing = Idle \/ flushing \in [socket: Sockets, budget: 1 .. Batch]
    /\ refused \in BOOLEAN

NewRing == [slots |-> [i \in Slots |-> Empty], head |-> 0, count |-> 0, bytes |-> 0]
Silent == [s \in Sockets |-> <<>>]

Init ==
    /\ ring = [s \in Sockets |-> NewRing]
    /\ flushing = Idle
    /\ out = Silent
    /\ refused = FALSE

-----------------------------------------------------------------------------
(* The ring *)

SlotAt(r, k) == (r.head + k) % Capacity

\* The queued packets, oldest first
Contents(r) == [k \in 1 .. r.count |-> r.slots[SlotAt(r, k - 1)]]

TotalSize(packets) == SumFunction([i \in DOMAIN packets |-> packets[i].size])

\* transport_egress_can_accept
CanAccept(r, packets, bytes) ==
    packets <= Capacity - r.count /\ bytes <= ByteLimit - r.bytes

\* Packets copied behind the last one
Pushed(r, packets) ==
    [r EXCEPT !.slots = [i \in Slots |->
                           LET k == (i - r.head - r.count) % Capacity
                           IN  IF k < Len(packets) THEN packets[k + 1] ELSE @[i]],
              !.count = @ + Len(packets),
              !.bytes = @ + TotalSize(packets)]

\* Faulty variant: the rollback forgets the bytes.
Unpushed_KeepsBytes(r, n) ==
    [r EXCEPT !.slots = [i \in Slots |->
                           IF (i - r.head) % Capacity \in r.count - n .. r.count - 1
                           THEN Empty ELSE @[i]],
              !.count = @ - n]

\* The last n packets are taken back when a copy cannot be allocated.
Unpushed(r, n) ==
    [r EXCEPT !.slots = [i \in Slots |->
                           IF (i - r.head) % Capacity \in r.count - n .. r.count - 1
                           THEN Empty ELSE @[i]],
              !.count = @ - n,
              !.bytes = @ - TotalSize(SubSeq(Contents(r), r.count - n + 1, r.count))]

\* The first n packets leave.
Popped(r, n) ==
    [r EXCEPT !.slots = [i \in Slots |->
                           IF (i - r.head) % Capacity < n THEN Empty ELSE @[i]],
              !.head = (@ + n) % Capacity,
              !.count = @ - n,
              !.bytes = @ - TotalSize(SubSeq(Contents(r), 1, n))]

-----------------------------------------------------------------------------
(* Submitting a batch *)

\* queue_remaining for the packets the kernel did not take; `copies' of them
\* can be allocated
QueueRemaining(s, packets, copies) ==
    LET room == CanAccept(ring[s], Len(packets), TotalSize(packets)) IN
    /\ refused' = (refused \/ ~room)
    /\ ring' = [ring EXCEPT ![s] =
                  IF ~room THEN @
                  ELSE IF copies < Len(packets)
                  THEN Unpushed(Pushed(@, SubSeq(packets, 1, copies)), copies)
                  ELSE Pushed(@, packets)]

\* Faulty variant: the kernel is tried even with packets waiting.
Submit_Overtakes(s, batch, taken, copies) ==
    /\ out' = [Silent EXCEPT ![s] = SubSeq(batch, 1, taken)]
    /\ QueueRemaining(s, SubSeq(batch, taken + 1, Len(batch)), copies)

\* transport_egress_submit.  With nothing queued the kernel is tried first;
\* `taken' is what it accepts.
Submit(s, batch, taken, copies) ==
    /\ ring[s].count > 0 => taken = 0
    /\ out' = [Silent EXCEPT ![s] = SubSeq(batch, 1, taken)]
    /\ QueueRemaining(s, SubSeq(batch, taken + 1, Len(batch)), copies)

\* A hard error of the first attempt loses the batch.
SubmitFails(s) ==
    /\ ring[s].count = 0
    /\ out' = Silent
    /\ UNCHANGED <<ring, refused>>

\* Faulty variant: only one socket is tested.
AllHaveRoom_Any == \E s \in Sockets : CanAccept(ring[s], Batch, Batch * MaxPacket)

\* The test before each quicly_send of the tick
AllHaveRoom == \A s \in Sockets : CanAccept(ring[s], Batch, Batch * MaxPacket)

\* One quicly_send of transport_tick: a batch for one destination, on the
\* socket of its source address
SendBatch(s, dest, batch) ==
    /\ flushing = Idle
    /\ AllHaveRoom
    /\ \A i \in DOMAIN batch : batch[i].dest = dest
    /\ \/ \E taken \in 0 .. Len(batch), copies \in 0 .. Len(batch) :
            Submit(s, batch, taken, copies)
       \/ SubmitFails(s)
    /\ UNCHANGED flushing

-----------------------------------------------------------------------------
(* Flushing *)

FlushBegin(s) ==
    /\ flushing = Idle
    /\ ring[s].count > 0
    /\ flushing' = [socket |-> s, budget |-> Batch]
    /\ out' = Silent
    /\ UNCHANGED <<ring, refused>>

\* The leading packets that share a destination, within the budget
Compatible(r, budget) ==
    LET packets == Contents(r)
        most    == IF r.count < budget THEN r.count ELSE budget
    IN  Max({n \in 1 .. most :
               \A i \in 1 .. n : packets[i].dest = packets[1].dest})

\* One transport_udp_send_batch of the loop; a short send ends the flush.
FlushSend(s, sent) ==
    LET n    == Compatible(ring[s], flushing.budget)
        left == flushing.budget - sent
    IN
    /\ sent <= n
    /\ ring' = [ring EXCEPT ![s] = Popped(@, sent)]
    /\ out' = [Silent EXCEPT ![s] = SubSeq(Contents(ring[s]), 1, sent)]
    /\ flushing' = IF sent < n \/ ring[s].count = sent \/ left = 0
                   THEN Idle ELSE [flushing EXCEPT !.budget = left]
    /\ UNCHANGED refused

\* Faulty variant: the packet that failed stays at the head.
FlushError_Retains(s) ==
    /\ out' = Silent
    /\ flushing' = Idle
    /\ UNCHANGED <<ring, refused>>

\* A hard error drops the first packet and the loop goes on.
FlushError(s) ==
    /\ ring' = [ring EXCEPT ![s] = Popped(@, 1)]
    /\ out' = Silent
    /\ flushing' = IF ring[s].count = 1 \/ flushing.budget = 1
                   THEN Idle ELSE [flushing EXCEPT !.budget = @ - 1]
    /\ UNCHANGED refused

FlushStep(s) ==
    /\ flushing # Idle
    /\ flushing.socket = s
    /\ \/ \E sent \in 0 .. Batch : FlushSend(s, sent)
       \/ FlushError(s)

-----------------------------------------------------------------------------
(* Specification *)

Batches == UNION {[1 .. n -> Packets] : n \in 1 .. Batch}

Next ==
    \/ \E s \in Sockets, dest \in Destinations, batch \in Batches :
          SendBatch(s, dest, batch)
    \/ \E s \in Sockets : FlushBegin(s) \/ FlushStep(s)

Spec == Init /\ [][Next]_vars

\* Every tick flushes every socket, and a kernel that is asked again and
\* again takes a packet or fails on it.
Fairness ==
    \A s \in Sockets :
        /\ WF_vars(FlushStep(s))
        /\ SF_vars(FlushBegin(s))
        /\ SF_vars(/\ flushing # Idle /\ flushing.socket = s
                   /\ \/ \E sent \in 1 .. Batch : FlushSend(s, sent)
                      \/ FlushError(s))

FairSpec == Spec /\ Fairness

-----------------------------------------------------------------------------
(* Properties *)

\* Packets are stored exactly in the window of the ring, and the byte count
\* is theirs, over wrap-around, rollback and dropped packets.
RingExact ==
    \A s \in Sockets :
        LET r == ring[s] IN
        /\ \A i \in Slots :
             (r.slots[i] # Empty) <=> ((i - r.head) % Capacity < r.count)
        /\ r.bytes = TotalSize(Contents(r))
        /\ r.bytes <= ByteLimit

\* No batch that QUIC produced is lost for want of room: the send loop stops
\* before the ring of any socket could overflow.
NeverRefused == ~refused

\* The rings implement the queues of EgressFifo.
Fifo == INSTANCE EgressFifo WITH waiting <- [s \in Sockets |-> Contents(ring[s])]
ImplementsFifo == Fifo!Spec

\* A full ring makes room again, also when the kernel fails on its head.
QueueDrains ==
    \A s \in Sockets : ring[s].count = Capacity ~> ring[s].count < Capacity

=============================================================================
