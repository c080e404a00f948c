----------------------------- MODULE StreamBudget -----------------------------
(***************************************************************************)
(* Retained stream storage (transport_stream): every frame written to a    *)
(* reliable stream stays allocated until QUIC acknowledges it, charged to  *)
(* its stream and to the transport together with the capacity of the       *)
(* stream's send vector.  Application data and repair requests stop short  *)
(* of a reserve kept for essential control; an essential frame that cannot *)
(* be retained closes its connection.                                      *)
(*                                                                         *)
(* A publication on a reliable track first preflights every recipient and  *)
(* then writes them one by one, all on the owner thread: while `batch' is  *)
(* not empty nothing else runs.                                            *)
(*                                                                         *)
(* Abstractions.  A connection has its control stream and the stream of    *)
(* one reliable track.  A frame is its kind, an id that tells NACKs apart, *)
(* and the bytes charged for it (header included).  A partial ACK leaves   *)
(* the whole frame charged, so only released frames are counted.           *)
(***************************************************************************)
EXTENDS Integers, Sequences, FiniteSets, FiniteSetsExt, SequencesExt

CONSTANTS
    Conns,              \* connections of the transport
    NackIds,            \* objects a NACK may ask for
    DataSizes,          \* bytes charged for an application frame
    NackSize,           \* ... a NACK frame
    ControlSize,        \* ... an essential control frame
    VectorSize,         \* sizeof(quicly_sendbuf_vec_t)
    FirstVectors,       \* first capacity of a send vector
    StreamLimit,        \* max_stream_egress_bytes
    EndpointLimit,      \* max_total_stream_egress_bytes
    VectorLimit,        \* TRANSPORT_STREAM_ENDPOINT_MAX_VECTORS
    MinFrameBytes,      \* TRANSPORT_STREAM_MIN_FRAME_ACCOUNTING_BYTES
    ControlByteReserve, ControlFrameReserve,    \* of a control stream
    EndpointByteReserve, VectorReserve          \* of the transport

ASSUME SizesAssumption ==
    /\ IsFiniteSet(Conns)
    /\ DataSizes \subseteq Nat \ {0}
    /\ NackSize \in Nat \ {0} /\ ControlSize \in Nat \ {0}
    /\ VectorSize \in Nat \ {0} /\ FirstVectors \in Nat \ {0}

\* transport_limits_resolve rejects budgets without room for the reserves.
ASSUME LimitsAssumption ==
    /\ StreamLimit \in Nat /\ EndpointLimit \in Nat
    /\ ControlByteReserve \in Nat /\ EndpointByteReserve \in Nat
    /\ ControlFrameReserve \in Nat /\ VectorReserve \in Nat
    /\ VectorLimit \in Nat /\ VectorReserve <= VectorLimit
    /\ ControlByteReserve <= StreamLimit
    /\ MinFrameBytes \in Nat \ {0}
    /\ \A size \in DataSizes : size + ControlByteReserve <= StreamLimit
    /\ StreamLimit + EndpointByteReserve <= EndpointLimit
    /\ ControlFrameReserve <= StreamLimit \div MinFrameBytes
    /\ ControlFrameReserve <= VectorLimit

VARIABLES
    queue,      \* frames retained by each stream, oldest first
    capacity,   \* vecs.capacity of each stream
    retained,   \* retained_frame_bytes of each stream
    bytes,      \* stats.stream_egress_bytes
    vectors,    \* stats.stream_egress_vector_capacity
    frames,     \* stats.stream_egress_frames
    open,       \* connections not closing
    batch       \* the publication being written: recipients left, frame size

vars == <<queue, capacity, retained, bytes, vectors, frames, open, batch>>

Control(c) == <<c, "control">>
Track(c)   == <<c, "track">>
Streams    == Conns \X {"control", "track"}
IsControl(s) == s[2] = "control"

Data(size)  == [kind |-> "data", id |-> 0, size |-> size]
NackFrame(id) == [kind |-> "nack", id |-> id, size |-> NackSize]
Essential   == [kind |-> "control", id |-> 0, size |-> ControlSize]
Frame == [kind: {"data", "nack", "control"}, id: NackIds \cup {0}, size: Nat]

NoBatch == [to |-> {}, size |-> 0]

TypeOK ==
    /\ queue \in [Streams -> Seq(Frame)]
    /\ capacity \in [Streams -> Nat]
    /\ \A s \in Streams : Len(queue[s]) <= capacity[s]
    /\ retained \in [Streams -> Nat]
    /\ bytes \in Nat /\ vectors \in Nat /\ frames \in Nat
    /\ open \subseteq Conns
    /\ batch \in [to: SUBSET Conns, size: Nat]

Init ==
    /\ queue = [s \in Streams |-> <<>>]
    /\ capacity = [s \in Streams |-> 0]
    /\ retained = [s \in Streams |-> 0]
    /\ bytes = 0 /\ vectors = 0 /\ frames = 0
    /\ open = Conns
    /\ batch = NoBatch

-----------------------------------------------------------------------------
(* Admission *)

\* vector_growth: a full vector doubles
Growth(s) ==
    IF Len(queue[s]) < capacity[s] THEN 0
    ELSE IF capacity[s] > 0 THEN capacity[s] ELSE FirstVectors

Cost(s, size) == size + Growth(s) * VectorSize

StreamBytes(s) == retained[s] + capacity[s] * VectorSize

FrameLimit ==
    IF StreamLimit \div MinFrameBytes > VectorLimit THEN VectorLimit
    ELSE StreamLimit \div MinFrameBytes

\* Faulty variant: the growth of the vector is not part of the cost.
StreamAccepts_NoGrowth(s, size, preserve) ==
    LET reserved == preserve /\ IsControl(s) IN
    /\ s[1] \in open
    /\ Len(queue[s]) < FrameLimit - (IF reserved THEN ControlFrameReserve ELSE 0)
    /\ StreamBytes(s) + size
          <= StreamLimit - (IF reserved THEN ControlByteReserve ELSE 0)

\* The stream's own limits in stream_can_accept_reserved
StreamAccepts(s, size, preserve) ==
    LET reserved == preserve /\ IsControl(s) IN
    /\ s[1] \in open
    /\ Len(queue[s]) < FrameLimit - (IF reserved THEN ControlFrameReserve ELSE 0)
    /\ StreamBytes(s) + Cost(s, size)
          <= StreamLimit - (IF reserved THEN ControlByteReserve ELSE 0)

\* Faulty variant: the reserves are ignored.
EndpointAccepts_NoReserve(extraBytes, extraVectors, preserve) ==
    /\ bytes + extraBytes <= EndpointLimit
    /\ vectors + extraVectors <= VectorLimit

\* The transport's limits in stream_can_accept_reserved
EndpointAccepts(extraBytes, extraVectors, preserve) ==
    /\ bytes + extraBytes
          <= EndpointLimit - (IF preserve THEN EndpointByteReserve ELSE 0)
    /\ vectors + extraVectors
          <= VectorLimit - (IF preserve THEN VectorReserve ELSE 0)

\* transport_stream_can_accept
CanAccept(s, size, preserve) ==
    /\ StreamAccepts(s, size, preserve)
    /\ EndpointAccepts(Cost(s, size), Growth(s), preserve)

\* Faulty variant: every recipient is tested against the same budget.
CanAcceptBatch_NotAccumulated(to, size) ==
    \A c \in to : CanAccept(Track(c), size, TRUE)

\* transport_stream_can_accept_batch over all recipients, on distinct streams:
\* the endpoint budget accumulates.
CanAcceptBatch(to, size) ==
    /\ \A c \in to : StreamAccepts(Track(c), size, TRUE)
    /\ EndpointAccepts(SumFunction([c \in to |-> Cost(Track(c), size)]),
                       SumFunction([c \in to |-> Growth(Track(c))]), TRUE)

-----------------------------------------------------------------------------
(* Writing *)

\* The frame is appended and charged, with the growth of the vector.
Retain(s, frame) ==
    /\ queue' = [queue EXCEPT ![s] = Append(@, frame)]
    /\ capacity' = [capacity EXCEPT ![s] = @ + Growth(s)]
    /\ retained' = [retained EXCEPT ![s] = @ + frame.size]
    /\ bytes' = bytes + Cost(s, frame.size)
    /\ vectors' = vectors + Growth(s)
    /\ frames' = frames + 1

NothingRetained == UNCHANGED <<queue, capacity, retained, bytes, vectors, frames>>

\* write_failed for an essential frame
Close(c) == open' = open \ {c}

\* The outcomes of transport_stream_write_parts for an admitted frame: it is
\* written; memory runs out before it is appended; or the send state cannot
\* be updated after it was, which closes the connection.
Outcomes == {"written", "no_memory", "no_send_state"}

\* transport_stream_write_parts of an application frame; a refusal is
\* reported to the caller and leaves everything as it was
WriteData(s, frame, outcome) ==
    /\ CanAccept(s, frame.size, TRUE)
    /\ IF outcome = "no_memory" THEN NothingRetained ELSE Retain(s, frame)
    /\ IF outcome = "no_send_state" THEN Close(s[1]) ELSE UNCHANGED open

\* transport_stream_write_parts of any other frame: not to retain it closes
\* the connection
WriteControl(c, frame, outcome) ==
    /\ IF CanAccept(Control(c), frame.size, FALSE) /\ outcome # "no_memory"
       THEN Retain(Control(c), frame)
       ELSE NothingRetained
    /\ IF CanAccept(Control(c), frame.size, FALSE) /\ outcome = "written"
       THEN UNCHANGED open ELSE Close(c)

\* HELLO, SUBSCRIBE, authentication, checkpoints and track ends
SendEssential(c, outcome) ==
    /\ batch = NoBatch
    /\ c \in open
    /\ WriteControl(c, Essential, outcome)
    /\ UNCHANGED batch

\* A checkpoint ACK waits for room instead of closing the connection.
SendAck(c, outcome) ==
    /\ batch = NoBatch
    /\ CanAccept(Control(c), ControlSize, FALSE)
    /\ WriteControl(c, Essential, outcome)
    /\ UNCHANGED batch

\* transport_stream_has_retained_frame
HasRetainedFrame(s, frame) == Contains(queue[s], frame)

\* transport_protocol_send_nack: coalesced, deferred, or written
SendNack(c, id, outcome) ==
    /\ batch = NoBatch
    /\ ~HasRetainedFrame(Control(c), NackFrame(id))
    /\ CanAccept(Control(c), NackSize, TRUE)
    /\ WriteControl(c, NackFrame(id), outcome)
    /\ UNCHANGED batch

\* transport_send_unicast
SendUnicast(c, size, outcome) ==
    /\ batch = NoBatch
    /\ WriteData(Control(c), Data(size), outcome)
    /\ UNCHANGED batch

\* The preflight of a reliable publication
PublishReliable(to, size) ==
    /\ batch = NoBatch
    /\ to # {}
    /\ to \subseteq open
    /\ CanAcceptBatch(to, size)
    /\ batch' = [to |-> to, size |-> size]
    /\ UNCHANGED <<queue, capacity, retained, bytes, vectors, frames, open>>

\* One write of the publication; a failure ends it (PARTIAL or ERROR).
WriteRecipient(c, outcome) ==
    /\ c \in batch.to
    /\ IF CanAccept(Track(c), batch.size, TRUE)
       THEN WriteData(Track(c), Data(batch.size), outcome)
       ELSE NothingRetained /\ UNCHANGED open
    /\ batch' = IF /\ batch.to # {c}
                   /\ CanAccept(Track(c), batch.size, TRUE)
                   /\ outcome = "written"
                THEN [batch EXCEPT !.to = @ \ {c}] ELSE NoBatch

-----------------------------------------------------------------------------
(* Releasing *)

TotalSize(seq) == SumFunction([i \in DOMAIN seq |-> seq[i].size])

\* The sizes the loop of egress_shift goes through
Doubled[k \in Nat] == IF k = 0 THEN FirstVectors ELSE 2 * Doubled[k - 1]

\* The capacity egress_shift leaves for n frames: none when empty (Quicly
\* frees the array), the next power of two once three quarters are unused.
Compacted(cap, n) ==
    IF n = 0 THEN 0
    ELSE IF cap > FirstVectors /\ n <= cap \div 4
         THEN Min({m \in {Doubled[k] : k \in 0 .. n} : m >= n})
         ELSE cap

\* Faulty variant: the capacity given back is not credited.
Credit_KeepsVectors(s, released, left) ==
    /\ bytes' = bytes - released
    /\ UNCHANGED vectors

\* discard_frame and release_vector_capacity
Credit(s, released, left) ==
    /\ bytes' = bytes - released - (capacity[s] - left) * VectorSize
    /\ vectors' = vectors - (capacity[s] - left)

\* transport_stream_egress_shift: the first n frames are acknowledged.  The
\* smaller array may not be available (~compacts).
EgressShift(s, n, compacts) ==
    LET rest     == SubSeq(queue[s], n + 1, Len(queue[s]))
        released == TotalSize(SubSeq(queue[s], 1, n))
        left     == IF compacts \/ rest = <<>> THEN Compacted(capacity[s], Len(rest))
                    ELSE capacity[s]
    IN
    /\ batch = NoBatch
    /\ s[1] \in open
    /\ queue' = [queue EXCEPT ![s] = rest]
    /\ capacity' = [capacity EXCEPT ![s] = left]
    /\ retained' = [retained EXCEPT ![s] = @ - released]
    /\ Credit(s, released, left)
    /\ frames' = frames - n
    /\ UNCHANGED <<open, batch>>

\* transport_stream_destroy for a set of streams, with all they retain
DestroyStreams(set) ==
    /\ queue' = [s \in Streams |-> IF s \in set THEN <<>> ELSE queue[s]]
    /\ capacity' = [s \in Streams |-> IF s \in set THEN 0 ELSE capacity[s]]
    /\ retained' = [s \in Streams |-> IF s \in set THEN 0 ELSE retained[s]]
    /\ bytes' = bytes - SumFunction([s \in set |-> TotalSize(queue[s])])
                      - SumFunction([s \in set |-> capacity[s] * VectorSize])
    /\ vectors' = vectors - SumFunction([s \in set |-> capacity[s]])
    /\ frames' = frames - SumFunction([s \in set |-> Len(queue[s])])
    /\ UNCHANGED batch

\* The peer stops reading a track stream (on_stop_sending, on_receive_reset)
ResetTrackStream(c) ==
    /\ batch = NoBatch
    /\ c \in open
    /\ queue[Track(c)] # <<>>
    /\ DestroyStreams({Track(c)})
    /\ UNCHANGED open

\* A closing connection is freed; a new one takes its place.
FreeConnection(c) ==
    /\ batch = NoBatch
    /\ c \notin open
    /\ DestroyStreams({Control(c), Track(c)})
    /\ open' = open \cup {c}

-----------------------------------------------------------------------------
(* Specification *)

Next ==
    \/ \E c \in Conns, outcome \in Outcomes :
         \/ SendEssential(c, outcome)
         \/ SendAck(c, outcome)
         \/ WriteRecipient(c, outcome)
         \/ \E id \in NackIds : SendNack(c, id, outcome)
         \/ \E size \in DataSizes : SendUnicast(c, size, outcome)
    \/ \E to \in SUBSET Conns, size \in DataSizes : PublishReliable(to, size)
    \/ \E s \in Streams : \E n \in 1 .. Len(queue[s]), compacts \in BOOLEAN :
         EgressShift(s, n, compacts)
    \/ \E c \in Conns : ResetTrackStream(c) \/ FreeConnection(c)

Spec == Init /\ [][Next]_vars

-----------------------------------------------------------------------------
(* Properties *)

\* Every charge is given back exactly once, over acknowledgements, compaction,
\* resets and freed connections (the assertions of discard_frame and
\* release_vector_capacity hold).
ChargesExact ==
    /\ \A s \in Streams : retained[s] = TotalSize(queue[s])
    /\ bytes = SumFunction([s \in Streams |-> StreamBytes(s)])
    /\ vectors = SumFunction([s \in Streams |-> capacity[s]])
    /\ frames = SumFunction([s \in Streams |-> Len(queue[s])])

\* Retained storage never exceeds what was configured.
BudgetsHold ==
    /\ bytes <= EndpointLimit /\ vectors <= VectorLimit
    /\ \A s \in Streams :
         StreamBytes(s) <= StreamLimit /\ Len(queue[s]) <= FrameLimit

\* A publication that passed its preflight is refused by no later recipient
\* for want of room: only an allocation failure makes it partial.
PreflightIsHonoured ==
    \A c \in batch.to : CanAccept(Track(c), batch.size, TRUE)

NoEssentialRetained ==
    \A s \in Streams : \A i \in DOMAIN queue[s] : queue[s][i].kind # "control"

\* What application frames and NACKs leave of every limit, on a control
\* stream and across the transport: once no essential frame is retained the
\* reserves are whole again, whatever essential frames took of them before and
\* whatever growth of a vector outlived them.
ReservesAreLeft ==
    NoEssentialRetained =>
        /\ bytes <= EndpointLimit - EndpointByteReserve
        /\ vectors <= VectorLimit - VectorReserve
        /\ \A c \in Conns :
             /\ StreamBytes(Control(c)) <= StreamLimit - ControlByteReserve
             /\ Len(queue[Control(c)]) <= FrameLimit - ControlFrameReserve

=============================================================================
