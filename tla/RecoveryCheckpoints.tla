-------------------------- MODULE RecoveryCheckpoints --------------------------
(***************************************************************************)
(* Loss recovery of one rateless DATA track: a publishing transport, its   *)
(* checkpoint-capable subscribers, the reliable control stream of each     *)
(* connection and its unreliable datagrams.                                *)
(*                                                                         *)
(* The publisher numbers FEC objects, sends each one once as datagrams,    *)
(* keeps it in the sent cache and, every Window objects, writes a          *)
(* checkpoint on every subscriber's control stream.  A subscriber opens a  *)
(* window for the checkpoint, NACKs what it misses, and acknowledges the   *)
(* completed prefix of its windows; the publisher releases what every      *)
(* subscriber acknowledged.  Subscribers subscribe, subscribe again,       *)
(* unsubscribe, lose the connection and reconnect at any point.            *)
(*                                                                         *)
(* Abstractions.  The track has group 0 (all the grouping path publishes). *)
(* An object arrives whole: symbols and assemblers are not modelled here.  *)
(* Every peer negotiated the checkpoint capability.  Timers may fire at    *)
(* any moment.  Path admission, control-stream room and the repair token   *)
(* buckets are nondeterministic.                                           *)
(***************************************************************************)
EXTENDS Integers, FiniteSets, Sequences

CONSTANTS
    Peers,          \* remote transports that may subscribe to the track
    Window,         \* QLINQ_RECOVERY_WINDOW_OBJECTS
    MaxWindows,     \* QLINQ_RECOVERY_MAX_WINDOWS
    GapSpan,        \* width of pending_mask
    Capacity,       \* slots of the sent cache
    MaxObjects,     \* bound: objects the publisher numbers
    MaxFinishes,    \* bound: calls of transport_finish_track
    MaxNacks,       \* bound: NACK frames retained on one control stream
    MaxReconnects,  \* bound: connections lost, over all peers
    MaxUnsubscribes,\* bound: transport_unsubscribe calls, over all peers
    MaxResubscribes \* bound: transport_subscribe calls on a held track

\* QLINQ_RECOVERY_HISTORY_OBJECTS
History == Window * MaxWindows

ASSUME WindowAssumption == Window \in Nat \ {0}
ASSUME MaxWindowsAssumption == MaxWindows \in Nat \ {0}
ASSUME GapSpanAssumption == GapSpan \in Nat \ {0}
\* transport_sent_cache_init clamps the slot count to the history.
ASSUME CapacityAssumption == Capacity \in Nat \ {0} /\ Capacity <= Window * MaxWindows
ASSUME BoundsAssumption ==
    /\ MaxObjects \in Nat
    /\ MaxFinishes \in Nat
    /\ MaxNacks \in Nat
    /\ MaxReconnects \in Nat
    /\ MaxUnsubscribes \in Nat
    /\ MaxResubscribes \in Nat

VARIABLES
    \* publisher
    next,       \* next_object_id of the track
    lastCkpt,   \* last_checkpoint_object_id, NoId when not initialized
    finishes,   \* transport_finish_track calls that reached the peers
    buffered,   \* fec_buf_len > 0: a group waits to be flushed
    delivered,  \* peers with fec_group_delivered for the waiting group
    cache,      \* object ids held by the sent cache
    conn,       \* publisher's end of each connection
    member,     \* the peer's send subscription, participating in checkpoints
    ack,        \* transport_checkpoint_ack_state_t of each peer
    \* subscribers
    pconn,      \* subscriber's end of each connection
    rsub,       \* the subscriber's receive subscription
    rx,         \* transport_object_gap_state_t of each subscriber
    \* network
    down, up,   \* control stream, publisher to peer and peer to publisher
    dgrams,     \* object datagrams in flight to each peer
    \* history and bounds
    emitted,    \* objects handed to the application in this subscription
    floor,      \* first object id the subscription was promised
    joined,     \* next object id when the subscription was added
    errors,     \* peers whose connection was closed with a protocol error
    spent       \* churn used so far

pubVars  == <<next, lastCkpt, finishes, buffered, delivered, cache, conn, member, ack>>
subVars  == <<pconn, rsub, rx>>
netVars  == <<down, up, dgrams>>
histVars == <<emitted, floor, joined, errors, spent>>
vars == <<pubVars, subVars, netVars, histVars>>

NoId == -1
Ids == Nat \cup {NoId}

-----------------------------------------------------------------------------
(* Types *)

WindowState == [first: Nat, final: Nat, missing: SUBSET Nat]

RxState == [last: Ids, largest: Ids, delivered: SUBSET Nat,
            windows: SUBSET WindowState,
            seen: Ids, base: Nat, pending: SUBSET Nat]

NewRx == [last |-> NoId, largest |-> NoId, delivered |-> {}, windows |-> {},
          seen |-> NoId, base |-> 0, pending |-> {}]

AckState == [sent: Ids, acked: Ids]
NewAck == [sent |-> NoId, acked |-> NoId]

Checkpoint(first, final) == [type |-> "checkpoint", first |-> first, final |-> final]
Baseline(id)  == [type |-> "baseline", first |-> id, final |-> id]
TrackEnd(id)  == [type |-> "end", first |-> 0, final |-> id]
DownFrame == [type: {"checkpoint", "baseline", "end"}, first: Nat, final: Nat]

Subscribe   == [type |-> "subscribe", id |-> 0]
Unsubscribe == [type |-> "unsubscribe", id |-> 0]
Ack(id)  == [type |-> "ack", id |-> id]
Nack(id) == [type |-> "nack", id |-> id]
UpFrame == [type: {"subscribe", "unsubscribe", "ack", "nack"}, id: Nat]

Spent == [reconnects: Nat, unsubscribes: Nat, resubscribes: Nat]

TypeOK ==
    /\ next \in Nat
    /\ lastCkpt \in Ids
    /\ finishes \in Nat
    /\ buffered \in BOOLEAN
    /\ delivered \in SUBSET Peers
    /\ cache \in SUBSET Nat
    /\ conn \in [Peers -> {"open", "closing", "none"}]
    /\ member \in [Peers -> BOOLEAN]
    /\ ack \in [Peers -> AckState]
    /\ pconn \in [Peers -> {"open", "closed"}]
    /\ rsub \in [Peers -> BOOLEAN]
    /\ rx \in [Peers -> RxState]
    /\ down \in [Peers -> Seq(DownFrame)]
    /\ up \in [Peers -> Seq(UpFrame)]
    /\ dgrams \in [Peers -> SUBSET Nat]
    /\ emitted \in [Peers -> SUBSET Nat]
    /\ floor \in [Peers -> Nat]
    /\ joined \in [Peers -> Nat]
    /\ errors \in SUBSET Peers
    /\ spent \in Spent

Init ==
    /\ next = 0
    /\ lastCkpt = NoId
    /\ finishes = 0
    /\ buffered = FALSE
    /\ delivered = {}
    /\ cache = {}
    /\ conn = [p \in Peers |-> "open"]
    /\ member = [p \in Peers |-> FALSE]
    /\ ack = [p \in Peers |-> NewAck]
    /\ pconn = [p \in Peers |-> "open"]
    /\ rsub = [p \in Peers |-> FALSE]
    /\ rx = [p \in Peers |-> NewRx]
    /\ down = [p \in Peers |-> <<>>]
    /\ up = [p \in Peers |-> <<>>]
    /\ dgrams = [p \in Peers |-> {}]
    /\ emitted = [p \in Peers |-> {}]
    /\ floor = [p \in Peers |-> 0]
    /\ joined = [p \in Peers |-> 0]
    /\ errors = {}
    /\ spent = [reconnects |-> 0, unsubscribes |-> 0, resubscribes |-> 0]

-----------------------------------------------------------------------------
(* Publisher *)

Members == {p \in Peers : member[p]}

\* transport_publish_recipient_eligible for this track
Eligible == {p \in Members : conn[p] = "open"}

\* Faulty variants: release what any member acknowledged; spare the last one.
StillOwed_AnyAck(ids, members, acks) ==
    {o \in ids : members # {} /\ \A p \in members : acks[p].acked < o}
StillOwed_KeepLast(ids, members, acks) ==
    {o \in ids : \E p \in members : acks[p].acked <= o}

\* What release_acked_checkpoints leaves in the cache: the objects some
\* participating member has not acknowledged; nothing when there is none.
StillOwed(ids, members, acks) ==
    {o \in ids : \E p \in members : acks[p].acked < o}

\* A record of the application enters the grouping buffer.  It is numbered
\* only when the group is flushed, and only buffered when a subscriber exists.
BufferRecord ==
    /\ ~buffered
    /\ Eligible # {}
    /\ finishes = 0
    /\ next < MaxObjects
    /\ buffered' = TRUE
    /\ delivered' = {}
    /\ UNCHANGED <<next, lastCkpt, finishes, cache, conn, member, ack,
                   subVars, netVars, histVars>>

\* Faulty variant: one slot too many.
CanStore_OffByOne(o) == o \in cache \/ Cardinality(cache) <= Capacity

\* transport_sent_cache_can_store: a retry of a stored identity or a free
\* slot.  Entries are stored protected, so nothing is evictable.
CanStore(o) == o \in cache \/ Cardinality(cache) < Capacity

\* emit_rolling_checkpoint after the object that completes a window
EmitRollingCheckpoint(to, final) ==
    /\ down' = [p \in Peers |->
                  IF p \in to
                  THEN Append(down[p], Checkpoint(final + 1 - Window, final))
                  ELSE down[p]]
    /\ ack' = [p \in Peers |->
                  IF p \in to THEN [ack[p] EXCEPT !.sent = final] ELSE ack[p]]
    /\ lastCkpt' = final

\* transport_publish_flush_grouped_ex: one attempt to send the waiting group.
\* `admitted' are the peers whose paths accept the object in this attempt.
FlushGrouped(admitted) ==
    LET sent == (delivered \cap Eligible) \cup admitted IN
    /\ buffered
    /\ admitted \subseteq Eligible \ delivered
    /\ CanStore(next)
    /\ cache' = IF sent # {} THEN cache \cup {next} ELSE cache
    /\ dgrams' = [p \in Peers |->
                    IF p \in admitted /\ pconn[p] = "open"
                    THEN dgrams[p] \cup {next} ELSE dgrams[p]]
    /\ IF sent # Eligible
       THEN \* PARTIAL or BACKPRESSURE: the group keeps its identity
            /\ delivered' = delivered \cup admitted
            /\ UNCHANGED <<next, lastCkpt, buffered, ack, down>>
       ELSE \* DELIVERED, or NO_RECIPIENTS when nobody is left
            /\ next' = next + 1
            /\ buffered' = FALSE
            /\ delivered' = {}
            /\ IF (next + 1) % Window = 0
               THEN EmitRollingCheckpoint(Eligible, next)
               ELSE UNCHANGED <<lastCkpt, ack, down>>
    /\ UNCHANGED <<finishes, conn, member, subVars, up, histVars>>

\* transport_finish_track, once the waiting group has been flushed
FinishTrack ==
    /\ ~buffered
    /\ next > 0
    /\ finishes < MaxFinishes
    /\ finishes' = finishes + 1
    /\ down' = [p \in Peers |->
                  IF p \in Eligible THEN Append(down[p], TrackEnd(next - 1))
                                    ELSE down[p]]
    /\ ack' = [p \in Peers |->
                  IF p \in Eligible THEN [ack[p] EXCEPT !.sent = next - 1]
                                    ELSE ack[p]]
    /\ lastCkpt' = next - 1
    /\ UNCHANGED <<next, buffered, delivered, cache, conn, member,
                   subVars, up, dgrams, histVars>>

-----------------------------------------------------------------------------
(* Publisher: frames of one peer's control stream *)

Arrived(p, type) ==
    conn[p] = "open" /\ up[p] # <<>> /\ Head(up[p]).type = type

\* Faulty variant: a member joins at the newest object instead of the newest
\* checkpoint.
JoinAck_NewestObject == [sent |-> lastCkpt, acked |-> next - 1]

\* checkpoint_member_added: what came before the last checkpoint is not owed
JoinAck == [sent |-> lastCkpt, acked |-> lastCkpt]

\* SUBSCRIBE: transport_subscriptions_add and checkpoint_member_added
HandleSubscribe(p) ==
    /\ Arrived(p, "subscribe")
    /\ member' = [member EXCEPT ![p] = TRUE]
    /\ delivered' = delivered \ {p}
    /\ ack' = [ack EXCEPT ![p] = JoinAck]
    /\ down' = IF lastCkpt = NoId THEN down
               ELSE [down EXCEPT ![p] = Append(@, Baseline(lastCkpt))]
    /\ IF member[p]
       THEN UNCHANGED <<floor, joined>>
       ELSE /\ floor' = [floor EXCEPT ![p] = lastCkpt + 1]
            /\ joined' = [joined EXCEPT ![p] = next]
    /\ up' = [up EXCEPT ![p] = Tail(@)]
    /\ UNCHANGED <<next, lastCkpt, finishes, buffered, cache, conn, subVars,
                   dgrams, emitted, errors, spent>>

\* checkpoint_member_removed, on UNSUBSCRIBE and when a connection is freed
RemoveMember(p) ==
    /\ member' = [member EXCEPT ![p] = FALSE]
    /\ ack' = [ack EXCEPT ![p] = NewAck]
    /\ cache' = IF member[p] THEN StillOwed(cache, Members \ {p}, ack) ELSE cache

HandleUnsubscribe(p) ==
    /\ Arrived(p, "unsubscribe")
    /\ RemoveMember(p)
    /\ up' = [up EXCEPT ![p] = Tail(@)]
    /\ UNCHANGED <<next, lastCkpt, finishes, buffered, delivered, conn, subVars,
                   down, dgrams, histVars>>

\* Faulty variant: the newest checkpoint cannot be acknowledged.
AckValid_Strict(p, id) == member[p] /\ ack[p].sent # NoId /\ id < ack[p].sent

\* transport_publish_checkpoint_acked refuses what was never sent
AckValid(p, id) == member[p] /\ ack[p].sent # NoId /\ id <= ack[p].sent

HandleAck(p) ==
    LET id   == Head(up[p]).id
        acks == [ack EXCEPT ![p].acked = IF id > @ THEN id ELSE @]
    IN
    /\ Arrived(p, "ack")
    /\ IF AckValid(p, id)
       THEN /\ ack' = acks
            /\ cache' = StillOwed(cache, Members, acks)
            /\ up' = [up EXCEPT ![p] = Tail(@)]
            /\ UNCHANGED <<conn, errors>>
       ELSE /\ conn' = [conn EXCEPT ![p] = "closing"]
            /\ up' = [up EXCEPT ![p] = <<>>]
            /\ errors' = errors \cup {p}
            /\ UNCHANGED <<ack, cache>>
    /\ UNCHANGED <<next, lastCkpt, finishes, buffered, delivered, member,
                   subVars, down, dgrams, emitted, floor, joined, spent>>

\* NACK: repair symbols are queued when the object is still cached; a
\* throttled request or a cache miss is dropped silently.
HandleNack(p, repaired) ==
    /\ Arrived(p, "nack")
    /\ repaired => /\ member[p]
                   /\ Head(up[p]).id \in cache
                   /\ pconn[p] = "open"
    /\ dgrams' = IF repaired
                 THEN [dgrams EXCEPT ![p] = @ \cup {Head(up[p]).id}]
                 ELSE dgrams
    /\ up' = [up EXCEPT ![p] = Tail(@)]
    /\ UNCHANGED <<pubVars, subVars, down, histVars>>

-----------------------------------------------------------------------------
(* Subscriber: delivered history, gap tracking, recovery windows *)

\* object_was_delivered: what lies beyond the history counts as delivered
ObjectWasDelivered(r, o) ==
    /\ o <= r.largest
    /\ r.largest - o >= History \/ o \in r.delivered

\* object_is_recently_delivered: what lies beyond the history does not
ObjectIsRecentlyDelivered(r, o) ==
    /\ o <= r.largest
    /\ r.largest - o < History
    /\ o \in r.delivered

\* Faulty variant: advancing the history forgets to shift the old bits in.
MarkObjectDelivered_NoShift(r, o) ==
    IF o > r.largest
    THEN [r EXCEPT !.largest = o, !.delivered = {o}]
    ELSE [r EXCEPT !.delivered = @ \cup {o}]

\* mark_object_delivered: a bitmap over the History ids up to the largest
MarkObjectDelivered(r, o) ==
    LET top == IF o > r.largest THEN o ELSE r.largest
    IN  [r EXCEPT !.largest = top,
                  !.delivered = {d \in @ \cup {o} : top - d < History}]

\* queue_missing_objects: GapSpan ids from the oldest pending one
QueueMissingObjects(r, first, count) ==
    LET base == IF r.pending = {} THEN first ELSE r.base
        ids  == {o \in first .. (first + count - 1) : o < base + GapSpan}
    IN  IF count = 0 \/ count > GapSpan \/ first < base THEN r
        ELSE [r EXCEPT !.base = base, !.pending = @ \cup ids]

\* The gap detector of on_receive_datagram_frame
ObserveObject(r, o) ==
    IF r.seen = NoId THEN [r EXCEPT !.seen = o]
    ELSE IF o > r.seen
         THEN [QueueMissingObjects(r, r.seen + 1, o - r.seen - 1) EXCEPT !.seen = o]
         ELSE [r EXCEPT !.pending = @ \ {o}]

\* retire_recovery_through
RetireThrough(r, final) == [r EXCEPT !.pending = {o \in @ : o > final}]

\* Faulty variant: acknowledge across a gap.
CompletedPrefix_AcrossGap(r) == {w \in r.windows : w.missing = {}}

\* The windows one cumulative ACK may cover: complete, with no incomplete
\* window before them.
CompletedPrefix(r) ==
    {w \in r.windows : \A v \in r.windows : v.first <= w.first => v.missing = {}}

\* acknowledge_completed_recovery_windows on state r of peer p.  Without room
\* on the control stream the completed windows wait for the next tick.
AcknowledgeCompleted(p, r, room) ==
    \/ /\ CompletedPrefix(r) = {} \/ ~room
       /\ rx' = [rx EXCEPT ![p] = r]
       /\ UNCHANGED up
    \/ /\ room
       /\ \E w \in CompletedPrefix(r) :
            /\ \A v \in CompletedPrefix(r) : v.final <= w.final
            /\ rx' = [rx EXCEPT ![p] =
                        RetireThrough([r EXCEPT !.windows =
                                         {v \in @ : v.final > w.final}], w.final)]
            /\ up' = [up EXCEPT ![p] = Append(@, Ack(w.final))]

\* quicly_close with TRANSPORT_APP_ERROR_PROTOCOL at the subscriber, or any
\* other loss of its end of the connection: all per-connection state goes.
DropPeerEnd(p) ==
    /\ pconn' = [pconn EXCEPT ![p] = "closed"]
    /\ rsub' = [rsub EXCEPT ![p] = FALSE]
    /\ rx' = [rx EXCEPT ![p] = NewRx]
    /\ down' = [down EXCEPT ![p] = <<>>]
    /\ dgrams' = [dgrams EXCEPT ![p] = {}]

ProtocolError(p) ==
    /\ DropPeerEnd(p)
    /\ errors' = errors \cup {p}
    /\ UNCHANGED up

Received(p, type) ==
    pconn[p] = "open" /\ down[p] # <<>> /\ Head(down[p]).type = type

\* The conditions under which receive_recovery_checkpoint reports failure
CheckpointRejected(r, first, final) ==
    \/ first > final
    \/ final - first >= Window
    \/ r.last # NoId /\ final > r.last /\ first # r.last + 1
    \/ /\ r.last = NoId \/ final > r.last
       /\ Cardinality(r.windows) = MaxWindows

OpenWindow(r, first, final) ==
    [r EXCEPT !.last = final,
              !.windows = @ \cup {[first |-> first, final |-> final,
                  missing |-> {o \in first .. final :
                                 ~ObjectIsRecentlyDelivered(r, o)}]}]

\* receive_recovery_checkpoint with acknowledge = true
ReceiveRecoveryCheckpoint(p, first, final, room) ==
    LET r == rx[p] IN
    IF \E w \in r.windows : w.first = first /\ w.final = final
    THEN /\ down' = [down EXCEPT ![p] = Tail(@)]
         /\ UNCHANGED <<rx, up, pconn, rsub, dgrams, errors>>
    ELSE IF CheckpointRejected(r, first, final)
    THEN ProtocolError(p)
    ELSE /\ down' = [down EXCEPT ![p] = Tail(@)]
         /\ IF r.last # NoId /\ final <= r.last
            THEN /\ up' = [up EXCEPT ![p] = Append(@, Ack(final))]
                 /\ UNCHANGED rx
            ELSE AcknowledgeCompleted(p, OpenWindow(r, first, final), room)
         /\ UNCHANGED <<pconn, rsub, dgrams, errors>>

\* TRACK_CHECKPOINT without the baseline flag
HandleCheckpoint(p, room) ==
    /\ Received(p, "checkpoint")
    /\ IF rsub[p]
       THEN ReceiveRecoveryCheckpoint(p, Head(down[p]).first, Head(down[p]).final, room)
       ELSE ProtocolError(p)
    /\ UNCHANGED <<pubVars, emitted, floor, joined, spent>>

\* TRACK_CHECKPOINT with the baseline flag: the windows are left alone
HandleBaseline(p) ==
    LET id == Head(down[p]).final IN
    /\ Received(p, "baseline")
    /\ IF rsub[p] /\ rx[p].last <= id
       THEN /\ rx' = [rx EXCEPT ![p].last = id]
            /\ up' = [up EXCEPT ![p] = Append(@, Ack(id))]
            /\ down' = [down EXCEPT ![p] = Tail(@)]
            /\ UNCHANGED <<pconn, rsub, dgrams, errors>>
       ELSE ProtocolError(p)
    /\ UNCHANGED <<pubVars, emitted, floor, joined, spent>>

\* Faulty variant: a repeated watermark is acknowledged over open windows.
NothingOutstanding_Always(r) == TRUE

\* A repeated final watermark is acknowledged at once only without windows.
NothingOutstanding(r) == r.windows = {}

\* TRACK_END: the final checkpoint, from where the last one ended
HandleTrackEnd(p, room) ==
    LET id == Head(down[p]).final
        r  == rx[p]
        first == IF r.last # NoId THEN r.last + 1
                 ELSE IF id + 1 >= Window THEN id + 1 - Window ELSE 0
    IN
    /\ Received(p, "end")
    /\ IF ~rsub[p] THEN ProtocolError(p)
       ELSE IF r.last # NoId /\ id <= r.last
       THEN /\ IF NothingOutstanding(r)
               THEN /\ up' = [up EXCEPT ![p] = Append(@, Ack(id))]
                    /\ rx' = [rx EXCEPT ![p] = RetireThrough(r, id)]
               ELSE UNCHANGED <<up, rx>>
            /\ down' = [down EXCEPT ![p] = Tail(@)]
            /\ UNCHANGED <<pconn, rsub, dgrams, errors>>
       ELSE ReceiveRecoveryCheckpoint(p, first, id, room)
    /\ UNCHANGED <<pubVars, emitted, floor, joined, spent>>

\* A datagram completes object o (on_receive_datagram_frame): duplicates are
\* suppressed, the ACK is written before the application sees the object.
ReceiveDatagram(p, o, room) ==
    LET r == MarkObjectDelivered(ObserveObject(rx[p], o), o)
        marked == [r EXCEPT !.windows = {[w EXCEPT !.missing = @ \ {o}] : w \in @}]
    IN
    /\ o \in dgrams[p]
    /\ pconn[p] = "open"
    /\ dgrams' = [dgrams EXCEPT ![p] = @ \ {o}]
    /\ IF rsub[p] /\ ~ObjectWasDelivered(rx[p], o)
       THEN /\ AcknowledgeCompleted(p, marked, room)
            /\ emitted' = [emitted EXCEPT ![p] = @ \cup {o}]
       ELSE UNCHANGED <<rx, up, emitted>>
    /\ UNCHANGED <<pubVars, pconn, rsub, down, floor, joined, errors, spent>>

\* Faulty variant: only subscribers with a pending gap are visited.
FlushRecoveryAcks_OnlyGaps(p) ==
    /\ pconn[p] = "open"
    /\ rsub[p]
    /\ rx[p].pending # {}
    /\ CompletedPrefix(rx[p]) # {}
    /\ AcknowledgeCompleted(p, rx[p], TRUE)
    /\ UNCHANGED <<pubVars, pconn, rsub, down, dgrams, histVars>>

\* transport_protocol_flush_recovery_acks in transport_tick
FlushRecoveryAcks(p) ==
    /\ pconn[p] = "open"
    /\ rsub[p]
    /\ CompletedPrefix(rx[p]) # {}
    /\ AcknowledgeCompleted(p, rx[p], TRUE)
    /\ UNCHANGED <<pubVars, pconn, rsub, down, dgrams, histVars>>

\* Faulty variant: the sweep skips the windows, so tail losses stay.
Wanted_OnlyGaps(r) == r.pending

\* The NACK sweep of transport_tick: pending gaps and missing objects of the
\* windows; an identical retained request is coalesced.
Wanted(r) == r.pending \cup UNION {w.missing : w \in r.windows}

NacksQueued(p) == {i \in 1 .. Len(up[p]) : up[p][i].type = "nack"}

SendNack(p, o) ==
    /\ pconn[p] = "open"
    /\ rsub[p]
    /\ o \in Wanted(rx[p])
    /\ Cardinality(NacksQueued(p)) < MaxNacks
    /\ \A i \in NacksQueued(p) : up[p][i] # Nack(o)
    /\ up' = [up EXCEPT ![p] = Append(@, Nack(o))]
    /\ UNCHANGED <<pubVars, subVars, down, dgrams, histVars>>

-----------------------------------------------------------------------------
(* Subscription and connection churn *)

\* subscribe_connection for a track the subscriber does not hold
SubscribeTrack(p) ==
    /\ pconn[p] = "open"
    /\ ~rsub[p]
    /\ rsub' = [rsub EXCEPT ![p] = TRUE]
    /\ rx' = [rx EXCEPT ![p] = NewRx]
    /\ emitted' = [emitted EXCEPT ![p] = {}]
    /\ up' = [up EXCEPT ![p] = Append(@, Subscribe)]
    /\ UNCHANGED <<pubVars, pconn, down, dgrams, floor, joined, errors, spent>>

\* subscribe_connection for a track it holds: the frame is written again
SubscribeAgain(p) ==
    /\ pconn[p] = "open"
    /\ rsub[p]
    /\ spent.resubscribes < MaxResubscribes
    /\ spent' = [spent EXCEPT !.resubscribes = @ + 1]
    /\ up' = [up EXCEPT ![p] = Append(@, Subscribe)]
    /\ UNCHANGED <<pubVars, subVars, down, dgrams, emitted, floor, joined, errors>>

\* unsubscribe_connection: the receive state goes before the peer knows
UnsubscribeTrack(p) ==
    /\ pconn[p] = "open"
    /\ rsub[p]
    /\ spent.unsubscribes < MaxUnsubscribes
    /\ spent' = [spent EXCEPT !.unsubscribes = @ + 1]
    /\ rsub' = [rsub EXCEPT ![p] = FALSE]
    /\ rx' = [rx EXCEPT ![p] = NewRx]
    /\ up' = [up EXCEPT ![p] = Append(@, Unsubscribe)]
    /\ UNCHANGED <<pubVars, pconn, down, dgrams, emitted, floor, joined, errors>>

\* The subscriber closes, or its end times out
Disconnect(p) ==
    /\ pconn[p] = "open"
    /\ spent.reconnects < MaxReconnects
    /\ spent' = [spent EXCEPT !.reconnects = @ + 1]
    /\ DropPeerEnd(p)
    /\ UNCHANGED <<pubVars, up, emitted, floor, joined, errors>>

\* The publisher closes: transport_close_conn, or its end times out
CloseConn(p) ==
    /\ conn[p] = "open"
    /\ spent.reconnects < MaxReconnects
    /\ spent' = [spent EXCEPT !.reconnects = @ + 1]
    /\ conn' = [conn EXCEPT ![p] = "closing"]
    /\ up' = [up EXCEPT ![p] = <<>>]
    /\ UNCHANGED <<next, lastCkpt, finishes, buffered, delivered, cache, member,
                   ack, subVars, down, dgrams, emitted, floor, joined, errors>>

\* The other end learns of a close
NoticeClose(p) ==
    \/ /\ pconn[p] = "closed"
       /\ conn[p] = "open"
       /\ conn' = [conn EXCEPT ![p] = "closing"]
       /\ up' = [up EXCEPT ![p] = <<>>]
       /\ UNCHANGED <<next, lastCkpt, finishes, buffered, delivered, cache,
                      member, ack, subVars, down, dgrams, histVars>>
    \/ /\ pconn[p] = "open"
       /\ conn[p] # "open"
       /\ DropPeerEnd(p)
       /\ UNCHANGED <<pubVars, up, histVars>>

\* QUICLY_ERROR_FREE_CONNECTION in transport_tick
FreeConnection(p) ==
    /\ conn[p] = "closing"
    /\ conn' = [conn EXCEPT ![p] = "none"]
    /\ RemoveMember(p)
    /\ UNCHANGED <<next, lastCkpt, finishes, buffered, delivered, subVars,
                   netVars, histVars>>

\* start_client_connection and the handshake
Reconnect(p) ==
    /\ conn[p] = "none"
    /\ pconn[p] = "closed"
    /\ conn' = [conn EXCEPT ![p] = "open"]
    /\ pconn' = [pconn EXCEPT ![p] = "open"]
    /\ down' = [down EXCEPT ![p] = <<>>]
    /\ up' = [up EXCEPT ![p] = <<>>]
    /\ UNCHANGED <<next, lastCkpt, finishes, buffered, delivered, cache, member,
                   ack, rsub, rx, dgrams, histVars>>

\* The network drops a datagram
LoseDatagram(p, o) ==
    /\ o \in dgrams[p]
    /\ dgrams' = [dgrams EXCEPT ![p] = @ \ {o}]
    /\ UNCHANGED <<pubVars, subVars, down, up, histVars>>

-----------------------------------------------------------------------------
(* Specification *)

PublisherStep ==
    \/ BufferRecord
    \/ \E admitted \in SUBSET Peers : FlushGrouped(admitted)
    \/ FinishTrack

ControlStep(p) ==
    \/ HandleSubscribe(p)
    \/ HandleUnsubscribe(p)
    \/ HandleAck(p)
    \/ \E repaired \in BOOLEAN : HandleNack(p, repaired)
    \/ \E room \in BOOLEAN : HandleCheckpoint(p, room)
    \/ HandleBaseline(p)
    \/ \E room \in BOOLEAN : HandleTrackEnd(p, room)

DatagramStep(p) ==
    \/ \E o \in dgrams[p], room \in BOOLEAN : ReceiveDatagram(p, o, room)
    \/ \E o \in dgrams[p] : LoseDatagram(p, o)

TickStep(p) ==
    \/ FlushRecoveryAcks(p)
    \/ \E o \in Wanted(rx[p]) : SendNack(p, o)

ChurnStep(p) ==
    \/ SubscribeTrack(p)
    \/ SubscribeAgain(p)
    \/ UnsubscribeTrack(p)
    \/ Disconnect(p)
    \/ CloseConn(p)
    \/ NoticeClose(p)
    \/ FreeConnection(p)
    \/ Reconnect(p)

Next ==
    \/ PublisherStep
    \/ \E p \in Peers :
         ControlStep(p) \/ DatagramStep(p) \/ TickStep(p) \/ ChurnStep(p)

Spec == Init /\ [][Next]_vars

\* Every endpoint keeps ticking: frames are parsed, timers fire and completed
\* windows are acknowledged.  The network is lossy but fair: an object sent
\* again and again arrives.  The token buckets refill and the sweep cursor
\* rotates, so a NACK repeated for an object is eventually sent and admitted.
\* Nothing is assumed of the application or of the connection.
Fairness ==
    \A p \in Peers :
        /\ WF_vars(HandleSubscribe(p))
        /\ WF_vars(HandleUnsubscribe(p))
        /\ WF_vars(HandleAck(p))
        /\ WF_vars(\E repaired \in BOOLEAN : HandleNack(p, repaired))
        /\ WF_vars(\E room \in BOOLEAN : HandleCheckpoint(p, room))
        /\ WF_vars(HandleBaseline(p))
        /\ WF_vars(\E room \in BOOLEAN : HandleTrackEnd(p, room))
        /\ WF_vars(FlushRecoveryAcks(p))
        /\ WF_vars(NoticeClose(p))
        /\ WF_vars(FreeConnection(p))
        /\ \A o \in 0 .. MaxObjects - 1 :
             /\ SF_vars(SendNack(p, o))
             /\ SF_vars(HandleNack(p, TRUE) /\ Head(up[p]) = Nack(o))
             /\ SF_vars(\E room \in BOOLEAN : ReceiveDatagram(p, o, room))

FairSpec == Spec /\ Fairness

-----------------------------------------------------------------------------
(* Safety *)

\* The subscription is known to both ends and no churn is in flight.
Settled(p) ==
    /\ conn[p] = "open" /\ pconn[p] = "open"
    /\ rsub[p] /\ member[p]
    /\ \A i \in 1 .. Len(up[p]) : up[p][i].type \in {"ack", "nack"}

\* The publisher's watermarks stay in order however peers join, leave and
\* acknowledge: no ACK is recorded beyond what that peer was sent, nothing
\* beyond the last checkpoint was sent, and it covers only numbered objects.
WatermarksOrdered ==
    /\ lastCkpt < next
    /\ \A p \in Peers : ack[p].acked <= ack[p].sent /\ ack[p].sent <= lastCkpt

\* The publisher never discards an object it numbered while a peer was
\* subscribed before that peer's acknowledgement covers it, whatever the
\* other peers acknowledge and however they come and go.
UnackedIsRetained ==
    \A p \in Eligible : \A o \in joined[p] .. next - 1 :
        ack[p].acked < o => o \in cache

\* A cumulative ACK is never ahead of delivery: what the publisher believes
\* acknowledged was handed to the subscriber's application.
AckedIsDelivered ==
    \A p \in Peers : Settled(p) =>
        floor[p] .. ack[p].acked \subseteq emitted[p]

\* Every object an open recovery window still misses can be repaired: the
\* publisher holds it, so a NACK can be answered.
MissingIsRepairable ==
    \A p \in Peers : Settled(p) =>
        \A w \in rx[p].windows : w.missing \subseteq cache

\* A missing object never falls out of the delivered history, where its
\* repair would be taken for a duplicate and dropped.
MissingIsNotForgotten ==
    \A p \in Peers : \A w \in rx[p].windows : \A o \in w.missing :
        ~ObjectWasDelivered(rx[p], o)

\* An object handed to the application is remembered (or beyond the history
\* and presumed delivered), so no late duplicate or repair hands it out again.
EmittedIsRemembered ==
    \A p \in Peers : rsub[p] =>
        \A o \in emitted[p] : ObjectWasDelivered(rx[p], o)

\* Two conforming ends never close their connection as a protocol error.
NoProtocolError == errors = {}

-----------------------------------------------------------------------------
(* Liveness, under FairSpec *)

\* Every recovery window a subscriber opens is eventually repaired and
\* acknowledged, or goes with its connection.
WindowsDrain ==
    \A p \in Peers : rx[p].windows # {} ~> rx[p].windows = {}

\* A full sent cache stops blocking publication.
BackpressureClears ==
    Cardinality(cache) = Capacity ~> Cardinality(cache) < Capacity

\* Once a track is finished its repair state is released to the last object.
FinishedTrackReleases == finishes > 0 ~> cache = {}

=============================================================================
