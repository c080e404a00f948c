---------------------- MODULE RecoveryCheckpointsProofs ----------------------
(***************************************************************************)
(* Theorems about RecoveryCheckpoints, for any set of peers and any window,*)
(* history, cache and churn bounds.  Type correctness; the retention of    *)
(* every object a subscribed peer has not acknowledged, and the order of   *)
(* the publisher's watermarks; that no object is handed out twice; and,    *)
(* for every behaviour up to its first churn, what ties the two ends       *)
(* together: acknowledged means delivered, what is missing can be repaired *)
(* and is not taken for a duplicate, and no end sees a protocol error.     *)
(***************************************************************************)
EXTENDS RecoveryCheckpoints, FiniteSetLemmas, TLAPS

\* The constants' assumptions, and the parts of the next-state relation.
USE DEF NoId, Ids

-----------------------------------------------------------------------------
(* Type correctness *)

\* Every helper on the subscriber's recovery state keeps its type.
LEMMA MarkType ==
    ASSUME NEW r \in RxState, NEW o \in Nat
    PROVE  MarkObjectDelivered(r, o) \in RxState
BY DEF MarkObjectDelivered, RxState

LEMMA QueueType ==
    ASSUME NEW r \in RxState, NEW first \in Nat, NEW count \in Nat
    PROVE  QueueMissingObjects(r, first, count) \in RxState
<1> DEFINE base == IF r.pending = {} THEN first ELSE r.base
           ids  == {o \in first .. (first + count - 1) : o < base + GapSpan}
<1>1. base \in Nat /\ r.pending \cup ids \in SUBSET Nat
  BY DEF RxState
<1>2. [r EXCEPT !.base = base, !.pending = @ \cup ids] \in RxState
  BY <1>1 DEF RxState
<1>3. QED BY <1>2 DEF QueueMissingObjects

LEMMA ObserveType ==
    ASSUME NEW r \in RxState, NEW o \in Nat
    PROVE  ObserveObject(r, o) \in RxState
<1>1. CASE r.seen = NoId
  BY <1>1 DEF ObserveObject, RxState
<1>2. CASE r.seen # NoId /\ o > r.seen
  <2>1. r.seen + 1 \in Nat /\ o - r.seen - 1 \in Nat
    BY <1>2 DEF RxState
  <2>2. QueueMissingObjects(r, r.seen + 1, o - r.seen - 1) \in RxState
    BY <2>1, QueueType
  <2>3. QED BY <1>2, <2>2 DEF ObserveObject, RxState
<1>3. CASE r.seen # NoId /\ ~(o > r.seen)
  BY <1>3 DEF ObserveObject, RxState
<1>4. QED BY <1>1, <1>2, <1>3

LEMMA RetireType ==
    ASSUME NEW r \in RxState, NEW final \in Nat
    PROVE  RetireThrough(r, final) \in RxState
BY DEF RetireThrough, RxState

LEMMA OpenWindowType ==
    ASSUME NEW r \in RxState, NEW first \in Nat, NEW final \in Nat
    PROVE  OpenWindow(r, first, final) \in RxState
<1> DEFINE missing == {o \in first .. final : ~ObjectIsRecentlyDelivered(r, o)}
           w == [first |-> first, final |-> final, missing |-> missing]
<1>1. missing \in SUBSET Nat OBVIOUS
<1>2. w \in WindowState BY <1>1 DEF WindowState
<1>3. r.windows \cup {w} \in SUBSET WindowState BY <1>2 DEF RxState
<1>4. QED BY <1>3 DEF OpenWindow, RxState

LEMMA LastType ==
    ASSUME NEW r \in RxState, NEW id \in Nat
    PROVE  [r EXCEPT !.last = id] \in RxState
BY DEF RxState

LEMMA SentType ==
    ASSUME NEW a \in AckState, NEW id \in Ids
    PROVE  [a EXCEPT !.sent = id] \in AckState
BY DEF AckState

LEMMA UnmissType ==
    ASSUME NEW r \in RxState, NEW o \in Nat
    PROVE  [r EXCEPT !.windows = {[w EXCEPT !.missing = @ \ {o}] : w \in @}] \in RxState
BY DEF RxState, WindowState

-----------------------------------------------------------------------------

LEMMA BufferRecordType ==
    ASSUME TypeOK, BufferRecord
    PROVE  TypeOK'
BY DEF TypeOK, BufferRecord, subVars, netVars, histVars

\* A checkpoint starts at a natural number: a window is full before it is sent.
LEMMA WindowBoundary ==
    ASSUME NEW n \in Nat, (n + 1) % Window = 0
    PROVE  n + 1 >= Window
<1>1. ASSUME n + 1 < Window PROVE FALSE
  <2>1. (n + 1) % Window = n + 1
    BY <1>1, WindowAssumption
  <2>2. QED BY <2>1
<1>2. QED BY <1>1, WindowAssumption

LEMMA EmitRollingCheckpointType ==
    ASSUME TypeOK, NEW to \in SUBSET Peers, (next + 1) % Window = 0,
           EmitRollingCheckpoint(to, next)
    PROVE  /\ down' \in [Peers -> Seq(DownFrame)]
           /\ ack' \in [Peers -> AckState]
           /\ lastCkpt' \in Ids
<1>1. next + 1 - Window \in Nat
  BY WindowBoundary, WindowAssumption DEF TypeOK
<1>2. Checkpoint(next + 1 - Window, next) \in DownFrame
  BY <1>1 DEF Checkpoint, DownFrame, TypeOK
<1>3. \A p \in Peers : Append(down[p], Checkpoint(next + 1 - Window, next)) \in Seq(DownFrame)
  BY <1>2 DEF TypeOK
<1>4. \A p \in Peers : [ack[p] EXCEPT !.sent = next] \in AckState
  <2>1. next \in Ids /\ \A p \in Peers : ack[p] \in AckState
    BY DEF TypeOK
  <2>2. QED BY <2>1, SentType
<1>5. QED BY <1>3, <1>4 DEF TypeOK, EmitRollingCheckpoint

LEMMA FlushGroupedType ==
    ASSUME TypeOK, NEW admitted \in SUBSET Peers, FlushGrouped(admitted)
    PROVE  TypeOK'
<1> DEFINE sent == (delivered \cap Eligible) \cup admitted
<1> USE DEF TypeOK
<1>1. cache' \in SUBSET Nat /\ dgrams' \in [Peers -> SUBSET Nat]
  BY DEF FlushGrouped
<1>2. /\ UNCHANGED <<finishes, conn, member>> /\ UNCHANGED subVars
      /\ UNCHANGED up /\ UNCHANGED histVars
  BY DEF FlushGrouped
<1>3. CASE sent # Eligible
  <2>1. delivered' \in SUBSET Peers /\ UNCHANGED <<next, lastCkpt, buffered, ack, down>>
    BY <1>3 DEF FlushGrouped
  <2>2. QED BY <1>1, <1>2, <2>1 DEF subVars, histVars
<1>4. CASE ~(sent # Eligible)
  <2>1. next' \in Nat /\ delivered' \in SUBSET Peers
    BY <1>4 DEF FlushGrouped
  <2>b. buffered' \in BOOLEAN
    BY <1>4, Zenon DEF FlushGrouped
  <2>2. Eligible \in SUBSET Peers
    BY DEF Eligible, Members
  <2>3. /\ down' \in [Peers -> Seq(DownFrame)]
        /\ ack' \in [Peers -> AckState]
        /\ lastCkpt' \in Ids
    <3>1. CASE (next + 1) % Window = 0
      BY <1>4, <2>2, <3>1, EmitRollingCheckpointType DEF FlushGrouped
    <3>2. CASE (next + 1) % Window # 0
      BY <1>4, <3>2 DEF FlushGrouped
    <3>3. QED BY <3>1, <3>2
  <2>4. QED BY <1>1, <1>2, <2>1, <2>b, <2>3 DEF subVars, histVars
<1>5. QED BY <1>3, <1>4

LEMMA FinishTrackType ==
    ASSUME TypeOK, FinishTrack
    PROVE  TypeOK'
<1> USE DEF TypeOK
<1>1. next - 1 \in Nat /\ finishes' \in Nat
  BY DEF FinishTrack
<1>2. \A p \in Peers : Append(down[p], TrackEnd(next - 1)) \in Seq(DownFrame)
  BY <1>1 DEF TrackEnd, DownFrame
<1>3. \A p \in Peers : [ack[p] EXCEPT !.sent = next - 1] \in AckState
  <2>1. next - 1 \in Ids /\ \A p \in Peers : ack[p] \in AckState
    BY <1>1
  <2>2. QED BY <2>1, SentType
<1>4. /\ down' \in [Peers -> Seq(DownFrame)]
      /\ ack' \in [Peers -> AckState]
      /\ lastCkpt' \in Ids
  BY <1>1, <1>2, <1>3 DEF FinishTrack
<1>5. QED
  BY <1>1, <1>4 DEF FinishTrack, subVars, histVars

\* Taking a frame off the peer's control stream.
LEMMA ArrivedType ==
    ASSUME TypeOK, NEW p \in Peers, NEW type, Arrived(p, type)
    PROVE  /\ Head(up[p]).id \in Nat
           /\ [up EXCEPT ![p] = Tail(@)] \in [Peers -> Seq(UpFrame)]
<1>1. up[p] \in Seq(UpFrame) /\ up[p] # <<>>
  BY DEF TypeOK, Arrived
<1>2. Head(up[p]) \in UpFrame /\ Tail(up[p]) \in Seq(UpFrame)
  BY <1>1
<1>3. QED BY <1>2 DEF TypeOK, UpFrame

LEMMA HandleSubscribeType ==
    ASSUME TypeOK, NEW p \in Peers, HandleSubscribe(p)
    PROVE  TypeOK'
<1>1. up' \in [Peers -> Seq(UpFrame)]
  BY ArrivedType DEF HandleSubscribe
<1>2. lastCkpt \in Ids /\ lastCkpt + 1 \in Nat /\ next \in Nat
  BY DEF TypeOK
<1>3. JoinAck \in AckState
  BY <1>2 DEF JoinAck, AckState
<1>4. down' \in [Peers -> Seq(DownFrame)]
  <2>1. lastCkpt # NoId => Baseline(lastCkpt) \in DownFrame
    BY <1>2 DEF Baseline, DownFrame
  <2>2. down \in [Peers -> Seq(DownFrame)]
    BY DEF TypeOK
  <2>3. down' = IF lastCkpt = NoId THEN down
                ELSE [down EXCEPT ![p] = Append(@, Baseline(lastCkpt))]
    BY DEF HandleSubscribe
  <2>4. QED BY <2>1, <2>2, <2>3
<1>5. /\ member' \in [Peers -> BOOLEAN] /\ delivered' \in SUBSET Peers
      /\ ack' \in [Peers -> AckState]
  BY <1>3 DEF TypeOK, HandleSubscribe
<1>6. floor' \in [Peers -> Nat] /\ joined' \in [Peers -> Nat]
  BY <1>2 DEF TypeOK, HandleSubscribe
<1>7. UNCHANGED <<next, lastCkpt, finishes, buffered, cache, conn, pconn, rsub, rx, dgrams,
                  emitted, errors, spent>>
  BY DEF HandleSubscribe, subVars
<1>8. QED BY <1>1, <1>4, <1>5, <1>6, <1>7 DEF TypeOK

LEMMA RemoveMemberType ==
    ASSUME TypeOK, NEW p \in Peers, RemoveMember(p)
    PROVE  /\ member' \in [Peers -> BOOLEAN]
           /\ ack' \in [Peers -> AckState]
           /\ cache' \in SUBSET Nat
<1>1. NewAck \in AckState
  BY DEF NewAck, AckState
<1>2. StillOwed(cache, Members \ {p}, ack) \in SUBSET Nat
  BY DEF StillOwed, TypeOK
<1>3. QED BY <1>1, <1>2 DEF RemoveMember, TypeOK

LEMMA HandleUnsubscribeType ==
    ASSUME TypeOK, NEW p \in Peers, HandleUnsubscribe(p)
    PROVE  TypeOK'
<1>1. up' \in [Peers -> Seq(UpFrame)]
  BY ArrivedType DEF HandleUnsubscribe
<1>2. QED
  BY <1>1, RemoveMemberType DEF HandleUnsubscribe, TypeOK, subVars, histVars

LEMMA HandleAckType ==
    ASSUME TypeOK, NEW p \in Peers, HandleAck(p)
    PROVE  TypeOK'
<1> DEFINE id == Head(up[p]).id
           acks == [ack EXCEPT ![p].acked = IF id > @ THEN id ELSE @]
<1>1. id \in Nat /\ [up EXCEPT ![p] = Tail(@)] \in [Peers -> Seq(UpFrame)]
  BY ArrivedType DEF HandleAck
<1>2. acks \in [Peers -> AckState]
  <2>1. (IF id > ack[p].acked THEN id ELSE ack[p].acked) \in Ids
    BY <1>1 DEF TypeOK, AckState
  <2>2. ack[p] \in AckState
    BY DEF TypeOK
  <2>3. \A a \in Ids : [ack[p] EXCEPT !.acked = a] \in AckState
    BY <2>2 DEF AckState
  <2>4. QED BY <2>1, <2>3 DEF TypeOK
<1>3. StillOwed(cache, Members, acks) \in SUBSET Nat
  BY DEF TypeOK, StillOwed
<1>4. CASE AckValid(p, id)
  BY <1>1, <1>2, <1>3, <1>4 DEF HandleAck, TypeOK, subVars
<1>5. CASE ~AckValid(p, id)
  <2>0. up' = [up EXCEPT ![p] = <<>>] /\ <<>> \in Seq(UpFrame)
    BY <1>5 DEF HandleAck
  <2>1. up' \in [Peers -> Seq(UpFrame)]
    BY <2>0 DEF TypeOK
  <2>2. /\ conn' = [conn EXCEPT ![p] = "closing"] /\ errors' = errors \cup {p}
        /\ UNCHANGED <<ack, cache>>
    BY <1>5 DEF HandleAck
  <2>3. conn' \in [Peers -> {"open", "closing", "none"}] /\ errors' \in SUBSET Peers
    BY <2>2 DEF TypeOK
  <2>4. UNCHANGED <<next, lastCkpt, finishes, buffered, delivered, member, pconn, rsub, rx, down,
                    dgrams, emitted, floor, joined, spent>>
    BY DEF HandleAck, subVars
  <2>5. QED BY <2>1, <2>2, <2>3, <2>4 DEF TypeOK
<1>6. QED BY <1>4, <1>5

LEMMA HandleNackType ==
    ASSUME TypeOK, NEW p \in Peers, NEW repaired \in BOOLEAN, HandleNack(p, repaired)
    PROVE  TypeOK'
<1>1. Head(up[p]).id \in Nat /\ up' \in [Peers -> Seq(UpFrame)]
  BY ArrivedType DEF HandleNack
<1>2. dgrams' \in [Peers -> SUBSET Nat]
  BY <1>1 DEF HandleNack, TypeOK
<1>3. QED
  BY <1>1, <1>2 DEF HandleNack, TypeOK, pubVars, subVars, histVars

LEMMA SendNackType ==
    ASSUME TypeOK, NEW p \in Peers, NEW o \in Wanted(rx[p]), SendNack(p, o)
    PROVE  TypeOK'
<1>1. o \in Nat
  BY DEF TypeOK, RxState, WindowState, Wanted
<1>2. QED
  BY <1>1 DEF TypeOK, SendNack, Nack, UpFrame, pubVars, subVars, histVars

\* Taking a frame off the publisher's control stream.
LEMMA ReceivedType ==
    ASSUME TypeOK, NEW p \in Peers, NEW type, Received(p, type)
    PROVE  /\ Head(down[p]).first \in Nat
           /\ Head(down[p]).final \in Nat
           /\ [down EXCEPT ![p] = Tail(@)] \in [Peers -> Seq(DownFrame)]
<1>1. down[p] \in Seq(DownFrame) /\ down[p] # <<>>
  BY DEF TypeOK, Received
<1>2. Head(down[p]) \in DownFrame /\ Tail(down[p]) \in Seq(DownFrame)
  BY <1>1
<1>3. QED BY <1>2 DEF TypeOK, DownFrame

\* An acknowledgement of any object keeps the type of the control stream.
LEMMA AppendAckType ==
    ASSUME TypeOK, NEW p \in Peers, NEW id \in Nat
    PROVE  [up EXCEPT ![p] = Append(@, Ack(id))] \in [Peers -> Seq(UpFrame)]
<1>1. Ack(id) \in UpFrame
  BY DEF Ack, UpFrame
<1>2. QED BY <1>1 DEF TypeOK

LEMMA AcknowledgeCompletedType ==
    ASSUME TypeOK, NEW p \in Peers, NEW r \in RxState, NEW room \in BOOLEAN,
           AcknowledgeCompleted(p, r, room)
    PROVE  /\ rx' \in [Peers -> RxState]
           /\ up' \in [Peers -> Seq(UpFrame)]
<1>1. CASE /\ CompletedPrefix(r) = {} \/ ~room
           /\ rx' = [rx EXCEPT ![p] = r]
           /\ UNCHANGED up
  BY <1>1 DEF TypeOK
<1>2. ASSUME NEW w \in CompletedPrefix(r),
             rx' = [rx EXCEPT ![p] =
                      RetireThrough([r EXCEPT !.windows =
                                       {v \in @ : v.final > w.final}], w.final)],
             up' = [up EXCEPT ![p] = Append(@, Ack(w.final))]
      PROVE  /\ rx' \in [Peers -> RxState]
             /\ up' \in [Peers -> Seq(UpFrame)]
  <2>1. w.final \in Nat
    BY DEF CompletedPrefix, RxState, WindowState
  <2>2. [r EXCEPT !.windows = {v \in @ : v.final > w.final}] \in RxState
    BY DEF RxState
  <2>3. QED BY <1>2, <2>1, <2>2, RetireType, AppendAckType DEF TypeOK
<1>3. QED BY <1>1, <1>2 DEF AcknowledgeCompleted

LEMMA NewRxType == NewRx \in RxState
BY DEF NewRx, RxState

LEMMA DropPeerEndType ==
    ASSUME TypeOK, NEW p \in Peers, DropPeerEnd(p)
    PROVE  /\ pconn' \in [Peers -> {"open", "closed"}]
           /\ rsub' \in [Peers -> BOOLEAN]
           /\ rx' \in [Peers -> RxState]
           /\ down' \in [Peers -> Seq(DownFrame)]
           /\ dgrams' \in [Peers -> SUBSET Nat]
<1>1. <<>> \in Seq(DownFrame)
  OBVIOUS
<1>2. QED BY <1>1, NewRxType DEF DropPeerEnd, TypeOK

\* What any control frame of the publisher may change, and how.
ControlTyped ==
    /\ pconn' \in [Peers -> {"open", "closed"}]
    /\ rsub' \in [Peers -> BOOLEAN]
    /\ rx' \in [Peers -> RxState]
    /\ down' \in [Peers -> Seq(DownFrame)]
    /\ up' \in [Peers -> Seq(UpFrame)]
    /\ dgrams' \in [Peers -> SUBSET Nat]
    /\ errors' \in SUBSET Peers

LEMMA ProtocolErrorType ==
    ASSUME TypeOK, NEW p \in Peers, ProtocolError(p)
    PROVE  ControlTyped
BY DropPeerEndType DEF ProtocolError, ControlTyped, TypeOK

LEMMA ReceiveRecoveryCheckpointType ==
    ASSUME TypeOK, NEW p \in Peers, NEW first \in Nat, NEW final \in Nat,
           NEW room \in BOOLEAN, NEW type, Received(p, type),
           ReceiveRecoveryCheckpoint(p, first, final, room)
    PROVE  ControlTyped
<1> DEFINE r == rx[p]
<1>1. r \in RxState /\ [down EXCEPT ![p] = Tail(@)] \in [Peers -> Seq(DownFrame)]
  BY ReceivedType DEF TypeOK
<1>2. CASE \E w \in r.windows : w.first = first /\ w.final = final
  BY <1>1, <1>2 DEF ReceiveRecoveryCheckpoint, ControlTyped, TypeOK
<1>3. CASE /\ ~(\E w \in r.windows : w.first = first /\ w.final = final)
           /\ CheckpointRejected(r, first, final)
  BY <1>3, ProtocolErrorType DEF ReceiveRecoveryCheckpoint
<1>4. CASE /\ ~(\E w \in r.windows : w.first = first /\ w.final = final)
           /\ ~CheckpointRejected(r, first, final)
  <2>1. /\ down' = [down EXCEPT ![p] = Tail(@)]
        /\ UNCHANGED <<pconn, rsub, dgrams, errors>>
    BY <1>4 DEF ReceiveRecoveryCheckpoint
  <2>2. rx' \in [Peers -> RxState] /\ up' \in [Peers -> Seq(UpFrame)]
    <3>1. CASE r.last # NoId /\ final <= r.last
      <4>1. up' = [up EXCEPT ![p] = Append(@, Ack(final))] /\ UNCHANGED rx
        BY <1>4, <3>1 DEF ReceiveRecoveryCheckpoint
      <4>2. QED BY <4>1, AppendAckType DEF TypeOK
    <3>2. CASE ~(r.last # NoId /\ final <= r.last)
      BY <1>1, <1>4, <3>2, OpenWindowType, AcknowledgeCompletedType
      DEF ReceiveRecoveryCheckpoint
    <3>3. QED BY <3>1, <3>2
  <2>3. QED BY <1>1, <2>1, <2>2 DEF ControlTyped, TypeOK
<1>5. QED BY <1>2, <1>3, <1>4

LEMMA HandleCheckpointType ==
    ASSUME TypeOK, NEW p \in Peers, NEW room \in BOOLEAN, HandleCheckpoint(p, room)
    PROVE  TypeOK'
<1>1. ControlTyped
  BY ReceivedType, ReceiveRecoveryCheckpointType, ProtocolErrorType DEF HandleCheckpoint
<1>2. QED BY <1>1 DEF HandleCheckpoint, ControlTyped, TypeOK, pubVars

LEMMA HandleBaselineType ==
    ASSUME TypeOK, NEW p \in Peers, HandleBaseline(p)
    PROVE  TypeOK'
<1> DEFINE id == Head(down[p]).final
<1>1. ControlTyped
  <2>1. id \in Nat /\ [down EXCEPT ![p] = Tail(@)] \in [Peers -> Seq(DownFrame)]
    BY ReceivedType DEF HandleBaseline
  <2>2. CASE rsub[p] /\ rx[p].last <= id
    <3>1. [rx[p] EXCEPT !.last = id] \in RxState
      BY <2>1, LastType DEF TypeOK
    <3>2. [rx EXCEPT ![p].last = id] \in [Peers -> RxState]
      BY <3>1 DEF TypeOK
    <3>3. /\ rx' = [rx EXCEPT ![p].last = id]
          /\ up' = [up EXCEPT ![p] = Append(@, Ack(id))]
          /\ down' = [down EXCEPT ![p] = Tail(@)]
          /\ UNCHANGED <<pconn, rsub, dgrams, errors>>
      BY <2>2 DEF HandleBaseline
    <3>4. QED BY <2>1, <3>2, <3>3, AppendAckType DEF ControlTyped, TypeOK
  <2>3. CASE ~(rsub[p] /\ rx[p].last <= id)
    BY <2>3, ProtocolErrorType DEF HandleBaseline
  <2>4. QED BY <2>2, <2>3
<1>2. QED BY <1>1 DEF HandleBaseline, ControlTyped, TypeOK, pubVars

LEMMA HandleTrackEndType ==
    ASSUME TypeOK, NEW p \in Peers, NEW room \in BOOLEAN, HandleTrackEnd(p, room)
    PROVE  TypeOK'
<1> DEFINE id == Head(down[p]).final
           r  == rx[p]
           first == IF r.last # NoId THEN r.last + 1
                    ELSE IF id + 1 >= Window THEN id + 1 - Window ELSE 0
<1>1. ControlTyped
  <2>1. id \in Nat /\ [down EXCEPT ![p] = Tail(@)] \in [Peers -> Seq(DownFrame)]
    BY ReceivedType DEF HandleTrackEnd
  <2>2. r \in RxState /\ first \in Nat
    <3>1. r \in RxState
      BY DEF TypeOK
    <3>2. r.last \in Ids
      BY <3>1 DEF RxState
    <3> HIDE DEF r, id
    <3>3. first \in Nat
      BY <2>1, <3>2, WindowAssumption
    <3>4. QED BY <3>1, <3>3
  <2>3. CASE ~rsub[p]
    BY <2>3, ProtocolErrorType DEF HandleTrackEnd
  <2>4. CASE rsub[p] /\ r.last # NoId /\ id <= r.last
    <3>1. rx' \in [Peers -> RxState] /\ up' \in [Peers -> Seq(UpFrame)]
      <4>1. CASE NothingOutstanding(r)
        <5>1. /\ up' = [up EXCEPT ![p] = Append(@, Ack(id))]
              /\ rx' = [rx EXCEPT ![p] = RetireThrough(r, id)]
          BY <2>4, <4>1 DEF HandleTrackEnd
        <5>2. QED BY <2>1, <2>2, <5>1, AppendAckType, RetireType DEF TypeOK
      <4>2. CASE ~NothingOutstanding(r)
        BY <2>4, <4>2 DEF HandleTrackEnd, TypeOK
      <4>3. QED BY <4>1, <4>2
    <3>2. QED BY <2>1, <2>4, <3>1 DEF HandleTrackEnd, ControlTyped, TypeOK
  <2>5. CASE rsub[p] /\ ~(r.last # NoId /\ id <= r.last)
    BY <2>1, <2>2, <2>5, ReceiveRecoveryCheckpointType DEF HandleTrackEnd
  <2>6. QED BY <2>3, <2>4, <2>5
<1>2. QED BY <1>1 DEF HandleTrackEnd, ControlTyped, TypeOK, pubVars

LEMMA ReceiveDatagramType ==
    ASSUME TypeOK, NEW p \in Peers, NEW o \in dgrams[p], NEW room \in BOOLEAN,
           ReceiveDatagram(p, o, room)
    PROVE  TypeOK'
<1> DEFINE r == MarkObjectDelivered(ObserveObject(rx[p], o), o)
           marked == [r EXCEPT !.windows = {[w EXCEPT !.missing = @ \ {o}] : w \in @}]
<1>1. o \in Nat /\ rx[p] \in RxState
  BY DEF TypeOK
<1>2. marked \in RxState
  BY <1>1, ObserveType, MarkType, UnmissType
<1>3. rx' \in [Peers -> RxState] /\ up' \in [Peers -> Seq(UpFrame)]
  <2>1. CASE AcknowledgeCompleted(p, marked, room)
    <3> HIDE DEF marked
    <3>1. QED BY <1>2, <2>1, AcknowledgeCompletedType
  <2>2. CASE UNCHANGED <<rx, up, emitted>>
    BY <2>2 DEF TypeOK
  <2>3. QED BY <2>1, <2>2 DEF ReceiveDatagram
<1>4. dgrams' \in [Peers -> SUBSET Nat]
  BY DEF ReceiveDatagram, TypeOK
<1>5. emitted' \in [Peers -> SUBSET Nat]
  <2>1. [emitted EXCEPT ![p] = @ \cup {o}] \in [Peers -> SUBSET Nat]
    BY <1>1 DEF TypeOK
  <2>2. QED BY <2>1 DEF ReceiveDatagram, TypeOK
<1>6. QED BY <1>3, <1>4, <1>5 DEF ReceiveDatagram, TypeOK, pubVars

LEMMA FlushRecoveryAcksType ==
    ASSUME TypeOK, NEW p \in Peers, FlushRecoveryAcks(p)
    PROVE  TypeOK'
<1>1. rx' \in [Peers -> RxState] /\ up' \in [Peers -> Seq(UpFrame)]
  BY AcknowledgeCompletedType DEF FlushRecoveryAcks, TypeOK
<1>2. QED BY <1>1 DEF FlushRecoveryAcks, TypeOK, pubVars, histVars

LEMMA LoseDatagramType ==
    ASSUME TypeOK, NEW p \in Peers, NEW o \in dgrams[p], LoseDatagram(p, o)
    PROVE  TypeOK'
BY DEF LoseDatagram, TypeOK, pubVars, subVars, histVars

LEMMA SpentType ==
    ASSUME NEW s \in Spent
    PROVE  /\ [s EXCEPT !.reconnects = @ + 1] \in Spent
           /\ [s EXCEPT !.unsubscribes = @ + 1] \in Spent
           /\ [s EXCEPT !.resubscribes = @ + 1] \in Spent
BY DEF Spent

LEMMA SubscribeTrackType ==
    ASSUME TypeOK, NEW p \in Peers, SubscribeTrack(p)
    PROVE  TypeOK'
<1>1. Subscribe \in UpFrame
  BY DEF Subscribe, UpFrame
<1>2. QED BY <1>1, NewRxType DEF SubscribeTrack, TypeOK, pubVars

LEMMA SubscribeAgainType ==
    ASSUME TypeOK, NEW p \in Peers, SubscribeAgain(p)
    PROVE  TypeOK'
<1>1. Subscribe \in UpFrame
  BY DEF Subscribe, UpFrame
<1>2. spent' \in Spent
  BY SpentType DEF SubscribeAgain, TypeOK
<1>3. QED BY <1>1, <1>2 DEF SubscribeAgain, TypeOK, pubVars, subVars

LEMMA UnsubscribeTrackType ==
    ASSUME TypeOK, NEW p \in Peers, UnsubscribeTrack(p)
    PROVE  TypeOK'
<1>1. Unsubscribe \in UpFrame
  BY DEF Unsubscribe, UpFrame
<1>2. spent' \in Spent
  BY SpentType DEF UnsubscribeTrack, TypeOK
<1>3. QED BY <1>1, <1>2, NewRxType DEF UnsubscribeTrack, TypeOK, pubVars

LEMMA DisconnectType ==
    ASSUME TypeOK, NEW p \in Peers, Disconnect(p)
    PROVE  TypeOK'
<1>1. spent' \in Spent
  BY SpentType DEF Disconnect, TypeOK
<1>2. QED BY <1>1, DropPeerEndType DEF Disconnect, TypeOK, pubVars

LEMMA CloseConnType ==
    ASSUME TypeOK, NEW p \in Peers, CloseConn(p)
    PROVE  TypeOK'
<1>1. spent' \in Spent
  BY SpentType DEF CloseConn, TypeOK
<1>2. <<>> \in Seq(UpFrame)
  OBVIOUS
<1>3. conn' \in [Peers -> {"open", "closing", "none"}] /\ up' \in [Peers -> Seq(UpFrame)]
  BY <1>2 DEF CloseConn, TypeOK
<1>4. QED BY <1>1, <1>3 DEF CloseConn, TypeOK, subVars

LEMMA NoticeCloseType ==
    ASSUME TypeOK, NEW p \in Peers, NoticeClose(p)
    PROVE  TypeOK'
<1>1. CASE pconn[p] = "closed"
  <2>1. <<>> \in Seq(UpFrame)
    OBVIOUS
  <2>2. conn' = [conn EXCEPT ![p] = "closing"] /\ up' = [up EXCEPT ![p] = <<>>]
    BY <1>1 DEF NoticeClose
  <2>3. conn' \in [Peers -> {"open", "closing", "none"}] /\ up' \in [Peers -> Seq(UpFrame)]
    BY <2>1, <2>2 DEF TypeOK
  <2>4. QED BY <1>1, <2>3 DEF NoticeClose, TypeOK, subVars, histVars
<1>2. CASE pconn[p] = "open"
  BY <1>2, DropPeerEndType DEF NoticeClose, TypeOK, pubVars, histVars
<1>3. QED BY <1>1, <1>2 DEF NoticeClose

LEMMA FreeConnectionType ==
    ASSUME TypeOK, NEW p \in Peers, FreeConnection(p)
    PROVE  TypeOK'
BY RemoveMemberType DEF FreeConnection, TypeOK, subVars, netVars, histVars

LEMMA ReconnectType ==
    ASSUME TypeOK, NEW p \in Peers, Reconnect(p)
    PROVE  TypeOK'
<1>1. <<>> \in Seq(UpFrame) /\ <<>> \in Seq(DownFrame)
  OBVIOUS
<1>2. QED BY <1>1 DEF Reconnect, TypeOK, histVars

LEMMA InitType == Init => TypeOK
<1>1. NewAck \in AckState /\ NewRx \in RxState
  BY NewRxType DEF NewAck, AckState
<1>2. <<>> \in Seq(UpFrame) /\ <<>> \in Seq(DownFrame)
  OBVIOUS
<1>3. Init => spent \in Spent /\ lastCkpt \in Ids /\ next \in Nat /\ finishes \in Nat
  BY DEF Init, Spent
<1>4. QED BY <1>1, <1>2, <1>3 DEF Init, TypeOK

LEMMA NextType == TypeOK /\ [Next]_vars => TypeOK'
<1> SUFFICES ASSUME TypeOK, [Next]_vars PROVE TypeOK'
  OBVIOUS
<1>1. CASE PublisherStep
  BY <1>1, BufferRecordType, FlushGroupedType, FinishTrackType DEF PublisherStep
<1>2. ASSUME NEW p \in Peers, ControlStep(p) PROVE TypeOK'
  BY <1>2, HandleSubscribeType, HandleUnsubscribeType, HandleAckType, HandleNackType,
     HandleCheckpointType, HandleBaselineType, HandleTrackEndType DEF ControlStep
<1>3. ASSUME NEW p \in Peers, DatagramStep(p) PROVE TypeOK'
  BY <1>3, ReceiveDatagramType, LoseDatagramType DEF DatagramStep
<1>4. ASSUME NEW p \in Peers, TickStep(p) PROVE TypeOK'
  BY <1>4, FlushRecoveryAcksType, SendNackType DEF TickStep
<1>5. ASSUME NEW p \in Peers, ChurnStep(p) PROVE TypeOK'
  BY <1>5, SubscribeTrackType, SubscribeAgainType, UnsubscribeTrackType, DisconnectType,
     CloseConnType, NoticeCloseType, FreeConnectionType, ReconnectType DEF ChurnStep
<1>6. CASE UNCHANGED vars
  BY <1>6 DEF vars, pubVars, subVars, netVars, histVars, TypeOK
<1>7. QED BY <1>1, <1>2, <1>3, <1>4, <1>5, <1>6 DEF Next

\* Every reachable state is well typed: object ids and watermarks stay in
\* range and the control streams carry only well formed frames.
THEOREM TypeCorrect == Spec => []TypeOK
BY InitType, NextType, PTL DEF Spec

-----------------------------------------------------------------------------
(* Retention of unacknowledged objects *)

\* A peer whose connection was freed is no member, so it cannot return to
\* Eligible with the acknowledgements of its former connection.
FreedIsNoMember == \A p \in Peers : conn[p] = "none" => ~member[p]

\* The inductive invariant.  Retention alone is not inductive: a repeated
\* SUBSCRIBE moves the peer's watermark to lastCkpt, which may only move it
\* forward, and a peer becomes eligible again only through HandleSubscribe.
Retention ==
    /\ TypeOK
    /\ WatermarksOrdered
    /\ FreedIsNoMember
    /\ UnackedIsRetained

LEMMA InitRetention == Init => Retention
<1> SUFFICES ASSUME Init PROVE Retention
  OBVIOUS
<1>1. TypeOK
  BY InitType
<1>2. WatermarksOrdered
  BY DEF Init, WatermarksOrdered, NewAck
<1>3. FreedIsNoMember
  BY DEF Init, FreedIsNoMember
<1>4. UnackedIsRetained
  BY DEF Init, UnackedIsRetained, Eligible, Members
<1>5. QED BY <1>1, <1>2, <1>3, <1>4 DEF Retention

\* Steps that leave the publisher's numbering, cache, membership and
\* acknowledgements alone.
LEMMA IdleRetention ==
    ASSUME Retention, TypeOK',
           UNCHANGED <<next, lastCkpt, cache, conn, member, ack, joined>>
    PROVE  Retention'
<1>1. WatermarksOrdered'
  BY DEF Retention, WatermarksOrdered
<1>2. FreedIsNoMember'
  BY DEF Retention, FreedIsNoMember
<1>3. UnackedIsRetained'
  BY DEF Retention, UnackedIsRetained, Eligible, Members
<1>4. QED BY <1>1, <1>2, <1>3 DEF Retention

\* A connection that stops being open takes its peer out of Eligible.
LEMMA ClosingRetention ==
    ASSUME Retention, TypeOK', NEW p \in Peers,
           conn' = [conn EXCEPT ![p] = "closing"],
           UNCHANGED <<next, lastCkpt, cache, member, ack, joined>>
    PROVE  Retention'
<1>1. WatermarksOrdered'
  BY DEF Retention, WatermarksOrdered
<1>2. FreedIsNoMember'
  BY DEF Retention, FreedIsNoMember, TypeOK
<1>3. UnackedIsRetained'
  BY DEF Retention, UnackedIsRetained, Eligible, Members, TypeOK
<1>4. QED BY <1>1, <1>2, <1>3 DEF Retention

LEMMA FlushGroupedRetention ==
    ASSUME Retention, NEW admitted \in SUBSET Peers, FlushGrouped(admitted)
    PROVE  Retention'
<1> DEFINE sent == (delivered \cap Eligible) \cup admitted
<1>0. TypeOK /\ TypeOK'
  BY FlushGroupedType DEF Retention
<1>1. /\ UNCHANGED <<conn, member>> /\ UNCHANGED joined
      /\ cache' = IF sent # {} THEN cache \cup {next} ELSE cache
  BY DEF FlushGrouped, histVars
<1>2. Eligible' = Eligible /\ Eligible \subseteq Peers
  BY <1>1 DEF Eligible, Members
<1>3. FreedIsNoMember'
  BY <1>1 DEF Retention, FreedIsNoMember
<1>4. CASE sent # Eligible
  <2>1. UNCHANGED <<next, lastCkpt, ack>>
    BY <1>4 DEF FlushGrouped
  <2>2. WatermarksOrdered'
    BY <2>1 DEF Retention, WatermarksOrdered
  <2>3. UnackedIsRetained'
    BY <1>1, <1>2, <2>1 DEF Retention, UnackedIsRetained
  <2>4. QED BY <1>0, <1>3, <2>2, <2>3 DEF Retention
<1>5. CASE ~(sent # Eligible)
  <2>1. next' = next + 1
    BY <1>5 DEF FlushGrouped
  <2>2. /\ lastCkpt' = lastCkpt \/ lastCkpt' = next
        /\ lastCkpt <= lastCkpt'
        /\ \A p \in Peers : /\ ack'[p].acked = ack[p].acked
                            /\ ack'[p].sent = ack[p].sent \/ ack'[p].sent = lastCkpt'
    <3>1. CASE (next + 1) % Window = 0
      <4>1. /\ lastCkpt' = next
            /\ ack' = [p \in Peers |->
                  IF p \in Eligible THEN [ack[p] EXCEPT !.sent = next] ELSE ack[p]]
        BY <1>5, <3>1 DEF FlushGrouped, EmitRollingCheckpoint
      <4>2. \A p \in Peers : /\ ack'[p].acked = ack[p].acked
                             /\ ack'[p].sent = ack[p].sent \/ ack'[p].sent = next
        BY <1>0, <4>1 DEF TypeOK, AckState
      <4>3. QED BY <1>0, <4>1, <4>2 DEF Retention, WatermarksOrdered, TypeOK
    <3>2. CASE (next + 1) % Window # 0
      <4>1. UNCHANGED <<lastCkpt, ack>>
        BY <1>5, <3>2 DEF FlushGrouped
      <4>2. QED BY <1>0, <4>1 DEF TypeOK
    <3>3. QED BY <3>1, <3>2
  <2>3. WatermarksOrdered'
    <3>1. lastCkpt' < next'
      BY <1>0, <2>1, <2>2 DEF Retention, WatermarksOrdered, TypeOK
    <3>2. ASSUME NEW p \in Peers
          PROVE  ack'[p].acked <= ack'[p].sent /\ ack'[p].sent <= lastCkpt'
      <4>1. /\ ack[p].acked \in Ids /\ ack[p].sent \in Ids
            /\ lastCkpt \in Ids /\ lastCkpt' \in Ids
        BY <1>0 DEF TypeOK, AckState
      <4>2. ack[p].acked <= ack[p].sent /\ ack[p].sent <= lastCkpt
        BY DEF Retention, WatermarksOrdered
      <4>3. QED BY <2>2, <4>1, <4>2
    <3>3. QED BY <3>1, <3>2 DEF WatermarksOrdered
  <2>4. UnackedIsRetained'
    <3>0. next' - 1 = next
      BY <1>0, <2>1 DEF TypeOK
    <3>1. SUFFICES ASSUME NEW p \in Eligible, NEW o \in joined[p] .. next,
                          ack[p].acked < o
                   PROVE  o \in cache'
      <4>1. \A p \in Eligible : ack'[p].acked = ack[p].acked
        BY <1>2, <2>2
      <4>2. QED BY <1>1, <1>2, <3>0, <4>1, Zenon DEF UnackedIsRetained
    <3>2. CASE o = next
      BY <1>1, <1>5, <3>2
    <3>3. CASE o # next
      <4>1. joined[p] \in Nat /\ next \in Nat
        BY <1>0, <1>2 DEF TypeOK
      <4>2. o \in joined[p] .. next - 1
        BY <3>3, <4>1
      <4>3. o \in cache
        BY <3>1, <4>2 DEF Retention, UnackedIsRetained
      <4>4. QED BY <1>1, <4>3
    <3>4. QED BY <3>2, <3>3
  <2>5. QED BY <1>0, <1>3, <2>3, <2>4 DEF Retention
<1>6. QED BY <1>4, <1>5

LEMMA FinishTrackRetention ==
    ASSUME Retention, FinishTrack
    PROVE  Retention'
<1>0. TypeOK /\ TypeOK'
  BY FinishTrackType DEF Retention
<1>1. /\ UNCHANGED <<next, cache, conn, member>> /\ UNCHANGED joined
      /\ lastCkpt' = next - 1
      /\ ack' = [p \in Peers |->
                  IF p \in Eligible THEN [ack[p] EXCEPT !.sent = next - 1]
                                    ELSE ack[p]]
  BY DEF FinishTrack, histVars
<1>2. \A p \in Peers : /\ ack'[p].acked = ack[p].acked
                       /\ ack'[p].sent = ack[p].sent \/ ack'[p].sent = lastCkpt'
  BY <1>0, <1>1 DEF TypeOK, AckState
<1>3. WatermarksOrdered'
  <2>1. lastCkpt <= lastCkpt' /\ lastCkpt' < next'
    BY <1>0, <1>1 DEF Retention, WatermarksOrdered, TypeOK
  <2>2. ASSUME NEW p \in Peers
        PROVE  ack'[p].acked <= ack'[p].sent /\ ack'[p].sent <= lastCkpt'
    <3>1. /\ ack[p].acked \in Ids /\ ack[p].sent \in Ids
          /\ lastCkpt \in Ids /\ lastCkpt' \in Ids
      BY <1>0 DEF TypeOK, AckState
    <3>2. ack[p].acked <= ack[p].sent /\ ack[p].sent <= lastCkpt
      BY DEF Retention, WatermarksOrdered
    <3>3. QED BY <1>2, <2>1, <3>1, <3>2
  <2>3. QED BY <2>1, <2>2 DEF WatermarksOrdered
<1>4. FreedIsNoMember'
  BY <1>1 DEF Retention, FreedIsNoMember
<1>5. UnackedIsRetained'
  BY <1>1, <1>2 DEF Retention, UnackedIsRetained, Eligible, Members
<1>6. QED BY <1>0, <1>3, <1>4, <1>5 DEF Retention

LEMMA HandleSubscribeRetention ==
    ASSUME Retention, NEW p \in Peers, HandleSubscribe(p)
    PROVE  Retention'
<1>0. TypeOK /\ TypeOK'
  BY HandleSubscribeType DEF Retention
<1>1. /\ UNCHANGED <<next, lastCkpt, cache, conn>>
      /\ conn[p] = "open"
      /\ member' = [member EXCEPT ![p] = TRUE]
      /\ ack' = [ack EXCEPT ![p] = [sent |-> lastCkpt, acked |-> lastCkpt]]
      /\ member[p] => joined' = joined
      /\ ~member[p] => joined' = [joined EXCEPT ![p] = next]
  BY DEF HandleSubscribe, JoinAck, Arrived
<1>2. WatermarksOrdered'
  BY <1>0, <1>1 DEF Retention, WatermarksOrdered, TypeOK
<1>3. FreedIsNoMember'
  BY <1>0, <1>1 DEF Retention, FreedIsNoMember, TypeOK
<1>4. UnackedIsRetained'
  <2> SUFFICES ASSUME NEW q \in Eligible', NEW o \in joined'[q] .. next - 1,
                      ack'[q].acked < o
               PROVE  o \in cache
    BY <1>1 DEF UnackedIsRetained
  <2>1. q \in Peers /\ joined[q] \in Nat /\ next \in Nat
    BY <1>0 DEF Eligible, Members, TypeOK
  <2>2. CASE q # p
    BY <1>0, <1>1, <2>1, <2>2 DEF Retention, UnackedIsRetained, Eligible, Members, TypeOK
  <2>3. CASE q = p /\ ~member[p]
    BY <1>0, <1>1, <2>1, <2>3 DEF TypeOK
  <2>4. CASE q = p /\ member[p]
    <3>1. p \in Eligible /\ o \in joined[p] .. next - 1
      BY <1>1, <2>4 DEF Eligible, Members
    <3>2. /\ ack[p].acked \in Ids /\ ack[p].sent \in Ids /\ lastCkpt \in Ids
          /\ ack[p].acked <= ack[p].sent /\ ack[p].sent <= lastCkpt
      BY <1>0 DEF Retention, WatermarksOrdered, TypeOK, AckState
    <3>3. lastCkpt < o
      BY <1>0, <1>1, <2>4 DEF TypeOK
    <3>4. ack[p].acked < o
      BY <2>1, <3>1, <3>2, <3>3
    <3>5. QED BY <3>1, <3>4 DEF Retention, UnackedIsRetained
  <2>5. QED BY <2>2, <2>3, <2>4
<1>5. QED BY <1>0, <1>2, <1>3, <1>4 DEF Retention

\* The cache keeps what any remaining member lacks.
LEMMA RemoveMemberRetention ==
    ASSUME Retention, TypeOK', NEW p \in Peers, RemoveMember(p),
           UNCHANGED <<next, lastCkpt, joined>>,
           \A q \in Peers \ {p} : conn'[q] = conn[q]
    PROVE  Retention'
<1>0. TypeOK
  BY DEF Retention
<1>1. /\ member' = [member EXCEPT ![p] = FALSE]
      /\ ack' = [ack EXCEPT ![p] = NewAck]
  BY DEF RemoveMember
<1>2. WatermarksOrdered'
  <2>1. lastCkpt \in Ids /\ lastCkpt < next
    BY <1>0 DEF Retention, WatermarksOrdered, TypeOK
  <2>2. ack'[p].acked <= ack'[p].sent /\ ack'[p].sent <= lastCkpt
    BY <1>0, <1>1, <2>1 DEF NewAck, TypeOK
  <2>3. ASSUME NEW q \in Peers, q # p
        PROVE  ack'[q].acked <= ack'[q].sent /\ ack'[q].sent <= lastCkpt
    BY <1>0, <1>1, <2>3 DEF Retention, WatermarksOrdered, TypeOK
  <2>4. QED BY <2>1, <2>2, <2>3 DEF WatermarksOrdered
<1>3. FreedIsNoMember'
  BY <1>0, <1>1 DEF Retention, FreedIsNoMember, TypeOK
<1>4. UnackedIsRetained'
  <2> SUFFICES ASSUME NEW q \in Eligible', NEW o \in joined[q] .. next - 1,
                      ack'[q].acked < o
               PROVE  o \in cache'
    BY DEF UnackedIsRetained
  <2>1. q \in Peers /\ q # p /\ member[q] /\ conn[q] = "open"
    BY <1>0, <1>1 DEF Eligible, Members, TypeOK
  <2>2. q \in Eligible /\ ack[q].acked < o
    BY <1>0, <1>1, <2>1 DEF Eligible, Members, TypeOK
  <2>3. o \in cache
    BY <2>2 DEF Retention, UnackedIsRetained
  <2>4. q \in Members \ {p}
    BY <2>1 DEF Members
  <2>5. o \in StillOwed(cache, Members \ {p}, ack)
    BY <2>2, <2>3, <2>4 DEF StillOwed
  <2>6. QED BY <2>3, <2>5 DEF RemoveMember
<1>5. QED BY <1>2, <1>3, <1>4 DEF Retention

LEMMA HandleAckRetention ==
    ASSUME Retention, NEW p \in Peers, HandleAck(p)
    PROVE  Retention'
<1> DEFINE id == Head(up[p]).id
           acks == [ack EXCEPT ![p].acked = IF id > @ THEN id ELSE @]
<1>0. TypeOK /\ TypeOK' /\ id \in Nat
  BY HandleAckType, ArrivedType DEF Retention, HandleAck
<1>1. CASE ~AckValid(p, id)
  BY <1>0, <1>1, ClosingRetention DEF HandleAck
<1>2. CASE AckValid(p, id)
  <2>1. /\ ack' = acks
        /\ cache' = StillOwed(cache, Members, ack')
        /\ UNCHANGED <<next, lastCkpt, conn, member>> /\ UNCHANGED joined
    BY <1>2 DEF HandleAck
  <2>2. /\ ack[p].acked \in Ids /\ ack[p].sent \in Ids
        /\ ack[p].acked <= ack[p].sent /\ ack[p].sent <= lastCkpt
        /\ id <= ack[p].sent
    BY <1>0, <1>2 DEF AckValid, Retention, WatermarksOrdered, TypeOK, AckState
  <2>3. ack'[p].acked = (IF id > ack[p].acked THEN id ELSE ack[p].acked)
        /\ ack'[p].sent = ack[p].sent
    BY <1>0, <2>1 DEF TypeOK, AckState
  <2>4. \A q \in Peers \ {p} : ack'[q] = ack[q]
    BY <1>0, <2>1 DEF TypeOK
  <2>5. WatermarksOrdered'
    <3>1. ack'[p].acked <= ack'[p].sent /\ ack'[p].sent <= lastCkpt
      BY <1>0, <2>2, <2>3
    <3>2. QED BY <2>1, <2>4, <3>1 DEF Retention, WatermarksOrdered
  <2>6. FreedIsNoMember'
    BY <2>1 DEF Retention, FreedIsNoMember
  <2>7. UnackedIsRetained'
    <3> SUFFICES ASSUME NEW q \in Eligible, NEW o \in joined[q] .. next - 1,
                        ack'[q].acked < o
                 PROVE  o \in cache'
      BY <2>1 DEF UnackedIsRetained, Eligible, Members
    <3>1. q \in Peers /\ q \in Members
      BY DEF Eligible, Members
    <3>2. ack[q].acked < o
      <4>1. CASE q # p
        BY <2>4, <3>1, <4>1
      <4>2. CASE q = p
        <5>1. o \in Int
          OBVIOUS
        <5>2. QED BY <1>0, <2>2, <2>3, <4>2, <5>1
      <4>3. QED BY <4>1, <4>2
    <3>3. o \in cache
      BY <3>2 DEF Retention, UnackedIsRetained
    <3>4. QED BY <2>1, <3>1, <3>3 DEF StillOwed
  <2>8. QED BY <1>0, <2>5, <2>6, <2>7 DEF Retention
<1>3. QED BY <1>1, <1>2

\* A new connection of a peer that is no member leaves Eligible as it is.
LEMMA ReconnectRetention ==
    ASSUME Retention, NEW p \in Peers, Reconnect(p)
    PROVE  Retention'
<1>0. TypeOK /\ TypeOK'
  BY ReconnectType DEF Retention
<1>1. /\ conn' = [conn EXCEPT ![p] = "open"] /\ ~member[p]
      /\ UNCHANGED <<next, lastCkpt, cache, member, ack>> /\ UNCHANGED joined
  BY DEF Reconnect, Retention, FreedIsNoMember, histVars
<1>2. WatermarksOrdered'
  BY <1>1 DEF Retention, WatermarksOrdered
<1>3. FreedIsNoMember'
  BY <1>0, <1>1 DEF Retention, FreedIsNoMember, TypeOK
<1>4. UnackedIsRetained'
  <2>1. Eligible' = Eligible
    BY <1>0, <1>1 DEF Eligible, Members, TypeOK
  <2>2. QED BY <1>1, <2>1 DEF Retention, UnackedIsRetained
<1>5. QED BY <1>0, <1>2, <1>3, <1>4 DEF Retention

LEMMA NextRetention == Retention /\ [Next]_vars => Retention'
<1> SUFFICES ASSUME Retention, [Next]_vars PROVE Retention'
  OBVIOUS
<1>0. TypeOK /\ TypeOK'
  BY NextType DEF Retention
<1> DEFINE Idle == UNCHANGED <<next, lastCkpt, cache, conn, member, ack, joined>>
<1>1. CASE PublisherStep
  <2>1. CASE BufferRecord
    <3>1. Idle
      BY <2>1 DEF BufferRecord, histVars
    <3>2. QED BY <1>0, <3>1, IdleRetention
  <2>2. QED
    BY <1>1, <2>1, FlushGroupedRetention, FinishTrackRetention DEF PublisherStep
<1>2. ASSUME NEW p \in Peers, ControlStep(p) PROVE Retention'
  <2>1. CASE HandleUnsubscribe(p)
    BY <1>0, <2>1, RemoveMemberRetention DEF HandleUnsubscribe, histVars
  <2>2. ASSUME NEW repaired \in BOOLEAN, HandleNack(p, repaired) PROVE Retention'
    <3>1. Idle
      BY <2>2 DEF HandleNack, pubVars, histVars
    <3>2. QED BY <1>0, <3>1, IdleRetention
  <2>3. ASSUME NEW room \in BOOLEAN, HandleCheckpoint(p, room) PROVE Retention'
    <3>1. Idle
      BY <2>3 DEF HandleCheckpoint, pubVars
    <3>2. QED BY <1>0, <3>1, IdleRetention
  <2>4. CASE HandleBaseline(p)
    <3>1. Idle
      BY <2>4 DEF HandleBaseline, pubVars
    <3>2. QED BY <1>0, <3>1, IdleRetention
  <2>5. ASSUME NEW room \in BOOLEAN, HandleTrackEnd(p, room) PROVE Retention'
    <3>1. Idle
      BY <2>5 DEF HandleTrackEnd, pubVars
    <3>2. QED BY <1>0, <3>1, IdleRetention
  <2>6. QED
    BY <1>2, <2>1, <2>2, <2>3, <2>4, <2>5, HandleSubscribeRetention, HandleAckRetention
    DEF ControlStep
<1>3. ASSUME NEW p \in Peers, DatagramStep(p) PROVE Retention'
  <2>1. Idle
    BY <1>3 DEF DatagramStep, ReceiveDatagram, LoseDatagram, pubVars, histVars
  <2>2. QED BY <1>0, <2>1, IdleRetention
<1>4. ASSUME NEW p \in Peers, TickStep(p) PROVE Retention'
  <2>1. Idle
    BY <1>4 DEF TickStep, FlushRecoveryAcks, SendNack, pubVars, histVars
  <2>2. QED BY <1>0, <2>1, IdleRetention
<1>5. ASSUME NEW p \in Peers, ChurnStep(p) PROVE Retention'
  <2>1. CASE SubscribeTrack(p) \/ SubscribeAgain(p) \/ UnsubscribeTrack(p) \/ Disconnect(p)
    <3>1. Idle
      BY <2>1 DEF SubscribeTrack, SubscribeAgain, UnsubscribeTrack, Disconnect, pubVars
    <3>2. QED BY <1>0, <3>1, IdleRetention
  <2>2. CASE NoticeClose(p) /\ pconn[p] = "closed"
    BY <1>0, <2>2, ClosingRetention DEF NoticeClose, histVars
  <2>3. CASE NoticeClose(p) /\ pconn[p] # "closed"
    <3>1. Idle
      BY <2>3 DEF NoticeClose, pubVars, histVars
    <3>2. QED BY <1>0, <3>1, IdleRetention
  <2>4. CASE FreeConnection(p)
    BY <1>0, <2>4, RemoveMemberRetention DEF FreeConnection, histVars, TypeOK
  <2>5. CASE CloseConn(p)
    BY <1>0, <2>5, ClosingRetention DEF CloseConn
  <2>6. QED
    BY <1>5, <2>1, <2>2, <2>3, <2>4, <2>5, ReconnectRetention DEF ChurnStep
<1>6. CASE UNCHANGED vars
  <2>1. Idle
    BY <1>6 DEF vars, pubVars, histVars
  <2>2. QED BY <1>0, <2>1, IdleRetention
<1>7. QED BY <1>1, <1>2, <1>3, <1>4, <1>5, <1>6 DEF Next

\* release_acked_checkpoints, checkpoint_member_removed and cache admission
\* together never lose an object an eligible subscriber has yet to
\* acknowledge, for any number of peers, any window and any churn.
THEOREM UnackedObjectsRetained == Spec => []UnackedIsRetained
<1>1. Retention => UnackedIsRetained
  BY DEF Retention
<1>2. QED BY InitRetention, NextRetention, <1>1, PTL DEF Spec

\* transport_publish_checkpoint_acked and member_added keep every peer's
\* acknowledged and sent watermarks within what was numbered.
THEOREM WatermarksStayOrdered == Spec => []WatermarksOrdered
<1>1. Retention => WatermarksOrdered
  BY DEF Retention
<1>2. QED BY InitRetention, NextRetention, <1>1, PTL DEF Spec

-----------------------------------------------------------------------------
(* What was handed over stays known *)

\* The gap detector leaves the delivered history alone.
LEMMA ObserveKeepsHistory ==
    ASSUME NEW r \in RxState, NEW o \in Nat
    PROVE  LET s == ObserveObject(r, o) IN
           /\ s \in RxState
           /\ s.largest = r.largest /\ s.delivered = r.delivered
           /\ s.windows = r.windows /\ s.last = r.last
<1> DEFINE q == QueueMissingObjects(r, r.seen + 1, o - r.seen - 1)
<1>1. q \in RxState \/ ~(r.seen # NoId /\ o > r.seen)
  <2>1. r.seen + 1 \in Nat /\ (o > r.seen => o - r.seen - 1 \in Nat)
    BY DEF RxState
  <2>2. QED BY <2>1, QueueType
<1>2. /\ q.largest = r.largest /\ q.delivered = r.delivered
      /\ q.windows = r.windows /\ q.last = r.last
  BY DEF QueueMissingObjects, RxState
<1>3. ObserveObject(r, o) \in RxState
  BY ObserveType
<1> HIDE DEF q
<1>4. ObserveObject(r, o) = IF r.seen = NoId THEN [r EXCEPT !.seen = o]
                            ELSE IF o > r.seen THEN [q EXCEPT !.seen = o]
                                 ELSE [r EXCEPT !.pending = @ \ {o}]
  BY DEF ObserveObject, q
<1>5. QED BY <1>1, <1>2, <1>3, <1>4 DEF RxState

\* What the receiver's state r of object o completing looks like: the fields
\* that later steps depend on.
LEMMA MarkedFields ==
    ASSUME NEW r \in RxState, NEW o \in Nat
    PROVE  LET top == IF o > r.largest THEN o ELSE r.largest
               s   == MarkObjectDelivered(ObserveObject(r, o), o)
           IN  /\ s \in RxState
               /\ s.largest = top
               /\ s.delivered = {d \in r.delivered \cup {o} : top - d < History}
               /\ s.windows = r.windows /\ s.last = r.last
<1> DEFINE q == ObserveObject(r, o)
<1>1. /\ q \in RxState /\ q.largest = r.largest /\ q.delivered = r.delivered
      /\ q.windows = r.windows /\ q.last = r.last
  BY ObserveKeepsHistory
<1>2. MarkObjectDelivered(q, o) \in RxState
  BY <1>1, MarkType
<1> HIDE DEF q
<1>3. QED BY <1>1, <1>2 DEF MarkObjectDelivered, RxState, q

\* History is a number; its value matters in one lemma only.
LEMMA HistoryIsNat == History \in Nat
BY WindowAssumption, MaxWindowsAssumption DEF History

\* An object once delivered is taken for a duplicate ever after: the window
\* over the history only moves forward.
LEMMA DeliveredStays ==
    ASSUME NEW r \in RxState, NEW o \in Nat, NEW e \in Nat,
           ObjectWasDelivered(r, e) \/ e = o
    PROVE  ObjectWasDelivered(MarkObjectDelivered(ObserveObject(r, o), o), e)
<1> DEFINE top == IF o > r.largest THEN o ELSE r.largest
           s   == MarkObjectDelivered(ObserveObject(r, o), o)
<1>1. /\ s.largest = top
      /\ s.delivered = {d \in r.delivered \cup {o} : top - d < History}
  BY MarkedFields
<1>2. r.largest \in Int /\ top \in Int /\ History \in Int
  BY HistoryIsNat DEF RxState
<1>3. e <= top /\ r.largest <= top
  BY <1>2 DEF ObjectWasDelivered
<1>4. top - e >= History \/ e \in s.delivered
  BY <1>1, <1>2, <1>3 DEF ObjectWasDelivered
<1> HIDE DEF top, s
<1>5. ObjectWasDelivered(s, e)
  BY <1>1, <1>3, <1>4 DEF ObjectWasDelivered
<1>6. QED BY <1>5 DEF s

\* Acknowledging windows does not touch the history.
LEMMA AcknowledgeKeepsHistory ==
    ASSUME TypeOK, NEW p \in Peers, NEW r \in RxState, NEW room \in BOOLEAN,
           AcknowledgeCompleted(p, r, room)
    PROVE  \A q \in Peers : IF q = p
                            THEN rx'[q].largest = r.largest /\ rx'[q].delivered = r.delivered
                            ELSE rx'[q] = rx[q]
<1>1. ASSUME NEW w \in CompletedPrefix(r)
      PROVE  LET s == RetireThrough([r EXCEPT !.windows = {v \in @ : v.final > w.final}], w.final)
             IN  s.largest = r.largest /\ s.delivered = r.delivered
  BY DEF RetireThrough, RxState
<1>2. CASE rx' = [rx EXCEPT ![p] = r]
  BY <1>2 DEF TypeOK
<1>3. CASE \E w \in CompletedPrefix(r) : rx' = [rx EXCEPT ![p] =
              RetireThrough([r EXCEPT !.windows = {v \in @ : v.final > w.final}], w.final)]
  BY <1>1, <1>3 DEF TypeOK
<1>4. QED BY <1>2, <1>3 DEF AcknowledgeCompleted

\* EmittedIsRemembered is inductive with the types: no step but a new
\* subscription empties the history, and that one empties `emitted' too.
Memory == TypeOK /\ EmittedIsRemembered

\* Steps that keep, for every peer that stays subscribed, its history and
\* what it was handed.
LEMMA SameHistory ==
    ASSUME Memory, TypeOK',
           \A q \in Peers : rsub'[q] =>
               /\ rsub[q] /\ emitted'[q] = emitted[q]
               /\ rx'[q].largest = rx[q].largest /\ rx'[q].delivered = rx[q].delivered
    PROVE  Memory'
<1>1. ASSUME NEW q \in Peers, rsub'[q], NEW o \in emitted'[q]
      PROVE  ObjectWasDelivered(rx'[q], o)
  BY <1>1 DEF Memory, EmittedIsRemembered, ObjectWasDelivered
<1>2. QED BY <1>1 DEF Memory, EmittedIsRemembered

LEMMA DropPeerEndMemory ==
    ASSUME Memory, TypeOK', NEW p \in Peers, DropPeerEnd(p), UNCHANGED emitted
    PROVE  Memory'
<1>1. \A q \in Peers : rsub'[q] => q # p /\ rsub[q] /\ rx'[q] = rx[q]
  BY DEF DropPeerEnd, Memory, TypeOK
<1>2. QED BY <1>1, SameHistory

\* Windows that open or are acknowledged.
LEMMA AcknowledgeMemory ==
    ASSUME Memory, TypeOK', NEW p \in Peers, NEW r \in RxState, NEW room \in BOOLEAN,
           AcknowledgeCompleted(p, r, room),
           r.largest = rx[p].largest, r.delivered = rx[p].delivered,
           UNCHANGED <<rsub, emitted>>
    PROVE  Memory'
<1>1. \A q \in Peers : /\ rx'[q].largest = rx[q].largest
                       /\ rx'[q].delivered = rx[q].delivered
  BY AcknowledgeKeepsHistory DEF Memory
<1>2. QED BY <1>1, SameHistory

LEMMA ReceiveRecoveryCheckpointMemory ==
    ASSUME Memory, TypeOK', NEW p \in Peers, NEW first \in Nat, NEW final \in Nat,
           NEW room \in BOOLEAN, ReceiveRecoveryCheckpoint(p, first, final, room),
           UNCHANGED emitted
    PROVE  Memory'
<1> DEFINE r == rx[p]
           s == OpenWindow(r, first, final)
<1>1. r \in RxState
  BY DEF Memory, TypeOK
<1>2. CASE UNCHANGED <<rx, rsub>>
  BY <1>2, SameHistory
<1>3. CASE ProtocolError(p)
  BY <1>3, DropPeerEndMemory DEF ProtocolError
<1>4. CASE AcknowledgeCompleted(p, s, room) /\ UNCHANGED rsub
  <2>1. s \in RxState
    BY <1>1, OpenWindowType
  <2>2. s.largest = r.largest /\ s.delivered = r.delivered
    BY <1>1 DEF OpenWindow, RxState
  <2> HIDE DEF r, s
  <2>3. QED BY <1>4, <2>1, <2>2, AcknowledgeMemory DEF r
<1>5. QED BY <1>2, <1>3, <1>4 DEF ReceiveRecoveryCheckpoint

LEMMA HandleTrackEndMemory ==
    ASSUME Memory, TypeOK', NEW p \in Peers, NEW room \in BOOLEAN, HandleTrackEnd(p, room)
    PROVE  Memory'
<1> DEFINE id == Head(down[p]).final
           r  == rx[p]
           first == IF r.last # NoId THEN r.last + 1
                    ELSE IF id + 1 >= Window THEN id + 1 - Window ELSE 0
<1>1. r \in RxState /\ id \in Nat /\ UNCHANGED emitted
  BY ReceivedType DEF Memory, HandleTrackEnd, TypeOK
<1>2. first \in Nat
  BY <1>1, WindowAssumption DEF RxState
<1>3. CASE ProtocolError(p)
  BY <1>1, <1>3, DropPeerEndMemory DEF ProtocolError
<1>4. CASE UNCHANGED rsub /\ (rx' = [rx EXCEPT ![p] = RetireThrough(r, id)] \/ UNCHANGED rx)
  <2>1. /\ RetireThrough(r, id).largest = r.largest
        /\ RetireThrough(r, id).delivered = r.delivered
    BY <1>1 DEF RetireThrough, RxState
  <2>2. \A q \in Peers : /\ rx'[q].largest = rx[q].largest
                         /\ rx'[q].delivered = rx[q].delivered
    BY <1>4, <2>1 DEF Memory, TypeOK
  <2>3. QED BY <1>1, <1>4, <2>2, SameHistory
<1>5. CASE ReceiveRecoveryCheckpoint(p, first, id, room)
  BY <1>1, <1>2, <1>5, ReceiveRecoveryCheckpointMemory
<1>6. QED BY <1>3, <1>4, <1>5 DEF HandleTrackEnd

LEMMA ReceiveDatagramMemory ==
    ASSUME Memory, TypeOK', NEW p \in Peers, NEW o \in dgrams[p], NEW room \in BOOLEAN,
           ReceiveDatagram(p, o, room)
    PROVE  Memory'
<1> DEFINE r == MarkObjectDelivered(ObserveObject(rx[p], o), o)
           marked == [r EXCEPT !.windows = {[w EXCEPT !.missing = @ \ {o}] : w \in @}]
<1>1. o \in Nat /\ rx[p] \in RxState /\ UNCHANGED rsub
  BY DEF Memory, TypeOK, ReceiveDatagram
<1>2. r \in RxState /\ marked \in RxState
  BY <1>1, ObserveType, MarkType, UnmissType
<1>3. marked.largest = r.largest /\ marked.delivered = r.delivered
  <2> HIDE DEF r
  <2>1. QED BY <1>2 DEF RxState
<1>4. CASE UNCHANGED <<rx, up, emitted>>
  BY <1>1, <1>4, SameHistory
<1>5. CASE AcknowledgeCompleted(p, marked, room) /\ emitted' = [emitted EXCEPT ![p] = @ \cup {o}]
  <2>1. \A q \in Peers : IF q = p
                         THEN rx'[q].largest = r.largest /\ rx'[q].delivered = r.delivered
                         ELSE rx'[q] = rx[q]
    <3> HIDE DEF r, marked
    <3>1. QED BY <1>2, <1>3, <1>5, AcknowledgeKeepsHistory DEF Memory
  <2>2. ASSUME NEW q \in Peers, rsub'[q], NEW e \in emitted'[q]
        PROVE  ObjectWasDelivered(rx'[q], e)
    <3>1. CASE q # p
      BY <1>1, <1>5, <2>1, <2>2, <3>1 DEF Memory, EmittedIsRemembered, TypeOK
    <3>2. CASE q = p
      <4>1. (e \in emitted[p] \/ e = o) /\ e \in Nat
        BY <1>1, <1>5, <2>2, <3>2 DEF Memory, TypeOK
      <4>2. ObjectWasDelivered(rx[p], e) \/ e = o
        BY <1>1, <2>2, <3>2, <4>1 DEF Memory, EmittedIsRemembered
      <4>3. ObjectWasDelivered(r, e)
        BY <1>1, <4>1, <4>2, DeliveredStays
      <4> HIDE DEF r
      <4>4. QED BY <2>1, <3>2, <4>3 DEF ObjectWasDelivered
    <3>3. QED BY <3>1, <3>2
  <2>3. QED BY <2>2 DEF Memory, EmittedIsRemembered
<1>6. QED BY <1>4, <1>5 DEF ReceiveDatagram

LEMMA NextMemory == Memory /\ [Next]_vars => Memory'
<1> SUFFICES ASSUME Memory, [Next]_vars PROVE Memory'
  OBVIOUS
<1>0. TypeOK /\ TypeOK'
  BY NextType DEF Memory
<1> DEFINE Idle == UNCHANGED <<rsub, rx, emitted>>
<1>i. Idle => Memory'
  BY <1>0, SameHistory
<1>1. CASE PublisherStep
  BY <1>1, <1>i DEF PublisherStep, BufferRecord, FlushGrouped, FinishTrack, subVars, histVars
<1>2. ASSUME NEW p \in Peers, ControlStep(p) PROVE Memory'
  <2>1. CASE HandleSubscribe(p) \/ HandleUnsubscribe(p) \/ HandleAck(p)
             \/ \E repaired \in BOOLEAN : HandleNack(p, repaired)
    BY <2>1, <1>i DEF HandleSubscribe, HandleUnsubscribe, HandleAck, HandleNack, subVars, histVars
  <2>2. ASSUME NEW room \in BOOLEAN, HandleCheckpoint(p, room) PROVE Memory'
    <3>1. Head(down[p]).first \in Nat /\ Head(down[p]).final \in Nat /\ UNCHANGED emitted
      BY <1>0, <2>2, ReceivedType DEF HandleCheckpoint
    <3>2. QED
      BY <1>0, <2>2, <3>1, ReceiveRecoveryCheckpointMemory, DropPeerEndMemory
      DEF HandleCheckpoint, ProtocolError
  <2>3. CASE HandleBaseline(p)
    <3>1. UNCHANGED emitted
      BY <2>3 DEF HandleBaseline
    <3>2. CASE ProtocolError(p)
      BY <1>0, <3>1, <3>2, DropPeerEndMemory DEF ProtocolError
    <3>3. CASE rx' = [rx EXCEPT ![p].last = Head(down[p]).final] /\ UNCHANGED rsub
      <4>1. \A q \in Peers : /\ rx'[q].largest = rx[q].largest
                             /\ rx'[q].delivered = rx[q].delivered
        <5>1. rx[p] \in RxState
          BY <1>0 DEF TypeOK
        <5>2. /\ [rx[p] EXCEPT !.last = Head(down[p]).final].largest = rx[p].largest
              /\ [rx[p] EXCEPT !.last = Head(down[p]).final].delivered = rx[p].delivered
          BY <5>1 DEF RxState
        <5>3. \A q \in Peers : rx'[q] = IF q = p THEN [rx[p] EXCEPT !.last = Head(down[p]).final]
                                        ELSE rx[q]
          BY <1>0, <3>3 DEF TypeOK
        <5>4. QED BY <5>2, <5>3
      <4>2. QED BY <1>0, <3>1, <3>3, <4>1, SameHistory
    <3>4. QED BY <2>3, <3>2, <3>3 DEF HandleBaseline
  <2>4. QED
    BY <1>0, <1>2, <2>1, <2>2, <2>3, HandleTrackEndMemory DEF ControlStep
<1>3. ASSUME NEW p \in Peers, DatagramStep(p) PROVE Memory'
  <2>1. ASSUME NEW o \in dgrams[p], LoseDatagram(p, o) PROVE Memory'
    BY <2>1, <1>i DEF LoseDatagram, subVars, histVars
  <2>2. QED BY <1>0, <1>3, <2>1, ReceiveDatagramMemory DEF DatagramStep
<1>4. ASSUME NEW p \in Peers, TickStep(p) PROVE Memory'
  <2>1. CASE FlushRecoveryAcks(p)
    <3>1. rx[p] \in RxState /\ UNCHANGED <<rsub, emitted>>
      BY <1>0, <2>1 DEF TypeOK, FlushRecoveryAcks, histVars
    <3>2. QED BY <1>0, <2>1, <3>1, AcknowledgeMemory DEF FlushRecoveryAcks
  <2>2. CASE \E o \in Wanted(rx[p]) : SendNack(p, o)
    BY <2>2, <1>i DEF SendNack, subVars, histVars
  <2>3. QED BY <1>4, <2>1, <2>2 DEF TickStep
<1>5. ASSUME NEW p \in Peers, ChurnStep(p) PROVE Memory'
  <2>1. CASE SubscribeTrack(p)
    <3>1. \A q \in Peers : rsub'[q] => \/ emitted'[q] = {}
                                       \/ rsub[q] /\ rx'[q] = rx[q] /\ emitted'[q] = emitted[q]
      BY <1>0, <2>1 DEF SubscribeTrack, TypeOK
    <3>2. QED BY <1>0, <3>1 DEF Memory, EmittedIsRemembered
  <2>2. CASE UnsubscribeTrack(p)
    <3>1. \A q \in Peers : rsub'[q] => rsub[q] /\ rx'[q] = rx[q] /\ emitted'[q] = emitted[q]
      BY <1>0, <2>2 DEF UnsubscribeTrack, TypeOK
    <3>2. QED BY <1>0, <3>1, SameHistory
  <2>3. CASE Disconnect(p) \/ (NoticeClose(p) /\ ~UNCHANGED rx)
    BY <1>0, <2>3, DropPeerEndMemory DEF Disconnect, NoticeClose, subVars, histVars
  <2>4. CASE \/ SubscribeAgain(p) \/ CloseConn(p) \/ FreeConnection(p) \/ Reconnect(p)
             \/ (NoticeClose(p) /\ UNCHANGED rx)
    <3>1. CASE NoticeClose(p) /\ ~(UNCHANGED rsub)
      BY <1>0, <3>1, DropPeerEndMemory DEF NoticeClose, subVars, histVars
    <3>2. CASE Idle
      BY <3>2, <1>i
    <3>3. QED
      BY <2>4, <3>1, <3>2 DEF SubscribeAgain, CloseConn, FreeConnection, Reconnect,
                              NoticeClose, subVars, histVars
  <2>5. QED BY <1>5, <2>1, <2>2, <2>3, <2>4 DEF ChurnStep
<1>6. CASE UNCHANGED vars
  BY <1>6, <1>i DEF vars, subVars, histVars
<1>7. QED BY <1>1, <1>2, <1>3, <1>4, <1>5, <1>6 DEF Next

\* Whatever is lost, late, repeated or repaired, and however the subscriber
\* and its connection come and go, object_was_delivered recognises every
\* object the application was handed in this subscription.
THEOREM EmittedStaysRemembered == Spec => []EmittedIsRemembered
<1>1. Init => Memory
  BY InitType DEF Init, Memory, EmittedIsRemembered
<1>2. Memory => EmittedIsRemembered
  BY DEF Memory
<1>3. QED BY <1>1, NextMemory, <1>2, PTL DEF Spec

-----------------------------------------------------------------------------
(* The receiving side until the first churn.                               *)
(*                                                                         *)
(* Promise below is the inductive invariant.  An open window, the stream   *)
(* of checkpoints still to be read, the acknowledgements still on their    *)
(* way and the publisher's cache depend on each other, so it states all of *)
(* them: Sound of a subscriber's recovery state, Linked of the control     *)
(* stream towards it, Begun of the baseline that starts it, Cached of the  *)
(* publisher's cache and Numbering of its counters.                        *)

\* No connection was lost, no track unsubscribed or subscribed again, so far.
Undisturbed ==
    spent.reconnects = 0 /\ spent.unsubscribes = 0 /\ spent.resubscribes = 0

Frames(s) == {s[i] : i \in 1 .. Len(s)}

\* What a peer has acknowledged, the ACKs on their way included.
Claims(p) == {ack[p].acked} \cup {f.id : f \in {g \in Frames(up[p]) : g.type = "ack"}}

\* The newest object that may have been sent: a group that reached some of
\* its peers is cached under the id it will have.
Newest == IF next \in cache THEN next ELSE next - 1

\* A recovery state r of a subscription that began at object `base', with the
\* acknowledgements `claims' and the objects `got' handed over, while the
\* last checkpoint is `ckpt', the track was finished fin times and no object
\* beyond `top' was sent.
Apart(V) == \A v, w \in V : v # w => v.final < w.first \/ w.final < v.first

Shaped(r, ckpt, fin) ==
    \A w \in r.windows :
        /\ w.first <= w.final
        /\ w.final <= r.last
        /\ w.final = w.first + Window - 1 \/ (fin > 0 /\ w.final = ckpt)

Unclaimed(r, claims) == \A w \in r.windows : \A c \in claims : c < w.first

Tracked(r, got) ==
    \A w \in r.windows :
        /\ w.missing \cap r.delivered = {}
        /\ \A o \in w.missing : w.first <= o /\ o <= w.final
        /\ \A o \in Nat : w.first <= o /\ o <= w.final /\ o \notin w.missing => o \in got

Covered(r, got, base) ==
    \A o \in Nat : base <= o /\ o <= r.last =>
        o \in got \/ \E w \in r.windows : w.first <= o /\ o <= w.final

Honest(claims, got, base) ==
    \A c \in claims : \A o \in Nat : base <= o /\ o <= c => o \in got

Remembers(r, got, top) ==
    /\ r.largest <= top
    /\ \A d \in r.delivered : d \in got /\ d <= r.largest /\ r.largest - d < History

Sound(r, claims, got, base, ckpt, fin, top) ==
    /\ IsFiniteSet(r.windows)
    /\ Apart(r.windows)
    /\ Shaped(r, ckpt, fin)
    /\ Unclaimed(r, claims)
    /\ Tracked(r, got)
    /\ Covered(r, got, base)
    /\ Honest(claims, got, base)
    /\ Remembers(r, got, top)

\* The control stream continues where the subscriber's last checkpoint ended
\* and leads up to the publisher's.
Ahead(s, last) == IF s = <<>> THEN last ELSE s[Len(s)].final

Continues(f, prev, ckpt, fin) ==
    \/ f.type = "checkpoint" /\ f.first = prev + 1 /\ f.final = prev + Window
    \/ f.type = "end" /\ fin > 0 /\ f.final = ckpt /\ ckpt < prev + Window

Baselined(s) == s # <<>> /\ s[1].type = "baseline"

Linked(s, last, ckpt, fin) ==
    /\ last <= ckpt
    /\ Ahead(s, last) = ckpt
    /\ \A i \in 1 .. Len(s) :
         /\ s[i].final <= ckpt
         /\ Continues(s[i], IF i = 1 THEN last ELSE s[i - 1].final, ckpt, fin)
            \/ (i = 1 /\ Baselined(s))

-----------------------------------------------------------------------------
(* Publisher *)

Numbering ==
    /\ finishes = 0 => (lastCkpt + 1) % Window = 0 /\ next <= lastCkpt + Window
    /\ finishes > 0 => lastCkpt = next - 1 /\ ~buffered
    /\ next > 0 \/ buffered => Members # {}

Cached ==
    /\ cache \subseteq 0 .. next
    /\ Cardinality(cache) <= Capacity
    /\ \A p \in Members : \A o \in Nat : ack[p].acked < o /\ o < next => o \in cache

\* A peer whose SUBSCRIBE was not yet read, if it was sent at all.
Outside(p) ==
    /\ down[p] = <<>> /\ dgrams[p] = {} /\ rx[p] = NewRx
    /\ up[p] = IF rsub[p] THEN <<Subscribe>> ELSE <<>>
    /\ rsub[p] => emitted[p] = {}

\* A baseline comes first, if at all, and leads to where the subscription
\* began; until then only what came before counts as acknowledged.
Begun(p) ==
    /\ Baselined(down[p]) => /\ rx[p].last = NoId /\ rx[p].windows = {}
                             /\ down[p][1].final = floor[p] - 1
    /\ \A c \in Claims(p) : c <= rx[p].last \/ (Baselined(down[p]) /\ c < floor[p])

Inside(p) ==
    /\ rsub[p]
    /\ \A f \in Frames(up[p]) : f.type \in {"ack", "nack"}
    /\ ack[p].sent = lastCkpt
    /\ Linked(down[p], rx[p].last, lastCkpt, finishes)
    /\ Begun(p)
    /\ \A o \in dgrams[p] : o <= Newest
    /\ Sound(rx[p], Claims(p), emitted[p], floor[p], lastCkpt, finishes, Newest)

Both(p) ==
    /\ conn[p] = "open" /\ pconn[p] = "open"
    /\ IF member[p] THEN Inside(p) ELSE Outside(p)

Kept ==
    /\ errors = {}
    /\ Numbering
    /\ Cached
    /\ \A p \in Peers : Both(p)

Promise == Retention /\ (Undisturbed => Kept)

-----------------------------------------------------------------------------
(* Streams of frames *)

LEMMA FramesAppended ==
    ASSUME NEW S, NEW s \in Seq(S), NEW e \in S
    PROVE  Frames(Append(s, e)) = Frames(s) \cup {e}
<1>1. /\ Len(Append(s, e)) = Len(s) + 1 /\ Len(s) \in Nat
      /\ \A i \in 1 .. Len(s) : Append(s, e)[i] = s[i]
      /\ Append(s, e)[Len(s) + 1] = e
  OBVIOUS
<1>2. 1 .. Len(s) + 1 = (1 .. Len(s)) \cup {Len(s) + 1}
  BY <1>1
<1>3. QED BY <1>1, <1>2 DEF Frames

LEMMA FramesTaken ==
    ASSUME NEW S, NEW s \in Seq(S), s # <<>>
    PROVE  Head(s) \in Frames(s) /\ Frames(Tail(s)) \subseteq Frames(s)
<1>1. /\ Len(s) \in Nat /\ Len(s) > 0 /\ Head(s) = s[1]
      /\ Len(Tail(s)) = Len(s) - 1
      /\ \A i \in 1 .. Len(Tail(s)) : Tail(s)[i] = s[i + 1]
  OBVIOUS
<1>2. 1 \in 1 .. Len(s) /\ \A i \in 1 .. Len(Tail(s)) : i + 1 \in 1 .. Len(s)
  BY <1>1
<1>3. QED BY <1>1, <1>2 DEF Frames

\* A checkpoint or an end that the publisher writes after its last one.
Lengthens(s, e, last, c, d, fin, gin) ==
    /\ Linked(s, last, c, fin)
    /\ c <= d /\ (fin > 0 => d = c) /\ fin <= gin
    /\ e.final = d /\ Continues(e, c, d, gin)

LEMMA LinkedAppended ==
    ASSUME NEW s \in Seq(DownFrame), NEW e \in DownFrame, NEW last \in Ids,
           NEW c \in Ids, NEW d \in Ids, NEW fin \in Nat, NEW gin \in Nat,
           Lengthens(s, e, last, c, d, fin, gin)
    PROVE  Linked(Append(s, e), last, d, gin)
<1> SUFFICES ASSUME Linked(s, last, c, fin), c <= d, fin > 0 => d = c, fin <= gin,
                    e.final = d, Continues(e, c, d, gin)
             PROVE  Linked(Append(s, e), last, d, gin)
  BY DEF Lengthens
<1> DEFINE t == Append(s, e)
<1>1. /\ t \in Seq(DownFrame) /\ Len(t) = Len(s) + 1 /\ Len(s) \in Nat /\ t # <<>>
      /\ \A i \in 1 .. Len(s) : t[i] = s[i]
      /\ t[Len(s) + 1] = e
  OBVIOUS
<1> HIDE DEF t
<1>2. last <= d /\ Ahead(t, last) = d
  BY <1>1 DEF Linked, Ahead
<1>3. ASSUME NEW i \in 1 .. Len(t)
      PROVE  /\ t[i].final <= d
             /\ Continues(t[i], IF i = 1 THEN last ELSE t[i - 1].final, d, gin)
                \/ (i = 1 /\ Baselined(t))
  <2>1. CASE i = Len(s) + 1
    <3>1. c = IF i = 1 THEN last ELSE t[i - 1].final
      <4>1. CASE s = <<>>
        BY <2>1, <4>1 DEF Linked, Ahead
      <4>2. CASE s # <<>>
        <5>1. Len(s) # 0 /\ i # 1 /\ i - 1 = Len(s) /\ Len(s) \in 1 .. Len(s)
          BY <1>1, <2>1, <4>2
        <5>2. QED BY <1>1, <4>2, <5>1 DEF Linked, Ahead
      <4>3. QED BY <4>1, <4>2
    <3>2. QED BY <1>1, <2>1, <3>1
  <2>2. CASE i # Len(s) + 1
    <3>1. i \in 1 .. Len(s) /\ t[i] = s[i] /\ (i # 1 => t[i - 1] = s[i - 1]) /\ s # <<>>
      BY <1>1, <2>2
    <3>2. s[i].final \in Int
      <4>1. s[i] \in DownFrame
        BY <3>1
      <4>2. QED BY <4>1 DEF DownFrame
    <3>3. s[i].final <= c
      BY <3>1 DEF Linked
    <3>4. s[i].final <= d
      BY <3>2, <3>3
    <3>5. ASSUME NEW prev, Continues(s[i], prev, c, fin) PROVE Continues(s[i], prev, d, gin)
      BY <3>5 DEF Continues
    <3>6. Baselined(s) => Baselined(t)
      BY <1>1, <3>1 DEF Baselined
    <3>7. QED BY <3>1, <3>4, <3>5, <3>6 DEF Linked
  <2>3. QED BY <2>1, <2>2
<1>4. QED BY <1>2, <1>3 DEF Linked, t

\* What the subscriber reads next, and what remains.
LEMMA LinkedTaken ==
    ASSUME NEW s \in Seq(DownFrame), s # <<>>, NEW last \in Ids, NEW c \in Ids,
           NEW fin \in Nat, Linked(s, last, c, fin)
    PROVE  /\ Head(s).final <= c
           /\ Continues(Head(s), last, c, fin) \/ Baselined(s)
           /\ Linked(Tail(s), Head(s).final, c, fin)
           /\ ~Baselined(Tail(s))
<1> DEFINE t == Tail(s)
<1>1. /\ t \in Seq(DownFrame) /\ Len(t) = Len(s) - 1 /\ Len(s) \in Nat /\ Len(s) > 0
      /\ \A i \in 1 .. Len(t) : t[i] = s[i + 1]
      /\ Head(s) = s[1]
  OBVIOUS
<1>2. 1 \in 1 .. Len(s)
  BY <1>1
<1>3. Head(s).final <= c /\ (Continues(Head(s), last, c, fin) \/ Baselined(s))
  BY <1>1, <1>2 DEF Linked
<1> HIDE DEF t
<1>4. ASSUME NEW i \in 1 .. Len(t)
      PROVE  /\ t[i].final <= c
             /\ Continues(t[i], IF i = 1 THEN Head(s).final ELSE t[i - 1].final, c, fin)
  <2>1. i + 1 \in 1 .. Len(s) /\ i + 1 # 1 /\ (i + 1) - 1 = i /\ t[i] = s[i + 1]
    BY <1>1
  <2>2. s[i] = IF i = 1 THEN Head(s) ELSE t[i - 1]
    BY <1>1
  <2>3. s[i + 1].final <= c /\ Continues(s[i + 1], s[i].final, c, fin)
    BY <2>1 DEF Linked
  <2>4. QED BY <2>1, <2>2, <2>3
<1>5. Ahead(t, Head(s).final) = c
  <2>1. CASE t = <<>>
    <3>1. Len(s) = 1
      BY <1>1, <2>1
    <3>2. QED BY <1>1, <2>1, <3>1 DEF Linked, Ahead
  <2>2. CASE t # <<>>
    <3>1. Len(t) \in 1 .. Len(t) /\ Len(t) + 1 = Len(s)
      BY <1>1, <2>2
    <3>2. t[Len(t)] = s[Len(s)]
      BY <1>1, <3>1
    <3>3. QED BY <2>2, <3>2 DEF Linked, Ahead
  <2>3. QED BY <2>1, <2>2
<1>6. ~Baselined(t)
  <2>1. SUFFICES ASSUME t # <<>>, t[1].type = "baseline" PROVE FALSE
    BY DEF Baselined
  <2>2. 1 \in 1 .. Len(t)
    BY <1>1, <2>1
  <2>3. QED BY <1>4, <2>1, <2>2 DEF Continues
<1>7. QED BY <1>3, <1>4, <1>5, <1>6 DEF Linked, t

-----------------------------------------------------------------------------
(* Steps of one subscriber's recovery state *)

\* What Sound is about.
Context(r, claims, got, base, ckpt, fin, top) ==
    /\ r \in RxState
    /\ claims \subseteq Ids
    /\ got \subseteq Nat
    /\ base \in Nat
    /\ ckpt \in Ids
    /\ fin \in Nat
    /\ top \in Ids

LEMMA WindowFields ==
    ASSUME NEW r \in RxState, NEW w \in r.windows
    PROVE  w \in WindowState /\ w.first \in Nat /\ w.final \in Nat /\ w.missing \subseteq Nat
BY DEF RxState, WindowState

LEMMA RetiredFields ==
    ASSUME NEW r \in RxState, NEW final \in Nat
    PROVE  LET s == RetireThrough([r EXCEPT !.windows = {v \in @ : v.final > final}], final) IN
           /\ s \in RxState
           /\ s.windows = {v \in r.windows : v.final > final}
           /\ s.last = r.last /\ s.largest = r.largest /\ s.delivered = r.delivered
<1> DEFINE q == [r EXCEPT !.windows = {v \in @ : v.final > final}]
<1>1. q \in RxState
  BY DEF RxState
<1>2. /\ q.windows = {v \in r.windows : v.final > final}
      /\ q.last = r.last /\ q.largest = r.largest /\ q.delivered = r.delivered
  BY DEF RxState
<1>3. RetireThrough(q, final) \in RxState
  BY <1>1, RetireType
<1> HIDE DEF q
<1>4. QED BY <1>1, <1>2, <1>3 DEF RetireThrough, RxState, q

\* A window in the completed prefix: everything the subscription was
\* promised up to its end was handed over.
LEMMA PrefixDelivered ==
    ASSUME NEW r, NEW claims, NEW got, NEW base, NEW ckpt, NEW fin, NEW top,
           Context(r, claims, got, base, ckpt, fin, top),
           Sound(r, claims, got, base, ckpt, fin, top),
           NEW w \in CompletedPrefix(r), NEW o \in Nat, base <= o, o <= w.final
    PROVE  o \in got
<1>1. r \in RxState /\ w \in r.windows /\ w.final \in Nat /\ w.first \in Nat
  BY WindowFields DEF Context, CompletedPrefix
<1>2. w.final <= r.last /\ w.first <= w.final
  BY <1>1 DEF Sound, Shaped
<1>3. r.last \in Int /\ o <= r.last
  BY <1>1, <1>2 DEF RxState
<1>4. ASSUME NEW v \in r.windows, v.first <= o, o <= v.final PROVE o \in got
  <2>1. v.first \in Nat /\ v.final \in Nat /\ v.first <= v.final
    BY <1>1, WindowFields DEF Sound, Shaped
  <2>2. v = w \/ v.final < w.first \/ w.final < v.first
    BY <1>1 DEF Sound, Apart
  <2>3. v.first <= w.first
    BY <1>1, <1>2, <1>4, <2>1, <2>2
  <2>4. v.missing = {}
    BY <2>3 DEF CompletedPrefix
  <2>5. QED BY <1>4, <2>4 DEF Sound, Tracked
<1>5. QED BY <1>3, <1>4 DEF Sound, Covered

\* acknowledge_completed_recovery_windows
LEMMA SoundAcknowledged ==
    ASSUME NEW r, NEW claims, NEW got, NEW base, NEW ckpt, NEW fin, NEW top,
           Context(r, claims, got, base, ckpt, fin, top),
           Sound(r, claims, got, base, ckpt, fin, top),
           NEW w \in CompletedPrefix(r)
    PROVE  LET s == RetireThrough([r EXCEPT !.windows = {v \in @ : v.final > w.final}], w.final)
           IN  Sound(s, claims \cup {w.final}, got, base, ckpt, fin, top)
<1> DEFINE s == RetireThrough([r EXCEPT !.windows = {v \in @ : v.final > w.final}], w.final)
<1>1. r \in RxState /\ w \in r.windows /\ w.final \in Nat /\ w.first \in Nat
  BY WindowFields DEF Context, CompletedPrefix
<1>2. /\ s \in RxState
      /\ s.windows = {v \in r.windows : v.final > w.final}
      /\ s.last = r.last /\ s.largest = r.largest /\ s.delivered = r.delivered
  BY <1>1, RetiredFields
<1> HIDE DEF s
<1>3. IsFiniteSet(s.windows) /\ Apart(s.windows) /\ Shaped(s, ckpt, fin) /\ Tracked(s, got)
  <2>1. s.windows \subseteq r.windows
    BY <1>2
  <2>2. IsFiniteSet(s.windows)
    BY <2>1, FS_Subset DEF Sound
  <2>3. Apart(s.windows)
    BY <2>1 DEF Sound, Apart
  <2>4. Shaped(s, ckpt, fin)
    BY <1>2, <2>1 DEF Sound, Shaped
  <2>5. Tracked(s, got)
    BY <1>2, <2>1 DEF Sound, Tracked
  <2>6. QED BY <2>2, <2>3, <2>4, <2>5
<1>4. Remembers(s, got, top)
  BY <1>2 DEF Sound, Remembers
<1>5. Unclaimed(s, claims \cup {w.final})
  <2> SUFFICES ASSUME NEW v \in s.windows, NEW c \in claims \cup {w.final}
               PROVE  c < v.first
    BY DEF Unclaimed
  <2>1. v \in r.windows /\ v.final > w.final
    BY <1>2
  <2>2. CASE c \in claims
    BY <2>1, <2>2 DEF Sound, Unclaimed
  <2>3. CASE c = w.final
    <3>1. v.first \in Nat /\ v.final \in Nat /\ w.first <= w.final /\ v.first <= v.final
      BY <1>1, <2>1, WindowFields DEF Sound, Shaped
    <3>2. v # w
      BY <1>1, <2>1
    <3>3. v.final < w.first \/ w.final < v.first
      BY <1>1, <2>1, <3>2 DEF Sound, Apart
    <3>4. QED BY <1>1, <2>1, <2>3, <3>1, <3>3
  <2>4. QED BY <2>2, <2>3
<1>6. Covered(s, got, base)
  <2> SUFFICES ASSUME NEW o \in Nat, base <= o, o <= r.last, o \notin got
               PROVE  \E v \in s.windows : v.first <= o /\ o <= v.final
    BY <1>2 DEF Covered
  <2>1. PICK v \in r.windows : v.first <= o /\ o <= v.final
    BY DEF Sound, Covered
  <2>2. ~(o <= w.final)
    BY PrefixDelivered
  <2>3. v.final \in Nat
    BY <1>1, WindowFields
  <2>4. v.final > w.final
    BY <1>1, <2>1, <2>2, <2>3
  <2>5. QED BY <1>2, <2>1, <2>4
<1>7. Honest(claims \cup {w.final}, got, base)
  <2> SUFFICES ASSUME NEW c \in claims \cup {w.final}, NEW o \in Nat, base <= o, o <= c
               PROVE  o \in got
    BY DEF Honest
  <2>1. CASE c \in claims
    BY <2>1 DEF Sound, Honest
  <2>2. CASE c = w.final
    BY <2>2, PrefixDelivered
  <2>3. QED BY <2>1, <2>2
<1>8. Sound(s, claims \cup {w.final}, got, base, ckpt, fin, top)
  BY <1>3, <1>4, <1>5, <1>6, <1>7 DEF Sound
<1>9. QED BY <1>8 DEF s

\* receive_recovery_checkpoint, once the checkpoint was accepted: the new
\* window continues where the last one ended.
LEMMA SoundOpened ==
    ASSUME NEW r, NEW claims, NEW got, NEW base, NEW ckpt, NEW fin, NEW top,
           Context(r, claims, got, base, ckpt, fin, top),
           Sound(r, claims, got, base, ckpt, fin, top),
           \A c \in claims : c <= r.last,
           NEW final \in Nat, r.last < final,
           final = r.last + Window \/ (fin > 0 /\ final = ckpt)
    PROVE  /\ OpenWindow(r, r.last + 1, final) \in RxState
           /\ OpenWindow(r, r.last + 1, final).last = final
           /\ Sound(OpenWindow(r, r.last + 1, final), claims, got, base, ckpt, fin, top)
<1> DEFINE first == r.last + 1
           s == OpenWindow(r, first, final)
           missing == {o \in first .. final : ~ObjectIsRecentlyDelivered(r, o)}
           w == [first |-> first, final |-> final, missing |-> missing]
<1>0. r \in RxState /\ first \in Nat /\ r.last \in Int /\ Window \in Nat
  BY WindowAssumption DEF Context, RxState
<1>1. s \in RxState
  BY <1>0, OpenWindowType
<1>2. /\ s.last = final /\ s.windows = r.windows \cup {w}
      /\ s.largest = r.largest /\ s.delivered = r.delivered
  BY <1>0 DEF OpenWindow, RxState
<1>3. w.first = first /\ w.final = final /\ w.missing = missing
  OBVIOUS
<1>m. /\ \A o \in missing : o \in Nat /\ first <= o /\ o <= final /\ ~ObjectIsRecentlyDelivered(r, o)
      /\ \A o \in Nat : first <= o /\ o <= final /\ o \notin missing
                          => ObjectIsRecentlyDelivered(r, o)
  BY <1>0
<1> HIDE DEF s, w, missing
<1>4. Shaped(s, ckpt, fin)
  <2> SUFFICES ASSUME NEW v \in s.windows
               PROVE  /\ v.first <= v.final
                      /\ v.final <= final
                      /\ v.final = v.first + Window - 1 \/ (fin > 0 /\ v.final = ckpt)
    BY <1>2 DEF Shaped
  <2>1. CASE v = w
    BY <1>0, <1>3, <2>1
  <2>2. CASE v \in r.windows
    <3>1. v.final \in Nat /\ v.final <= r.last
      BY <1>0, <2>2, WindowFields DEF Sound, Shaped
    <3>2. QED BY <1>0, <2>2, <3>1 DEF Sound, Shaped
  <2>3. QED BY <1>2, <2>1, <2>2
<1>5. \A v \in r.windows : v.final < first
  <2> TAKE v \in r.windows
  <2>1. v.final \in Nat /\ v.final <= r.last
    BY <1>0, WindowFields DEF Sound, Shaped
  <2>2. QED BY <1>0, <2>1
<1>6. Apart(s.windows)
  BY <1>2, <1>3, <1>5 DEF Sound, Apart
<1>7. IsFiniteSet(s.windows)
  BY <1>2, FS_AddElement DEF Sound
<1>8. Unclaimed(s, claims)
  <2> SUFFICES ASSUME NEW v \in s.windows, NEW c \in claims PROVE c < v.first
    BY DEF Unclaimed
  <2>1. CASE v \in r.windows
    BY <2>1 DEF Sound, Unclaimed
  <2>2. CASE v = w
    <3>1. c \in Int /\ c <= r.last
      BY DEF Context
    <3>2. QED BY <1>0, <1>3, <2>2, <3>1
  <2>3. QED BY <1>2, <2>1, <2>2
<1>9. Tracked(s, got)
  <2> SUFFICES ASSUME NEW v \in s.windows
               PROVE  /\ v.missing \cap r.delivered = {}
                      /\ \A o \in v.missing : v.first <= o /\ o <= v.final
                      /\ \A o \in Nat : v.first <= o /\ o <= v.final /\ o \notin v.missing => o \in got
    BY <1>2 DEF Tracked
  <2>1. CASE v \in r.windows
    BY <2>1 DEF Sound, Tracked
  <2>2. CASE v = w
    <3>1. ASSUME NEW o \in missing PROVE o \notin r.delivered
      <4>1. SUFFICES ASSUME o \in r.delivered PROVE FALSE
        OBVIOUS
      <4>2. r.largest - o < History /\ o <= r.largest
        BY <4>1 DEF Sound, Remembers
      <4>3. ObjectIsRecentlyDelivered(r, o)
        BY <4>1, <4>2 DEF ObjectIsRecentlyDelivered
      <4>4. QED BY <1>m, <4>3
    <3>2. ASSUME NEW o \in Nat, first <= o, o <= final, o \notin missing PROVE o \in got
      <4>1. ObjectIsRecentlyDelivered(r, o)
        BY <1>m, <3>2
      <4>2. QED BY <4>1 DEF ObjectIsRecentlyDelivered, Sound, Remembers
    <3>3. QED BY <1>3, <1>m, <2>2, <3>1, <3>2
  <2>3. QED BY <1>2, <2>1, <2>2
<1>10. Covered(s, got, base)
  <2> SUFFICES ASSUME NEW o \in Nat, base <= o, o <= final, o \notin got
               PROVE  \E v \in s.windows : v.first <= o /\ o <= v.final
    BY <1>2 DEF Covered
  <2>1. CASE o <= r.last
    BY <1>2, <2>1 DEF Sound, Covered
  <2>2. CASE ~(o <= r.last)
    BY <1>0, <1>2, <1>3, <2>2
  <2>3. QED BY <2>1, <2>2
<1>11. Honest(claims, got, base) /\ Remembers(s, got, top)
  BY <1>2 DEF Sound, Remembers
<1>12. Sound(s, claims, got, base, ckpt, fin, top)
  BY <1>4, <1>6, <1>7, <1>8, <1>9, <1>10, <1>11 DEF Sound
<1>13. QED BY <1>1, <1>2, <1>12 DEF s

\* No window misses object o any more.
Unmissed(s, o) == [s EXCEPT !.windows = {[w EXCEPT !.missing = @ \ {o}] : w \in @}]

\* A datagram completes object o.
LEMMA SoundMarked ==
    ASSUME NEW r, NEW claims, NEW got, NEW base, NEW ckpt, NEW fin, NEW top,
           Context(r, claims, got, base, ckpt, fin, top),
           Sound(r, claims, got, base, ckpt, fin, top),
           NEW o \in Nat, o <= top, NEW s \in RxState, NEW t,
           s = MarkObjectDelivered(ObserveObject(r, o), o),
           t = Unmissed(s, o)
    PROVE  /\ t \in RxState
           /\ t.last = r.last
           /\ r.windows = {} => t.windows = {}
           /\ Sound(t, claims, got \cup {o}, base, ckpt, fin, top)
<1> DEFINE Hit(w) == [first |-> w.first, final |-> w.final, missing |-> w.missing \ {o}]
           big == IF o > r.largest THEN o ELSE r.largest
<1>0. r \in RxState
  BY DEF Context
<1>1. /\ s.largest = big
      /\ s.delivered = {d \in r.delivered \cup {o} : big - d < History}
      /\ s.windows = r.windows /\ s.last = r.last
  BY <1>0, MarkedFields
<1>2. t \in RxState
  BY UnmissType DEF Unmissed
<1>3. /\ t.largest = big /\ t.last = r.last
      /\ t.delivered = {d \in r.delivered \cup {o} : big - d < History}
      /\ t.windows = {Hit(w) : w \in r.windows}
  <2>1. t.windows = {[w EXCEPT !.missing = @ \ {o}] : w \in r.windows}
    BY <1>1 DEF RxState, Unmissed
  <2>2. \A w \in r.windows : [w EXCEPT !.missing = @ \ {o}] = Hit(w)
    <3>1. \A w \in WindowState : [w EXCEPT !.missing = @ \ {o}] = Hit(w)
      BY DEF WindowState
    <3>2. QED BY <1>0, <3>1, WindowFields
  <2>3. {[w EXCEPT !.missing = @ \ {o}] : w \in r.windows} = {Hit(w) : w \in r.windows}
    BY <2>2
  <2>4. QED BY <1>1, <2>1, <2>3 DEF RxState, Unmissed
<1>4. \A v \in t.windows : \E w \in r.windows :
        /\ v = Hit(w)
        /\ v.first = w.first /\ v.final = w.final /\ v.missing = w.missing \ {o}
  BY <1>3
<1>5. \A w \in r.windows : Hit(w) \in t.windows
  BY <1>3
<1>6. IsFiniteSet(t.windows)
  <2> DEFINE g == [w \in r.windows |-> Hit(w)]
  <2>1. g \in Surjection(r.windows, t.windows)
    BY <1>4, <1>5 DEF Surjection
  <2> HIDE DEF g
  <2>2. QED BY <2>1, FS_Surjection DEF Sound
<1>7. Apart(t.windows)
  <2> SUFFICES ASSUME NEW v \in t.windows, NEW u \in t.windows, v # u
               PROVE  v.final < u.first \/ u.final < v.first
    BY DEF Apart
  <2>1. PICK w \in r.windows : v = Hit(w) /\ v.first = w.first /\ v.final = w.final
    BY <1>4
  <2>2. PICK x \in r.windows : u = Hit(x) /\ u.first = x.first /\ u.final = x.final
    BY <1>4
  <2>3. w # x
    BY <2>1, <2>2
  <2>4. QED BY <2>1, <2>2, <2>3 DEF Sound, Apart
<1>8. Shaped(t, ckpt, fin)
  BY <1>3, <1>4 DEF Sound, Shaped
<1>9. Unclaimed(t, claims)
  BY <1>4 DEF Sound, Unclaimed
<1>10. Tracked(t, got \cup {o})
  <2> SUFFICES ASSUME NEW v \in t.windows
               PROVE  /\ v.missing \cap t.delivered = {}
                      /\ \A e \in v.missing : v.first <= e /\ e <= v.final
                      /\ \A e \in Nat : v.first <= e /\ e <= v.final /\ e \notin v.missing
                                        => e \in got \cup {o}
    BY DEF Tracked
  <2>1. PICK w \in r.windows :
          v.first = w.first /\ v.final = w.final /\ v.missing = w.missing \ {o}
    BY <1>4
  <2>2. /\ w.missing \cap r.delivered = {}
        /\ \A e \in w.missing : w.first <= e /\ e <= w.final
        /\ \A e \in Nat : w.first <= e /\ e <= w.final /\ e \notin w.missing => e \in got
    BY DEF Sound, Tracked
  <2>3. t.delivered \subseteq r.delivered \cup {o}
    BY <1>3
  <2>4. QED BY <2>1, <2>2, <2>3
<1>11. Covered(t, got \cup {o}, base)
  <2> SUFFICES ASSUME NEW e \in Nat, base <= e, e <= r.last, e \notin got
               PROVE  \E v \in t.windows : v.first <= e /\ e <= v.final
    BY <1>3 DEF Covered
  <2>1. PICK w \in r.windows : w.first <= e /\ e <= w.final
    BY DEF Sound, Covered
  <2>2. Hit(w) \in t.windows /\ Hit(w).first = w.first /\ Hit(w).final = w.final
    BY <1>5
  <2>3. QED BY <2>1, <2>2
<1>12. Honest(claims, got \cup {o}, base)
  BY DEF Sound, Honest
<1>13. Remembers(t, got \cup {o}, top)
  <2>1. r.largest \in Int /\ top \in Int /\ r.largest <= top /\ History \in Int
    BY <1>0, HistoryIsNat DEF Context, RxState, Sound, Remembers
  <2>2. t.largest <= top
    BY <1>3, <2>1
  <2>3. ASSUME NEW d \in t.delivered
        PROVE  d \in got \cup {o} /\ d <= big /\ big - d < History
    <3>1. d \in r.delivered \cup {o} /\ big - d < History
      BY <1>3
    <3>2. d \in r.delivered => d \in got /\ d <= r.largest /\ d \in Nat
      BY <1>0 DEF Sound, Remembers, RxState
    <3>3. QED BY <2>1, <3>1, <3>2
  <2>4. QED BY <1>3, <2>2, <2>3 DEF Remembers
<1>14. Sound(t, claims, got \cup {o}, base, ckpt, fin, top)
  BY <1>6, <1>7, <1>8, <1>9, <1>10, <1>11, <1>12, <1>13 DEF Sound
<1>15. QED BY <1>2, <1>3, <1>14

\* A baseline, or a final watermark repeated when nothing is outstanding:
\* without windows everything up to `id' was handed over.
LEMMA SoundClaimed ==
    ASSUME NEW r, NEW s, NEW claims, NEW got, NEW base, NEW ckpt, NEW fin, NEW top,
           NEW id \in Nat,
           Context(r, claims, got, base, ckpt, fin, top),
           Sound(r, claims, got, base, ckpt, fin, top),
           r.windows = {}, s.windows = {},
           s.largest = r.largest, s.delivered = r.delivered,
           \/ id < base /\ s.last = id
           \/ id <= r.last /\ s.last = r.last
    PROVE  Sound(s, claims \cup {id}, got, base, ckpt, fin, top)
<1>0. base \in Nat /\ r.last \in Int
  BY DEF Context, RxState
<1>1. ASSUME NEW o \in Nat, base <= o, o <= r.last PROVE o \in got
  BY <1>1 DEF Sound, Covered
<1>2. Covered(s, got, base)
  BY <1>0, <1>1 DEF Covered
<1>3. Honest(claims \cup {id}, got, base)
  <2> SUFFICES ASSUME NEW c \in claims \cup {id}, NEW o \in Nat, base <= o, o <= c
               PROVE  o \in got
    BY DEF Honest
  <2>1. CASE c \in claims
    BY <2>1 DEF Sound, Honest
  <2>2. CASE c = id
    BY <1>0, <1>1, <2>2
  <2>3. QED BY <2>1, <2>2
<1>4. Remembers(s, got, top)
  BY DEF Sound, Remembers
<1>5. QED
  BY <1>2, <1>3, <1>4, FS_EmptySet
  DEF Sound, Apart, Shaped, Unclaimed, Tracked

\* Some of the claims, after the publisher went on.
LEMMA SoundLater ==
    ASSUME NEW r, NEW claims, NEW got, NEW base, NEW ckpt, NEW fin, NEW top,
           Context(r, claims, got, base, ckpt, fin, top),
           Sound(r, claims, got, base, ckpt, fin, top),
           NEW fewer \in SUBSET claims, NEW ckpt2, NEW fin2 \in Nat, NEW top2 \in Ids,
           fin > 0 => ckpt2 = ckpt, fin <= fin2, top <= top2
    PROVE  Sound(r, fewer, got, base, ckpt2, fin2, top2)
<1>0. r.largest \in Int /\ top \in Int /\ fin \in Nat
  BY DEF Context, RxState
<1>1. Shaped(r, ckpt2, fin2)
  BY <1>0 DEF Sound, Shaped
<1>2. Unclaimed(r, fewer) /\ Honest(fewer, got, base)
  BY DEF Sound, Unclaimed, Honest
<1>3. Remembers(r, got, top2)
  BY <1>0 DEF Sound, Remembers
<1>4. QED BY <1>1, <1>2, <1>3 DEF Sound

\* A subscription begins after the last checkpoint.
LEMMA SoundBegun ==
    ASSUME NEW ckpt \in Ids, NEW got, NEW fin, NEW top \in Ids
    PROVE  Sound(NewRx, {ckpt}, got, ckpt + 1, ckpt, fin, top)
<1>1. /\ NewRx.windows = {} /\ NewRx.delivered = {}
      /\ NewRx.last = -1 /\ NewRx.largest = -1
  BY DEF NewRx
<1>2. Covered(NewRx, got, ckpt + 1) /\ Honest({ckpt}, got, ckpt + 1)
  BY <1>1 DEF Covered, Honest
<1>3. QED
  BY <1>1, <1>2, FS_EmptySet
  DEF Sound, Apart, Shaped, Unclaimed, Tracked, Remembers

-----------------------------------------------------------------------------
(* What the cache holds bounds the windows *)

\* Windows of full width between a and u.
LEMMA FullWindowsFit ==
    ASSUME NEW V, IsFiniteSet(V), V \subseteq WindowState, Apart(V),
           NEW a \in Int,
           \A w \in V : w.final = w.first + Window - 1 /\ a < w.first
    PROVE  \A u \in Int : (a <= u /\ \A w \in V : w.final <= u)
                          => Cardinality(V) * Window <= u - a
<1> DEFINE Good == {T \in SUBSET V :
             \A u \in Int : (a <= u /\ \A w \in T : w.final <= u)
                           => Cardinality(T) * Window <= u - a}
<1>0. Window \in Nat /\ Window > 0
  BY WindowAssumption
<1>f. \A w \in V : w.first \in Nat /\ w.final \in Nat
  BY DEF WindowState
<1>1. \A T \in SUBSET V : (\A x \in T : T \ {x} \in Good) => T \in Good
  <2> SUFFICES ASSUME NEW T \in SUBSET V, \A x \in T : T \ {x} \in Good,
                      NEW u \in Int, a <= u, \A w \in T : w.final <= u
               PROVE  Cardinality(T) * Window <= u - a
    OBVIOUS
  <2>1. IsFiniteSet(T)
    BY FS_Subset
  <2>2. CASE T = {}
    <3>1. Cardinality(T) = 0
      BY <2>2, FS_EmptySet
    <3>2. QED BY <1>0, <3>1
  <2>3. CASE T # {}
    <3> DEFINE h == [w \in T |-> u - w.final]
    <3>1. \A w \in T : h[w] \in Nat
      BY <1>f
    <3> HIDE DEF Good
    <3>2. PICK x \in T : \A y \in T : h[x] <= h[y]
      <4> HIDE DEF h
      <4>1. QED BY <2>3, <3>1, LeastExists
    <3>3. \A y \in T : y.final <= x.final
      BY <1>f, <3>2
    <3>4. \A y \in T \ {x} : y.final <= x.first - 1
      <4> TAKE y \in T \ {x}
      <4>1. y.final < x.first \/ x.final < y.first
        BY DEF Apart
      <4>2. y.first \in Nat /\ y.final \in Nat /\ x.first \in Nat /\ x.final \in Nat
            /\ y.final = y.first + Window - 1
        BY <1>f
      <4>3. QED BY <1>0, <3>3, <4>1, <4>2
    <3>5. /\ x.first - 1 \in Int /\ a <= x.first - 1
          /\ x.final = x.first + Window - 1 /\ x.final <= u
          /\ x.first \in Int
      BY <1>f
    <3>6. Cardinality(T \ {x}) * Window <= (x.first - 1) - a
      BY <3>4, <3>5 DEF Good
    <3>7. Cardinality(T \ {x}) \in Nat /\ Cardinality(T) = Cardinality(T \ {x}) + 1
      <4>1. IsFiniteSet(T \ {x}) /\ Cardinality(T \ {x}) = Cardinality(T) - 1
        BY <2>1, FS_RemoveElement
      <4>2. Cardinality(T) \in Nat /\ Cardinality(T \ {x}) \in Nat
        BY <2>1, <4>1, FS_CardinalityType
      <4>3. QED BY <4>1, <4>2
    <3>8. \A n \in Nat : (n + 1) * Window = n * Window + Window
      BY <1>0
    <3>9. Cardinality(T) * Window = Cardinality(T \ {x}) * Window + Window
      BY <3>7, <3>8
    <3> DEFINE k == Cardinality(T \ {x}) * Window
    <3>10. k \in Int
      BY <1>0, <3>7
    <3> HIDE DEF k
    <3>11. k + Window <= u - a
      BY <1>0, <3>5, <3>6, <3>10 DEF k
    <3>12. QED BY <3>9, <3>11 DEF k
  <2>4. QED BY <2>2, <2>3
<1> HIDE DEF Good
<1>2. \A T \in SUBSET V : T \in Good
  BY <1>1, SubsetInduction
<1>3. V \in Good
  BY <1>2
<1>4. QED BY <1>3 DEF Good

\* A run of ids held by the cache is no longer than the cache.
LEMMA HeldIsBounded ==
    ASSUME NEW held, IsFiniteSet(held), NEW a \in Int, NEW b \in Int,
           Cardinality(held) <= Capacity,
           \A o \in a + 1 .. b : o \in held
    PROVE  b - a <= History
<1>0. Capacity \in Nat /\ Capacity <= History /\ History \in Nat
  BY CapacityAssumption, HistoryIsNat DEF History
<1>1. CASE b < a + 1
  BY <1>0, <1>1
<1>2. CASE ~(b < a + 1)
  <2>1. a + 1 .. b \subseteq held
    OBVIOUS
  <2>2. IsFiniteSet(a + 1 .. b) /\ Cardinality(a + 1 .. b) = b - (a + 1) + 1
    BY <1>2, FS_Interval
  <2>3. Cardinality(a + 1 .. b) <= Cardinality(held)
    BY <2>1, FS_Subset
  <2>4. Cardinality(held) \in Nat
    BY FS_CardinalityType
  <2>5. QED BY <1>0, <2>2, <2>3, <2>4
<1>3. QED BY <1>1, <1>2

-----------------------------------------------------------------------------
(* Steps of one peer *)

LEMMA ClaimsType ==
    ASSUME TypeOK, NEW p \in Peers
    PROVE  /\ Claims(p) \subseteq Ids
           /\ up[p] \in Seq(UpFrame)
           /\ Frames(up[p]) \subseteq UpFrame
<1>1. up[p] \in Seq(UpFrame) /\ ack[p] \in AckState
  BY DEF TypeOK
<1>2. Frames(up[p]) \subseteq UpFrame
  BY <1>1 DEF Frames
<1>3. ack[p].acked \in Ids
  BY <1>1 DEF AckState
<1>4. \A f \in UpFrame : f.id \in Nat
  BY DEF UpFrame
<1>5. QED BY <1>1, <1>2, <1>3, <1>4 DEF Claims

LEMMA ClaimAppended ==
    ASSUME TypeOK, NEW p \in Peers, NEW id \in Nat,
           up'[p] = Append(up[p], Ack(id)), ack'[p] = ack[p]
    PROVE  /\ Claims(p)' = Claims(p) \cup {id}
           /\ Frames(up[p])' = Frames(up[p]) \cup {Ack(id)}
<1>1. Ack(id) \in UpFrame /\ Ack(id).type = "ack" /\ Ack(id).id = id
  BY DEF Ack, UpFrame
<1>2. Frames(up'[p]) = Frames(up[p]) \cup {Ack(id)}
  BY <1>1, ClaimsType, FramesAppended
<1>3. QED BY <1>1, <1>2 DEF Claims

LEMMA NackAppended ==
    ASSUME TypeOK, NEW p \in Peers, NEW id \in Nat,
           up'[p] = Append(up[p], Nack(id)), ack'[p] = ack[p]
    PROVE  /\ Claims(p)' = Claims(p)
           /\ Frames(up[p])' = Frames(up[p]) \cup {Nack(id)}
<1>1. Nack(id) \in UpFrame /\ Nack(id).type = "nack"
  BY DEF Nack, UpFrame
<1>2. Frames(up'[p]) = Frames(up[p]) \cup {Nack(id)}
  BY <1>1, ClaimsType, FramesAppended
<1>3. {g \in Frames(up'[p]) : g.type = "ack"} = {g \in Frames(up[p]) : g.type = "ack"}
  BY <1>1, <1>2
<1>4. QED BY <1>2, <1>3 DEF Claims

LEMMA ClaimTaken ==
    ASSUME TypeOK, NEW p \in Peers, up[p] # <<>>,
           up'[p] = Tail(up[p]), ack'[p].acked \in Claims(p)
    PROVE  /\ Claims(p)' \subseteq Claims(p)
           /\ Frames(up[p])' \subseteq Frames(up[p])
<1>1. Frames(up'[p]) \subseteq Frames(up[p])
  BY ClaimsType, FramesTaken
<1>2. QED BY <1>1 DEF Claims

\* Everything Both(p) is about, but for what all peers share.
PeerState(p) ==
    <<conn[p], pconn[p], member[p], rsub[p], rx[p], ack[p], down[p], up[p],
      dgrams[p], emitted[p], floor[p]>>

LEMMA OtherPeer ==
    ASSUME NEW q \in Peers, Both(q), PeerState(q)' = PeerState(q),
           UNCHANGED <<lastCkpt, finishes>>, Newest' = Newest
    PROVE  Both(q)'
<1>1. /\ conn'[q] = conn[q] /\ pconn'[q] = pconn[q] /\ member'[q] = member[q]
      /\ rsub'[q] = rsub[q] /\ rx'[q] = rx[q] /\ ack'[q] = ack[q]
      /\ down'[q] = down[q] /\ up'[q] = up[q] /\ dgrams'[q] = dgrams[q]
      /\ emitted'[q] = emitted[q] /\ floor'[q] = floor[q]
  BY DEF PeerState
<1>2. Claims(q)' = Claims(q)
  BY <1>1 DEF Claims
<1>3. Begun(q)' = Begun(q)
  BY <1>1, <1>2 DEF Begun
<1>4. Outside(q)' = Outside(q)
  BY <1>1 DEF Outside
<1>5. Inside(q) => Inside(q)'
  BY <1>1, <1>2, <1>3 DEF Inside
<1>6. QED BY <1>1, <1>4, <1>5 DEF Both

\* Steps of a subscriber and its incoming network.
LEMMA SubscriberStep ==
    ASSUME Kept, NEW p \in Peers,
           UNCHANGED pubVars, UNCHANGED errors,
           \A q \in Peers \ {p} : PeerState(q)' = PeerState(q),
           Both(p)'
    PROVE  Kept'
<1>1. UNCHANGED <<next, lastCkpt, finishes, buffered, cache, member, ack>>
  BY DEF pubVars
<1>2. Newest' = Newest
  BY <1>1 DEF Newest
<1>3. ASSUME NEW q \in Peers PROVE Both(q)'
  BY <1>1, <1>2, OtherPeer DEF Kept
<1>4. Numbering'
  BY <1>1 DEF Kept, Numbering, Members
<1>5. Cached'
  BY <1>1 DEF Kept, Cached, Members
<1>6. QED BY <1>3, <1>4, <1>5 DEF Kept

LEMMA InsideContext ==
    ASSUME TypeOK, NEW p \in Peers
    PROVE  /\ Context(rx[p], Claims(p), emitted[p], floor[p], lastCkpt, finishes, Newest)
           /\ rx[p].last \in Ids /\ Newest \in Ids
           /\ down[p] \in Seq(DownFrame)
<1>1. /\ rx[p] \in RxState /\ emitted[p] \subseteq Nat /\ floor[p] \in Nat
      /\ lastCkpt \in Ids /\ finishes \in Nat /\ next \in Nat /\ down[p] \in Seq(DownFrame)
  BY DEF TypeOK
<1>2. Newest \in Ids
  BY <1>1 DEF Newest
<1>3. rx[p].last \in Ids
  BY <1>1 DEF RxState
<1>4. QED BY <1>1, <1>2, <1>3, ClaimsType DEF Context

\* acknowledge_completed_recovery_windows, with or without room
Acknowledges(p, r, got, room) ==
    /\ Inside(p) /\ ack'[p] = ack[p]
    /\ AcknowledgeCompleted(p, r, room)
    /\ Sound(r, Claims(p), got, floor[p], lastCkpt, finishes, Newest)

Acknowledged(p, r, got) ==
    /\ Sound(rx'[p], Claims(p)', got, floor[p], lastCkpt, finishes, Newest)
    /\ rx'[p].last = r.last
    /\ r.windows = {} => rx'[p].windows = {}
    /\ \A c \in Claims(p)' : c \in Claims(p) \/ (c <= r.last /\ r.windows # {})
    /\ \A f \in Frames(up[p])' : f.type \in {"ack", "nack"}
    /\ \A q \in Peers \ {p} : rx'[q] = rx[q] /\ up'[q] = up[q]

LEMMA AcknowledgedInside ==
    ASSUME TypeOK, NEW p \in Peers, NEW r \in RxState, NEW got \in SUBSET Nat,
           NEW room \in BOOLEAN, Acknowledges(p, r, got, room)
    PROVE  Acknowledged(p, r, got)
<1> SUFFICES ASSUME Inside(p), ack'[p] = ack[p], AcknowledgeCompleted(p, r, room),
                    Sound(r, Claims(p), got, floor[p], lastCkpt, finishes, Newest)
    PROVE  /\ Sound(rx'[p], Claims(p)', got, floor[p], lastCkpt, finishes, Newest)
           /\ rx'[p].last = r.last
           /\ r.windows = {} => rx'[p].windows = {}
           /\ \A c \in Claims(p)' : c \in Claims(p) \/ (c <= r.last /\ r.windows # {})
           /\ \A f \in Frames(up[p])' : f.type \in {"ack", "nack"}
           /\ \A q \in Peers \ {p} : rx'[q] = rx[q] /\ up'[q] = up[q]
  BY DEF Acknowledges, Acknowledged
<1>0. Context(r, Claims(p), got, floor[p], lastCkpt, finishes, Newest)
  BY InsideContext DEF Context
<1>1. CASE rx' = [rx EXCEPT ![p] = r] /\ UNCHANGED up
  <2>1. rx'[p] = r /\ up'[p] = up[p] /\ \A q \in Peers \ {p} : rx'[q] = rx[q] /\ up'[q] = up[q]
    BY <1>1 DEF TypeOK
  <2>2. Claims(p)' = Claims(p)
    BY <2>1 DEF Claims
  <2>3. QED BY <2>1, <2>2 DEF Inside
<1>2. ASSUME NEW w \in CompletedPrefix(r),
             rx' = [rx EXCEPT ![p] =
                      RetireThrough([r EXCEPT !.windows =
                                       {v \in @ : v.final > w.final}], w.final)],
             up' = [up EXCEPT ![p] = Append(@, Ack(w.final))]
      PROVE  /\ Sound(rx'[p], Claims(p)', got, floor[p], lastCkpt, finishes, Newest)
             /\ rx'[p].last = r.last
             /\ r.windows = {} => rx'[p].windows = {}
             /\ \A c \in Claims(p)' : c \in Claims(p) \/ (c <= r.last /\ r.windows # {})
             /\ \A f \in Frames(up[p])' : f.type \in {"ack", "nack"}
             /\ \A q \in Peers \ {p} : rx'[q] = rx[q] /\ up'[q] = up[q]
  <2> DEFINE s == RetireThrough([r EXCEPT !.windows = {v \in @ : v.final > w.final}], w.final)
  <2>1. w \in r.windows /\ w.final \in Nat /\ r.windows # {}
    BY WindowFields DEF CompletedPrefix
  <2>2. /\ s.windows = {v \in r.windows : v.final > w.final} /\ s.last = r.last
    BY <2>1, RetiredFields
  <2>3. Sound(s, Claims(p) \cup {w.final}, got, floor[p], lastCkpt, finishes, Newest)
    BY <1>0, SoundAcknowledged
  <2>4. rx'[p] = s /\ up'[p] = Append(up[p], Ack(w.final))
        /\ \A q \in Peers \ {p} : rx'[q] = rx[q] /\ up'[q] = up[q]
    BY <1>2 DEF TypeOK
  <2> HIDE DEF s
  <2>5. /\ Claims(p)' = Claims(p) \cup {w.final}
        /\ Frames(up[p])' = Frames(up[p]) \cup {Ack(w.final)}
    BY <2>1, <2>4, ClaimAppended
  <2>6. w.final <= r.last
    BY <2>1 DEF Sound, Shaped
  <2>7. \A f \in Frames(up[p])' : f.type \in {"ack", "nack"}
    BY <2>5 DEF Inside, Ack
  <2>8. QED BY <2>1, <2>2, <2>3, <2>4, <2>5, <2>6, <2>7
<1>3. QED BY <1>1, <1>2 DEF AcknowledgeCompleted

\* Steps that read no frame of the publisher.
LEMMA InsideKept ==
    ASSUME TypeOK, NEW p \in Peers, Inside(p),
           UNCHANGED <<lastCkpt, finishes>>, Newest' = Newest,
           rsub'[p] = rsub[p], ack'[p] = ack[p], down'[p] = down[p], floor'[p] = floor[p],
           dgrams'[p] \subseteq dgrams[p],
           rx'[p].last = rx[p].last, rx[p].windows = {} => rx'[p].windows = {},
           \A c \in Claims(p)' : c \in Claims(p) \/ (c <= rx[p].last /\ rx[p].windows # {}),
           \A f \in Frames(up[p])' : f.type \in {"ack", "nack"},
           Sound(rx'[p], Claims(p)', emitted'[p], floor[p], lastCkpt, finishes, Newest)
    PROVE  Inside(p)'
<1>1. Begun(p)'
  BY DEF Inside, Begun
<1>2. QED BY <1>1 DEF Inside

\* Steps that read one.
LEMMA InsideRead ==
    ASSUME TypeOK, NEW p \in Peers, Inside(p), down[p] # <<>>,
           UNCHANGED <<lastCkpt, finishes>>, Newest' = Newest,
           rsub'[p] = rsub[p], ack'[p] = ack[p], floor'[p] = floor[p],
           down'[p] = Tail(down[p]), dgrams'[p] = dgrams[p],
           rx'[p].last = Head(down[p]).final,
           \A c \in Claims(p)' : c <= rx'[p].last,
           \A f \in Frames(up[p])' : f.type \in {"ack", "nack"},
           Sound(rx'[p], Claims(p)', emitted'[p], floor[p], lastCkpt, finishes, Newest)
    PROVE  Inside(p)'
<1>1. /\ Linked(down'[p], rx'[p].last, lastCkpt, finishes) /\ ~Baselined(down'[p])
  <2>1. /\ down[p] \in Seq(DownFrame) /\ rx[p].last \in Ids
        /\ lastCkpt \in Ids /\ finishes \in Nat
    BY InsideContext DEF Context
  <2>2. Linked(down[p], rx[p].last, lastCkpt, finishes)
    BY DEF Inside
  <2>3. Linked(Tail(down[p]), Head(down[p]).final, lastCkpt, finishes) /\ ~Baselined(Tail(down[p]))
    BY <2>1, <2>2, LinkedTaken
  <2>4. QED BY <2>3
<1>2. Begun(p)'
  BY <1>1 DEF Begun
<1>3. QED BY <1>1, <1>2 DEF Inside

LEMMA LoseDatagramKept ==
    ASSUME TypeOK, Kept, NEW p \in Peers, NEW o \in dgrams[p], LoseDatagram(p, o)
    PROVE  Kept'
<1>1. /\ UNCHANGED pubVars /\ UNCHANGED errors
      /\ \A q \in Peers \ {p} : PeerState(q)' = PeerState(q)
  BY DEF LoseDatagram, histVars, pubVars, subVars, PeerState, TypeOK
<1>2. UNCHANGED <<lastCkpt, finishes>> /\ Newest' = Newest /\ Inside(p)
  BY <1>1 DEF Kept, Both, Outside, pubVars, Newest
<1>3. /\ conn'[p] = conn[p] /\ pconn'[p] = pconn[p] /\ member'[p] = member[p]
      /\ rsub'[p] = rsub[p] /\ rx'[p] = rx[p] /\ ack'[p] = ack[p]
      /\ down'[p] = down[p] /\ up'[p] = up[p] /\ dgrams'[p] \subseteq dgrams[p]
      /\ emitted'[p] = emitted[p] /\ floor'[p] = floor[p]
  BY DEF LoseDatagram, histVars, pubVars, subVars, TypeOK
<1>4. Claims(p)' = Claims(p)
  BY <1>3 DEF Claims
<1>5. Inside(p)'
  <2>1. Sound(rx'[p], Claims(p)', emitted'[p], floor[p], lastCkpt, finishes, Newest)
    BY <1>2, <1>3, <1>4 DEF Inside
  <2>2. \A f \in Frames(up[p])' : f.type \in {"ack", "nack"}
    BY <1>2, <1>3 DEF Inside
  <2>3. QED BY <1>2, <1>3, <1>4, <2>1, <2>2, InsideKept
<1>6. Both(p)'
  BY <1>2, <1>3, <1>5 DEF Kept, Both, Outside
<1>7. QED BY <1>1, <1>6, SubscriberStep

LEMMA SendNackKept ==
    ASSUME TypeOK, Kept, NEW p \in Peers, NEW o \in Wanted(rx[p]), SendNack(p, o)
    PROVE  Kept'
<1>0. o \in Nat /\ up' = [up EXCEPT ![p] = Append(@, Nack(o))]
  BY DEF SendNack, Wanted, TypeOK, RxState, WindowState
<1>1. /\ UNCHANGED pubVars /\ UNCHANGED errors
      /\ \A q \in Peers \ {p} : PeerState(q)' = PeerState(q)
  BY <1>0 DEF SendNack, histVars, pubVars, subVars, PeerState, TypeOK
<1>2. UNCHANGED <<lastCkpt, finishes>> /\ Newest' = Newest
  BY <1>1 DEF pubVars, Newest
<1>i. member[p] /\ Inside(p)
  BY DEF Kept, Both, Outside, Wanted, NewRx
<1>3. /\ conn'[p] = conn[p] /\ pconn'[p] = pconn[p] /\ member'[p] = member[p]
      /\ rsub'[p] = rsub[p] /\ rx'[p] = rx[p] /\ ack'[p] = ack[p]
      /\ down'[p] = down[p] /\ up'[p] = Append(up[p], Nack(o)) /\ dgrams'[p] = dgrams[p]
      /\ emitted'[p] = emitted[p] /\ floor'[p] = floor[p]
  BY <1>0 DEF SendNack, histVars, pubVars, subVars, TypeOK
<1>4. Claims(p)' = Claims(p) /\ Frames(up[p])' = Frames(up[p]) \cup {Nack(o)}
  BY <1>0, <1>3, NackAppended
<1>5. Inside(p)'
  <2>1. Sound(rx'[p], Claims(p)', emitted'[p], floor[p], lastCkpt, finishes, Newest)
    BY <1>i, <1>3, <1>4 DEF Inside
  <2>2. \A f \in Frames(up[p])' : f.type \in {"ack", "nack"}
    BY <1>i, <1>4 DEF Inside, Nack
  <2>3. QED BY <1>i, <1>2, <1>3, <1>4, <2>1, <2>2, InsideKept
<1>6. Both(p)'
  BY <1>i, <1>3, <1>5 DEF Kept, Both
<1>7. QED BY <1>1, <1>6, SubscriberStep

\* An acknowledgement after which nothing else of the subscription changed.
Completes(p, r, got, room) ==
    /\ AcknowledgeCompleted(p, r, room)
    /\ Sound(r, Claims(p), got, floor[p], lastCkpt, finishes, Newest)
    /\ r.last = rx[p].last /\ (rx[p].windows = {} => r.windows = {})
    /\ emitted'[p] = got /\ dgrams'[p] \subseteq dgrams[p]
    /\ UNCHANGED pubVars /\ UNCHANGED <<pconn, rsub, down, floor, errors>>
    /\ \A q \in Peers \ {p} : emitted'[q] = emitted[q] /\ dgrams'[q] = dgrams[q]

LEMMA AcknowledgedKept ==
    ASSUME TypeOK, Kept, NEW p \in Peers, member[p], NEW r \in RxState,
           NEW got \in SUBSET Nat, NEW room \in BOOLEAN, Completes(p, r, got, room)
    PROVE  Kept'
<1> SUFFICES
      ASSUME AcknowledgeCompleted(p, r, room),
             Sound(r, Claims(p), got, floor[p], lastCkpt, finishes, Newest),
             r.last = rx[p].last, rx[p].windows = {} => r.windows = {},
             emitted'[p] = got, dgrams'[p] \subseteq dgrams[p],
             UNCHANGED pubVars, UNCHANGED <<pconn, rsub, down, floor, errors>>,
             \A q \in Peers \ {p} : emitted'[q] = emitted[q] /\ dgrams'[q] = dgrams[q]
      PROVE  Kept'
  BY DEF Completes
<1>1. /\ UNCHANGED <<lastCkpt, finishes, conn, member, ack>> /\ Newest' = Newest
  BY DEF pubVars, Newest
<1>2. Inside(p) /\ Acknowledges(p, r, got, room)
  BY <1>1 DEF Kept, Both, Acknowledges
<1>3. /\ Sound(rx'[p], Claims(p)', got, floor[p], lastCkpt, finishes, Newest)
      /\ rx'[p].last = r.last
      /\ r.windows = {} => rx'[p].windows = {}
      /\ \A c \in Claims(p)' : c \in Claims(p) \/ (c <= r.last /\ r.windows # {})
      /\ \A f \in Frames(up[p])' : f.type \in {"ack", "nack"}
      /\ \A q \in Peers \ {p} : rx'[q] = rx[q] /\ up'[q] = up[q]
  <2>1. Acknowledged(p, r, got)
    BY <1>2, AcknowledgedInside
  <2>2. QED BY <2>1 DEF Acknowledged
<1>4. \A q \in Peers \ {p} : PeerState(q)' = PeerState(q)
  BY <1>1, <1>3 DEF PeerState
<1>5. Inside(p)'
  BY <1>1, <1>2, <1>3, InsideKept
<1>6. Both(p)'
  BY <1>1, <1>5 DEF Kept, Both
<1>7. QED BY <1>4, <1>6, SubscriberStep

LEMMA FlushRecoveryAcksKept ==
    ASSUME TypeOK, Kept, NEW p \in Peers, FlushRecoveryAcks(p)
    PROVE  Kept'
<1>1. rx[p] \in RxState /\ emitted[p] \in SUBSET Nat
  BY DEF TypeOK
<1>2. member[p] /\ Inside(p)
  BY DEF FlushRecoveryAcks, Kept, Both, Outside, NewRx, CompletedPrefix
<1>3. Sound(rx[p], Claims(p), emitted[p], floor[p], lastCkpt, finishes, Newest)
  BY <1>2 DEF Inside
<1>4. /\ AcknowledgeCompleted(p, rx[p], TRUE) /\ UNCHANGED pubVars
      /\ UNCHANGED <<pconn, rsub, down, floor, errors, emitted, dgrams>>
  BY DEF FlushRecoveryAcks, histVars
<1>5. Completes(p, rx[p], emitted[p], TRUE)
  BY <1>3, <1>4 DEF Completes
<1>6. QED BY <1>1, <1>2, <1>5, AcknowledgedKept

LEMMA ReceiveDatagramKept ==
    ASSUME TypeOK, Kept, NEW p \in Peers, NEW o \in dgrams[p], NEW room \in BOOLEAN,
           ReceiveDatagram(p, o, room)
    PROVE  Kept'
<1> DEFINE r == MarkObjectDelivered(ObserveObject(rx[p], o), o)
           marked == [r EXCEPT !.windows = {[w EXCEPT !.missing = @ \ {o}] : w \in @}]
<1>0. o \in Nat /\ rx[p] \in RxState /\ emitted[p] \in SUBSET Nat
  BY DEF TypeOK
<1>1. member[p] /\ Inside(p)
  BY DEF Kept, Both, Outside
<1>2. /\ UNCHANGED pubVars /\ UNCHANGED <<pconn, rsub, down, floor, errors>>
      /\ dgrams' = [dgrams EXCEPT ![p] = @ \ {o}]
  BY DEF ReceiveDatagram
<1>3. dgrams'[p] \subseteq dgrams[p] /\ \A q \in Peers \ {p} : dgrams'[q] = dgrams[q]
  BY <1>2 DEF TypeOK
<1>4. CASE UNCHANGED <<rx, up, emitted>>
  <2>1. UNCHANGED <<lastCkpt, finishes, conn, member, ack>> /\ Newest' = Newest
    BY <1>2 DEF pubVars, Newest
  <2>2. Claims(p)' = Claims(p) /\ Frames(up[p])' = Frames(up[p])
    BY <1>4, <2>1 DEF Claims
  <2>3. Inside(p)'
    <3>1. Sound(rx'[p], Claims(p)', emitted'[p], floor[p], lastCkpt, finishes, Newest)
      BY <1>1, <1>4, <2>2 DEF Inside
    <3>2. \A f \in Frames(up[p])' : f.type \in {"ack", "nack"}
      BY <1>1, <2>2 DEF Inside
    <3>3. QED BY <1>1, <1>2, <1>3, <1>4, <2>1, <2>2, <3>1, <3>2, InsideKept
  <2>4. \A q \in Peers \ {p} : PeerState(q)' = PeerState(q)
    BY <1>2, <1>3, <1>4, <2>1 DEF PeerState
  <2>5. Both(p)'
    BY <1>1, <1>2, <2>1, <2>3 DEF Kept, Both
  <2>6. QED BY <1>2, <2>4, <2>5, SubscriberStep
<1>5. CASE AcknowledgeCompleted(p, marked, room) /\ emitted' = [emitted EXCEPT ![p] = @ \cup {o}]
  <2>1. r \in RxState
    BY <1>0, ObserveType, MarkType
  <2>d. /\ r = MarkObjectDelivered(ObserveObject(rx[p], o), o)
        /\ marked = Unmissed(r, o)
    BY DEF Unmissed
  <2> HIDE DEF r, marked
  <2>2. Context(rx[p], Claims(p), emitted[p], floor[p], lastCkpt, finishes, Newest)
    BY InsideContext
  <2>3. Sound(rx[p], Claims(p), emitted[p], floor[p], lastCkpt, finishes, Newest) /\ o <= Newest
    BY <1>1 DEF Inside
  <2>4. /\ marked \in RxState /\ marked.last = rx[p].last
        /\ rx[p].windows = {} => marked.windows = {}
        /\ Sound(marked, Claims(p), emitted[p] \cup {o}, floor[p], lastCkpt, finishes, Newest)
    BY <1>0, <2>1, <2>d, <2>2, <2>3, SoundMarked
  <2>5. emitted'[p] = emitted[p] \cup {o} /\ \A q \in Peers \ {p} : emitted'[q] = emitted[q]
    BY <1>5 DEF TypeOK
  <2>6. emitted[p] \cup {o} \in SUBSET Nat
    BY <1>0
  <2>7. Completes(p, marked, emitted[p] \cup {o}, room)
    BY <1>1, <1>2, <1>3, <1>5, <2>4, <2>5 DEF Completes
  <2>8. QED BY <1>1, <2>4, <2>6, <2>7, AcknowledgedKept
<1>6. QED BY <1>4, <1>5 DEF ReceiveDatagram

-----------------------------------------------------------------------------
(* Frames of the publisher *)

\* The next frame of a member's control stream.
LEMMA NextFrame ==
    ASSUME TypeOK, NEW p \in Peers, Inside(p), down[p] # <<>>
    PROVE  /\ Head(down[p]) \in DownFrame /\ Head(down[p]) = down[p][1]
           /\ Head(down[p]).final \in Nat /\ Head(down[p]).final <= lastCkpt
           /\ Continues(Head(down[p]), rx[p].last, lastCkpt, finishes) \/ Baselined(down[p])
           /\ rx[p].last <= lastCkpt
<1>1. /\ down[p] \in Seq(DownFrame) /\ rx[p].last \in Ids
      /\ lastCkpt \in Ids /\ finishes \in Nat
  BY InsideContext DEF Context
<1>2. Linked(down[p], rx[p].last, lastCkpt, finishes)
  BY DEF Inside
<1>3. /\ Head(down[p]).final <= lastCkpt
      /\ Continues(Head(down[p]), rx[p].last, lastCkpt, finishes) \/ Baselined(down[p])
  BY <1>1, <1>2, LinkedTaken
<1>4. Head(down[p]) \in DownFrame /\ Head(down[p]) = down[p][1]
  BY <1>1
<1>5. Head(down[p]).final \in Nat
  BY <1>4 DEF DownFrame
<1>6. QED BY <1>2, <1>3, <1>4, <1>5 DEF Linked

\* receive_recovery_checkpoint does not reject what continues its windows:
\* with QLINQ_RECOVERY_MAX_WINDOWS open, the publisher's cache is full.
LEMMA CheckpointAccepted ==
    ASSUME Retention, Kept, NEW p \in Peers, member[p], Inside(p),
           NEW final \in Nat, rx[p].last < final, final <= lastCkpt,
           final <= rx[p].last + Window,
           \A c \in Claims(p) : c <= rx[p].last
    PROVE  /\ ~CheckpointRejected(rx[p], rx[p].last + 1, final)
           /\ \A w \in rx[p].windows : w.final # final
<1> DEFINE V == rx[p].windows
           last == rx[p].last
           a == ack[p].acked
<1>0. /\ TypeOK /\ rx[p] \in RxState /\ last \in Int /\ lastCkpt \in Int /\ next \in Nat
      /\ a \in Int /\ Window \in Nat /\ Window > 0 /\ MaxWindows \in Nat
  <2>1. TypeOK
    BY DEF Retention
  <2>2. /\ rx[p] \in RxState /\ lastCkpt \in Int /\ next \in Nat /\ ack[p] \in AckState
    BY <2>1 DEF TypeOK
  <2>3. last \in Int /\ a \in Int
    BY <2>2 DEF RxState, AckState
  <2>4. QED BY <2>1, <2>2, <2>3, WindowAssumption, MaxWindowsAssumption
<1>1. /\ IsFiniteSet(V) /\ Apart(V)
      /\ Shaped(rx[p], lastCkpt, finishes) /\ Unclaimed(rx[p], Claims(p))
  BY DEF Inside, Sound
<1>2. a \in Claims(p)
  BY DEF Claims
<1>3. \A w \in V : w.first \in Nat /\ w.final \in Nat /\ w.final <= last
  BY <1>0, <1>1, WindowFields DEF Shaped
<1>4. \A w \in V : w.final # final
  BY <1>0, <1>3
<1>5. Cardinality(V) # MaxWindows
  <2> SUFFICES ASSUME Cardinality(V) = MaxWindows PROVE FALSE
    OBVIOUS
  <2>1. V \subseteq WindowState
    BY <1>0 DEF RxState
  <2>2. \A w \in V : w.final = w.first + Window - 1 /\ a < w.first
    <3> TAKE w \in V
    <3>1. w.final # lastCkpt
      BY <1>0, <1>3
    <3>2. QED BY <1>1, <1>2, <3>1 DEF Shaped, Unclaimed
  <2>3. a <= last
    BY <1>2
  <2>4. Cardinality(V) * Window <= last - a
    BY <1>0, <1>1, <1>3, <2>1, <2>2, <2>3, FullWindowsFit
  <2>5. MaxWindows * Window = History
    BY <1>0 DEF History
  <2>6. IsFiniteSet(cache) /\ Cardinality(cache) <= Capacity
    <3>1. cache \subseteq 0 .. next /\ Cardinality(cache) <= Capacity
      BY DEF Kept, Cached
    <3>2. 0 \in Int /\ next \in Int
      BY <1>0
    <3>3. IsFiniteSet(0 .. next)
      BY <3>2, FS_Interval
    <3>4. QED BY <3>1, <3>3, FS_Subset
  <2>7. p \in Members /\ lastCkpt < next
    BY DEF Members, Retention, WatermarksOrdered
  <2>8. \A o \in a + 1 .. next - 1 : o \in cache
    <3> TAKE o \in a + 1 .. next - 1
    <3>1. -1 <= a
      <4>1. ack[p] \in AckState
        BY <1>0 DEF TypeOK
      <4>2. QED BY <4>1 DEF AckState
    <3>2. o \in Nat /\ a < o /\ o < next
      BY <1>0, <3>1
    <3>3. QED BY <2>7, <3>2 DEF Kept, Cached
  <2>9. (next - 1) - a <= History
    BY <1>0, <2>6, <2>8, HeldIsBounded
  <2>10. QED BY <1>0, <2>4, <2>5, <2>7, <2>9, HistoryIsNat
<1>6. ~(last + 1 > final) /\ ~(final - (last + 1) >= Window)
  BY <1>0
<1>7. QED BY <1>4, <1>5, <1>6 DEF CheckpointRejected

\* A checkpoint or an end that opens a window.
LEMMA WindowOpenedKept ==
    ASSUME Retention, Kept, NEW p \in Peers, member[p], Inside(p), down[p] # <<>>,
           ~Baselined(down[p]),
           rx[p].last < Head(down[p]).final,
           \/ Head(down[p]).final = rx[p].last + Window
           \/ /\ finishes > 0 /\ Head(down[p]).final = lastCkpt
              /\ lastCkpt < rx[p].last + Window,
           NEW room \in BOOLEAN,
           ReceiveRecoveryCheckpoint(p, rx[p].last + 1, Head(down[p]).final, room),
           UNCHANGED pubVars, UNCHANGED <<emitted, floor>>
    PROVE  Kept'
<1> DEFINE last == rx[p].last
           final == Head(down[p]).final
           s == OpenWindow(rx[p], last + 1, final)
<1>0. /\ TypeOK /\ rx[p] \in RxState /\ last \in Int /\ Window \in Nat /\ lastCkpt \in Int
      /\ emitted[p] \in SUBSET Nat
  <2>1. TypeOK
    BY DEF Retention
  <2>2. rx[p] \in RxState /\ lastCkpt \in Int /\ emitted[p] \in SUBSET Nat
    BY <2>1 DEF TypeOK
  <2>3. last \in Int
    BY <2>2 DEF RxState
  <2>4. QED BY <2>1, <2>2, <2>3, WindowAssumption
<1>1. final \in Nat /\ final <= lastCkpt
  BY <1>0, NextFrame
<1>2. \A c \in Claims(p) : c <= last
  BY DEF Inside, Begun
<1>3. final <= last + Window
  BY <1>0, <1>1
<1>4. /\ ~CheckpointRejected(rx[p], last + 1, final)
      /\ \A w \in rx[p].windows : w.final # final
  <2> HIDE DEF last, final
  <2>1. rx[p].last = last
    BY DEF last
  <2>2. QED BY <1>1, <1>2, <1>3, <2>1, CheckpointAccepted DEF last, final
<1>5. /\ down' = [down EXCEPT ![p] = Tail(@)]
      /\ AcknowledgeCompleted(p, s, room)
      /\ UNCHANGED <<pconn, rsub, dgrams, errors>>
  BY <1>0, <1>1, <1>4 DEF ReceiveRecoveryCheckpoint
<1>6. Context(rx[p], Claims(p), emitted[p], floor[p], lastCkpt, finishes, Newest)
      /\ Sound(rx[p], Claims(p), emitted[p], floor[p], lastCkpt, finishes, Newest)
  BY <1>0, InsideContext DEF Inside
<1>7. s \in RxState /\ s.last = final
      /\ Sound(s, Claims(p), emitted[p], floor[p], lastCkpt, finishes, Newest)
  BY <1>1, <1>2, <1>6, SoundOpened
<1>8. /\ UNCHANGED <<lastCkpt, finishes, conn, member, ack>> /\ Newest' = Newest
  BY DEF pubVars, Newest
<1>9. /\ down'[p] = Tail(down[p]) /\ ack'[p] = ack[p]
      /\ \A q \in Peers \ {p} : down'[q] = down[q]
  BY <1>0, <1>5, <1>8 DEF TypeOK
<1> HIDE DEF s
<1>10. /\ Sound(rx'[p], Claims(p)', emitted[p], floor[p], lastCkpt, finishes, Newest)
       /\ rx'[p].last = s.last
       /\ \A c \in Claims(p)' : c \in Claims(p) \/ (c <= s.last /\ s.windows # {})
       /\ \A f \in Frames(up[p])' : f.type \in {"ack", "nack"}
       /\ \A q \in Peers \ {p} : rx'[q] = rx[q] /\ up'[q] = up[q]
  <2>1. AcknowledgeCompleted(p, s, room)
    BY <1>5
  <2>2. emitted[p] \in SUBSET Nat /\ ack'[p] = ack[p]
    BY <1>0, <1>9
  <2>3. Acknowledges(p, s, emitted[p], room)
    BY <1>0, <1>7, <2>1, <2>2 DEF Acknowledges
  <2> HIDE DEF last, final
  <2>4. Acknowledged(p, s, emitted[p])
    BY <1>0, <1>7, <2>2, <2>3, AcknowledgedInside
  <2>5. QED BY <2>4 DEF Acknowledged
<1>11. \A c \in Claims(p)' : c <= final
  <2> TAKE c \in Claims(p)'
  <2>1. CASE c \in Claims(p)
    <3>1. c \in Int
      BY <1>0, <2>1, ClaimsType
    <3>2. QED BY <1>0, <1>1, <1>2, <2>1, <3>1
  <2>2. QED BY <1>7, <1>10, <2>1
<1>12. Inside(p)'
  <2>1. rx'[p].last = Head(down[p]).final /\ \A c \in Claims(p)' : c <= rx'[p].last
    BY <1>7, <1>10, <1>11
  <2>2. Sound(rx'[p], Claims(p)', emitted'[p], floor[p], lastCkpt, finishes, Newest)
    BY <1>10
  <2>3. rsub'[p] = rsub[p] /\ floor'[p] = floor[p] /\ dgrams'[p] = dgrams[p]
    BY <1>5
  <2> HIDE DEF last, final
  <2>4. QED BY <1>0, <1>8, <1>9, <1>10, <2>1, <2>2, <2>3, InsideRead
<1>13. \A q \in Peers \ {p} : PeerState(q)' = PeerState(q)
  BY <1>5, <1>8, <1>9, <1>10 DEF PeerState
<1>14. Both(p)'
  BY <1>5, <1>8, <1>12 DEF Kept, Both
<1>15. QED BY <1>5, <1>13, <1>14, SubscriberStep

LEMMA ReceivedMember ==
    ASSUME Kept, NEW p \in Peers, NEW type, Received(p, type)
    PROVE  member[p] /\ Inside(p) /\ rsub[p] /\ down[p] # <<>>
BY DEF Kept, Both, Outside, Inside, Received

LEMMA HandleCheckpointKept ==
    ASSUME Retention, Kept, NEW p \in Peers, NEW room \in BOOLEAN, HandleCheckpoint(p, room)
    PROVE  Kept'
<1>0. TypeOK
  BY DEF Retention
<1>1. /\ member[p] /\ Inside(p) /\ rsub[p] /\ down[p] # <<>>
      /\ Head(down[p]).type = "checkpoint"
  BY ReceivedMember DEF HandleCheckpoint, Received
<1>2. ~Baselined(down[p]) /\ Continues(Head(down[p]), rx[p].last, lastCkpt, finishes)
  BY <1>0, <1>1, NextFrame DEF Baselined
<1>3. Head(down[p]).first = rx[p].last + 1 /\ Head(down[p]).final = rx[p].last + Window
  BY <1>1, <1>2 DEF Continues
<1>4. rx[p].last < Head(down[p]).final
  <2>1. rx[p].last \in Ids
    BY <1>0, InsideContext
  <2>2. QED BY <1>3, <2>1, WindowAssumption
<1>5. /\ ReceiveRecoveryCheckpoint(p, rx[p].last + 1, Head(down[p]).final, room)
      /\ UNCHANGED pubVars /\ UNCHANGED <<emitted, floor>>
  BY <1>1, <1>3 DEF HandleCheckpoint
<1>6. QED BY <1>1, <1>2, <1>3, <1>4, <1>5, WindowOpenedKept

\* A frame after which the windows are as they were and `id', where the
\* subscriber now stands, is acknowledged.
LEMMA ClaimedKept ==
    ASSUME TypeOK, Kept, NEW p \in Peers, member[p], Inside(p), down[p] # <<>>,
           rx[p].windows = {}, NEW s \in RxState, s.windows = {},
           s.largest = rx[p].largest, s.delivered = rx[p].delivered,
           s.last = Head(down[p]).final,
           \/ Head(down[p]).final < floor[p]
           \/ Head(down[p]).final = rx[p].last,
           \A c \in Claims(p) : c <= Head(down[p]).final,
           rx' = [rx EXCEPT ![p] = s],
           up' = [up EXCEPT ![p] = Append(@, Ack(Head(down[p]).final))],
           down' = [down EXCEPT ![p] = Tail(@)],
           UNCHANGED pubVars, UNCHANGED <<pconn, rsub, dgrams, errors, emitted, floor>>
    PROVE  Kept'
<1> DEFINE id == Head(down[p]).final
<1>1. id \in Nat
  BY NextFrame
<1>2. /\ UNCHANGED <<lastCkpt, finishes, conn, member, ack>> /\ Newest' = Newest
  BY DEF pubVars, Newest
<1>3. /\ rx'[p] = s /\ up'[p] = Append(up[p], Ack(id)) /\ down'[p] = Tail(down[p])
      /\ ack'[p] = ack[p]
      /\ \A q \in Peers \ {p} : rx'[q] = rx[q] /\ up'[q] = up[q] /\ down'[q] = down[q]
  BY <1>2 DEF TypeOK
<1>4. /\ Claims(p)' = Claims(p) \cup {id}
      /\ Frames(up[p])' = Frames(up[p]) \cup {Ack(id)}
  BY <1>1, <1>3, ClaimAppended
<1>5. Context(rx[p], Claims(p), emitted[p], floor[p], lastCkpt, finishes, Newest)
      /\ Sound(rx[p], Claims(p), emitted[p], floor[p], lastCkpt, finishes, Newest)
  BY InsideContext DEF Inside
<1>6. (id < floor[p] /\ s.last = id) \/ (id <= rx[p].last /\ s.last = rx[p].last)
  BY <1>1
<1>7. Sound(s, Claims(p) \cup {id}, emitted[p], floor[p], lastCkpt, finishes, Newest)
  <2> HIDE DEF id
  <2>1. QED BY <1>1, <1>5, <1>6, SoundClaimed
<1>8. Inside(p)'
  <2>1. rx'[p].last = Head(down[p]).final /\ \A c \in Claims(p)' : c <= rx'[p].last
    BY <1>1, <1>3, <1>4
  <2>2. Sound(rx'[p], Claims(p)', emitted'[p], floor[p], lastCkpt, finishes, Newest)
    BY <1>3, <1>4, <1>7
  <2>3. \A f \in Frames(up[p])' : f.type \in {"ack", "nack"}
    BY <1>4 DEF Inside, Ack
  <2>4. rsub'[p] = rsub[p] /\ floor'[p] = floor[p] /\ dgrams'[p] = dgrams[p]
    OBVIOUS
  <2> HIDE DEF id
  <2>5. QED BY <1>2, <1>3, <2>1, <2>2, <2>3, <2>4, InsideRead
<1>9. \A q \in Peers \ {p} : PeerState(q)' = PeerState(q)
  BY <1>2, <1>3 DEF PeerState
<1>10. Both(p)'
  BY <1>2, <1>8 DEF Kept, Both
<1>11. QED BY <1>9, <1>10, SubscriberStep

LEMMA HandleBaselineKept ==
    ASSUME Retention, Kept, NEW p \in Peers, HandleBaseline(p)
    PROVE  Kept'
<1> DEFINE id == Head(down[p]).final
<1>0. TypeOK
  BY DEF Retention
<1>1. /\ member[p] /\ Inside(p) /\ rsub[p] /\ down[p] # <<>>
      /\ Head(down[p]).type = "baseline"
  BY ReceivedMember DEF HandleBaseline, Received
<1>2. /\ Head(down[p]) = down[p][1] /\ id \in Nat
      /\ rx[p] \in RxState /\ floor[p] \in Nat
  BY <1>0, <1>1, NextFrame DEF TypeOK
<1>3. Baselined(down[p])
  BY <1>1, <1>2 DEF Baselined
<1>4. rx[p].last = -1 /\ rx[p].windows = {} /\ id = floor[p] - 1
  BY <1>1, <1>2, <1>3 DEF Inside, Begun
<1>5. \A c \in Claims(p) : c <= id
  <2> TAKE c \in Claims(p)
  <2>1. c \in Ids
    BY <1>0, ClaimsType
  <2>2. c <= rx[p].last \/ c < floor[p]
    BY <1>1 DEF Inside, Begun
  <2>3. QED BY <1>2, <1>4, <2>1, <2>2
<1>6. id < floor[p] /\ rx[p].last <= id
  BY <1>2, <1>4
<1>7. PICK s : s = [rx[p] EXCEPT !.last = id]
  OBVIOUS
<1>8. /\ s \in RxState /\ s.windows = {} /\ s.last = id
      /\ s.largest = rx[p].largest /\ s.delivered = rx[p].delivered
  <2>1. s \in RxState
    BY <1>2, <1>7, LastType
  <2>2. QED BY <1>2, <1>4, <1>7, <2>1 DEF RxState
<1>9. /\ rx' = [rx EXCEPT ![p] = s]
      /\ up' = [up EXCEPT ![p] = Append(@, Ack(id))]
      /\ down' = [down EXCEPT ![p] = Tail(@)]
      /\ UNCHANGED pubVars /\ UNCHANGED <<pconn, rsub, dgrams, errors, emitted, floor>>
  <2>1. rx' = [rx EXCEPT ![p].last = id]
    BY <1>1, <1>6 DEF HandleBaseline
  <2>2. rx' = [rx EXCEPT ![p] = s]
    BY <1>7, <2>1
  <2>3. QED BY <1>1, <1>6, <2>2 DEF HandleBaseline
<1> HIDE DEF id
<1>10. QED BY <1>0, <1>1, <1>4, <1>5, <1>6, <1>8, <1>9, ClaimedKept DEF id

LEMMA HandleTrackEndKept ==
    ASSUME Retention, Kept, NEW p \in Peers, NEW room \in BOOLEAN, HandleTrackEnd(p, room)
    PROVE  Kept'
<1> DEFINE id == Head(down[p]).final
           r == rx[p]
<1>0. TypeOK
  BY DEF Retention
<1>1. /\ member[p] /\ Inside(p) /\ rsub[p] /\ down[p] # <<>>
      /\ Head(down[p]).type = "end"
  BY ReceivedMember DEF HandleTrackEnd, Received
<1>2. /\ Head(down[p]) = down[p][1] /\ id \in Nat /\ r.last <= lastCkpt
      /\ ~Baselined(down[p]) /\ Continues(Head(down[p]), r.last, lastCkpt, finishes)
  BY <1>0, <1>1, NextFrame DEF Baselined
<1>3. finishes > 0 /\ id = lastCkpt /\ lastCkpt < r.last + Window
  BY <1>1, <1>2 DEF Continues
<1>4. r \in RxState /\ r.last \in Ids /\ Window \in Nat
  BY <1>0, InsideContext, WindowAssumption DEF TypeOK
<1>5. \A c \in Claims(p) : c <= r.last
  BY <1>1, <1>2 DEF Inside, Begun
<1>u. UNCHANGED pubVars /\ UNCHANGED <<emitted, floor>>
  BY DEF HandleTrackEnd
<1>6. CASE id <= r.last
  <2>1. id = r.last /\ r.last # -1
    BY <1>2, <1>3, <1>4, <1>6
  <2>2. /\ down' = [down EXCEPT ![p] = Tail(@)]
        /\ UNCHANGED <<pconn, rsub, dgrams, errors>>
    BY <1>1, <1>6, <2>1 DEF HandleTrackEnd
  <2>3. CASE NothingOutstanding(r)
    <3>1. PICK s : s = RetireThrough(r, id)
      OBVIOUS
    <3>2. /\ s \in RxState /\ s.windows = r.windows /\ s.last = r.last
          /\ s.largest = r.largest /\ s.delivered = r.delivered
      <4>1. s \in RxState
        BY <1>2, <1>4, <3>1, RetireType
      <4>2. QED BY <1>4, <3>1, <4>1 DEF RetireThrough, RxState
    <3>3. /\ rx' = [rx EXCEPT ![p] = s]
          /\ up' = [up EXCEPT ![p] = Append(@, Ack(id))]
      BY <1>1, <1>6, <2>1, <2>3, <3>1 DEF HandleTrackEnd
    <3>4. r.windows = {} /\ s.windows = {}
      BY <2>3, <3>2 DEF NothingOutstanding
    <3>5. s.last = id /\ \A c \in Claims(p) : c <= id
      BY <1>5, <2>1, <3>2
    <3> HIDE DEF id
    <3>6. QED BY <1>0, <1>1, <1>u, <2>1, <2>2, <3>2, <3>3, <3>4, <3>5, ClaimedKept DEF id
  <2>4. CASE ~NothingOutstanding(r)
    <3>1. UNCHANGED <<rx, up>>
      BY <1>1, <1>6, <2>1, <2>4 DEF HandleTrackEnd
    <3>2. /\ UNCHANGED <<lastCkpt, finishes, conn, member, ack>> /\ Newest' = Newest
      BY <1>u DEF pubVars, Newest
    <3>3. Claims(p)' = Claims(p) /\ Frames(up[p])' = Frames(up[p])
      BY <3>1, <3>2 DEF Claims
    <3>4. down'[p] = Tail(down[p]) /\ \A q \in Peers \ {p} : down'[q] = down[q]
      BY <1>0, <2>2 DEF TypeOK
    <3>5. Inside(p)'
      <4>1. Sound(rx'[p], Claims(p)', emitted'[p], floor[p], lastCkpt, finishes, Newest)
        BY <1>1, <1>u, <3>1, <3>3 DEF Inside
      <4>2. \A f \in Frames(up[p])' : f.type \in {"ack", "nack"}
        BY <1>1, <3>3 DEF Inside
      <4>3. rx'[p].last = Head(down[p]).final /\ \A c \in Claims(p)' : c <= rx'[p].last
        BY <1>5, <2>1, <3>1, <3>3
      <4>4. rsub'[p] = rsub[p] /\ ack'[p] = ack[p] /\ floor'[p] = floor[p]
            /\ dgrams'[p] = dgrams[p]
        BY <1>u, <2>2, <3>2
      <4>5. QED BY <1>0, <1>1, <3>2, <3>4, <4>1, <4>2, <4>3, <4>4, InsideRead
    <3>6. \A q \in Peers \ {p} : PeerState(q)' = PeerState(q)
      BY <1>u, <2>2, <3>1, <3>2, <3>4 DEF PeerState
    <3>7. Both(p)'
      BY <1>1, <2>2, <3>2, <3>5 DEF Kept, Both
    <3>8. QED BY <1>u, <2>2, <3>6, <3>7, SubscriberStep
  <2>5. QED BY <2>3, <2>4
<1>7. CASE ~(id <= r.last)
  <2>1. (IF r.last # -1 THEN r.last + 1
         ELSE IF id + 1 >= Window THEN id + 1 - Window ELSE 0) = r.last + 1
    BY <1>2, <1>3, <1>4
  <2>2. ReceiveRecoveryCheckpoint(p, r.last + 1, id, room)
    BY <1>1, <1>7, <2>1 DEF HandleTrackEnd
  <2>3. r.last < id
    BY <1>2, <1>4, <1>7
  <2>4. QED BY <1>1, <1>2, <1>3, <1>u, <2>2, <2>3, WindowOpenedKept
<1>8. QED BY <1>6, <1>7

-----------------------------------------------------------------------------
(* Window boundaries *)

\* What the remainder is.
LEMMA Remainder ==
    ASSUME NEW W \in Nat \ {0}, NEW x \in Nat
    PROVE  /\ x \div W \in Nat /\ (x % W) \in 0 .. W - 1
           /\ x = (W * (x \div W)) + (x % W)
OBVIOUS

\* Multiples of a number are that number apart.
LEMMA Multiples ==
    ASSUME NEW W \in Nat \ {0}, NEW i \in Int, NEW j \in Int, i < j
    PROVE  W * i + W <= W * j
<1>1. j - i - 1 \in Nat
  OBVIOUS
<1>2. W * (j - i - 1) >= 0
  BY <1>1
<1>3. W * (j - i - 1) = W * j - W * i - W
  OBVIOUS
<1>4. W * i \in Int /\ W * j \in Int /\ W \in Int
  OBVIOUS
<1>5. QED BY <1>2, <1>3, <1>4

\* Between two multiples of the window that are at most a window apart.
LEMMA NextBoundary ==
    ASSUME NEW W \in Nat \ {0}, NEW x \in Nat, NEW y \in Nat,
           x % W = 0, x < y, y <= x + W
    PROVE  y % W = 0 <=> y = x + W
<1> DEFINE i == x \div W
           j == y \div W
           m == y % W
<1>1. i \in Nat /\ x = W * i
  <2>1. x = (W * i) + (x % W) /\ i \in Nat
    BY Remainder
  <2>2. QED BY <2>1
<1>2. j \in Nat /\ m \in 0 .. W - 1 /\ y = (W * j) + m
  BY Remainder
<1> HIDE DEF i, j, m
<1>3. W * i \in Nat /\ W * j \in Nat
  BY <1>1, <1>2
<1>4. j < i => W * j + W <= W * i
  BY <1>1, <1>2, Multiples
<1>5. ~(j < i)
  BY <1>1, <1>2, <1>3, <1>4
<1>6. i < j => W * i + W <= W * j
  BY <1>1, <1>2, Multiples
<1>7. i = j => y = x + m
  BY <1>1, <1>2
<1>8. i < j => m = 0 /\ y = x + W
  BY <1>1, <1>2, <1>3, <1>6
<1>9. QED BY <1>1, <1>2, <1>5, <1>7, <1>8 DEF m

-----------------------------------------------------------------------------
(* Steps of the publisher *)

\* A peer of a publisher that numbers, sends or announces objects.
LEMMA PublisherPeer ==
    ASSUME TypeOK, TypeOK', NEW p \in Peers, Both(p),
           UNCHANGED <<conn, member, pconn, rsub, rx, up, emitted, floor>>,
           ack'[p].acked = ack[p].acked,
           Newest <= Newest', finishes <= finishes', finishes > 0 => lastCkpt' = lastCkpt,
           \A o \in dgrams'[p] : o \in dgrams[p] \/ (member[p] /\ o <= Newest'),
           member[p] => /\ ack'[p].sent = lastCkpt'
                        /\ Linked(down'[p], rx[p].last, lastCkpt', finishes')
                        /\ Baselined(down'[p]) => Baselined(down[p]) /\ down'[p][1] = down[p][1]
                        /\ Baselined(down[p]) => Baselined(down'[p]),
           ~member[p] => down'[p] = down[p]
    PROVE  Both(p)'
<1>1. Claims(p)' = Claims(p)
  BY DEF Claims
<1>2. CASE ~member[p]
  <2>1. dgrams'[p] = {}
    BY <1>2 DEF Both, Outside
  <2>2. QED BY <1>2, <2>1 DEF Both, Outside
<1>3. CASE member[p]
  <2>1. Context(rx[p], Claims(p), emitted[p], floor[p], lastCkpt, finishes, Newest)
        /\ Newest \in Ids /\ Inside(p)
    BY <1>3, InsideContext DEF Both
  <2>2. /\ lastCkpt' \in Ids /\ finishes' \in Nat /\ dgrams[p] \subseteq Nat
    BY DEF TypeOK
  <2>n. Newest' \in Ids
    <3>1. next' \in Nat
      BY DEF TypeOK
    <3>2. Newest' = next' \/ Newest' = next' - 1
      BY DEF Newest
    <3> HIDE DEF Newest
    <3>3. QED BY <3>1, <3>2
  <2>3. Sound(rx[p], Claims(p), emitted[p], floor[p], lastCkpt, finishes, Newest)
    BY <2>1 DEF Inside
  <2>4. Sound(rx[p], Claims(p), emitted[p], floor[p], lastCkpt', finishes', Newest')
    BY <2>1, <2>2, <2>n, <2>3, SoundLater
  <2>5. \A o \in dgrams'[p] : o <= Newest'
    <3> TAKE o \in dgrams'[p]
    <3>1. o \in dgrams[p] => o <= Newest /\ o \in Nat
      BY <2>1, <2>2 DEF Inside
    <3>2. QED BY <2>1, <2>n, <3>1
  <2>6. Begun(p)'
    BY <1>1, <1>3, <2>1 DEF Inside, Begun
  <2>7. Inside(p)'
    BY <1>1, <1>3, <2>1, <2>4, <2>5, <2>6 DEF Inside
  <2>8. QED BY <1>3, <2>7 DEF Both
<1>4. QED BY <1>2, <1>3

\* While every connection is open, members are eligible.
LEMMA MembersEligible == Kept => Eligible = Members /\ Members \subseteq Peers
BY DEF Kept, Both, Eligible, Members

LEMMA BufferRecordKept ==
    ASSUME TypeOK, Kept, BufferRecord
    PROVE  Kept'
<1>1. /\ UNCHANGED <<next, lastCkpt, finishes, cache, conn, member, ack>>
      /\ UNCHANGED subVars /\ UNCHANGED netVars /\ UNCHANGED histVars
      /\ finishes = 0 /\ Eligible # {}
  BY DEF BufferRecord
<1>2. Newest' = Newest
  BY <1>1 DEF Newest
<1>3. ASSUME NEW q \in Peers PROVE Both(q)'
  <2>1. PeerState(q)' = PeerState(q)
    BY <1>1 DEF PeerState, subVars, netVars, histVars
  <2>2. QED BY <1>1, <1>2, <2>1, OtherPeer DEF Kept
<1>4. Numbering'
  BY <1>1, MembersEligible DEF Kept, Numbering, Members
<1>5. Cached'
  BY <1>1 DEF Kept, Cached, Members
<1>6. QED BY <1>1, <1>3, <1>4, <1>5 DEF Kept, histVars

\* The id of the waiting group joins the cache.
LEMMA GroupCached ==
    ASSUME TypeOK, Kept, CanStore(next)
    PROVE  /\ cache \cup {next} \subseteq 0 .. next
           /\ Cardinality(cache \cup {next}) <= Capacity
           /\ Newest <= next /\ next + 1 \notin cache \cup {next}
<1>0. next \in Nat /\ cache \subseteq 0 .. next /\ Cardinality(cache) <= Capacity
  BY DEF TypeOK, Kept, Cached
<1>1. IsFiniteSet(cache)
  <2>1. 0 \in Int /\ next \in Int
    BY <1>0
  <2>2. IsFiniteSet(0 .. next)
    BY <2>1, FS_Interval
  <2>3. QED BY <1>0, <2>2, FS_Subset
<1>2. Cardinality(cache \cup {next}) <= Capacity
  <2>1. CASE next \in cache
    <3>1. cache \cup {next} = cache
      BY <2>1
    <3>2. QED BY <1>0, <3>1
  <2>2. CASE next \notin cache
    <3>1. Cardinality(cache \cup {next}) = Cardinality(cache) + 1
      BY <1>1, <2>2, FS_AddElement
    <3>2. Cardinality(cache) < Capacity /\ Cardinality(cache) \in Nat
      BY <1>1, <2>2, FS_CardinalityType DEF CanStore
    <3>3. QED BY <3>1, <3>2, CapacityAssumption
  <2>3. QED BY <2>1, <2>2
<1>3. QED BY <1>0, <1>2 DEF Newest

LEMMA FlushGroupedKept ==
    ASSUME Retention, Kept, NEW admitted \in SUBSET Peers, FlushGrouped(admitted)
    PROVE  Kept'
<1> DEFINE sent == (delivered \cap Eligible) \cup admitted
<1>0. TypeOK /\ TypeOK' /\ next \in Nat /\ lastCkpt \in Ids /\ lastCkpt < next
  BY FlushGroupedType DEF Retention, TypeOK, WatermarksOrdered
<1>1. /\ buffered /\ admitted \subseteq Eligible \ delivered /\ CanStore(next)
      /\ cache' = IF sent # {} THEN cache \cup {next} ELSE cache
      /\ dgrams' = [p \in Peers |->
                    IF p \in admitted /\ pconn[p] = "open"
                    THEN dgrams[p] \cup {next} ELSE dgrams[p]]
      /\ UNCHANGED <<finishes, conn, member, up>> /\ UNCHANGED subVars /\ UNCHANGED histVars
  BY DEF FlushGrouped
<1>2. /\ UNCHANGED <<conn, member, pconn, rsub, rx, up, emitted, floor, finishes, errors>>
      /\ Eligible = Members /\ Members # {} /\ Members' = Members
      /\ finishes = 0 /\ (lastCkpt + 1) % Window = 0 /\ next <= lastCkpt + Window
  <2>1. UNCHANGED <<pconn, rsub, rx, emitted, floor, errors>>
    BY <1>1 DEF subVars, histVars
  <2>2. Eligible = Members /\ Members' = Members
    BY <1>1, MembersEligible DEF Members
  <2>3. Members # {} /\ finishes = 0
    BY <1>0, <1>1 DEF Kept, Numbering, TypeOK
  <2>4. (lastCkpt + 1) % Window = 0 /\ next <= lastCkpt + Window
    BY <2>3 DEF Kept, Numbering
  <2>5. QED BY <1>1, <2>1, <2>2, <2>3, <2>4
<1>3. /\ cache \cup {next} \subseteq 0 .. next
      /\ Cardinality(cache \cup {next}) <= Capacity
      /\ Newest <= next /\ next + 1 \notin cache \cup {next}
  BY <1>0, <1>1, GroupCached
<1>4. /\ cache' \subseteq 0 .. next /\ Cardinality(cache') <= Capacity /\ cache \subseteq cache'
  BY <1>1, <1>3 DEF Kept, Cached
<1>5. ASSUME NEW p \in Peers, NEW o \in dgrams'[p]
      PROVE  o \in dgrams[p] \/ (member[p] /\ o = next /\ next \in cache')
  BY <1>1, <1>2, <1>5 DEF Members
<1>6. CASE sent # Eligible
  <2>1. UNCHANGED <<next, lastCkpt, buffered, ack, down>>
    BY <1>6 DEF FlushGrouped
  <2>2. Newest <= Newest' /\ (next \in cache' => Newest' = next)
    BY <1>0, <1>3, <1>4, <2>1 DEF Newest
  <2>3. ASSUME NEW p \in Peers PROVE Both(p)'
    <3>1. Both(p) /\ finishes \in Nat
      BY <1>0 DEF Kept, TypeOK
    <3>2. \A o \in dgrams'[p] : o \in dgrams[p] \/ (member[p] /\ o <= Newest')
      BY <1>0, <1>5, <2>2
    <3>3. member[p] => /\ ack'[p].sent = lastCkpt'
                       /\ Linked(down'[p], rx[p].last, lastCkpt', finishes')
      BY <1>2, <2>1, <3>1 DEF Both, Inside
    <3>4. QED BY <1>0, <1>2, <2>1, <2>2, <3>1, <3>2, <3>3, PublisherPeer
  <2>4. Numbering'
    BY <1>2, <2>1 DEF Kept, Numbering
  <2>5. Cached'
    BY <1>2, <1>4, <2>1 DEF Kept, Cached
  <2>6. QED BY <1>2, <2>3, <2>4, <2>5 DEF Kept
<1>7. CASE sent = Eligible
  <2>1. next' = next + 1 /\ ~buffered' /\ cache' = cache \cup {next}
    BY <1>1, <1>2, <1>7 DEF FlushGrouped
  <2>2. Newest' = next
    BY <1>0, <1>3, <2>1 DEF Newest
  <2>3. (next + 1) % Window = 0 <=> next = lastCkpt + Window
    <3>1. /\ lastCkpt + 1 \in Nat /\ next + 1 \in Nat /\ Window \in Nat \ {0}
          /\ lastCkpt + 1 < next + 1 /\ next + 1 <= lastCkpt + 1 + Window
      BY <1>0, <1>2, WindowAssumption
    <3>2. (next + 1) % Window = 0 <=> next + 1 = lastCkpt + 1 + Window
      BY <1>2, <3>1, NextBoundary
    <3>3. QED BY <1>0, <3>1, <3>2
  <2> DEFINE Announced(p) ==
               /\ ack'[p].acked = ack[p].acked
               /\ member[p] => /\ ack'[p].sent = lastCkpt'
                               /\ Linked(down'[p], rx[p].last, lastCkpt', finishes')
                               /\ Baselined(down'[p]) => Baselined(down[p]) /\ down'[p][1] = down[p][1]
                               /\ Baselined(down[p]) => Baselined(down'[p])
               /\ ~member[p] => down'[p] = down[p]
  <2>4. /\ \A p \in Peers : Announced(p)
        /\ (lastCkpt' + 1) % Window = 0 /\ next' <= lastCkpt' + Window /\ lastCkpt' \in Int
    <3>1. CASE (next + 1) % Window # 0
      <4>1. UNCHANGED <<lastCkpt, ack, down>>
        BY <1>7, <3>1 DEF FlushGrouped
      <4>2. next' <= lastCkpt' + Window
        BY <1>0, <1>2, <2>1, <2>3, <3>1, <4>1, WindowAssumption
      <4>3. \A p \in Peers : Announced(p)
        BY <1>2, <4>1 DEF Kept, Both, Inside
      <4>4. QED BY <1>0, <1>2, <4>1, <4>2, <4>3
    <3>2. CASE (next + 1) % Window = 0
      <4> DEFINE e == Checkpoint(next + 1 - Window, next)
      <4>1. /\ down' = [p \in Peers |-> IF p \in Eligible THEN Append(down[p], e) ELSE down[p]]
            /\ ack' = [p \in Peers |-> IF p \in Eligible THEN [ack[p] EXCEPT !.sent = next] ELSE ack[p]]
            /\ lastCkpt' = next
        BY <1>7, <3>2 DEF FlushGrouped, EmitRollingCheckpoint
      <4>2. /\ next = lastCkpt + Window /\ next + 1 - Window = lastCkpt + 1
            /\ lastCkpt + 1 \in Nat
        BY <1>0, <2>3, <3>2, WindowAssumption
      <4>3. /\ e \in DownFrame /\ e.final = next /\ e.type = "checkpoint"
            /\ Continues(e, lastCkpt, next, finishes)
        BY <1>0, <4>2 DEF Checkpoint, DownFrame, Continues
      <4> HIDE DEF e
      <4>4. ASSUME NEW p \in Peers PROVE Announced(p)
        <5>1. ack[p] \in AckState /\ down[p] \in Seq(DownFrame) /\ rx[p].last \in Ids
              /\ finishes \in Nat
          BY <1>0, InsideContext DEF TypeOK
        <5>2. CASE ~member[p]
          BY <1>2, <4>1, <5>2 DEF Members
        <5>3. CASE member[p]
          <6>1. down'[p] = Append(down[p], e) /\ ack'[p] = [ack[p] EXCEPT !.sent = next]
            BY <1>2, <4>1, <5>3 DEF Members
          <6>2. ack'[p].acked = ack[p].acked /\ ack'[p].sent = lastCkpt'
            BY <4>1, <5>1, <6>1 DEF AckState
          <6>3. Linked(down[p], rx[p].last, lastCkpt, finishes)
            BY <5>3 DEF Kept, Both, Inside
          <6>4. Linked(Append(down[p], e), rx[p].last, next, finishes)
            <7>1. Lengthens(down[p], e, rx[p].last, lastCkpt, next, finishes, finishes)
              BY <1>0, <1>2, <4>3, <5>1, <6>3 DEF Lengthens
            <7>2. next \in Ids /\ lastCkpt \in Ids /\ e \in DownFrame
              BY <1>0, <1>2, <4>3
            <7>3. QED BY <5>1, <7>1, <7>2, LinkedAppended
          <6>5. /\ Baselined(down'[p]) => Baselined(down[p]) /\ down'[p][1] = down[p][1]
                /\ Baselined(down[p]) => Baselined(down'[p])
            BY <4>3, <5>1, <6>1 DEF Baselined
          <6>6. QED BY <1>2, <4>1, <5>3, <6>1, <6>2, <6>4, <6>5
        <5>4. QED BY <5>2, <5>3
      <4>5. QED BY <1>0, <2>1, <3>2, <4>1, <4>4, WindowAssumption
    <3>3. QED BY <3>1, <3>2
  <2>5. ASSUME NEW p \in Peers PROVE Both(p)'
    <3>1. Both(p) /\ finishes \in Nat /\ Announced(p)
      BY <1>0, <2>4 DEF Kept, TypeOK
    <3>2. \A o \in dgrams'[p] : o \in dgrams[p] \/ (member[p] /\ o <= Newest')
      BY <1>0, <1>5, <2>2
    <3>3. Newest <= Newest'
      BY <1>3, <2>2
    <3>4. finishes <= finishes' /\ (finishes > 0 => lastCkpt' = lastCkpt)
      BY <1>2, <3>1
    <3>5. QED BY <1>0, <1>2, <3>1, <3>2, <3>3, <3>4, PublisherPeer
  <2>6. Numbering'
    BY <1>2, <2>1, <2>4 DEF Numbering
  <2>7. Cached'
    <3>1. cache' \subseteq 0 .. next'
      BY <1>0, <1>4, <2>1
    <3>2. ASSUME NEW p \in Members, NEW o \in Nat, ack'[p].acked < o, o < next'
          PROVE  o \in cache'
      <4>1. p \in Peers /\ ack'[p].acked = ack[p].acked
        BY <2>4 DEF Members
      <4>2. CASE o = next
        BY <2>1, <4>2
      <4>3. CASE o # next
        <5>1. o < next
          BY <1>0, <2>1, <3>2, <4>3
        <5>2. QED BY <2>1, <3>2, <4>1, <5>1 DEF Kept, Cached
      <4>4. QED BY <4>2, <4>3
    <3>3. QED BY <1>2, <1>4, <3>1, <3>2 DEF Cached
  <2>8. QED BY <1>2, <2>5, <2>6, <2>7 DEF Kept
<1>8. QED BY <1>6, <1>7

LEMMA FinishTrackKept ==
    ASSUME Retention, Kept, FinishTrack
    PROVE  Kept'
<1> DEFINE e == TrackEnd(next - 1)
<1>0. /\ TypeOK /\ TypeOK' /\ next \in Nat /\ lastCkpt \in Ids /\ finishes \in Nat
      /\ lastCkpt < next
  BY FinishTrackType DEF Retention, TypeOK, WatermarksOrdered
<1>1. /\ next > 0 /\ ~buffered /\ finishes' = finishes + 1 /\ lastCkpt' = next - 1
      /\ down' = [p \in Peers |-> IF p \in Members THEN Append(down[p], e) ELSE down[p]]
      /\ ack' = [p \in Peers |-> IF p \in Members THEN [ack[p] EXCEPT !.sent = next - 1]
                                 ELSE ack[p]]
      /\ UNCHANGED <<next, buffered, cache, conn, member, up, dgrams>>
      /\ UNCHANGED subVars /\ UNCHANGED histVars
  BY MembersEligible DEF FinishTrack
<1>2. /\ UNCHANGED <<pconn, rsub, rx, emitted, floor, errors>>
      /\ Newest' = Newest /\ Members' = Members
  BY <1>1 DEF subVars, histVars, Newest, Members
<1>3. /\ next - 1 \in Nat /\ lastCkpt <= next - 1 /\ next - 1 < lastCkpt + Window
      /\ finishes > 0 => next - 1 = lastCkpt
  BY <1>0, <1>1, WindowAssumption DEF Kept, Numbering
<1>4. /\ e \in DownFrame /\ e.final = next - 1 /\ e.type = "end"
      /\ Continues(e, lastCkpt, next - 1, finishes + 1)
  BY <1>0, <1>3 DEF TrackEnd, DownFrame, Continues
<1> HIDE DEF e
<1>5. ASSUME NEW p \in Peers PROVE Both(p)'
  <2>1. ack[p] \in AckState /\ down[p] \in Seq(DownFrame) /\ rx[p].last \in Ids
        /\ dgrams[p] \subseteq Nat /\ Newest \in Ids
    BY <1>0, InsideContext DEF TypeOK
  <2>2. CASE ~member[p]
    <3>1. PeerState(p)' = PeerState(p)
      BY <1>1, <1>2, <2>2 DEF PeerState, Members
    <3>2. Both(p)' = Both(p)
      <4>1. Outside(p)' = Outside(p)
        BY <3>1 DEF PeerState, Outside
      <4>2. QED BY <2>2, <3>1, <4>1 DEF PeerState, Both
    <3>3. QED BY <3>2 DEF Kept
  <2>3. CASE member[p]
    <3>1. down'[p] = Append(down[p], e) /\ ack'[p] = [ack[p] EXCEPT !.sent = next - 1]
      BY <1>1, <2>3 DEF Members
    <3>2. ack'[p].acked = ack[p].acked /\ ack'[p].sent = lastCkpt'
      BY <1>1, <2>1, <3>1 DEF AckState
    <3>3. Linked(down[p], rx[p].last, lastCkpt, finishes)
      BY <2>3 DEF Kept, Both, Inside
    <3>4. Linked(Append(down[p], e), rx[p].last, next - 1, finishes + 1)
      <4>1. Lengthens(down[p], e, rx[p].last, lastCkpt, next - 1, finishes, finishes + 1)
        BY <1>0, <1>3, <1>4, <2>1, <3>3 DEF Lengthens
      <4>2. next - 1 \in Ids /\ lastCkpt \in Ids /\ finishes \in Nat /\ finishes + 1 \in Nat
        BY <1>0, <1>3
      <4>3. QED BY <1>4, <2>1, <4>1, <4>2, LinkedAppended
    <3>5. /\ Baselined(down'[p]) => Baselined(down[p]) /\ down'[p][1] = down[p][1]
          /\ Baselined(down[p]) => Baselined(down'[p])
      BY <1>4, <2>1, <3>1 DEF Baselined
    <3>6. Linked(down'[p], rx[p].last, lastCkpt', finishes')
      BY <1>1, <3>1, <3>4
    <3>7. \A o \in dgrams'[p] : o \in dgrams[p]
      BY <1>1
    <3>8. Both(p) /\ finishes <= finishes' /\ (finishes > 0 => lastCkpt' = lastCkpt)
          /\ Newest <= Newest'
      BY <1>0, <1>1, <1>2, <1>3, <2>1 DEF Kept
    <3>9. QED BY <1>0, <1>1, <1>2, <2>3, <3>2, <3>5, <3>6, <3>7, <3>8, PublisherPeer
  <2>4. QED BY <2>2, <2>3
<1>6. Numbering'
  BY <1>0, <1>1, <1>2 DEF Kept, Numbering
<1>7. Cached'
  <2>1. \A p \in Members : ack'[p].acked = ack[p].acked
    BY <1>0, <1>1 DEF Members, TypeOK, AckState
  <2>2. QED BY <1>1, <1>2, <2>1 DEF Kept, Cached
<1>8. QED BY <1>2, <1>5, <1>6, <1>7 DEF Kept

-----------------------------------------------------------------------------
(* Frames that the publisher reads *)

\* Which peer sent it.
LEMMA SenderOfFrame ==
    ASSUME TypeOK, Kept, NEW p \in Peers, NEW type, Arrived(p, type)
    PROVE  /\ type = "subscribe" => ~member[p] /\ Outside(p) /\ rsub[p]
           /\ type \in {"unsubscribe", "ack", "nack"} => member[p] /\ Inside(p)
           /\ type # "unsubscribe"
           /\ up[p] # <<>> /\ Head(up[p]) \in Frames(up[p]) /\ Head(up[p]).type = type
<1>1. /\ up[p] \in Seq(UpFrame) /\ up[p] # <<>> /\ Head(up[p]).type = type
  BY DEF TypeOK, Arrived
<1>2. Head(up[p]) \in Frames(up[p])
  BY <1>1, FramesTaken
<1>3. CASE member[p]
  <2>1. Inside(p) /\ type \in {"ack", "nack"}
    BY <1>1, <1>2, <1>3 DEF Kept, Both, Inside
  <2>2. QED BY <1>1, <1>2, <1>3, <2>1
<1>4. CASE ~member[p]
  <2>1. Outside(p)
    BY <1>4 DEF Kept, Both
  <2>2. rsub[p] /\ up[p] = <<Subscribe>>
    BY <1>1, <2>1 DEF Outside
  <2>3. type = "subscribe"
    BY <1>1, <2>2 DEF Subscribe
  <2>4. QED BY <1>1, <1>2, <1>4, <2>1, <2>2, <2>3
<1>5. QED BY <1>3, <1>4

\* A member whose ACK or NACK was read.
LEMMA InsideHeard ==
    ASSUME TypeOK, NEW p \in Peers, Inside(p),
           UNCHANGED <<lastCkpt, finishes>>, Newest' = Newest,
           rsub'[p] = rsub[p], rx'[p] = rx[p], down'[p] = down[p],
           emitted'[p] = emitted[p], floor'[p] = floor[p],
           ack'[p].sent = ack[p].sent,
           Claims(p)' \subseteq Claims(p), Frames(up[p])' \subseteq Frames(up[p]),
           \A o \in dgrams'[p] : o <= Newest
    PROVE  Inside(p)'
<1>1. Begun(p)'
  BY DEF Inside, Begun
<1>2. Context(rx[p], Claims(p), emitted[p], floor[p], lastCkpt, finishes, Newest)
      /\ Newest \in Ids /\ finishes \in Nat
  BY InsideContext DEF TypeOK
<1>3. Sound(rx[p], Claims(p), emitted[p], floor[p], lastCkpt, finishes, Newest)
  BY DEF Inside
<1>4. ASSUME NEW C \in SUBSET Claims(p)
      PROVE  Sound(rx[p], C, emitted[p], floor[p], lastCkpt, finishes, Newest)
  <2>1. Newest <= Newest /\ finishes <= finishes
    BY <1>2
  <2>2. QED BY <1>2, <1>3, <2>1, SoundLater, Zenon
<1>5. Sound(rx[p], Claims(p)', emitted[p], floor[p], lastCkpt, finishes, Newest)
  BY <1>4
<1>6. QED BY <1>1, <1>5 DEF Inside

LEMMA HandleNackKept ==
    ASSUME TypeOK, Kept, NEW p \in Peers, NEW repaired \in BOOLEAN, HandleNack(p, repaired)
    PROVE  Kept'
<1> DEFINE id == Head(up[p]).id
<1>1. /\ UNCHANGED pubVars /\ UNCHANGED errors
      /\ UNCHANGED <<rsub, rx, pconn, down, emitted, floor>>
      /\ up' = [up EXCEPT ![p] = Tail(@)]
      /\ dgrams' = IF repaired THEN [dgrams EXCEPT ![p] = @ \cup {id}] ELSE dgrams
      /\ repaired => id \in cache
      /\ Arrived(p, "nack")
  BY DEF HandleNack, subVars, histVars
<1>2. /\ UNCHANGED <<lastCkpt, finishes, conn, member, ack, cache, next>> /\ Newest' = Newest
  BY <1>1 DEF pubVars, Newest
<1>3. member[p] /\ Inside(p) /\ up[p] # <<>>
  BY <1>1, SenderOfFrame
<1>4. up'[p] = Tail(up[p]) /\ \A q \in Peers \ {p} : up'[q] = up[q] /\ dgrams'[q] = dgrams[q]
  BY <1>1 DEF TypeOK
<1>5. dgrams'[p] \subseteq dgrams[p] \cup (IF repaired THEN {id} ELSE {})
  BY <1>1 DEF TypeOK
<1>6. Claims(p)' \subseteq Claims(p) /\ Frames(up[p])' \subseteq Frames(up[p])
  <2>1. ack'[p].acked \in Claims(p)
    BY <1>2 DEF Claims
  <2>2. QED BY <1>3, <1>4, <2>1, ClaimTaken
<1>7. \A o \in dgrams'[p] : o <= Newest
  <2>1. id \in cache => id <= Newest
    <3>1. next \in Nat /\ cache \subseteq 0 .. next
      BY DEF TypeOK, Kept, Cached
    <3> HIDE DEF id
    <3>2. ASSUME id \in cache PROVE id \in 0 .. next /\ (next \notin cache => id # next)
      BY <3>1, <3>2
    <3>3. (next \in cache => Newest = next) /\ (next \notin cache => Newest = next - 1)
      BY DEF Newest
    <3>4. QED BY <3>1, <3>2, <3>3
  <2>2. QED BY <1>1, <1>3, <1>5, <2>1 DEF Inside
<1>8. Inside(p)'
  BY <1>1, <1>2, <1>3, <1>6, <1>7, InsideHeard
<1>9. Both(p)'
  BY <1>1, <1>2, <1>3, <1>8 DEF Kept, Both
<1>10. \A q \in Peers \ {p} : PeerState(q)' = PeerState(q)
  BY <1>1, <1>2, <1>4 DEF PeerState
<1>11. QED BY <1>1, <1>9, <1>10, SubscriberStep

LEMMA SubscribeTrackKept ==
    ASSUME TypeOK, Kept, NEW p \in Peers, SubscribeTrack(p)
    PROVE  Kept'
<1>1. /\ UNCHANGED pubVars /\ UNCHANGED errors
      /\ UNCHANGED <<pconn, down, dgrams, floor>>
      /\ ~rsub[p]
      /\ rsub' = [rsub EXCEPT ![p] = TRUE]
      /\ rx' = [rx EXCEPT ![p] = NewRx]
      /\ emitted' = [emitted EXCEPT ![p] = {}]
      /\ up' = [up EXCEPT ![p] = Append(@, Subscribe)]
  BY DEF SubscribeTrack
<1>2. UNCHANGED <<conn, member, ack>>
  BY <1>1 DEF pubVars
<1>3. Outside(p) /\ ~member[p] /\ up[p] = <<>>
  BY <1>1 DEF Kept, Both, Inside, Outside
<1>4. /\ rsub'[p] = TRUE /\ rx'[p] = NewRx /\ emitted'[p] = {}
      /\ up'[p] = Append(up[p], Subscribe)
      /\ \A q \in Peers \ {p} : /\ rsub'[q] = rsub[q] /\ rx'[q] = rx[q]
                                /\ emitted'[q] = emitted[q] /\ up'[q] = up[q]
  BY <1>1 DEF TypeOK
<1>5. up'[p] = <<Subscribe>>
  BY <1>3, <1>4
<1>6. Both(p)'
  BY <1>1, <1>2, <1>3, <1>4, <1>5 DEF Kept, Both, Outside
<1>7. \A q \in Peers \ {p} : PeerState(q)' = PeerState(q)
  BY <1>1, <1>2, <1>4 DEF PeerState
<1>8. QED BY <1>1, <1>6, <1>7, SubscriberStep

\* A peer joins at the last checkpoint: whatever is newer is cached, for the
\* members that were there when it was sent.
LEMMA HandleSubscribeKept ==
    ASSUME Retention, Kept, NEW p \in Peers, HandleSubscribe(p)
    PROVE  Kept'
<1>0. /\ TypeOK /\ next \in Nat /\ lastCkpt \in Ids /\ finishes \in Nat /\ Newest \in Ids
      /\ lastCkpt < next
  BY InsideContext DEF Retention, TypeOK, WatermarksOrdered
<1>1. /\ ~member[p] /\ Outside(p) /\ rsub[p]
  BY <1>0, SenderOfFrame DEF HandleSubscribe
<1>2. /\ UNCHANGED <<next, lastCkpt, finishes, buffered, cache, conn, errors>>
      /\ UNCHANGED <<pconn, rsub, rx, dgrams, emitted>>
      /\ member' = [member EXCEPT ![p] = TRUE]
      /\ ack' = [ack EXCEPT ![p] = [sent |-> lastCkpt, acked |-> lastCkpt]]
      /\ down' = IF lastCkpt = NoId THEN down
                 ELSE [down EXCEPT ![p] = Append(@, Baseline(lastCkpt))]
      /\ floor' = [floor EXCEPT ![p] = lastCkpt + 1]
      /\ up' = [up EXCEPT ![p] = Tail(@)]
  BY <1>1 DEF HandleSubscribe, JoinAck, subVars
<1>3. /\ member'[p] = TRUE /\ ack'[p] = [sent |-> lastCkpt, acked |-> lastCkpt]
      /\ floor'[p] = lastCkpt + 1 /\ up'[p] = <<>>
      /\ down'[p] = IF lastCkpt = NoId THEN <<>> ELSE <<Baseline(lastCkpt)>>
      /\ rx'[p] = NewRx /\ dgrams'[p] = {} /\ emitted'[p] = {} /\ rsub'[p]
  <2>1. down[p] = <<>> /\ up[p] = <<Subscribe>>
    BY <1>1 DEF Outside
  <2>2. down'[p] = IF lastCkpt = NoId THEN <<>> ELSE <<Baseline(lastCkpt)>>
    BY <1>0, <1>2, <2>1 DEF TypeOK
  <2>3. up'[p] = <<>>
    BY <1>0, <1>2, <2>1 DEF TypeOK
  <2>4. QED BY <1>0, <1>1, <1>2, <2>2, <2>3 DEF TypeOK, Outside
<1>4. \A q \in Peers \ {p} :
         /\ PeerState(q)' = PeerState(q) /\ member'[q] = member[q] /\ ack'[q] = ack[q]
  BY <1>0, <1>2 DEF TypeOK, PeerState
<1>5. Newest' = Newest
  BY <1>2 DEF Newest
<1>6. Inside(p)'
  <2>1. Frames(up[p])' = {}
    BY <1>3 DEF Frames
  <2>2. Claims(p)' = {lastCkpt}
    BY <1>3, <2>1 DEF Claims
  <2>3. Sound(rx'[p], Claims(p)', emitted'[p], floor'[p], lastCkpt, finishes, Newest)
    <3>1. Sound(NewRx, {lastCkpt}, {}, lastCkpt + 1, lastCkpt, finishes, Newest)
      BY <1>0, SoundBegun
    <3>2. QED BY <1>3, <2>2, <3>1
  <2>4. NewRx.last = NoId /\ NewRx.windows = {}
    BY DEF NewRx
  <2>5. Linked(down'[p], NoId, lastCkpt, finishes) /\ Begun(p)'
    <3>1. CASE lastCkpt = NoId
      BY <1>3, <2>2, <2>4, <3>1 DEF Linked, Ahead, Begun, Baselined
    <3>2. CASE lastCkpt # NoId
      <4>1. /\ down'[p] = <<Baseline(lastCkpt)>> /\ Len(down'[p]) = 1
            /\ down'[p][1] = Baseline(lastCkpt) /\ down'[p] # <<>>
        BY <1>3, <3>2
      <4>2. Baseline(lastCkpt).type = "baseline" /\ Baseline(lastCkpt).final = lastCkpt
        BY DEF Baseline
      <4>3. Baselined(down'[p])
        BY <4>1, <4>2 DEF Baselined
      <4>4. Linked(down'[p], NoId, lastCkpt, finishes)
        BY <1>0, <3>2, <4>1, <4>2, <4>3 DEF Linked, Ahead
      <4>5. Begun(p)'
        BY <1>0, <1>3, <2>2, <2>4, <4>1, <4>2, <4>3 DEF Begun
      <4>6. QED BY <4>4, <4>5
    <3>3. QED BY <3>1, <3>2
  <2>6. QED BY <1>2, <1>3, <1>5, <2>1, <2>3, <2>4, <2>5 DEF Inside
<1>7. ASSUME NEW q \in Peers PROVE Both(q)'
  <2>1. CASE q = p
    BY <1>2, <1>3, <1>6, <2>1 DEF Kept, Both
  <2>2. CASE q # p
    BY <1>2, <1>4, <1>5, <2>2, OtherPeer DEF Kept
  <2>3. QED BY <2>1, <2>2
<1>8. Numbering'
  <2>1. p \in Members'
    BY <1>3 DEF Members
  <2>2. QED BY <1>2, <2>1 DEF Kept, Numbering
<1>9. Cached'
  <2>1. ASSUME NEW q \in Members', NEW o \in Nat, ack'[q].acked < o, o < next
        PROVE  o \in cache
    <3>1. CASE q # p
      <4>1. q \in Members /\ ack'[q] = ack[q]
        BY <1>4, <3>1 DEF Members
      <4>2. QED BY <2>1, <4>1 DEF Kept, Cached
    <3>2. CASE q = p
      <4>1. lastCkpt < o
        BY <1>3, <2>1, <3>2
      <4>2. PICK m \in Members : TRUE
        BY <1>0, <2>1 DEF Kept, Numbering
      <4>3. /\ m \in Peers /\ ack[m].acked \in Ids /\ ack[m].sent \in Ids
            /\ ack[m].acked <= ack[m].sent /\ ack[m].sent <= lastCkpt
        BY <1>0 DEF Members, Retention, WatermarksOrdered, TypeOK, AckState
      <4>4. ack[m].acked < o
        BY <1>0, <4>1, <4>3
      <4>5. QED BY <2>1, <4>4 DEF Kept, Cached
    <3>3. QED BY <3>1, <3>2
  <2>2. QED BY <1>2, <2>1 DEF Kept, Cached
<1>10. QED BY <1>2, <1>7, <1>8, <1>9 DEF Kept

\* Every ACK is valid, and the waiting group stays cached.
LEMMA HandleAckKept ==
    ASSUME Retention, Kept, NEW p \in Peers, HandleAck(p)
    PROVE  Kept'
<1> DEFINE id   == Head(up[p]).id
           acks == [ack EXCEPT ![p].acked = IF id > @ THEN id ELSE @]
<1>0. /\ TypeOK /\ next \in Nat /\ lastCkpt \in Ids /\ lastCkpt < next /\ ack[p] \in AckState
      /\ floor[p] \in Nat /\ down[p] \in Seq(DownFrame) /\ rx[p].last \in Ids
      /\ \A q \in Peers : ack[q].acked <= lastCkpt /\ ack[q].acked \in Ids
  <2>1. /\ TypeOK /\ next \in Nat /\ lastCkpt \in Ids /\ lastCkpt < next
        /\ \A q \in Peers : ack[q] \in AckState /\ floor[q] \in Nat
                            /\ ack[q].acked <= ack[q].sent /\ ack[q].sent <= lastCkpt
    BY DEF Retention, TypeOK, WatermarksOrdered
  <2>2. \A q \in Peers : ack[q].acked \in Ids /\ ack[q].sent \in Ids
    BY <2>1 DEF AckState
  <2>3. ASSUME NEW q \in Peers PROVE ack[q].acked <= lastCkpt
    BY <2>1, <2>2
  <2>4. QED BY <2>1, <2>2, <2>3, InsideContext
<1>1. /\ member[p] /\ Inside(p) /\ up[p] # <<>>
      /\ Head(up[p]) \in Frames(up[p]) /\ Head(up[p]).type = "ack"
  BY <1>0, SenderOfFrame DEF HandleAck
<1>2. id \in Nat /\ id \in Claims(p)
  <2>1. Head(up[p]) \in UpFrame
    BY <1>0, <1>1, ClaimsType
  <2>2. QED BY <1>1, <2>1 DEF Claims, UpFrame
<1>3. id <= lastCkpt
  <2>1. rx[p].last <= lastCkpt
    BY <1>1 DEF Inside, Linked
  <2>2. ASSUME Baselined(down[p]) PROVE floor[p] - 1 <= lastCkpt
    <3>1. 1 \in 1 .. Len(down[p])
      BY <1>0, <2>2 DEF Baselined
    <3>2. down[p][1].final <= lastCkpt
      BY <1>1, <3>1 DEF Inside, Linked
    <3>3. QED BY <1>1, <2>2, <3>2 DEF Inside, Begun
  <2>3. id <= rx[p].last \/ (Baselined(down[p]) /\ id < floor[p])
    BY <1>1, <1>2 DEF Inside, Begun
  <2> HIDE DEF id
  <2>4. QED BY <1>0, <1>2, <2>1, <2>2, <2>3
<1>4. AckValid(p, id)
  <2>1. ack[p].sent = lastCkpt
    BY <1>1 DEF Inside
  <2> HIDE DEF id
  <2>2. QED BY <1>0, <1>1, <1>2, <1>3, <2>1 DEF AckValid
<1>5. /\ ack' = acks /\ cache' = StillOwed(cache, Members, acks)
      /\ up' = [up EXCEPT ![p] = Tail(@)]
      /\ UNCHANGED <<conn, errors, next, lastCkpt, finishes, buffered, member>>
      /\ UNCHANGED <<pconn, rsub, rx, down, dgrams, emitted, floor>>
  BY <1>4 DEF HandleAck, subVars
<1>6. /\ ack'[p].acked = (IF id > ack[p].acked THEN id ELSE ack[p].acked)
      /\ ack'[p].sent = ack[p].sent /\ up'[p] = Tail(up[p])
      /\ \A q \in Peers \ {p} : ack'[q] = ack[q] /\ up'[q] = up[q]
  BY <1>0, <1>5 DEF TypeOK, AckState
<1> HIDE DEF id, acks
<1>7. \A q \in Peers : ack[q].acked <= ack'[q].acked /\ ack'[q].acked <= lastCkpt
                      /\ ack'[q].acked \in Ids
  BY <1>0, <1>2, <1>3, <1>6
<1>8. cache' \subseteq cache /\ \A o \in cache : \A q \in Members : ack'[q].acked < o => o \in cache'
  BY <1>5 DEF StillOwed
<1>9. Newest' = Newest
  <2>1. p \in Members /\ ack'[p].acked < next
    BY <1>0, <1>1, <1>7 DEF Members
  <2>2. next \in cache <=> next \in cache'
    BY <1>8, <2>1
  <2>3. QED BY <1>5, <2>2 DEF Newest
<1>10. Inside(p)'
  <2>1. ack'[p].acked \in Claims(p)
    BY <1>2, <1>6 DEF Claims
  <2>2. Claims(p)' \subseteq Claims(p) /\ Frames(up[p])' \subseteq Frames(up[p])
    BY <1>0, <1>1, <1>6, <2>1, ClaimTaken
  <2>3. \A o \in dgrams'[p] : o <= Newest
    BY <1>1, <1>5 DEF Inside
  <2>4. QED BY <1>0, <1>1, <1>5, <1>6, <1>9, <2>2, <2>3, InsideHeard
<1>11. ASSUME NEW q \in Peers PROVE Both(q)'
  <2>1. CASE q = p
    BY <1>1, <1>5, <1>10, <2>1 DEF Kept, Both
  <2>2. CASE q # p
    <3>1. PeerState(q)' = PeerState(q)
      BY <1>5, <1>6, <2>2 DEF PeerState
    <3>2. QED BY <1>5, <1>9, <3>1, OtherPeer DEF Kept
  <2>3. QED BY <2>1, <2>2
<1>12. Numbering'
  BY <1>5 DEF Kept, Numbering, Members
<1>13. Cached'
  <2>1. cache \subseteq 0 .. next /\ Cardinality(cache) <= Capacity
    BY DEF Kept, Cached
  <2>2. Cardinality(cache') <= Capacity
    <3>1. IsFiniteSet(cache)
      <4>1. 0 \in Int /\ next \in Int
        BY <1>0
      <4>2. IsFiniteSet(0 .. next)
        BY <4>1, FS_Interval
      <4>3. QED BY <2>1, <4>2, FS_Subset
    <3>2. IsFiniteSet(cache') /\ Cardinality(cache') <= Cardinality(cache)
      BY <1>8, <3>1, FS_Subset
    <3>3. Cardinality(cache) \in Nat /\ Cardinality(cache') \in Nat
      BY <3>1, <3>2, FS_CardinalityType
    <3>4. QED BY <2>1, <3>2, <3>3, CapacityAssumption
  <2>3. ASSUME NEW q \in Members, NEW o \in Nat, ack'[q].acked < o, o < next
        PROVE  o \in cache'
    <3>1. q \in Peers /\ ack[q].acked < o
      <4>1. q \in Peers
        BY DEF Members
      <4>2. QED BY <1>0, <1>7, <2>3, <4>1
    <3>2. o \in cache
      BY <2>3, <3>1 DEF Kept, Cached
    <3>3. QED BY <1>8, <2>3, <3>2
  <2>4. Members' = Members
    BY <1>5 DEF Members
  <2>5. QED BY <1>5, <1>8, <2>1, <2>2, <2>3, <2>4 DEF Cached
<1>14. QED BY <1>5, <1>11, <1>12, <1>13 DEF Kept

-----------------------------------------------------------------------------
(* The promise until the first churn *)

LEMMA InitPromise == Init => Promise
<1> SUFFICES ASSUME Init PROVE Promise
  OBVIOUS
<1>1. /\ next = 0 /\ lastCkpt = NoId /\ finishes = 0 /\ ~buffered /\ cache = {}
      /\ errors = {}
      /\ \A p \in Peers : /\ conn[p] = "open" /\ pconn[p] = "open" /\ ~member[p]
                          /\ ~rsub[p] /\ rx[p] = NewRx /\ down[p] = <<>>
                          /\ up[p] = <<>> /\ dgrams[p] = {}
  BY DEF Init
<1>2. \A p \in Peers : Both(p)
  BY <1>1 DEF Both, Outside
<1>3. Numbering
  BY <1>1, WindowAssumption DEF Numbering
<1>4. Cached
  <2>1. Members = {}
    BY <1>1 DEF Members
  <2>2. Cardinality(cache) <= Capacity
    BY <1>1, FS_EmptySet, CapacityAssumption
  <2>3. QED BY <1>1, <2>1, <2>2 DEF Cached
<1>5. QED BY <1>1, <1>2, <1>3, <1>4, InitRetention DEF Promise, Kept

\* Churn is on the record.
LEMMA ChurnShows ==
    ASSUME TypeOK, NEW p \in Peers,
           \/ SubscribeAgain(p) \/ UnsubscribeTrack(p) \/ Disconnect(p) \/ CloseConn(p)
    PROVE  ~Undisturbed'
<1>1. /\ spent \in Spent
      /\ \/ spent' = [spent EXCEPT !.resubscribes = @ + 1]
         \/ spent' = [spent EXCEPT !.unsubscribes = @ + 1]
         \/ spent' = [spent EXCEPT !.reconnects = @ + 1]
  BY DEF TypeOK, SubscribeAgain, UnsubscribeTrack, Disconnect, CloseConn
<1>2. \/ spent'.resubscribes = spent.resubscribes + 1 /\ spent.resubscribes \in Nat
      \/ spent'.unsubscribes = spent.unsubscribes + 1 /\ spent.unsubscribes \in Nat
      \/ spent'.reconnects = spent.reconnects + 1 /\ spent.reconnects \in Nat
  BY <1>1 DEF Spent
<1>3. QED BY <1>2 DEF Undisturbed

LEMMA NextKept ==
    ASSUME Retention, Undisturbed => Kept, [Next]_vars, Undisturbed'
    PROVE  Kept'
<1>0. TypeOK
  BY DEF Retention
<1>k. ASSUME spent' = spent PROVE Kept
  BY <1>k DEF Undisturbed
<1>1. ASSUME BufferRecord PROVE Kept'
  BY <1>0, <1>k, <1>1, BufferRecordKept DEF BufferRecord, histVars
<1>2. ASSUME NEW admitted \in SUBSET Peers, FlushGrouped(admitted) PROVE Kept'
  BY <1>k, <1>2, FlushGroupedKept DEF FlushGrouped, histVars
<1>3. ASSUME FinishTrack PROVE Kept'
  BY <1>k, <1>3, FinishTrackKept DEF FinishTrack, histVars
<1>4. ASSUME NEW p \in Peers, HandleSubscribe(p) PROVE Kept'
  BY <1>k, <1>4, HandleSubscribeKept DEF HandleSubscribe
<1>5. ASSUME NEW p \in Peers, HandleUnsubscribe(p) PROVE Kept'
  <2>1. Kept /\ Arrived(p, "unsubscribe")
    BY <1>k, <1>5 DEF HandleUnsubscribe, histVars
  <2>2. QED BY <1>0, <2>1, SenderOfFrame
<1>6. ASSUME NEW p \in Peers, HandleAck(p) PROVE Kept'
  BY <1>k, <1>6, HandleAckKept DEF HandleAck
<1>7. ASSUME NEW p \in Peers, NEW repaired \in BOOLEAN, HandleNack(p, repaired) PROVE Kept'
  BY <1>0, <1>k, <1>7, HandleNackKept DEF HandleNack, histVars
<1>8. ASSUME NEW p \in Peers, NEW room \in BOOLEAN, HandleCheckpoint(p, room) PROVE Kept'
  <2>1. Kept
    BY <1>k, <1>8 DEF HandleCheckpoint
  <2>2. QED BY <1>8, <2>1, HandleCheckpointKept
<1>9. ASSUME NEW p \in Peers, HandleBaseline(p) PROVE Kept'
  <2>1. Kept
    BY <1>k, <1>9 DEF HandleBaseline
  <2>2. QED BY <1>0, <1>9, <2>1, HandleBaselineKept
<1>10. ASSUME NEW p \in Peers, NEW room \in BOOLEAN, HandleTrackEnd(p, room) PROVE Kept'
  <2>1. Kept
    BY <1>k, <1>10 DEF HandleTrackEnd
  <2>2. QED BY <1>10, <2>1, HandleTrackEndKept
<1>11. ASSUME NEW p \in Peers, NEW o \in dgrams[p], NEW room \in BOOLEAN,
              ReceiveDatagram(p, o, room)
       PROVE  Kept'
  <2>1. Kept
    BY <1>k, <1>11 DEF ReceiveDatagram
  <2>2. QED BY <1>0, <1>11, <2>1, ReceiveDatagramKept
<1>12. ASSUME NEW p \in Peers, NEW o \in dgrams[p], LoseDatagram(p, o) PROVE Kept'
  BY <1>0, <1>k, <1>12, LoseDatagramKept DEF LoseDatagram, histVars
<1>13. ASSUME NEW p \in Peers, FlushRecoveryAcks(p) PROVE Kept'
  BY <1>0, <1>k, <1>13, FlushRecoveryAcksKept DEF FlushRecoveryAcks, histVars
<1>14. ASSUME NEW p \in Peers, NEW o \in Wanted(rx[p]), SendNack(p, o) PROVE Kept'
  BY <1>0, <1>k, <1>14, SendNackKept DEF SendNack, histVars
<1>15. ASSUME NEW p \in Peers, SubscribeTrack(p) PROVE Kept'
  BY <1>0, <1>k, <1>15, SubscribeTrackKept DEF SubscribeTrack
<1>16. ASSUME NEW p \in Peers,
              SubscribeAgain(p) \/ UnsubscribeTrack(p) \/ Disconnect(p) \/ CloseConn(p)
       PROVE  Kept'
  BY <1>0, <1>16, ChurnShows
<1>17. ASSUME NEW p \in Peers, NoticeClose(p) \/ FreeConnection(p) \/ Reconnect(p)
       PROVE  Kept'
  <2>1. spent' = spent
    BY <1>17 DEF NoticeClose, FreeConnection, Reconnect, histVars
  <2>2. conn[p] = "open" /\ pconn[p] = "open"
    BY <1>k, <2>1 DEF Kept, Both
  <2>3. QED BY <1>17, <2>2 DEF NoticeClose, FreeConnection, Reconnect
<1>18. ASSUME UNCHANGED vars PROVE Kept'
  <2>1. /\ UNCHANGED pubVars /\ UNCHANGED subVars /\ UNCHANGED netVars /\ UNCHANGED histVars
    BY <1>18 DEF vars
  <2>2. Kept
    BY <1>k, <2>1 DEF histVars
  <2>3. /\ UNCHANGED <<next, lastCkpt, finishes, buffered, cache, conn, member, ack, errors>>
        /\ Newest' = Newest /\ Members' = Members
        /\ \A q \in Peers : PeerState(q)' = PeerState(q)
    BY <2>1 DEF pubVars, subVars, netVars, histVars, Newest, Members, PeerState
  <2>4. ASSUME NEW q \in Peers PROVE Both(q)'
    BY <2>2, <2>3, OtherPeer DEF Kept
  <2>5. Numbering' /\ Cached'
    BY <2>2, <2>3 DEF Kept, Numbering, Cached
  <2>6. QED BY <2>2, <2>3, <2>4, <2>5 DEF Kept
<1>19. QED
  BY <1>1, <1>2, <1>3, <1>4, <1>5, <1>6, <1>7, <1>8, <1>9, <1>10, <1>11, <1>12,
     <1>13, <1>14, <1>15, <1>16, <1>17, <1>18
  DEF Next, PublisherStep, ControlStep, DatagramStep, TickStep, ChurnStep

LEMMA NextPromise == Promise /\ [Next]_vars => Promise'
BY NextRetention, NextKept DEF Promise

\* What an open window misses is cached, and less than a history away from
\* the newest object the subscriber may have seen.
LEMMA WindowsAreHeld ==
    ASSUME Retention, Kept, NEW p \in Peers, NEW w \in rx[p].windows, NEW o \in w.missing
    PROVE  /\ o \in Nat /\ o \in cache
           /\ rx[p] \in RxState /\ rx[p].largest - o < History
           /\ o \notin rx[p].delivered
<1>0. /\ TypeOK /\ next \in Nat /\ lastCkpt \in Ids /\ lastCkpt < next
      /\ rx[p] \in RxState /\ w \in WindowState /\ ack[p].acked \in Ids /\ Newest \in Ids
  <2>1. TypeOK /\ next \in Nat /\ lastCkpt \in Ids /\ lastCkpt < next /\ ack[p] \in AckState
        /\ rx[p] \in RxState
    BY DEF Retention, TypeOK, WatermarksOrdered
  <2>2. QED BY <2>1, WindowFields, InsideContext DEF AckState
<1>1. member[p] /\ Inside(p)
  BY DEF Kept, Both, Outside, NewRx
<1>2. /\ w.first \in Nat /\ w.final \in Nat /\ o \in Nat /\ rx[p].last \in Ids /\ rx[p].largest \in Ids
  BY <1>0 DEF WindowState, RxState
<1>3. /\ w.first <= o /\ o <= w.final /\ w.final <= rx[p].last /\ rx[p].last <= lastCkpt
      /\ o \notin rx[p].delivered /\ rx[p].largest <= Newest
  BY <1>1 DEF Inside, Sound, Tracked, Shaped, Linked, Remembers
<1>4. ack[p].acked < w.first
  BY <1>1 DEF Inside, Sound, Unclaimed, Claims
<1>5. ack[p].acked < o /\ o < next
  BY <1>0, <1>2, <1>3, <1>4
<1>6. \A x \in Nat : ack[p].acked < x /\ x < next => x \in cache
  BY <1>1 DEF Kept, Cached, Members
<1>7. Newest - ack[p].acked <= History
  <2>1. \A x \in ack[p].acked + 1 .. Newest : x \in cache
    <3> TAKE x \in ack[p].acked + 1 .. Newest
    <3>1. x \in Nat /\ ack[p].acked < x /\ x <= Newest
      BY <1>0
    <3>2. x = next \/ x < next
      BY <1>0, <3>1 DEF Newest
    <3>3. CASE x = next
      BY <1>0, <3>1, <3>3 DEF Newest
    <3>4. CASE x < next
      BY <1>6, <3>1, <3>4
    <3>5. QED BY <3>2, <3>3, <3>4
  <2>2. IsFiniteSet(cache) /\ Cardinality(cache) <= Capacity
    <3>1. 0 \in Int /\ next \in Int /\ cache \subseteq 0 .. next /\ Cardinality(cache) <= Capacity
      BY <1>0 DEF Kept, Cached
    <3>2. IsFiniteSet(0 .. next)
      BY <3>1, FS_Interval
    <3>3. QED BY <3>1, <3>2, FS_Subset
  <2>3. ack[p].acked \in Int /\ Newest \in Int
    BY <1>0
  <2>4. QED BY <2>1, <2>2, <2>3, HeldIsBounded
<1>8. rx[p].largest - o < History
  <2>1. Newest \in Int /\ ack[p].acked \in Int /\ History \in Nat
    BY <1>0, HistoryIsNat
  <2>2. QED BY <1>2, <1>3, <1>5, <1>7, <2>1
<1>9. QED BY <1>0, <1>2, <1>3, <1>5, <1>6, <1>8

\* AckedIsDelivered, for every size of window, cache and history and any
\* number of peers: while no connection was lost, no track unsubscribed and
\* none subscribed again, what the publisher takes as acknowledged by a peer
\* (transport_publish_checkpoint_acked) was handed to its application.
THEOREM AckedWasDelivered == Spec => [](Undisturbed => AckedIsDelivered)
<1>1. Promise => (Undisturbed => AckedIsDelivered)
  <2> SUFFICES ASSUME Promise, Undisturbed, NEW p \in Peers, Settled(p),
                      NEW o \in floor[p] .. ack[p].acked
               PROVE  o \in emitted[p]
    BY DEF AckedIsDelivered
  <2>1. Inside(p) /\ floor[p] \in Nat /\ ack[p] \in AckState
    BY DEF Promise, Kept, Both, Settled, Retention, TypeOK
  <2>2. ack[p].acked \in Claims(p) /\ o \in Nat /\ floor[p] <= o /\ o <= ack[p].acked
    BY <2>1 DEF Claims, AckState
  <2>3. QED BY <2>1, <2>2 DEF Inside, Sound, Honest
<1>2. QED BY InitPromise, NextPromise, <1>1, PTL DEF Spec

\* MissingIsRepairable likewise: the sent cache holds every object that an
\* open recovery window of a subscriber still misses, so its NACK can be
\* answered (on_nack).
THEOREM MissingStaysRepairable == Spec => [](Undisturbed => MissingIsRepairable)
<1>1. Promise => (Undisturbed => MissingIsRepairable)
  BY WindowsAreHeld DEF Promise, MissingIsRepairable
<1>2. QED BY InitPromise, NextPromise, <1>1, PTL DEF Spec

\* MissingIsNotForgotten likewise: an object that a window misses stays
\* within the delivered history of the subscriber (object_was_delivered),
\* because the cache, which is no larger than the history, holds all that was
\* sent since the last acknowledgement.
THEOREM MissingStaysKnown == Spec => [](Undisturbed => MissingIsNotForgotten)
<1>1. Promise => (Undisturbed => MissingIsNotForgotten)
  <2> SUFFICES ASSUME Promise, Undisturbed, NEW p \in Peers, NEW w \in rx[p].windows,
                      NEW o \in w.missing, ObjectWasDelivered(rx[p], o)
               PROVE  FALSE
    BY DEF MissingIsNotForgotten
  <2>1. /\ o \in Nat /\ rx[p] \in RxState /\ rx[p].largest - o < History
        /\ o \notin rx[p].delivered
    BY WindowsAreHeld DEF Promise
  <2>2. rx[p].largest \in Int /\ History \in Nat
    BY <2>1, HistoryIsNat DEF RxState
  <2>3. QED BY <2>1, <2>2 DEF ObjectWasDelivered
<1>2. QED BY InitPromise, NextPromise, <1>1, PTL DEF Spec

\* NoProtocolError likewise: whatever is lost or delayed on the network, two
\* conforming ends never close a connection over a checkpoint, a baseline, a
\* track end or an acknowledgement (TRANSPORT_APP_ERROR_PROTOCOL).
THEOREM NoErrorUntilChurn == Spec => [](Undisturbed => NoProtocolError)
<1>1. Promise => (Undisturbed => NoProtocolError)
  BY DEF Promise, Kept, NoProtocolError
<1>2. QED BY InitPromise, NextPromise, <1>1, PTL DEF Spec

==============================================================================
