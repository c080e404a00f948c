------------------------------- MODULE Receive --------------------------------
(***************************************************************************)
(* The receiving half of a connection: its subscription table              *)
(* (transport_subscriptions), the assemblers in which the symbols of an    *)
(* object are collected (transport_memory, transport_quicly) and the       *)
(* handler of object datagrams (transport_protocol).                       *)
(*                                                                         *)
(* Everything runs on the owner thread, but the handler and the expiry     *)
(* sweep call the application in the middle of their work, and the         *)
(* application may subscribe, unsubscribe (its alias is free at once) or   *)
(* close the connection from there.  `pend' is the handler that waits for  *)
(* the callback to return, with the local variables it holds across it.    *)
(*                                                                         *)
(* Abstractions.  The peer and the network are an input: any well-formed   *)
(* datagram of any alias at any time, so lost, late, repeated and          *)
(* reordered ones, and the leftovers of an earlier owner of an alias, are  *)
(* included.  Symbols have one size, memory is counted in symbols.  The    *)
(* hash chains are the set `index' of the slots they hold.  All objects    *)
(* are of one group.  Gap and checkpoint tracking of rateless DATA tracks  *)
(* is RecoveryCheckpoints: what an acknowledgement may cover is an input.  *)
(***************************************************************************)
EXTENDS Integers, FiniteSets, FiniteSetsExt, Functions

CONSTANTS
    Tracks,         \* tracks the application may subscribe to
    NoTrack,        \* the track of an unused alias
    Reliable,       \* ... those with MOQ_TRACK_FLAG_RELIABLE
    RatelessData,   \* ... the DATA tracks with MOQ_TRACK_FLAG_FEC_RATELESS
    MaxAlias,       \* aliases are 1 .. MaxAlias
    Objects,        \* object ids of the group
    Totals,         \* total_symbols a datagram may announce
    DataCounts,     \* data_symbols a datagram may announce
    MinWindow,      \* QLINQ_MIN_ASSEMBLER_WINDOW, at most MaxSlots
    MaxSlots,       \* max_assemblers_per_connection
    MemoryLimit,    \* max_assembler_memory_bytes, in symbols
    CompletedSlots, \* QLINQ_COMPLETED_OBJECTS
    Timeout,        \* fec_assembler_timeout_ms
    MaxTime,        \* bound on the clock
    MaxGen          \* bound on the subscriptions of one connection

ASSUME ReceiveAssumption ==
    /\ Reliable \subseteq Tracks /\ NoTrack \notin Tracks
    /\ RatelessData \subseteq Tracks \ Reliable
    /\ Objects \subseteq Nat
    /\ MaxAlias \in Nat /\ MaxTime \in Nat /\ MaxGen \in Nat
    /\ Totals \subseteq Nat \ {0} /\ DataCounts \subseteq Nat \ {0}
    /\ MaxSlots \in Nat \ {0} /\ MinWindow \in 1..MaxSlots
    /\ MemoryLimit \in Nat /\ CompletedSlots \in Nat \ {0}
    /\ Timeout \in Nat

VARIABLES
    subs,       \* receive_subscriptions: alias -> track and generation
    nextGen,    \* next_generation
    slots,      \* the assemblers
    index,      \* slots the hash chains and the activity bitmap hold
    cursor,     \* assembler_index
    window,     \* assembler_limit
    memory,     \* assembler_memory_bytes
    peak,       \* most memory held in the last growth, old and new buffers
    completed,  \* completed_objects
    ccursor,    \* completed_cursor
    closing,    \* quicly_get_state >= QUICLY_STATE_CLOSING
    pend,       \* handler waiting for the application's callback
    now,        \* the clock
    got         \* <<generation, object>> handed to the application

vars == <<subs, nextGen, slots, index, cursor, window, memory, peak, completed,
          ccursor, closing, pend, now, got>>

Aliases  == 1..MaxAlias
SlotIds  == 0..(MaxSlots - 1)
Datagram == {d \in [alias: Aliases, obj: Objects, total: Totals,
                    data: DataCounts, sym: 0..(Max(Totals) - 1)] :
               d.data <= d.total /\ d.sym < d.total}

NoSub   == [track |-> NoTrack, gen |-> 0]
NoDone  == [alias |-> 0, gen |-> 0, obj |-> 0]
Idle    == [op |-> "idle"]

\* A released assembler.  `gen' is the subscription its symbols came under and
\* `told' whether the application heard of the object's fate; both are history.
FreeSlot == [alias |-> 0, obj |-> 0, total |-> 0, data |-> 0, mask |-> {},
             last |-> 0, cap |-> 0, gen |-> 0, told |-> FALSE]

Occupied(s) == s.total > 0

TypeOK ==
    /\ subs \in [Aliases -> [track: Tracks \cup {NoTrack}, gen: 0..MaxGen]]
    /\ nextGen \in 0..MaxGen
    /\ DOMAIN slots = SlotIds /\ index \subseteq SlotIds
    /\ \A i \in SlotIds : slots[i].mask \subseteq 0..(slots[i].total - 1)
    /\ cursor \in SlotIds /\ window \in MinWindow..MaxSlots
    /\ memory \in Nat /\ peak \in Nat
    /\ closing \in BOOLEAN /\ now \in 0..MaxTime

Init ==
    /\ subs = [a \in Aliases |-> NoSub] /\ nextGen = 0
    /\ slots = [i \in SlotIds |-> FreeSlot] /\ index = {}
    /\ cursor = 0 /\ window = MinWindow
    /\ memory = 0 /\ peak = 0
    /\ completed = [i \in 0..(CompletedSlots - 1) |-> NoDone] /\ ccursor = 0
    /\ closing = FALSE /\ pend = Idle /\ now = 0 /\ got = {}

-----------------------------------------------------------------------------
(* The subscription table *)

Subscribed(a) == subs[a].gen # 0
AliasOf(t) == CHOOSE a \in Aliases : Subscribed(a) /\ subs[a].track = t
HasTrack(t) == \E a \in Aliases : Subscribed(a) /\ subs[a].track = t
FreeAliases == {a \in Aliases : ~Subscribed(a)}

\* The application subscribes to a track it does not hold.  The entry is taken
\* back when the SUBSCRIBE frame cannot be written; the generation stays used.
Subscribe(t, written) ==
    /\ pend.op # "decoded"
    /\ ~HasTrack(t) /\ FreeAliases # {} /\ nextGen < MaxGen
    /\ nextGen' = nextGen + 1
    /\ subs' = IF written
               THEN [subs EXCEPT ![Min(FreeAliases)] =
                        [track |-> t, gen |-> nextGen + 1]]
               ELSE subs
    /\ UNCHANGED <<slots, index, cursor, window, memory, peak, completed,
                   ccursor, closing, pend, now, got>>

\* Slots with the symbols of an alias
SlotsOf(a) == {i \in SlotIds : Occupied(slots[i]) /\ slots[i].alias = a}

MemoryOf(held) == SumFunction([i \in held |-> slots[i].cap])

\* The assemblers in some slots are released.
ReleaseAll(held) ==
    /\ slots' = [i \in SlotIds |-> IF i \in held THEN FreeSlot ELSE slots[i]]
    /\ index' = index \ held
    /\ memory' = memory - MemoryOf(held)

\* unsubscribe_connection, once the UNSUBSCRIBE frame is written: the
\* assemblers of the alias are released with the subscription.
Unsubscribe(t) ==
    /\ pend.op # "decoded"
    /\ HasTrack(t)
    /\ LET a == AliasOf(t) IN
       /\ ReleaseAll(SlotsOf(a))
       /\ subs' = [subs EXCEPT ![a] = NoSub]
    /\ UNCHANGED <<nextGen, cursor, window, peak, completed, ccursor, closing,
                   pend, now, got>>

Close ==
    /\ pend.op # "decoded" /\ ~closing
    /\ closing' = TRUE
    /\ UNCHANGED <<subs, nextGen, slots, index, cursor, window, memory, peak,
                   completed, ccursor, pend, now, got>>

-----------------------------------------------------------------------------
(* Assemblers: the whole state of a slot array is threaded through as a      *)
(* record, one operator per function of the source.                          *)

Asm == [slots |-> slots, index |-> index, memory |-> memory, peak |-> 0]

Find(a, o) == {i \in index : slots[i].alias = a /\ slots[i].obj = o}

Unindex(m, i) == [m EXCEPT !.index = @ \ {i}]

Release(m, i) ==
    [m EXCEPT !.index = @ \ {i},
              !.memory = IF m.slots[i].cap <= @ THEN @ - m.slots[i].cap ELSE 0,
              !.slots[i] = FreeSlot]

\* Faulty variant: only the buffers that remain are reserved.
CanGrow_IgnoresCopy(m, i, symbols) ==
    m.slots[i].cap < symbols =>
        m.memory - m.slots[i].cap + symbols <= MemoryLimit

\* Old and new buffers exist together while symbols are copied.
CanGrow(m, i, symbols) ==
    m.slots[i].cap < symbols => m.memory + symbols <= MemoryLimit

\* transport_grow_assembler, when it succeeds
Grow(m, i, symbols) ==
    IF m.slots[i].cap >= symbols THEN m
    ELSE [m EXCEPT !.memory = @ - m.slots[i].cap + symbols,
                   !.peak = m.memory + symbols,
                   !.slots[i].cap = symbols]

\* The slot for a new object: the first free one from the cursor on, or the
\* least recently active one, the first of them from the cursor on.
Distance(i, limit) == (i - (cursor % limit)) % limit
Select(limit) ==
    LET range == 0..(limit - 1)
        free == {i \in range : ~Occupied(slots[i])}
        oldest == {i \in range : \A j \in range : slots[i].last <= slots[j].last}
        from == IF free # {} THEN free ELSE oldest
    IN  CHOOSE i \in from :
            \A j \in from : Distance(i, limit) <= Distance(j, limit)

\* The slot takes the object of the datagram; symbols are zeroed.
Claim(m, i, d, gen) ==
    [m EXCEPT !.index = @ \cup {i},
              !.slots[i] = [alias |-> d.alias, obj |-> d.obj, total |-> d.total,
                            data |-> d.data, mask |-> {}, last |-> now,
                            cap |-> @.cap, gen |-> gen, told |-> FALSE]]

\* The slot before it is claimed: out of the index, and with new buffers when
\* its own are too small
Reuse(m, i, d) ==
    IF m.slots[i].cap >= d.total THEN Unindex(m, i)
    ELSE Grow(Release(Unindex(m, i), i), i, d.total)

ReuseFits(m, i, d) ==
    m.slots[i].cap >= d.total \/ CanGrow(Release(m, i), i, d.total)

Put(m) ==
    /\ slots' = m.slots /\ index' = m.index
    /\ memory' = m.memory /\ peak' = m.peak

-----------------------------------------------------------------------------
(* The datagram handler *)

\* Faulty variant: objects of an earlier owner of the alias count.
IsCompleted_AnyGeneration(a, gen, o) ==
    \E i \in DOMAIN completed :
        completed[i].gen # 0 /\ completed[i].alias = a /\ completed[i].obj = o

IsCompleted(a, gen, o) ==
    \E i \in DOMAIN completed :
        completed[i] = [alias |-> a, gen |-> gen, obj |-> o]

\* The slot with a new symbol
Marked(s, sym) == [s EXCEPT !.mask = @ \cup {sym}, !.last = now]

\* Store the symbol in slot i of m, for the subscription `gen' the handler found
\* at its start.  When enough are there the object is decoded and handed to the
\* application (Deliver); `decodes' covers the codec and the allocation of the
\* object: without them the slot stays as it is.
Absorb(m, i, d, gen, decodes) ==
    LET grows == d.total > m.slots[i].total
        g == IF grows
             THEN [Grow(m, i, d.total) EXCEPT !.slots[i].total = d.total]
             ELSE m
        fresh == d.sym \notin g.slots[i].mask
        s == IF fresh
             THEN [g EXCEPT !.slots[i] = Marked(@, d.sym)]
             ELSE g
    IN  IF grows /\ ~CanGrow(m, i, d.total)
        THEN /\ Put(m) /\ pend' = Idle
             /\ UNCHANGED <<completed, ccursor, got>>
        ELSE IF Cardinality(s.slots[i].mask) >= s.slots[i].data /\ decodes
        THEN /\ Put([s EXCEPT !.slots[i].told = TRUE])
             /\ completed' = [completed EXCEPT ![ccursor] =
                    [alias |-> d.alias, gen |-> gen, obj |-> d.obj]]
             /\ ccursor' = (ccursor + 1) % CompletedSlots
             /\ got' = got \cup {<<gen, d.obj>>}
             /\ pend' = [op |-> "decoded", slot |-> i]
        ELSE /\ Put(s) /\ pend' = Idle
             /\ UNCHANGED <<completed, ccursor, got>>

\* Claim slot i for the object of the datagram and store its first symbol.
Place(i, d, gen, decodes) ==
    IF ReuseFits(Asm, i, d)
    THEN Absorb(Claim(Reuse(Asm, i, d), i, d, gen), i, d, gen, decodes)
    ELSE /\ Put(Release(Asm, i)) /\ pend' = Idle
         /\ UNCHANGED <<completed, ccursor, got>>

\* The frames that follow in a packet are still handled after a close.
Accepts(d) ==
    /\ pend = Idle
    /\ Subscribed(d.alias) /\ subs[d.alias].track \notin Reliable
    /\ ~IsCompleted(d.alias, subs[d.alias].gen, d.obj)

\* A symbol of an object that has an assembler; another geometry is malformed.
ReceiveSymbol(d, decodes) ==
    /\ Accepts(d)
    /\ \E i \in Find(d.alias, d.obj) :
          /\ slots[i].data = d.data
          /\ Absorb(Asm, i, d, subs[d.alias].gen, decodes)
    /\ UNCHANGED <<subs, nextGen, cursor, window, closing, now>>

\* Faulty variant: the victim goes without a word to the application.
ReceiveFirst_Silent(d, limit, decodes) ==
    /\ Accepts(d)
    /\ Find(d.alias, d.obj) = {}
    /\ limit \in window..MaxSlots
    /\ window' = limit
    /\ cursor' = (Select(limit) + 1) % limit
    /\ Place(Select(limit), d, subs[d.alias].gen, decodes)
    /\ UNCHANGED <<subs, nextGen, closing, now>>

\* The first symbol of an object.  The window is a high-water mark of a rate
\* estimate.  A live victim of a subscribed track is reported lost: the
\* application runs, and the handler goes on in ResumePlace.
ReceiveFirst(d, limit, decodes) ==
    /\ Accepts(d)
    /\ Find(d.alias, d.obj) = {}
    /\ limit \in window..MaxSlots
    /\ window' = limit
    /\ LET i == Select(limit) IN
       /\ cursor' = (i + 1) % limit
       /\ IF Occupied(slots[i]) /\ Subscribed(slots[i].alias)
          THEN /\ pend' = [op |-> "evict", slot |-> i, dgram |-> d,
                           gen |-> subs[d.alias].gen]
               /\ slots' = [slots EXCEPT ![i].told = TRUE]
               /\ UNCHANGED <<index, memory, peak, completed, ccursor, got>>
          ELSE Place(i, d, subs[d.alias].gen, decodes)
    /\ UNCHANGED <<subs, nextGen, closing, now>>

\* Faulty variant: the alias is looked up again, its generation is not compared.
StillSubscribed_AliasOnly(p) ==
    ~closing /\ Subscribed(p.dgram.alias)

\* What the handler checks after the loss callback
StillSubscribed(p) ==
    ~closing /\ Subscribed(p.dgram.alias) /\ subs[p.dgram.alias].gen = p.gen

ResumePlace(decodes) ==
    /\ pend.op = "evict"
    /\ IF StillSubscribed(pend)
       THEN Place(pend.slot, pend.dgram, pend.gen, decodes)
       ELSE /\ pend' = Idle
            /\ UNCHANGED <<slots, index, memory, peak, completed, ccursor, got>>
    /\ UNCHANGED <<subs, nextGen, cursor, window, closing, now>>

\* Assemblers of alias a an acknowledgement of object o covers
Covered(a, o) == {i \in SlotsOf(a) : slots[i].obj <= o}

\* retire_recovery_through, after the acknowledgement of a rateless DATA track
\* through object o: what is still collected of these objects is given up, and
\* the application is not told.  The last object of a completed window was
\* delivered; a repeated TRACK_END may acknowledge an earlier one again.
RetireRecoveryThrough(a, o) ==
    /\ Subscribed(a) /\ subs[a].track \in RatelessData
    /\ \E done \in Objects : done >= o /\ <<subs[a].gen, done>> \in got
    /\ ReleaseAll(Covered(a, o))
    /\ UNCHANGED <<subs, nextGen, cursor, window, peak, completed, ccursor,
                   closing, now, got>>

\* A checkpoint or the end of the track was received, or the tick could send an
\* acknowledgement that had to wait.
AcknowledgeWindows(a, o) ==
    /\ pend = Idle
    /\ RetireRecoveryThrough(a, o)
    /\ UNCHANGED pend

\* The handler of the datagram goes on: the object may complete a window that
\* is acknowledged at once, and then the OBJECT callback begins.  Nothing runs
\* between the decoding and this step.
Deliver ==
    /\ pend.op = "decoded"
    /\ pend' = [op |-> "delivered", slot |-> pend.slot]
    /\ \/ \E o \in Objects : RetireRecoveryThrough(slots[pend.slot].alias, o)
       \/ UNCHANGED <<subs, nextGen, slots, index, cursor, window, memory, peak,
                      completed, ccursor, closing, now, got>>

\* The slot is released after the OBJECT callback.
ResumeDelivered ==
    /\ pend.op = "delivered"
    /\ Put(Release(Asm, pend.slot)) /\ pend' = Idle
    /\ UNCHANGED <<subs, nextGen, cursor, window, completed, ccursor, closing,
                   now, got>>

\* A datagram on an alias that now names a reliable track ends the connection.
ReceiveOnReliable(d) ==
    /\ pend = Idle
    /\ Subscribed(d.alias) /\ subs[d.alias].track \in Reliable
    /\ closing' = TRUE
    /\ UNCHANGED <<subs, nextGen, slots, index, cursor, window, memory, peak,
                   completed, ccursor, pend, now, got>>

-----------------------------------------------------------------------------
(* The expiry sweep of transport_tick *)

Expired(i) == i \in index /\ now - slots[i].last >= Timeout

\* The sweep reaches the next expired slot: with a subscription its loss is
\* reported first, and the slot released when the callback returns.
SweepFrom(first) ==
    LET due == {i \in SlotIds : i >= first /\ Expired(i)} IN
    IF due = {} THEN pend' = Idle /\ UNCHANGED <<slots, index, memory, peak>>
    ELSE LET i == Min(due) IN
         IF Subscribed(slots[i].alias)
         THEN /\ pend' = [op |-> "expire", slot |-> i]
              /\ slots' = [slots EXCEPT ![i].told = TRUE]
              /\ UNCHANGED <<index, memory, peak>>
         ELSE /\ Put(Release(Asm, i))
              /\ pend' = [op |-> "sweep", slot |-> i + 1]

Sweep ==
    /\ ~closing
    /\ \/ pend = Idle /\ (\E i \in SlotIds : Expired(i)) /\ SweepFrom(0)
       \/ pend.op = "sweep" /\ SweepFrom(pend.slot)
    /\ UNCHANGED <<subs, nextGen, cursor, window, completed, ccursor, closing,
                   now, got>>

ResumeExpire ==
    /\ pend.op = "expire"
    /\ Put(Release(Asm, pend.slot))
    /\ pend' = IF closing THEN Idle ELSE [op |-> "sweep", slot |-> pend.slot + 1]
    /\ UNCHANGED <<subs, nextGen, cursor, window, completed, ccursor, closing,
                   now, got>>

\* The closed connection is freed, and the next one starts from nothing; the
\* memory count belongs to the transport.
FreeConnection ==
    /\ closing /\ pend = Idle
    /\ memory' = memory - MemoryOf(SlotIds)
    /\ subs' = [a \in Aliases |-> NoSub] /\ nextGen' = 0
    /\ slots' = [i \in SlotIds |-> FreeSlot] /\ index' = {}
    /\ completed' = [i \in DOMAIN completed |-> NoDone] /\ ccursor' = 0
    /\ cursor' = 0 /\ window' = MinWindow /\ closing' = FALSE /\ got' = {}
    /\ UNCHANGED <<peak, pend, now>>

Tick ==
    /\ pend = Idle /\ now < MaxTime
    /\ now' = now + 1
    /\ UNCHANGED <<subs, nextGen, slots, index, cursor, window, memory, peak,
                   completed, ccursor, closing, pend, got>>

Next ==
    \/ \E t \in Tracks, ok \in BOOLEAN : Subscribe(t, ok)
    \/ \E t \in Tracks : Unsubscribe(t)
    \/ Close
    \/ \E d \in Datagram, ok \in BOOLEAN : ReceiveSymbol(d, ok)
    \/ \E d \in Datagram, limit \in SlotIds \cup {MaxSlots}, ok \in BOOLEAN :
          ReceiveFirst(d, limit, ok)
    \/ \E d \in Datagram : ReceiveOnReliable(d)
    \/ \E ok \in BOOLEAN : ResumePlace(ok)
    \/ \E a \in Aliases, o \in Objects : AcknowledgeWindows(a, o)
    \/ Deliver
    \/ ResumeDelivered
    \/ Sweep
    \/ ResumeExpire
    \/ FreeConnection
    \/ Tick

Spec == Init /\ [][Next]_vars

-----------------------------------------------------------------------------
(* Properties *)

\* assembler_memory_bytes is what the assemblers hold, over evictions, failed
\* growth, releases from inside callbacks and freed connections, and not even
\* the copy of a growing assembler takes more than the budget.
MemoryExact ==
    memory = MemoryOf(SlotIds) /\ peak <= MemoryLimit

\* An assembler belongs to the subscription that holds its alias now: nothing
\* collected under an earlier owner of the alias is completed for the next one,
\* whatever the application did inside a callback.
AssemblersAreCurrent ==
    \A i \in SlotIds : Occupied(slots[i]) =>
        slots[i].gen = subs[slots[i].alias].gen

\* An object of a live subscription leaves its assembler only after the
\* application was handed it or told of its loss, with one exception: when a
\* rateless DATA track is acknowledged through an object that was delivered or
\* one before it, what is still collected of the objects up to there is given up
\* without an event.
NothingLostSilently ==
    [][\A i \in SlotIds :
          (Occupied(slots[i]) /\ ~slots[i].told
             /\ subs[slots[i].alias].gen = subs'[slots[i].alias].gen)
          => \/ slots'[i].alias = slots[i].alias /\ slots'[i].obj = slots[i].obj
             \/ \E o \in Objects : /\ slots[i].obj <= o
                                    /\ RetireRecoveryThrough(slots[i].alias, o)
        ]_vars

\* A symbol is dropped as a duplicate only when this subscription did receive
\* the object.
SuppressedWasReceived ==
    \A d \in Datagram :
        (Subscribed(d.alias) /\ IsCompleted(d.alias, subs[d.alias].gen, d.obj))
        => <<subs[d.alias].gen, d.obj>> \in got
=============================================================================
