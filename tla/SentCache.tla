------------------------------ MODULE SentCache ------------------------------
(***************************************************************************)
(* The sent cache of transport_fec_state: copies of published rateless     *)
(* objects, kept in a ring of slots under a byte budget for repair, and    *)
(* the repair cursors transport_repair advances in them.                   *)
(*                                                                         *)
(* Best-effort entries may be evicted by a store that allows it; entries   *)
(* of tracks under checkpoint recovery are protected and leave only when   *)
(* they are released.  A publication that reached some of its peers is     *)
(* stored again, with the same identity, by every retry.                   *)
(*                                                                         *)
(* Abstractions.  Every track has group 0.  A payload is its size and a    *)
(* tag that stands for its bytes.  A rateless object is sent without       *)
(* parity, so total_symbols is data_symbols at every store.                *)
(***************************************************************************)
EXTENDS Integers, FiniteSets, FiniteSetsExt, Functions

CONSTANTS
    Tracks,         \* tracks that publish rateless data
    ObjectIds,      \* object ids used
    Sizes,          \* payload sizes
    Tags,           \* payload contents of one size
    Geometries,     \* values data_symbols takes: each attempt computes it anew
    ByteLimit,      \* max_payload_bytes
    ObjectLimit,    \* max_object_bytes
    MinSlots,       \* TRANSPORT_SENT_CACHE_SIZE
    MaxSlots,       \* TRANSPORT_SENT_CACHE_MAX_SIZE
    MaxSymbols,     \* QLINQ_FEC_MAX_TOTAL_SYMBOLS
    MaxBatch        \* TRANSPORT_REPAIR_MAX_SYMBOLS

ASSUME IdsAssumption == ObjectIds \subseteq Nat
ASSUME SizesAssumption == Sizes \subseteq 1 .. ObjectLimit
ASSUME GeometriesAssumption == Geometries \subseteq 1 .. MaxSymbols
ASSUME LimitsAssumption ==
    /\ ByteLimit \in Nat \ {0} /\ ObjectLimit \in Nat \ {0}
    /\ MinSlots \in Nat \ {0} /\ MaxSlots \in Nat /\ MinSlots <= MaxSlots
    /\ MaxSymbols \in Nat \ {0} /\ MaxBatch \in Nat \ {0}

\* transport_sent_cache_init: slots for a budget full of largest objects,
\* rounded up and clamped
Capacity ==
    LET slots == (ByteLimit + ObjectLimit - 1) \div ObjectLimit
    IN  IF slots < MinSlots THEN MinSlots
        ELSE IF slots > MaxSlots THEN MaxSlots ELSE slots

Slots == 0 .. Capacity - 1
NoSlot == -1

VARIABLES
    entries,    \* the ring: an Entry or Free in each slot
    nextEntry,  \* next_entry, where searches start
    bytes,      \* payload_bytes
    count       \* count

vars == <<entries, nextEntry, bytes, count>>

Payload == [size: Sizes, tag: Tags]
Object == [track: Tracks, id: ObjectIds, payload: Payload]

Entry == [track: Tracks, id: ObjectIds, payload: Payload, data: Geometries,
          total: Nat, repair: Nat, systematic: Nat, protected: BOOLEAN]
Free == [track |-> NoSlot]

TypeOK ==
    /\ entries \in [Slots -> Entry \cup {Free}]
    /\ nextEntry \in Slots
    /\ bytes \in Nat
    /\ count \in Nat

Init ==
    /\ entries = [i \in Slots |-> Free]
    /\ nextEntry = 0
    /\ bytes = 0
    /\ count = 0

-----------------------------------------------------------------------------
(* Lookup and admission *)

Occupied == {i \in Slots : entries[i] # Free}

\* Faulty variant: the scan ends one slot early.
Find_ShortScan(track, id) ==
    {i \in Occupied \ {Capacity - 1} : entries[i].track = track /\ entries[i].id = id}

\* transport_sent_cache_find
Find(track, id) == {i \in Occupied : entries[i].track = track /\ entries[i].id = id}

SizeOf(slots) == SumFunction([i \in slots |-> entries[i].payload.size])

\* Faulty variant: protection is ignored.
Evictable_Any(alias) == {i \in Occupied : i # alias}

\* Entries a store may reclaim: unprotected, and not the memory the new
\* object's data points into (`alias', NoSlot when it points elsewhere).
Evictable(alias) == {i \in Occupied : ~entries[i].protected /\ i # alias}

\* Faulty variant: protected entries are counted as reclaimable.
CanStore_CountsProtected(obj, allowEvict, alias) ==
    LET victims == IF allowEvict THEN Occupied ELSE {} IN
    /\ obj.payload.size <= ByteLimit
    /\ \/ count < Capacity /\ bytes + obj.payload.size <= ByteLimit
       \/ /\ Find(obj.track, obj.id) = {}
          /\ Occupied # Slots \/ victims # {}
          /\ bytes + obj.payload.size <= ByteLimit + SizeOf(victims)

\* transport_sent_cache_can_store.  The first alternative is the common case,
\* which looks neither for the identity nor for entries to reclaim.
CanStore(obj, allowEvict, alias) ==
    LET same    == Find(obj.track, obj.id)
        victims == IF allowEvict THEN Evictable(alias) ELSE {}
    IN
    /\ obj.payload.size <= ByteLimit
    /\ bytes <= ByteLimit
    /\ \/ count < Capacity /\ bytes + obj.payload.size <= ByteLimit
       \/ same # {} /\ \A i \in same : entries[i].payload = obj.payload
       \/ /\ same = {}
          /\ Occupied # Slots \/ victims # {}
          /\ bytes + obj.payload.size <= ByteLimit + SizeOf(victims)

-----------------------------------------------------------------------------
(* Storing *)

SlotAt(offset) == (nextEntry + offset) % Capacity

SlotAfter(i) == (i + 1) % Capacity

\* The entries the reclaim loop has released after visiting n slots
Reclaimed(n, allowEvict, alias) ==
    IF allowEvict THEN Evictable(alias) \cap {SlotAt(k) : k \in 0 .. n - 1} ELSE {}

\* The reclaim loop may stop after n slots: the object fits.
Fits(size, victims) ==
    /\ bytes - SizeOf(victims) + size <= ByteLimit
    /\ count - Cardinality(victims) < Capacity

Stops(size, allowEvict, alias) ==
    {n \in 0 .. Capacity : Fits(size, Reclaimed(n, allowEvict, alias))}

NewEntry(obj, data, allowEvict) ==
    [track |-> obj.track, id |-> obj.id, payload |-> obj.payload, data |-> data,
     total |-> data, repair |-> data, systematic |-> 0, protected |-> ~allowEvict]

\* Faulty variant: the retry restarts the repair symbols.
Retried_Restart(e, data, allowEvict) ==
    LET total == IF data > e.total THEN data ELSE e.total
    IN  [e EXCEPT !.total = total, !.repair = total, !.data = data,
                  !.protected = @ \/ ~allowEvict]

\* What a retry with the same identity and bytes makes of the entry
Retried(e, data, allowEvict) ==
    LET total == IF data > e.total THEN data ELSE e.total
    IN  [e EXCEPT !.total = total,
                  !.repair = IF @ < total THEN total ELSE @,
                  !.data = data,
                  !.protected = @ \/ ~allowEvict]

\* transport_sent_cache_store of an identity that is present
StoreAgain(obj, data, allowEvict) ==
    \E i \in Find(obj.track, obj.id) :
        /\ entries[i].payload = obj.payload
        /\ entries' = [entries EXCEPT ![i] = Retried(@, data, allowEvict)]
        /\ UNCHANGED <<nextEntry, bytes, count>>

\* Faulty variant: the byte counter is not reduced for reclaimed entries.
Charge_KeepsReclaimed(victims, size) ==
    /\ bytes' = bytes + size
    /\ count' = count - Cardinality(victims) + (IF size > 0 THEN 1 ELSE 0)

\* The counters after reclaiming victims and adding a payload of this size
Charge(victims, size) ==
    /\ bytes' = bytes - SizeOf(victims) + size
    /\ count' = count - Cardinality(victims) + (IF size > 0 THEN 1 ELSE 0)

\* transport_sent_cache_store of a new identity.  The loop reclaims before it
\* allocates: without memory (~allocated) what it released stays released.
StoreNew(obj, data, allowEvict, alias, allocated) ==
    LET size    == obj.payload.size
        stops   == Stops(size, allowEvict, alias)
        victims == IF stops = {} THEN Reclaimed(Capacity, allowEvict, alias)
                   ELSE Reclaimed(Min(stops), allowEvict, alias)
        kept    == [i \in Slots |-> IF i \in victims THEN Free ELSE entries[i]]
        free    == {k \in 0 .. Capacity - 1 : kept[SlotAt(k)] = Free}
    IN
    /\ Find(obj.track, obj.id) = {}
    /\ CanStore(obj, allowEvict, alias)
    /\ IF stops = {} \/ free = {} \/ ~allocated
       THEN /\ entries' = kept
            /\ Charge(victims, 0)
            /\ UNCHANGED nextEntry
       ELSE /\ entries' = [kept EXCEPT ![SlotAt(Min(free))] =
                                          NewEntry(obj, data, allowEvict)]
            /\ Charge(victims, size)
            /\ nextEntry' = SlotAfter(SlotAt(Min(free)))

Store(obj, data, allowEvict) ==
    \/ StoreAgain(obj, data, allowEvict)
    \/ \E alias \in Occupied \cup {NoSlot}, allocated \in BOOLEAN :
          StoreNew(obj, data, allowEvict, alias, allocated)

-----------------------------------------------------------------------------
(* Releasing *)

\* release_entry for every entry of a set
Release(slots) ==
    /\ slots # {}
    /\ entries' = [i \in Slots |-> IF i \in slots THEN Free ELSE entries[i]]
    /\ bytes' = bytes - SizeOf(slots)
    /\ count' = count - Cardinality(slots)
    /\ UNCHANGED nextEntry

\* transport_sent_cache_release_through
ReleaseThrough(track, id) ==
    Release({i \in Occupied : entries[i].track = track /\ entries[i].id <= id})

\* transport_sent_cache_release_track
ReleaseTrack(track) == Release({i \in Occupied : entries[i].track = track})

-----------------------------------------------------------------------------
(* Repair: the batch of a NACK, of which `admitted' symbols were queued *)

\* transport_repair_build_rateless and transport_repair_commit_rateless
RepairRateless(i, admitted) ==
    LET e == entries[i] IN
    /\ e.repair >= e.data
    /\ e.repair < MaxSymbols
    /\ admitted <= MaxSymbols - e.repair
    /\ entries' = [entries EXCEPT ![i].repair = @ + admitted]
    /\ UNCHANGED <<nextEntry, bytes, count>>

\* Faulty variant: the cursor is not wrapped.
AdvanceSystematic_NoWrap(e, admitted) == e.systematic + admitted

AdvanceSystematic(e, admitted) == (e.systematic + admitted) % e.data

\* transport_repair_build_systematic_fallback and its commit, once the
\* rateless symbols are exhausted
RepairSystematic(i, admitted) ==
    LET e == entries[i] IN
    /\ e.repair >= MaxSymbols
    /\ e.systematic < e.data
    /\ admitted <= e.data
    /\ entries' = [entries EXCEPT ![i].systematic = AdvanceSystematic(e, admitted)]
    /\ UNCHANGED <<nextEntry, bytes, count>>

-----------------------------------------------------------------------------
(* Specification *)

Next ==
    \/ \E obj \in Object, data \in Geometries, allowEvict \in BOOLEAN :
          Store(obj, data, allowEvict)
    \/ \E track \in Tracks, id \in ObjectIds : ReleaseThrough(track, id)
    \/ \E track \in Tracks : ReleaseTrack(track)
    \/ \E i \in Occupied, admitted \in 1 .. MaxBatch : RepairRateless(i, admitted)
    \/ \E i \in Occupied, admitted \in 1 .. MaxBatch : RepairSystematic(i, admitted)

Spec == Init /\ [][Next]_vars

-----------------------------------------------------------------------------
(* Properties *)

\* The counters are exact and the byte budget holds, whatever is evicted,
\* released or fails to allocate: release_entry and store agree on what an
\* entry costs.
AccountingExact ==
    /\ bytes = SizeOf(Occupied)
    /\ count = Cardinality(Occupied)
    /\ bytes <= ByteLimit

\* One recovery entry per identity, although the admission fast path does
\* not look for one: a NACK finds the entry every retry updated.
IdentityUnique ==
    \A i, j \in Occupied :
        entries[i].track = entries[j].track /\ entries[i].id = entries[j].id => i = j

\* can_store and store agree: after an object is admitted and sent, the
\* reclaim loop makes room for its copy (short of an allocation failure).
AdmittedIsStored ==
    \A obj \in Object, allowEvict \in BOOLEAN, alias \in Occupied \cup {NoSlot} :
        Find(obj.track, obj.id) = {} /\ CanStore(obj, allowEvict, alias)
            => Stops(obj.payload.size, allowEvict, alias) # {}

SameIdentity(e, f) == e.track = f.track /\ e.id = f.id

Releasing ==
    \/ \E track \in Tracks, id \in ObjectIds : ReleaseThrough(track, id)
    \/ \E track \in Tracks : ReleaseTrack(track)

\* No store destroys a protected obligation: such an entry leaves its slot,
\* or loses its protection, only when it is released.
ProtectedSurvives ==
    [][\A i \in Occupied : entries[i].protected /\ ~Releasing =>
          /\ entries'[i] # Free
          /\ SameIdentity(entries[i], entries'[i])
          /\ entries'[i].protected]_vars

\* Rateless repair symbols are fresh: while an object is cached its next
\* symbol never moves back, over retries of a partly sent publication too.
RepairNeverRewinds ==
    [][\A i \in Occupied : entries'[i] # Free /\ SameIdentity(entries[i], entries'[i])
          => entries'[i].repair >= entries[i].repair]_vars

\* transport_repair_build_rateless or, once the rateless symbols are used up,
\* transport_repair_build_systematic_fallback accepts the entry.
Repairable(e) ==
    \/ e.data <= e.repair /\ e.repair < MaxSymbols
    \/ e.repair >= MaxSymbols /\ e.systematic < e.data

\* The one way an entry stops being repairable: it is sent again with fewer
\* data symbols, while its systematic cursor is already past the last of them.
ShrunkUnderCursor(e, f) == f.data <= f.systematic /\ f.systematic < e.data

\* What is stored can be repaired, and no repair, release or eviction ends
\* that: with fresh symbols, or by cycling the systematic ones once those are
\* exhausted.  Only a retry with a smaller geometry can.
RepairEndsOnlyByShrinking ==
    [][\A i \in Slots : entries'[i] # Free /\ ~Repairable(entries'[i]) =>
          /\ entries[i] # Free /\ SameIdentity(entries[i], entries'[i])
          /\ ~Repairable(entries[i]) \/ ShrunkUnderCursor(entries[i], entries'[i])]_vars

=============================================================================
