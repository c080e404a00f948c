# qlinq: TLA+ models and proofs

qlinq is a media and data transport over QUIC: endpoints subscribe to tracks,
publishers send objects on them either as reliable stream frames or as FEC-coded
datagrams, and losses of rateless tracks are repaired on request. This
directory holds models of the transport (`src/src/common/transport_*`), of the
API over it (`qlinq.c`), of the interface monitor beside it (`ifmon.c`) and of the
daemon's local data socket (`data_uds.c`, `daemon/main.c`), the TLC configurations
that check them and the TLAPS proofs about them.

    tlc -workers 2 -config RecoveryWindows.cfg MCRecovery
    tlapm RecoveryCheckpointsProofs.tla

`PROJECT.json` lists the runs, the source lines of every definition, the faulty
variants each property is known to catch, the findings and the hazards.

## 1. Inventory

| Component | State | Operations | What makes it correct |
| --- | --- | --- | --- |
| Publication (`transport_publish.c`) | per track: next object id, last checkpoint; per transport: the group being collected; per peer and track: checkpoint sent and acknowledged | publish, flush a group (may reach some peers only and be retried), finish a track, rolling checkpoints, members join and leave, ACKs | nothing a subscribed peer has not acknowledged is discarded; watermarks are ordered |
| Receiving (`transport_protocol.c`, `transport_recovery_state.h`) | per subscription: delivered history, pending gaps, open recovery windows; per connection: partly assembled objects, recently completed ones | parse control frames, receive datagrams, NACK sweep, acknowledge windows | an ACK is never ahead of delivery; no object is handed out twice; no gap is forgotten or asked for ever |
| Sent cache (`transport_fec_state.c`) | ring of copied objects, byte and entry counts, repair cursors | can_store, store, find, release_through, release_track | admission and storing agree; protected entries survive; counters are exact |
| Repair (`transport_repair.c`) | token buckets; cursors inside cache entries | build and commit a rateless batch, build and commit the systematic fallback | repair symbols are fresh; repair goes on while the geometry does not shrink |
| Retained stream storage (`transport_stream.c`) | frames and send vector per stream, totals per transport | write, batch preflight, shift on acknowledgement, destroy | charges are exact, budgets hold, essential control has its reserve |
| Egress (`transport_egress.c`, `transport_udp.c`) | ring of copied packets per socket | submit, flush, destroy | FIFO per socket, no packet refused after QUIC numbered it, progress |
| Subscriptions (`transport_subscriptions.c`) | alias tables in each direction, generation per entry | add, find, remove, attach streams | an alias names one track; reuse never confuses old and new data |
| Connections (`transport_quicly.c`) | connection table, HELLO and authentication state, reconnect backoff | tick, accept, connect, close, free, subscribe, unsubscribe | correct ends never accuse each other; a session comes back after faults; shutdown drains |
| Datagram assembly (`transport_protocol.c`, `transport_memory.c`) | assembler slots and their memory | find or reuse a slot, add a symbol, decode | memory exact and bounded; symbols never change their subscription; no silent loss |
| Paths (`transport_paths.c`, `transport_scheduler.c`, `ifmon.c`) | sockets, path estimates, interface events from another thread | choose a path, add and remove interfaces | slots renumbered consistently; sockets become those of the usable addresses |
| Application API (`qlinq.c`) | endpoints, bounded event queue, writable edges | open and close streams, send, service, next event | a lost event shows in the status; a blocked sender hears when it may go on; subscriptions follow peers |
| Local data socket (`data_uds.c`), daemon | the socket's name and lock, clients, a record being offered, output buffers | create, destroy, tick, send, publish on every transport | one listener keeps the name; each record once per transport; whole frames; a hangup loses no record of a helper that took its frames |
| Command line application, tunnel hosts | options, a reorder buffer, devices | I/O around the API or the local socket | order of what is written |
| Wire format, FEC codecs, TLS, configuration | none, or library state | encode and decode, load | single-call correctness |

How they interact. One owner thread runs `transport_tick`: it flushes the egress
rings, runs timers (the NACK sweep, pending ACKs, grouped flushes), lets quicly
produce packets for the rings and frees closed connections. quicly calls back
into stream and datagram handlers, which parse frames, deliver objects and
write answers. Publication runs on the same thread from the application. The
publisher and its subscribers share nothing but the control stream of their
connection (ordered, reliable while the connection lives) and datagrams (lost,
late, reordered, duplicated by repair). Only the interface monitor is another
thread; it hands over through a pipe.

What is hard to test:

- cumulative ACKs against windows that complete out of order, while the history
  of delivered objects slides and the sender's cache is full;
- several subscribers that acknowledge, leave, lose their connection and return
  between any two of these steps;
- groups that reached some peers and are sent again with the same identity;
- budgets checked before a broadcast and consumed during it; storage charged in
  doublings; reserves;
- short sends, hard errors and rollback in a ring that wraps;
- progress: full caches, blocked control streams, losses with nothing after them;
- callbacks in the middle of datagram handling and expiry, from which the
  application may unsubscribe, reuse the alias or close;
- two ends that complete a handshake in many orders and learn of a lost connection
  at different times;
- a watcher thread that lists interfaces while they change, and writes to a pipe
  that may be full;
- daemons that start, stop and crash around one socket name, and helpers that
  write, read in parts and exit at any moment.

## 2. Plan

Done, in this order:

1. `RecoveryCheckpoints`: the recovery protocol between a publisher and its
   subscribers, the most important and least testable behaviour.
2. `SentCache`: the ring the protocol's `cache` set abstracts, with eviction and
   repair cursors.
3. `StreamBudget`: what control and data frames may occupy.
4. `Egress`, which implements the abstract `EgressFifo`.
5. `Receive`: the subscription table with its aliases and generations together
   with the assemblers, because the hazards are between them.
6. `Endpoint`: peers, streams and the bounded event queue of `qlinq.c`.
7. `Session`: handshake, authentication, reconnect backoff and shutdown of a
   client and a server.
8. `Interfaces`: the kernel's interfaces, the watcher thread and the sockets of the
   transport.
9. `SocketName` and, over it, `LocalSocket`: the daemon's local data socket.
10. The proofs: `RecoveryCheckpointsProofs`, `SentCacheProofs`, `StreamBudgetProofs`,
    `EgressProofs` (with those about `Interfaces`), `ReceiveProofs`,
    `EndpointProofs` (with those about `Session`), `LocalSocketProofs`, over
    the common lemmas of `FiniteSetLemmas`.

Left:

- `RepairLimiter`, the token buckets behind the nondeterministic repair choice of
  `RecoveryCheckpoints`: arithmetic on one counter, saturating at both ends.
- The reorder buffer of the command line application.
- Reliable track streams: their binding to subscriptions and their reset.

Abstract specifications worth stating: an at-most-once, eventually complete
delivery service per subscription, implemented by `RecoveryCheckpoints` without
churn; a set of identities with protection, implemented by `SentCache`.

Every safety property a passing run checks is proved (section 5). A proof worth adding
is that `RecoveryCheckpoints` without churn implements the delivery service above.

## 3. The modules

### RecoveryCheckpoints

One rateless DATA track published by a server. Per peer there is the
publisher's end (`conn`, `member`, `ack`), the subscriber's end (`pconn`, `rsub`,
`rx`), the control stream in each direction (`down`, `up`) and the datagrams in
flight (`dgrams`).

| Model | Code |
| --- | --- |
| `next`, `lastCkpt` | `next_object_id`, `last_checkpoint_object_id` of `transport_fec_track_state_t` |
| `buffered`, `delivered` | the collected group, `fec_group_delivered` of each connection |
| `ack` | `transport_checkpoint_ack_state_t`; `NoId` is "not initialized" |
| `rx` | `transport_object_gap_state_t`: `largest`, `delivered` (the bit history), `windows`, and the gap tracker `seen`, `base`, `pending` |
| `BufferRecord`, `FlushGrouped`, `FinishTrack` | `transport_publish_impl`, `transport_publish_flush_grouped_ex`, `transport_finish_track` |
| `HandleSubscribe`, `HandleUnsubscribe`, `HandleAck`, `HandleNack`, `HandleCheckpoint`, `HandleBaseline`, `HandleTrackEnd` | the cases of `parse_control_messages`, with every function they call |
| `ReceiveDatagram` | `on_receive_datagram_frame`, from the duplicate test to delivery |
| `FlushRecoveryAcks`, `SendNack` | the parts of `transport_tick` that retry ACKs and sweep for gaps |
| `SubscribeTrack`, `SubscribeAgain`, `UnsubscribeTrack`, `Disconnect`, `CloseConn`, `FreeConnection`, `Reconnect` | `transport_subscribe`, `transport_unsubscribe`, closing at either end, freeing and reconnecting |
| `NoticeClose`, `LoseDatagram` | QUIC and the network (external) |

`emitted`, `floor`, `joined` and `errors` are history variables: what the
application got in this subscription, which ids it was promised, and which
connections a protocol error closed.

Left to chance: which peers' paths admit a group, whether a control stream has
room for an ACK, whether the token buckets admit a repair, and when timers fire.
An object arrives whole, the group id is 0, every peer negotiated the checkpoint
capability, and nothing is published after the track was finished. Client
publishers, which send to their one peer without a subscription, are not
modelled.

### SentCache

The ring itself: `Store` is `transport_sent_cache_store` with its three outcomes
(retry of a stored identity, new entry after reclaiming best-effort ones, failed
allocation), `ReleaseThrough` and `ReleaseTrack` the two releases, and
`RepairRateless` and `RepairSystematic` the commits of `transport_repair.c`. The
object being stored may alias the memory of an entry (`alias`). Every attempt computes
the symbol size anew from the smallest peer of the moment, so each `Store`, a retry of
a stored identity included, takes any number of data symbols in `Geometries`, while the
cursors of the entry stay.

### StreamBudget

Control and track streams of several connections with the frames they retain.
`StreamAccepts` and `EndpointAccepts` are the two halves of
`stream_can_accept_reserved`; `PublishReliable` is the preflight of a broadcast
and `WriteRecipient` its writes, between which nothing else runs. `EgressShift`
releases acknowledged frames and may compact the vector; `outcome` covers
allocation failures and the frame that is appended although the write reports
an error. The sizes are scaled: a first vector of 2 slots instead of 4 and one
byte per slot.

### Egress and EgressFifo

`EgressFifo` says what is promised: per socket a queue from which packets leave
in order or are discarded one at a time, and to which a batch is added whole or
not at all. `Egress` is the ring with head, count and bytes, `queue_remaining`
with its rollback, and the flush loop, one kernel call per step with the budget
the code gives it. The kernel takes any prefix of the packets it is given, or
fails on the first. `SendBatch` carries the room test of the send loop.

### Receive

| Model | Code |
| --- | --- |
| `subs`, `nextGen` | the receive table of `transport_subscriptions.c`, `next_generation` |
| `slots`, `index`, `cursor`, `window`, `memory` | `assemblers`, their hash chains and bitmap, `assembler_index`, `assembler_limit`, `assembler_memory_bytes` |
| `completed`, `ccursor` | `completed_objects` and its cursor |
| `pend` | a handler inside a callback, with its local variables |
| `ReceiveSymbol`, `ReceiveFirst`, `ReceiveOnReliable` | `on_receive_datagram_frame` for an object with and without an assembler, and for an alias that now names a reliable track |
| `ResumePlace`, `Deliver`, `ResumeDelivered` | the same function after the loss callback, between decoding and the OBJECT callback, after it |
| `RetireRecoveryThrough`, `AcknowledgeWindows` | `retire_recovery_through` and its callers: checkpoints and track ends received, ACKs the tick retries, and (in `Deliver`) an object that completes a window |
| `Sweep`, `ResumeExpire` | the expiry loop of `transport_tick` around its callback |
| `Subscribe`, `Unsubscribe`, `Close`, `FreeConnection` | the calls the application makes, inside callbacks too, and the end of the connection |

The network is an input: any well-formed datagram of any alias at any time. So old
datagrams of an alias that now belongs to another track are included. The
receiver's window estimate is any value that grows; decoding and the object's
allocation may fail. Tracks in `RatelessData` are acknowledged by windows: through any
object up to one that was delivered, since the last object of a completed window was.
Memory is counted in symbols of one size. `got`, and `gen` and
`told` of a slot, are history.

### Endpoint

One context and endpoint. `phase` is where the one thread is: in the
application, in `transport_tick` below `qlinq_service`, or in
`refresh_writable_events`. Every case of `on_transport_event` is an action, with
the events it queues in order; `Fitting` is `queue_event` applied to them one
after the other. Storage is counted in event nodes. Whether an activation, an
UNSUBSCRIBE or an answer can be written is a choice. `waiting`, `refused`, `lost` and
`ret` are history.

### Session

Two ends, one control channel per direction and connection, and the server's
table, in which connections that the client has forgotten remain until they time
out. `TickClient` and `TickServer` are the part of `transport_tick` that sends HELLO
and emits CONNECTED; the `Client...` and `Server...` actions are the cases of
`parse_control_messages` with what the application's handler does in them.
`NoticeClient`, `NoticeServer` and the timeouts are quicly's (external): a close
reaches the other end unless its sender was freed first. `faults` bounds everything
that goes wrong (a lost connection, a failed write, a refused secret, a close by
the application). The names of `Session` and `Interfaces` that every state machine has
(`SessionInit`, `sessionVars`, ...) carry the module's: their proofs share a module
with those of another.

### Interfaces

Three actors. The kernel changes interfaces, links and addresses. `StartLinks`,
`StartAddrs` and `Listen` are `ifmon_watch_start`, which takes its first list before the
event socket is open; the transport ignores that list, so addresses that are there
besides the configured one get no socket (`ignored`). Then the watcher
drains its event socket, dumps links and then addresses (changes may fall between; a
dump that fails on the way is cut short and taken for the truth, `Cut`),
compares with its last list and writes messages to a bounded pipe. The transport
reads one message at a time, opens a socket or closes one, and shifts the arrays of
the transport and of each connection (`CloseSocket` with
`remove_connection_physical_slot`). `slots` stands for the per-socket state of a
connection; its value is the address it was measured for.

### SocketName and LocalSocket

`SocketName` has a step for every system call on the name in `data_uds_create` and
`data_uds_destroy`, for several processes that may crash anywhere, and programs
from before the lock file, against which the code probes. They bind and listen in two
steps (`OlderBinds`, `OlderListens`): one that is probed in between refuses the
connection like a socket that was left behind, and `missed` remembers it. The lock file
is never removed, which is why it can be one variable.

`LocalSocket` adds the data: `conn` is what a helper sees of its connection, `slot`
is `clients[]`, `pc` is where the daemon's loop is. `Retry`, `Poll`, `Accept` and
`Serve` are the parts of `data_uds_tick`, one client at a time; `InputReads`,
`InputBlocks` and `Offer` are `process_client_input`, one read or one record at a
time, with `on_data_packet` of the daemon inside `Offer`. Helpers act between any two
of them. `Returned` is what Linux reports of a local socket: a helper that exits is a
hangup, and an error (ECONNRESET) too when it left frames unread, for which `Serve` closes
the client before it reads. POLLNVAL is not among it: the daemon polls open descriptors
only. A registration and a record are two units each, so every read and
write can be partial. One process serves at a time (`ListenerKeepsName`), so the
data state exists once.

## 4. Runs

| Run | Question | Bounds |
| --- | --- | --- |
| `recovery_windows` | Datagrams are lost, late and repeated; windows complete out of order; the history of 4 objects slides over 7; the cache of 4 fills; the track finishes. Are ACKs behind delivery, gaps repairable and remembered, objects handed out once, connections free of protocol errors? | 1 peer, windows of 2, 2 windows, 7 objects: three whole windows and a final partial one pass through a history of two |
| `recovery_members` | Two subscribers, each step of which may be interrupted by a repeated SUBSCRIBE, an UNSUBSCRIBE or a lost connection. Does the publisher keep what the other has not acknowledged, and do its watermarks stay ordered? | 2 peers, one window, one of each kind of churn; NACKs do not change the publisher's state and are left out |
| `recovery_liveness` | Do windows drain, does a full cache empty, does a finished track release everything? | 1 peer, 4 objects, cache of 3 so that it blocks in the middle of a window |
| `recovery_resubscribe` | violation, see section 7 | 1 peer, 3 objects |
| `sent_cache` | Do admission and storing agree under slot and byte pressure, with aliased sources and failed allocations; does what is protected survive; are repair symbols fresh over retries, and does nothing but a retry with a smaller geometry end an object's repair? | 2 tracks, 2 ids, 2 slots, 3 bytes, objects of 1 and 2 bytes: slots and bytes run out independently and one store may reclaim several entries around the wrap; 4 symbols, batches of 2: the namespace is exhausted with a batch cut short and the systematic cursor wraps; 2 or 3 data symbols, so that a retry grows or shrinks an entry |
| `stream_budget` | Are charges exact, budgets kept, preflights honoured, and are the reserves left over by application frames? | 2 connections with 2 streams each, vectors that grow twice (once by more than the reserve of vector slots), the endpoint limit reached by either connection |
| `egress_queues` | Do the rings implement the FIFO, is no batch refused, does a full ring drain? | 2 sockets, 3 slots, batches of 2, sizes 1 and 2: the head wraps, batches are cut by slots and by bytes |
| `receive` | Is the memory count exact and within its limit, does no symbol pass to another subscription, is only a received object dropped as a duplicate, is nothing lost without an event but what an acknowledgement covers? | 2 tracks (one rateless DATA, one reliable), 2 aliases, 2 objects, up to 3 symbols, 2 slots, memory for 5 symbols: slots and memory run out, assemblers grow; two subscriptions per connection, so an alias has a second owner; one completion record, so it is overwritten |
| `endpoint` | Does a service call that lost something return an error, are streams subscribed on exactly the ready peers, does a blocked sender get its event? | a listener with 2 connections, 1 stream to publish and 2 to subscribe, a queue of 2 events and 3 units, records of 1 and 2 units in groups of 2: the queue overflows by count and by bytes, in the middle of a group; 5 events |
| `session` | Is there no protocol error without a fault, is there a session again once faults end, does shutdown drain? | a server with 2 places, delays 1 to 3, 2 faults at any point: both places may be held by stale connections while the client reconnects |
| `interfaces` | Does per-socket state follow its socket, and do the sockets converge to the addresses? | 2 interfaces, 2 addresses, 2 sockets, 2 remote addresses, a pipe of 2 messages, 2 changes at any point: both fall into one listing, between the two dumps, or into different ones, or into the start; 1 dump cut short or listing that fails, the one for the configured socket included |
| `local_socket` | Does the listener keep its name, is each record published once per transport, are frames whole, does a hangup after the last frame was read lose nothing? | 2 daemons and older programs, 2 sockets ever bound, 2 helpers for 1 place, 2 transports, 2 records or frames, an output buffer of 3 units before a kernel buffer of 1, one stall; 3 records or frames also pass (2.9 million states) |

The bounds on objects, finishes, NACKs, churn, faults, changes, time and traffic are
guards named `Max...`; where a behaviour really ends once they are spent, the run
does not check for deadlock. `sent_cache`, `stream_budget`, `egress_queues` and
`endpoint` do.

Symmetry is used for peers, tracks, tags, connections, NACK ids, processes and
helpers, in runs that check safety only.

The definitions named `..._Something` marked as faulty variants are plausible bugs
of the code; `PROJECT.json` says which property refutes each. `TypeOK` of each module
documents its variables; those of `RecoveryCheckpoints`, `SentCache`, `Egress`, `Endpoint`
and `Session` are proved, and the invariants behind the proofs of the other modules
contain the types they need.

Fairness. `RecoveryCheckpoints!FairSpec` assumes that both ends keep ticking
(weak fairness of parsing frames, of retrying ACKs and of freeing connections),
and strong fairness of three things that can be refused again and again: a NACK
for one object is eventually sent (the sweep's cursor rotates over the gaps), it
is eventually admitted (the buckets refill) and an object sent again and again
eventually arrives. It assumes nothing of the application. `Egress!FairSpec`
assumes that every tick flushes every socket, which `transport_tick` does, and
that a kernel asked again and again takes a packet or fails on it.
`Endpoint!Fairness` is the contract of the API: the application takes its events
and calls `qlinq_service` again and again, and a service call runs to its end.
Nothing is assumed of the transport's readiness; `WritableIsReported` is about a
stream that stays ready. `SessionFairness`: both ends are ticked, quicly delivers
what is sent on a live connection and gives up one whose other end is gone; there
is no fairness for anything that counts as a fault. `InterfacesFairness`: both
threads keep running; a listing may fail or be cut short, and the property then waits
for the next complete one.

## 5. Proofs

For every value of the constants under the named assumptions of the modules, and with
any number of peers, objects, tracks, packets and steps. Every safety property that a
run of section 4 passes is among them; TLC found what was false before a proof was
tried. A module has one lemma per action, saying that the action keeps the inductive
invariant; the properties follow from it.

**RecoveryCheckpoints.** `TypeCorrect`: every reachable state is well typed.
`UnackedObjectsRetained` and `WatermarksStayOrdered`: `UnackedIsRetained` is not
inductive, since a repeated SUBSCRIBE moves the peer's watermark to the last checkpoint,
which must not lower it, and a peer whose connection was freed must not become
eligible again with its old watermark; the invariant `Retention` adds
`WatermarksOrdered` and `FreedIsNoMember` for these. `EmittedStaysRemembered`: nothing is
handed out twice in one subscription, whatever the churn; the invariant `Memory`.

`AckedWasDelivered`, `MissingStaysRepairable`, `MissingStaysKnown` and `NoErrorUntilChurn`
hold of every state before which no connection was lost, no track was unsubscribed and
none was subscribed again (`Undisturbed`, a condition on the history counters
`spent`). That is the scope of the run `recovery_windows`, whose constants leave no
churn; with churn they are false (section 7). The four share one invariant, `Promise`,
because neither end keeps its half alone:

- `Sound`: a subscriber's windows are disjoint and shaped by the publisher's window
  size, miss nothing they remember as delivered, and together with what was delivered
  cover everything up to its last checkpoint; no acknowledgement, on its way or
  counted, reaches into a window;
- `Linked` and `Begun`: the frames on the control stream continue, each from the one
  before, from the subscriber's last checkpoint to the publisher's, behind at most one
  baseline;
- `Cached` and `Numbering`: the cache holds everything since each member's
  acknowledgement, is no larger than its capacity, and checkpoints fall on multiples of
  the window until the track is finished.

That a missing object is still within the history is a counting argument
(`HeldIsBounded`): everything from it to the newest object is in the cache, and
`CapacityAssumption`, the clamp in `transport_sent_cache_init`, makes the cache no larger
than the history. `NextBoundary` is the arithmetic of the window ends.

**SentCache.** `OneEntryPerIdentity`, `ProtectedEntriesSurvive`, `RepairSymbolsAreFresh`
from the invariant `Ring` (typing and uniqueness); `SentCacheAccounting` and
`AdmissionIsKept` from `Accounting`, which adds the sums over the entries. `StoreNewEffect`
sums up the reclaim loop (it only empties entries that may be evicted, and writes one
slot it found free). That admission and storing agree compares two searches: what the
loop may still evict never falls below what `can_store` counted on.
`RepairGoesOn` proves `RepairEndsOnlyByShrinking` for every set of geometries: an entry
is repairable when it is stored, repairs with fresh and with systematic symbols keep it
so, and a retry with at least as many data symbols does; the one step that can end it is
a retry with fewer, under a systematic cursor past the last of them (section 7).

**StreamBudget.** `ChargesStayExact`, `RetainedStorageIsBounded` and `PreflightSuffices`
from `Accounts`: the totals are the sums over the streams, and while a broadcast goes
on, the recipients that are left fit together. The last is the argument of the code:
a write uses at most the part of the sum that the preflight reserved for it, and
streams are not shared. `DoubledGrows` and `CompactedShrinks` are about the sizes of the
send vectors.

`ReservesStayLeft` proves `ReservesAreLeft`: once no essential frame is retained the
reserves are whole. That the reserve was there when the last application frame was
admitted is not enough: essential frames may have been written since, here or on another
stream, and have been acknowledged. The invariant `Sheltered` counts only the streams
whose last frame is not essential, and says that together they left the reserves alone.
It is inductive because acknowledgements take frames from the front: the growth an
essential frame caused lasts at most as long as that frame is the last one, or until one
is admitted behind it that respects the reserves. Once no essential frame is retained,
every stream that is not empty counts, and one that is empty has given its vector back.
`SumMonotone` compares the sums. Whether an essential frame fits what is left is another
question, which the code does not answer the same way everywhere (section 7).

**Egress.** `RingsAreExact`, `NoBatchRefused` and `RingsImplementFifo`, the refinement of
`EgressFifo` with the contents of a ring, read from its head, as the abstract queue.
The invariant `Queues` says of each ring which slots are in use; one lemma each says
what pushing, popping and the rollback do to the contents, wrap-around included.
`BatchFits` is what `transport_limits_resolve` ensures.

**Receive.** `AssemblersStayCurrent`, `AssemblerMemoryExact`, `SuppressionIsSound` and the
action property `NoSilentLoss` from `Assembly`. Handlers are interrupted by callbacks, so
it also says what a suspended handler may still rely on when the application used
the callback to unsubscribe or to give its alias to another track
(`IndexIsLive`, `HeldWasTold`, `CompletedWasGot`). `NoSilentLoss` has one exception, which
is the code's: what `retire_recovery_through` gives up (section 7). `ReleaseAllEffect`
sums up its loop.

**Endpoint.** `FailuresAlwaysReported` and `SubscriptionsAlwaysFollow` from `Serving`. A
failure must survive until the call returns, but the call overwrites the status with
AGAIN when it waits with an empty queue. So `Reported` adds that after a loss the queue
is not empty: every handler that fails queues an event that would fit an empty queue
(`FittingFacts`), and only the application takes events out.

**Session** (in `EndpointProofs`). `NoErrorWithoutFaults`. The invariant
`OrderlyUntilFault` says that while nothing failed every connection `Fits`: its two ends
and its two channels belong together. For the client's own connection with an open
end at the server, `Agree` is exact: each end's flags trail the other's (`s.sent => c.sent`,
`c.rcvd => s.sent`, ...), and each channel holds precisely what one end said and the other
has not taken (`Unheard`, `Unseen`). That is not inductive by itself, because timeouts
and closes are no faults when the other end is gone. So `Expected` covers
connections the client has forgotten, whose last frames the server still reads, and
`ExpectedBack` a client whose server has left; and an identity the server does not know
has empty channels unless its client has spoken, which is what a later accept or
reconnect starts from (`AcceptOrderly`, `AttemptOrderly`; there is a free identity because
the table is never full beyond `MaxConnections`). One lemma per frame says what taking it
does to one connection; `ClientMoves` and `ServerMoves` put the connection back into the
table. `SessionTypesHold` and `AcceptedWithinLimit` hold with faults too: their invariant,
`SessionTyped`, has one part for each group of variables that the same steps write.

**Interfaces** (in `EgressProofs`). `SlotsAlwaysFollow`. The invariant `Measured` adds to
`SlotsFollowSockets` that the sockets are a sequence no longer than the slots; the
slots behind the last socket being unmeasured is part of the property and what a new
socket relies on. `ClosingKeeps` computes both arrays after the gap is closed.

**LocalSocket.** `ListenersKeepTheirName`. What the name refers to says nothing of what a
process saw there some calls ago, so the invariant `NameOwned` adds that only the
holder of the lock is in create or destroy, that the socket it found is still the one
under the name and nobody's once the probe was refused, and that the one it bound stays
there and is what it will recognise. `Held` takes in older programs that will listen, but
for those a probe took for stale. One lemma per system call; `DataKeepsName` shows
that nothing else touches the name.

`RecordsPublishedOnce`, `FramesStayWhole` and `HangupIsHarmless` are about the data. Their
invariant is `DataOwned`, in two parts because the loop relies on what it saw of the
clients some steps ago:

- `ClientsOK` ties the three places a helper's bytes can be in. A connection has one
  holder (`OneHolder`); of one that nobody holds nothing was read (`UnheldUntouched`).
  For a held one there is a number of finished records from which follow how far into
  the helper's stream the client has read (`Place`), what the kernel must still hold
  (`Follows`), and how long each transport's list is, one more where the waiting record
  was already taken (`Taken`). `EachRecordOnce` speaks of published records only, but an
  identifier is drawn before the record is published anywhere, so `Numbered` covers
  the waiting ones too. `KeepsFrames` is the other direction: what the helper has, the
  kernel and the rest of the output buffer make up the frames accepted for it.
- `LoopOK` says what the poll results are still worth while other clients are served:
  output is asked for only where some waits (`AskedOK`), a hangup is never
  reported alone and an error only of a helper that left frames unread (`DueOK`): input
  or a write comes first, and a read of the end of the stream finds every record
  published. Without it a hangup alone could close a client with records unread, and
  `HangupLosesNothing` is not inductive.

`FlattenFrames` says that the concatenation `WholeFrames` uses is the sequence of two
units per frame that the proofs use, `PartsJoin` and `MovesOn` how a read or a write
moves the cut between two places.

**FiniteSetLemmas** has what these share: sums over finite sets under the changes the
models make (one term replaced, a set split, indices renumbered), sizes of sequences,
and folds. The library's induction theorems take an operator as a parameter, so induction
is done with least elements: a set of naturals that is not empty has a least one
(`MinOfNaturals`), hence a property that passes from the subsets of a finite set to
the set itself holds (`SubsetInduction`), hence the recursive functions behind sums and
folds exist (`TableExists`, `FoldExists`).

Assumptions: sizes, windows and limits are natural numbers, positive where the code
divides by them or takes them as a size; `CapacityAssumption` and `BatchFits` are
enforced by the code as said. TLC evaluates the assumptions of a module in every run
of it.

Only model-checked: the eight liveness properties (`WindowsDrain`, `BackpressureClears`,
`FinishedTrackReleases`, `QueueDrains`, `WritableIsReported`, `SessionRecovers`,
`ShutdownDrains`, `PathsConverge`), which need fairness.

## 6. What the passing runs and the proofs say together

Without churn the recovery protocol does what its documentation promises: nothing
missing becomes unrepairable or forgotten, ACKs mean delivery, and no end accuses the
other, for any number of peers and any sizes; and everything drains on the
instances TLC checks. With churn the publisher's side of the promise still holds for any number
of peers, in the precise sense of `UnackedIsRetained`: relative to the watermarks
the publisher recorded. The violations below are about what those watermarks
mean to the subscriber after churn.

Around it, whatever the sizes, the cache stores what it admitted, the storage of streams
stays within its limits, the egress rings are queues, and the receiving side keeps data
apart by generation whatever the application does in a callback; the API may lose events but never without a status;
a client and a server never accuse each other while nothing fails, and get back to a
session once faults end; what is measured for a path stays with it; and for any number
of helpers, records and transports, and any buffers, the local socket neither repeats nor
tears what passes through it, nor does a hangup cut off the records of a helper that has
taken every frame it was sent.

## 7. Findings and observations

Checked as a violation:

- `recovery_resubscribe`: a SUBSCRIBE for a track already held resets the peer's
  watermark to the last checkpoint, and the baseline it causes is acknowledged
  without regard to open windows. Objects one of those windows misses are then
  released.

Seen with other constants of the same modules, and left out of the runs:

- A subscriber reconnects (`MaxReconnects = 1`, 6 objects, `MissingIsNotForgotten`):
  the last subscriber's loss releases the whole cache. If it returns before the next
  checkpoint, its first window names objects nobody holds, never completes, and
  does not hold back publication: the receiver's history passes the missing objects,
  which then count as delivered. `docs/transport-architecture.md` says that an
  unresolved recovery prefix backpressures publication.
- A subscriber unsubscribes (`MaxUnsubscribes = 1`, 3 objects, `NoProtocolError`): a
  checkpoint or track end in flight names an alias it has forgotten, and closes the
  whole connection as a protocol error.
Met while modelling; the properties are stated so that they hold in spite of them, and
say where:

- Sent cache: `docs/wire-protocol.md:87-91` says that once the namespace of symbols "is
  exhausted, it cycles retained systematic symbols so recovery remains possible". A
  retry computes the symbol size anew (`transport_publish.c:916-923`) and stores fewer data
  symbols when it grew, while the systematic cursor stays (`transport_fec_state.c:147`).
  If that is beyond the last of them, every repair of the object is refused
  (`transport_repair.c`, the two builds). `RepairEndsOnlyByShrinking` says that nothing else does
  that.
- Stream budget: `docs/transport-architecture.md:141-144` says that application data
  and NACKs leave "2 MiB and 256 vector slots across the transport, for essential
  control", and `ReservesAreLeft` confirms it. The reserves may be there and an essential
  frame not fit: where application frames filled a vector of 512 entries, the next frame
  doubles it by more than 256, and the connection is closed. The instance of
  `stream_budget` contains such a state. The same paragraph limits retained frames to
  256 per stream, where `transport_stream.h` derives their number from the bytes.
- Assembly: `retire_recovery_through` (`transport_protocol.c:229-236`) releases what is
  collected of the objects an acknowledgement covers without an OBJECT_LOST. An
  acknowledged window was delivered, so most of this is symbols repeated for objects
  already handed out; but partly received objects that no window asked for, such as
  those before the baseline, go that way too. `NothingLostSilently` exempts exactly these releases.
- Interfaces, at the start: what changes between the first list (`ifmon.c:725`) and the
  opening of the event socket (`ifmon.c:734`) is noticed at the next event, whenever that
  is (`behind`); addresses the first list has besides the configured one get no socket
  until they change (`ignored`, `transport_quicly.c:538-541`).
- Interfaces, later: a dump that fails on the way is returned as a success
  (`ifmon.c:258-269`, `334-345`), so the sockets of the addresses it lacks are closed. They
  come back with the next complete listing, but nothing asks for one (`behind`); the same
  holds for a listing that fails. The removal of an interface closes the first socket on it
  only (`orphaned`); an address that moves between interfaces, or changes its prefix,
  between two listings may be added, and ignored as bound, before it is removed, so
  that it ends without a socket (`swapped`); a message that does not fit the pipe and an
  address without a free place are not tried again (`lost`, `unopened`).
- Endpoint: after a reliable record is rejected and its connection closed, records
  that came with it may still be queued before DISCONNECTED. An allocation that
  fails with an empty queue followed by an interrupted poll returns AGAIN, not the
  error.
- Local socket: a helper that writes records and hangs up loses those not yet read in
  three cases, all of them about frames for it: it left some unread, so that poll reports
  an error and `data_uds_tick` closes it first (`data_uds.c:551`); some were waiting to be
  written, which fails (`data_uds.c:552-554`); or one is sent to it afterwards, which fails
  too (`data_uds.c:358-360`). `HangupLosesNothing` is about every other helper.
- Local socket, the rest: a record that waits is offered again only when all transports
  are ready at once; packets of a data track without a helper of its own go to any data
  helper; records of two helpers on one track can be published out of the order of their
  identifiers. A program from before the lock file that is between its bind and its
  listen when it is probed loses its name (`missed`); the comment at `data_uds.c:241`
  promises to protect a live listener, which it is not yet.

## 8. Not modelled

FEC arithmetic, wire encoding of single frames, TLS, option parsing and device
I/O: single calls without state that interleaves, covered by unit tests. Path
estimates, path choice and packet placement: fixed-point arithmetic over measured
time. The token buckets of `transport_repair.c`: admission is a choice in the models.
Reliable track streams beyond their storage. Parsing of netlink messages, and the
interface monitors of systems other than Linux. Configuration, statistics and
credentials of the API, and contexts with several endpoints, which share only the
event queue. The command line application with its reorder buffer, and the tunnel
hosts. NACKs for single symbols of a partly received object: they add symbols, which
`Receive` takes from its environment in any order anyway. Peers without the
checkpoint capability, for which the publisher never releases by acknowledgement,
and objects of non-rateless tracks take no part in recovery.
