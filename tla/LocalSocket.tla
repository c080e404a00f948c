------------------------------ MODULE LocalSocket ------------------------------
(***************************************************************************)
(* The local data socket of the daemon: helper programs connect, register  *)
(* a track and write records, which the daemon publishes on each of its    *)
(* transports; objects that arrive go back to the helper of their track.   *)
(*                                                                         *)
(* The daemon is one thread: data_uds_tick retries the records that wait,  *)
(* polls, accepts and serves, then the transports run.  Helpers write,     *)
(* read and hang up at any moment between its system calls.                *)
(*                                                                         *)
(* Abstractions.  A registration is two units (three bytes, the name), a   *)
(* record or a frame two (header, payload); reads and writes move units,   *)
(* so that all of them can be partial.  A transport is ready or busy.      *)
(***************************************************************************)
EXTENDS SocketName, SequencesExt, FiniteSetsExt

CONSTANTS
    Conns,          \* connections of helpers
    NoConn,         \* not a connection
    Tracks,         \* what they register
    NoTrack,        \* not a track
    DataTracks,     \* tracks of type MOQ_TRACK_DATA
    MaxClients,     \* MAX_UDS_CLIENTS
    NumTransports,  \* num_transports
    OutputLimit,    \* UDS_MAX_QUEUED_BYTES, in units
    KernelRoom,     \* units the kernel holds for a helper
    MaxIterations,  \* frames read in one call of process_client_input
    MaxTraffic,     \* bound on records written and frames sent, together
    MaxBusy         \* bound on how often a transport becomes busy

ASSUME LocalSocketAssumption ==
    /\ NoConn \notin Conns /\ NoTrack \notin Tracks
    /\ DataTracks \subseteq Tracks /\ OutputLimit >= 2
    /\ {MaxClients, NumTransports, KernelRoom, MaxIterations} \subseteq Nat \ {0}

VARIABLES
    conn,       \* helpers: phase, wire (written, unread), hup, kernel, got
    slot,       \* clients[]
    pc,         \* where the daemon's loop is
    want,       \* events asked of poll, per slot
    revents,    \* what poll returned
    accepting,  \* the listener was readable
    nextId,     \* next_record_id
    busy,       \* transports for which a track is not ready
    \* bounds and history
    records, frames, stalls,
    published,  \* per connection and transport, the records published
    sentTo,     \* per connection, the frames queued for it
    cutOff      \* a stream ended with records that were not published

dataVars == <<conn, slot, pc, want, revents, accepting, nextId, busy, records,
              frames, stalls, published, sentTo, cutOff>>
vars == <<nameVars, dataVars>>

Slots == 1..MaxClients
Transports == 1..NumTransports

Unit(kind, n) == [kind |-> kind, n |-> n]
FrameUnits(n) == <<Unit("header", n), Unit("payload", n)>>

\* sent counts the records written whole, half is the one begun
FreshConn == [phase |-> "none", track |-> NoTrack, wire |-> <<>>, sent |-> 0,
              half |-> 0, hup |-> FALSE, kernel |-> <<>>, got |-> <<>>]
FreeSlot == [conn |-> NoConn, have |-> 0, registered |-> FALSE, rec |-> 0,
             pending |-> FALSE, id |-> 0, progress |-> {},
             output |-> <<>>, offset |-> 0]

\* Where the loop is: at a slot, and in process_client_input on whose behalf
Idle == [at |-> "transports", slot |-> 0, back |-> "none", frames |-> 0]

DataInit ==
    /\ conn = [k \in Conns |-> FreshConn]
    /\ slot = [s \in Slots |-> FreeSlot]
    /\ pc = Idle
    /\ want = [s \in Slots |-> {}] /\ revents = [s \in Slots |-> {}]
    /\ accepting = FALSE /\ nextId = 1 /\ busy = {}
    /\ records = 0 /\ frames = 0 /\ stalls = 0
    /\ published = [k \in Conns |-> [t \in Transports |-> <<>>]]
    /\ sentTo = [k \in Conns |-> <<>>] /\ cutOff = FALSE

Init == NameInit /\ DataInit

Traffic == records + frames < MaxTraffic
Active(s) == slot[s].conn # NoConn
Track(s) == conn[slot[s].conn].track
Serving == \E p \in Procs : stage[p] = "serving"

-----------------------------------------------------------------------------
(* The helpers *)

rest == <<nameVars, slot, pc, want, revents, accepting, nextId, busy, frames,
          stalls, published, sentTo, cutOff>>

\* A unit with n = 0 is one the daemon refuses: a registration with unknown
\* type or flags, a header with a size of zero or above the limit.
Connect(k, track, valid) ==
    /\ conn[k].phase = "none" /\ path \in listening /\ Serving
    /\ conn' = [conn EXCEPT ![k].phase = "backlog", ![k].track = track,
                            ![k].wire = <<Unit("type", valid), Unit("name", 1)>>]
    /\ UNCHANGED <<rest, records>>

Connected(k) == conn[k].phase \in {"backlog", "held"} /\ ~conn[k].hup

WriteHeader(k, valid) ==
    /\ Connected(k) /\ conn[k].half = 0 /\ Traffic
    /\ records' = records + 1
    /\ conn' = [conn EXCEPT ![k].half = conn[k].sent + 1,
                  ![k].wire = Append(@, Unit("header", valid * (conn[k].sent + 1)))]
    /\ UNCHANGED rest

WritePayload(k) ==
    /\ Connected(k) /\ conn[k].half # 0
    /\ conn' = [conn EXCEPT ![k].half = 0, ![k].sent = @ + 1,
                  ![k].wire = Append(@, Unit("payload", conn[k].half))]
    /\ UNCHANGED <<rest, records>>

HelperReads(k) ==
    /\ conn[k].kernel # <<>> /\ ~conn[k].hup
    /\ conn' = [conn EXCEPT ![k].got = @ \o conn[k].kernel, ![k].kernel = <<>>]
    /\ UNCHANGED <<rest, records>>

HangUp(k) ==
    /\ Connected(k)
    /\ conn' = [conn EXCEPT ![k].hup = TRUE]
    /\ UNCHANGED <<rest, records>>

-----------------------------------------------------------------------------
(* Clients *)

Settled(k, r) == \A t \in Transports : r <= Len(published[k][t])

\* The connection is closed, by the daemon or with it; its helper may connect
\* again.
Disconnected(K) ==
    /\ conn' = [k \in Conns |-> IF k \in K THEN FreshConn ELSE conn[k]]
    /\ sentTo' = [k \in Conns |-> IF k \in K THEN <<>> ELSE sentTo[k]]
    /\ published' = [k \in Conns |-> IF k \in K THEN [t \in Transports |-> <<>>]
                                     ELSE published[k]]

\* The helper has read every frame that was sent to it.
TookAll(s) ==
    conn[slot[s].conn].kernel = <<>> /\ slot[s].offset = Len(slot[s].output)

\* Everything of the client is freed; what its helper wrote and was not read
\* is lost with the connection.
close_client(s, why) ==
    LET k == slot[s].conn
    IN  /\ slot' = [slot EXCEPT ![s] = FreeSlot]
        /\ Disconnected({k})
        /\ cutOff' = (cutOff \/ /\ why = "hangup" /\ TookAll(s)
                                /\ ~Settled(k, conn[k].sent))

\* As much as the kernel takes; nothing that remains keeps an offset.
FlushCount(c, k) == Min({Len(c.output) - c.offset, KernelRoom - Len(conn[k].kernel)})

flush_client_output(s, c) ==
    LET k == c.conn
        n == FlushCount(c, k)
        done == c.offset + n = Len(c.output)
    IN  /\ conn' = [conn EXCEPT ![k].kernel =
                      @ \o SubSeq(c.output, c.offset + 1, c.offset + n)]
        /\ slot' = [slot EXCEPT ![s] =
                      [c EXCEPT !.output = IF done THEN <<>> ELSE c.output,
                                !.offset = IF done THEN 0 ELSE c.offset + n]]

\* A helper that hung up makes the write fail.
CanWrite(c) == c.offset = Len(c.output) \/ ~conn[c.conn].hup

\* Faulty variant: what was written already stays in front.
Queued_KeepsWritten(c, f) ==
    [c EXCEPT !.output = c.output \o FrameUnits(f), !.offset = 0]

\* The unwritten part moves to the front, the frame follows it.
Queued(c, f) ==
    [c EXCEPT !.output = SubSeq(c.output, c.offset + 1, Len(c.output))
                            \o FrameUnits(f),
              !.offset = 0]

\* The helper of the track, or for data tracks any helper of a data track
Targets(track) ==
    LET exact == {s \in Slots : Active(s) /\ slot[s].registered /\ Track(s) = track}
    IN  IF exact # {} \/ track \notin DataTracks THEN exact
        ELSE {s \in Slots : /\ Active(s) /\ slot[s].registered
                            /\ Track(s) \in DataTracks}

\* data_uds_send for a packet of an object: a helper that does not read, or is
\* gone, is closed.
data_uds_send(track) ==
    /\ Serving /\ pc.at = "transports" /\ Traffic
    /\ Targets(track) # {}
    /\ frames' = frames + 1
    /\ LET s == Min(Targets(track))
           c == slot[s]
           k == c.conn
       IN  IF Len(c.output) - c.offset + 2 > OutputLimit
           THEN close_client(s, "overflow")
           ELSE IF conn[k].hup
           THEN close_client(s, "write")
           ELSE /\ sentTo' = [sentTo EXCEPT ![k] = Append(@, frames')]
                /\ flush_client_output(s, Queued(c, frames'))
                /\ UNCHANGED <<published, cutOff>>
    /\ UNCHANGED <<nameVars, pc, want, revents, accepting, nextId, busy, records,
                   stalls>>

-----------------------------------------------------------------------------
(* data_uds_tick *)

NextSlot(at, after, s) ==
    IF s < MaxClients THEN [Idle EXCEPT !.at = at, !.slot = s + 1]
    ELSE [Idle EXCEPT !.at = after]

\* on_is_track_ready: every transport is ready.
Ready == busy = {}

\* What poll is asked for a client
Events(c, ready) ==
    (IF ~c.pending /\ (~c.registered \/ ready) THEN {"in"} ELSE {})
    \cup (IF c.offset < Len(c.output) THEN {"out"} ELSE {})

StartTick ==
    /\ Serving /\ pc.at = "transports"
    /\ pc' = [Idle EXCEPT !.at = "retry", !.slot = 1]
    /\ UNCHANGED <<nameVars, conn, slot, want, revents, accepting, nextId, busy,
                   records, frames, stalls, published, sentTo, cutOff>>

\* A record that waits is offered again before the client is polled.
Retry(s) ==
    /\ pc.at = "retry" /\ pc.slot = s
    /\ IF Active(s) /\ slot[s].pending
       THEN /\ pc' = [pc EXCEPT !.at = "input", !.back = "retry"]
            /\ UNCHANGED want
       ELSE /\ pc' = NextSlot("retry", "poll", s)
            /\ want' = [want EXCEPT ![s] = IF Active(s) THEN Events(slot[s], Ready)
                                           ELSE {}]
    /\ UNCHANGED <<nameVars, conn, slot, revents, accepting, nextId, busy,
                   records, frames, stalls, published, sentTo, cutOff>>

\* A hangup is reported to every client that is polled at all; it is also an
\* error (ECONNRESET) when the helper left what it was sent unread.
Returned(s) ==
    LET k == slot[s].conn
    IN  IF want[s] = {} THEN {} ELSE
        {e \in want[s] : \/ e = "in" /\ (conn[k].wire # <<>> \/ conn[k].hup)
                         \/ e = "out" /\ (\/ Len(conn[k].kernel) < KernelRoom
                                          \/ conn[k].hup)}
        \cup (IF conn[k].hup THEN {"hup"} ELSE {})
        \cup (IF conn[k].hup /\ conn[k].kernel # <<>> THEN {"err"} ELSE {})

Poll ==
    /\ pc.at = "poll"
    /\ revents' = [s \in Slots |-> Returned(s)]
    /\ accepting' = \E k \in Conns : conn[k].phase = "backlog"
    /\ pc' = IF accepting' \/ \E s \in Slots : revents'[s] # {}
             THEN [Idle EXCEPT !.at = "accept"] ELSE Idle
    /\ want' = [s \in Slots |-> {}]
    /\ UNCHANGED <<nameVars, conn, slot, nextId, busy, records, frames,
                   stalls, published, sentTo, cutOff>>

\* accept until there is nobody: into a free slot, or closed at once.
Accept ==
    /\ pc.at = "accept"
    /\ IF accepting /\ \E k \in Conns : conn[k].phase = "backlog"
       THEN \E k \in Conns :
              /\ conn[k].phase = "backlog"
              /\ LET free == {s \in Slots : ~Active(s)}
                 IN  IF free = {}
                     THEN Disconnected({k}) /\ UNCHANGED slot
                     ELSE /\ conn' = [conn EXCEPT ![k].phase = "held"]
                          /\ slot' = [slot EXCEPT ![Min(free)] =
                                        [FreeSlot EXCEPT !.conn = k]]
                          /\ UNCHANGED <<published, sentTo>>
              /\ UNCHANGED <<pc, accepting>>
       ELSE /\ pc' = [Idle EXCEPT !.at = "serve", !.slot = 1]
            /\ accepting' = FALSE
            /\ UNCHANGED <<conn, slot, published, sentTo>>
    /\ UNCHANGED <<nameVars, want, revents, nextId, busy, records,
                   frames, stalls, cutOff>>

\* Faulty variant: a hangup closes the client before its records are read.
HungUp_Unread(s) == "hup" \in revents[s] /\ ~slot[s].pending

\* A hangup counts only when there is nothing to read and no record waits.
HungUp(s) ==
    "hup" \in revents[s] /\ ~slot[s].pending /\ "in" \notin revents[s]

\* What poll returned for a client: an error closes it with whatever it wrote;
\* then output, then input.
Serve(s) ==
    /\ pc.at = "serve" /\ pc.slot = s
    /\ LET flush == "out" \in revents[s]
           ends == NextSlot("serve", "transports", s)
       IN  IF "err" \in revents[s] \/ (flush /\ ~CanWrite(slot[s])) \/ HungUp(s)
           THEN close_client(s, "hangup") /\ pc' = ends
           ELSE /\ pc' = IF "in" \in revents[s]
                         THEN [pc EXCEPT !.at = "input", !.back = "serve"] ELSE ends
                /\ IF flush THEN flush_client_output(s, slot[s])
                            ELSE UNCHANGED <<slot, conn>>
                /\ UNCHANGED <<published, sentTo, cutOff>>
    /\ revents' = [revents EXCEPT ![s] = {}]
    /\ UNCHANGED <<nameVars, want, accepting, nextId, busy, records, frames,
                   stalls>>

-----------------------------------------------------------------------------
(* process_client_input, one read or one record at a time *)

InInput(s) == pc.at = "input" /\ pc.slot = s

\* Back in the tick: a client that was retried is polled next, one that was
\* closed is not.
Returns(s, events) ==
    /\ pc' = IF pc.back = "retry" THEN NextSlot("retry", "poll", s)
                                  ELSE NextSlot("serve", "transports", s)
    /\ want' = IF pc.back = "retry" THEN [want EXCEPT ![s] = events] ELSE want

\* The loop goes on for a bounded number of frames.
Continues(s, c) ==
    IF pc.frames + 1 < MaxIterations
    THEN pc' = [pc EXCEPT !.frames = @ + 1] /\ UNCHANGED want
    ELSE Returns(s, Events(c, Ready))

Fails(s, why) == close_client(s, why) /\ Returns(s, {})

\* Nothing to read: the end of the stream, or later.  A track that is not
\* ready is not read at all.
InputBlocks(s) ==
    /\ InInput(s)
    /\ LET c == slot[s]
           k == c.conn
           stopped == c.registered /\ ~Ready
           dry == c.have < 2 /\ conn[k].wire = <<>>
       IN  \/ /\ stopped \/ (dry /\ ~conn[k].hup)
              /\ Returns(s, Events(c, Ready))
              /\ UNCHANGED <<slot, conn, published, sentTo, cutOff>>
           \/ ~stopped /\ dry /\ conn[k].hup /\ Fails(s, "hangup")
    /\ UNCHANGED <<nameVars, revents, accepting, nextId, busy, records, frames,
                   stalls>>

\* A unit of a registration or of a record
InputReads(s) ==
    /\ InInput(s)
    /\ slot[s].registered => Ready
    /\ slot[s].have < 2
    /\ LET c == slot[s]
           k == c.conn
       IN  /\ conn[k].wire # <<>>
           /\ LET u == Head(conn[k].wire)
                  d == CASE u.kind = "type"    -> [c EXCEPT !.have = 1]
                         [] u.kind = "name"    -> [c EXCEPT !.have = 0,
                                                            !.registered = TRUE]
                         [] u.kind = "header"  -> [c EXCEPT !.have = 1, !.rec = u.n]
                         [] u.kind = "payload" -> [c EXCEPT !.have = 2]
              IN  IF u.n = 0 THEN Fails(s, "invalid")
                  ELSE /\ slot' = [slot EXCEPT ![s] = d]
                       /\ conn' = [conn EXCEPT ![k].wire = Tail(@)]
                       /\ IF c.registered THEN UNCHANGED <<pc, want>>
                          ELSE Continues(s, d)
                       /\ UNCHANGED <<published, sentTo, cutOff>>
    /\ UNCHANGED <<nameVars, revents, accepting, nextId, busy, records, frames,
                   stalls>>

\* Faulty variant: a record that is offered again starts over.
Progressed_Forgotten(c, took, id) ==
    [c EXCEPT !.pending = TRUE, !.id = id, !.progress = {}]

\* What survives until the record is offered again
Progressed(c, took, id) ==
    [c EXCEPT !.pending = TRUE, !.id = id, !.progress = @ \cup took]

\* A whole record is given an identifier once and offered to each transport
\* that has not taken it.  took: those that take it (or have no recipients);
\* failed: the first that fails, 0 for none; the others push back.
Offer(s, took, failed) ==
    /\ InInput(s) /\ slot[s].have = 2 /\ Ready
    /\ LET c == slot[s]
           k == c.conn
           left == Transports \ (IF c.pending THEN c.progress ELSE {})
           id == IF c.pending THEN c.id ELSE nextId
           back == left \ took
           d == [c EXCEPT !.have = 0, !.rec = 0, !.pending = FALSE, !.id = 0,
                          !.progress = {}]
       IN  /\ took \subseteq left
           /\ failed # 0 => failed \in back /\ \A t \in took : t < failed
           /\ nextId' = IF c.pending THEN nextId ELSE nextId + 1
           /\ IF failed # 0
              THEN Fails(s, "failed") /\ UNCHANGED <<busy, stalls>>
              ELSE /\ published' = [published EXCEPT ![k] =
                        [t \in Transports |-> IF t \in took
                           THEN Append(@[t], [rec |-> c.rec, id |-> id])
                           ELSE @[t]]]
                   /\ IF back # {}
                      THEN /\ stalls < MaxBusy /\ stalls' = stalls + 1
                           /\ busy' = busy \cup back
                           /\ slot' = [slot EXCEPT ![s] = Progressed(c, took, id)]
                           /\ Returns(s, Events(slot'[s], FALSE))
                      ELSE /\ slot' = [slot EXCEPT ![s] = d]
                           /\ Continues(s, d)
                           /\ UNCHANGED <<busy, stalls>>
                   /\ UNCHANGED <<conn, sentTo, cutOff>>
    /\ UNCHANGED <<nameVars, revents, accepting, records, frames>>

-----------------------------------------------------------------------------
(* The transports *)

\* Queues fill while the transports run, and drain.
Fill(t) ==
    /\ Serving /\ pc.at = "transports" /\ t \notin busy
    /\ stalls < MaxBusy /\ stalls' = stalls + 1
    /\ busy' = busy \cup {t}
    /\ UNCHANGED <<nameVars, conn, slot, pc, want, revents, accepting, nextId,
                   records, frames, published, sentTo, cutOff>>

DrainTransport(t) ==
    /\ t \in busy /\ busy' = busy \ {t}
    /\ UNCHANGED <<nameVars, conn, slot, pc, want, revents, accepting, nextId,
                   records, frames, stalls, published, sentTo, cutOff>>

-----------------------------------------------------------------------------
(* The process *)

\* Every connection ends with the process.
DataLost ==
    /\ Disconnected(Conns)
    /\ slot' = [s \in Slots |-> FreeSlot] /\ pc' = Idle
    /\ want' = [s \in Slots |-> {}] /\ revents' = [s \in Slots |-> {}]
    /\ accepting' = FALSE /\ nextId' = 1 /\ busy' = {}
    /\ UNCHANGED <<records, frames, stalls, cutOff>>

\* The loop ends between two ticks, after the transports were shut down.
StopDaemon(p) == Stop(p) /\ pc.at = "transports" /\ DataLost

CrashDaemon(p) ==
    /\ Crash(p)
    /\ IF stage[p] = "serving" THEN DataLost ELSE UNCHANGED dataVars

Tick ==
    \/ StartTick \/ Poll \/ Accept
    \/ \E s \in Slots : \/ Retry(s) \/ Serve(s) \/ InputBlocks(s) \/ InputReads(s)
                        \/ \E took \in SUBSET Transports,
                              failed \in {0} \cup Transports :
                                Offer(s, took, failed)

Next ==
    \/ NameSteps /\ UNCHANGED dataVars
    \/ \E p \in Procs : StopDaemon(p) \/ CrashDaemon(p)
    \/ \E k \in Conns, track \in Tracks, valid \in {0, 1} : Connect(k, track, valid)
    \/ \E k \in Conns, valid \in {0, 1} : WriteHeader(k, valid)
    \/ \E k \in Conns : WritePayload(k) \/ HelperReads(k) \/ HangUp(k)
    \/ \E track \in Tracks : data_uds_send(track)
    \/ Tick
    \/ \E t \in Transports : Fill(t) \/ DrainTransport(t)

Spec == Init /\ [][Next]_vars

-----------------------------------------------------------------------------
(* Properties *)

\* However often a record is offered again, every transport publishes the
\* records of a helper in order and each once, under one identifier that no
\* other record has.
EachRecordOnce ==
    \A k, l \in Conns, t, u \in Transports :
        \A i \in DOMAIN published[k][t], j \in DOMAIN published[l][u] :
            /\ published[k][t][i].rec = i
            /\ (published[k][t][i].id = published[l][u][j].id) = (k = l /\ i = j)

\* What a helper reads are whole frames in the order they were queued, however
\* the kernel cuts them: what it has, what the kernel holds and what waits in
\* the output are together the frames accepted for it.
WholeFrames ==
    \A k \in Conns :
        LET all == FlattenSeq([i \in DOMAIN sentTo[k] |-> FrameUnits(sentTo[k][i])])
            out == conn[k].got \o conn[k].kernel
        IN  /\ IsPrefix(out, all)
            /\ \A s \in Slots : slot[s].conn = k =>
                 out \o SubSeq(slot[s].output, slot[s].offset + 1,
                               Len(slot[s].output)) = all

\* A helper that took every frame it was sent may write its records and hang
\* up: when the tick closes its connection for that, every record was published
\* on every transport.  (One that left frames unread, or is sent another, is
\* closed at once with whatever it wrote.)
HangupLosesNothing == ~cutOff
=============================================================================
