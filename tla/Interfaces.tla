------------------------------ MODULE Interfaces ------------------------------
(***************************************************************************)
(* Local paths follow the network interfaces: the watcher thread of ifmon  *)
(* lists the interfaces whenever the kernel reports a change, compares     *)
(* with its last list and writes one message per address to a pipe; the    *)
(* transport's thread reads the pipe in transport_tick, opens and closes   *)
(* sockets, and keeps the arrays that sockets index.                       *)
(*                                                                         *)
(* The kernel, the watcher and the transport interleave freely.  The pipe  *)
(* is bounded and written without blocking.  A dump that is cut short is   *)
(* taken for the truth.  The first list is taken before the event socket   *)
(* exists, and nobody hears of it.                                         *)
(*                                                                         *)
(* Abstractions.  An address is where it is (an interface, or 0); a change *)
(* of its prefix length is compared like a move.  One address family.      *)
(* Hardware addresses are left out: their change carries no message.       *)
(***************************************************************************)
EXTENDS Integers, Sequences, FiniteSets, FiniteSetsExt, SequencesExt

CONSTANTS
    Ifaces,        \* interface indices, from 1
    Addrs,         \* addresses, numbers
    Allowed,       \* path_interface_names
    IsServer,
    Remotes,       \* num_remote_addrs of a client
    MaxPaths,      \* TRANSPORT_MAX_PATHS
    PipeCapacity,  \* messages the pipe holds
    FirstAddr, FirstIface,  \* the configured socket and where it is
    MaxChanges,    \* bound on the kernel's changes
    MaxCuts        \* bound on the dumps cut short and listings that fail

ASSUME InterfacesAssumption ==
    /\ Ifaces \subseteq Nat \ {0} /\ Addrs \subseteq Nat /\ Allowed \subseteq Ifaces
    /\ IsServer \in BOOLEAN /\ Remotes \in Nat \ {0}
    /\ MaxPaths \in Nat \ {0} /\ PipeCapacity \in Nat \ {0}
    /\ FirstAddr \in Addrs /\ FirstIface \in Ifaces
    /\ MaxChanges \in Nat /\ MaxCuts \in Nat

VARIABLES
    up,        \* interfaces with IFF_UP: those a list holds
    running,   \* ... whose link is up
    loc,       \* the interface of each address, 0 for none
    changes,
    event,     \* the event socket is readable
    watcher,   \* "start", "startAddrs", "listen" while the transport is created,
               \* then "poll", "links", "addrs" or "write"; "none" if it failed
    prev,      \* prev_list
    curr,      \* curr_list while it is read
    cuts,      \* dumps cut short and listings that failed
    unsent,    \* messages of the update not yet written
    pipe,
    socks,     \* fds and the arrays beside them, 1 .. num_fds
    slots,     \* a connection's per-socket state: the address it was measured for
    \* history
    lost,      \* a message was lost, or nobody watches
    behind,    \* the last listing was cut short or failed, or the kernel changed
               \* before the event socket existed; cleared by a complete one
    ignored,   \* addresses the first list has otherwise than the sockets
    unopened,  \* addresses no socket could be opened for
    swapped,   \* addresses that one update added before it removed them
    orphaned   \* addresses on a removed interface whose socket was left

interfacesVars == <<up, running, loc, changes, event, watcher, prev, curr,
                    cuts, unsent, pipe, socks, slots, lost, behind, ignored,
                    unopened, swapped, orphaned>>

kernel == <<up, running, loc, changes>>
history == <<lost, behind, ignored, unopened, swapped, orphaned>>

Bound == {socks[k].addr : k \in DOMAIN socks}
List == [links: SUBSET Ifaces, live: SUBSET Ifaces, at: [Addrs -> Ifaces \cup {0}]]
Unmeasured == -1

InterfacesTypeOK ==
    /\ up \subseteq Ifaces /\ running \subseteq Ifaces
    /\ loc \in [Addrs -> Ifaces \cup {0}]
    /\ event \in BOOLEAN
    /\ watcher \in {"start", "startAddrs", "listen",
                     "poll", "links", "addrs", "write", "none"}
    /\ prev \in List /\ curr \in List
    /\ Len(pipe) <= PipeCapacity /\ Len(socks) <= MaxPaths
    /\ slots \in [1..MaxPaths -> Addrs \cup {Unmeasured}]

\* A list of what the kernel has; only listed interfaces carry addresses.
Snapshot(links, live, at) ==
    [links |-> links, live |-> live \cap links,
     at |-> [a \in Addrs |-> IF at[a] \in links THEN at[a] ELSE 0]]

Created == watcher \notin {"start", "startAddrs", "listen"}

\* transport_create up to ifmon_watch_start: the configured socket has its
\* interface, or none when the listing for it failed.
InterfacesInit ==
    /\ up = Ifaces /\ running = Ifaces /\ changes = 0
    /\ loc \in [Addrs -> Ifaces \cup {0}] /\ loc[FirstAddr] = FirstIface
    /\ event = FALSE /\ watcher = "start"
    /\ prev = Snapshot({}, {}, [a \in Addrs |-> 0]) /\ curr = prev
    /\ unsent = <<>> /\ pipe = <<>>
    /\ \E failed \in BOOLEAN :
          /\ failed => MaxCuts > 0
          /\ cuts = IF failed THEN 1 ELSE 0
          /\ socks = <<[addr |-> FirstAddr,
                        iface |-> IF failed THEN 0 ELSE FirstIface,
                        remote |-> 1, pending |-> FALSE]>>
    /\ slots = [k \in 1..MaxPaths |-> Unmeasured]
    /\ lost = FALSE /\ behind = FALSE
    /\ ignored = {} /\ unopened = {} /\ swapped = {} /\ orphaned = {}

-----------------------------------------------------------------------------
(* The kernel *)

Change ==
    /\ changes < MaxChanges /\ changes' = changes + 1
    /\ event' = Created
    /\ behind' = (behind \/ watcher \in {"startAddrs", "listen"})
    /\ UNCHANGED <<watcher, prev, curr, cuts, unsent, pipe, socks, slots, lost, ignored,
                   unopened, swapped, orphaned>>

ChangeUp(i) ==
    /\ Change
    /\ up' = IF i \in up THEN up \ {i} ELSE up \cup {i}
    /\ UNCHANGED <<running, loc>>

ChangeLink(i) ==
    /\ Change
    /\ running' = IF i \in running THEN running \ {i} ELSE running \cup {i}
    /\ UNCHANGED <<up, loc>>

ChangeAddr(a, i) ==
    /\ Change /\ loc[a] # i
    /\ loc' = [loc EXCEPT ![a] = i]
    /\ UNCHANGED <<up, running>>

-----------------------------------------------------------------------------
(* The watcher thread *)

AddMsg(a, i) == [op |-> "add", addr |-> a, iface |-> i]
DelMsg(a, i) == [op |-> "del", addr |-> a, iface |-> i]
DelIfMsg(i) == [op |-> "delif", iface |-> i]

InOrder(S) == SetToSortSeq(S, <)
Each(S, msgs(_)) == FlattenSeq([k \in DOMAIN InOrder(S) |-> msgs(InOrder(S)[k])])
On(list, i) == {a \in Addrs : list.at[a] = i}

\* generate_update and on_ifmon_update: new interfaces with their addresses,
\* interfaces that are gone, then for each that stays its link change and the
\* addresses that came and went.
Update(old, new) ==
    LET both == old.links \cap new.links
        Came(i) == Each(On(new, i) \ On(old, i), LAMBDA a : <<AddMsg(a, i)>>)
        Went(i) == Each(On(old, i) \ On(new, i), LAMBDA a : <<DelMsg(a, i)>>)
        Link(i) == IF (i \in old.live) = (i \in new.live) THEN <<>>
                   ELSE Each(On(new, i), LAMBDA a :
                          <<IF i \in new.live THEN AddMsg(a, i)
                                              ELSE DelMsg(a, i)>>)
    IN  Each(new.links \ old.links, LAMBDA i :
               Each(On(new, i), LAMBDA a : <<AddMsg(a, i)>>))
        \o Each(old.links \ new.links, LAMBDA i : <<DelIfMsg(i)>>)
        \o Each(both, LAMBDA i : Link(i) \o Came(i) \o Went(i))

\* The two dumps of a listing; each may be cut short, by a failing recv or an
\* error message, and is then used as it is.
Cut(short) ==
    /\ short => cuts < MaxCuts
    /\ cuts' = IF short THEN cuts + 1 ELSE cuts

ListLinks ==
    \E links \in SUBSET up :
       /\ curr' = Snapshot(links, running, [a \in Addrs |-> 0])
       /\ behind' = (links # up)
       /\ Cut(links # up)

ListAddrs ==
    \E seen \in SUBSET Addrs :
       /\ curr' = Snapshot(curr.links, curr.live,
                           [a \in Addrs |-> IF a \in seen THEN loc[a] ELSE 0])
       /\ behind' = (behind \/ seen # Addrs)
       /\ Cut(seen # Addrs)

\* ifmon_watch_start lists (a listing that fails leaves an empty list) ...
StartLinks ==
    /\ watcher = "start" /\ watcher' = "startAddrs"
    /\ ListLinks
    /\ UNCHANGED <<kernel, event, prev, unsent, pipe, socks, slots, lost, ignored,
                   unopened, swapped, orphaned>>

\* ... tells the transport, which ignores it ...
StartAddrs ==
    /\ watcher = "startAddrs" /\ watcher' = "listen"
    /\ ListAddrs
    /\ prev' = curr'
    /\ ignored' = {a \in Addrs : curr'.at[a] # 0 /\ a \notin Bound}
                  \cup {socks[k].addr : k \in {l \in DOMAIN socks :
                          curr'.at[socks[l].addr] \notin {socks[l].iface} \ {0}}}
    /\ UNCHANGED <<kernel, event, unsent, pipe, socks, slots, lost, unopened,
                   swapped, orphaned>>

\* ... and only then opens the event socket and starts the thread.
Listen(ok) ==
    /\ watcher = "listen"
    /\ watcher' = IF ok THEN "poll" ELSE "none"
    /\ lost' = ~ok
    /\ UNCHANGED <<kernel, event, prev, curr, cuts, unsent, pipe, socks, slots, behind,
                   ignored, unopened, swapped, orphaned>>

\* Drain the event socket, then list: a change after the drain is a new event.
Drain ==
    /\ watcher = "poll" /\ event
    /\ event' = FALSE /\ watcher' = "links"
    /\ UNCHANGED <<kernel, prev, curr, cuts, unsent, pipe, socks, slots, history>>

DumpLinks ==
    /\ watcher = "links" /\ watcher' = "addrs"
    /\ ListLinks
    /\ UNCHANGED <<kernel, event, prev, unsent, pipe, socks, slots, lost, ignored,
                   unopened, swapped, orphaned>>

\* Addresses that an update adds in front of their removal: they moved to an
\* interface that comes first.
Swapped(msgs) ==
    {a \in Addrs : \E k, l \in DOMAIN msgs :
       /\ k < l /\ msgs[k].op = "add" /\ msgs[k].addr = a
       /\ \/ msgs[l].op = "del" /\ msgs[l].addr = a
          \/ msgs[l].op = "delif" /\ msgs[l].iface = prev.at[a]}

\* Addresses with a message of their own
Reported(msgs) ==
    {a \in Addrs : \E k \in DOMAIN msgs : msgs[k].op # "delif" /\ msgs[k].addr = a}

\* The comparison of the list with the one before
Compare ==
    /\ ListAddrs
    /\ unsent' = Update(prev, curr') /\ prev' = curr'
    /\ swapped' = swapped \cup Swapped(unsent')
    /\ ignored' = ignored \ (Reported(unsent') \ {FirstAddr})
    /\ UNCHANGED <<kernel, pipe, socks, slots, lost, unopened, orphaned>>

\* Faulty variant: what changed while the interfaces were listed is drained.
DumpAddrs_DrainsAfter ==
    /\ watcher = "addrs" /\ watcher' = "write" /\ event' = FALSE
    /\ Compare

\* ... and the comparison
DumpAddrs ==
    /\ watcher = "addrs" /\ watcher' = "write"
    /\ Compare /\ UNCHANGED event

\* A listing that fails is not repeated before the next event.
ListFails ==
    /\ watcher \in {"links", "addrs"} /\ watcher' = "poll"
    /\ behind' = TRUE /\ Cut(TRUE)
    /\ UNCHANGED <<kernel, event, prev, curr, unsent, pipe, socks, slots, lost,
                   ignored, unopened, swapped, orphaned>>

\* A message that does not fit the pipe is dropped.
Write ==
    /\ watcher = "write" /\ unsent # <<>>
    /\ unsent' = Tail(unsent)
    /\ IF Len(pipe) < PipeCapacity
       THEN pipe' = Append(pipe, Head(unsent)) /\ UNCHANGED lost
       ELSE lost' = TRUE /\ UNCHANGED pipe
    /\ UNCHANGED <<kernel, event, watcher, prev, curr, cuts, socks, slots, behind,
                   ignored, unopened, swapped, orphaned>>

Written ==
    /\ watcher = "write" /\ unsent = <<>> /\ watcher' = "poll"
    /\ UNCHANGED <<kernel, event, prev, curr, cuts, unsent, pipe, socks, slots, history>>

-----------------------------------------------------------------------------
(* transport_tick *)

\* select_remote_for_added_local: with several remote addresses each local
\* address has one of its own.
FreeRemotes ==
    IF Remotes = 1 THEN {1}
    ELSE 1..Remotes \ {socks[k].remote : k \in DOMAIN socks}

Reads(op) ==
    /\ pipe # <<>> /\ Head(pipe).op = op
    /\ pipe' = Tail(pipe)
    /\ UNCHANGED <<kernel, event, watcher, prev, curr, cuts, unsent>>

\* An address to add: ignored when it is bound, and given up when there is no
\* place, no socket or no remote address for it.
ReadAdd(opens) ==
    /\ Reads("add")
    /\ LET m == Head(pipe)
           remote == IF IsServer THEN 0 ELSE Min(FreeRemotes)
           fits == Len(socks) < MaxPaths /\ opens /\ (IsServer \/ FreeRemotes # {})
       IN  IF m.iface \notin Allowed \/ (Len(socks) < MaxPaths /\ m.addr \in Bound)
           THEN opens /\ UNCHANGED <<socks, unopened>>
           ELSE IF fits
           THEN /\ socks' = Append(socks, [addr |-> m.addr, iface |-> m.iface,
                                           remote |-> remote,
                                           pending |-> ~IsServer])
                /\ unopened' = unopened \ {m.addr}
           ELSE unopened' = unopened \cup {m.addr} /\ UNCHANGED socks
    /\ UNCHANGED <<slots, lost, behind, ignored, swapped, orphaned>>

\* Faulty variant: the per-socket state of connections stays where it was.
CloseSocket_KeepsSlots(k) ==
    /\ socks' = RemoveAt(socks, k)
    /\ UNCHANGED slots

\* The arrays of the transport and of its connections close the gap.
CloseSocket(k) ==
    /\ socks' = RemoveAt(socks, k)
    /\ slots' = [j \in 1..MaxPaths |->
                   IF j < k \/ j > Len(socks) THEN slots[j]
                   ELSE IF j < Len(socks) THEN slots[j + 1] ELSE Unmeasured]

\* An address or an interface is gone.  The first socket that matches is
\* closed, and only that one.
ReadRemove(op) ==
    /\ Reads(op)
    /\ LET m == Head(pipe)
           match == {k \in DOMAIN socks : IF op = "delif"
                                          THEN socks[k].iface = m.iface
                                          ELSE socks[k].addr = m.addr}
       IN  /\ IF match = {} THEN UNCHANGED <<socks, slots>>
                            ELSE CloseSocket(Min(match))
           /\ orphaned' = IF match = {} THEN orphaned
                          ELSE orphaned \cup {socks[k].addr :
                                               k \in match \ {Min(match)}}
    /\ UNCHANGED <<lost, behind, ignored, unopened, swapped>>

\* try_open_pending_paths; without a path identifier it is tried again later.
OpenPath(k) ==
    /\ Created /\ k \in DOMAIN socks /\ socks[k].pending
    /\ socks' = [socks EXCEPT ![k].pending = FALSE]
    /\ UNCHANGED <<kernel, event, watcher, prev, curr, cuts, unsent, pipe, slots, history>>

\* Measurements and telemetry of the socket's path
Measure(k) ==
    /\ Created /\ k \in DOMAIN socks
    /\ slots' = [slots EXCEPT ![k] = socks[k].addr]
    /\ UNCHANGED <<kernel, event, watcher, prev, curr, cuts, unsent, pipe, socks, history>>

InterfacesNext ==
    \/ \E i \in Ifaces : ChangeUp(i) \/ ChangeLink(i)
    \/ \E a \in Addrs, i \in Ifaces \cup {0} : ChangeAddr(a, i)
    \/ StartLinks \/ StartAddrs \/ \E ok \in BOOLEAN : Listen(ok)
    \/ Drain \/ DumpLinks \/ DumpAddrs \/ ListFails \/ Write \/ Written
    \/ \E opens \in BOOLEAN : ReadAdd(opens)
    \/ ReadRemove("del") \/ ReadRemove("delif")
    \/ \E k \in 1..MaxPaths : OpenPath(k) \/ Measure(k)

\* Both threads keep running.
InterfacesFairness ==
    /\ WF_interfacesVars(StartLinks) /\ WF_interfacesVars(StartAddrs)
    /\ WF_interfacesVars(\E ok \in BOOLEAN : Listen(ok))
    /\ WF_interfacesVars(Drain) /\ WF_interfacesVars(DumpLinks)
    /\ WF_interfacesVars(DumpAddrs)
    /\ WF_interfacesVars(Write) /\ WF_interfacesVars(Written)
    /\ WF_interfacesVars(ReadAdd(TRUE) \/ ReadRemove("del") \/ ReadRemove("delif"))

InterfacesSpec == InterfacesInit /\ [][InterfacesNext]_interfacesVars /\ InterfacesFairness

-----------------------------------------------------------------------------
(* Properties *)

\* What a connection measured for a socket stays with that socket while others
\* come and go, and a new socket starts without measurements.
SlotsFollowSockets ==
    \A k \in 1..MaxPaths : slots[k] # Unmeasured =>
        k <= Len(socks) /\ slots[k] = socks[k].addr

Wanted(a) == loc[a] \in up \cap running \cap Allowed

\* When the interfaces stay as they are, no message was lost and the last
\* listing was a complete one that an event asked for, every usable address gets
\* its socket and every socket has its address: a list that was cut short, or a
\* change the start missed, is made good by the next complete one.  Excepted are
\* addresses a socket could not be opened for, addresses that moved (or changed
\* their prefix) between two listings, sockets left behind by the removal of an
\* interface with several, and what the first list had otherwise than the
\* configured sockets, as long as no message names it.
PathsConverge ==
    <>[](lost \/ behind \/ \A a \in Addrs \ ignored :
            /\ Wanted(a) => a \in Bound \cup unopened \cup swapped
            /\ a \in Bound => loc[a] # 0 \/ a \in orphaned)
=============================================================================
