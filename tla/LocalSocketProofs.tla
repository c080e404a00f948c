--------------------------- MODULE LocalSocketProofs ---------------------------
(***************************************************************************)
(* The name of the local data socket stays with its listener, and the      *)
(* records and frames of its clients arrive whole, in order and once, for  *)
(* any number of daemons, helpers, clients, transports and socket inodes.  *)
(***************************************************************************)
EXTENDS LocalSocket, FiniteSetLemmas

Early == {"off", "look", "probe", "recheck", "unlink", "bind"}

\* Sockets that somebody listens on or will, but those a probe took for stale
Held == (listening \cup older) \ missed

\* Only the holder of the lock is anywhere in create or destroy.
HolderIsAlone == \A p \in Procs : stage[p] # "off" => lock = p

\* The socket found under the name is still the one under it, and once the
\* probe was refused it is nobody's, or of a program that was probed too early.
FoundIsStale ==
    \A p \in Procs :
        /\ stage[p] \in {"probe", "recheck", "unlink"} => path = seen[p] /\ path # 0
        /\ stage[p] \in {"recheck", "unlink"} => path \notin Held

\* A socket that was bound is the one under the name until its owner leaves,
\* nobody listens on it but a process that serves, and it is what the owner
\* will recognise.
BoundIsOwn ==
    \A p \in Procs :
        /\ stage[p] \in {"identify", "listen", "serving"} =>
               path = bound[p] /\ path # 0
        /\ stage[p] # "serving" => bound[p] \notin listening
        /\ bound[p] \notin older /\ bound[p] \notin missed
        /\ stage[p] \in Early => bound[p] = 0
        /\ identity[p] # 0 => identity[p] = bound[p]
        /\ stage[p] = "remove" => path = identity[p] /\ path # 0

\* Whoever listens, or will, is found under the name.
HeldKeepsName == Held \subseteq {path}

\* What every step on the name preserves
NameOwned ==
    /\ NameTypeOK
    /\ HolderIsAlone
    /\ FoundIsStale
    /\ BoundIsOwn
    /\ HeldKeepsName

-----------------------------------------------------------------------------
(* One lemma per system call on the name *)

\* A start takes the lock only when nobody is in create or destroy.
LEMMA LockOwned ==
    ASSUME NameOwned, NEW p \in Procs, Lock(p)
    PROVE  NameOwned'
<1> USE SocketNameAssumption
<1>1. \A q \in Procs \ {p} : stage[q] = "off"
  BY DEF NameOwned, NameTypeOK, HolderIsAlone, Lock, Goes
<1>2. NameTypeOK'
  BY DEF NameOwned, NameTypeOK, Stages, Lock, Goes
<1>3. HolderIsAlone'
  BY <1>1 DEF NameOwned, NameTypeOK, HolderIsAlone, Lock, Goes
<1>4. FoundIsStale'
  BY <1>1 DEF Held, NameOwned, NameTypeOK, FoundIsStale, Lock, Goes
<1>5. BoundIsOwn'
  BY <1>1 DEF Held, NameOwned, NameTypeOK, FoundIsStale, BoundIsOwn, Early, Lock, Goes
<1>6. HeldKeepsName'
  BY DEF Held, NameOwned, NameTypeOK, FoundIsStale, BoundIsOwn, HeldKeepsName, Lock, Goes
<1>7. QED BY <1>2, <1>3, <1>4, <1>5, <1>6 DEF NameOwned

\* What lstat finds under the name is what the probe is about.
LEMMA LookOwned ==
    ASSUME NameOwned, NEW p \in Procs, Look(p)
    PROVE  NameOwned'
<1> USE SocketNameAssumption
<1>1. \A q \in Procs \ {p} : stage[q] = "off"
  BY DEF NameOwned, NameTypeOK, HolderIsAlone, Look, Goes
<1>2. NameTypeOK'
  BY DEF NameOwned, NameTypeOK, Stages, Look, Goes
<1>3. HolderIsAlone'
  BY <1>1 DEF NameOwned, NameTypeOK, HolderIsAlone, Look, Goes
<1>4. FoundIsStale'
  BY <1>1 DEF Held, NameOwned, NameTypeOK, FoundIsStale, Look, Goes
<1>5. BoundIsOwn'
  BY <1>1 DEF Held, NameOwned, NameTypeOK, FoundIsStale, BoundIsOwn, Early, Look, Goes
<1>6. HeldKeepsName'
  BY DEF Held, NameOwned, NameTypeOK, FoundIsStale, BoundIsOwn, HeldKeepsName, Look, Goes
<1>7. QED BY <1>2, <1>3, <1>4, <1>5, <1>6 DEF NameOwned

\* A refused probe shows a socket nobody listens on.
LEMMA ProbeOwned ==
    ASSUME NameOwned, NEW p \in Procs, Probe(p)
    PROVE  NameOwned'
<1> USE SocketNameAssumption
<1>1. \A q \in Procs \ {p} : stage[q] = "off"
  BY DEF NameOwned, NameTypeOK, HolderIsAlone, Probe, Goes
<1>2. NameTypeOK'
  BY DEF NameOwned, NameTypeOK, Stages, Probe, Goes
<1>3. HolderIsAlone'
  BY <1>1 DEF NameOwned, NameTypeOK, HolderIsAlone, Probe, Goes
<1>4. FoundIsStale'
  BY <1>1 DEF Held, NameOwned, NameTypeOK, FoundIsStale, Probe, Goes
<1>5. BoundIsOwn'
  BY <1>1 DEF Held, NameOwned, NameTypeOK, FoundIsStale, BoundIsOwn, Early, Probe, Goes
<1>6. HeldKeepsName'
  BY DEF Held, NameOwned, NameTypeOK, FoundIsStale, BoundIsOwn, HeldKeepsName, Probe, Goes
<1>7. QED BY <1>2, <1>3, <1>4, <1>5, <1>6 DEF NameOwned

\* The second lstat finds the same socket or gives up.
LEMMA RecheckOwned ==
    ASSUME NameOwned, NEW p \in Procs, Recheck(p)
    PROVE  NameOwned'
<1> USE SocketNameAssumption
<1>1. \A q \in Procs \ {p} : stage[q] = "off"
  BY DEF NameOwned, NameTypeOK, HolderIsAlone, Recheck, Goes
<1>2. NameTypeOK'
  BY DEF NameOwned, NameTypeOK, Stages, Recheck, Goes
<1>3. HolderIsAlone'
  BY <1>1 DEF NameOwned, NameTypeOK, HolderIsAlone, Recheck, Goes
<1>4. FoundIsStale'
  BY <1>1 DEF Held, NameOwned, NameTypeOK, FoundIsStale, Recheck, Goes
<1>5. BoundIsOwn'
  BY <1>1 DEF Held, NameOwned, NameTypeOK, FoundIsStale, BoundIsOwn, Early, Recheck, Goes
<1>6. HeldKeepsName'
  BY DEF Held, NameOwned, NameTypeOK, FoundIsStale, BoundIsOwn, HeldKeepsName, Recheck, Goes
<1>7. QED BY <1>2, <1>3, <1>4, <1>5, <1>6 DEF NameOwned

\* The stale socket is removed, never one somebody listens on.
LEMMA UnlinkOwned ==
    ASSUME NameOwned, NEW p \in Procs, Unlink(p)
    PROVE  NameOwned'
<1> USE SocketNameAssumption
<1>1. \A q \in Procs \ {p} : stage[q] = "off"
  BY DEF NameOwned, NameTypeOK, HolderIsAlone, Unlink, Goes
<1>2. NameTypeOK'
  BY DEF NameOwned, NameTypeOK, Stages, Unlink, Goes
<1>3. HolderIsAlone'
  BY <1>1 DEF NameOwned, NameTypeOK, HolderIsAlone, Unlink, Goes
<1>4. FoundIsStale'
  BY <1>1 DEF Held, NameOwned, NameTypeOK, FoundIsStale, Unlink, Goes
<1>5. BoundIsOwn'
  BY <1>1 DEF Held, NameOwned, NameTypeOK, FoundIsStale, BoundIsOwn, Early, Unlink, Goes
<1>6. HeldKeepsName'
  BY DEF Held, NameOwned, NameTypeOK, FoundIsStale, BoundIsOwn, HeldKeepsName, Unlink, Goes
<1>7. QED BY <1>2, <1>3, <1>4, <1>5, <1>6 DEF NameOwned

\* bind takes a free name, so nobody listens, with a new socket.
LEMMA BindOwned ==
    ASSUME NameOwned, NEW p \in Procs, Bind(p)
    PROVE  NameOwned'
<1> USE SocketNameAssumption
<1>1. \A q \in Procs \ {p} : stage[q] = "off"
  BY DEF NameOwned, NameTypeOK, HolderIsAlone, Bind, Goes
<1>2. NameTypeOK'
  <2>1. CASE path # 0
    BY <2>1 DEF NameOwned, NameTypeOK, Stages, Bind, Goes
  <2>2. CASE path = 0
    <3>1. inodes \in Nat /\ inodes' = inodes + 1 /\ path' = inodes + 1
      BY <2>2 DEF NameOwned, NameTypeOK, Bind
    <3>2. 0..inodes \subseteq 0..inodes' /\ 1..inodes \subseteq 1..inodes'
      BY <3>1
    <3>3. path' \in 0..inodes' /\ inodes' \in 0..MaxInodes /\ inodes + 1 \in 0..inodes'
      BY <2>2, <3>1 DEF Bind
    <3>4. listening' \subseteq 1..inodes' /\ lock' \in Procs \cup {Nobody}
      BY <2>2, <3>2 DEF NameOwned, NameTypeOK, Bind
    <3>5. stage' \in [Procs -> Stages]
      BY <2>2 DEF NameOwned, NameTypeOK, Stages, Bind, Goes
    <3>6. seen' \in [Procs -> 0..inodes'] /\ identity' \in [Procs -> 0..inodes']
      BY <2>2, <3>1, <3>2 DEF NameOwned, NameTypeOK, Bind
    <3>7. bound' \in [Procs -> 0..inodes']
      BY <2>2, <3>1, <3>2, <3>3 DEF NameOwned, NameTypeOK, Bind
    <3>8. older' \subseteq 1..inodes' /\ missed' \subseteq 1..inodes'
      BY <2>2, <3>2 DEF NameOwned, NameTypeOK, Bind
    <3>9. QED BY <3>3, <3>4, <3>5, <3>6, <3>7, <3>8 DEF NameTypeOK
  <2>3. QED BY <2>1, <2>2
<1>3. HolderIsAlone'
  BY <1>1 DEF NameOwned, NameTypeOK, HolderIsAlone, Bind, Goes
<1>4. FoundIsStale'
  BY <1>1 DEF Held, NameOwned, NameTypeOK, FoundIsStale, Bind, Goes
<1>5. BoundIsOwn'
  <2>1. CASE path # 0
    BY <1>1, <2>1 DEF Held, NameOwned, NameTypeOK, BoundIsOwn, Early, Bind, Goes
  <2>2. CASE path = 0
    <3>1. inodes \in Nat /\ inodes + 1 # 0 /\ inodes + 1 \notin listening
      BY DEF NameOwned, NameTypeOK
    <3>2. QED BY <1>1, <2>2, <3>1 DEF Held, NameOwned, NameTypeOK, BoundIsOwn, Early,
                                      Bind, Goes
  <2>3. QED BY <2>1, <2>2
<1>6. HeldKeepsName'
  <2>1. CASE path # 0
    BY <2>1 DEF NameOwned, HeldKeepsName, Held, Bind
  <2>2. CASE path = 0
    <3>1. Held = {}
      BY <2>2 DEF NameOwned, NameTypeOK, HeldKeepsName, Held
    <3>2. Held' = Held
      BY <2>2 DEF Held, Bind
    <3>3. QED BY <3>1, <3>2 DEF HeldKeepsName
  <2>3. QED BY <2>1, <2>2
<1>7. QED BY <1>2, <1>3, <1>4, <1>5, <1>6 DEF NameOwned

\* The identity recorded after bind is that of the bound socket.
LEMMA IdentifyOwned ==
    ASSUME NameOwned, NEW p \in Procs, Identify(p)
    PROVE  NameOwned'
<1> USE SocketNameAssumption
<1>1. \A q \in Procs \ {p} : stage[q] = "off"
  BY DEF NameOwned, NameTypeOK, HolderIsAlone, Identify, Goes
<1>2. NameTypeOK'
  BY DEF NameOwned, NameTypeOK, Stages, Identify, Goes
<1>3. HolderIsAlone'
  BY <1>1 DEF NameOwned, NameTypeOK, HolderIsAlone, Identify, Goes
<1>4. FoundIsStale'
  BY <1>1 DEF Held, NameOwned, NameTypeOK, FoundIsStale, Identify, Goes
<1>5. BoundIsOwn'
  BY <1>1 DEF Held, NameOwned, NameTypeOK, FoundIsStale, BoundIsOwn, Early, Identify, Goes
<1>6. HeldKeepsName'
  BY DEF Held, NameOwned, NameTypeOK, FoundIsStale, BoundIsOwn, HeldKeepsName, Identify, Goes
<1>7. QED BY <1>2, <1>3, <1>4, <1>5, <1>6 DEF NameOwned

\* listen makes the bound socket, found under the name, the only listener.
LEMMA ListenOwned ==
    ASSUME NameOwned, NEW p \in Procs, Listen(p)
    PROVE  NameOwned'
<1> USE SocketNameAssumption
<1>1. \A q \in Procs \ {p} : stage[q] = "off"
  BY DEF NameOwned, NameTypeOK, HolderIsAlone, Listen, Goes
<1>2. NameTypeOK'
  <2>1. stage[p] = "listen" /\ bound[p] \in 1..inodes
    BY DEF Held, NameOwned, NameTypeOK, BoundIsOwn, Listen, Goes
  <2>2. listening' \subseteq 1..inodes
    BY <2>1 DEF NameOwned, NameTypeOK, Listen
  <2>3. stage' \in [Procs -> Stages]
    BY DEF NameOwned, NameTypeOK, Stages, Listen, Goes
  <2>4. QED BY <2>2, <2>3 DEF NameOwned, NameTypeOK, Listen
<1>3. HolderIsAlone'
  BY <1>1 DEF NameOwned, NameTypeOK, HolderIsAlone, Listen, Goes
<1>4. FoundIsStale'
  BY <1>1 DEF Held, NameOwned, NameTypeOK, FoundIsStale, Listen, Goes
<1>5. BoundIsOwn'
  BY <1>1 DEF Held, NameOwned, NameTypeOK, FoundIsStale, BoundIsOwn, Early, Listen, Goes
<1>6. HeldKeepsName'
  BY DEF Held, NameOwned, NameTypeOK, FoundIsStale, BoundIsOwn, HeldKeepsName, Listen, Goes
<1>7. QED BY <1>2, <1>3, <1>4, <1>5, <1>6 DEF NameOwned

\* data_uds_destroy stops listening first.
LEMMA StopOwned ==
    ASSUME NameOwned, NEW p \in Procs, Stop(p)
    PROVE  NameOwned'
<1> USE SocketNameAssumption
<1>1. \A q \in Procs \ {p} : stage[q] = "off"
  BY DEF NameOwned, NameTypeOK, HolderIsAlone, Stop, Goes
<1>2. NameTypeOK'
  BY DEF NameOwned, NameTypeOK, Stages, Stop, Goes
<1>3. HolderIsAlone'
  BY <1>1 DEF NameOwned, NameTypeOK, HolderIsAlone, Stop, Goes
<1>4. FoundIsStale'
  BY <1>1 DEF Held, NameOwned, NameTypeOK, FoundIsStale, Stop, Goes
<1>5. BoundIsOwn'
  BY <1>1 DEF Held, NameOwned, NameTypeOK, FoundIsStale, BoundIsOwn, Early, Stop, Goes
<1>6. HeldKeepsName'
  BY DEF Held, NameOwned, NameTypeOK, FoundIsStale, BoundIsOwn, HeldKeepsName, Stop, Goes
<1>7. QED BY <1>2, <1>3, <1>4, <1>5, <1>6 DEF NameOwned

\* The socket to remove is the one that was bound.
LEMMA LeaveOwned ==
    ASSUME NameOwned, NEW p \in Procs, Leave(p)
    PROVE  NameOwned'
<1> USE SocketNameAssumption
<1>1. \A q \in Procs \ {p} : stage[q] = "off"
  BY DEF NameOwned, NameTypeOK, HolderIsAlone, Leave, Goes
<1>2. NameTypeOK'
  BY DEF NameOwned, NameTypeOK, Stages, Leave, Goes
<1>3. HolderIsAlone'
  BY <1>1 DEF NameOwned, NameTypeOK, HolderIsAlone, Leave, Goes
<1>4. FoundIsStale'
  BY <1>1 DEF Held, NameOwned, NameTypeOK, FoundIsStale, Leave, Goes
<1>5. BoundIsOwn'
  BY <1>1 DEF Held, NameOwned, NameTypeOK, FoundIsStale, BoundIsOwn, Early, Leave, Goes
<1>6. HeldKeepsName'
  BY DEF Held, NameOwned, NameTypeOK, FoundIsStale, BoundIsOwn, HeldKeepsName, Leave, Goes
<1>7. QED BY <1>2, <1>3, <1>4, <1>5, <1>6 DEF NameOwned

\* Nobody listens on the socket that its owner removes.
LEMMA RemoveSocketOwned ==
    ASSUME NameOwned, NEW p \in Procs, RemoveSocket(p)
    PROVE  NameOwned'
<1> USE SocketNameAssumption
<1>1. \A q \in Procs \ {p} : stage[q] = "off"
  BY DEF NameOwned, NameTypeOK, HolderIsAlone, RemoveSocket, Goes
<1>2. NameTypeOK'
  BY DEF NameOwned, NameTypeOK, Stages, RemoveSocket, Goes
<1>3. HolderIsAlone'
  BY <1>1 DEF NameOwned, NameTypeOK, HolderIsAlone, RemoveSocket, Goes
<1>4. FoundIsStale'
  BY <1>1 DEF Held, NameOwned, NameTypeOK, FoundIsStale, RemoveSocket, Goes
<1>5. BoundIsOwn'
  BY <1>1 DEF Held, NameOwned, NameTypeOK, FoundIsStale, BoundIsOwn, Early, RemoveSocket, Goes
<1>6. HeldKeepsName'
  BY DEF Held, NameOwned, NameTypeOK, FoundIsStale, BoundIsOwn, HeldKeepsName, RemoveSocket, Goes
<1>7. QED BY <1>2, <1>3, <1>4, <1>5, <1>6 DEF NameOwned

\* The end of a process, orderly or not: its socket may stay, its lock is free.
LEMMA EndsOwned ==
    ASSUME NameOwned, NEW p \in Procs, stage[p] # "off", Ends(p),
           listening' = listening \ {bound[p]}
    PROVE  NameOwned'
<1>1. \A q \in Procs \ {p} : stage[q] = "off"
  BY DEF NameOwned, HolderIsAlone
<1>2. NameTypeOK'
  <2>1. 0 \in 0..inodes /\ path' = path /\ inodes' = inodes
    BY DEF NameOwned, NameTypeOK, Ends
  <2>2. stage' \in [Procs -> Stages] /\ lock' \in Procs \cup {Nobody}
    BY DEF NameOwned, NameTypeOK, Stages, Ends
  <2>3. seen' \in [Procs -> 0..inodes] /\ bound' \in [Procs -> 0..inodes]
        /\ identity' \in [Procs -> 0..inodes]
    BY <2>1 DEF NameOwned, NameTypeOK, Ends
  <2>4. listening' \subseteq 1..inodes
    BY DEF NameOwned, NameTypeOK
  <2>5. older' \subseteq 1..inodes /\ missed' \subseteq 1..inodes
    BY DEF NameOwned, NameTypeOK, Ends
  <2>6. QED BY <2>1, <2>2, <2>3, <2>4, <2>5 DEF NameOwned, NameTypeOK
<1>3. HolderIsAlone'
  BY <1>1 DEF NameOwned, NameTypeOK, HolderIsAlone, Ends
<1>4. FoundIsStale'
  BY <1>1 DEF Held, NameOwned, NameTypeOK, FoundIsStale, Ends
<1>5. BoundIsOwn'
  BY <1>1 DEF Held, NameOwned, NameTypeOK, BoundIsOwn, Early, Ends
<1>6. HeldKeepsName'
  BY DEF Held, NameOwned, HeldKeepsName, Ends
<1>7. QED BY <1>2, <1>3, <1>4, <1>5, <1>6 DEF NameOwned

\* The lock is the last thing data_uds_destroy gives up.
LEMMA UnlockOwned ==
    ASSUME NameOwned, NEW p \in Procs, Unlock(p)
    PROVE  NameOwned'
<1>1. listening' = listening \ {bound[p]}
  BY DEF Held, NameOwned, BoundIsOwn, Unlock
<1>2. QED BY <1>1, EndsOwned DEF Unlock

\* A crash leaves the socket under the name, with nobody listening on it.
LEMMA CrashOwned ==
    ASSUME NameOwned, NEW p \in Procs, Crash(p)
    PROVE  NameOwned'
BY EndsOwned DEF Crash

\* A program without the lock binds a free name only; whoever is between lstat
\* and bind has seen a socket there or will fail to bind.
LEMMA OlderBindsOwned ==
    ASSUME NameOwned, OlderBinds
    PROVE  NameOwned'
<1> USE SocketNameAssumption
<1>1. inodes \in Nat /\ inodes' = inodes + 1 /\ path' = inodes + 1 /\ path' # 0
  BY DEF NameOwned, NameTypeOK, OlderBinds
<1>2. 0..inodes \subseteq 0..inodes' /\ 1..inodes \subseteq 1..inodes'
  BY <1>1
<1>3. NameTypeOK'
  <2>1. path' \in 0..inodes' /\ inodes' \in 0..MaxInodes
    BY <1>1 DEF OlderBinds
  <2>2. listening' \subseteq 1..inodes' /\ missed' \subseteq 1..inodes'
    BY <1>2 DEF NameOwned, NameTypeOK, OlderBinds
  <2>3. older' \subseteq 1..inodes'
    BY <1>1, <1>2 DEF NameOwned, NameTypeOK, OlderBinds
  <2>4. /\ seen' \in [Procs -> 0..inodes'] /\ bound' \in [Procs -> 0..inodes']
        /\ identity' \in [Procs -> 0..inodes']
    BY <1>2 DEF NameOwned, NameTypeOK, OlderBinds
  <2>5. lock' \in Procs \cup {Nobody} /\ stage' \in [Procs -> Stages]
    BY DEF NameOwned, NameTypeOK, OlderBinds
  <2>6. QED BY <2>1, <2>2, <2>3, <2>4, <2>5 DEF NameTypeOK
<1>4. HolderIsAlone' /\ FoundIsStale'
  BY DEF NameOwned, HolderIsAlone, FoundIsStale, OlderBinds
<1>5. \A p \in Procs : bound[p] # inodes + 1
  BY <1>1 DEF NameOwned, NameTypeOK
<1>6. BoundIsOwn'
  BY <1>1, <1>5 DEF NameOwned, BoundIsOwn, OlderBinds
<1>7. Held = {}
  BY DEF NameOwned, NameTypeOK, HeldKeepsName, Held, OlderBinds
<1>8. HeldKeepsName'
  BY <1>1, <1>7 DEF HeldKeepsName, Held, OlderBinds
<1>9. QED BY <1>3, <1>4, <1>6, <1>8 DEF NameOwned

\* It listens on what it bound, or ends.
LEMMA OlderOwned ==
    ASSUME NameOwned, OlderListens \/ OlderEnds
    PROVE  NameOwned'
<1> USE SocketNameAssumption
<1>1. /\ Held' \subseteq Held /\ UNCHANGED <<path, inodes, lock, stage, seen, bound, identity>>
      /\ \A p \in Procs : bound[p] \notin listening => bound[p] \notin listening'
      /\ older' \subseteq older /\ missed' \subseteq missed
      /\ listening' \subseteq listening \cup older
  <2>1. CASE OlderListens
    BY <2>1 DEF NameOwned, BoundIsOwn, Held, OlderListens
  <2>2. CASE OlderEnds
    BY <2>2 DEF Held, OlderEnds
  <2>3. QED BY <2>1, <2>2
<1>2. NameTypeOK' /\ HolderIsAlone'
  BY <1>1 DEF NameOwned, NameTypeOK, HolderIsAlone
<1>3. FoundIsStale'
  BY <1>1 DEF NameOwned, FoundIsStale
<1>4. BoundIsOwn'
  BY <1>1 DEF NameOwned, BoundIsOwn
<1>5. HeldKeepsName'
  BY <1>1 DEF NameOwned, HeldKeepsName
<1>6. QED BY <1>2, <1>3, <1>4, <1>5 DEF NameOwned

-----------------------------------------------------------------------------

\* A step of the daemon's loop, a helper or a transport leaves the name alone.
LEMMA DataKeepsName ==
    ASSUME Next
    PROVE  \/ NameSteps
           \/ \E p \in Procs : Stop(p) \/ Crash(p)
           \/ UNCHANGED nameVars
<1>1. \A k \in Conns, track \in Tracks, valid \in {0, 1} :
        Connect(k, track, valid) => UNCHANGED nameVars
  BY DEF Connect, rest
<1>2. \A k \in Conns, valid \in {0, 1} : WriteHeader(k, valid) => UNCHANGED nameVars
  BY DEF WriteHeader, rest
<1>3. \A k \in Conns :
        WritePayload(k) \/ HelperReads(k) \/ HangUp(k) => UNCHANGED nameVars
  BY DEF WritePayload, HelperReads, HangUp, rest
<1>4. \A track \in Tracks : data_uds_send(track) => UNCHANGED nameVars
  BY DEF data_uds_send
<1>5. Tick => UNCHANGED nameVars
  <2>1. StartTick \/ Poll \/ Accept => UNCHANGED nameVars
    BY DEF StartTick, Poll, Accept
  <2>2. \A s \in Slots : Retry(s) \/ Serve(s) => UNCHANGED nameVars
    BY DEF Retry, Serve
  <2>3. \A s \in Slots : InputBlocks(s) \/ InputReads(s) => UNCHANGED nameVars
    BY DEF InputBlocks, InputReads
  <2>4. \A s \in Slots, took \in SUBSET Transports, failed \in {0} \cup Transports :
          Offer(s, took, failed) => UNCHANGED nameVars
    BY DEF Offer
  <2>5. QED BY <2>1, <2>2, <2>3, <2>4 DEF Tick
<1>6. \A t \in Transports : Fill(t) \/ DrainTransport(t) => UNCHANGED nameVars
  BY DEF Fill, DrainTransport
<1>7. QED BY <1>1, <1>2, <1>3, <1>4, <1>5, <1>6 DEF Next, StopDaemon, CrashDaemon

\* The invariant is inductive.
LEMMA StepOwned ==
    ASSUME NameOwned, [Next]_vars
    PROVE  NameOwned'
<1>1. CASE NameSteps
  BY <1>1, LockOwned, LookOwned, ProbeOwned, RecheckOwned, UnlinkOwned, BindOwned,
     IdentifyOwned, ListenOwned, LeaveOwned, RemoveSocketOwned, UnlockOwned,
     OlderBindsOwned, OlderOwned
     DEF NameSteps, Starting, Leaving
<1>2. CASE \E p \in Procs : Stop(p) \/ Crash(p)
  BY <1>2, StopOwned, CrashOwned
<1>3. CASE UNCHANGED nameVars
  BY <1>3 DEF nameVars, NameOwned, NameTypeOK, HolderIsAlone, FoundIsStale,
              BoundIsOwn, HeldKeepsName, Held
<1>4. QED BY <1>1, <1>2, <1>3, DataKeepsName DEF vars

\* Whoever listens is found under the name: no start, stop or crash of any number
\* of daemons, and no program without the lock, takes the name from a live
\* listener (data_uds_create, remove_owned_socket), but from a program without
\* the lock that did not listen yet when it was probed.
THEOREM ListenersKeepTheirName == Spec => []ListenerKeepsName
<1>1. Init => NameOwned
  BY SocketNameAssumption DEF Init, NameInit, NameOwned, NameTypeOK, Stages,
     HolderIsAlone, FoundIsStale, BoundIsOwn, Early, HeldKeepsName, Held
<1>2. NameOwned /\ [Next]_vars => NameOwned'
  BY StepOwned
<1>3. NameOwned => ListenerKeepsName
  BY DEF NameOwned, HeldKeepsName, Held, ListenerKeepsName
<1>4. QED BY <1>1, <1>2, <1>3, PTL DEF Spec

-----------------------------------------------------------------------------
(* Sequences *)

\* Concatenation, and units i + 1 to j of a sequence, by names of their own
Cat(a, b) == a \o b
Part(o, i, j) == SubSeq(o, i + 1, j)

\* The order of concatenations does not matter.
LEMMA CatAssociates ==
    ASSUME NEW U, NEW a \in Seq(U), NEW b \in Seq(U), NEW c \in Seq(U)
    PROVE  Cat(Cat(a, b), c) = Cat(a, Cat(b, c))
<1>1. (a \o b) \o c = a \o (b \o c)
  BY ConcatAssociative, SMTT(60)
<1>2. QED BY <1>1 DEF Cat

\* The type, the length and the elements of a concatenation
LEMMA CatType ==
    ASSUME NEW U, NEW a \in Seq(U), NEW b \in Seq(U)
    PROVE  /\ Cat(a, b) \in Seq(U) /\ Len(Cat(a, b)) = Len(a) + Len(b)
           /\ \A i \in 1..(Len(a) + Len(b)) :
                Cat(a, b)[i] = IF i <= Len(a) THEN a[i] ELSE b[i - Len(a)]
BY ConcatProperties DEF Cat

\* Four parts in a row, however they are grouped
LEMMA Regroup ==
    ASSUME NEW U, NEW a \in Seq(U), NEW b \in Seq(U), NEW c \in Seq(U), NEW d \in Seq(U)
    PROVE  Cat(Cat(a, Cat(b, c)), d) = Cat(Cat(a, b), Cat(c, d))
<1>1. Cat(a, b) \in Seq(U)
  BY CatType
<1>2. Cat(a, Cat(b, c)) = Cat(Cat(a, b), c)
  BY CatAssociates
<1>3. Cat(Cat(Cat(a, b), c), d) = Cat(Cat(a, b), Cat(c, d))
  BY <1>1, CatAssociates
<1>4. QED BY <1>2, <1>3

\* A part of a sequence
LEMMA PartType ==
    ASSUME NEW U, NEW o \in Seq(U), NEW m \in Nat, NEW n \in m..Len(o)
    PROVE  /\ Part(o, m, n) \in Seq(U) /\ Len(Part(o, m, n)) = n - m
           /\ \A i \in 1..(n - m) : Part(o, m, n)[i] = o[m + i]
BY DEF Part

\* Two adjacent parts
LEMMA PartsJoin ==
    ASSUME NEW U, NEW o \in Seq(U), NEW m \in Nat, NEW n \in m..Len(o)
    PROVE  Cat(Part(o, m, n), Part(o, n, Len(o))) = Part(o, m, Len(o))
<1>1. Len(o) \in Nat /\ n \in Nat /\ m <= n /\ n <= Len(o)
  OBVIOUS
<1>2. PICK l \in Nat : l = Len(o)
  BY <1>1
<1>a. PICK A : A = Part(o, m, n)
  OBVIOUS
<1>b. PICK B : B = Part(o, n, l)
  OBVIOUS
<1>c. PICK C : C = Part(o, m, l)
  OBVIOUS
<1>d. PICK D : D = Cat(A, B)
  OBVIOUS
<1>3. A \in Seq(U) /\ Len(A) = n - m /\ \A i \in 1..(n - m) : A[i] = o[m + i]
  BY <1>a, PartType
<1>4. B \in Seq(U) /\ Len(B) = l - n /\ \A i \in 1..(l - n) : B[i] = o[n + i]
  <2>1. n \in Nat /\ l \in n..Len(o)
    BY <1>1, <1>2
  <2>2. QED BY <1>b, <2>1, PartType
<1>5. C \in Seq(U) /\ Len(C) = l - m /\ \A i \in 1..(l - m) : C[i] = o[m + i]
  <2>1. l \in m..Len(o)
    BY <1>1, <1>2
  <2>2. QED BY <1>c, <2>1, PartType
<1>6. /\ D \in Seq(U) /\ Len(D) = Len(A) + Len(B)
      /\ \A i \in 1..(Len(A) + Len(B)) :
           D[i] = IF i <= Len(A) THEN A[i] ELSE B[i - Len(A)]
  BY <1>3, <1>4, <1>d, CatType
<1>7. Len(D) = l - m /\ Len(A) + Len(B) = l - m
  BY <1>1, <1>2, <1>3, <1>4, <1>6
<1>8. \A i \in 1..(l - m) : D[i] = C[i]
  <2> TAKE i \in 1..(l - m)
  <2>1. D[i] = IF i <= n - m THEN A[i] ELSE B[i - (n - m)]
    BY <1>3, <1>6, <1>7
  <2>2. CASE i <= n - m
    <3>1. i \in 1..(n - m)
      BY <1>1, <1>2, <2>2
    <3>2. QED BY <1>3, <1>5, <2>1, <2>2, <3>1
  <2>3. CASE ~(i <= n - m)
    <3>1. i - (n - m) \in 1..(l - n) /\ n + (i - (n - m)) = m + i
      BY <1>1, <1>2, <2>3
    <3>2. B[i - (n - m)] = o[m + i]
      BY <1>4, <3>1
    <3>3. QED BY <1>5, <2>1, <2>3, <3>2
  <2>4. QED BY <2>2, <2>3
<1>9. D = C
  BY <1>5, <1>6, <1>7, <1>8, SeqEqual
<1>10. QED BY <1>2, <1>9, <1>a, <1>b, <1>c, <1>d

\* n units move from the front of what waits in o, after the first m, to the end
\* of b: nothing is lost and the order is kept.
LEMMA MovesOn ==
    ASSUME NEW U, NEW a \in Seq(U), NEW b \in Seq(U), NEW o \in Seq(U),
           NEW m \in Nat, NEW n \in Nat, m + n <= Len(o)
    PROVE  /\ Cat(b, Part(o, m, m + n)) \in Seq(U)
           /\ Len(Cat(b, Part(o, m, m + n))) = Len(b) + n
           /\ Cat(Cat(a, Cat(b, Part(o, m, m + n))), Part(o, m + n, Len(o)))
                = Cat(Cat(a, b), Part(o, m, Len(o)))
<1>1. /\ Len(o) \in Nat /\ m + n \in Nat /\ m + n \in m..Len(o)
      /\ Len(o) \in (m + n)..Len(o) /\ Len(b) \in Nat
  OBVIOUS
<1>2. Part(o, m, m + n) \in Seq(U) /\ Len(Part(o, m, m + n)) = n
  <2>1. Part(o, m, m + n) \in Seq(U) /\ Len(Part(o, m, m + n)) = (m + n) - m
    BY <1>1, PartType
  <2>2. (m + n) - m = n
    OBVIOUS
  <2>3. QED BY <2>1, <2>2
<1>3. Part(o, m + n, Len(o)) \in Seq(U)
  BY <1>1, PartType
<1>4. Cat(Part(o, m, m + n), Part(o, m + n, Len(o))) = Part(o, m, Len(o))
  BY <1>1, PartsJoin
<1>5. Cat(Cat(a, Cat(b, Part(o, m, m + n))), Part(o, m + n, Len(o)))
        = Cat(Cat(a, b), Cat(Part(o, m, m + n), Part(o, m + n, Len(o))))
  BY <1>2, <1>3, Regroup
<1>6. /\ Cat(b, Part(o, m, m + n)) \in Seq(U)
      /\ Len(Cat(b, Part(o, m, m + n))) = Len(b) + n
  <2>1. Part(o, m, m + n) \in Seq(U)
    BY <1>2
  <2>2. /\ Cat(b, Part(o, m, m + n)) \in Seq(U)
        /\ Len(Cat(b, Part(o, m, m + n))) = Len(b) + Len(Part(o, m, m + n))
    BY <2>1, CatType
  <2>3. QED BY <1>2, <2>2
<1>7. QED BY <1>4, <1>5, <1>6
-----------------------------------------------------------------------------
(* The frames accepted for a helper, one after the other *)

FrameUnit(S, j) ==
    Unit(IF j % 2 = 1 THEN "header" ELSE "payload", S[(j + 1) \div 2])

FramesOf(S) == [j \in 1..(2 * Len(S)) |-> FrameUnit(S, j)]

FrameSeq(S) == [i \in DOMAIN S |-> FrameUnits(S[i])]

Units == [kind : {"type", "name", "header", "payload"}, n : Nat]

\* Two units a frame
LEMMA FramesOfType ==
    ASSUME NEW S \in Seq(Nat)
    PROVE  /\ FramesOf(S) \in Seq(Units)
           /\ Len(FramesOf(S)) = 2 * Len(S)
           /\ \A j \in 1..(2 * Len(S)) : FramesOf(S)[j] = FrameUnit(S, j)
<1>1. Len(S) \in Nat /\ \A i \in 1..Len(S) : S[i] \in Nat
  OBVIOUS
<1>2. \A j \in 1..(2 * Len(S)) : (j + 1) \div 2 \in 1..Len(S)
  BY <1>1
<1>3. \A j \in 1..(2 * Len(S)) : FrameUnit(S, j) \in Units
  <2> TAKE j \in 1..(2 * Len(S))
  <2>1. S[(j + 1) \div 2] \in Nat
    BY <1>1, <1>2
  <2>2. QED BY <2>1 DEF FrameUnit, Unit, Units
<1>4. 2 * Len(S) \in Nat
  BY <1>1
<1> HIDE DEF Units
<1>5. QED BY <1>3, <1>4 DEF FramesOf

\* A frame accepted later follows the others.
LEMMA FramesOfAppend ==
    ASSUME NEW S \in Seq(Nat), NEW f \in Nat
    PROVE  FramesOf(Append(S, f)) = Cat(FramesOf(S), FrameUnits(f))
<1> DEFINE T == Append(S, f)
           A == FramesOf(T)
           B == FramesOf(S) \o FrameUnits(f)
<1>1. /\ T \in Seq(Nat) /\ Len(S) \in Nat /\ Len(T) = Len(S) + 1
      /\ \A i \in 1..Len(S) : T[i] = S[i]
      /\ T[Len(S) + 1] = f
  OBVIOUS
<1>2. FrameUnits(f) \in Seq(Units) /\ Len(FrameUnits(f)) = 2
      /\ FrameUnits(f)[1] = Unit("header", f) /\ FrameUnits(f)[2] = Unit("payload", f)
  BY DEF FrameUnits, Unit, Units
<1> HIDE DEF T
<1>3. /\ A \in Seq(Units) /\ Len(A) = 2 * Len(S) + 2
      /\ \A j \in 1..(2 * Len(S) + 2) : A[j] = FrameUnit(T, j)
  BY <1>1, FramesOfType
<1>4. /\ FramesOf(S) \in Seq(Units) /\ Len(FramesOf(S)) = 2 * Len(S)
      /\ \A j \in 1..(2 * Len(S)) : FramesOf(S)[j] = FrameUnit(S, j)
  BY FramesOfType
<1>5. /\ B \in Seq(Units) /\ Len(B) = 2 * Len(S) + 2
      /\ \A j \in 1..(2 * Len(S) + 2) :
           B[j] = IF j <= 2 * Len(S) THEN FramesOf(S)[j]
                                     ELSE FrameUnits(f)[j - 2 * Len(S)]
  <2>1. /\ B \in Seq(Units) /\ Len(B) = Len(FramesOf(S)) + Len(FrameUnits(f))
        /\ \A j \in 1..(Len(FramesOf(S)) + Len(FrameUnits(f))) :
             B[j] = IF j <= Len(FramesOf(S)) THEN FramesOf(S)[j]
                    ELSE FrameUnits(f)[j - Len(FramesOf(S))]
    BY <1>2, <1>4, ConcatProperties
  <2> HIDE DEF B
  <2>2. QED BY <1>2, <1>4, <2>1
<1>6. \A j \in 1..(2 * Len(S)) : FrameUnit(T, j) = FrameUnit(S, j)
  <2> TAKE j \in 1..(2 * Len(S))
  <2>1. (j + 1) \div 2 \in 1..Len(S)
    BY <1>1
  <2>2. QED BY <1>1, <2>1 DEF FrameUnit
<1>7. /\ FrameUnit(T, 2 * Len(S) + 1) = Unit("header", f)
      /\ FrameUnit(T, 2 * Len(S) + 2) = Unit("payload", f)
  <2>1. \A m \in Nat : /\ (2 * m + 1) % 2 = 1 /\ (2 * m + 2) \div 2 = m + 1
                       /\ (2 * m + 2) % 2 = 0 /\ (2 * m + 3) \div 2 = m + 1
    OBVIOUS
  <2>2. /\ (2 * Len(S) + 1) % 2 = 1 /\ (2 * Len(S) + 1 + 1) \div 2 = Len(S) + 1
        /\ (2 * Len(S) + 2) % 2 = 0 /\ (2 * Len(S) + 2 + 1) \div 2 = Len(S) + 1
    BY <1>1, <2>1
  <2>3. QED BY <1>1, <2>2 DEF FrameUnit
<1> HIDE DEF A, B
<1>8. \A j \in 1..(2 * Len(S) + 2) : A[j] = B[j]
  <2> TAKE j \in 1..(2 * Len(S) + 2)
  <2>1. CASE j <= 2 * Len(S)
    BY <1>1, <1>3, <1>4, <1>5, <1>6, <2>1
  <2>2. CASE j = 2 * Len(S) + 1
    <3>1. j - 2 * Len(S) = 1 /\ ~(j <= 2 * Len(S))
      BY <1>1, <2>2
    <3>2. QED BY <1>2, <1>3, <1>5, <1>7, <2>2, <3>1
  <2>3. CASE j = 2 * Len(S) + 2
    <3>1. j - 2 * Len(S) = 2 /\ ~(j <= 2 * Len(S))
      BY <1>1, <2>3
    <3>2. QED BY <1>2, <1>3, <1>5, <1>7, <2>3, <3>1
  <2>4. j <= 2 * Len(S) \/ j = 2 * Len(S) + 1 \/ j = 2 * Len(S) + 2
    <3>1. \A m \in Nat : \A i \in 1..(m + 2) : i <= m \/ i = m + 1 \/ i = m + 2
      OBVIOUS
    <3>2. 2 * Len(S) \in Nat
      BY <1>1
    <3>3. QED BY <3>1, <3>2
  <2>5. QED BY <2>1, <2>2, <2>3, <2>4
<1>9. A = B
  BY <1>1, <1>3, <1>5, <1>8, SeqEqual
<1>10. QED BY <1>9 DEF A, B, T, Cat

\* The flattening of WholeFrames, by the values its recursion has
LEMMA FlattenFrames ==
    ASSUME NEW S \in Seq(Nat)
    PROVE  FlattenSeq(FrameSeq(S)) = FramesOf(S)
<1> DEFINE n == Len(S)
           Q == FrameSeq(S)
           First(i) == FramesOf(SubSeq(S, 1, i))
           Step(g, i) == IF i = 1 THEN Q[i] ELSE g[i - 1] \o Q[i]
           Is(g) == g = [i \in 1..n |-> Step(g, i)]
           w == [i \in 1..n |-> First(i)]
           g0 == CHOOSE g : Is(g)
<1>1. n \in Nat /\ DOMAIN S = 1..n /\ \A i \in 1..n : S[i] \in Nat
  OBVIOUS
<1>2. DOMAIN Q = 1..n /\ Len(Q) = n /\ \A i \in 1..n : Q[i] = FrameUnits(S[i])
  BY <1>1 DEF FrameSeq
<1>3. \A i \in 1..n : /\ SubSeq(S, 1, i - 1) \in Seq(Nat)
                      /\ SubSeq(S, 1, i) = Append(SubSeq(S, 1, i - 1), S[i])
  <2> TAKE i \in 1..n
  <2>1. /\ SubSeq(S, 1, i) \in Seq(Nat) /\ Len(SubSeq(S, 1, i)) = i
        /\ \A j \in 1..i : SubSeq(S, 1, i)[j] = S[j]
    BY <1>1
  <2>2. /\ SubSeq(S, 1, i - 1) \in Seq(Nat) /\ Len(SubSeq(S, 1, i - 1)) = i - 1
        /\ \A j \in 1..(i - 1) : SubSeq(S, 1, i - 1)[j] = S[j]
    BY <1>1
  <2>3. /\ Append(SubSeq(S, 1, i - 1), S[i]) \in Seq(Nat)
        /\ Len(Append(SubSeq(S, 1, i - 1), S[i])) = i
        /\ \A j \in 1..i : Append(SubSeq(S, 1, i - 1), S[i])[j] = S[j]
    BY <1>1, <2>2
  <2>4. QED BY <2>1, <2>2, <2>3, SeqEqual
<1>4. \A i \in 1..n : First(i) = First(i - 1) \o Q[i]
  BY <1>1, <1>2, <1>3, FramesOfAppend DEF Cat
<1>5. \A i \in 1..n : i = 1 => First(i) = Q[i]
  <2> SUFFICES ASSUME 1 \in 1..n PROVE First(1) = Q[1]
    OBVIOUS
  <2>1. SubSeq(S, 1, 0) = <<>>
    BY SubSeqEmpty
  <2>2. FramesOf(<<>>) = <<>>
    BY DEF FramesOf
  <2>3. First(0) = <<>>
    BY <2>1, <2>2
  <2>4. First(1) = First(0) \o Q[1]
    <3>1. \A i \in 1..n : i - 1 = 0 => First(i) = First(0) \o Q[i]
      <4> HIDE DEF Q
      <4> QED BY <1>4
    <3>2. 1 - 1 = 0
      OBVIOUS
    <3> HIDE DEF First, Q
    <3>3. QED BY <3>1, <3>2
  <2>5. S[1] \in Nat /\ Q[1] = FrameUnits(S[1])
    BY <1>1, <1>2
  <2>6. Q[1] \in Seq(Units)
    BY <2>5 DEF FrameUnits, Unit, Units
  <2>7. QED BY <2>3, <2>4, <2>6, ConcatEmptySeq
<1> HIDE DEF Q, First
<1>6. Is(w)
  <2>1. \A i \in 1..n : First(i) = Step(w, i)
    <3> TAKE i \in 1..n
    <3>1. CASE i = 1
      BY <1>5, <3>1
    <3>2. CASE i # 1
      <4>1. i - 1 \in 1..n
        BY <1>1, <3>2
      <4>2. w[i - 1] = First(i - 1)
        BY <4>1
      <4>3. QED BY <1>4, <3>2, <4>2
    <3>3. QED BY <3>1, <3>2
  <2> HIDE DEF Step
  <2>2. QED BY <2>1
<1>7. Is(g0)
  BY <1>6
<1>8. \A i \in 1..n : g0[i] = w[i]
  <2> HIDE DEF g0
  <2> DEFINE Bad == {i \in 1..n : g0[i] # w[i]}
             h == [i \in Bad |-> i]
  <2> SUFFICES ASSUME Bad # {} PROVE FALSE
    OBVIOUS
  <2>1. \A x \in Bad : h[x] \in Nat
    BY <1>1
  <2>2. \E x \in Bad : \A y \in Bad : h[x] <= h[y]
    <3> HIDE DEF Bad, h
    <3> QED BY <2>1, LeastExists
  <2>3. PICK x \in Bad : \A y \in Bad : x <= y
    BY <2>2
  <2>4. x \in 1..n /\ g0[x] = Step(g0, x) /\ w[x] = Step(w, x)
    BY <1>6, <1>7
  <2>5. CASE x = 1
    BY <2>3, <2>4, <2>5
  <2>6. CASE x # 1
    <3>1. x - 1 \in 1..n /\ ~(x <= x - 1)
      BY <1>1, <2>4, <2>6
    <3>2. g0[x - 1] = w[x - 1]
      BY <2>3, <3>1
    <3>3. QED BY <2>3, <2>4, <2>6, <3>2
  <2>7. QED BY <2>5, <2>6
<1>9. n # 0 => FlattenSeq(Q) = g0[n]
  BY <1>2 DEF FlattenSeq
<1>10. n # 0 => FlattenSeq(Q) = First(n)
  <2>1. n # 0 => n \in 1..n
    BY <1>1
  <2>2. \A i \in 1..n : w[i] = First(i)
    OBVIOUS
  <2> HIDE DEF n, w, g0
  <2>3. QED BY <1>8, <1>9, <2>1, <2>2
<1>11. First(n) = FramesOf(S)
  BY SubSeqFull DEF First
<1>12. n = 0 => FlattenSeq(Q) = Q /\ Q = FramesOf(S)
  BY <1>1, <1>2 DEF FlattenSeq, FrameSeq, FramesOf, Q
<1>13. QED BY <1>10, <1>11, <1>12 DEF Q
-----------------------------------------------------------------------------
(* What every step on the data preserves *)

ConnRecords ==
    [phase : {"none", "backlog", "held"}, track : Tracks \cup {NoTrack},
     wire : Seq(Units), sent : Nat, half : Nat, hup : BOOLEAN,
     kernel : Seq(Units), got : Seq(Units)]

SlotRecords ==
    [conn : Conns \cup {NoConn}, have : 0..2, registered : BOOLEAN, rec : Nat,
     pending : BOOLEAN, id : Nat, progress : SUBSET Transports,
     output : Seq(Units), offset : Nat]

Publications == Seq([rec : Nat, id : Nat])

DataTypeOK ==
    /\ conn \in [Conns -> ConnRecords] /\ slot \in [Slots -> SlotRecords]
    /\ published \in [Conns -> [Transports -> Publications]]
    /\ sentTo \in [Conns -> Seq(Nat)]
    /\ nextId \in Nat /\ frames \in Nat

\* A connection is held by one slot.
OneHolder ==
    /\ \A s \in Slots : Active(s) => conn[slot[s].conn].phase = "held"
    /\ \A s, x \in Slots : Active(s) /\ slot[s].conn = slot[x].conn => s = x
    /\ \A k \in Conns :
         conn[k].phase = "held" => \E s \in Slots : slot[s].conn = k

\* The units a helper writes, by their place in its stream: a registration,
\* then its records.
IsUnit(u, place) ==
    \/ place = 1 /\ u.kind = "type"
    \/ place = 2 /\ u.kind = "name"
    \/ \E m \in Nat \ {0} : /\ place = 2 * m + 1 /\ u.kind = "header"
                            /\ u.n \in {0, m}
    \/ \E m \in Nat \ {0} : place = 2 * m + 2 /\ u.kind = "payload" /\ u.n = m

\* What is unread is the stream of the helper from place + 1 on.
Follows(h, place) ==
    /\ h.half \in {0, h.sent + 1}
    /\ place + Len(h.wire) = 2 + 2 * h.sent + (IF h.half = 0 THEN 0 ELSE 1)
    /\ \A i \in 1..Len(h.wire) : IsUnit(h.wire[i], place + i)

\* To a connection that nobody holds nothing was done yet.
Untouched(k) ==
    /\ published[k] = [t \in Transports |-> <<>>] /\ sentTo[k] = <<>>
    /\ conn[k].kernel = <<>> /\ conn[k].got = <<>>
    /\ IF conn[k].phase = "none" THEN conn[k] = FreshConn ELSE Follows(conn[k], 0)

UnheldUntouched == \A k \in Conns : conn[k].phase # "held" => Untouched(k)

\* n records were finished, and c is within the next.
Within(c, n) ==
    /\ c.registered \/ (n = 0 /\ c.have < 2)
    /\ c.registered /\ c.have # 0 => c.rec = n + 1
    /\ IF c.pending THEN c.have = 2 ELSE c.progress = {}

Place(c, n) == IF c.registered THEN 2 + 2 * n + c.have ELSE c.have

Taken(c, t) == IF c.pending /\ t \in c.progress THEN 1 ELSE 0

\* The client c of connection h has published P: the records it finished on
\* every transport, and the one that waits where it was taken.
ReadsOn(c, h, P) ==
    \E n \in Nat : /\ Within(c, n)
                   /\ Follows(h, Place(c, n))
                   /\ \A t \in Transports : Len(P[t]) = n + Taken(c, t)

InOrder(P) == \A t \in Transports : \A i \in 1..Len(P[t]) : P[t][i].rec = i

Waiting(c) == Part(c.output, c.offset, Len(c.output))

\* The frames S, in the hands of the helper, of the kernel and of the client
KeepsFrames(c, h, S) ==
    /\ c.offset <= Len(c.output) /\ Len(h.kernel) <= KernelRoom
    /\ Cat(Cat(h.got, h.kernel), Waiting(c)) = FramesOf(S)

ClientOK(c, h, P, S) == ReadsOn(c, h, P) /\ InOrder(P) /\ KeepsFrames(c, h, S)

HeldOK ==
    \A s \in Slots : Active(s) =>
        ClientOK(slot[s], conn[slot[s].conn], published[slot[s].conn],
                 sentTo[slot[s].conn])

\* Identifier x was given to record i of k: it is published under it, or waits
\* with it.
Given(k, i, x) ==
    \/ \E t \in Transports : /\ i \in 1..Len(published[k][t])
                             /\ published[k][t][i].id = x
    \/ \E s \in Slots : /\ slot[s].conn = k /\ slot[s].pending
                        /\ slot[s].rec = i /\ slot[s].id = x

Numbered ==
    /\ \A k \in Conns : \A i, x \in Nat : Given(k, i, x) => x < nextId
    /\ \A k, l \in Conns : \A i, j, x, y \in Nat :
         Given(k, i, x) /\ Given(l, j, y) => (x = y <=> k = l /\ i = j)

ClientsOK ==
    /\ DataTypeOK
    /\ OneHolder
    /\ UnheldUntouched
    /\ HeldOK
    /\ Numbered

-----------------------------------------------------------------------------
(* What a step may do to the clients *)

\* No new identifier
LEMMA KeepsNumbers ==
    ASSUME Numbered, nextId \in Nat, nextId' \in Nat, nextId <= nextId',
           \A k \in Conns : \A i, x \in Nat : Given(k, i, x)' => Given(k, i, x)
    PROVE  Numbered'
<1>1. \A k \in Conns : \A i, x \in Nat : Given(k, i, x)' => x < nextId'
  BY DEF Numbered
<1>2. \A k, l \in Conns : \A i, j, x, y \in Nat :
        Given(k, i, x)' /\ Given(l, j, y)' => (x = y <=> k = l /\ i = j)
  BY DEF Numbered
<1>3. QED BY <1>1, <1>2 DEF Numbered

\* A connection and its slot
LEMMA HeldBy ==
    ASSUME ClientsOK, NEW s \in Slots, Active(s)
    PROVE  /\ slot[s].conn \in Conns /\ conn[slot[s].conn].phase = "held"
           /\ slot[s] \in SlotRecords /\ conn[slot[s].conn] \in ConnRecords
           /\ published[slot[s].conn] \in [Transports -> Publications]
           /\ sentTo[slot[s].conn] \in Seq(Nat)
           /\ ClientOK(slot[s], conn[slot[s].conn], published[slot[s].conn],
                       sentTo[slot[s].conn])
<1>1. slot[s] \in SlotRecords /\ slot[s].conn # NoConn
  BY DEF ClientsOK, DataTypeOK, Active
<1>2. slot[s].conn \in Conns
  BY <1>1 DEF SlotRecords
<1>3. QED BY <1>1, <1>2 DEF ClientsOK, DataTypeOK, OneHolder, HeldOK

\* Clients that nothing was done to
LEMMA SameClients ==
    ASSUME ClientsOK,
           UNCHANGED <<conn, slot, published, sentTo, nextId, frames>>
    PROVE  ClientsOK'
<1>1. DataTypeOK' /\ OneHolder'
  BY DEF ClientsOK, DataTypeOK, OneHolder, Active
<1>2. UnheldUntouched'
  BY DEF ClientsOK, UnheldUntouched, Untouched
<1>3. HeldOK'
  BY DEF ClientsOK, HeldOK, Active
<1>4. \A k \in Conns : \A i, x \in Nat : Given(k, i, x)' => Given(k, i, x)
  BY DEF Given
<1>5. Numbered'
  BY <1>4, KeepsNumbers DEF ClientsOK, DataTypeOK
<1>6. QED BY <1>1, <1>2, <1>3, <1>5 DEF ClientsOK

\* A helper acts on its connection.
LEMMA HelperActs ==
    ASSUME ClientsOK, NEW k \in Conns, NEW h \in ConnRecords,
           conn' = [conn EXCEPT ![k] = h],
           UNCHANGED <<slot, published, sentTo, nextId, frames>>,
           h.phase \in {"backlog", "held"},
           (h.phase = "held") <=> (conn[k].phase = "held"),
           h.phase = "backlog" =>
               h.kernel = <<>> /\ h.got = <<>> /\ Follows(h, 0),
           \A c \in SlotRecords : \A P, S :
               h.phase = "held" /\ ClientOK(c, conn[k], P, S) => ClientOK(c, h, P, S)
    PROVE  ClientsOK'
<1>1. conn \in [Conns -> ConnRecords]
  BY DEF ClientsOK, DataTypeOK
<1>2. conn'[k] = h /\ \A l \in Conns : l # k => conn'[l] = conn[l]
  BY <1>1
<1>3. DataTypeOK'
  BY DEF ClientsOK, DataTypeOK
<1>4. \A s \in Slots : Active(s)' <=> Active(s)
  BY DEF Active
<1>5. \A s \in Slots : Active(s) => slot[s].conn \in Conns
  BY HeldBy
<1>6. \A l \in Conns : (conn'[l].phase = "held") <=> (conn[l].phase = "held")
  BY <1>2
<1>7. OneHolder'
  BY <1>4, <1>5, <1>6 DEF ClientsOK, OneHolder
<1>8. UnheldUntouched'
  BY <1>2, <1>6 DEF ClientsOK, UnheldUntouched, Untouched
<1>9. HeldOK'
  <2> SUFFICES ASSUME NEW s \in Slots, Active(s)
               PROVE  ClientOK(slot[s], conn'[slot[s].conn],
                               published[slot[s].conn], sentTo[slot[s].conn])
    BY <1>4 DEF HeldOK
  <2>1. ClientOK(slot[s], conn[slot[s].conn], published[slot[s].conn],
                 sentTo[slot[s].conn])
        /\ conn[slot[s].conn].phase = "held" /\ slot[s] \in SlotRecords
    BY HeldBy
  <2>2. CASE slot[s].conn = k
    BY <1>2, <2>1, <2>2
  <2>3. CASE slot[s].conn # k
    BY <1>2, <1>5, <2>1, <2>3
  <2>4. QED BY <2>2, <2>3
<1>10. \A l \in Conns : \A i, x \in Nat : Given(l, i, x)' => Given(l, i, x)
  BY DEF Given
<1>11. Numbered'
  <2>1. Numbered /\ nextId \in Nat /\ nextId' \in Nat /\ nextId <= nextId'
    BY DEF ClientsOK, DataTypeOK
  <2>2. QED BY <1>10, <2>1, KeepsNumbers
<1>12. QED BY <1>3, <1>7, <1>8, <1>9, <1>11 DEF ClientsOK

\* The daemon acts on a client.
LEMMA ClientActs ==
    ASSUME ClientsOK, NEW s \in Slots, Active(s), NEW k, k = slot[s].conn,
           NEW d \in SlotRecords, NEW h \in ConnRecords,
           NEW P \in [Transports -> Publications], NEW S \in Seq(Nat),
           slot' = [slot EXCEPT ![s] = d], conn' = [conn EXCEPT ![k] = h],
           published' = [published EXCEPT ![k] = P],
           sentTo' = [sentTo EXCEPT ![k] = S],
           nextId' \in Nat, frames' \in Nat,
           d.conn = k, h.phase = "held", ClientOK(d, h, P, S), Numbered'
    PROVE  ClientsOK'
<1>1. k \in Conns /\ k # NoConn
  BY HeldBy DEF Active
<1>2. DataTypeOK'
  <2>1. slot' \in [Slots -> SlotRecords] /\ conn' \in [Conns -> ConnRecords]
    BY DEF ClientsOK, DataTypeOK
  <2>2. published' \in [Conns -> [Transports -> Publications]]
        /\ sentTo' \in [Conns -> Seq(Nat)]
    BY DEF ClientsOK, DataTypeOK
  <2>3. QED BY <2>1, <2>2 DEF DataTypeOK
<1>3. /\ slot'[s] = d /\ \A x \in Slots : x # s => slot'[x] = slot[x]
      /\ conn'[k] = h /\ \A l \in Conns : l # k => conn'[l] = conn[l]
  BY <1>1 DEF ClientsOK, DataTypeOK
<1>4. /\ published'[k] = P /\ \A l \in Conns : l # k => published'[l] = published[l]
      /\ sentTo'[k] = S /\ \A l \in Conns : l # k => sentTo'[l] = sentTo[l]
  BY <1>1 DEF ClientsOK, DataTypeOK
<1>5. \A x \in Slots : slot'[x].conn = slot[x].conn
  BY <1>3
<1>6. \A x \in Slots : Active(x)' <=> Active(x)
  BY <1>5 DEF Active
<1>7. \A x \in Slots : Active(x) => slot[x].conn \in Conns
  BY HeldBy
<1>8. \A x \in Slots : Active(x) /\ slot[x].conn = k => x = s
  BY DEF ClientsOK, OneHolder
<1>9. conn[k].phase = "held"
  BY HeldBy
<1>10. \A l \in Conns : (conn'[l].phase = "held") <=> (conn[l].phase = "held")
  BY <1>3, <1>9
<1>11. OneHolder'
  <2>1. OneHolder
    BY DEF ClientsOK
  <2>2. \A x \in Slots : Active(x)' => conn'[slot'[x].conn].phase = "held"
    <3>1. \A x \in Slots : Active(x) => conn[slot[x].conn].phase = "held"
      BY <2>1 DEF OneHolder
    <3>2. QED BY <1>5, <1>6, <1>7, <1>10, <3>1
  <2>3. \A y, x \in Slots : Active(y)' /\ slot'[y].conn = slot'[x].conn => y = x
    BY <1>5, <1>6, <2>1 DEF OneHolder
  <2>4. \A l \in Conns : conn'[l].phase = "held" => \E x \in Slots : slot'[x].conn = l
    BY <1>5, <1>10, <2>1 DEF OneHolder
  <2>5. QED BY <2>2, <2>3, <2>4 DEF OneHolder
<1>12. UnheldUntouched'
  BY <1>3, <1>4 DEF ClientsOK, UnheldUntouched, Untouched
<1>13. HeldOK'
  <2> SUFFICES ASSUME NEW x \in Slots, Active(x)
               PROVE  ClientOK(slot'[x], conn'[slot[x].conn],
                               published'[slot[x].conn], sentTo'[slot[x].conn])
    BY <1>5, <1>6 DEF HeldOK
  <2>1. CASE x = s
    BY <1>3, <1>4, <2>1
  <2>2. CASE x # s
    <3>1. slot[x].conn \in Conns /\ slot[x].conn # k
      BY <1>7, <1>8, <2>2
    <3>2. ClientOK(slot[x], conn[slot[x].conn], published[slot[x].conn],
                   sentTo[slot[x].conn])
      BY HeldBy
    <3>3. QED BY <1>3, <1>4, <2>2, <3>1, <3>2
  <2>3. QED BY <2>1, <2>2
<1>14. QED BY <1>2, <1>11, <1>12, <1>13 DEF ClientsOK

\* What a fresh connection and a free slot are worth
LEMMA FreshTypes ==
    /\ FreshConn \in ConnRecords /\ FreeSlot \in SlotRecords
    /\ FreeSlot.conn = NoConn
    /\ [t \in Transports |-> <<>>] \in [Transports -> Publications]
<1>1. <<>> \in Seq(Units) /\ <<>> \in Publications
  BY DEF Publications
<1> HIDE DEF Units
<1>2. FreshConn \in ConnRecords
  BY <1>1 DEF FreshConn, ConnRecords
<1>3. FreeSlot \in SlotRecords /\ FreeSlot.conn = NoConn
  BY <1>1 DEF FreeSlot, SlotRecords
<1> HIDE DEF Publications
<1>4. QED BY <1>1, <1>2, <1>3

\* Connections end, with the slots that held them.
LEMMA Disconnects ==
    ASSUME ClientsOK, NEW K \in SUBSET Conns, Disconnected(K),
           slot' = [x \in Slots |-> slot'[x]],
           \A x \in Slots :
               \/ slot'[x] = slot[x] /\ slot[x].conn \notin K
               \/ slot'[x] = FreeSlot /\ slot[x].conn \in K \cup {NoConn},
           nextId' \in Nat, frames' \in Nat, nextId <= nextId' \/ K = Conns
    PROVE  ClientsOK'
<1> USE LocalSocketAssumption
<1>1. /\ \A k \in K : /\ conn'[k] = FreshConn /\ sentTo'[k] = <<>>
                      /\ published'[k] = [t \in Transports |-> <<>>]
      /\ \A k \in Conns \ K : /\ conn'[k] = conn[k] /\ sentTo'[k] = sentTo[k]
                              /\ published'[k] = published[k]
  BY DEF Disconnected
<1>2. DataTypeOK'
  <2>1. \A k \in Conns : /\ conn'[k] \in ConnRecords
                         /\ published'[k] \in [Transports -> Publications]
    BY <1>1, FreshTypes DEF ClientsOK, DataTypeOK
  <2>2. conn' \in [Conns -> ConnRecords]
        /\ published' \in [Conns -> [Transports -> Publications]]
    <3>1. conn' = [k \in Conns |-> conn'[k]]
          /\ published' = [k \in Conns |-> published'[k]]
      BY DEF Disconnected
    <3>2. QED BY <2>1, <3>1
  <2>3. sentTo' \in [Conns -> Seq(Nat)]
    BY DEF Disconnected, ClientsOK, DataTypeOK
  <2>4. \A x \in Slots : slot'[x] \in SlotRecords
    BY FreshTypes DEF ClientsOK, DataTypeOK
  <2>5. slot' \in [Slots -> SlotRecords]
    BY <2>4
  <2>6. QED BY <2>2, <2>3, <2>5 DEF DataTypeOK
<1>3. \A x \in Slots : Active(x)' => /\ Active(x) /\ slot'[x] = slot[x]
                                     /\ slot[x].conn \in Conns \ K
  BY FreshTypes, HeldBy DEF Active
<1>4. \A x \in Slots : slot[x].conn \in Conns \ K => slot'[x] = slot[x]
  OBVIOUS
<1>5. OneHolder'
  <2>1. \A x \in Slots : Active(x)' => conn'[slot'[x].conn].phase = "held"
    BY <1>1, <1>3, HeldBy
  <2>2. \A s, x \in Slots : Active(s)' /\ slot'[s].conn = slot'[x].conn => s = x
    <3> SUFFICES ASSUME NEW s \in Slots, NEW x \in Slots, Active(s)',
                        slot'[s].conn = slot'[x].conn
                 PROVE  s = x
      OBVIOUS
    <3>1. Active(x)'
      BY DEF Active
    <3>2. QED BY <1>3, <3>1 DEF ClientsOK, OneHolder
  <2>3. \A k \in Conns : conn'[k].phase = "held" => \E s \in Slots : slot'[s].conn = k
    <3> SUFFICES ASSUME NEW k \in Conns, conn'[k].phase = "held"
                 PROVE  \E s \in Slots : slot'[s].conn = k
      OBVIOUS
    <3>1. k \notin K
      BY <1>1 DEF FreshConn
    <3>2. PICK s \in Slots : slot[s].conn = k
      BY <1>1, <3>1 DEF ClientsOK, OneHolder
    <3>3. QED BY <1>4, <3>1, <3>2
  <2>4. QED BY <2>1, <2>2, <2>3 DEF OneHolder
<1>6. UnheldUntouched'
  <2> SUFFICES ASSUME NEW k \in Conns, conn'[k].phase # "held"
               PROVE  Untouched(k)'
    BY DEF UnheldUntouched
  <2>1. CASE k \in K
    <3>1. FreshConn.phase = "none" /\ FreshConn.kernel = <<>> /\ FreshConn.got = <<>>
      BY DEF FreshConn
    <3>2. QED BY <1>1, <2>1, <3>1 DEF Untouched
  <2>2. CASE k \notin K
    BY <1>1, <2>2 DEF ClientsOK, UnheldUntouched, Untouched
  <2>3. QED BY <2>1, <2>2
<1>7. HeldOK'
  <2> SUFFICES ASSUME NEW x \in Slots, Active(x)'
               PROVE  ClientOK(slot'[x], conn'[slot'[x].conn],
                               published'[slot'[x].conn], sentTo'[slot'[x].conn])
    BY DEF HeldOK
  <2>1. Active(x) /\ slot'[x] = slot[x] /\ slot[x].conn \in Conns \ K
    BY <1>3
  <2>2. QED BY <1>1, <2>1, HeldBy
<1>8. Numbered'
  <2>1. \A k \in Conns : \A i, x \in Nat : Given(k, i, x)' => k \notin K /\ Given(k, i, x)
    <3> SUFFICES ASSUME NEW k \in Conns, NEW i \in Nat, NEW x \in Nat, Given(k, i, x)'
                 PROVE  k \notin K /\ Given(k, i, x)
      OBVIOUS
    <3>1. CASE \E t \in Transports : i \in 1..Len(published'[k][t])
                                     /\ published'[k][t][i].id = x
      <4>1. PICK t \in Transports : i \in 1..Len(published'[k][t])
                                     /\ published'[k][t][i].id = x
        BY <3>1
      <4>2. k \notin K
        BY <1>1, <4>1
      <4>3. QED BY <1>1, <4>1, <4>2 DEF Given
    <3>2. CASE \E s \in Slots : /\ slot'[s].conn = k /\ slot'[s].pending
                                /\ slot'[s].rec = i /\ slot'[s].id = x
      <4>1. PICK s \in Slots : /\ slot'[s].conn = k /\ slot'[s].pending
                               /\ slot'[s].rec = i /\ slot'[s].id = x
        BY <3>2
      <4>2. Active(s)'
        BY <4>1 DEF Active
      <4>3. QED BY <1>3, <4>1, <4>2 DEF Given
    <3>3. QED BY <3>1, <3>2 DEF Given
  <2>2. CASE K = Conns
    BY <2>1, <2>2 DEF Numbered
  <2>3. CASE nextId <= nextId'
    <3>1. Numbered /\ nextId \in Nat
      BY DEF ClientsOK, DataTypeOK
    <3>2. \A k \in Conns : \A i, x \in Nat : Given(k, i, x)' => Given(k, i, x)
      BY <2>1
    <3>3. QED BY <2>3, <3>1, <3>2, KeepsNumbers
  <2>4. QED BY <2>2, <2>3
<1>9. QED BY <1>2, <1>5, <1>6, <1>7, <1>8 DEF ClientsOK

\* A client is closed.
LEMMA Closes ==
    ASSUME ClientsOK, NEW s \in Slots, Active(s), NEW why, close_client(s, why),
           nextId' \in Nat, frames' \in Nat, nextId <= nextId'
    PROVE  /\ ClientsOK'
           /\ slot'[s] = FreeSlot
           /\ \A x \in Slots : x # s => slot'[x] = slot[x]
           /\ \A x \in Slots : x # s /\ Active(x) =>
                 conn'[slot[x].conn] = conn[slot[x].conn]
<1>1. slot[s].conn \in Conns /\ {slot[s].conn} \in SUBSET Conns
  BY HeldBy
<1>2. slot \in [Slots -> SlotRecords] /\ slot' = [slot EXCEPT ![s] = FreeSlot]
      /\ Disconnected({slot[s].conn})
  BY DEF ClientsOK, DataTypeOK, close_client
<1>3. \A x \in Slots : x # s => slot'[x] = slot[x] /\ slot[x].conn # slot[s].conn
  BY <1>2 DEF ClientsOK, OneHolder
<1>4. ClientsOK'
  <2>1. slot' = [x \in Slots |-> slot'[x]]
    BY <1>2
  <2>2. \A x \in Slots :
          \/ slot'[x] = slot[x] /\ slot[x].conn \notin {slot[s].conn}
          \/ slot'[x] = FreeSlot /\ slot[x].conn \in {slot[s].conn} \cup {NoConn}
    BY <1>2, <1>3
  <2>3. QED BY <1>1, <1>2, <2>1, <2>2, Disconnects
<1>5. \A x \in Slots : x # s /\ Active(x) =>
        conn'[slot[x].conn] = conn[slot[x].conn]
  <2> SUFFICES ASSUME NEW x \in Slots, x # s, Active(x)
               PROVE  conn'[slot[x].conn] = conn[slot[x].conn]
    OBVIOUS
  <2>1. conn' = [k \in Conns |-> IF k \in {slot[s].conn} THEN FreshConn ELSE conn[k]]
    BY <1>2 DEF Disconnected
  <2>2. slot[x].conn \in Conns
    BY HeldBy
  <2>3. QED BY <1>3, <2>1, <2>2
<1>6. QED BY <1>2, <1>3, <1>4, <1>5

\* A connection from the backlog gets a free slot.
LEMMA Admits ==
    ASSUME ClientsOK, NEW s \in Slots, ~Active(s),
           NEW k \in Conns, conn[k].phase = "backlog",
           conn' = [conn EXCEPT ![k].phase = "held"],
           slot' = [slot EXCEPT ![s] = [FreeSlot EXCEPT !.conn = k]],
           UNCHANGED <<published, sentTo, nextId, frames>>
    PROVE  ClientsOK'
<1> USE LocalSocketAssumption
<1> DEFINE h == [conn[k] EXCEPT !.phase = "held"]
           d == [FreeSlot EXCEPT !.conn = k]
<1>1. conn[k] \in ConnRecords /\ Untouched(k) /\ Follows(conn[k], 0)
  BY DEF ClientsOK, DataTypeOK, UnheldUntouched, Untouched
<1>2. /\ h \in ConnRecords /\ h.phase = "held" /\ h.kernel = <<>> /\ h.got = <<>>
      /\ h.wire = conn[k].wire /\ h.sent = conn[k].sent /\ h.half = conn[k].half
  BY <1>1 DEF ConnRecords, Untouched
<1>3. /\ d \in SlotRecords /\ d.conn = k /\ d.have = 0 /\ d.registered = FALSE
      /\ d.pending = FALSE /\ d.progress = {} /\ d.output = <<>> /\ d.offset = 0
  BY FreshTypes DEF FreeSlot, SlotRecords
<1>4. /\ conn \in [Conns -> ConnRecords] /\ slot \in [Slots -> SlotRecords]
      /\ conn' = [conn EXCEPT ![k] = h] /\ slot' = [slot EXCEPT ![s] = d]
  BY DEF ClientsOK, DataTypeOK
<1> HIDE DEF h, d
<1>5. /\ conn'[k] = h /\ \A l \in Conns : l # k => conn'[l] = conn[l]
      /\ slot'[s] = d /\ \A x \in Slots : x # s => slot'[x] = slot[x]
  BY <1>4
<1>6. DataTypeOK'
  <2>1. conn' \in [Conns -> ConnRecords]
    BY <1>2, <1>4
  <2>2. slot' \in [Slots -> SlotRecords]
    BY <1>3, <1>4
  <2>3. QED BY <2>1, <2>2 DEF ClientsOK, DataTypeOK
<1>7. \A x \in Slots : Active(x) => /\ x # s /\ slot[x].conn \in Conns \ {k}
                                    /\ conn[slot[x].conn].phase = "held"
  <2>1. \A x \in Slots : Active(x) => slot[x].conn \in Conns
                                       /\ conn[slot[x].conn].phase = "held"
    BY HeldBy
  <2>2. QED BY <2>1
<1>8. \A x \in Slots : Active(x)' => x = s \/ Active(x)
  BY <1>5 DEF Active
<1>9. \A x \in Slots : x # s /\ slot[x].conn = k => FALSE
  BY <1>7 DEF Active
<1>10. OneHolder'
  <2>1. \A x \in Slots : Active(x)' => conn'[slot'[x].conn].phase = "held"
    BY <1>2, <1>3, <1>5, <1>7, <1>8
  <2>2. \A y, x \in Slots : Active(y)' /\ slot'[y].conn = slot'[x].conn => y = x
    <3> SUFFICES ASSUME NEW y \in Slots, NEW x \in Slots, Active(y)',
                        slot'[y].conn = slot'[x].conn
                 PROVE  y = x
      OBVIOUS
    <3>1. CASE y = s
      BY <1>3, <1>5, <1>9, <3>1
    <3>2. CASE x = s /\ y # s
      BY <1>3, <1>5, <1>9, <3>2
    <3>3. CASE x # s /\ y # s
      BY <1>5, <1>8, <3>3 DEF ClientsOK, OneHolder
    <3>4. QED BY <3>1, <3>2, <3>3
  <2>3. \A l \in Conns : conn'[l].phase = "held" => \E x \in Slots : slot'[x].conn = l
    <3> SUFFICES ASSUME NEW l \in Conns, conn'[l].phase = "held"
                 PROVE  \E x \in Slots : slot'[x].conn = l
      OBVIOUS
    <3>1. CASE l = k
      BY <1>3, <1>5, <3>1
    <3>2. CASE l # k
      <4>1. PICK x \in Slots : slot[x].conn = l
        BY <1>5, <3>2 DEF ClientsOK, OneHolder
      <4>2. x # s
        BY <4>1 DEF Active
      <4>3. QED BY <1>5, <4>1, <4>2
    <3>3. QED BY <3>1, <3>2
  <2>4. QED BY <2>1, <2>2, <2>3 DEF OneHolder
<1>11. UnheldUntouched'
  BY <1>2, <1>5 DEF ClientsOK, UnheldUntouched, Untouched
<1>12. ClientOK(d, h, published[k], sentTo[k])
  <2>1. ReadsOn(d, h, published[k])
    <3>1. Within(d, 0)
      BY <1>3 DEF Within
    <3>2. Follows(h, Place(d, 0))
      BY <1>1, <1>2, <1>3 DEF Follows, Place
    <3>3. \A t \in Transports : Len(published[k][t]) = 0 + Taken(d, t)
      BY <1>1, <1>3 DEF Untouched, Taken
    <3>4. QED BY <3>1, <3>2, <3>3 DEF ReadsOn
  <2>2. InOrder(published[k])
    BY <1>1 DEF Untouched, InOrder
  <2>3. KeepsFrames(d, h, sentTo[k])
    <3>1. Waiting(d) = <<>>
      BY <1>3 DEF Waiting, Part
    <3>2. FramesOf(sentTo[k]) = <<>>
      BY <1>1 DEF Untouched, FramesOf
    <3>3. Cat(Cat(<<>>, <<>>), <<>>) = <<>> /\ Len(<<>>) = 0
      BY DEF Cat
    <3>4. QED BY <1>2, <1>3, <3>1, <3>2, <3>3 DEF KeepsFrames
  <2>4. QED BY <2>1, <2>2, <2>3 DEF ClientOK
<1>13. HeldOK'
  <2> SUFFICES ASSUME NEW x \in Slots, Active(x)'
               PROVE  ClientOK(slot'[x], conn'[slot'[x].conn],
                               published[slot'[x].conn], sentTo[slot'[x].conn])
    BY DEF HeldOK
  <2>1. CASE x = s
    BY <1>3, <1>5, <1>12, <2>1
  <2>2. CASE x # s
    <3>1. Active(x) /\ slot'[x] = slot[x]
      BY <1>5, <1>8, <2>2
    <3>2. conn'[slot[x].conn] = conn[slot[x].conn]
      BY <1>5, <1>7, <3>1
    <3>3. QED BY <3>1, <3>2, HeldBy
  <2>3. QED BY <2>1, <2>2
<1>14. \A l \in Conns : \A i, x \in Nat : Given(l, i, x)' => Given(l, i, x)
  <2>1. ~slot'[s].pending /\ \A y \in Slots : y # s => slot'[y] = slot[y]
    BY <1>3, <1>5
  <2>2. published' = published
    OBVIOUS
  <2>3. QED BY <2>1, <2>2 DEF Given
<1>15. Numbered'
  <2>1. Numbered /\ nextId \in Nat /\ nextId' \in Nat /\ nextId <= nextId'
    BY DEF ClientsOK, DataTypeOK
  <2>2. QED BY <1>14, <2>1, KeepsNumbers
<1>16. QED BY <1>6, <1>10, <1>11, <1>13, <1>15 DEF ClientsOK

-----------------------------------------------------------------------------
(* The helpers *)

\* A unit more on the wire
LEMMA WritesOn ==
    ASSUME NEW h \in ConnRecords, NEW g \in ConnRecords, NEW p \in Nat,
           Follows(h, p), NEW u \in Units, g.wire = Append(h.wire, u),
           g.half \in {0, g.sent + 1},
           p + Len(h.wire) + 1 = 2 + 2 * g.sent + (IF g.half = 0 THEN 0 ELSE 1),
           IsUnit(u, p + Len(h.wire) + 1)
    PROVE  Follows(g, p)
<1>1. h.wire \in Seq(Units)
  BY DEF ConnRecords
<1> HIDE DEF Units
<1>2. /\ Len(h.wire) \in Nat /\ Len(g.wire) = Len(h.wire) + 1
      /\ \A i \in 1..Len(h.wire) : g.wire[i] = h.wire[i]
      /\ g.wire[Len(h.wire) + 1] = u
  BY <1>1, AppendProperties
<1>3. \A i \in 1..Len(g.wire) : IsUnit(g.wire[i], p + i)
  <2> TAKE i \in 1..Len(g.wire)
  <2>1. CASE i \in 1..Len(h.wire)
    BY <1>2, <2>1 DEF Follows
  <2>2. CASE i = Len(h.wire) + 1
    <3>1. p + i = p + Len(h.wire) + 1
      BY <1>2, <2>2
    <3>2. QED BY <1>2, <2>2, <3>1
  <2>3. QED BY <1>2, <2>1, <2>2
<1>4. p + Len(g.wire) = p + Len(h.wire) + 1
  BY <1>2
<1>5. QED BY <1>3, <1>4 DEF Follows

\* Where a client stands is a place in the stream.
LEMMA PlaceIsNat ==
    ASSUME NEW c \in SlotRecords, NEW n \in Nat
    PROVE  Place(c, n) \in Nat
<1>1. c.have \in Nat
  BY DEF SlotRecords
<1>2. QED BY <1>1 DEF Place

\* What a helper writes is for the client to read.
LEMMA ReadsOnWritten ==
    ASSUME NEW h \in ConnRecords, NEW g \in ConnRecords,
           \A p \in Nat : Follows(h, p) => Follows(g, p),
           g.kernel = h.kernel, g.got = h.got,
           NEW c \in SlotRecords, NEW P, NEW S, ClientOK(c, h, P, S)
    PROVE  ClientOK(c, g, P, S)
<1>1. ReadsOn(c, g, P)
  BY PlaceIsNat DEF ClientOK, ReadsOn
<1>2. QED BY <1>1 DEF ClientOK, KeepsFrames

\* An action of a helper, by the connection it leaves
LEMMA ConnectOK ==
    ASSUME ClientsOK, NEW k \in Conns, NEW track \in Tracks, NEW valid \in {0, 1},
           Connect(k, track, valid)
    PROVE  ClientsOK'
<1> DEFINE w == <<Unit("type", valid), Unit("name", 1)>>
           h == [conn[k] EXCEPT !.phase = "backlog", !.track = track, !.wire = w]
<1>1. conn[k].phase = "none" /\ conn[k] = FreshConn /\ conn[k] \in ConnRecords
  BY DEF Connect, ClientsOK, DataTypeOK, UnheldUntouched, Untouched
<1>2. w \in Seq(Units) /\ Len(w) = 2 /\ w[1].kind = "type" /\ w[2].kind = "name"
  BY DEF Unit, Units
<1>3. /\ FreshConn.sent = 0 /\ FreshConn.half = 0 /\ FreshConn.kernel = <<>>
      /\ FreshConn.got = <<>>
  BY DEF FreshConn
<1> HIDE DEF w, Units
<1>4. /\ h \in ConnRecords /\ h.phase = "backlog" /\ h.wire = w /\ h.sent = 0
      /\ h.half = 0 /\ h.kernel = <<>> /\ h.got = <<>>
  BY <1>1, <1>2, <1>3 DEF ConnRecords
<1>5. conn' = [conn EXCEPT ![k] = h]
  BY DEF Connect, ClientsOK, DataTypeOK, w
<1>6. UNCHANGED <<slot, published, sentTo, nextId, frames>>
  BY DEF Connect, rest
<1> HIDE DEF h
<1>7. Follows(h, 0)
  <2>1. \A i \in 1..2 : IsUnit(w[i], 0 + i)
    <3>1. IsUnit(w[1], 1) /\ IsUnit(w[2], 2)
      BY <1>2 DEF IsUnit
    <3>2. \A i \in 1..2 : 0 + i = i /\ i \in {1, 2}
      OBVIOUS
    <3>3. QED BY <3>1, <3>2
  <2>2. 0 + Len(h.wire) = 2 + 2 * h.sent + (IF h.half = 0 THEN 0 ELSE 1)
    BY <1>2, <1>4
  <2>3. h.half \in {0, h.sent + 1} /\ 1..Len(h.wire) = 1..2
    BY <1>2, <1>4
  <2>4. QED BY <1>4, <2>1, <2>2, <2>3 DEF Follows
<1>8. QED BY <1>1, <1>4, <1>5, <1>6, <1>7, HelperActs

\* A record is begun ...
LEMMA WriteHeaderOK ==
    ASSUME ClientsOK, NEW k \in Conns, NEW valid \in {0, 1}, WriteHeader(k, valid)
    PROVE  ClientsOK'
<1> DEFINE g == conn[k]
           m == g.sent + 1
           u == Unit("header", valid * m)
           h == [g EXCEPT !.half = m, !.wire = Append(g.wire, u)]
<1>1. g \in ConnRecords /\ g.half = 0 /\ g.phase \in {"backlog", "held"}
  BY DEF ClientsOK, DataTypeOK, WriteHeader, Connected
<1>2. g.sent \in Nat /\ g.wire \in Seq(Units)
  BY <1>1 DEF ConnRecords
<1>3. m \in Nat \ {0} /\ valid * m \in {0, m}
  BY <1>2
<1>4. u \in Units /\ u.kind = "header" /\ u.n = valid * m
  BY <1>3 DEF Unit, Units
<1>5. conn' = [conn EXCEPT ![k] = h]
  BY DEF ClientsOK, DataTypeOK, WriteHeader
<1>6. UNCHANGED <<slot, published, sentTo, nextId, frames>>
  BY DEF WriteHeader, rest
<1> HIDE DEF u, Units
<1>7. Append(g.wire, u) \in Seq(Units)
  BY <1>2, <1>4, AppendProperties
<1>8. /\ h \in ConnRecords /\ h.wire = Append(g.wire, u) /\ h.half = m
      /\ h.sent = g.sent /\ h.kernel = g.kernel /\ h.got = g.got
      /\ h.phase = g.phase
  BY <1>1, <1>3, <1>7 DEF ConnRecords
<1> HIDE DEF h
<1>9. ASSUME NEW p \in Nat, Follows(g, p) PROVE Follows(h, p)
  <2>1. p + Len(g.wire) = 2 + 2 * g.sent
    BY <1>1, <1>2, <1>9 DEF Follows
  <2>2. p + Len(g.wire) + 1 = 2 * m + 1
    BY <1>2, <2>1
  <2>3. IsUnit(u, p + Len(g.wire) + 1)
    BY <1>3, <1>4, <2>2 DEF IsUnit
  <2>4. p + Len(g.wire) + 1 = 2 + 2 * h.sent + (IF h.half = 0 THEN 0 ELSE 1)
    BY <1>2, <1>3, <1>8, <2>1
  <2>5. h.half \in {0, h.sent + 1}
    BY <1>8
  <2> HIDE DEF g, m
  <2>6. QED BY <1>1, <1>4, <1>8, <1>9, <2>3, <2>4, <2>5, WritesOn
<1>10. h.phase = "backlog" => h.kernel = <<>> /\ h.got = <<>> /\ Follows(h, 0)
  BY <1>8, <1>9 DEF ClientsOK, UnheldUntouched, Untouched
<1>11. \A c \in SlotRecords : \A P, S : ClientOK(c, g, P, S) => ClientOK(c, h, P, S)
  <2> HIDE DEF g
  <2>1. QED BY <1>1, <1>8, <1>9, ReadsOnWritten
<1>12. /\ h.phase \in {"backlog", "held"} /\ (h.phase = "held" <=> conn[k].phase = "held")
       /\ \A c \in SlotRecords : \A P, S :
            h.phase = "held" /\ ClientOK(c, conn[k], P, S) => ClientOK(c, h, P, S)
  BY <1>1, <1>8, <1>11
<1> HIDE DEF m
<1>13. h \in ConnRecords
  BY <1>8
<1> HIDE DEF g
<1>14. QED BY <1>5, <1>6, <1>10, <1>12, <1>13, HelperActs

\* ... and is whole.
LEMMA WritePayloadOK ==
    ASSUME ClientsOK, NEW k \in Conns, WritePayload(k)
    PROVE  ClientsOK'
<1> DEFINE g == conn[k]
           u == Unit("payload", g.half)
           h == [g EXCEPT !.half = 0, !.sent = g.sent + 1, !.wire = Append(g.wire, u)]
<1>1. g \in ConnRecords /\ g.half # 0 /\ g.phase \in {"backlog", "held"}
  BY DEF ClientsOK, DataTypeOK, WritePayload, Connected
<1>2. g.sent \in Nat /\ g.wire \in Seq(Units) /\ g.half \in Nat
  BY <1>1 DEF ConnRecords
<1>3. u \in Units /\ u.kind = "payload" /\ u.n = g.half
  BY <1>2 DEF Unit, Units
<1>4. conn' = [conn EXCEPT ![k] = h]
  BY DEF ClientsOK, DataTypeOK, WritePayload
<1>5. UNCHANGED <<slot, published, sentTo, nextId, frames>>
  BY DEF WritePayload, rest
<1> HIDE DEF u, Units
<1>6. Append(g.wire, u) \in Seq(Units) /\ g.sent + 1 \in Nat
  BY <1>2, <1>3, AppendProperties
<1>7. /\ h \in ConnRecords /\ h.wire = Append(g.wire, u) /\ h.half = 0
      /\ h.sent = g.sent + 1 /\ h.kernel = g.kernel /\ h.got = g.got
      /\ h.phase = g.phase
  BY <1>1, <1>6 DEF ConnRecords
<1> HIDE DEF h
<1>8. ASSUME NEW p \in Nat, Follows(g, p) PROVE Follows(h, p)
  <2>1. g.half = g.sent + 1 /\ p + Len(g.wire) = 2 + 2 * g.sent + 1
    BY <1>1, <1>8 DEF Follows
  <2> Len(g.wire) \in Nat
    BY <1>2
  <2>2. /\ p + Len(g.wire) + 1 = 2 * g.half + 2 /\ g.half \in Nat \ {0}
        /\ p + Len(g.wire) + 1 = 2 + 2 * (g.sent + 1) + 0
    <3>1. \A a, b, c \in Nat : a + b = 2 + 2 * c + 1
             => a + b + 1 = 2 * (c + 1) + 2 /\ a + b + 1 = 2 + 2 * (c + 1) + 0
      OBVIOUS
    <3> HIDE DEF g
    <3>2. p + Len(g.wire) + 1 = 2 * (g.sent + 1) + 2
          /\ p + Len(g.wire) + 1 = 2 + 2 * (g.sent + 1) + 0
      BY <1>2, <2>1, <3>1
    <3>3. QED BY <1>1, <1>2, <2>1, <3>2
  <2>3. IsUnit(u, p + Len(g.wire) + 1)
    BY <1>3, <2>2 DEF IsUnit
  <2>4. p + Len(g.wire) + 1 = 2 + 2 * h.sent + (IF h.half = 0 THEN 0 ELSE 1)
    <3> HIDE DEF g
    <3>1. QED BY <1>7, <2>2
  <2> HIDE DEF g
  <2>5. QED BY <1>1, <1>3, <1>7, <1>8, <2>3, <2>4, WritesOn
<1>9. h.phase = "backlog" => h.kernel = <<>> /\ h.got = <<>> /\ Follows(h, 0)
  <2>1. g.phase = "backlog" => g.kernel = <<>> /\ g.got = <<>> /\ Follows(g, 0)
    BY DEF ClientsOK, UnheldUntouched, Untouched
  <2>2. QED BY <1>7, <1>8, <2>1
<1>10. \A c \in SlotRecords : \A P, S : ClientOK(c, g, P, S) => ClientOK(c, h, P, S)
  <2> HIDE DEF g
  <2>1. QED BY <1>1, <1>7, <1>8, ReadsOnWritten
<1>11. QED BY <1>1, <1>4, <1>5, <1>7, <1>9, <1>10, HelperActs

\* The helper takes what the kernel holds for it.
LEMMA HelperReadsOK ==
    ASSUME ClientsOK, NEW k \in Conns, HelperReads(k)
    PROVE  ClientsOK'
<1> USE LocalSocketAssumption
<1> DEFINE g == conn[k]
           h == [g EXCEPT !.got = g.got \o g.kernel, !.kernel = <<>>]
<1>1. g \in ConnRecords /\ g.kernel # <<>>
  BY DEF ClientsOK, DataTypeOK, HelperReads
<1>2. g.phase = "held"
  BY <1>1 DEF ClientsOK, UnheldUntouched, Untouched
<1>3. g.kernel \in Seq(Units) /\ g.got \in Seq(Units)
  BY <1>1 DEF ConnRecords
<1> HIDE DEF Units
<1>4. g.got \o g.kernel \in Seq(Units) /\ <<>> \in Seq(Units)
      /\ (g.got \o g.kernel) \o <<>> = g.got \o g.kernel
  BY <1>3, ConcatProperties, ConcatEmptySeq, EmptySeq
<1>5. conn' = [conn EXCEPT ![k] = h]
  BY DEF ClientsOK, DataTypeOK, HelperReads
<1>6. UNCHANGED <<slot, published, sentTo, nextId, frames>>
  BY DEF HelperReads, rest
<1>7. /\ h \in ConnRecords /\ h.wire = g.wire /\ h.half = g.half /\ h.sent = g.sent
      /\ h.got = g.got \o g.kernel /\ h.kernel = <<>> /\ h.phase = g.phase
  BY <1>1, <1>4 DEF ConnRecords
<1> HIDE DEF h
<1>8. ASSUME NEW c \in SlotRecords, NEW P, NEW S, ClientOK(c, g, P, S)
      PROVE  ClientOK(c, h, P, S)
  <2>1. ReadsOn(c, h, P) /\ InOrder(P)
    BY <1>7, <1>8 DEF ClientOK, ReadsOn, Follows
  <2>2. KeepsFrames(c, h, S)
    <3>1. KernelRoom \in Nat /\ Len(h.kernel) = 0
      BY <1>7
    <3>2. KeepsFrames(c, g, S)
      BY <1>8 DEF ClientOK
    <3>3. Cat(h.got, h.kernel) = Cat(g.got, g.kernel)
      BY <1>4, <1>7 DEF Cat
    <3>4. Len(h.kernel) <= KernelRoom
      BY <3>1
    <3>5. QED BY <3>2, <3>3, <3>4 DEF KeepsFrames
  <2>3. QED BY <2>1, <2>2 DEF ClientOK
<1>9. QED BY <1>2, <1>5, <1>6, <1>7, <1>8, HelperActs

\* The helper is gone; what it wrote is still to be read.
LEMMA HangUpOK ==
    ASSUME ClientsOK, NEW k \in Conns, HangUp(k)
    PROVE  ClientsOK'
<1> DEFINE g == conn[k]
           h == [g EXCEPT !.hup = TRUE]
<1>1. g \in ConnRecords /\ g.phase \in {"backlog", "held"}
  BY DEF ClientsOK, DataTypeOK, HangUp, Connected
<1>2. conn' = [conn EXCEPT ![k] = h]
  BY DEF ClientsOK, DataTypeOK, HangUp
<1>3. UNCHANGED <<slot, published, sentTo, nextId, frames>>
  BY DEF HangUp, rest
<1>4. /\ h \in ConnRecords /\ h.wire = g.wire /\ h.half = g.half /\ h.sent = g.sent
      /\ h.got = g.got /\ h.kernel = g.kernel /\ h.phase = g.phase
  BY <1>1 DEF ConnRecords
<1> HIDE DEF h
<1>5. h.phase = "backlog" => h.kernel = <<>> /\ h.got = <<>> /\ Follows(h, 0)
  BY <1>4 DEF ClientsOK, UnheldUntouched, Untouched, Follows
<1>6. ASSUME NEW c \in SlotRecords, NEW P, NEW S, ClientOK(c, g, P, S)
      PROVE  ClientOK(c, h, P, S)
  BY <1>4, <1>6 DEF ClientOK, ReadsOn, Follows, KeepsFrames
<1>7. QED BY <1>1, <1>2, <1>3, <1>4, <1>5, <1>6, HelperActs

-----------------------------------------------------------------------------
(* Output: what the kernel takes, and what a frame adds *)

\* A client that keeps what it has read and what it has published
SameInput(d, c) ==
    /\ d.conn = c.conn /\ d.have = c.have /\ d.registered = c.registered
    /\ d.rec = c.rec /\ d.pending = c.pending /\ d.id = c.id
    /\ d.progress = c.progress

\* The other clients, and the helpers at their ends
Undisturbed(s) ==
    \A x \in Slots \ {s} : Active(x) =>
        slot'[x] = slot[x] /\ conn'[slot[x].conn] = conn[slot[x].conn]

\* The count is within what waits and what the kernel has room for.
LEMMA FlushCountBounds ==
    ASSUME NEW c \in SlotRecords, NEW h \in ConnRecords, NEW k \in Conns,
           conn[k] = h, c.offset <= Len(c.output), Len(h.kernel) <= KernelRoom
    PROVE  /\ FlushCount(c, k) \in Nat
           /\ c.offset + FlushCount(c, k) <= Len(c.output)
           /\ Len(h.kernel) + FlushCount(c, k) <= KernelRoom
<1> USE LocalSocketAssumption
<1> DEFINE a == Len(c.output) - c.offset
           b == KernelRoom - Len(h.kernel)
           n == Min({a, b})
<1>1. c.offset \in Nat /\ c.output \in Seq(Units) /\ h.kernel \in Seq(Units)
  BY DEF SlotRecords, ConnRecords
<1>2. Len(c.output) \in Nat /\ Len(h.kernel) \in Nat /\ KernelRoom \in Nat
  BY <1>1
<1>3. a \in Nat /\ b \in Nat
  BY <1>1, <1>2
<1>4. n \in {a, b} /\ n <= a /\ n <= b
  <2> HIDE DEF a, b
  <2>1. {a, b} \subseteq Nat /\ {a, b} # {}
    BY <1>3
  <2>2. QED BY <2>1, MinOfNaturals
<1>5. FlushCount(c, k) = n
  BY DEF FlushCount
<1>6. c.offset + n <= Len(c.output) /\ Len(h.kernel) + n <= KernelRoom /\ n \in Nat
  <2>1. n \in Nat
    BY <1>3, <1>4
  <2>2. \A x, y, z \in Nat : z <= y - x => x + z <= y
    OBVIOUS
  <2> HIDE DEF n
  <2>3. QED BY <1>1, <1>2, <1>4, <2>1, <2>2
<1>7. QED BY <1>5, <1>6

\* Flushing moves units from the output to the kernel.
LEMMA FlushKeepsFrames ==
    ASSUME NEW c \in SlotRecords, NEW h \in ConnRecords, NEW S, KeepsFrames(c, h, S),
           NEW n \in Nat, c.offset + n <= Len(c.output),
           Len(h.kernel) + n <= KernelRoom,
           NEW g \in ConnRecords, g.got = h.got,
           g.kernel = Cat(h.kernel, Part(c.output, c.offset, c.offset + n)),
           NEW d \in SlotRecords,
           d.output = IF c.offset + n = Len(c.output) THEN <<>> ELSE c.output,
           d.offset = IF c.offset + n = Len(c.output) THEN 0 ELSE c.offset + n
    PROVE  KeepsFrames(d, g, S)
<1>1. c.offset \in Nat /\ c.output \in Seq(Units)
  BY DEF SlotRecords
<1>2. h.kernel \in Seq(Units) /\ h.got \in Seq(Units)
  BY DEF ConnRecords
<1> HIDE DEF Units
<1>3. Len(c.output) \in Nat
  BY <1>1
<1>4. /\ Len(g.kernel) = Len(h.kernel) + n
      /\ Cat(Cat(g.got, g.kernel), Part(c.output, c.offset + n, Len(c.output)))
           = Cat(Cat(h.got, h.kernel), Waiting(c))
  <2> DEFINE A == Part(c.output, c.offset, c.offset + n)
  <2>1. /\ Len(Cat(h.kernel, A)) = Len(h.kernel) + n
        /\ Cat(Cat(h.got, Cat(h.kernel, A)), Part(c.output, c.offset + n, Len(c.output)))
             = Cat(Cat(h.got, h.kernel), Part(c.output, c.offset, Len(c.output)))
    <3>1. PICK o : o = c.output
      OBVIOUS
    <3>2. PICK m : m = c.offset
      OBVIOUS
    <3>3. PICK a : a = h.got
      OBVIOUS
    <3>4. PICK b : b = h.kernel
      OBVIOUS
    <3>5. /\ o \in Seq(Units) /\ m \in Nat /\ a \in Seq(Units) /\ b \in Seq(Units)
          /\ m + n <= Len(o)
      BY <1>1, <1>2, <3>1, <3>2, <3>3, <3>4
    <3>6. /\ Len(Cat(b, Part(o, m, m + n))) = Len(b) + n
          /\ Cat(Cat(a, Cat(b, Part(o, m, m + n))), Part(o, m + n, Len(o)))
               = Cat(Cat(a, b), Part(o, m, Len(o)))
      BY <3>5, MovesOn
    <3>7. QED BY <3>1, <3>2, <3>3, <3>4, <3>6
  <2>2. g.kernel = Cat(h.kernel, A) /\ g.got = h.got
    OBVIOUS
  <2> HIDE DEF A
  <2>3. QED BY <2>1, <2>2 DEF Waiting
<1>5. Waiting(d) = Part(c.output, c.offset + n, Len(c.output))
  <2>1. CASE c.offset + n = Len(c.output)
    <3>1. Part(<<>>, 0, 0) = <<>> /\ Len(<<>>) = 0
      BY SubSeqEmpty DEF Part
    <3>2. Part(c.output, Len(c.output), Len(c.output)) = <<>>
      BY <1>3, SubSeqEmpty DEF Part
    <3>3. QED BY <2>1, <3>1, <3>2 DEF Waiting
  <2>2. CASE c.offset + n # Len(c.output)
    BY <2>2 DEF Waiting
  <2>3. QED BY <2>1, <2>2
<1>6. d.offset <= Len(d.output)
  BY <1>1, <1>3
<1>7. QED BY <1>4, <1>5, <1>6 DEF KeepsFrames

\* Output of a client goes to the kernel.
LEMMA FlushOK ==
    ASSUME ClientsOK, NEW s \in Slots, Active(s),
           NEW c \in SlotRecords, SameInput(c, slot[s]), NEW S \in Seq(Nat),
           KeepsFrames(c, conn[slot[s].conn], S),
           sentTo' = [sentTo EXCEPT ![slot[s].conn] = S],
           flush_client_output(s, c),
           UNCHANGED <<published, nextId>>, frames' \in Nat
    PROVE  /\ ClientsOK' /\ Undisturbed(s)
           /\ SameInput(slot'[s], slot[s])
           /\ conn'[slot[s].conn].hup = conn[slot[s].conn].hup
<1> DEFINE k == slot[s].conn
           n == FlushCount(c, k)
           done == c.offset + n = Len(c.output)
           A == Part(c.output, c.offset, c.offset + n)
           h == [conn[k] EXCEPT !.kernel = Cat(conn[k].kernel, A)]
           d == [c EXCEPT !.output = IF done THEN <<>> ELSE c.output,
                          !.offset = IF done THEN 0 ELSE c.offset + n]
<1>1. /\ k \in Conns /\ conn[k] \in ConnRecords /\ conn[k].phase = "held"
      /\ slot[s] \in SlotRecords /\ published[k] \in [Transports -> Publications]
      /\ ClientOK(slot[s], conn[k], published[k], sentTo[k])
      /\ c.conn = k
  BY HeldBy DEF SameInput
<1>2. /\ conn \in [Conns -> ConnRecords] /\ slot \in [Slots -> SlotRecords]
      /\ published \in [Conns -> [Transports -> Publications]] /\ nextId \in Nat
  BY DEF ClientsOK, DataTypeOK
<1>3. c.offset <= Len(c.output) /\ Len(conn[k].kernel) <= KernelRoom
  BY DEF KeepsFrames
<1>4. /\ n \in Nat /\ c.offset + n <= Len(c.output)
      /\ Len(conn[k].kernel) + n <= KernelRoom
  BY <1>1, <1>3, FlushCountBounds
<1>5. conn' = [conn EXCEPT ![k] = h] /\ slot' = [slot EXCEPT ![s] = d]
  BY <1>1, <1>2 DEF flush_client_output, Cat, Part
<1>6. /\ c.offset \in Nat /\ c.output \in Seq(Units) /\ Len(c.output) \in Nat
      /\ conn[k].kernel \in Seq(Units)
  <2>1. c.offset \in Nat /\ c.output \in Seq(Units)
    BY DEF SlotRecords
  <2>2. conn[k].kernel \in Seq(Units)
    BY <1>1 DEF ConnRecords
  <2> HIDE DEF Units
  <2>3. Len(c.output) \in Nat
    BY <2>1
  <2>4. QED BY <2>1, <2>2, <2>3
<1> HIDE DEF n
<1>7. Cat(conn[k].kernel, A) \in Seq(Units)
  <2> HIDE DEF Units
  <2>1. conn[k].kernel \in Seq(Units) /\ c.output \in Seq(Units)
    BY <1>6
  <2> HIDE DEF k
  <2>2. QED BY <1>4, <1>6, <2>1, MovesOn
<1>8. /\ h \in ConnRecords /\ h.phase = "held" /\ h.got = conn[k].got
      /\ h.kernel = Cat(conn[k].kernel, A) /\ h.wire = conn[k].wire
      /\ h.half = conn[k].half /\ h.sent = conn[k].sent /\ h.hup = conn[k].hup
  <2> HIDE DEF Units, A
  <2>1. QED BY <1>1, <1>7 DEF ConnRecords
<1>9. <<>> \in Seq(Units) /\ 0 \in Nat /\ c.offset + n \in Nat
  BY <1>4, <1>6
<1>10. /\ d \in SlotRecords /\ SameInput(d, slot[s]) /\ d.conn = k
       /\ d.output = IF done THEN <<>> ELSE c.output
       /\ d.offset = IF done THEN 0 ELSE c.offset + n
  <2> HIDE DEF Units, done
  <2>1. d \in SlotRecords
    BY <1>6, <1>9 DEF SlotRecords
  <2>2. /\ d.conn = c.conn /\ d.have = c.have /\ d.registered = c.registered
        /\ d.rec = c.rec /\ d.pending = c.pending /\ d.id = c.id
        /\ d.progress = c.progress
        /\ d.output = IF done THEN <<>> ELSE c.output
        /\ d.offset = IF done THEN 0 ELSE c.offset + n
    BY DEF SlotRecords
  <2> HIDE DEF d
  <2>3. QED BY <1>1, <2>1, <2>2 DEF SameInput
<1> HIDE DEF d, h
<1>11. ClientOK(d, h, published[k], S)
  <2>1. ReadsOn(d, h, published[k])
    <3>1. \A m \in Nat : /\ Within(d, m) <=> Within(slot[s], m)
                         /\ Place(d, m) = Place(slot[s], m)
      BY <1>10 DEF SameInput, Within, Place
    <3>2. \A t \in Transports : Taken(d, t) = Taken(slot[s], t)
      BY <1>10 DEF SameInput, Taken
    <3>3. \A p \in Nat : Follows(conn[k], p) => Follows(h, p)
      BY <1>8 DEF Follows
    <3>4. PICK m \in Nat : /\ Within(slot[s], m) /\ Follows(conn[k], Place(slot[s], m))
                           /\ \A t \in Transports :
                                Len(published[k][t]) = m + Taken(slot[s], t)
      BY <1>1 DEF ClientOK, ReadsOn
    <3>5. Place(slot[s], m) \in Nat
      BY <1>1, PlaceIsNat
    <3> HIDE DEF k
    <3>6. QED BY <3>1, <3>2, <3>3, <3>4, <3>5 DEF ReadsOn
  <2>2. KeepsFrames(d, h, S)
    <3> HIDE DEF k
    <3>1. QED BY <1>1, <1>4, <1>8, <1>10, FlushKeepsFrames DEF k
  <2>3. QED BY <1>1, <2>1, <2>2 DEF ClientOK
<1>12. Numbered'
  <2>1. slot'[s] = d /\ \A x \in Slots : x # s => slot'[x] = slot[x]
    BY <1>2, <1>5
  <2>2. \A l \in Conns : \A i, x \in Nat : Given(l, i, x)' => Given(l, i, x)
    BY <1>10, <2>1 DEF Given, SameInput
  <2>3. Numbered /\ nextId' \in Nat /\ nextId <= nextId'
    BY <1>2 DEF ClientsOK
  <2>4. QED BY <1>2, <2>2, <2>3, KeepsNumbers
<1>13. published' = [published EXCEPT ![k] = published[k]]
  BY <1>2
<1>14. ClientsOK'
  <2> HIDE DEF k
  <2>1. k = slot[s].conn
    BY DEF k
  <2>2. sentTo' = [sentTo EXCEPT ![k] = S] /\ nextId' \in Nat
    BY <1>2 DEF k
  <2>3. /\ slot' = [slot EXCEPT ![s] = d] /\ conn' = [conn EXCEPT ![k] = h]
        /\ published[k] \in [Transports -> Publications]
    BY <1>1, <1>5
  <2>4. d \in SlotRecords /\ d.conn = k /\ h \in ConnRecords /\ h.phase = "held"
    BY <1>8, <1>10
  <2>5. QED BY <1>11, <1>12, <1>13, <2>1, <2>2, <2>3, <2>4, ClientActs
<1>15. Undisturbed(s)
  <2> SUFFICES ASSUME NEW x \in Slots \ {s}, Active(x)
               PROVE  slot'[x] = slot[x] /\ conn'[slot[x].conn] = conn[slot[x].conn]
    BY DEF Undisturbed
  <2>1. slot[x].conn \in Conns \ {k}
    BY HeldBy DEF ClientsOK, OneHolder
  <2>2. QED BY <1>1, <1>2, <1>5, <2>1
<1>16. conn'[k].hup = conn[k].hup /\ slot'[s] = d
  BY <1>1, <1>2, <1>5, <1>8
<1>17. QED BY <1>10, <1>14, <1>15, <1>16

\* A frame is queued behind what waits.
LEMMA QueuesFrame ==
    ASSUME NEW c \in SlotRecords, NEW h \in ConnRecords, NEW S \in Seq(Nat),
           KeepsFrames(c, h, S), NEW f \in Nat
    PROVE  /\ Queued(c, f) \in SlotRecords /\ SameInput(Queued(c, f), c)
           /\ KeepsFrames(Queued(c, f), h, Append(S, f))
<1> DEFINE F == FrameUnits(f)
           W == Waiting(c)
           d == Queued(c, f)
           o == Cat(h.got, h.kernel)
<1>1. c.offset \in Nat /\ c.output \in Seq(Units)
  BY DEF SlotRecords
<1>2. h.kernel \in Seq(Units) /\ h.got \in Seq(Units)
  BY DEF ConnRecords
<1>3. F \in Seq(Units)
  BY DEF FrameUnits, Unit, Units
<1> HIDE DEF Units, F
<1>4. W \in Seq(Units)
  <2>1. Len(c.output) \in Nat /\ c.offset <= Len(c.output)
    BY <1>1 DEF KeepsFrames
  <2>2. Len(c.output) \in c.offset..Len(c.output)
    BY <1>1, <2>1
  <2>3. QED BY <1>1, <2>2, PartType DEF Waiting
<1>5. Cat(W, F) \in Seq(Units) /\ o \in Seq(Units)
  <2> HIDE DEF W
  <2>1. QED BY <1>2, <1>3, <1>4, CatType
<1>6. d = [c EXCEPT !.output = Cat(W, F), !.offset = 0]
  BY DEF Queued, Cat, Waiting, Part, F
<1> HIDE DEF d, W, o
<1>7. d \in SlotRecords /\ d.output = Cat(W, F) /\ d.offset = 0
  BY <1>5, <1>6 DEF SlotRecords
<1>8. SameInput(d, c)
  BY <1>6 DEF SlotRecords, SameInput
<1>9. Waiting(d) = Cat(W, F) /\ d.offset <= Len(d.output)
  <2>1. PICK q : q = Cat(W, F)
    OBVIOUS
  <2>2. SubSeq(q, 1, Len(q)) = q /\ Len(q) \in Nat
    BY <1>5, <2>1, SubSeqFull
  <2>3. 0 + 1 = 1
    OBVIOUS
  <2>4. QED BY <1>7, <2>1, <2>2, <2>3 DEF Waiting, Part
<1>10. Cat(o, Cat(W, F)) = Cat(Cat(o, W), F)
  BY <1>3, <1>4, <1>5, CatAssociates
<1>11. Cat(o, W) = FramesOf(S)
  BY DEF KeepsFrames, o, W
<1>12. FramesOf(Append(S, f)) = Cat(FramesOf(S), F)
  BY FramesOfAppend DEF F
<1>13. Cat(o, Waiting(d)) = FramesOf(Append(S, f))
  BY <1>9, <1>10, <1>11, <1>12
<1>14. KeepsFrames(d, h, Append(S, f))
  BY <1>9, <1>13 DEF KeepsFrames, o
<1>15. QED BY <1>7, <1>8, <1>14 DEF d

\* data_uds_send queues the frame, or closes the client.
LEMMA SendOK ==
    ASSUME ClientsOK, NEW track \in Tracks, data_uds_send(track)
    PROVE  ClientsOK'
<1> DEFINE s == Min(Targets(track))
           c == slot[s]
           k == c.conn
           S == Append(sentTo[k], frames')
<1>1. Targets(track) \subseteq {x \in Slots : Active(x)} /\ Targets(track) # {}
  BY DEF data_uds_send, Targets
<1>2. s \in Targets(track)
  <2>1. Targets(track) \subseteq Nat
    BY <1>1 DEF Slots
  <2>2. QED BY <1>1, <2>1, MinOfNaturals
<1>3. s \in Slots /\ Active(s)
  BY <1>1, <1>2
<1>4. frames' \in Nat /\ nextId' = nextId /\ nextId \in Nat
  BY DEF data_uds_send, ClientsOK, DataTypeOK
<1>5. \/ close_client(s, "overflow")
      \/ close_client(s, "write")
      \/ /\ sentTo' = [sentTo EXCEPT ![k] = S]
         /\ flush_client_output(s, Queued(c, frames'))
         /\ UNCHANGED published
  <2>1. sentTo' = [sentTo EXCEPT ![k] = Append(@, frames')]
          => sentTo' = [sentTo EXCEPT ![k] = S]
    BY <1>3, HeldBy DEF ClientsOK, DataTypeOK
  <2>2. QED BY <2>1 DEF data_uds_send
<1>6. CASE close_client(s, "overflow") \/ close_client(s, "write")
  <2> HIDE DEF s
  <2>1. nextId <= nextId' /\ nextId' \in Nat
    BY <1>4
  <2>2. QED BY <1>3, <1>4, <1>6, <2>1, Closes
<1>7. CASE /\ sentTo' = [sentTo EXCEPT ![k] = S]
           /\ flush_client_output(s, Queued(c, frames'))
           /\ UNCHANGED published
  <2>1. /\ c \in SlotRecords /\ k \in Conns /\ conn[k] \in ConnRecords
        /\ sentTo[k] \in Seq(Nat) /\ KeepsFrames(c, conn[k], sentTo[k])
    <3> HIDE DEF s
    <3>1. QED BY <1>3, HeldBy DEF ClientOK
  <2>2. S \in Seq(Nat)
    BY <1>4, <2>1
  <2>3. /\ Queued(c, frames') \in SlotRecords /\ SameInput(Queued(c, frames'), c)
        /\ KeepsFrames(Queued(c, frames'), conn[k], S)
    <3> HIDE DEF c, k
    <3>1. QED BY <1>4, <2>1, QueuesFrame
  <2>4. UNCHANGED <<published, nextId>>
    BY <1>4, <1>7
  <2> HIDE DEF s
  <2>5. QED BY <1>3, <1>4, <1>7, <2>2, <2>3, <2>4, FlushOK
<1>8. QED BY <1>5, <1>6, <1>7

-----------------------------------------------------------------------------
(* Input: what is read, and what is offered *)

\* Which unit stands at a place
LEMMA UnitAt ==
    ASSUME NEW u, NEW q \in Nat, IsUnit(u, q)
    PROVE  /\ q = 1 => u.kind = "type"
           /\ q = 2 => u.kind = "name"
           /\ \A m \in Nat \ {0} :
                /\ q = 2 * m + 1 => u.kind = "header" /\ u.n \in {0, m}
                /\ q = 2 * m + 2 => u.kind = "payload" /\ u.n = m
<1>1. \A m \in Nat \ {0} : /\ 2 * m + 1 # 1 /\ 2 * m + 1 # 2
                           /\ 2 * m + 2 # 1 /\ 2 * m + 2 # 2
  OBVIOUS
<1>2. \A m \in Nat \ {0} : \A l \in Nat \ {0} :
        /\ 2 * m + 1 # 2 * l + 2
        /\ 2 * m + 1 = 2 * l + 1 => m = l
        /\ 2 * m + 2 = 2 * l + 2 => m = l
  OBVIOUS
<1>3. QED BY <1>1, <1>2 DEF IsUnit

\* The next unit of a stream
LEMMA ReadsUnit ==
    ASSUME NEW g \in ConnRecords, NEW h \in ConnRecords, NEW p \in Nat,
           Follows(g, p), g.wire # <<>>, h.wire = Tail(g.wire),
           h.half = g.half, h.sent = g.sent
    PROVE  Follows(h, p + 1) /\ IsUnit(Head(g.wire), p + 1)
<1>1. g.wire \in Seq(Units)
  BY DEF ConnRecords
<1> HIDE DEF Units
<1>2. /\ Len(g.wire) \in Nat \ {0} /\ Len(h.wire) = Len(g.wire) - 1
      /\ Head(g.wire) = g.wire[1]
      /\ \A i \in 1..(Len(g.wire) - 1) : h.wire[i] = g.wire[i + 1]
  BY <1>1
<1>3. IsUnit(Head(g.wire), p + 1)
  BY <1>2 DEF Follows
<1>4. \A i \in 1..Len(h.wire) : IsUnit(h.wire[i], (p + 1) + i)
  <2> TAKE i \in 1..Len(h.wire)
  <2>1. /\ i \in 1..(Len(g.wire) - 1) /\ i + 1 \in 1..Len(g.wire)
        /\ (p + 1) + i = p + (i + 1)
    BY <1>2
  <2>2. h.wire[i] = g.wire[i + 1]
    BY <1>2, <2>1
  <2>3. QED BY <2>1, <2>2 DEF Follows
<1>5. (p + 1) + Len(h.wire) = p + Len(g.wire)
  <2>1. \A l \in Nat \ {0} : (p + 1) + (l - 1) = p + l
    OBVIOUS
  <2>2. QED BY <1>2, <2>1
<1>6. QED BY <1>3, <1>4, <1>5 DEF Follows

\* The client d is the client c, one unit further in record n + 1.
ReadOne(d, c, n) ==
    /\ d \in SlotRecords /\ d.conn = c.conn
    /\ d.pending = c.pending /\ d.progress = c.progress
    /\ d.output = c.output /\ d.offset = c.offset
    /\ Within(d, n) /\ Place(d, n) = Place(c, n) + 1

\* A unit that the daemon takes
Took(c, u) ==
    CASE u.kind = "type"    -> [c EXCEPT !.have = 1]
      [] u.kind = "name"    -> [c EXCEPT !.have = 0, !.registered = TRUE]
      [] u.kind = "header"  -> [c EXCEPT !.have = 1, !.rec = u.n]
      [] u.kind = "payload" -> [c EXCEPT !.have = 2]

\* The unit that is next is the one the client waits for.
LEMMA TakesUnit ==
    ASSUME NEW c \in SlotRecords, c.have < 2, NEW n \in Nat, Within(c, n),
           NEW u, IsUnit(u, Place(c, n) + 1), u.n # 0
    PROVE  ReadOne(Took(c, u), c, n)
<1> DEFINE d == Took(c, u)
<1>1. /\ c.have \in 0..2 /\ c.registered \in BOOLEAN /\ c.pending \in BOOLEAN
  BY DEF SlotRecords
<1> HIDE DEF Units
<1>2. ~c.pending /\ c.progress = {}
  BY <1>1 DEF Within
<1>3. c.have = 0 \/ c.have = 1
  BY <1>1
<1>4. n + 1 \in Nat \ {0} /\ Place(c, n) + 1 \in Nat
  BY PlaceIsNat
<1>5. CASE ~c.registered /\ c.have = 0
  <2>1. Place(c, n) + 1 = 1 /\ n = 0
    BY <1>5 DEF Place, Within
  <2>2. u.kind = "type"
    BY <1>4, <2>1, UnitAt
  <2>3. d = [c EXCEPT !.have = 1]
    BY <2>2 DEF Took
  <2> HIDE DEF d
  <2>4. d \in SlotRecords
    BY <2>3 DEF SlotRecords
  <2>5. /\ d.conn = c.conn /\ d.pending = c.pending /\ d.progress = c.progress
        /\ d.output = c.output /\ d.offset = c.offset /\ d.have = 1
        /\ d.registered = c.registered /\ d.rec = c.rec
    BY <2>3 DEF SlotRecords
  <2>6. Within(d, n)
    BY <1>2, <1>5, <2>1, <2>5 DEF Within
  <2>7. Place(d, n) = Place(c, n) + 1
    BY <1>5, <2>5 DEF Place
  <2>8. QED BY <2>4, <2>5, <2>6, <2>7 DEF ReadOne, d
<1>6. CASE ~c.registered /\ c.have = 1
  <2>1. Place(c, n) + 1 = 2 /\ n = 0
    BY <1>6 DEF Place, Within
  <2>2. u.kind = "name"
    BY <1>4, <2>1, UnitAt
  <2>3. d = [c EXCEPT !.have = 0, !.registered = TRUE]
    BY <2>2 DEF Took
  <2> HIDE DEF d
  <2>4. d \in SlotRecords
    <3>1. PICK b : b = [c EXCEPT !.have = 0]
      OBVIOUS
    <3>2. b \in SlotRecords
      BY <3>1 DEF SlotRecords
    <3>3. d = [b EXCEPT !.registered = TRUE]
      BY <2>3, <3>1
    <3>4. QED BY <3>2, <3>3 DEF SlotRecords
  <2>5. /\ d.conn = c.conn /\ d.pending = c.pending /\ d.progress = c.progress
        /\ d.output = c.output /\ d.offset = c.offset /\ d.have = 0
        /\ d.registered = TRUE
    BY <2>3 DEF SlotRecords
  <2>6. Within(d, n)
    BY <1>2, <2>5 DEF Within
  <2>7. Place(d, n) = Place(c, n) + 1
    BY <2>1, <2>5 DEF Place
  <2>8. QED BY <2>4, <2>5, <2>6, <2>7 DEF ReadOne, d
<1>7. CASE c.registered /\ c.have = 0
  <2>1. Place(c, n) + 1 = 2 * (n + 1) + 1
    BY <1>7 DEF Place
  <2>2. u.kind = "header" /\ u.n = n + 1
    BY <1>4, <2>1, UnitAt
  <2>3. d = [c EXCEPT !.have = 1, !.rec = n + 1]
    BY <2>2 DEF Took
  <2> HIDE DEF d
  <2>4. d \in SlotRecords
    <3>1. PICK b : b = [c EXCEPT !.have = 1]
      OBVIOUS
    <3>2. b \in SlotRecords
      BY <3>1 DEF SlotRecords
    <3>3. d = [b EXCEPT !.rec = n + 1] /\ n + 1 \in Nat
      BY <2>3, <3>1
    <3>4. QED BY <3>2, <3>3 DEF SlotRecords
  <2>5. /\ d.conn = c.conn /\ d.pending = c.pending /\ d.progress = c.progress
        /\ d.output = c.output /\ d.offset = c.offset /\ d.have = 1
        /\ d.registered = c.registered /\ d.rec = n + 1
    BY <2>3 DEF SlotRecords
  <2>6. Within(d, n)
    BY <1>2, <1>7, <2>5 DEF Within
  <2>7. Place(d, n) = Place(c, n) + 1
    BY <1>7, <2>5 DEF Place
  <2>8. QED BY <2>4, <2>5, <2>6, <2>7 DEF ReadOne, d
<1>8. CASE c.registered /\ c.have = 1
  <2>1. Place(c, n) + 1 = 2 * (n + 1) + 2
    BY <1>8 DEF Place
  <2>2. u.kind = "payload"
    BY <1>4, <2>1, UnitAt
  <2>3. d = [c EXCEPT !.have = 2]
    BY <2>2 DEF Took
  <2> HIDE DEF d
  <2>4. d \in SlotRecords
    BY <2>3 DEF SlotRecords
  <2>5. /\ d.conn = c.conn /\ d.pending = c.pending /\ d.progress = c.progress
        /\ d.output = c.output /\ d.offset = c.offset /\ d.have = 2
        /\ d.registered = c.registered /\ d.rec = c.rec
    BY <2>3 DEF SlotRecords
  <2>6. Within(d, n)
    BY <1>2, <1>8, <2>5 DEF Within
  <2>7. Place(d, n) = Place(c, n) + 1
    BY <1>8, <2>5 DEF Place
  <2>8. QED BY <2>4, <2>5, <2>6, <2>7 DEF ReadOne, d
<1>9. QED BY <1>1, <1>3, <1>5, <1>6, <1>7, <1>8

\* Closing a client leaves the others alone.
LEMMA ClosesOne ==
    ASSUME ClientsOK, NEW s \in Slots, Active(s), NEW why, close_client(s, why),
           nextId' \in Nat, frames' \in Nat, nextId <= nextId'
    PROVE  ClientsOK' /\ Undisturbed(s) /\ ~Active(s)'
<1>1. /\ ClientsOK' /\ slot'[s] = FreeSlot
      /\ \A x \in Slots : x # s => slot'[x] = slot[x]
      /\ \A x \in Slots : x # s /\ Active(x) =>
           conn'[slot[x].conn] = conn[slot[x].conn]
  BY Closes
<1>2. QED BY <1>1, FreshTypes DEF Undisturbed, Active

\* The daemon acts on a client and its helper keeps its end.
LEMMA UndisturbedBy ==
    ASSUME ClientsOK, NEW s \in Slots, Active(s), NEW d, NEW h,
           slot' = [slot EXCEPT ![s] = d],
           conn' = [conn EXCEPT ![slot[s].conn] = h], h.hup = conn[slot[s].conn].hup
    PROVE  Undisturbed(s) /\ slot'[s] = d
<1>1. conn \in [Conns -> ConnRecords] /\ slot \in [Slots -> SlotRecords]
  BY DEF ClientsOK, DataTypeOK
<1>2. slot[s].conn \in Conns
  BY HeldBy
<1>3. slot'[s] = d /\ \A x \in Slots : x # s => slot'[x] = slot[x]
  BY <1>1
<1>4. \A k \in Conns : k # slot[s].conn => conn'[k] = conn[k]
  BY <1>1, <1>2
<1>5. \A x \in Slots : x # s /\ Active(x) => slot[x].conn \in Conns \ {slot[s].conn}
  BY HeldBy DEF ClientsOK, OneHolder
<1>6. QED BY <1>3, <1>4, <1>5 DEF Undisturbed

\* A unit is read, or the client is closed for it.
LEMMA InputReadsOK ==
    ASSUME ClientsOK, NEW s \in Slots, Active(s), InputReads(s)
    PROVE  ClientsOK' /\ Undisturbed(s)
<1> DEFINE c == slot[s]
           k == c.conn
           g == conn[k]
           u == Head(g.wire)
           d == Took(c, u)
           h == [g EXCEPT !.wire = Tail(g.wire)]
<1>1. /\ k \in Conns /\ c \in SlotRecords /\ g \in ConnRecords /\ g.phase = "held"
      /\ published[k] \in [Transports -> Publications] /\ sentTo[k] \in Seq(Nat)
      /\ ReadsOn(c, g, published[k]) /\ InOrder(published[k])
      /\ KeepsFrames(c, g, sentTo[k])
  BY HeldBy DEF ClientOK
<1>2. /\ conn \in [Conns -> ConnRecords] /\ slot \in [Slots -> SlotRecords]
      /\ published \in [Conns -> [Transports -> Publications]]
      /\ sentTo \in [Conns -> Seq(Nat)] /\ nextId \in Nat /\ frames \in Nat
  BY DEF ClientsOK, DataTypeOK
<1>3. UNCHANGED <<nextId, frames>> /\ c.have < 2 /\ g.wire # <<>>
  BY DEF InputReads
<1>4. CASE u.n = 0
  <2>1. close_client(s, "invalid")
    BY <1>4 DEF InputReads, Fails
  <2>2. nextId' \in Nat /\ frames' \in Nat /\ nextId <= nextId'
    BY <1>2, <1>3
  <2>3. QED BY <2>1, <2>2, ClosesOne
<1>5. CASE u.n # 0
  <2>1. /\ slot' = [slot EXCEPT ![s] = d]
        /\ conn' = [conn EXCEPT ![k].wire = Tail(@)]
        /\ UNCHANGED <<published, sentTo>>
    BY <1>5 DEF InputReads, Took
  <2>2. conn' = [conn EXCEPT ![k] = h]
    BY <1>1, <1>2, <2>1
  <2>3. PICK n \in Nat : /\ Within(c, n) /\ Follows(g, Place(c, n))
                         /\ \A t \in Transports : Len(published[k][t]) = n + Taken(c, t)
    BY <1>1 DEF ReadsOn
  <2>4. g.wire \in Seq(Units)
    BY <1>1 DEF ConnRecords
  <2> HIDE DEF Units
  <2>5. Tail(g.wire) \in Seq(Units)
    BY <1>3, <2>4
  <2>6. /\ h \in ConnRecords /\ h.phase = g.phase /\ h.wire = Tail(g.wire)
        /\ h.half = g.half /\ h.sent = g.sent /\ h.hup = g.hup
        /\ h.kernel = g.kernel /\ h.got = g.got
    BY <1>1, <2>5 DEF ConnRecords
  <2> HIDE DEF h
  <2>7. Place(c, n) \in Nat
    BY <1>1, PlaceIsNat
  <2>8. Follows(h, Place(c, n) + 1) /\ IsUnit(u, Place(c, n) + 1)
    <3> HIDE DEF c, g
    <3>1. QED BY <1>1, <1>3, <2>3, <2>6, <2>7, ReadsUnit DEF u
  <2>9. ReadOne(d, c, n)
    <3> HIDE DEF c, u
    <3>1. QED BY <1>1, <1>3, <1>5, <2>3, <2>8, TakesUnit DEF d
  <2> HIDE DEF d
  <2>10. ~c.pending /\ ~d.pending
    BY <1>1, <1>3, <2>3, <2>9 DEF ReadOne, Within, SlotRecords
  <2>11. ClientOK(d, h, published[k], sentTo[k])
    <3>1. ReadsOn(d, h, published[k])
      <4>1. \A t \in Transports : Taken(d, t) = Taken(c, t)
        BY <2>10 DEF Taken
      <4>2. QED BY <2>3, <2>8, <2>9, <4>1 DEF ReadsOn, ReadOne
    <3>2. KeepsFrames(d, h, sentTo[k])
      BY <1>1, <2>6, <2>9 DEF KeepsFrames, ReadOne, Waiting
    <3>3. QED BY <1>1, <3>1, <3>2 DEF ClientOK
  <2>12. Numbered'
    <3>1. slot'[s] = d /\ \A x \in Slots : x # s => slot'[x] = slot[x]
      BY <1>2, <2>1
    <3>2. \A l \in Conns : \A i, x \in Nat : Given(l, i, x)' => Given(l, i, x)
      BY <2>1, <2>10, <3>1 DEF Given
    <3>3. Numbered /\ nextId' \in Nat /\ nextId <= nextId'
      BY <1>2, <1>3 DEF ClientsOK
    <3>4. QED BY <1>2, <3>2, <3>3, KeepsNumbers
  <2>13. /\ published' = [published EXCEPT ![k] = published[k]]
         /\ sentTo' = [sentTo EXCEPT ![k] = sentTo[k]]
    BY <1>2, <2>1
  <2>14. ClientsOK'
    <3>1. d \in SlotRecords /\ d.conn = k /\ h.phase = "held"
      BY <1>1, <2>6, <2>9 DEF ReadOne
    <3>2. nextId' \in Nat /\ frames' \in Nat
      BY <1>2, <1>3
    <3> HIDE DEF k
    <3>3. k = slot[s].conn
      BY DEF k
    <3>4. slot' = [slot EXCEPT ![s] = d] /\ conn' = [conn EXCEPT ![k] = h]
      BY <2>1, <2>2
    <3>5. /\ published[k] \in [Transports -> Publications] /\ sentTo[k] \in Seq(Nat)
          /\ h \in ConnRecords
      BY <1>1, <2>6
    <3> HIDE DEF c, g
    <3>6. QED BY <2>11, <2>12, <2>13, <3>1, <3>2, <3>3, <3>4, <3>5, ClientActs
  <2>15. Undisturbed(s)
    BY <2>1, <2>2, <2>6, UndisturbedBy
  <2>16. QED BY <2>14, <2>15
<1>6. QED BY <1>4, <1>5

\* At the end of the stream every record was published.
LEMMA EndOfStream ==
    ASSUME NEW c \in SlotRecords, NEW h \in ConnRecords, NEW P,
           ReadsOn(c, h, P), c.have < 2, h.wire = <<>>
    PROVE  \A t \in Transports : h.sent <= Len(P[t])
<1>1. PICK n \in Nat : /\ Within(c, n) /\ Follows(h, Place(c, n))
                       /\ \A t \in Transports : Len(P[t]) = n + Taken(c, t)
  BY DEF ReadsOn
<1>2. h.sent \in Nat /\ c.have \in {0, 1} /\ Len(h.wire) = 0
  BY DEF ConnRecords, SlotRecords
<1>3. \E x \in {0, 1} : Place(c, n) = 2 + 2 * h.sent + x
  <2>1. Place(c, n) + 0 = 2 + 2 * h.sent + (IF h.half = 0 THEN 0 ELSE 1)
    BY <1>1, <1>2 DEF Follows
  <2>2. Place(c, n) \in Nat
    BY <1>1, PlaceIsNat
  <2>3. QED BY <1>2, <2>1, <2>2
<1>4. h.sent = n
  <2>1. \A a \in Nat : \A b \in Nat : \A x \in {0, 1} : \A y \in {0, 1} :
          /\ 2 + 2 * a + x = 2 + 2 * b + y => b = a
          /\ x # 2 + 2 * b + y
    OBVIOUS
  <2>2. CASE c.registered
    BY <1>1, <1>2, <1>3, <2>1, <2>2 DEF Place
  <2>3. CASE ~c.registered
    BY <1>1, <1>2, <1>3, <2>1, <2>3 DEF Place
  <2>4. QED BY <2>2, <2>3
<1>5. QED BY <1>1, <1>4 DEF Taken

\* The end of the stream is met when every record was published.
LEMMA InputBlocksOK ==
    ASSUME ClientsOK, NEW s \in Slots, Active(s), ~cutOff, InputBlocks(s)
    PROVE  ClientsOK' /\ Undisturbed(s) /\ ~cutOff'
<1> DEFINE c == slot[s]
           k == c.conn
<1>1. nextId' = nextId /\ frames' = frames /\ nextId \in Nat /\ frames \in Nat
  BY DEF InputBlocks, ClientsOK, DataTypeOK
<1>2. CASE UNCHANGED <<slot, conn, published, sentTo, cutOff>>
  <2>1. ClientsOK'
    BY <1>1, <1>2, SameClients
  <2>2. QED BY <1>2, <2>1 DEF Undisturbed
<1>3. CASE /\ c.have < 2 /\ conn[k].wire = <<>>
           /\ Fails(s, "hangup")
  <2>1. close_client(s, "hangup")
    BY <1>3 DEF Fails
  <2>2. ClientsOK' /\ Undisturbed(s)
    BY <1>1, <2>1, ClosesOne
  <2>3. Settled(k, conn[k].sent)
    <3>1. c \in SlotRecords /\ conn[k] \in ConnRecords /\ ReadsOn(c, conn[k], published[k])
      BY HeldBy DEF ClientOK
    <3> HIDE DEF c, k
    <3>2. QED BY <1>3, <3>1, EndOfStream DEF Settled
  <2>4. ~cutOff'
    BY <2>1, <2>3 DEF close_client
  <2>5. QED BY <2>2, <2>4
<1>4. QED BY <1>2, <1>3 DEF InputBlocks

\* A record under a new identifier
LEMMA NewNumber ==
    ASSUME Numbered, nextId \in Nat, nextId' = nextId + 1,
           NEW k \in Conns, NEW m \in Nat, \A y \in Nat : ~Given(k, m, y),
           \A l \in Conns : \A i, x \in Nat :
               Given(l, i, x)' => Given(l, i, x) \/ (l = k /\ i = m /\ x = nextId)
    PROVE  Numbered'
<1>1. /\ \A l \in Conns : \A i, x \in Nat : Given(l, i, x) => x < nextId
      /\ \A l, o \in Conns : \A i, j, x, y \in Nat :
           Given(l, i, x) /\ Given(o, j, y) => (x = y <=> l = o /\ i = j)
  BY DEF Numbered
<1>2. \A l \in Conns : \A i, x \in Nat : Given(l, i, x)' => x < nextId'
  BY <1>1
<1>3. \A l \in Conns : \A i, x \in Nat : Given(l, i, x) => x # nextId
  BY <1>1
<1>4. ASSUME NEW l \in Conns, NEW o \in Conns, NEW i \in Nat, NEW j \in Nat,
             NEW x \in Nat, NEW y \in Nat, Given(l, i, x)', Given(o, j, y)'
      PROVE  x = y <=> l = o /\ i = j
  <2>1. CASE Given(l, i, x) /\ Given(o, j, y)
    BY <1>1, <2>1
  <2>2. CASE Given(l, i, x) /\ ~Given(o, j, y)
    <3>1. o = k /\ j = m /\ y = nextId
      BY <1>4, <2>2
    <3>2. x # y /\ ~(l = o /\ i = j)
      BY <1>3, <2>2, <3>1
    <3>3. QED BY <3>2
  <2>3. CASE ~Given(l, i, x) /\ Given(o, j, y)
    <3>1. l = k /\ i = m /\ x = nextId
      BY <1>4, <2>3
    <3>2. x # y /\ ~(l = o /\ i = j)
      BY <1>3, <2>3, <3>1
    <3>3. QED BY <3>2
  <2>4. CASE ~Given(l, i, x) /\ ~Given(o, j, y)
    BY <1>4, <2>4
  <2>5. QED BY <2>1, <2>2, <2>3, <2>4
<1>5. QED BY <1>2, <1>4 DEF Numbered

\* The record r is published on the transports took.
Adds(P, took, r) ==
    [t \in Transports |-> IF t \in took THEN Append(P[t], r) ELSE P[t]]

\* The types, the lengths and the elements of what is published then
LEMMA AddsRecord ==
    ASSUME NEW P \in [Transports -> Publications], NEW took \in SUBSET Transports,
           NEW r \in [rec : Nat, id : Nat]
    PROVE  /\ Adds(P, took, r) \in [Transports -> Publications]
           /\ \A t \in Transports :
                /\ Len(P[t]) \in Nat
                /\ Len(Adds(P, took, r)[t]) = Len(P[t]) + (IF t \in took THEN 1 ELSE 0)
                /\ \A i \in 1..Len(Adds(P, took, r)[t]) :
                     \/ i \in 1..Len(P[t]) /\ Adds(P, took, r)[t][i] = P[t][i]
                     \/ t \in took /\ i = Len(P[t]) + 1 /\ Adds(P, took, r)[t][i] = r
<1> DEFINE A == Adds(P, took, r)
<1>1. ASSUME NEW t \in Transports
      PROVE  /\ Len(P[t]) \in Nat /\ A[t] \in Publications
             /\ Len(A[t]) = Len(P[t]) + (IF t \in took THEN 1 ELSE 0)
             /\ \A i \in 1..Len(A[t]) :
                  \/ i \in 1..Len(P[t]) /\ A[t][i] = P[t][i]
                  \/ t \in took /\ i = Len(P[t]) + 1 /\ A[t][i] = r
  <2>1. P[t] \in Seq([rec : Nat, id : Nat])
    BY DEF Publications
  <2>2. PICK R : R = [rec : Nat, id : Nat]
    OBVIOUS
  <2>3. PICK p : p = P[t]
    OBVIOUS
  <2>4. p \in Seq(R) /\ r \in R
    BY <2>1, <2>2, <2>3
  <2>5. /\ Append(p, r) \in Seq(R) /\ Len(Append(p, r)) = Len(p) + 1
        /\ \A i \in 1..Len(p) : Append(p, r)[i] = p[i]
        /\ Append(p, r)[Len(p) + 1] = r /\ Len(p) \in Nat
    BY <2>4, AppendProperties
  <2>6. CASE t \in took
    <3>1. A[t] = Append(p, r)
      BY <2>3, <2>6 DEF Adds
    <3> HIDE DEF A
    <3>2. \A i \in 1..(Len(p) + 1) : i \in 1..Len(p) \/ i = Len(p) + 1
      BY <2>5
    <3>3. QED BY <2>2, <2>3, <2>5, <2>6, <3>1, <3>2 DEF Publications
  <2>7. CASE t \notin took
    <3>1. A[t] = p
      BY <2>3, <2>7 DEF Adds
    <3> HIDE DEF A
    <3>2. QED BY <2>2, <2>3, <2>4, <2>5, <2>7, <3>1 DEF Publications
  <2>8. QED BY <2>6, <2>7
<1>2. A \in [Transports -> Publications]
  <2>1. A = [t \in Transports |-> A[t]]
    BY DEF Adds
  <2> HIDE DEF A
  <2>2. QED BY <1>1, <2>1
<1>3. QED BY <1>1, <1>2 DEF A

\* The record of a client was taken everywhere, or waits where it was not.
Finished(c) ==
    [c EXCEPT !.have = 0, !.rec = 0, !.pending = FALSE, !.id = 0, !.progress = {}]

Left(c) == Transports \ (IF c.pending THEN c.progress ELSE {})

\* What the client is after its record was offered
Offered(d, c, took, id) ==
    \/ Left(c) \ took # {} /\ d = Progressed(c, took, id)
    \/ Left(c) \ took = {} /\ d = Finished(c)

\* Its fields, in either case
LEMMA OfferedFields ==
    ASSUME NEW c \in SlotRecords, NEW took \in SUBSET Transports, NEW id \in Nat,
           NEW d, Offered(d, c, took, id)
    PROVE  /\ d \in SlotRecords /\ d.conn = c.conn /\ d.registered = c.registered
           /\ d.output = c.output /\ d.offset = c.offset
           /\ \/ /\ Left(c) \ took # {} /\ d.pending /\ d.have = c.have
                 /\ d.rec = c.rec /\ d.id = id /\ d.progress = c.progress \cup took
              \/ /\ Left(c) \ took = {} /\ ~d.pending /\ d.have = 0
                 /\ d.progress = {}
<1> HIDE DEF Units
<1>1. CASE Left(c) \ took # {} /\ d = Progressed(c, took, id)
  <2>1. PICK b : b = [c EXCEPT !.pending = TRUE]
    OBVIOUS
  <2>2. b \in SlotRecords /\ b.progress = c.progress
    BY <2>1 DEF SlotRecords
  <2>3. PICK a : a = [b EXCEPT !.id = id]
    OBVIOUS
  <2>4. a \in SlotRecords /\ a.progress = c.progress
    BY <2>2, <2>3 DEF SlotRecords
  <2>5. d = [a EXCEPT !.progress = c.progress \cup took]
    BY <1>1, <2>1, <2>3, <2>4 DEF Progressed
  <2>6. c.progress \cup took \in SUBSET Transports
    BY DEF SlotRecords
  <2>7. d \in SlotRecords
    BY <2>4, <2>5, <2>6 DEF SlotRecords
  <2>8. /\ d.conn = c.conn /\ d.registered = c.registered
        /\ d.output = c.output /\ d.offset = c.offset
        /\ d.pending /\ d.have = c.have
        /\ d.rec = c.rec /\ d.id = id /\ d.progress = c.progress \cup took
    BY <1>1 DEF Progressed, SlotRecords
  <2>9. QED BY <1>1, <2>7, <2>8
<1>2. CASE Left(c) \ took = {} /\ d = Finished(c)
  <2>1. PICK b : b = [c EXCEPT !.have = 0]
    OBVIOUS
  <2>2. b \in SlotRecords
    BY <2>1 DEF SlotRecords
  <2>3. PICK a : a = [b EXCEPT !.rec = 0]
    OBVIOUS
  <2>4. a \in SlotRecords
    BY <2>2, <2>3 DEF SlotRecords
  <2>5. PICK e : e = [a EXCEPT !.pending = FALSE]
    OBVIOUS
  <2>6. e \in SlotRecords
    BY <2>4, <2>5 DEF SlotRecords
  <2>7. PICK f : f = [e EXCEPT !.id = 0]
    OBVIOUS
  <2>8. f \in SlotRecords
    BY <2>6, <2>7 DEF SlotRecords
  <2>9. d = [f EXCEPT !.progress = {}]
    BY <1>2, <2>1, <2>3, <2>5, <2>7 DEF Finished
  <2>10. d \in SlotRecords
    BY <2>8, <2>9 DEF SlotRecords
  <2>11. /\ d.conn = c.conn /\ d.registered = c.registered
         /\ d.output = c.output /\ d.offset = c.offset
         /\ ~d.pending /\ d.have = 0 /\ d.progress = {}
    BY <1>2 DEF Finished, SlotRecords
  <2>12. QED BY <1>2, <2>10, <2>11
<1>3. QED BY <1>1, <1>2 DEF Offered

\* A record is offered once to a transport, and the records stay in order.
LEMMA OffersRecord ==
    ASSUME NEW c \in SlotRecords, NEW h \in ConnRecords,
           NEW P \in [Transports -> Publications], NEW S, ClientOK(c, h, P, S),
           c.have = 2, NEW took \in SUBSET Left(c), NEW id \in Nat,
           NEW d, Offered(d, c, took, id), NEW r \in [rec : Nat, id : Nat],
           r.rec = c.rec
    PROVE  /\ ClientOK(d, h, Adds(P, took, r), S)
           /\ c.rec \in Nat
           /\ \A t \in took : Len(P[t]) + 1 = c.rec
           /\ ~c.pending => \A t \in Transports : Len(P[t]) < c.rec
<1> DEFINE A == Adds(P, took, r)
<1>1. PICK n \in Nat : /\ Within(c, n) /\ Follows(h, Place(c, n))
                       /\ \A t \in Transports : Len(P[t]) = n + Taken(c, t)
  BY DEF ClientOK, ReadsOn
<1>2. c.registered /\ c.rec = n + 1 /\ (~c.pending => c.progress = {})
  BY <1>1 DEF Within
<1>3. took \in SUBSET Transports
  BY DEF Left
<1>4. /\ d \in SlotRecords /\ d.conn = c.conn /\ d.registered = c.registered
      /\ d.output = c.output /\ d.offset = c.offset
      /\ \/ /\ Left(c) \ took # {} /\ d.pending /\ d.have = c.have
            /\ d.rec = c.rec /\ d.id = id /\ d.progress = c.progress \cup took
         \/ /\ Left(c) \ took = {} /\ ~d.pending /\ d.have = 0
            /\ d.progress = {}
  BY <1>3, OfferedFields
<1>5. \A t \in Transports :
        /\ Len(P[t]) \in Nat
        /\ Len(A[t]) = Len(P[t]) + (IF t \in took THEN 1 ELSE 0)
        /\ \A i \in 1..Len(A[t]) :
             \/ i \in 1..Len(P[t]) /\ A[t][i] = P[t][i]
             \/ t \in took /\ i = Len(P[t]) + 1 /\ A[t][i] = r
  BY <1>3, AddsRecord
<1> HIDE DEF A
<1>6. \A t \in took : Taken(c, t) = 0 /\ Len(P[t]) = n
  BY <1>1, <1>3 DEF Taken, Left
<1>7. \A t \in Transports \ took : Len(A[t]) = n + Taken(c, t)
  BY <1>1, <1>5
<1>8. \A t \in took : Len(A[t]) = n + 1
  BY <1>3, <1>5, <1>6
<1>9. ReadsOn(d, h, A)
  <2>1. CASE /\ d.pending /\ d.have = c.have /\ d.rec = c.rec
             /\ d.progress = c.progress \cup took
    <3>1. Within(d, n) /\ Place(d, n) = Place(c, n)
      BY <1>1, <1>2, <1>4, <2>1 DEF Within, Place
    <3>2. \A t \in Transports : Len(A[t]) = n + Taken(d, t)
      <4> TAKE t \in Transports
      <4>1. CASE t \in took
        BY <1>8, <2>1, <4>1 DEF Taken
      <4>2. CASE t \notin took
        <5>1. Taken(d, t) = Taken(c, t)
          BY <1>2, <2>1, <4>2 DEF Taken
        <5>2. QED BY <1>7, <4>2, <5>1
      <4>3. QED BY <4>1, <4>2
    <3>3. QED BY <1>1, <3>1, <3>2 DEF ReadsOn
  <2>2. CASE Left(c) \ took = {} /\ ~d.pending /\ d.have = 0 /\ d.progress = {}
    <3>1. Within(d, n + 1) /\ n + 1 \in Nat
      BY <1>2, <1>4, <2>2 DEF Within
    <3>2. Place(d, n + 1) = Place(c, n)
      BY <1>2, <1>4, <2>2 DEF Place
    <3>3. \A t \in Transports : Len(A[t]) = n + 1 + Taken(d, t)
      <4> TAKE t \in Transports
      <4>1. Taken(d, t) = 0
        BY <2>2 DEF Taken
      <4>2. CASE t \in took
        BY <1>8, <4>1, <4>2
      <4>3. CASE t \notin took
        <5>1. Taken(c, t) = 1
          BY <2>2, <4>3 DEF Taken, Left
        <5>2. QED BY <1>7, <4>1, <4>3, <5>1
      <4>4. QED BY <4>2, <4>3
    <3>4. QED BY <1>1, <3>1, <3>2, <3>3 DEF ReadsOn
  <2>3. QED BY <1>4, <2>1, <2>2
<1>10. InOrder(A)
  <2>1. InOrder(P)
    BY DEF ClientOK
  <2>2. ASSUME NEW t \in Transports, NEW i \in 1..Len(A[t])
        PROVE  A[t][i].rec = i
    <3>1. CASE i \in 1..Len(P[t]) /\ A[t][i] = P[t][i]
      BY <2>1, <3>1 DEF InOrder
    <3>2. CASE t \in took /\ i = Len(P[t]) + 1 /\ A[t][i] = r
      BY <1>2, <1>6, <3>2
    <3>3. QED BY <1>5, <3>1, <3>2
  <2>3. QED BY <2>2 DEF InOrder
<1>11. KeepsFrames(d, h, S)
  BY <1>4 DEF ClientOK, KeepsFrames, Waiting
<1>12. ClientOK(d, h, A, S)
  BY <1>9, <1>10, <1>11 DEF ClientOK
<1>13. \A t \in took : Len(P[t]) + 1 = c.rec
  BY <1>2, <1>6
<1>14. ~c.pending => \A t \in Transports : Len(P[t]) < c.rec
  <2>1. ~c.pending => \A t \in Transports : Taken(c, t) = 0
    BY DEF Taken
  <2>2. QED BY <1>1, <1>2, <2>1
<1>15. QED BY <1>2, <1>12, <1>13, <1>14 DEF A

\* A whole record is offered, and keeps its identifier until it was taken.
LEMMA OfferOK ==
    ASSUME ClientsOK, NEW s \in Slots, Active(s), NEW took \in SUBSET Transports,
           NEW failed \in {0} \cup Transports, Offer(s, took, failed)
    PROVE  ClientsOK' /\ Undisturbed(s)
<1> DEFINE c == slot[s]
           k == c.conn
           g == conn[k]
           P == published[k]
           S == sentTo[k]
           id == IF c.pending THEN c.id ELSE nextId
           r == [rec |-> c.rec, id |-> id]
           d == slot'[s]
           A == Adds(P, took, r)
<1>1. /\ k \in Conns /\ c \in SlotRecords /\ g \in ConnRecords /\ g.phase = "held"
      /\ P \in [Transports -> Publications] /\ S \in Seq(Nat)
      /\ ClientOK(c, g, P, S)
  BY HeldBy
<1>2. /\ conn \in [Conns -> ConnRecords] /\ slot \in [Slots -> SlotRecords]
      /\ published \in [Conns -> [Transports -> Publications]]
      /\ sentTo \in [Conns -> Seq(Nat)] /\ nextId \in Nat /\ frames \in Nat
      /\ Numbered
  BY DEF ClientsOK, DataTypeOK
<1>3. /\ c.have = 2 /\ took \in SUBSET Left(c) /\ frames' = frames
      /\ nextId' = IF c.pending THEN nextId ELSE nextId + 1
  BY DEF Offer, Left
<1>4. frames' \in Nat /\ nextId' \in Nat /\ nextId <= nextId'
  BY <1>2, <1>3
<1>5. CASE failed # 0
  <2>1. close_client(s, "failed")
    BY <1>5 DEF Offer, Fails
  <2>2. QED BY <1>4, <2>1, ClosesOne
<1>6. CASE failed = 0
  <2>1. /\ published' = [published EXCEPT ![k] =
                [t \in Transports |-> IF t \in took THEN Append(@[t], r) ELSE @[t]]]
        /\ UNCHANGED <<conn, sentTo>>
        /\ \/ /\ Left(c) \ took # {}
              /\ slot' = [slot EXCEPT ![s] = Progressed(c, took, id)]
           \/ /\ Left(c) \ took = {}
              /\ slot' = [slot EXCEPT ![s] = Finished(c)]
    BY <1>6 DEF Offer, Left, Finished
  <2>2. published' = [published EXCEPT ![k] = A]
    BY <1>1, <1>2, <2>1 DEF Adds
  <2>3. Offered(d, c, took, id) /\ slot' = [slot EXCEPT ![s] = d]
    BY <1>2, <2>1 DEF Offered
  <2>4. id \in Nat /\ c.rec \in Nat
    BY <1>1, <1>2 DEF SlotRecords
  <2>5. r \in [rec : Nat, id : Nat] /\ r.rec = c.rec /\ r.id = id
    BY <2>4
  <2>6. conn' = [conn EXCEPT ![k] = g] /\ sentTo' = [sentTo EXCEPT ![k] = S]
    BY <1>2, <2>1
  <2> HIDE DEF r, A, id, d
  <2>7. /\ ClientOK(d, g, A, S)
        /\ \A t \in took : Len(P[t]) + 1 = c.rec
        /\ ~c.pending => \A t \in Transports : Len(P[t]) < c.rec
    <3>1. /\ c \in SlotRecords /\ g \in ConnRecords
          /\ P \in [Transports -> Publications] /\ ClientOK(c, g, P, S)
          /\ c.have = 2 /\ took \in SUBSET Left(c) /\ id \in Nat
          /\ Offered(d, c, took, id)
      BY <1>1, <1>3, <2>3, <2>4
    <3>2. r \in [rec : Nat, id : Nat] /\ r.rec = c.rec
      BY <2>5
    <3> HIDE DEF c, g, P, S
    <3>3. /\ ClientOK(d, g, Adds(P, took, r), S)
          /\ c.rec \in Nat
          /\ \A t \in took : Len(P[t]) + 1 = c.rec
          /\ ~c.pending => \A t \in Transports : Len(P[t]) < c.rec
      BY <3>1, <3>2, OffersRecord
    <3>4. QED BY <3>3 DEF A
  <2>8. A \in [Transports -> Publications]
        /\ \A t \in Transports : \A i \in 1..Len(A[t]) :
             \/ i \in 1..Len(P[t]) /\ A[t][i] = P[t][i]
             \/ t \in took /\ i = Len(P[t]) + 1 /\ A[t][i] = r
    <3>1. P \in [Transports -> Publications] /\ r \in [rec : Nat, id : Nat]
      BY <1>1, <2>5
    <3> HIDE DEF P
    <3>2. /\ Adds(P, took, r) \in [Transports -> Publications]
          /\ \A t \in Transports :
               /\ Len(P[t]) \in Nat
               /\ Len(Adds(P, took, r)[t]) = Len(P[t]) + (IF t \in took THEN 1 ELSE 0)
               /\ \A i \in 1..Len(Adds(P, took, r)[t]) :
                    \/ i \in 1..Len(P[t]) /\ Adds(P, took, r)[t][i] = P[t][i]
                    \/ t \in took /\ i = Len(P[t]) + 1 /\ Adds(P, took, r)[t][i] = r
      BY <3>1, AddsRecord
    <3>3. A = Adds(P, took, r)
      BY DEF A
    <3>4. QED BY <3>2, <3>3
  <2>9. d \in SlotRecords /\ d.conn = k
        /\ (d.pending => d.rec = c.rec /\ d.id = id)
    <3>1. d \in SlotRecords /\ d.conn = c.conn
          /\ (d.pending => d.rec = c.rec /\ d.id = id)
      <4>1. c \in SlotRecords /\ id \in Nat /\ Offered(d, c, took, id)
        BY <1>1, <2>3, <2>4
      <4> HIDE DEF c
      <4>2. /\ d \in SlotRecords /\ d.conn = c.conn /\ d.registered = c.registered
            /\ d.output = c.output /\ d.offset = c.offset
            /\ \/ /\ Left(c) \ took # {} /\ d.pending /\ d.have = c.have
                  /\ d.rec = c.rec /\ d.id = id /\ d.progress = c.progress \cup took
               \/ /\ Left(c) \ took = {} /\ ~d.pending /\ d.have = 0
                  /\ d.progress = {}
        BY <4>1, OfferedFields
      <4>3. QED BY <4>2
    <3>2. QED BY <3>1
  <2>10. ASSUME NEW l \in Conns, NEW i \in Nat, NEW x \in Nat, Given(l, i, x)'
         PROVE  Given(l, i, x) \/ (l = k /\ i = c.rec /\ x = id)
    <3>1. CASE \E t \in Transports : /\ i \in 1..Len(published'[l][t])
                                     /\ published'[l][t][i].id = x
      <4>1. PICK t \in Transports : /\ i \in 1..Len(published'[l][t])
                                    /\ published'[l][t][i].id = x
        BY <3>1
      <4>2. CASE l # k
        <5>1. published'[l] = published[l]
          BY <1>2, <2>2, <4>2
        <5>2. QED BY <4>1, <5>1 DEF Given
      <4>3. CASE l = k
        <5>1. published'[l] = A
          BY <1>1, <1>2, <2>2, <4>3
        <5>2. CASE i \in 1..Len(P[t]) /\ A[t][i] = P[t][i]
          BY <4>1, <4>3, <5>1, <5>2 DEF Given
        <5>3. CASE t \in took /\ i = Len(P[t]) + 1 /\ A[t][i] = r
          BY <2>5, <2>7, <4>1, <4>3, <5>1, <5>3
        <5>4. QED BY <2>8, <4>1, <5>1, <5>2, <5>3
      <4>4. QED BY <4>2, <4>3
    <3>2. CASE \E y \in Slots : /\ slot'[y].conn = l /\ slot'[y].pending
                                /\ slot'[y].rec = i /\ slot'[y].id = x
      <4>1. PICK y \in Slots : /\ slot'[y].conn = l /\ slot'[y].pending
                               /\ slot'[y].rec = i /\ slot'[y].id = x
        BY <3>2
      <4>2. CASE y = s
        BY <2>9, <4>1, <4>2 DEF d
      <4>3. CASE y # s
        <5>1. slot'[y] = slot[y]
          BY <1>2, <2>3, <4>3
        <5>2. QED BY <4>1, <5>1 DEF Given
      <4>4. QED BY <4>2, <4>3
    <3>3. QED BY <2>10, <3>1, <3>2 DEF Given
  <2>11. Numbered'
    <3>1. CASE c.pending
      <4>1. Given(k, c.rec, id)
        BY <3>1 DEF Given, id
      <4>2. \A l \in Conns : \A i, x \in Nat : Given(l, i, x)' => Given(l, i, x)
        <5> HIDE DEF c, k
        <5>1. QED BY <2>10, <4>1
      <4>3. QED BY <1>2, <1>4, <4>2, KeepsNumbers
    <3>2. CASE ~c.pending
      <4>1. \A y \in Nat : ~Given(k, c.rec, y)
        <5>1. \A x \in Slots : slot[x].conn = k => x = s
          BY DEF ClientsOK, OneHolder, Active
        <5>2. \A t \in Transports : c.rec \notin 1..Len(P[t])
          <6>1. \A t \in Transports : Len(P[t]) < c.rec
            BY <2>7, <3>2
          <6>2. \A t \in Transports : Len(P[t]) \in Nat
            BY <1>1 DEF Publications
          <6> HIDE DEF P, c
          <6>3. QED BY <2>4, <6>1, <6>2
        <5>3. QED BY <3>2, <5>1, <5>2 DEF Given
      <4>2. id = nextId /\ nextId' = nextId + 1
        BY <1>3, <3>2 DEF id
      <4>3. \A l \in Conns : \A i, x \in Nat :
              Given(l, i, x)' => Given(l, i, x) \/ (l = k /\ i = c.rec /\ x = nextId)
        BY <2>10, <4>2
      <4> HIDE DEF k, c, id
      <4>4. QED BY <1>1, <1>2, <2>4, <4>1, <4>2, <4>3, NewNumber
    <3>3. QED BY <3>1, <3>2
  <2>12. ClientsOK'
    <3>1. slot' = [slot EXCEPT ![s] = d]
      BY <2>3
    <3> HIDE DEF k
    <3>2. k = slot[s].conn
      BY DEF k
    <3>3. d \in SlotRecords /\ d.conn = k /\ A \in [Transports -> Publications]
      BY <2>8, <2>9
    <3>4. g \in ConnRecords /\ g.phase = "held" /\ S \in Seq(Nat)
      BY <1>1
    <3> HIDE DEF c, g, P, S
    <3>5. QED BY <1>4, <2>2, <2>6, <2>7, <2>11, <3>1, <3>2, <3>3, <3>4, ClientActs
  <2>13. Undisturbed(s)
    <3>1. slot' = [slot EXCEPT ![s] = d]
      BY <2>3
    <3>2. conn' = [conn EXCEPT ![slot[s].conn] = g] /\ g.hup = conn[slot[s].conn].hup
      BY <2>6
    <3> HIDE DEF g
    <3>3. QED BY <3>1, <3>2, UndisturbedBy
  <2>14. QED BY <2>12, <2>13
<1>7. QED BY <1>5, <1>6

-----------------------------------------------------------------------------
(* Where the loop stands *)

\* Slots whose events were asked for, and slots whose events are due
Asked(x) == \/ pc.at = "poll"
            \/ pc.at = "retry" /\ x < pc.slot
            \/ pc.at = "input" /\ pc.back = "retry" /\ x < pc.slot

Due(x) == \/ pc.at = "accept"
          \/ pc.at = "serve" /\ x >= pc.slot
          \/ pc.at = "input" /\ pc.back = "serve" /\ x > pc.slot

PcRecords ==
    [at : {"transports", "retry", "poll", "accept", "serve", "input"},
     slot : 0..MaxClients, back : {"none", "retry", "serve"}, frames : Nat]

PcOK ==
    /\ pc \in PcRecords
    /\ pc.at \in {"retry", "serve", "input"} => pc.slot \in Slots
    /\ pc.at = "input" => Active(pc.slot) /\ pc.back # "none"

HasOutput(s) == slot[s].offset < Len(slot[s].output)

\* poll is asked about clients, and for room only while output waits.
AskedOK ==
    /\ want \in [Slots -> SUBSET {"in", "out"}]
    /\ \A x \in Slots : Asked(x) /\ want[x] # {} =>
         Active(x) /\ ("out" \in want[x] => HasOutput(x))

\* The helper hung up and left what it was sent in the kernel.
LeftUnread(s) == conn[slot[s].conn].hup /\ conn[slot[s].conn].kernel # <<>>

\* A hangup is never reported alone: what else was reported is served first.
\* An error means that something was left unread.
Reported(s, events) ==
    /\ Active(s)
    /\ "hup" \in events =>
         /\ conn[slot[s].conn].hup
         /\ "in" \in events \/ ("out" \in events /\ HasOutput(s))
    /\ "err" \in events => LeftUnread(s)

DueOK ==
    /\ revents \in [Slots -> SUBSET {"in", "out", "hup", "err"}]
    /\ \A x \in Slots : Due(x) /\ revents[x] # {} => Reported(x, revents[x])

LoopOK == PcOK /\ AskedOK /\ DueOK

\* What every step preserves
DataOwned == ClientsOK /\ LoopOK /\ ~cutOff

-----------------------------------------------------------------------------
(* The remaining steps on the clients *)

\* A client that took what it was sent is closed only by a read.
LEMMA ServeOK ==
    ASSUME DataOwned, NEW s \in Slots, Serve(s)
    PROVE  /\ ClientsOK' /\ Undisturbed(s) /\ ~cutOff'
           /\ "in" \in revents[s] /\ ~(pc'.at \in {"serve", "transports"}) => Active(s)'
<1> DEFINE c == slot[s]
           k == c.conn
<1>1. ClientsOK /\ ~cutOff /\ DueOK
  BY DEF DataOwned, LoopOK
<1>2. UNCHANGED <<nextId, frames>> /\ nextId \in Nat /\ frames \in Nat
  BY <1>1 DEF Serve, ClientsOK, DataTypeOK
<1>3. Due(s)
  <2>1. pc.at = "serve" /\ pc.slot = s /\ s \in Int
    BY DEF Serve, Slots
  <2>2. QED BY <2>1 DEF Due
<1>4. revents[s] # {} => Active(s)
  BY <1>1, <1>3 DEF DueOK, Reported
<1>5. CASE "err" \in revents[s] \/ ("out" \in revents[s] /\ ~CanWrite(c))
  <2>1. close_client(s, "hangup")
    BY <1>5 DEF Serve
  <2>2. Active(s)
    BY <1>4, <1>5
  <2>3. nextId' \in Nat /\ frames' \in Nat /\ nextId <= nextId'
    BY <1>2
  <2>4. ClientsOK' /\ Undisturbed(s)
    BY <1>1, <2>1, <2>2, <2>3, ClosesOne
  <2>5. ~cutOff'
    <3>1. ~TookAll(s)
      <4>1. CASE "err" \in revents[s]
        BY <1>1, <1>3, <4>1 DEF DueOK, Reported, LeftUnread, TookAll
      <4>2. CASE ~CanWrite(c)
        BY <4>2 DEF CanWrite, TookAll
      <4>3. QED BY <1>5, <4>1, <4>2
    <3>2. QED BY <1>1, <2>1, <3>1 DEF close_client
  <2>6. pc'.at \in {"serve", "transports"}
    BY <1>5 DEF Serve, NextSlot, Idle
  <2>7. QED BY <2>4, <2>5, <2>6
<1>6. CASE ~("err" \in revents[s] \/ ("out" \in revents[s] /\ ~CanWrite(c)))
  <2>1. ~HungUp(s)
    <3> SUFFICES ASSUME HungUp(s) PROVE FALSE
      OBVIOUS
    <3>1. "hup" \in revents[s] /\ "in" \notin revents[s]
      BY DEF HungUp
    <3>2. "out" \in revents[s] /\ HasOutput(s) /\ conn[k].hup
      BY <1>1, <1>3, <3>1 DEF DueOK, Reported
    <3>3. c.offset # Len(c.output)
      <4>1. c \in SlotRecords
        BY <1>1 DEF ClientsOK, DataTypeOK
      <4>2. c.offset \in Nat /\ Len(c.output) \in Nat
        BY <4>1 DEF SlotRecords
      <4>3. QED BY <3>2, <4>2 DEF HasOutput
    <3>4. ~CanWrite(c)
      BY <3>2, <3>3 DEF CanWrite
    <3>5. QED BY <1>6, <3>2, <3>4
  <2>2. /\ UNCHANGED <<published, sentTo, cutOff>>
        /\ IF "out" \in revents[s] THEN flush_client_output(s, c)
                                   ELSE UNCHANGED <<slot, conn>>
    BY <1>6, <2>1 DEF Serve
  <2>3. CASE "out" \in revents[s]
    <3>1. Active(s) /\ nextId' = nextId
      BY <1>2, <1>4, <2>3
    <3>2. /\ c \in SlotRecords /\ SameInput(c, c) /\ sentTo[k] \in Seq(Nat)
          /\ KeepsFrames(c, conn[k], sentTo[k])
      BY <1>1, <3>1, HeldBy DEF ClientOK, SameInput
    <3>3. sentTo' = [sentTo EXCEPT ![k] = sentTo[k]]
      BY <1>1, <2>2 DEF ClientsOK, DataTypeOK
    <3>4. flush_client_output(s, c) /\ UNCHANGED <<published, nextId>> /\ frames' \in Nat
      BY <1>2, <2>2, <2>3
    <3>5. ClientsOK' /\ Undisturbed(s) /\ SameInput(slot'[s], slot[s])
      <4>1. PICK e : e = c
        OBVIOUS
      <4>2. PICK S : S = sentTo[k]
        OBVIOUS
      <4>3. /\ e \in SlotRecords /\ SameInput(e, slot[s]) /\ S \in Seq(Nat)
            /\ KeepsFrames(e, conn[slot[s].conn], S)
            /\ sentTo' = [sentTo EXCEPT ![slot[s].conn] = S]
            /\ flush_client_output(s, e)
        BY <3>2, <3>3, <3>4, <4>1, <4>2
      <4>4. QED BY <1>1, <3>1, <3>4, <4>3, FlushOK
    <3>6. Active(s)'
      BY <3>1, <3>5 DEF Active, SameInput
    <3>7. QED BY <1>1, <2>2, <3>5, <3>6
  <2>4. CASE "out" \notin revents[s]
    <3>1. UNCHANGED <<conn, slot, published, sentTo, nextId, frames>>
      BY <1>2, <2>2, <2>4
    <3>2. ClientsOK'
      BY <1>1, <3>1, SameClients
    <3>3. Undisturbed(s)
      BY <3>1 DEF Undisturbed
    <3>4. "in" \in revents[s] => Active(s)'
      BY <1>4, <3>1 DEF Active
    <3>5. QED BY <1>1, <2>2, <3>2, <3>3, <3>4
  <2>5. QED BY <2>3, <2>4
<1>7. QED BY <1>5, <1>6

\* A connection is accepted, or closed when every slot is taken.
LEMMA AcceptOK ==
    ASSUME ClientsOK, Accept
    PROVE  ClientsOK' /\ Undisturbed(0)
<1>1. UNCHANGED <<nextId, frames>> /\ nextId \in Nat /\ frames \in Nat
      /\ conn \in [Conns -> ConnRecords] /\ slot \in [Slots -> SlotRecords]
  BY DEF Accept, ClientsOK, DataTypeOK
<1>2. CASE UNCHANGED <<conn, slot, published, sentTo>>
  BY <1>1, <1>2, SameClients DEF Undisturbed
<1>3. ASSUME NEW k \in Conns, conn[k].phase = "backlog",
             LET free == {s \in Slots : ~Active(s)}
             IN  IF free = {}
                 THEN Disconnected({k}) /\ UNCHANGED slot
                 ELSE /\ conn' = [conn EXCEPT ![k].phase = "held"]
                      /\ slot' = [slot EXCEPT ![Min(free)] =
                                    [FreeSlot EXCEPT !.conn = k]]
                      /\ UNCHANGED <<published, sentTo>>
      PROVE  ClientsOK' /\ Undisturbed(0)
  <2> DEFINE free == {s \in Slots : ~Active(s)}
             m == Min(free)
  <2>1. \A x \in Slots : Active(x) => slot[x].conn \in Conns \ {k}
    <3>1. \A x \in Slots : Active(x) => slot[x].conn \in Conns
                                        /\ conn[slot[x].conn].phase = "held"
      BY HeldBy
    <3>2. QED BY <1>3, <3>1
  <2>2. CASE free = {}
    <3>1. Disconnected({k}) /\ slot' = slot
      BY <1>3, <2>2
    <3>2. \A x \in Slots : slot'[x] = slot[x] /\ slot[x].conn \notin {k}
      BY <2>1, <2>2, <3>1
    <3>3. slot' = [x \in Slots |-> slot'[x]]
      BY <1>1, <3>1
    <3>4. nextId' \in Nat /\ frames' \in Nat /\ nextId <= nextId' /\ {k} \in SUBSET Conns
      BY <1>1
    <3>5. ClientsOK'
      BY <3>1, <3>2, <3>3, <3>4, Disconnects
    <3>6. \A l \in Conns \ {k} : conn'[l] = conn[l]
      BY <3>1 DEF Disconnected
    <3>7. QED BY <2>1, <3>1, <3>5, <3>6 DEF Undisturbed
  <2>3. CASE free # {}
    <3>1. m \in free
      <4>1. free \subseteq Nat
        BY DEF Slots
      <4> HIDE DEF free
      <4>2. QED BY <2>3, <4>1, MinOfNaturals
    <3>2. m \in Slots /\ ~Active(m)
      BY <3>1
    <3>3. /\ conn' = [conn EXCEPT ![k].phase = "held"]
          /\ slot' = [slot EXCEPT ![m] = [FreeSlot EXCEPT !.conn = k]]
          /\ UNCHANGED <<published, sentTo, nextId, frames>>
      BY <1>1, <1>3, <2>3
    <3> HIDE DEF m
    <3>4. ClientsOK'
      BY <1>3, <3>2, <3>3, Admits
    <3>5. \A x \in Slots : x # m => slot'[x] = slot[x]
      BY <1>1, <3>3
    <3>6. \A l \in Conns : l # k => conn'[l] = conn[l]
      BY <1>1, <3>3
    <3>7. \A x \in Slots : Active(x) => x # m
      BY <3>2
    <3>8. QED BY <2>1, <3>4, <3>5, <3>6, <3>7 DEF Undisturbed
  <2>4. QED BY <2>2, <2>3
<1>4. QED BY <1>2, <1>3 DEF Accept

\* The connections end with the process.
LEMMA DataLostOK ==
    ASSUME ClientsOK, DataLost
    PROVE  ClientsOK'
<1>1. nextId' \in Nat /\ frames' \in Nat /\ Disconnected(Conns) /\ Conns \in SUBSET Conns
  BY DEF DataLost, ClientsOK, DataTypeOK
<1>2. slot' = [x \in Slots |-> FreeSlot]
  BY DEF DataLost
<1>3. slot' = [x \in Slots |-> slot'[x]]
  BY <1>2
<1>4. \A x \in Slots : slot'[x] = FreeSlot /\ slot[x].conn \in Conns \cup {NoConn}
  BY <1>2 DEF ClientsOK, DataTypeOK, SlotRecords
<1>5. QED BY <1>1, <1>3, <1>4, Disconnects

-----------------------------------------------------------------------------
(* The loop goes on *)

\* The slots other than s are asked and due as before.
LEMMA OthersStay ==
    ASSUME ClientsOK, NEW s, Undisturbed(s), NEW x \in Slots, x # s, Active(x)
    PROVE  /\ Active(x)' /\ (HasOutput(x) => HasOutput(x)')
           /\ conn[slot[x].conn].hup => conn'[slot'[x].conn].hup
           /\ LeftUnread(x) => LeftUnread(x)'
BY DEF Undisturbed, Active, HasOutput, LeftUnread

\* To the next slot, or past the last
LEMMA NextSlotAt ==
    ASSUME NEW s \in Slots, NEW at \in {"retry", "serve"},
           NEW after \in {"poll", "transports"}
    PROVE  /\ NextSlot(at, after, s) \in PcRecords
           /\ \/ /\ s + 1 \in Slots /\ NextSlot(at, after, s).at = at
                 /\ NextSlot(at, after, s).slot = s + 1
              \/ s = MaxClients /\ NextSlot(at, after, s).at = after
<1> USE LocalSocketAssumption
<1>1. s \in 1..MaxClients /\ MaxClients \in Nat
  BY DEF Slots
<1>2. CASE s < MaxClients
  <2>1. NextSlot(at, after, s) = [at |-> at, slot |-> s + 1, back |-> "none", frames |-> 0]
    BY <1>2 DEF NextSlot, Idle
  <2>2. s + 1 \in Slots /\ s + 1 \in 0..MaxClients
    BY <1>1, <1>2 DEF Slots
  <2>3. QED BY <2>1, <2>2 DEF PcRecords
<1>3. CASE ~(s < MaxClients)
  <2>1. NextSlot(at, after, s) = [at |-> after, slot |-> 0, back |-> "none", frames |-> 0]
    BY <1>3 DEF NextSlot, Idle
  <2>2. 0 \in 0..MaxClients /\ s = MaxClients
    BY <1>1, <1>3
  <2>3. QED BY <2>1, <2>2 DEF PcRecords
<1>4. QED BY <1>2, <1>3

\* What poll is asked for a client is asked with a reason.
LEMMA EventsAsked ==
    ASSUME NEW c, NEW ready
    PROVE  /\ Events(c, ready) \in SUBSET {"in", "out"}
           /\ "out" \in Events(c, ready) => c.offset < Len(c.output)
BY DEF Events

\* After the transports nothing was asked yet and nothing is due.
LEMMA LoopAtRest ==
    ASSUME pc' = Idle \/ pc' = [Idle EXCEPT !.at = "retry", !.slot = 1],
           want' \in [Slots -> SUBSET {"in", "out"}],
           revents' \in [Slots -> SUBSET {"in", "out", "hup", "err"}]
    PROVE  LoopOK'
<1> USE LocalSocketAssumption
<1>1. MaxClients \in Nat \ {0} /\ 1 \in 0..MaxClients /\ 0 \in 0..MaxClients /\ 1 \in Slots
  BY DEF Slots
<1>2. CASE pc' = Idle
  <2>1. pc' = [at |-> "transports", slot |-> 0, back |-> "none", frames |-> 0]
    BY <1>2 DEF Idle
  <2>2. PcOK'
    BY <1>1, <2>1 DEF PcOK, PcRecords
  <2>3. \A x \in Slots : ~Asked(x)' /\ ~Due(x)'
    BY <2>1 DEF Asked, Due
  <2>4. QED BY <2>2, <2>3 DEF LoopOK, AskedOK, DueOK
<1>3. CASE pc' = [Idle EXCEPT !.at = "retry", !.slot = 1]
  <2>1. pc' = [at |-> "retry", slot |-> 1, back |-> "none", frames |-> 0]
    BY <1>3 DEF Idle
  <2>2. PcOK'
    BY <1>1, <2>1 DEF PcOK, PcRecords
  <2>3. \A x \in Slots : ~(x < 1)
    BY DEF Slots
  <2>4. \A x \in Slots : ~Asked(x)' /\ ~Due(x)'
    BY <2>1, <2>3 DEF Asked, Due
  <2>5. QED BY <2>2, <2>4 DEF LoopOK, AskedOK, DueOK
<1>4. QED BY <1>2, <1>3

\* Nothing the loop knows changes while the transports run.
LEMMA LoopUnmoved ==
    ASSUME LoopOK, pc.at = "transports", UNCHANGED <<pc, want, revents>>
    PROVE  LoopOK'
<1>1. PcOK'
  BY DEF LoopOK, PcOK
<1>2. \A x \in Slots : ~Asked(x)' /\ ~Due(x)'
  BY DEF Asked, Due
<1>3. QED BY <1>1, <1>2 DEF LoopOK, AskedOK, DueOK

\* A helper may hang up, not come back.
LEMMA LoopKept ==
    ASSUME ClientsOK, LoopOK, UNCHANGED <<slot, pc, want, revents>>,
           \A k \in Conns : conn[k].phase = "held" /\ conn[k].hup =>
               conn'[k].hup /\ conn'[k].kernel = conn[k].kernel
    PROVE  LoopOK'
<1>1. \A x \in Slots : /\ (Active(x)' <=> Active(x)) /\ (HasOutput(x)' <=> HasOutput(x))
                       /\ (Asked(x)' <=> Asked(x)) /\ (Due(x)' <=> Due(x))
  BY DEF Active, HasOutput, Asked, Due
<1>2. \A x \in Slots : Active(x) /\ conn[slot[x].conn].hup =>
        /\ conn'[slot'[x].conn].hup
        /\ conn'[slot'[x].conn].kernel = conn[slot[x].conn].kernel
  BY HeldBy
<1>3. PcOK'
  BY <1>1 DEF LoopOK, PcOK
<1>4. AskedOK'
  BY <1>1 DEF LoopOK, AskedOK
<1>5. DueOK'
  BY <1>1, <1>2 DEF LoopOK, DueOK, Reported, LeftUnread
<1>6. QED BY <1>3, <1>4, <1>5 DEF LoopOK

\* The loop is in the input of slot s, and stays there or comes to it.
LEMMA LoopInInput ==
    ASSUME ClientsOK, LoopOK, NEW s \in Slots, Undisturbed(s), Active(s)',
           NEW back \in {"retry", "serve"}, pc' \in PcRecords,
           pc'.at = "input", pc'.slot = s, pc'.back = back,
           \A x \in Slots : Asked(x)' => x # s /\ Asked(x) /\ want'[x] = want[x],
           \A x \in Slots : Due(x)' => x # s /\ Due(x) /\ revents'[x] = revents[x],
           want' \in [Slots -> SUBSET {"in", "out"}],
           revents' \in [Slots -> SUBSET {"in", "out", "hup", "err"}]
    PROVE  LoopOK'
<1>1. PcOK'
  BY DEF PcOK
<1>2. AskedOK'
  <2> SUFFICES ASSUME NEW x \in Slots, Asked(x)', want'[x] # {}
               PROVE  Active(x)' /\ ("out" \in want'[x] => HasOutput(x)')
    BY DEF AskedOK
  <2>1. x # s /\ Active(x) /\ ("out" \in want[x] => HasOutput(x)) /\ want'[x] = want[x]
    BY DEF LoopOK, AskedOK
  <2>2. QED BY <2>1, OthersStay
<1>3. DueOK'
  <2> SUFFICES ASSUME NEW x \in Slots, Due(x)', revents'[x] # {}
               PROVE  Reported(x, revents[x])'
    BY DEF DueOK
  <2>1. x # s /\ Reported(x, revents[x]) /\ revents'[x] = revents[x]
    BY DEF LoopOK, DueOK
  <2>2. Active(x)
    BY <2>1 DEF Reported
  <2>3. QED BY <2>1, <2>2, OthersStay DEF Reported
<1>4. QED BY <1>1, <1>2, <1>3 DEF LoopOK

\* The loop leaves slot s for the next.
LEMMA LoopMovesOn ==
    ASSUME ClientsOK, LoopOK, NEW s \in Slots, Undisturbed(s),
           \/ pc' = NextSlot("retry", "poll", s)
           \/ pc' = NextSlot("serve", "transports", s),
           \A x \in Slots : Asked(x)' /\ x # s => Asked(x) /\ want'[x] = want[x],
           \A x \in Slots : Due(x)' => x # s /\ Due(x) /\ revents'[x] = revents[x],
           Asked(s)' /\ want'[s] # {} =>
               Active(s)' /\ ("out" \in want'[s] => HasOutput(s)'),
           want' \in [Slots -> SUBSET {"in", "out"}],
           revents' \in [Slots -> SUBSET {"in", "out", "hup", "err"}]
    PROVE  LoopOK'
<1>1. PcOK'
  <2>1. pc' \in PcRecords /\ (pc'.at \in {"retry", "serve", "input"} => pc'.slot \in Slots)
        /\ pc'.at # "input"
    BY NextSlotAt
  <2>2. QED BY <2>1 DEF PcOK
<1>2. AskedOK'
  <2> SUFFICES ASSUME NEW x \in Slots, Asked(x)', want'[x] # {}, x # s
               PROVE  Active(x)' /\ ("out" \in want'[x] => HasOutput(x)')
    BY DEF AskedOK
  <2>1. Active(x) /\ ("out" \in want[x] => HasOutput(x)) /\ want'[x] = want[x]
    BY DEF LoopOK, AskedOK
  <2>2. QED BY <2>1, OthersStay
<1>3. DueOK'
  <2> SUFFICES ASSUME NEW x \in Slots, Due(x)', revents'[x] # {}
               PROVE  Reported(x, revents[x])'
    BY DEF DueOK
  <2>1. x # s /\ Reported(x, revents[x]) /\ revents'[x] = revents[x]
    BY DEF LoopOK, DueOK
  <2>2. Active(x)
    BY <2>1 DEF Reported
  <2>3. QED BY <2>1, <2>2, OthersStay DEF Reported
<1>4. QED BY <1>1, <1>2, <1>3 DEF LoopOK

\* Behind the loop, and ahead of it
LEMMA NextSlotPasses ==
    ASSUME NEW s \in Slots, NEW x \in Slots
    PROVE  /\ pc' = NextSlot("retry", "poll", s) =>
                (Asked(x)' => x = s \/ x < s) /\ ~Due(x)'
           /\ pc' = NextSlot("serve", "transports", s) =>
                (Due(x)' => x > s) /\ ~Asked(x)'
<1> USE LocalSocketAssumption
<1>1. s \in Nat /\ x \in Nat /\ x <= MaxClients /\ MaxClients \in Nat
  BY DEF Slots
<1>2. CASE pc' = NextSlot("retry", "poll", s)
  <2>1. \/ pc'.at = "retry" /\ pc'.slot = s + 1
        \/ s = MaxClients /\ pc'.at = "poll"
    BY <1>2, NextSlotAt
  <2>2. x < s + 1 => x = s \/ x < s
    BY <1>1
  <2>3. s = MaxClients => x = s \/ x < s
    BY <1>1
  <2>4. Asked(x)' => x = s \/ x < s
    BY <2>1, <2>2, <2>3 DEF Asked
  <2>5. ~Due(x)'
    BY <2>1 DEF Due
  <2>6. pc' # NextSlot("serve", "transports", s)
    <3>1. NextSlot("serve", "transports", s).at \in {"serve", "transports"}
      BY NextSlotAt
    <3>2. QED BY <2>1, <3>1
  <2>7. QED BY <2>4, <2>5, <2>6
<1>3. CASE pc' = NextSlot("serve", "transports", s)
  <2>1. \/ pc'.at = "serve" /\ pc'.slot = s + 1
        \/ s = MaxClients /\ pc'.at = "transports"
    BY <1>3, NextSlotAt
  <2>2. x >= s + 1 => x > s
    BY <1>1
  <2>3. Due(x)' => x > s
    BY <2>1, <2>2 DEF Due
  <2>4. ~Asked(x)'
    BY <2>1 DEF Asked
  <2>5. pc' # NextSlot("retry", "poll", s)
    <3>1. NextSlot("retry", "poll", s).at \in {"retry", "poll"}
      BY NextSlotAt
    <3>2. QED BY <2>1, <3>1
  <2>6. QED BY <2>3, <2>4, <2>5
<1>4. QED BY <1>2, <1>3

\* process_client_input goes on.
LEMMA InputGoesOn ==
    ASSUME ClientsOK, LoopOK, NEW s \in Slots, InInput(s), Undisturbed(s), Active(s)',
           pc' = pc \/ pc' = [pc EXCEPT !.frames = @ + 1], UNCHANGED <<want, revents>>
    PROVE  LoopOK'
<1>1. /\ pc \in PcRecords /\ pc.at = "input" /\ pc.slot = s
      /\ pc.back \in {"retry", "serve"}
  BY DEF LoopOK, PcOK, PcRecords, InInput
<1>2. /\ pc' \in PcRecords /\ pc'.at = "input" /\ pc'.slot = s
      /\ pc'.back = pc.back
  BY <1>1 DEF PcRecords
<1>3. s \in Nat /\ ~(s < s) /\ ~(s > s)
  BY DEF Slots
<1>4. \A x \in Slots : /\ Asked(x)' => x # s /\ Asked(x)
                       /\ Due(x)' => x # s /\ Due(x)
  BY <1>1, <1>2, <1>3 DEF Asked, Due
<1>5. /\ want' \in [Slots -> SUBSET {"in", "out"}]
      /\ revents' \in [Slots -> SUBSET {"in", "out", "hup", "err"}]
  BY DEF LoopOK, AskedOK, DueOK
<1>6. QED BY <1>1, <1>2, <1>4, <1>5, LoopInInput

\* process_client_input returns to the tick.
LEMMA InputReturns ==
    ASSUME ClientsOK, LoopOK, NEW s \in Slots, InInput(s), Undisturbed(s),
           NEW events \in SUBSET {"in", "out"},
           events # {} => Active(s)' /\ ("out" \in events => HasOutput(s)'),
           Returns(s, events), UNCHANGED revents
    PROVE  LoopOK'
<1>1. pc.at = "input" /\ pc.slot = s /\ pc.back \in {"retry", "serve"}
  BY DEF LoopOK, PcOK, PcRecords, InInput
<1>2. /\ want \in [Slots -> SUBSET {"in", "out"}]
      /\ revents' \in [Slots -> SUBSET {"in", "out", "hup", "err"}]
  BY DEF LoopOK, AskedOK, DueOK
<1>3. s \in Nat /\ ~(s > s)
  BY DEF Slots
<1>4. CASE pc.back = "retry"
  <2>1. pc' = NextSlot("retry", "poll", s) /\ want' = [want EXCEPT ![s] = events]
    BY <1>4 DEF Returns
  <2>2. /\ want' \in [Slots -> SUBSET {"in", "out"}] /\ want'[s] = events
        /\ \A x \in Slots : x # s => want'[x] = want[x]
    BY <1>2, <2>1
  <2>3. \A x \in Slots : /\ ~Due(x)'
                         /\ Asked(x)' /\ x # s => Asked(x)
    BY <1>1, <1>4, <2>1, NextSlotPasses DEF Asked
  <2>4. QED BY <1>2, <2>1, <2>2, <2>3, LoopMovesOn
<1>5. CASE pc.back = "serve"
  <2>1. pc' = NextSlot("serve", "transports", s) /\ want' = want
    BY <1>5 DEF Returns
  <2>2. \A x \in Slots : /\ ~Asked(x)'
                         /\ Due(x)' => x # s /\ Due(x)
    BY <1>1, <1>3, <1>5, <2>1, NextSlotPasses DEF Due
  <2>3. QED BY <1>2, <2>1, <2>2, LoopMovesOn
<1>6. QED BY <1>1, <1>4, <1>5

\* What a step of process_client_input leaves to the loop
LEMMA InputLeaves ==
    ASSUME ClientsOK, LoopOK, NEW s \in Slots, InInput(s), Undisturbed(s),
           UNCHANGED revents,
           \/ Returns(s, {})
           \/ /\ Active(s)'
              /\ \/ Returns(s, Events(slot'[s], Ready))
                 \/ Returns(s, Events(slot'[s], FALSE))
                 \/ Continues(s, slot'[s])
                 \/ UNCHANGED <<pc, want>>
    PROVE  LoopOK'
<1>1. \A ready : /\ Events(slot'[s], ready) \in SUBSET {"in", "out"}
                 /\ "out" \in Events(slot'[s], ready) => HasOutput(s)'
  BY EventsAsked DEF HasOutput
<1>2. CASE Returns(s, {})
  BY <1>2, InputReturns
<1>3. CASE Active(s)' /\ Returns(s, Events(slot'[s], Ready))
  BY <1>1, <1>3, InputReturns
<1>4. CASE Active(s)' /\ Returns(s, Events(slot'[s], FALSE))
  BY <1>1, <1>4, InputReturns
<1>5. CASE Active(s)' /\ Continues(s, slot'[s])
  <2>1. CASE pc' = [pc EXCEPT !.frames = @ + 1] /\ UNCHANGED want
    BY <1>5, <2>1, InputGoesOn
  <2>2. CASE Returns(s, Events(slot'[s], Ready))
    BY <1>3, <1>5, <2>2
  <2>3. QED BY <1>5, <2>1, <2>2 DEF Continues
<1>6. CASE Active(s)' /\ UNCHANGED <<pc, want>>
  BY <1>6, InputGoesOn
<1>7. QED BY <1>2, <1>3, <1>4, <1>5, <1>6

\* A client in whose input the loop is
LEMMA InputIsActive ==
    ASSUME LoopOK, NEW s \in Slots, InInput(s)
    PROVE  Active(s)
BY DEF LoopOK, PcOK, InInput

\* A client is polled after the record that waits was offered.
LEMMA RetryLoop ==
    ASSUME ClientsOK, LoopOK, NEW s \in Slots, Retry(s)
    PROVE  LoopOK'
<1>1. /\ pc.at = "retry" /\ pc.slot = s /\ pc \in PcRecords
      /\ UNCHANGED <<slot, conn, revents>>
  BY DEF Retry, LoopOK, PcOK
<1>2. /\ want \in [Slots -> SUBSET {"in", "out"}]
      /\ revents' \in [Slots -> SUBSET {"in", "out", "hup", "err"}]
  BY <1>1 DEF LoopOK, AskedOK, DueOK
<1>3. Undisturbed(s) /\ s \in Nat /\ ~(s < s)
  BY <1>1 DEF Undisturbed, Slots
<1>4. CASE Active(s) /\ slot[s].pending
  <2>1. pc' = [pc EXCEPT !.at = "input", !.back = "retry"] /\ want' = want
    BY <1>4 DEF Retry
  <2>2. pc' \in PcRecords /\ pc'.at = "input" /\ pc'.slot = s /\ pc'.back = "retry"
    BY <1>1, <2>1 DEF PcRecords
  <2>3. \A x \in Slots : Asked(x)' => x # s /\ Asked(x) /\ want'[x] = want[x]
    BY <1>1, <1>3, <2>1, <2>2 DEF Asked
  <2>4. \A x \in Slots : ~Due(x)'
    BY <2>2 DEF Due
  <2>5. Active(s)'
    BY <1>1, <1>4 DEF Active
  <2>6. QED BY <1>2, <1>3, <2>1, <2>2, <2>3, <2>4, <2>5, LoopInInput
<1>5. CASE ~(Active(s) /\ slot[s].pending)
  <2> DEFINE events == IF Active(s) THEN Events(slot[s], Ready) ELSE {}
  <2>1. pc' = NextSlot("retry", "poll", s) /\ want' = [want EXCEPT ![s] = events]
    BY <1>5 DEF Retry
  <2>2. /\ events \in SUBSET {"in", "out"}
        /\ events # {} => Active(s) /\ ("out" \in events => HasOutput(s))
    BY EventsAsked DEF HasOutput
  <2>3. events # {} => Active(s)' /\ ("out" \in events => HasOutput(s)')
    BY <1>1, <2>2 DEF Active, HasOutput
  <2> HIDE DEF events
  <2>4. /\ want' \in [Slots -> SUBSET {"in", "out"}] /\ want'[s] = events
        /\ \A x \in Slots : x # s => want'[x] = want[x]
    BY <1>2, <2>1, <2>2
  <2>5. \A x \in Slots : ~Due(x)' /\ (Asked(x)' /\ x # s => Asked(x))
    BY <1>1, <2>1, NextSlotPasses DEF Asked
  <2>6. QED BY <1>2, <1>3, <2>1, <2>3, <2>4, <2>5, LoopMovesOn
<1>6. QED BY <1>4, <1>5

-----------------------------------------------------------------------------
(* The steps of the tick *)

\* poll reports what it was asked for, and hangups with it.
LEMMA PollStep ==
    ASSUME DataOwned, Poll
    PROVE  DataOwned'
<1> USE LocalSocketAssumption
<1>1. /\ pc.at = "poll"
      /\ UNCHANGED <<conn, slot, published, sentTo, nextId, frames, cutOff>>
      /\ revents' = [s \in Slots |-> Returned(s)] /\ want' = [s \in Slots |-> {}]
      /\ pc' \in {[Idle EXCEPT !.at = "accept"], Idle}
  BY DEF Poll
<1>2. ClientsOK'
  BY <1>1, SameClients DEF DataOwned
<1>3. PcOK'
  <2>1. MaxClients \in Nat /\ 0 \in 0..MaxClients
    OBVIOUS
  <2>2. pc' \in PcRecords /\ pc'.at \in {"accept", "transports"}
    BY <1>1, <2>1 DEF Idle, PcRecords
  <2>3. QED BY <2>2 DEF PcOK
<1>4. AskedOK'
  BY <1>1 DEF AskedOK
<1>5. AskedOK /\ \A x \in Slots : Asked(x)
  BY <1>1 DEF DataOwned, LoopOK, Asked
<1>6. ASSUME NEW x \in Slots
      PROVE  /\ Returned(x) \in SUBSET {"in", "out", "hup", "err"}
             /\ Returned(x) # {} => Reported(x, Returned(x))
  <2>1. want[x] \in SUBSET {"in", "out"}
        /\ (want[x] # {} => Active(x) /\ ("out" \in want[x] => HasOutput(x)))
    BY <1>5 DEF AskedOK
  <2>2. Returned(x) \in SUBSET {"in", "out", "hup", "err"} /\ (want[x] = {} => Returned(x) = {})
    BY <2>1 DEF Returned
  <2>3. "hup" \in Returned(x) => want[x] # {} /\ conn[slot[x].conn].hup
    BY <2>1 DEF Returned
  <2>4. conn[slot[x].conn].hup =>
          \A e \in want[x] : e \in Returned(x)
    BY <2>1 DEF Returned
  <2>5. "err" \in Returned(x) => LeftUnread(x)
    BY <2>1 DEF Returned, LeftUnread
  <2>6. QED BY <2>1, <2>2, <2>3, <2>4, <2>5 DEF Reported
<1>7. DueOK'
  <2>1. revents' \in [Slots -> SUBSET {"in", "out", "hup", "err"}]
    BY <1>1, <1>6
  <2>2. \A x \in Slots : /\ revents'[x] = Returned(x) /\ (Active(x)' <=> Active(x))
                         /\ (HasOutput(x)' <=> HasOutput(x))
                         /\ conn'[slot'[x].conn] = conn[slot[x].conn]
    BY <1>1 DEF Active, HasOutput
  <2>3. \A x \in Slots : Reported(x, Returned(x)) => Reported(x, revents[x])'
    BY <2>2 DEF Reported, LeftUnread
  <2>4. QED BY <1>6, <2>1, <2>2, <2>3 DEF DueOK
<1>8. QED BY <1>1, <1>2, <1>3, <1>4, <1>7 DEF DataOwned, LoopOK

\* New clients have no events that are due.
LEMMA AcceptStep ==
    ASSUME DataOwned, Accept
    PROVE  DataOwned'
<1> USE LocalSocketAssumption
<1>1. ClientsOK' /\ Undisturbed(0) /\ ClientsOK /\ LoopOK
  BY AcceptOK DEF DataOwned
<1>2. /\ pc.at = "accept" /\ UNCHANGED <<want, revents, cutOff>>
      /\ pc' = pc \/ pc' = [Idle EXCEPT !.at = "serve", !.slot = 1]
  BY DEF Accept
<1>3. PcOK' /\ pc'.at \in {"accept", "serve"}
  <2>1. MaxClients \in Nat \ {0} /\ 1 \in Slots /\ 1 \in 0..MaxClients
    BY DEF Slots
  <2>2. CASE pc' = pc
    BY <1>1, <1>2, <2>2 DEF LoopOK, PcOK
  <2>3. CASE pc' = [Idle EXCEPT !.at = "serve", !.slot = 1]
    <3>1. pc' = [at |-> "serve", slot |-> 1, back |-> "none", frames |-> 0]
      BY <2>3 DEF Idle
    <3>2. QED BY <2>1, <3>1 DEF PcOK, PcRecords
  <2>4. QED BY <1>2, <2>2, <2>3
<1>4. AskedOK'
  BY <1>1, <1>2, <1>3 DEF LoopOK, AskedOK, Asked
<1>5. DueOK'
  <2>1. revents' \in [Slots -> SUBSET {"in", "out", "hup", "err"}]
    BY <1>1, <1>2 DEF LoopOK, DueOK
  <2> SUFFICES ASSUME NEW x \in Slots, revents'[x] # {}
               PROVE  Reported(x, revents[x])'
    BY <2>1 DEF DueOK
  <2>2. Due(x) /\ x # 0
    BY <1>2 DEF Due, Slots
  <2>3. Reported(x, revents[x]) /\ revents'[x] = revents[x]
    BY <1>1, <1>2, <2>2 DEF LoopOK, DueOK
  <2>4. Active(x)
    BY <2>3 DEF Reported
  <2>5. QED BY <1>1, <2>2, <2>3, <2>4, OthersStay DEF Reported
<1>6. QED BY <1>1, <1>2, <1>3, <1>4, <1>5 DEF DataOwned, LoopOK

\* What was reported for a client is served once.
LEMMA ServeStep ==
    ASSUME DataOwned, NEW s \in Slots, Serve(s)
    PROVE  DataOwned'
<1>1. /\ ClientsOK' /\ Undisturbed(s) /\ ~cutOff' /\ ClientsOK /\ LoopOK
      /\ "in" \in revents[s] /\ ~(pc'.at \in {"serve", "transports"}) => Active(s)'
  BY ServeOK DEF DataOwned
<1>2. /\ pc.at = "serve" /\ pc.slot = s /\ pc \in PcRecords
      /\ revents' = [revents EXCEPT ![s] = {}] /\ want' = want
      /\ \/ pc' = NextSlot("serve", "transports", s)
         \/ "in" \in revents[s] /\ pc' = [pc EXCEPT !.at = "input", !.back = "serve"]
  BY <1>1 DEF Serve, LoopOK, PcOK
<1>3. /\ want' \in [Slots -> SUBSET {"in", "out"}]
      /\ revents' \in [Slots -> SUBSET {"in", "out", "hup", "err"}]
      /\ \A x \in Slots : x # s => revents'[x] = revents[x]
  BY <1>1, <1>2 DEF LoopOK, AskedOK, DueOK
<1>4. s \in Nat /\ ~(s > s) /\ \A x \in Slots : x > s => x >= s
  BY DEF Slots
<1>5. CASE pc' = NextSlot("serve", "transports", s)
  <2>1. \A x \in Slots : ~Asked(x)' /\ (Due(x)' => x # s /\ Due(x))
    BY <1>2, <1>4, <1>5, NextSlotPasses DEF Due
  <2>2. LoopOK'
    BY <1>1, <1>3, <1>5, <2>1, LoopMovesOn
  <2>3. QED BY <1>1, <2>2 DEF DataOwned
<1>6. CASE "in" \in revents[s] /\ pc' = [pc EXCEPT !.at = "input", !.back = "serve"]
  <2>1. pc' \in PcRecords /\ pc'.at = "input" /\ pc'.slot = s /\ pc'.back = "serve"
    BY <1>2, <1>6 DEF PcRecords
  <2>2. Active(s)'
    BY <1>1, <1>6, <2>1
  <2>3. \A x \in Slots : ~Asked(x)' /\ (Due(x)' => x # s /\ Due(x))
    BY <1>2, <1>4, <2>1 DEF Asked, Due
  <2>4. LoopOK'
    BY <1>1, <1>3, <2>1, <2>2, <2>3, LoopInInput
  <2>5. QED BY <1>1, <2>4 DEF DataOwned
<1>7. QED BY <1>2, <1>5, <1>6

\* The input of a client ends for this tick, or for good.
LEMMA InputBlocksStep ==
    ASSUME DataOwned, NEW s \in Slots, InputBlocks(s)
    PROVE  DataOwned'
<1>1. ClientsOK /\ LoopOK /\ ~cutOff /\ InInput(s) /\ Active(s) /\ revents' = revents
  BY InputIsActive DEF DataOwned, InputBlocks
<1>2. ClientsOK' /\ Undisturbed(s) /\ ~cutOff'
  BY <1>1, InputBlocksOK
<1>3. \/ Returns(s, Events(slot[s], Ready)) /\ UNCHANGED slot
      \/ Returns(s, {})
  BY DEF InputBlocks, Fails
<1>4. UNCHANGED busy
  BY DEF InputBlocks
<1>5. CASE Returns(s, Events(slot[s], Ready)) /\ UNCHANGED slot
  <2>1. Active(s)' /\ slot'[s] = slot[s]
    BY <1>1, <1>5 DEF Active
  <2>2. Returns(s, Events(slot'[s], Ready))
    BY <1>5, <2>1
  <2>3. LoopOK'
    BY <1>1, <1>2, <2>1, <2>2, InputLeaves
  <2>4. QED BY <1>2, <2>3 DEF DataOwned
<1>6. CASE Returns(s, {})
  BY <1>1, <1>2, <1>6, InputLeaves DEF DataOwned
<1>7. QED BY <1>3, <1>5, <1>6

\* It goes on by a unit ...
LEMMA InputReadsStep ==
    ASSUME DataOwned, NEW s \in Slots, InputReads(s)
    PROVE  DataOwned'
<1> DEFINE u == Head(conn[slot[s].conn].wire)
           d == Took(slot[s], u)
<1>1. /\ ClientsOK /\ LoopOK /\ ~cutOff /\ InInput(s) /\ Active(s)
      /\ revents' = revents /\ slot \in [Slots -> SlotRecords]
  BY InputIsActive DEF DataOwned, InputReads, ClientsOK, DataTypeOK
<1>2. ClientsOK' /\ Undisturbed(s)
  BY <1>1, InputReadsOK
<1>3. \/ Fails(s, "invalid")
      \/ /\ slot' = [slot EXCEPT ![s] = d] /\ cutOff' = cutOff
         /\ Continues(s, d) \/ UNCHANGED <<pc, want>>
  BY DEF InputReads, Took
<1>4. CASE Fails(s, "invalid")
  <2>1. Returns(s, {}) /\ ~cutOff'
    BY <1>1, <1>4 DEF Fails, close_client
  <2>2. QED BY <1>1, <1>2, <2>1, InputLeaves DEF DataOwned
<1>5. CASE /\ slot' = [slot EXCEPT ![s] = d] /\ cutOff' = cutOff
           /\ Continues(s, d) \/ UNCHANGED <<pc, want>>
  <2>1. slot'[s] = d
    BY <1>1, <1>5
  <2>2. Active(s)'
    <3>1. conn'[slot[s].conn] = conn'[slot[s].conn] /\ slot[s] \in SlotRecords
      BY <1>1
    <3>2. slot'[s] \in SlotRecords
      BY <1>2 DEF ClientsOK, DataTypeOK
    <3>3. u.kind \in {"type", "name", "header", "payload"}
      <4>1. conn[slot[s].conn].wire \in Seq(Units) /\ conn[slot[s].conn].wire # <<>>
        BY <1>1, HeldBy DEF ConnRecords, InputReads
      <4>2. u \in Units
        <5> HIDE DEF Units
        <5>1. QED BY <4>1
      <4>3. QED BY <4>2 DEF Units
    <3> HIDE DEF u
    <3>4. d.conn = slot[s].conn
      BY <3>1, <3>3 DEF Took, SlotRecords
    <3>5. QED BY <1>1, <2>1, <3>4 DEF Active
  <2>3. Continues(s, slot'[s]) \/ UNCHANGED <<pc, want>>
    BY <1>5, <2>1
  <2>4. LoopOK'
    BY <1>1, <1>2, <2>2, <2>3, InputLeaves
  <2>5. QED BY <1>1, <1>2, <1>5, <2>4 DEF DataOwned
<1>6. QED BY <1>3, <1>4, <1>5

\* ... or by a record.
LEMMA OfferStep ==
    ASSUME DataOwned, NEW s \in Slots, NEW took \in SUBSET Transports,
           NEW failed \in {0} \cup Transports, Offer(s, took, failed)
    PROVE  DataOwned'
<1> DEFINE c == slot[s]
           id == IF c.pending THEN c.id ELSE nextId
           d == slot'[s]
<1>1. /\ ClientsOK /\ LoopOK /\ ~cutOff /\ InInput(s) /\ Active(s)
      /\ revents' = revents /\ slot \in [Slots -> SlotRecords]
  BY InputIsActive DEF DataOwned, Offer, ClientsOK, DataTypeOK
<1>2. ClientsOK' /\ Undisturbed(s)
  BY <1>1, OfferOK
<1>3. CASE failed # 0
  <2>1. Fails(s, "failed")
    BY <1>3 DEF Offer
  <2>2. Returns(s, {}) /\ ~cutOff'
    BY <1>1, <2>1 DEF Fails, close_client
  <2>3. QED BY <1>1, <1>2, <2>2, InputLeaves DEF DataOwned
<1>4. CASE failed = 0
  <2>1. /\ cutOff' = cutOff
        /\ \/ /\ slot' = [slot EXCEPT ![s] = Progressed(c, took, id)]
              /\ Returns(s, Events(slot'[s], FALSE))
           \/ slot' = [slot EXCEPT ![s] = Finished(c)] /\ Continues(s, Finished(c))
    BY <1>4 DEF Offer, Finished
  <2>2. /\ \/ Returns(s, Events(slot'[s], FALSE))
           \/ Continues(s, slot'[s])
        /\ d \in {Progressed(c, took, id), Finished(c)}
    BY <1>1, <2>1
  <2>3. d.conn = c.conn
    <3>1. c \in SlotRecords
      BY <1>1
    <3> HIDE DEF d
    <3>2. QED BY <2>2, <3>1 DEF Progressed, Finished, SlotRecords
  <2>4. Active(s)'
    BY <1>1, <2>3 DEF Active
  <2>5. LoopOK'
    BY <1>1, <1>2, <2>2, <2>4, InputLeaves
  <2>6. QED BY <1>1, <1>2, <2>1, <2>5 DEF DataOwned
<1>5. QED BY <1>3, <1>4

-----------------------------------------------------------------------------
(* The invariant is inductive *)

\* A helper writes, reads or hangs up.
LEMMA HelperStep ==
    ASSUME DataOwned, NEW k \in Conns,
           \/ \E track \in Tracks, valid \in {0, 1} : Connect(k, track, valid)
           \/ \E valid \in {0, 1} : WriteHeader(k, valid)
           \/ WritePayload(k) \/ HelperReads(k) \/ HangUp(k)
    PROVE  DataOwned'
<1>1. ClientsOK /\ LoopOK /\ ~cutOff /\ conn \in [Conns -> ConnRecords]
  BY DEF DataOwned, ClientsOK, DataTypeOK
<1>2. ClientsOK'
  BY <1>1, ConnectOK, WriteHeaderOK, WritePayloadOK, HelperReadsOK, HangUpOK
<1>3. UNCHANGED <<slot, pc, want, revents, cutOff>>
  BY DEF Connect, WriteHeader, WritePayload, HelperReads, HangUp, rest
<1>4. \A l \in Conns : conn[l].phase = "held" /\ conn[l].hup =>
        conn'[l].hup /\ conn'[l].kernel = conn[l].kernel
  <2> SUFFICES ASSUME NEW l \in Conns, conn[l].phase = "held", conn[l].hup
               PROVE  conn'[l].hup /\ conn'[l].kernel = conn[l].kernel
    OBVIOUS
  <2>1. conn[l] \in ConnRecords /\ conn[k] \in ConnRecords
    BY <1>1
  <2>2. CASE \E track \in Tracks, valid \in {0, 1} : Connect(k, track, valid)
    <3>1. conn'[l] = conn[l]
      BY <1>1, <2>2 DEF Connect
    <3>2. QED BY <3>1
  <2>3. CASE \E valid \in {0, 1} : WriteHeader(k, valid)
    BY <1>1, <2>1, <2>3 DEF WriteHeader, ConnRecords
  <2>4. CASE WritePayload(k)
    BY <1>1, <2>1, <2>4 DEF WritePayload, ConnRecords
  <2>5. CASE HelperReads(k)
    BY <1>1, <2>1, <2>5 DEF HelperReads, ConnRecords
  <2>6. CASE HangUp(k)
    BY <1>1, <2>1, <2>6 DEF HangUp, ConnRecords
  <2>7. QED BY <2>2, <2>3, <2>4, <2>5, <2>6
<1>5. LoopOK'
  BY <1>1, <1>3, <1>4, LoopKept
<1>6. QED BY <1>1, <1>2, <1>3, <1>5 DEF DataOwned

\* Frames are queued while the transports run.
LEMMA SendStep ==
    ASSUME DataOwned, NEW track \in Tracks, data_uds_send(track)
    PROVE  DataOwned'
<1>1. ClientsOK' /\ LoopOK /\ ~cutOff
  BY SendOK DEF DataOwned
<1>2. pc.at = "transports" /\ UNCHANGED <<pc, want, revents>>
  BY DEF data_uds_send
<1>3. \/ close_client(Min(Targets(track)), "overflow")
      \/ close_client(Min(Targets(track)), "write")
      \/ UNCHANGED cutOff
  BY DEF data_uds_send
<1>4. ~cutOff'
  <2>1. "overflow" # "hangup" /\ "write" # "hangup"
    OBVIOUS
  <2>2. QED BY <1>1, <1>3, <2>1 DEF close_client
<1>5. QED BY <1>1, <1>2, <1>4, LoopUnmoved DEF DataOwned

\* The process ends.
LEMMA LossStep ==
    ASSUME DataOwned, DataLost
    PROVE  DataOwned'
<1>1. ClientsOK'
  BY DataLostOK DEF DataOwned
<1>2. /\ pc' = Idle /\ cutOff' = cutOff
      /\ want' = [s \in Slots |-> {}] /\ revents' = [s \in Slots |-> {}]
  BY DEF DataLost
<1>3. LoopOK'
  BY <1>2, LoopAtRest
<1>4. QED BY <1>1, <1>2, <1>3 DEF DataOwned

\* The tick begins with nothing asked and nothing due.
LEMMA StartTickStep ==
    ASSUME DataOwned, StartTick
    PROVE  DataOwned'
<1>1. /\ UNCHANGED <<conn, slot, published, sentTo, nextId, frames, want, revents, cutOff>>
      /\ pc' = [Idle EXCEPT !.at = "retry", !.slot = 1]
  BY DEF StartTick
<1>2. ClientsOK'
  BY <1>1, SameClients DEF DataOwned
<1>3. LoopOK'
  BY <1>1, LoopAtRest DEF DataOwned, LoopOK, AskedOK, DueOK
<1>4. QED BY <1>1, <1>2, <1>3 DEF DataOwned

\* The first pass of the tick over a client
LEMMA RetryStep ==
    ASSUME DataOwned, NEW s \in Slots, Retry(s)
    PROVE  DataOwned'
<1>1. UNCHANGED <<conn, slot, published, sentTo, nextId, frames, cutOff>>
  BY DEF Retry
<1>2. ClientsOK'
  BY <1>1, SameClients DEF DataOwned
<1>3. LoopOK'
  BY RetryLoop DEF DataOwned
<1>4. QED BY <1>1, <1>2, <1>3 DEF DataOwned

\* Neither clients nor the loop move.
LEMMA StillStep ==
    ASSUME DataOwned,
           UNCHANGED <<conn, slot, published, sentTo, nextId, frames, pc, want,
                       revents, cutOff>>
    PROVE  DataOwned'
<1>1. ClientsOK'
  BY SameClients DEF DataOwned
<1>2. LoopOK'
  BY LoopKept DEF DataOwned
<1>3. QED BY <1>1, <1>2 DEF DataOwned

\* Every step of the daemon, the helpers and the transports
LEMMA DataStep ==
    ASSUME DataOwned, [Next]_vars
    PROVE  DataOwned'
<1>1. CASE NameSteps /\ UNCHANGED dataVars
  BY <1>1, StillStep DEF dataVars
<1>2. ASSUME NEW p \in Procs, StopDaemon(p) \/ CrashDaemon(p)
      PROVE  DataOwned'
  <2>1. DataLost \/ UNCHANGED dataVars
    BY <1>2 DEF StopDaemon, CrashDaemon
  <2>2. QED BY <2>1, LossStep, StillStep DEF dataVars
<1>3. CASE \/ \E k \in Conns, track \in Tracks, valid \in {0, 1} : Connect(k, track, valid)
           \/ \E k \in Conns, valid \in {0, 1} : WriteHeader(k, valid)
           \/ \E k \in Conns : WritePayload(k) \/ HelperReads(k) \/ HangUp(k)
  BY <1>3, HelperStep
<1>4. CASE \E track \in Tracks : data_uds_send(track)
  BY <1>4, SendStep
<1>5. CASE Tick
  <2>1. CASE StartTick \/ Poll \/ Accept
    BY <2>1, StartTickStep, PollStep, AcceptStep
  <2>2. ASSUME NEW s \in Slots,
               \/ Retry(s) \/ Serve(s) \/ InputBlocks(s) \/ InputReads(s)
               \/ \E took \in SUBSET Transports, failed \in {0} \cup Transports :
                    Offer(s, took, failed)
        PROVE  DataOwned'
    BY <2>2, RetryStep, ServeStep, InputBlocksStep, InputReadsStep, OfferStep
  <2>3. QED BY <1>5, <2>1, <2>2 DEF Tick
<1>6. ASSUME NEW t \in Transports, Fill(t) \/ DrainTransport(t)
      PROVE  DataOwned'
  <2>1. UNCHANGED <<conn, slot, published, sentTo, nextId, frames, pc, want,
                    revents, cutOff>>
    BY <1>6 DEF Fill, DrainTransport
  <2>2. QED BY <2>1, StillStep
<1>7. CASE UNCHANGED vars
  BY <1>7, StillStep DEF vars, dataVars
<1>8. QED BY <1>1, <1>2, <1>3, <1>4, <1>5, <1>6, <1>7 DEF Next

\* It holds before the first daemon starts.
LEMMA DataStart ==
    ASSUME Init
    PROVE  DataOwned
<1> USE LocalSocketAssumption
<1>1. DataInit
  BY DEF Init
<1>2. \A k \in Conns : /\ conn[k] = FreshConn /\ sentTo[k] = <<>>
                       /\ published[k] = [t \in Transports |-> <<>>]
  BY <1>1 DEF DataInit
<1>3. \A s \in Slots : slot[s] = FreeSlot /\ slot[s].conn = NoConn
  BY <1>1, FreshTypes DEF DataInit
<1>4. DataTypeOK
  <2>1. conn \in [Conns -> ConnRecords] /\ slot \in [Slots -> SlotRecords]
    BY <1>1, FreshTypes DEF DataInit
  <2>2. published \in [Conns -> [Transports -> Publications]]
    <3>1. published = [k \in Conns |-> [t \in Transports |-> <<>>]]
      BY <1>1 DEF DataInit
    <3>2. QED BY <3>1, FreshTypes
  <2>3. sentTo \in [Conns -> Seq(Nat)] /\ nextId \in Nat /\ frames \in Nat
    BY <1>1 DEF DataInit
  <2>4. QED BY <2>1, <2>2, <2>3 DEF DataTypeOK
<1>5. \A s \in Slots : ~Active(s)
  BY <1>3 DEF Active
<1>6. FreshConn.phase = "none" /\ FreshConn.kernel = <<>> /\ FreshConn.got = <<>>
  BY DEF FreshConn
<1>7. OneHolder /\ HeldOK
  BY <1>2, <1>5, <1>6 DEF OneHolder, HeldOK
<1>8. UnheldUntouched
  BY <1>2, <1>6 DEF UnheldUntouched, Untouched
<1>9. Numbered
  <2>1. \A k \in Conns : \A i, x \in Nat : ~Given(k, i, x)
    BY <1>2, <1>3 DEF Given
  <2>2. QED BY <2>1 DEF Numbered
<1>10. LoopOK
  <2>1. pc = [at |-> "transports", slot |-> 0, back |-> "none", frames |-> 0]
    BY <1>1 DEF DataInit, Idle
  <2>2. PcOK
    <3>1. MaxClients \in Nat /\ 0 \in 0..MaxClients
      OBVIOUS
    <3>2. QED BY <2>1, <3>1 DEF PcOK, PcRecords
  <2>3. \A x \in Slots : ~Asked(x) /\ ~Due(x)
    BY <2>1 DEF Asked, Due
  <2>4. /\ want \in [Slots -> SUBSET {"in", "out"}]
        /\ revents \in [Slots -> SUBSET {"in", "out", "hup", "err"}]
    BY <1>1 DEF DataInit
  <2>5. QED BY <2>2, <2>3, <2>4 DEF LoopOK, AskedOK, DueOK
<1>11. ~cutOff
  BY <1>1 DEF DataInit
<1>12. QED BY <1>4, <1>7, <1>8, <1>9, <1>10, <1>11 DEF DataOwned, ClientsOK

-----------------------------------------------------------------------------
(* What it says *)

\* The records of a connection are in order, held or not.
LEMMA PublishedInOrder ==
    ASSUME ClientsOK, NEW k \in Conns, NEW t \in Transports,
           NEW i \in DOMAIN published[k][t]
    PROVE  /\ published[k][t][i].rec = i
           /\ i \in Nat /\ published[k][t][i].id \in Nat
           /\ Given(k, i, published[k][t][i].id)
<1>1. published[k] \in [Transports -> Publications]
  BY DEF ClientsOK, DataTypeOK
<1>2. published[k][t] \in Seq([rec : Nat, id : Nat])
  BY <1>1 DEF Publications
<1>3. i \in 1..Len(published[k][t]) /\ i \in Nat
  BY <1>2
<1>4. published[k][t][i].id \in Nat
  <2>1. published[k][t][i] \in [rec : Nat, id : Nat]
    <3>1. PICK R : R = [rec : Nat, id : Nat]
      OBVIOUS
    <3>2. published[k][t] \in Seq(R)
      BY <1>2, <3>1
    <3>3. published[k][t][i] \in R
      BY <1>3, <3>2
    <3>4. QED BY <3>1, <3>3
  <2>2. QED BY <2>1
<1>5. Given(k, i, published[k][t][i].id)
  BY <1>3 DEF Given
<1>6. conn[k].phase = "held"
  <2>1. conn[k].phase # "held" => published[k][t] = <<>>
    BY DEF ClientsOK, UnheldUntouched, Untouched
  <2>2. QED BY <1>3, <2>1
<1>7. PICK s \in Slots : slot[s].conn = k
  BY <1>6 DEF ClientsOK, OneHolder
<1>8. Active(s)
  BY <1>7, LocalSocketAssumption DEF Active
<1>9. InOrder(published[k])
  BY <1>7, <1>8, HeldBy DEF ClientOK
<1>10. QED BY <1>3, <1>4, <1>5, <1>9 DEF InOrder

LEMMA OwnedRecords ==
    ASSUME DataOwned
    PROVE  EachRecordOnce
<1>1. ClientsOK /\ Numbered
  BY DEF DataOwned, ClientsOK
<1>2. ASSUME NEW k \in Conns, NEW l \in Conns, NEW t \in Transports, NEW u \in Transports,
             NEW i \in DOMAIN published[k][t], NEW j \in DOMAIN published[l][u]
      PROVE  /\ published[k][t][i].rec = i
             /\ published[k][t][i].id = published[l][u][j].id <=> k = l /\ i = j
  <2>1. /\ published[k][t][i].rec = i
        /\ i \in Nat /\ published[k][t][i].id \in Nat
        /\ Given(k, i, published[k][t][i].id)
    BY <1>1, PublishedInOrder
  <2>2. /\ j \in Nat /\ published[l][u][j].id \in Nat
        /\ Given(l, j, published[l][u][j].id)
    BY <1>1, PublishedInOrder
  <2>3. QED BY <1>1, <2>1, <2>2 DEF Numbered
<1>3. QED BY <1>2 DEF EachRecordOnce

\* What is in front of a concatenation
LEMMA CatPrefix ==
    ASSUME NEW U, NEW a \in Seq(U), NEW b \in Seq(U)
    PROVE  IsPrefix(a, Cat(a, b))
<1>1. PICK q : q = Cat(a, b)
  OBVIOUS
<1>2. /\ q \in Seq(U) /\ Len(q) = Len(a) + Len(b)
      /\ \A i \in 1..(Len(a) + Len(b)) : q[i] = IF i <= Len(a) THEN a[i] ELSE b[i - Len(a)]
  BY <1>1, CatType
<1>3. Len(a) \in Nat /\ Len(b) \in Nat
  OBVIOUS
<1>4. PICK p : p = SubSeq(q, 1, Len(a))
  OBVIOUS
<1>5. p \in Seq(U) /\ Len(p) = Len(a) /\ \A i \in 1..Len(a) : p[i] = q[i]
  BY <1>2, <1>3, <1>4
<1>6. \A i \in 1..Len(a) : q[i] = a[i]
  BY <1>2, <1>3
<1>7. p = a
  BY <1>5, <1>6, SeqEqual
<1>8. SubSeq(a, 1, Len(a)) = a
  BY SubSeqFull
<1>9. Len(a) <= Len(q)
  BY <1>2, <1>3
<1>10. QED BY <1>1, <1>4, <1>7, <1>8, <1>9 DEF IsPrefix

LEMMA OwnedFrames ==
    ASSUME DataOwned
    PROVE  WholeFrames
<1> USE LocalSocketAssumption
<1>1. ClientsOK
  BY DEF DataOwned
<1>2. ASSUME NEW k \in Conns
      PROVE  LET all == FlattenSeq([i \in DOMAIN sentTo[k] |-> FrameUnits(sentTo[k][i])])
                 out == conn[k].got \o conn[k].kernel
             IN  /\ IsPrefix(out, all)
                 /\ \A s \in Slots : slot[s].conn = k =>
                      out \o SubSeq(slot[s].output, slot[s].offset + 1,
                                    Len(slot[s].output)) = all
  <2> DEFINE all == FlattenSeq(FrameSeq(sentTo[k]))
             out == Cat(conn[k].got, conn[k].kernel)
  <2>1. sentTo[k] \in Seq(Nat) /\ conn[k] \in ConnRecords
    BY <1>1 DEF ClientsOK, DataTypeOK
  <2>2. all = FramesOf(sentTo[k])
    BY <2>1, FlattenFrames
  <2>3. conn[k].got \in Seq(Units) /\ conn[k].kernel \in Seq(Units)
    BY <2>1 DEF ConnRecords
  <2>4. out \in Seq(Units)
    <3> HIDE DEF Units
    <3>1. QED BY <2>3, CatType
  <2> HIDE DEF all, out
  <2>5. ASSUME NEW s \in Slots, slot[s].conn = k
        PROVE  Cat(out, Waiting(slot[s])) = all /\ IsPrefix(out, all)
    <3>1. Active(s)
      BY <2>5 DEF Active
    <3>2. /\ KeepsFrames(slot[s], conn[k], sentTo[k]) /\ slot[s] \in SlotRecords
      BY <1>1, <2>5, <3>1, HeldBy DEF ClientOK
    <3>3. Cat(out, Waiting(slot[s])) = all
      BY <2>2, <3>2 DEF KeepsFrames, out
    <3>4. Waiting(slot[s]) \in Seq(Units)
      <4>1. slot[s].output \in Seq(Units) /\ slot[s].offset \in Nat
        BY <3>2 DEF SlotRecords
      <4>2. Len(slot[s].output) \in Nat /\ slot[s].offset <= Len(slot[s].output)
        BY <3>2, <4>1 DEF KeepsFrames
      <4>3. Len(slot[s].output) \in slot[s].offset..Len(slot[s].output)
        BY <4>1, <4>2
      <4> HIDE DEF Units
      <4>4. QED BY <4>1, <4>3, PartType DEF Waiting
    <3>5. IsPrefix(out, Cat(out, Waiting(slot[s])))
      <4> HIDE DEF Units
      <4>1. QED BY <2>4, <3>4, CatPrefix
    <3>6. QED BY <3>3, <3>5
  <2>6. IsPrefix(out, all)
    <3>1. CASE conn[k].phase = "held"
      <4>1. PICK s \in Slots : slot[s].conn = k
        BY <1>1, <3>1 DEF ClientsOK, OneHolder
      <4>2. QED BY <2>5, <4>1
    <3>2. CASE conn[k].phase # "held"
      <4>1. sentTo[k] = <<>> /\ conn[k].got = <<>> /\ conn[k].kernel = <<>>
        BY <1>1, <3>2 DEF ClientsOK, UnheldUntouched, Untouched
      <4>2. FramesOf(<<>>) = <<>> /\ Cat(<<>>, <<>>) = <<>>
        BY DEF FramesOf, Cat
      <4>3. IsPrefix(<<>>, <<>>)
        BY DEF IsPrefix
      <4>4. out = <<>> /\ all = <<>>
        BY <2>2, <4>1, <4>2 DEF out
      <4>5. QED BY <4>3, <4>4
    <3>3. QED BY <3>1, <3>2
  <2>7. \A s \in Slots : slot[s].conn = k => Cat(out, Waiting(slot[s])) = all
    BY <2>5
  <2>8. QED BY <2>6, <2>7 DEF all, out, Cat, Waiting, Part, FrameSeq
<1>3. QED BY <1>2 DEF WholeFrames

\* However often the loop offers a record of a helper again (process_client_input
\* and the retries of data_uds_tick), every transport publishes the records in
\* order, each once and under an identifier that no other record has.
THEOREM RecordsPublishedOnce == Spec => []EachRecordOnce
<1>1. Init => DataOwned
  BY DataStart
<1>2. DataOwned /\ [Next]_vars => DataOwned'
  BY DataStep
<1>3. DataOwned => EachRecordOnce
  BY OwnedRecords
<1>4. QED BY <1>1, <1>2, <1>3, PTL DEF Spec

\* Wherever flush_client_output stops, and whenever data_uds_send queues behind
\* what waits, a helper reads whole frames in the order they were accepted.
THEOREM FramesStayWhole == Spec => []WholeFrames
<1>1. Init => DataOwned
  BY DataStart
<1>2. DataOwned /\ [Next]_vars => DataOwned'
  BY DataStep
<1>3. DataOwned => WholeFrames
  BY OwnedFrames
<1>4. QED BY <1>1, <1>2, <1>3, PTL DEF Spec

\* A helper that took every frame, writes and hangs up loses nothing: the tick
\* closes its connection for that (data_uds_tick, process_client_input) only
\* when every record was published on every transport.
THEOREM HangupIsHarmless == Spec => []HangupLosesNothing
<1>1. Init => DataOwned
  BY DataStart
<1>2. DataOwned /\ [Next]_vars => DataOwned'
  BY DataStep
<1>3. DataOwned => HangupLosesNothing
  BY DEF DataOwned, HangupLosesNothing
<1>4. QED BY <1>1, <1>2, <1>3, PTL DEF Spec
=============================================================================
