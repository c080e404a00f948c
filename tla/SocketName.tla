------------------------------ MODULE SocketName ------------------------------
(***************************************************************************)
(* Who owns the name of the local data socket.  data_uds_create takes a    *)
(* lock on a file that is never removed, looks at what the name refers to, *)
(* removes a socket nobody listens on and binds its own; data_uds_destroy  *)
(* removes the socket only when it is still its own.                       *)
(*                                                                         *)
(* Every system call on the name is a step of its own, so that two starts, *)
(* a stop and a crash interleave.  Programs that do not know the lock      *)
(* (older versions) are there too: they bind the name when it is free, and *)
(* listen on it later.                                                     *)
(***************************************************************************)
EXTENDS Integers, Sequences, FiniteSets

CONSTANTS
    Procs,      \* processes that use data_uds.c
    Nobody,     \* not a process
    MaxInodes   \* bound on the sockets ever bound

ASSUME SocketNameAssumption == Nobody \notin Procs /\ MaxInodes \in Nat

VARIABLES
    path,       \* the inode the name refers to, 0 for none
    inodes,     \* inodes given out
    listening,  \* inodes somebody listens on
    lock,       \* holder of the lock
    stage,      \* where each process is in create or destroy
    seen,       \* existing
    bound,      \* the inode of listen_fd, 0 before bind
    identity,   \* socket_identity, 0 while not socket_bound
    older,      \* inodes of older programs that do not listen yet
    missed      \* those that a probe took for stale, listening since or not

nameVars == <<path, inodes, listening, lock, stage, seen, bound, identity,
              older, missed>>

Stages == {"off", "look", "probe", "recheck", "unlink", "bind", "identify",
           "listen", "serving", "leave", "remove", "unlock"}

NameTypeOK ==
    /\ path \in 0..inodes /\ inodes \in 0..MaxInodes
    /\ listening \subseteq 1..inodes /\ lock \in Procs \cup {Nobody}
    /\ stage \in [Procs -> Stages]
    /\ seen \in [Procs -> 0..inodes] /\ bound \in [Procs -> 0..inodes]
    /\ identity \in [Procs -> 0..inodes]
    /\ older \subseteq 1..inodes /\ missed \subseteq 1..inodes

NameInit ==
    /\ path = 0 /\ inodes = 0 /\ listening = {} /\ lock = Nobody
    /\ stage = [p \in Procs |-> "off"] /\ seen = [p \in Procs |-> 0]
    /\ bound = [p \in Procs |-> 0] /\ identity = [p \in Procs |-> 0]
    /\ older = {} /\ missed = {}

\* From one stage to another; every failure ends in data_uds_destroy.
Goes(p, from, to) == stage[p] = from /\ stage' = [stage EXCEPT ![p] = to]

\* Faulty variant: the lock is opened but not held against others.
Lock_Shared(p) ==
    /\ Goes(p, "off", "look") /\ lock' = p
    /\ UNCHANGED <<path, inodes, listening, seen, bound, identity,
                   older, missed>>

\* flock(LOCK_EX | LOCK_NB): a process that does not get it gives up at once.
Lock(p) ==
    /\ lock = Nobody /\ lock' = p
    /\ Goes(p, "off", "look")
    /\ UNCHANGED <<path, inodes, listening, seen, bound, identity,
                   older, missed>>

Look(p) ==
    /\ Goes(p, "look", IF path = 0 THEN "bind" ELSE "probe")
    /\ seen' = [seen EXCEPT ![p] = path]
    /\ UNCHANGED <<path, inodes, listening, lock, bound, identity,
                   older, missed>>

\* A connection that is accepted shows a live listener.  A program between its
\* bind and its listen refuses one like a socket that was left behind.
Probe(p) ==
    /\ Goes(p, "probe", IF path \in listening THEN "leave" ELSE "recheck")
    /\ missed' = missed \cup (older \cap {path})
    /\ UNCHANGED <<path, inodes, listening, lock, seen, bound, identity, older>>

Recheck(p) ==
    /\ Goes(p, "recheck", CASE path = 0       -> "bind"
                            [] path = seen[p] -> "unlink"
                            [] OTHER          -> "leave")
    /\ UNCHANGED <<path, inodes, listening, lock, seen, bound, identity,
                   older, missed>>

Unlink(p) ==
    /\ Goes(p, "unlink", IF path = 0 THEN "leave" ELSE "bind")
    /\ path' = 0
    /\ UNCHANGED <<inodes, listening, lock, seen, bound, identity,
                   older, missed>>

Bind(p) ==
    \/ /\ path # 0 /\ Goes(p, "bind", "leave")
       /\ UNCHANGED <<path, inodes, listening, lock, seen, bound, identity,
                      older, missed>>
    \/ /\ path = 0 /\ inodes < MaxInodes
       /\ Goes(p, "bind", "identify")
       /\ inodes' = inodes + 1 /\ path' = inodes'
       /\ bound' = [bound EXCEPT ![p] = inodes']
       /\ seen' = [seen EXCEPT ![p] = 0]
       /\ UNCHANGED <<listening, lock, identity, older, missed>>

\* lstat of the name just bound
Identify(p) ==
    /\ Goes(p, "identify", IF path = 0 THEN "leave" ELSE "listen")
    /\ identity' = [identity EXCEPT ![p] = path]
    /\ UNCHANGED <<path, inodes, listening, lock, seen, bound, older, missed>>

\* chmod and listen; either may fail.
Listen(p) ==
    \/ /\ Goes(p, "listen", "serving")
       /\ listening' = listening \cup {bound[p]}
       /\ UNCHANGED <<path, inodes, lock, seen, bound, identity,
                      older, missed>>
    \/ /\ Goes(p, "listen", "leave")
       /\ UNCHANGED <<path, inodes, listening, lock, seen, bound, identity,
                      older, missed>>

\* The main loop ends: data_uds_destroy closes the listener, ...
Stop(p) ==
    /\ Goes(p, "serving", "leave")
    /\ listening' = listening \ {bound[p]}
    /\ UNCHANGED <<path, inodes, lock, seen, bound, identity, older, missed>>

\* ... removes the socket when it is still the one that was bound ...
Leave(p) ==
    /\ Goes(p, "leave", IF identity[p] # 0 /\ path = identity[p]
                        THEN "remove" ELSE "unlock")
    /\ UNCHANGED <<path, inodes, listening, lock, seen, bound, identity,
                   older, missed>>

RemoveSocket(p) ==
    /\ Goes(p, "remove", "unlock") /\ path' = 0
    /\ UNCHANGED <<inodes, listening, lock, seen, bound, identity,
                   older, missed>>

\* The process is gone; its lock goes with its last descriptor.
Ends(p) ==
    /\ lock' = IF lock = p THEN Nobody ELSE lock
    /\ stage' = [stage EXCEPT ![p] = "off"]
    /\ seen' = [seen EXCEPT ![p] = 0] /\ bound' = [bound EXCEPT ![p] = 0]
    /\ identity' = [identity EXCEPT ![p] = 0]
    /\ UNCHANGED <<path, inodes, older, missed>>

\* ... and releases the lock last.
Unlock(p) == stage[p] = "unlock" /\ Ends(p) /\ UNCHANGED listening

\* A crash leaves the socket in the file system.
Crash(p) ==
    /\ stage[p] # "off" /\ Ends(p)
    /\ listening' = listening \ {bound[p]}

\* A program without the lock binds, listens and ends.
OlderBinds ==
    /\ path = 0 /\ inodes < MaxInodes
    /\ inodes' = inodes + 1 /\ path' = inodes'
    /\ older' = older \cup {inodes'}
    /\ UNCHANGED <<listening, lock, stage, seen, bound, identity, missed>>

OlderListens ==
    \E i \in older :
        /\ older' = older \ {i} /\ listening' = listening \cup {i}
        /\ UNCHANGED <<path, inodes, lock, stage, seen, bound, identity, missed>>

OlderEnds ==
    \E i \in older \cup (listening \ {bound[p] : p \in Procs}) :
        /\ older' = older \ {i} /\ listening' = listening \ {i}
        /\ missed' = missed \ {i}
        /\ UNCHANGED <<path, inodes, lock, stage, seen, bound, identity>>

\* The steps of a start
Starting(p) == \/ Lock(p) \/ Look(p) \/ Probe(p) \/ Recheck(p) \/ Unlink(p)
               \/ Bind(p) \/ Identify(p) \/ Listen(p)

Leaving(p) == Leave(p) \/ RemoveSocket(p) \/ Unlock(p)

NameSteps == (\E p \in Procs : Starting(p) \/ Leaving(p))
             \/ OlderBinds \/ OlderListens \/ OlderEnds

-----------------------------------------------------------------------------
\* Whoever listens is found under the name: no start, stop or crash of another
\* process takes the name from a live listener, and there is never a second.
\* Only an older program that did not listen yet when it was probed may lose it.
ListenerKeepsName == listening \ missed \subseteq {path}
=============================================================================
