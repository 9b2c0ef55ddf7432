------------------------------- MODULE Cache -------------------------------
(***************************************************************************)
(* The cache nodes of nodes/cache_node.py over their shared Redis.  A      *)
(* write goes to Redis and to the cache of the key's owner, which then     *)
(* tells the other nodes of its ring to invalidate their copies.           *)
(*                                                                         *)
(* An op is one get or put, executed at one node at a time: forwarding     *)
(* moves it to the owner, and only the owner's part changes anything.      *)
(* Each Redis command is a step and so is what follows its response.       *)
(* What a call returns is not modelled, so an op ends without a result.    *)
(* Versions are readings of one clock, which stands still or moves on      *)
(* between any two steps; the clocks of the nodes are taken to agree.      *)
(***************************************************************************)
EXTENDS HashRing

CONSTANTS Key, KeyHash,  \* keys, and their hashes
          Value, None,
          Capacity,      \* capacity; 0 is unlimited
          Faults,        \* of {"send", "redis", "halt"}: what may go wrong
          Slot,          \* bound: as many ops at the same time
          MaxClock,      \* bound: the last reading of the clock
          MaxFaults      \* bound: how many faults there are in all

ASSUME KeysAssumption == KeyHash \in [Key -> Hash] /\ None \notin Key \cup Node \cup Value
ASSUME LimitsAssumption ==
    /\ Capacity \in Nat /\ MaxClock \in Nat /\ MaxFaults \in Nat
    /\ Faults \subseteq {"send", "redis", "halt"}

VARIABLES
    store,      \* Redis: the hash cache:store
    versions,   \* Redis: the hash cache:version, 0 for no field
    members,    \* Redis: the set membership:cache
    clock,
    life,       \* by node: "up", "leaving" (stop has begun), "down", "starting"
    view,       \* by node: the nodes in its hash ring
    cache,      \* by node and key: _cache
    faults,     \* how many faults there were
    ops,        \* by slot: an op
    owed        \* history: <<n, k>>: the copy of k at n is not known to be the last

redis == <<store, versions, members>>
nodes == <<life, view, faults>>
vars == <<redis, clock, nodes, cache, ops, owed>>

NoEntry == [value |-> None, version |-> 0, state |-> "none"]

\* An op: the node that executes it, the one its client called (a get carries it
\* along), what it has in hand, the peers it has still to tell, and whether the
\* key was written since it read the value or took its version.
NoOp == [pc |-> "idle", at |-> None, requester |-> None, key |-> None, value |-> None,
         version |-> 0, pending |-> {}, late |-> FALSE]

Serves(n) == life[n] # "down"
Valid(e) == e.state \in {"M", "E", "S"}
Holds(c) == {k \in Key : c[k] # NoEntry}

\* Slip: a node is not in its own ring.
OwnerAmongPeers(n, k) == GetNode(IF view[n] = {n} THEN {n} ELSE view[n] \ {n}, KeyHash[k])

Owner(n, k) == GetNode(view[n], KeyHash[k])

Init ==
    /\ store = [k \in Key |-> None] /\ versions = [k \in Key |-> 0]
    /\ members = Node /\ clock = 0 /\ faults = 0
    /\ life = [n \in Node |-> "up"]
    /\ view = [n \in Node |-> Node]
    /\ cache = [n \in Node |-> [k \in Key |-> NoEntry]]
    /\ ops = [s \in Slot |-> NoOp]
    /\ owed = {}

----------------------------------------------------------------------------
Strikes == faults < MaxFaults /\ faults' = faults + 1

Goes(s, pc) == ops' = [ops EXCEPT ![s].pc = pc]
Ends(s) == ops' = [ops EXCEPT ![s] = NoOp]

\* The gets and puts that may start to run in slot s: one that another node has
\* forwarded, or any a client may ask a node for.
Get(n, k) == [NoOp EXCEPT !.pc = "get", !.at = n, !.requester = n, !.key = k]
Put(n, k, v) == [Get(n, k) EXCEPT !.pc = "put", !.value = v]

Requests == LET up == {n \in Node : Serves(n)}
            IN {Get(n, k) : n \in up, k \in Key}
               \cup {Put(n, k, v) : n \in up, k \in Key, v \in Value}

Arriving(s) == IF ops[s].pc \in {"get", "put"} THEN {ops[s]}
               ELSE IF ops[s] = NoOp THEN Requests ELSE {}

\* bus.send to the owner, whose handler is the same get or put.
Forward(s) ==
    /\ \E o \in Arriving(s) :
          LET owner == Owner(o.at, o.key)
          IN /\ o.pc = "put" \/ ~Valid(cache[o.at][o.key])
             /\ owner # o.at
             /\ \/ Serves(owner) /\ ops' = [ops EXCEPT ![s] = [o EXCEPT !.at = owner]] /\ UNCHANGED faults
                \/ ~Serves(owner) /\ Ends(s) /\ UNCHANGED faults
                \/ Serves(owner) /\ "send" \in Faults /\ Strikes /\ Ends(s)
    /\ UNCHANGED <<redis, clock, life, view, cache, owed>>

\* get finds a valid entry; a request that came from another node shares it.
Hit(s) ==
    /\ \E o \in Arriving(s) :
          /\ o.pc = "get" /\ Valid(cache[o.at][o.key])
          /\ cache' = IF o.requester = o.at THEN cache
                      ELSE [cache EXCEPT ![o.at][o.key].state = "S"]
    /\ Ends(s)
    /\ UNCHANGED <<redis, clock, nodes, owed>>

----------------------------------------------------------------------------
(* Entries.                                                                *)

\* _ensure_capacity before one entry is added, which happens without an await
\* in between: at most one has to go, an invalid one if there is one.  Which
\* of the others LRU or LFU picks is left open.
RoomIn(c) ==
    LET invalid == {k \in Holds(c) : c[k].state = "I"}
        victims == IF invalid # {} THEN invalid ELSE Holds(c)
    IN IF Capacity = 0 \/ Cardinality(Holds(c)) < Capacity THEN {c}
       ELSE {[c EXCEPT ![k] = NoEntry] : k \in victims}

\* The entry of op s is stored at its node.  It is the last one written unless
\* a write of the key has overtaken the op.
StoreEntry(s, state) ==
    LET o == ops[s]
    IN \E room \in RoomIn(cache[o.at]) :
          /\ cache' = [cache EXCEPT ![o.at] =
                [room EXCEPT ![o.key] = [value |-> o.value, version |-> o.version, state |-> state]]]
          /\ LET others == {d \in owed : d[1] # o.at \/ room[d[2]] # NoEntry} \ {<<o.at, o.key>>}
             IN owed' = IF o.late THEN others \cup {<<o.at, o.key>>} ELSE others

----------------------------------------------------------------------------
(* get at the owner: _read_store and the entry.                            *)

Miss(s) ==
    /\ \E o \in Arriving(s) :
          /\ o.pc = "get" /\ ~Valid(cache[o.at][o.key]) /\ Owner(o.at, o.key) = o.at
          /\ ops' = [ops EXCEPT ![s] = [o EXCEPT !.pc = "hget value"]]
    /\ UNCHANGED <<redis, clock, nodes, cache, owed>>

ReadStore(s) ==
    LET o == ops[s]
    IN /\ \/ /\ o.pc = "hget value"
             /\ ops' = [ops EXCEPT ![s].value = store[o.key], ![s].pc = "hget version"]
          \/ /\ o.pc = "hget version" /\ o.value # None
             /\ ops' = [ops EXCEPT ![s].version = versions[o.key], ![s].pc = "fill"]
          \/ /\ o.pc = "hget version" /\ o.value = None
             /\ Ends(s)
       /\ UNCHANGED <<redis, clock, nodes, cache, owed>>

Fill(s) ==
    /\ ops[s].pc = "fill"
    /\ StoreEntry(s, IF ops[s].requester = ops[s].at THEN "E" ELSE "S")
    /\ Ends(s)
    /\ UNCHANGED <<redis, clock, nodes>>

----------------------------------------------------------------------------
(* put at the owner: _write_store, the entry, _broadcast_invalidate.       *)

\* The version is read off the clock before the first command is sent.
TakeVersion(s) ==
    /\ \E o \in Arriving(s) :
          /\ o.pc = "put" /\ Owner(o.at, o.key) = o.at
          /\ ops' = [ops EXCEPT ![s] = [o EXCEPT !.pc = "hset value", !.version = clock,
                                                 !.requester = None]]
    /\ UNCHANGED <<redis, clock, nodes, cache, owed>>

\* The ops of a key that have read it or taken a version.
UnderWay(k) == {s \in Slot : ops[s].key = k /\ ops[s].pc \notin {"get", "put", "hget value"}}

WriteValue(s) ==
    LET k == ops[s].key
    IN /\ ops[s].pc = "hset value"
       /\ store' = [store EXCEPT ![k] = ops[s].value]
       /\ owed' = owed \cup {<<n, k>> : n \in {m \in Node : Valid(cache[m][k])}}
       /\ ops' = [r \in Slot |->
                    IF r = s THEN [ops[r] EXCEPT !.pc = "hset version"]
                    ELSE IF r \in UnderWay(k) THEN [ops[r] EXCEPT !.late = TRUE] ELSE ops[r]]
       /\ UNCHANGED <<versions, members, clock, nodes, cache>>

\* Slip: the value goes to the hash of the versions as well.
WriteValueTwice(s) ==
    /\ ops[s].pc = "hset version"
    /\ versions' = [versions EXCEPT ![ops[s].key] = ops[s].value]
    /\ Goes(s, "store")
    /\ UNCHANGED <<store, members, clock, nodes, cache, owed>>

WriteVersion(s) ==
    /\ ops[s].pc = "hset version"
    /\ versions' = [versions EXCEPT ![ops[s].key] = ops[s].version]
    /\ Goes(s, "store")
    /\ UNCHANGED <<store, members, clock, nodes, cache, owed>>

Asking(s, peers) == ops' = [ops EXCEPT ![s] = IF peers = {} THEN NoOp ELSE
                                           [@ EXCEPT !.pc = "broadcast", !.pending = peers, !.value = None]]

StoreWritten(s) ==
    /\ ops[s].pc = "store"
    /\ StoreEntry(s, "M")
    /\ Asking(s, view[ops[s].at] \ {ops[s].at})
    /\ UNCHANGED <<redis, clock, nodes>>

\* Slip: entries of the same version are left as they are.
InvalidatedOlder(e, version) ==
    IF e # NoEntry /\ e.version < version THEN [e EXCEPT !.state = "I", !.version = version] ELSE e

\* invalidate, on one entry.
Invalidated(e, version) ==
    IF e # NoEntry /\ e.version <= version THEN [e EXCEPT !.state = "I", !.version = version] ELSE e

\* One call of the broadcast reaches its peer, or fails, which is ignored.
Invalidate(s, p) ==
    LET o == ops[s]
    IN /\ o.pc = "broadcast" /\ p \in o.pending
       /\ Asking(s, o.pending \ {p})
       /\ \/ /\ Serves(p)
             /\ cache' = [cache EXCEPT ![p][o.key] = Invalidated(@, o.version)]
             /\ owed' = IF o.late THEN owed ELSE owed \ {<<p, o.key>>}
             /\ UNCHANGED faults
          \/ /\ ~Serves(p) /\ UNCHANGED <<cache, owed, faults>>
          \/ /\ Serves(p) /\ "send" \in Faults /\ Strikes
             /\ UNCHANGED <<cache, owed>>
       /\ UNCHANGED <<redis, clock, life, view>>

OpStep(s) == \/ Forward(s) \/ Hit(s) \/ Miss(s) \/ ReadStore(s) \/ Fill(s)
             \/ TakeVersion(s) \/ WriteValue(s) \/ WriteVersion(s) \/ StoreWritten(s)
             \/ \E p \in ops[s].pending : Invalidate(s, p)

----------------------------------------------------------------------------
(* Membership, and what may go wrong.                                      *)

\* refresh_membership; without Redis the ring is the static one.
Refresh(n) ==
    /\ life[n] = "up"
    /\ \/ view' = [view EXCEPT ![n] = members \cup {n}]
       \/ "redis" \in Faults /\ view' = [view EXCEPT ![n] = Node]
    /\ UNCHANGED <<redis, clock, life, faults, cache, ops, owed>>

\* A Redis command raises, executed or not: the op ends where it is.
RedisFails(s) ==
    /\ "redis" \in Faults /\ Strikes
    /\ ops[s].pc \in {"hget value", "hget version", "fill", "hset value", "hset version", "store"}
    /\ Ends(s)
    /\ UNCHANGED <<redis, clock, life, view, cache, owed>>

\* stop, up to unregister_node.
Leave(n) ==
    /\ "halt" \in Faults /\ life[n] = "up" /\ Strikes
    /\ life' = [life EXCEPT ![n] = "leaving"]
    /\ members' = members \ {n}
    /\ UNCHANGED <<store, versions, clock, view, cache, ops, owed>>

\* The end of stop, or a crash.  The ops on the node end; of the calls of a
\* broadcast some may be on their way.
Halt(n) ==
    /\ "halt" \in Faults /\ life[n] # "down"
    /\ (life[n] = "leaving" /\ UNCHANGED faults) \/ (life[n] # "leaving" /\ Strikes)
    /\ life' = [life EXCEPT ![n] = "down"]
    /\ cache' = [cache EXCEPT ![n] = [k \in Key |-> NoEntry]]
    /\ \E sent \in SUBSET Node :
          ops' = [s \in Slot |->
                    IF ops[s].at # n THEN ops[s]
                    ELSE IF ops[s].pending \cap sent = {} THEN NoOp
                    ELSE [ops[s] EXCEPT !.pending = @ \cap sent]]
    /\ owed' = {d \in owed : d[1] # n}
    /\ UNCHANGED <<redis, clock, view>>

\* start: the bus serves, with the static ring, before the node registers.
Start(n) ==
    /\ life[n] = "down"
    /\ life' = [life EXCEPT ![n] = "starting"]
    /\ view' = [view EXCEPT ![n] = Node]
    /\ UNCHANGED <<redis, clock, faults, cache, ops, owed>>

Register(n) ==
    /\ life[n] = "starting"
    /\ life' = [life EXCEPT ![n] = "up"]
    /\ members' = members \cup {n}
    /\ UNCHANGED <<store, versions, clock, view, faults, cache, ops, owed>>

Tick == /\ clock < MaxClock /\ clock' = clock + 1
        /\ UNCHANGED <<redis, nodes, cache, ops, owed>>

Next ==
    \/ \E s \in Slot : OpStep(s) \/ RedisFails(s)
    \/ \E n \in Node : Refresh(n) \/ Leave(n) \/ Halt(n) \/ Start(n) \/ Register(n)
    \/ Tick

Spec == Init /\ [][Next]_vars

----------------------------------------------------------------------------
TypeOK ==
    /\ store \in [Key -> Value \cup {None}] /\ versions \in [Key -> 0..MaxClock]
    /\ members \subseteq Node /\ clock \in 0..MaxClock /\ faults \in 0..MaxFaults
    /\ life \in [Node -> {"up", "leaving", "down", "starting"}]
    /\ view \in [Node -> SUBSET Node] /\ \A n \in Node : n \in view[n]
    /\ cache \in [Node -> [Key -> [value : Value \cup {None}, version : 0..MaxClock,
                                   state : {"none", "M", "E", "S", "I"}]]]
    /\ ops \in [Slot -> [pc : {"idle", "get", "hget value", "hget version", "fill", "put",
                               "hset value", "hset version", "store", "broadcast"},
                         at : Node \cup {None}, requester : Node \cup {None},
                         key : Key \cup {None}, value : Value \cup {None},
                         version : 0..MaxClock, pending : SUBSET Node, late : BOOLEAN]]
    /\ owed \subseteq Node \X Key

(***************************************************************************)
(* A write that no other write of its key overtakes leaves no other value  *)
(* in its own cache nor at a node its invalidation has reached, and a      *)
(* fill that no write overtakes leaves the value of the store, whatever    *)
(* versions the entries and the invalidations carry.  Stale copies are     *)
(* where an invalidation is still to arrive, was lost or not addressed, or *)
(* where an op stored what it had in hand when it was overtaken.           *)
(***************************************************************************)
StaleOnlyIfOwed ==
    \A n \in Node, k \in Key :
        Valid(cache[n][k]) /\ cache[n][k].value # store[k] => <<n, k>> \in owed

\* The cache does not outgrow its capacity: room is made and used in one step.
CapacityKept == \A n \in Node : Capacity = 0 \/ Cardinality(Holds(cache[n])) <= Capacity

(***************************************************************************)
(* Forwarding comes to an end although every node asks its own ring: a     *)
(* request only ever moves to a node that is nearer to the key's hash,     *)
(* since each node is in its own ring.                                     *)
(***************************************************************************)
MovesNearer ==
    \A s \in Slot :
        LET h == KeyHash[ops'[s].key]
            last == IF ops[s] = NoOp THEN ops'[s].requester ELSE ops[s].at
        IN ops'[s].pc \in {"get", "put"} /\ ops'[s] # ops[s]
              => Reach(h, ops'[s].at) < Reach(h, last)

ForwardsDescend == [][MovesNearer]_vars
=============================================================================
