----------------------------- MODULE CacheProofs -----------------------------
(***************************************************************************)
(* Theorems about Cache, for every ring, set of keys, number of concurrent *)
(* ops, capacity and set of faults, proved with TLAPS.                     *)
(***************************************************************************)
EXTENDS Cache, HashRingProofs

CacheEntry == [value : Value \cup {None}, version : 0..MaxClock,
               state : {"none", "M", "E", "S", "I"}]

Op == [pc : {"idle", "get", "hget value", "hget version", "fill", "put",
             "hset value", "hset version", "store", "broadcast"},
       at : Node \cup {None}, requester : Node \cup {None},
       key : Key \cup {None}, value : Value \cup {None},
       version : 0..MaxClock, pending : SUBSET Node, late : BOOLEAN]

\* An op under way has a node and a key, and calls to make only in a broadcast.
Named(o) == /\ o.pc # "idle" => o.at \in Node /\ o.key \in Key
            /\ o.pc # "broadcast" => o.pending = {}

TypeInv == TypeOK /\ \A s \in Slot : Named(ops[s])

\* TypeOK, with its record types named.
LEMMA TypeOps ==
    TypeOK <=> /\ store \in [Key -> Value \cup {None}] /\ versions \in [Key -> 0..MaxClock]
               /\ members \subseteq Node /\ clock \in 0..MaxClock /\ faults \in 0..MaxFaults
               /\ life \in [Node -> {"up", "leaving", "down", "starting"}]
               /\ view \in [Node -> SUBSET Node] /\ \A n \in Node : n \in view[n]
               /\ cache \in [Node -> [Key -> CacheEntry]]
               /\ ops \in [Slot -> Op]
               /\ owed \subseteq Node \X Key
  BY DEF TypeOK, CacheEntry, Op

\* A request that runs at a node is a get or a put of a key there.
LEMMA ArrivingIs ==
    ASSUME TypeInv, NEW s \in Slot, NEW o \in Arriving(s)
    PROVE  /\ o \in Op /\ o.pc \in {"get", "put"} /\ o.at \in Node /\ o.key \in Key
           /\ Named(o)
           /\ o = ops[s] \/ (ops[s] = NoOp /\ o.requester = o.at /\ o.version = 0)
<1> USE LimitsAssumption
<1>1. CASE ops[s].pc \in {"get", "put"}
  BY <1>1, TypeOps DEF Arriving, TypeInv, Named
<1>2. CASE ops[s] = NoOp /\ ops[s].pc \notin {"get", "put"}
  <2>1. o \in Requests
    BY <1>2 DEF Arriving
  <2>2. PICK n \in Node, k \in Key : o = Get(n, k) \/ \E v \in Value : o = Put(n, k, v)
    BY <2>1 DEF Requests
  <2>3. 0 \in 0..MaxClock
    OBVIOUS
  <2>4. /\ Get(n, k) \in Op /\ Get(n, k).pc = "get" /\ Get(n, k).pending = {}
        /\ Get(n, k).at = n /\ Get(n, k).key = k
        /\ Get(n, k).requester = n /\ Get(n, k).version = 0
    BY <2>3 DEF Get, NoOp, Op
  <2>5. ASSUME NEW v \in Value
        PROVE  LET put == Put(n, k, v)
               IN /\ put \in Op /\ put.pc = "put" /\ put.pending = {}
                  /\ put.at = n /\ put.key = k /\ put.requester = n /\ put.version = 0
    BY <2>4 DEF Put, Op
  <2> QED BY <1>2, <2>2, <2>4, <2>5 DEF Named
<1> QED BY <1>1, <1>2 DEF Arriving

\* The ring of a node is one the hash ring is about, and so is its owner.
LEMMA OwnerIs ==
    ASSUME TypeInv, NEW n \in Node, NEW k \in Key
    PROVE  Owner(n, k) \in Node /\ KeyHash[k] \in Hash
           /\ (Owner(n, k) # n => Reach(KeyHash[k], Owner(n, k)) < Reach(KeyHash[k], n))
<1>1. view[n] \in SUBSET Node /\ n \in view[n] /\ KeyHash[k] \in Hash
  BY TypeOps, KeysAssumption DEF TypeInv
<1>2. view[n] \in (SUBSET Node) \ {{}}
  BY <1>1
<1>3. GetNode(view[n], KeyHash[k]) \in view[n]
  BY <1>1, <1>2, NearestOwns
<1> QED BY <1>1, <1>3, ForwardingDescends DEF Owner

\* Making room takes entries away and changes none.
LEMMA RoomIs ==
    ASSUME NEW c \in [Key -> CacheEntry], NEW room \in RoomIn(c)
    PROVE  /\ room \in [Key -> CacheEntry]
           /\ \A k \in Key : room[k] = c[k] \/ room[k] = NoEntry
<1>1. NoEntry \in CacheEntry
  BY LimitsAssumption DEF NoEntry, CacheEntry
<1>2. room = c \/ \E k \in Key : room = [c EXCEPT ![k] = NoEntry]
  BY DEF RoomIn, Holds
<1> QED BY <1>1, <1>2

\* A free slot is well-formed.
LEMMA NoOpIs == NoOp \in Op /\ Named(NoOp)
<1>1. 0 \in 0..MaxClock
  BY LimitsAssumption
<1> QED BY <1>1 DEF NoOp, Op, Named

\* Replacing the cache of a node.
LEMMA SetCache ==
    ASSUME TypeInv, NEW n \in Node, NEW c \in [Key -> CacheEntry], cache' = [cache EXCEPT ![n] = c]
    PROVE  /\ cache' \in [Node -> [Key -> CacheEntry]]
           /\ \A m \in Node, j \in Key : cache'[m][j] = IF m = n THEN c[j] ELSE cache[m][j]
<1>1. cache \in [Node -> [Key -> CacheEntry]]
  BY TypeOps DEF TypeInv
<1> QED BY <1>1

\* Replacing one entry.
LEMMA SetEntry ==
    ASSUME TypeInv, NEW n \in Node, NEW k \in Key, NEW e \in CacheEntry,
           cache' = [cache EXCEPT ![n][k] = e]
    PROVE  /\ cache' \in [Node -> [Key -> CacheEntry]]
           /\ \A m \in Node, j \in Key :
                 cache'[m][j] = IF m = n /\ j = k THEN e ELSE cache[m][j]
<1>1. cache \in [Node -> [Key -> CacheEntry]]
  BY TypeOps DEF TypeInv
<1>2. [cache[n] EXCEPT ![k] = e] \in [Key -> CacheEntry]
  BY <1>1
<1>3. cache' = [cache EXCEPT ![n] = [cache[n] EXCEPT ![k] = e]]
  OBVIOUS
<1> QED BY <1>1, <1>2, <1>3, SetCache

\* What an op stores; and what becomes of the entries and the debts of a node
\* when it stores entry e, for which room has been made.
EntryOf(o, state) == [value |-> o.value, version |-> o.version, state |-> state]
Stored(o, e, room) ==
    /\ \A j \in Key : room[j] = cache[o.at][j] \/ room[j] = NoEntry
    /\ \A m \in Node, j \in Key :
          cache'[m][j] = IF m # o.at THEN cache[m][j] ELSE IF j = o.key THEN e ELSE room[j]
    /\ \A m \in Node, j \in Key :
          <<m, j>> \in owed' <=> IF m = o.at /\ j = o.key THEN o.late
                                 ELSE <<m, j>> \in owed /\ (m # o.at \/ room[j] # NoEntry)

\* Storing the entry of an op.
LEMMA StoreEntryIs ==
    ASSUME TypeInv, NEW s \in Slot, NEW state \in {"M", "E", "S"},
           ops[s].pc \in {"fill", "store"}, StoreEntry(s, state)
    PROVE  /\ \E room : Stored(ops[s], EntryOf(ops[s], state), room)
           /\ cache' \in [Node -> [Key -> CacheEntry]]
           /\ owed' \subseteq Node \X Key
<1> DEFINE o == ops[s]
           e == [value |-> o.value, version |-> o.version, state |-> state]
<1>1. /\ o \in Op /\ o.at \in Node /\ o.key \in Key /\ cache[o.at] \in [Key -> CacheEntry]
      /\ owed \subseteq Node \X Key
  <2>1. o \in Op /\ Named(o) /\ o.pc # "idle" /\ owed \subseteq Node \X Key
    BY TypeOps DEF TypeInv
  <2>2. cache \in [Node -> [Key -> CacheEntry]]
    BY TypeOps DEF TypeInv
  <2> QED BY <2>1, <2>2 DEF Named
<1>2. e \in CacheEntry
  BY <1>1 DEF Op, CacheEntry
<1>3. PICK room \in RoomIn(cache[o.at]) :
         /\ cache' = [cache EXCEPT ![o.at] = [room EXCEPT ![o.key] = e]]
         /\ owed' = LET others == {d \in owed : d[1] # o.at \/ room[d[2]] # NoEntry}
                                    \ {<<o.at, o.key>>}
                    IN IF o.late THEN others \cup {<<o.at, o.key>>} ELSE others
  BY DEF StoreEntry
<1>4. /\ room \in [Key -> CacheEntry]
      /\ \A j \in Key : room[j] = cache[o.at][j] \/ room[j] = NoEntry
  BY <1>1, RoomIs
<1> HIDE DEF o, e
<1>5. [room EXCEPT ![o.key] = e] \in [Key -> CacheEntry]
  BY <1>2, <1>4
<1>6. /\ cache' \in [Node -> [Key -> CacheEntry]]
      /\ \A m \in Node, j \in Key :
            cache'[m][j] = IF m = o.at THEN [room EXCEPT ![o.key] = e][j] ELSE cache[m][j]
  BY <1>1, <1>3, <1>5, SetCache
<1>7. \A m \in Node, j \in Key :
         cache'[m][j] = IF m # o.at THEN cache[m][j] ELSE IF j = o.key THEN e ELSE room[j]
  BY <1>4, <1>6
<1>8. \A m \in Node, j \in Key :
         <<m, j>> \in owed' <=>
            IF m = o.at /\ j = o.key THEN o.late
            ELSE <<m, j>> \in owed /\ (m # o.at \/ room[j] # NoEntry)
  <2> SUFFICES ASSUME NEW m \in Node, NEW j \in Key
               PROVE  <<m, j>> \in owed' <=>
                        IF m = o.at /\ j = o.key THEN o.late
                        ELSE <<m, j>> \in owed /\ (m # o.at \/ room[j] # NoEntry)
    OBVIOUS
  <2>1. <<m, j>> = <<o.at, o.key>> <=> m = o.at /\ j = o.key
    OBVIOUS
  <2>2. <<m, j>>[1] = m /\ <<m, j>>[2] = j
    OBVIOUS
  <2>3. o.late \in BOOLEAN
    BY <1>1 DEF Op
  <2> QED BY <1>3, <2>1, <2>2, <2>3
<1>9. owed' \subseteq Node \X Key
  <2>1. owed' \subseteq owed \cup {<<o.at, o.key>>}
    BY <1>3
  <2> QED BY <1>1, <2>1
<1>10. Stored(o, e, room)
  BY <1>4, <1>7, <1>8 DEF Stored
<1> QED BY <1>6, <1>9, <1>10 DEF o, e, EntryOf

----------------------------------------------------------------------------
(* Types.                                                                  *)

\* Initially everything is of its type and no op is under way.
LEMMA InitType == Init => TypeInv
<1> SUFFICES ASSUME Init PROVE TypeInv
  OBVIOUS
<1>1. 0 \in 0..MaxClock /\ 0 \in 0..MaxFaults
  BY LimitsAssumption
<1>2. NoEntry \in CacheEntry
  BY <1>1 DEF NoEntry, CacheEntry
<1>3. TypeOK
  BY <1>1, <1>2, NoOpIs, TypeOps DEF Init
<1> QED BY <1>3, NoOpIs DEF TypeInv, Init

\* Replacing one op by a well-formed one.
LEMMA SetOp ==
    ASSUME TypeInv, NEW s \in Slot, NEW o \in Op, Named(o), ops' = [ops EXCEPT ![s] = o]
    PROVE  /\ ops' \in [Slot -> Op]
           /\ \A r \in Slot : Named(ops'[r])
           /\ \A r \in Slot : ops'[r] = IF r = s THEN o ELSE ops[r]
<1>1. ops \in [Slot -> Op] /\ \A r \in Slot : Named(ops[r])
  BY TypeOps DEF TypeInv
<1> QED BY <1>1

\* An op that ends.
LEMMA EndsIs ==
    ASSUME TypeInv, NEW s \in Slot, Ends(s)
    PROVE  /\ ops' \in [Slot -> Op]
           /\ \A r \in Slot : Named(ops'[r])
           /\ \A r \in Slot : ops'[r] = IF r = s THEN NoOp ELSE ops[r]
  BY SetOp, NoOpIs DEF Ends

\* A fault is counted.
LEMMA StrikesIs == ASSUME TypeInv, Strikes PROVE faults' \in 0..MaxFaults
<1>1. faults \in 0..MaxFaults /\ MaxFaults \in Nat /\ faults < MaxFaults /\ faults' = faults + 1
  BY TypeOps, LimitsAssumption DEF TypeInv, Strikes
<1> QED BY <1>1

\* What the steps of an op do to its slot.
LEMMA ForwardIs ==
    ASSUME TypeInv, NEW s \in Slot, Forward(s)
    PROVE  /\ \/ Ends(s)
              \/ \E o \in Arriving(s) :
                    /\ Owner(o.at, o.key) # o.at
                    /\ [o EXCEPT !.at = Owner(o.at, o.key)] \in Op
                    /\ Named([o EXCEPT !.at = Owner(o.at, o.key)])
                    /\ ops' = [ops EXCEPT ![s] = [o EXCEPT !.at = Owner(o.at, o.key)]]
           /\ faults' \in 0..MaxFaults
           /\ UNCHANGED <<redis, clock, life, view, cache, owed>>
<1>1. PICK o \in Arriving(s) :
         LET owner == Owner(o.at, o.key)
         IN /\ owner # o.at
            /\ \/ Serves(owner) /\ ops' = [ops EXCEPT ![s] = [o EXCEPT !.at = owner]] /\ UNCHANGED faults
               \/ ~Serves(owner) /\ Ends(s) /\ UNCHANGED faults
               \/ Serves(owner) /\ "send" \in Faults /\ Strikes /\ Ends(s)
  BY DEF Forward
<1>2. o \in Op /\ o.pc \in {"get", "put"} /\ o.at \in Node /\ o.key \in Key /\ Named(o)
  BY ArrivingIs
<1>3. Owner(o.at, o.key) \in Node
  BY <1>2, OwnerIs
<1>4. [o EXCEPT !.at = Owner(o.at, o.key)] \in Op /\ Named([o EXCEPT !.at = Owner(o.at, o.key)])
  BY <1>2, <1>3 DEF Op, Named
<1>5. faults \in 0..MaxFaults
  BY TypeOps DEF TypeInv
<1>6. UNCHANGED <<redis, clock, life, view, cache, owed>>
  BY DEF Forward
<1> QED BY <1>1, <1>4, <1>5, <1>6, StrikesIs


\* A hit changes the state of a valid entry at most.
LEMMA HitIs ==
    ASSUME TypeInv, NEW s \in Slot, Hit(s)
    PROVE  /\ Ends(s) /\ UNCHANGED <<redis, clock, nodes, owed>>
           /\ \/ cache' = cache
              \/ \E n \in Node, k \in Key, e \in CacheEntry :
                    /\ Valid(cache[n][k]) /\ Valid(e) /\ cache' = [cache EXCEPT ![n][k] = e]
                    /\ e.value = cache[n][k].value /\ e.version = cache[n][k].version
<1>1. PICK o \in Arriving(s) :
         /\ Valid(cache[o.at][o.key])
         /\ cache' = IF o.requester = o.at THEN cache
                     ELSE [cache EXCEPT ![o.at][o.key].state = "S"]
  BY DEF Hit
<1>2. o.at \in Node /\ o.key \in Key
  BY ArrivingIs
<1> DEFINE e == [cache[o.at][o.key] EXCEPT !.state = "S"]
<1>3. e \in CacheEntry /\ Valid(e)
      /\ e.value = cache[o.at][o.key].value /\ e.version = cache[o.at][o.key].version
  <2>1. cache[o.at][o.key] \in CacheEntry
    BY <1>2, TypeOps DEF TypeInv
  <2> QED BY <2>1 DEF CacheEntry, Valid
<1>4. cache' = cache \/ cache' = [cache EXCEPT ![o.at][o.key] = e]
  BY <1>1
<1>5. Ends(s) /\ UNCHANGED <<redis, clock, nodes, owed>>
  BY DEF Hit
<1> HIDE DEF e
<1> QED BY <1>1, <1>2, <1>3, <1>4, <1>5

\* A miss has nothing in hand yet.
LEMMA MissIs ==
    ASSUME TypeInv, NEW s \in Slot, Miss(s)
    PROVE  \E o \in Op : /\ Named(o) /\ o.pc = "hget value"
                         /\ o.version = 0 \/ o.version = ops[s].version
                         /\ ops' = [ops EXCEPT ![s] = o]
<1>1. PICK a \in Arriving(s) : ops' = [ops EXCEPT ![s] = [a EXCEPT !.pc = "hget value"]]
  BY DEF Miss
<1>2. /\ a \in Op /\ a.pc \in {"get", "put"} /\ a.at \in Node /\ a.key \in Key /\ Named(a)
      /\ a = ops[s] \/ a.version = 0
  BY ArrivingIs
<1> DEFINE o == [a EXCEPT !.pc = "hget value"]
<1>3. /\ o \in Op /\ o.pc = "hget value" /\ Named(o)
      /\ o.version = 0 \/ o.version = ops[s].version
  BY <1>2 DEF Op, Named
<1> QED BY <1>1, <1>3

\* The op after each of the two reads.
LEMMA ReadIs ==
    ASSUME TypeInv, NEW s \in Slot, ReadStore(s)
    PROVE  \/ Ends(s)
           \/ \E o \in Op :
                 /\ Named(o) /\ ops' = [ops EXCEPT ![s] = o]
                 /\ o.key = ops[s].key /\ o.key \in Key /\ o.late = ops[s].late
                 /\ \/ /\ ops[s].pc = "hget value" /\ o.pc = "hget version"
                       /\ o.value = store[o.key] /\ o.version = ops[s].version
                    \/ /\ ops[s].pc = "hget version" /\ o.pc = "fill"
                       /\ o.value = ops[s].value /\ o.version = versions[o.key]
<1> DEFINE a == ops[s]
<1>1. /\ a \in Op /\ Named(a) /\ store \in [Key -> Value \cup {None}]
      /\ versions \in [Key -> 0..MaxClock] /\ ops \in [Slot -> Op]
  BY TypeOps DEF TypeInv
<1>2. CASE a.pc = "hget value" /\ ops' = [ops EXCEPT ![s].value = store[a.key], ![s].pc = "hget version"]
  <2> DEFINE o == [a EXCEPT !.value = store[a.key], !.pc = "hget version"]
  <2>1. o \in Op /\ Named(o) /\ o.key = a.key /\ a.key \in Key /\ o.late = a.late
        /\ o.pc = "hget version" /\ o.value = store[a.key] /\ o.version = a.version
    BY <1>1, <1>2 DEF Op, Named
  <2>2. ops' = [ops EXCEPT ![s] = o]
    BY <1>1, <1>2
  <2> QED BY <1>2, <2>1, <2>2
<1>3. CASE a.pc = "hget version" /\ ops' = [ops EXCEPT ![s].version = versions[a.key], ![s].pc = "fill"]
  <2> DEFINE o == [a EXCEPT !.version = versions[a.key], !.pc = "fill"]
  <2>1. o \in Op /\ Named(o) /\ o.key = a.key /\ a.key \in Key /\ o.late = a.late
        /\ o.pc = "fill" /\ o.value = a.value /\ o.version = versions[a.key]
    BY <1>1, <1>3 DEF Op, Named
  <2>2. ops' = [ops EXCEPT ![s] = o]
    BY <1>1, <1>3
  <2> QED BY <1>3, <2>1, <2>2
<1> QED BY <1>2, <1>3 DEF ReadStore

\* A put that has its version has the last reading of the clock.
LEMMA TakeVersionIs ==
    ASSUME TypeInv, NEW s \in Slot, TakeVersion(s)
    PROVE  \E o \in Op : /\ Named(o) /\ o.pc = "hset value" /\ o.version = clock
                         /\ ops' = [ops EXCEPT ![s] = o]
<1>1. PICK a \in Arriving(s) :
         ops' = [ops EXCEPT ![s] = [a EXCEPT !.pc = "hset value", !.version = clock, !.requester = None]]
  BY DEF TakeVersion
<1>2. a \in Op /\ a.pc \in {"get", "put"} /\ a.at \in Node /\ a.key \in Key /\ Named(a)
  BY ArrivingIs
<1>3. clock \in 0..MaxClock
  BY TypeOps DEF TypeInv
<1> DEFINE o == [a EXCEPT !.pc = "hset value", !.version = clock, !.requester = None]
<1>4. o \in Op /\ o.pc = "hset value" /\ Named(o) /\ o.version = clock
  BY <1>2, <1>3 DEF Op, Named
<1> QED BY <1>1, <1>4

\* A write marks the other ops of its key that have something in hand.
LEMMA WriteValueIs ==
    ASSUME TypeInv, NEW s \in Slot, WriteValue(s)
    PROVE  LET k == ops[s].key
               marked(r) == [ops[r] EXCEPT !.late = TRUE]
           IN /\ k \in Key /\ ops[s].pc = "hset value"
              /\ \A r \in Slot :
                    /\ ops'[r].key = ops[r].key /\ ops'[r].value = ops[r].value
                    /\ ops'[r].version = ops[r].version
                    /\ ops'[r].pc = IF r = s THEN "hset version" ELSE ops[r].pc
                    /\ ops'[s].late = ops[s].late
              /\ \A r \in Slot \ {s} :
                    ops'[r] = IF ops[r].key = k /\ ops[r].pc \notin {"get", "put", "hget value"}
                              THEN marked(r) ELSE ops[r]
              /\ ops' \in [Slot -> Op] /\ \A r \in Slot : Named(ops'[r])
              /\ store' = [store EXCEPT ![k] = ops[s].value]
              /\ owed' \subseteq Node \X Key
              /\ \A m \in Node, j \in Key :
                    <<m, j>> \in owed' <=> <<m, j>> \in owed \/ (j = k /\ Valid(cache[m][k]))
<1> DEFINE k == ops[s].key
<1>1. ops \in [Slot -> Op] /\ \A r \in Slot : Named(ops[r])
  BY TypeOps DEF TypeInv
<1>2. ops[s].pc = "hset value" /\ k \in Key
  BY <1>1 DEF WriteValue, Named
<1>3. ASSUME NEW o \in Op, Named(o)
      PROVE  /\ [o EXCEPT !.late = TRUE] \in Op /\ Named([o EXCEPT !.late = TRUE])
             /\ o.pc = "hset value" => [o EXCEPT !.pc = "hset version"] \in Op
             /\ o.pc = "hset value" => Named([o EXCEPT !.pc = "hset version"])
  BY <1>3 DEF Op, Named
<1>4. ops' = [r \in Slot |->
                IF r = s THEN [ops[r] EXCEPT !.pc = "hset version"]
                ELSE IF r \in UnderWay(k) THEN [ops[r] EXCEPT !.late = TRUE] ELSE ops[r]]
  BY DEF WriteValue
<1>5. \A r \in Slot : r \in UnderWay(k) <=>
         ops[r].key = k /\ ops[r].pc \notin {"get", "put", "hget value"}
  BY DEF UnderWay
<1>6. ops' \in [Slot -> Op] /\ \A r \in Slot : Named(ops'[r])
  <2>1. ASSUME NEW r \in Slot PROVE ops'[r] \in Op /\ Named(ops'[r])
    <3>1. ops[r] \in Op /\ Named(ops[r])
      BY <1>1
    <3>2. ops'[r] = ops[r] \/ ops'[r] = [ops[r] EXCEPT !.late = TRUE]
             \/ (ops[r].pc = "hset value" /\ ops'[r] = [ops[r] EXCEPT !.pc = "hset version"])
      BY <1>2, <1>4
    <3> QED BY <3>1, <3>2, <1>3
  <2> QED BY <1>4, <2>1
<1>0. k \in Key
  BY <1>2
<1>11. ASSUME NEW r \in Slot
       PROVE  /\ ops'[r].key = ops[r].key /\ ops'[r].value = ops[r].value
              /\ ops'[r].version = ops[r].version
              /\ ops'[r].pc = IF r = s THEN "hset version" ELSE ops[r].pc
              /\ r = s => ops'[s].late = ops[s].late
  <2>1. ops[r] \in Op
    BY <1>1
  <2>2. CASE r = s
    <3>1. ops'[r] = [ops[r] EXCEPT !.pc = "hset version"]
      BY <1>4, <2>2
    <3> QED BY <2>1, <2>2, <3>1 DEF Op
  <2>3. CASE r # s
    <3>1. ops'[r] = [ops[r] EXCEPT !.late = TRUE] \/ ops'[r] = ops[r]
      BY <1>4, <2>3
    <3> QED BY <2>1, <2>3, <3>1 DEF Op
  <2> QED BY <2>2, <2>3
<1> HIDE DEF k
<1>7. owed' = owed \cup {<<n, k>> : n \in {m \in Node : Valid(cache[m][k])}}
  BY DEF WriteValue, k
<1>8. owed' \subseteq Node \X Key
  <2>1. owed \subseteq Node \X Key
    BY TypeOps DEF TypeInv
  <2>2. ASSUME NEW d \in owed', d \notin owed PROVE d \in Node \X Key
    <3>1. PICK n \in {m \in Node : Valid(cache[m][k])} : d = <<n, k>>
      BY <1>7, <2>2
    <3> QED BY <1>0, <3>1
  <2> QED BY <2>1, <2>2
<1>9. ASSUME NEW m \in Node, NEW j \in Key
      PROVE  <<m, j>> \in owed' <=> <<m, j>> \in owed \/ (j = k /\ Valid(cache[m][k]))
  BY <1>7
<1>10. store' = [store EXCEPT ![k] = ops[s].value]
  BY DEF WriteValue, k
<1> QED BY <1>2, <1>4, <1>5, <1>6, <1>8, <1>9, <1>10, <1>11 DEF k

\* The op goes on as it is.
LEMMA WriteVersionIs ==
    ASSUME TypeInv, NEW s \in Slot, WriteVersion(s)
    PROVE  LET o == [ops[s] EXCEPT !.pc = "store"]
           IN /\ ops[s].pc = "hset version" /\ ops[s].key \in Key
              /\ o \in Op /\ Named(o) /\ ops' = [ops EXCEPT ![s] = o]
              /\ versions' = [versions EXCEPT ![ops[s].key] = ops[s].version]
<1>1. ops \in [Slot -> Op] /\ Named(ops[s]) /\ ops[s] \in Op
  BY TypeOps DEF TypeInv
<1>2. ops[s].pc = "hset version" /\ ops[s].key \in Key
  BY <1>1 DEF WriteVersion, Named
<1>3. [ops[s] EXCEPT !.pc = "store"] \in Op /\ Named([ops[s] EXCEPT !.pc = "store"])
  BY <1>1, <1>2 DEF Op, Named
<1> QED BY <1>1, <1>2, <1>3 DEF WriteVersion, Goes

\* An op that has peers to tell, or none and ends.
LEMMA AskingIs ==
    ASSUME TypeInv, NEW s \in Slot, NEW peers \in SUBSET Node, Asking(s, peers),
           ops[s].pc \in {"store", "broadcast"}
    PROVE  \/ Ends(s)
           \/ \E o \in Op : /\ Named(o) /\ o.pc = "broadcast" /\ ops' = [ops EXCEPT ![s] = o]
                            /\ o.key = ops[s].key /\ o.version = ops[s].version
                            /\ o.late = ops[s].late
<1>1. ops \in [Slot -> Op] /\ Named(ops[s]) /\ ops[s] \in Op
  BY TypeOps DEF TypeInv
<1>2. CASE peers = {}
  BY <1>1, <1>2 DEF Asking, Ends
<1>3. CASE peers # {}
  <2> DEFINE o == [ops[s] EXCEPT !.pc = "broadcast", !.pending = peers, !.value = None]
  <2>1. ops' = [ops EXCEPT ![s] = o]
    BY <1>1, <1>3 DEF Asking
  <2>2. o \in Op /\ Named(o) /\ o.pc = "broadcast" /\ o.key = ops[s].key
        /\ o.version = ops[s].version /\ o.late = ops[s].late
    BY <1>1 DEF Op, Named
  <2> QED BY <2>1, <2>2
<1> QED BY <1>2, <1>3

\* An invalidated entry has the version of the invalidation, if it had none
\* that is later.
LEMMA InvalidatedIs ==
    ASSUME NEW e \in CacheEntry, NEW version \in 0..MaxClock
    PROVE  /\ Invalidated(e, version) \in CacheEntry
           /\ Invalidated(e, version) = e \/ Invalidated(e, version).version = version
           /\ Valid(Invalidated(e, version)) =>
                 Invalidated(e, version) = e /\ ~(e.version <= version)
<1>1. CASE e # NoEntry /\ e.version <= version
  <2>1. Invalidated(e, version) = [e EXCEPT !.state = "I", !.version = version]
    BY <1>1 DEF Invalidated
  <2>2. [e EXCEPT !.state = "I", !.version = version] \in CacheEntry
    BY DEF CacheEntry
  <2> QED BY <2>1, <2>2 DEF CacheEntry, Valid
<1>2. CASE e = NoEntry
  <2>1. ~Valid(e)
    BY <1>2 DEF Valid, NoEntry
  <2> QED BY <1>2, <2>1 DEF Invalidated
<1>3. CASE ~(e.version <= version)
  BY <1>3 DEF Invalidated
<1> QED BY <1>1, <1>2, <1>3


\* The types after a step, one by one.
LEMMA TypeNext ==
    ASSUME store' \in [Key -> Value \cup {None}], versions' \in [Key -> 0..MaxClock],
           members' \subseteq Node, clock' \in 0..MaxClock, faults' \in 0..MaxFaults,
           life' \in [Node -> {"up", "leaving", "down", "starting"}],
           view' \in [Node -> SUBSET Node], \A n \in Node : n \in view'[n],
           cache' \in [Node -> [Key -> CacheEntry]],
           ops' \in [Slot -> Op], \A r \in Slot : Named(ops'[r]),
           owed' \subseteq Node \X Key
    PROVE  TypeInv'
  BY DEF TypeInv, TypeOK, CacheEntry, Op, Named

\* A peer handles the invalidation, or does not.
LEMMA InvalidateIs ==
    ASSUME TypeInv, NEW s \in Slot, NEW p \in ops[s].pending, Invalidate(s, p)
    PROVE  LET o == ops[s]
           IN /\ p \in Node /\ o.pc = "broadcast" /\ o.key \in Key
              /\ \/ Ends(s)
                 \/ \E q \in Op : /\ Named(q) /\ q.pc = "broadcast" /\ ops' = [ops EXCEPT ![s] = q]
                                  /\ q.key = o.key /\ q.version = o.version /\ q.late = o.late
              /\ \/ UNCHANGED <<cache, owed>>
                 \/ /\ cache' = [cache EXCEPT ![p][o.key] = Invalidated(@, o.version)]
                    /\ owed' = IF o.late THEN owed ELSE owed \ {<<p, o.key>>}
              /\ faults' \in 0..MaxFaults
              /\ UNCHANGED <<redis, clock, life, view>>
<1>1. ops[s] \in Op /\ Named(ops[s]) /\ faults \in 0..MaxFaults
  BY TypeOps DEF TypeInv
<1>2. ops[s].pc = "broadcast" /\ ops[s].key \in Key
  BY <1>1 DEF Invalidate, Named
<1>3. p \in Node /\ ops[s].pending \ {p} \in SUBSET Node
  BY <1>1 DEF Op
<1>4. Asking(s, ops[s].pending \ {p})
  BY DEF Invalidate
<1>5. \/ Ends(s)
      \/ \E q \in Op : /\ Named(q) /\ q.pc = "broadcast" /\ ops' = [ops EXCEPT ![s] = q]
                       /\ q.key = ops[s].key /\ q.version = ops[s].version /\ q.late = ops[s].late
  BY <1>2, <1>3, <1>4, AskingIs
<1>6. faults' \in 0..MaxFaults
  BY <1>1, StrikesIs DEF Invalidate
<1> QED BY <1>2, <1>3, <1>5, <1>6 DEF Invalidate

\* The node is gone with its cache; some calls of its broadcasts go on.
LEMMA HaltIs ==
    ASSUME TypeInv, NEW n \in Node, Halt(n)
    PROVE  /\ ops' \in [Slot -> Op]
           /\ \A r \in Slot : Named(ops'[r])
           /\ \A r \in Slot : \/ ops'[r] = NoOp
                              \/ ops'[r] = ops[r]
                              \/ /\ ops[r].pc = "broadcast"
                                 /\ \E P : ops'[r] = [ops[r] EXCEPT !.pending = P]
           /\ cache' = [cache EXCEPT ![n] = [k \in Key |-> NoEntry]]
           /\ owed' = {d \in owed : d[1] # n}
           /\ faults' \in 0..MaxFaults
<1>1. ops \in [Slot -> Op] /\ (\A r \in Slot : Named(ops[r])) /\ faults \in 0..MaxFaults
  BY TypeOps DEF TypeInv
<1>2. PICK sent \in SUBSET Node :
          ops' = [s \in Slot |->
                    IF ops[s].at # n THEN ops[s]
                    ELSE IF ops[s].pending \cap sent = {} THEN NoOp
                    ELSE [ops[s] EXCEPT !.pending = @ \cap sent]]
  BY DEF Halt
<1>3. ASSUME NEW r \in Slot
      PROVE  /\ ops'[r] \in Op /\ Named(ops'[r])
             /\ \/ ops'[r] = NoOp
                \/ ops'[r] = ops[r]
                \/ /\ ops[r].pc = "broadcast"
                   /\ \E P : ops'[r] = [ops[r] EXCEPT !.pending = P]
  <2>1. ops[r] \in Op /\ Named(ops[r])
    BY <1>1
  <2>2. CASE ops'[r] = NoOp \/ ops'[r] = ops[r]
    BY <2>1, <2>2, NoOpIs
  <2>3. CASE ops'[r] = [ops[r] EXCEPT !.pending = @ \cap sent] /\ ops[r].pending \cap sent # {}
    <3>1. ops[r].pc = "broadcast"
      BY <2>1, <2>3 DEF Named
    <3>2. ops'[r] \in Op
      BY <2>1, <2>3 DEF Op
    <3>3. Named(ops'[r])
      BY <2>1, <2>3, <3>1 DEF Op, Named
    <3> QED BY <2>3, <3>1, <3>2, <3>3
  <2> QED BY <1>2, <2>2, <2>3
<1>4. ops' \in [Slot -> Op]
  BY <1>2, <1>3
<1>5. faults' \in 0..MaxFaults
  BY <1>1, StrikesIs DEF Halt
<1> QED BY <1>3, <1>4, <1>5 DEF Halt

\* Every step keeps the types.
LEMMA NextType == TypeInv /\ [Next]_vars => TypeInv'
<1> SUFFICES ASSUME TypeInv, [Next]_vars PROVE TypeInv'
  OBVIOUS
<1>0. /\ store \in [Key -> Value \cup {None}] /\ versions \in [Key -> 0..MaxClock]
      /\ members \subseteq Node /\ clock \in 0..MaxClock /\ faults \in 0..MaxFaults
      /\ life \in [Node -> {"up", "leaving", "down", "starting"}]
      /\ view \in [Node -> SUBSET Node] /\ \A n \in Node : n \in view[n]
      /\ cache \in [Node -> [Key -> CacheEntry]]
      /\ ops \in [Slot -> Op] /\ \A r \in Slot : Named(ops[r])
      /\ owed \subseteq Node \X Key
  BY TypeOps DEF TypeInv
<1> USE DEF redis, nodes
<1>1. ASSUME NEW s \in Slot, Forward(s) PROVE TypeInv'
  <2>1. ops' \in [Slot -> Op] /\ \A r \in Slot : Named(ops'[r])
    BY <1>1, ForwardIs, SetOp, EndsIs
  <2>2. faults' \in 0..MaxFaults /\ UNCHANGED <<redis, clock, life, view, cache, owed>>
    BY <1>1, ForwardIs
  <2> QED BY <1>0, <2>1, <2>2, TypeNext
<1>2. ASSUME NEW s \in Slot, Hit(s) PROVE TypeInv'
  <2>1. /\ ops' \in [Slot -> Op] /\ \A r \in Slot : Named(ops'[r])
        /\ UNCHANGED <<redis, clock, nodes, owed>>
    BY <1>2, HitIs, EndsIs
  <2>2. cache' \in [Node -> [Key -> CacheEntry]]
    BY <1>0, <1>2, HitIs, SetEntry
  <2> QED BY <1>0, <2>1, <2>2, TypeNext
<1>3. ASSUME NEW s \in Slot, Miss(s) \/ ReadStore(s) \/ TakeVersion(s) PROVE TypeInv'
  <2>1. ops' \in [Slot -> Op] /\ \A r \in Slot : Named(ops'[r])
    BY <1>3, MissIs, ReadIs, TakeVersionIs, SetOp, EndsIs
  <2>2. UNCHANGED <<redis, clock, nodes, cache, owed>>
    BY <1>3 DEF Miss, ReadStore, TakeVersion
  <2> QED BY <1>0, <2>1, <2>2, TypeNext
<1>4. ASSUME NEW s \in Slot, Fill(s) \/ StoreWritten(s) PROVE TypeInv'
  <2>1. ops' \in [Slot -> Op] /\ \A r \in Slot : Named(ops'[r])
    <3>1. CASE Fill(s)
      BY <3>1, EndsIs DEF Fill
    <3>2. CASE StoreWritten(s)
      <4>1. ops[s].pc = "store" /\ Asking(s, view[ops[s].at] \ {ops[s].at})
        BY <3>2 DEF StoreWritten
      <4>2. view[ops[s].at] \ {ops[s].at} \in SUBSET Node
        BY <1>0, <4>1 DEF Named
      <4> QED BY <4>1, <4>2, AskingIs, SetOp, EndsIs
    <3> QED BY <1>4, <3>1, <3>2
  <2>2. UNCHANGED <<redis, clock, nodes>>
    BY <1>4 DEF Fill, StoreWritten
  <2>3. cache' \in [Node -> [Key -> CacheEntry]] /\ owed' \subseteq Node \X Key
    <3>1. \E state \in {"M", "E", "S"} : StoreEntry(s, state) /\ ops[s].pc \in {"fill", "store"}
      BY <1>4 DEF Fill, StoreWritten
    <3> QED BY <3>1, StoreEntryIs
  <2> QED BY <1>0, <2>1, <2>2, <2>3, TypeNext
<1>5. ASSUME NEW s \in Slot, WriteValue(s) PROVE TypeInv'
  <2>1. ops' \in [Slot -> Op] /\ \A r \in Slot : Named(ops'[r])
    BY <1>5, WriteValueIs
  <2>2. store' \in [Key -> Value \cup {None}] /\ owed' \subseteq Node \X Key
    <3>1. ops[s].key \in Key /\ ops[s].value \in Value \cup {None}
      BY <1>0, <1>5, WriteValueIs DEF Op
    <3>2. /\ store' = [store EXCEPT ![ops[s].key] = ops[s].value]
          /\ owed' \subseteq Node \X Key
      BY <1>5, WriteValueIs
    <3> QED BY <1>0, <3>1, <3>2
  <2>3. UNCHANGED <<versions, members, clock, nodes, cache>>
    BY <1>5 DEF WriteValue
  <2> QED BY <1>0, <2>1, <2>2, <2>3, TypeNext
<1>6. ASSUME NEW s \in Slot, WriteVersion(s) PROVE TypeInv'
  <2>1. ops' \in [Slot -> Op] /\ \A r \in Slot : Named(ops'[r])
    BY <1>6, WriteVersionIs, SetOp
  <2>2. versions' \in [Key -> 0..MaxClock]
    BY <1>0, <1>6, WriteVersionIs DEF Op
  <2>3. UNCHANGED <<store, members, clock, nodes, cache, owed>>
    BY <1>6 DEF WriteVersion
  <2> QED BY <1>0, <2>1, <2>2, <2>3, TypeNext
<1>7. ASSUME NEW s \in Slot, NEW p \in ops[s].pending, Invalidate(s, p) PROVE TypeInv'
  <2>1. ops' \in [Slot -> Op] /\ \A r \in Slot : Named(ops'[r])
    BY <1>7, InvalidateIs, SetOp, EndsIs
  <2>2. faults' \in 0..MaxFaults /\ UNCHANGED <<redis, clock, life, view>>
    BY <1>7, InvalidateIs
  <2>3. cache' \in [Node -> [Key -> CacheEntry]] /\ owed' \subseteq Node \X Key
    <3>1. CASE UNCHANGED <<cache, owed>>
      BY <1>0, <3>1
    <3>2. CASE /\ cache' = [cache EXCEPT ![p][ops[s].key] = Invalidated(@, ops[s].version)]
               /\ owed' = IF ops[s].late THEN owed ELSE owed \ {<<p, ops[s].key>>}
      <4>1. p \in Node /\ ops[s].key \in Key /\ ops[s].version \in 0..MaxClock
        BY <1>0, <1>7, InvalidateIs DEF Op
      <4>2. Invalidated(cache[p][ops[s].key], ops[s].version) \in CacheEntry
        BY <1>0, <4>1, InvalidatedIs
      <4> QED BY <1>0, <3>2, <4>1, <4>2
    <3> QED BY <1>7, <3>1, <3>2, InvalidateIs
  <2> QED BY <1>0, <2>1, <2>2, <2>3, TypeNext
<1>8. ASSUME NEW s \in Slot, RedisFails(s) PROVE TypeInv'
  <2>1. ops' \in [Slot -> Op] /\ \A r \in Slot : Named(ops'[r])
    BY <1>8, EndsIs DEF RedisFails
  <2>2. faults' \in 0..MaxFaults /\ UNCHANGED <<redis, clock, life, view, cache, owed>>
    BY <1>8, StrikesIs DEF RedisFails
  <2> QED BY <1>0, <2>1, <2>2, TypeNext
<1>9. ASSUME NEW n \in Node, Refresh(n) PROVE TypeInv'
  <2>1. view' \in [Node -> SUBSET Node] /\ \A m \in Node : m \in view'[m]
    <3>1. PICK v \in SUBSET Node : n \in v /\ view' = [view EXCEPT ![n] = v]
      <4>1. members \cup {n} \in SUBSET Node /\ Node \in SUBSET Node
        BY <1>0
      <4> QED BY <1>9, <4>1 DEF Refresh
    <3> QED BY <1>0, <3>1
  <2>2. UNCHANGED <<redis, clock, life, faults, cache, ops, owed>>
    BY <1>9 DEF Refresh
  <2> QED BY <1>0, <2>1, <2>2, TypeNext
<1>10. ASSUME NEW n \in Node, Leave(n) PROVE TypeInv'
  <2>1. faults' \in 0..MaxFaults
    BY <1>10, StrikesIs DEF Leave
  <2> QED BY <1>0, <1>10, <2>1, TypeNext DEF Leave
<1>11. ASSUME NEW n \in Node, Halt(n) PROVE TypeInv'
  <2>1. cache' \in [Node -> [Key -> CacheEntry]] /\ owed' \subseteq Node \X Key
    <3>1. [k \in Key |-> NoEntry] \in [Key -> CacheEntry]
      BY LimitsAssumption DEF NoEntry, CacheEntry
    <3>2. owed' \subseteq owed /\ cache' = [cache EXCEPT ![n] = [k \in Key |-> NoEntry]]
      BY <1>11, HaltIs
    <3> QED BY <1>0, <3>1, <3>2, SetCache
  <2>2. life' \in [Node -> {"up", "leaving", "down", "starting"}]
    BY <1>0, <1>11 DEF Halt
  <2>3. UNCHANGED <<redis, clock, view>>
    BY <1>11 DEF Halt
  <2> QED BY <1>0, <1>11, <2>1, <2>2, <2>3, HaltIs, TypeNext
<1>12. ASSUME NEW n \in Node, Start(n) PROVE TypeInv'
  <2>1. view' \in [Node -> SUBSET Node] /\ \A m \in Node : m \in view'[m]
    BY <1>0, <1>12 DEF Start
  <2> QED BY <1>0, <1>12, <2>1, TypeNext DEF Start
<1>13. ASSUME NEW n \in Node, Register(n) PROVE TypeInv'
  BY <1>0, <1>13, TypeNext DEF Register
<1>14. CASE Tick
  <2>1. clock' \in 0..MaxClock
    BY <1>0, <1>14, LimitsAssumption DEF Tick
  <2> QED BY <1>0, <1>14, <2>1, TypeNext DEF Tick
<1>15. CASE UNCHANGED vars
  BY <1>0, <1>15, TypeNext DEF vars
<1> QED BY <1>1, <1>2, <1>3, <1>4, <1>5, <1>6, <1>7, <1>8, <1>9, <1>10, <1>11, <1>12, <1>13,
           <1>14, <1>15 DEF Next, OpStep

\* Redis, the caches and the ops keep their types; a node is always in its own
\* ring, so no ring is empty.
THEOREM TypeCorrect == Spec => []TypeOK
<1>1. TypeInv => TypeOK
  BY DEF TypeInv
<1> QED BY <1>1, InitType, NextType, PTL DEF Spec


----------------------------------------------------------------------------
(* Forwarding.                                                             *)

\* Only forwarding starts or moves a request.
LEMMA OnlyForwardMoves ==
    ASSUME TypeInv, Next, NEW s \in Slot, ops'[s].pc \in {"get", "put"}, ops'[s] # ops[s]
    PROVE  Forward(s)
<1> SUFFICES ASSUME ~Forward(s) PROVE FALSE
  OBVIOUS
<1>0. NoOp.pc = "idle"
  BY DEF NoOp
<1>1. ASSUME NEW r \in Slot, OpStep(r) \/ RedisFails(r) PROVE FALSE
  <2>1. CASE Forward(r)
    BY <1>0, <2>1, ForwardIs, SetOp, EndsIs
  <2>2. CASE Hit(r) \/ Fill(r) \/ RedisFails(r)
    BY <1>0, <2>2, EndsIs DEF Hit, Fill, RedisFails
  <2>3. CASE Miss(r) \/ ReadStore(r) \/ TakeVersion(r)
    <3>1. Ends(r) \/ \E o \in Op : /\ Named(o) /\ ops' = [ops EXCEPT ![r] = o]
                                  /\ o.pc \in {"hget value", "hget version", "fill", "hset value"}
      BY <2>3, MissIs, ReadIs, TakeVersionIs
    <3> QED BY <1>0, <3>1, SetOp, EndsIs
  <2>4. CASE WriteValue(r)
    <3>1. CASE s = r
      BY <2>4, <3>1, WriteValueIs
    <3>2. CASE s # r
      BY <2>4, <3>2, WriteValueIs
    <3> QED BY <3>1, <3>2
  <2>5. CASE WriteVersion(r)
    <3>1. [ops[r] EXCEPT !.pc = "store"] \in Op /\ Named([ops[r] EXCEPT !.pc = "store"])
          /\ ops' = [ops EXCEPT ![r] = [ops[r] EXCEPT !.pc = "store"]]
      BY <2>5, WriteVersionIs
    <3>2. [ops[r] EXCEPT !.pc = "store"].pc = "store"
      BY TypeOps DEF TypeInv, Op
    <3> QED BY <3>1, <3>2, SetOp
  <2>6. CASE StoreWritten(r)
    <3>1. ops[r].pc = "store" /\ Asking(r, view[ops[r].at] \ {ops[r].at})
      BY <2>6 DEF StoreWritten
    <3>2. view[ops[r].at] \ {ops[r].at} \in SUBSET Node
      BY <3>1, TypeOps DEF TypeInv, Named
    <3> QED BY <1>0, <3>1, <3>2, AskingIs, SetOp, EndsIs
  <2>7. ASSUME NEW p \in ops[r].pending, Invalidate(r, p) PROVE FALSE
    BY <1>0, <2>7, InvalidateIs, SetOp, EndsIs
  <2> QED BY <1>1, <2>1, <2>2, <2>3, <2>4, <2>5, <2>6, <2>7 DEF OpStep
<1>2. ASSUME NEW n \in Node, Halt(n) PROVE FALSE
  <2>1. \/ ops'[s] = NoOp \/ ops'[s] = ops[s]
        \/ ops[s].pc = "broadcast" /\ \E P : ops'[s] = [ops[s] EXCEPT !.pending = P]
    BY <1>2, HaltIs
  <2>2. ops[s] \in Op
    BY TypeOps DEF TypeInv
  <2> QED BY <1>0, <2>1, <2>2 DEF Op
<1>3. ASSUME NEW n \in Node, Refresh(n) \/ Leave(n) \/ Start(n) \/ Register(n) PROVE FALSE
  BY <1>3 DEF Refresh, Leave, Start, Register
<1>4. CASE Tick
  BY <1>4 DEF Tick
<1> QED BY <1>1, <1>2, <1>3, <1>4 DEF Next

\* However the rings of the nodes differ and change, a request moves nearer to
\* its key with every forward: get and put of cache_node.py cannot send one
\* back and forth.
THEOREM ForwardingEnds == Spec => ForwardsDescend
<1>1. TypeInv /\ [Next]_vars => [MovesNearer]_vars
  <2> SUFFICES ASSUME TypeInv, Next,
                      NEW s \in Slot, ops'[s].pc \in {"get", "put"}, ops'[s] # ops[s]
               PROVE  LET last == IF ops[s] = NoOp THEN ops'[s].requester ELSE ops[s].at
                      IN Reach(KeyHash[ops'[s].key], ops'[s].at) < Reach(KeyHash[ops'[s].key], last)
    BY DEF MovesNearer
  <2>1. Forward(s)
    BY OnlyForwardMoves
  <2>2. ~Ends(s)
    <3>1. NoOp.pc = "idle"
      BY DEF NoOp
    <3> QED BY <3>1, EndsIs
  <2>3. PICK o \in Arriving(s) :
           /\ Owner(o.at, o.key) # o.at
           /\ [o EXCEPT !.at = Owner(o.at, o.key)] \in Op
           /\ Named([o EXCEPT !.at = Owner(o.at, o.key)])
           /\ ops' = [ops EXCEPT ![s] = [o EXCEPT !.at = Owner(o.at, o.key)]]
    BY <2>1, <2>2, ForwardIs
  <2>4. /\ o \in Op /\ o.pc \in {"get", "put"} /\ o.at \in Node /\ o.key \in Key
        /\ o = ops[s] \/ (ops[s] = NoOp /\ o.requester = o.at)
    BY ArrivingIs
  <2>5. ops'[s] = [o EXCEPT !.at = Owner(o.at, o.key)]
    BY <2>3, SetOp
  <2>6. /\ ops'[s].at = Owner(o.at, o.key) /\ ops'[s].key = o.key
        /\ ops'[s].requester = o.requester
    BY <2>4, <2>5 DEF Op
  <2>7. Reach(KeyHash[o.key], Owner(o.at, o.key)) < Reach(KeyHash[o.key], o.at)
    BY <2>3, <2>4, OwnerIs
  <2>8. (IF ops[s] = NoOp THEN ops'[s].requester ELSE ops[s].at) = o.at
    <3>1. NoOp.pc = "idle"
      BY DEF NoOp
    <3> QED BY <2>4, <2>6, <3>1
  <2> QED BY <2>6, <2>7, <2>8
<1> QED BY <1>1, InitType, NextType, PTL DEF Spec, ForwardsDescend


----------------------------------------------------------------------------
(* Stale copies.                                                           *)

\* The op has a value of its key; it has taken the version of a write; it has
\* a version that stands in Redis or is about to.
HasValue(o) == o.pc \in {"hget version", "fill", "hset version", "store"}
Writes(o) == o.pc \in {"hset value", "hset version", "store", "broadcast"}
Stamped(o) == o.pc \in {"fill", "hset version", "store", "broadcast"}

\* No version is of the future.
Clocked == /\ \A k \in Key : versions[k] <= clock
           /\ \A n \in Node, k \in Key : cache[n][k].version <= clock
           /\ \A s \in Slot : ops[s].version <= clock

\* An op that was not overtaken has the value of the store in hand.
ValuesInHand ==
    \A s \in Slot : HasValue(ops[s]) /\ ~ops[s].late => ops[s].value = store[ops[s].key]

\* A write that was not overtaken has the last version: no entry of its key, and
\* nothing another op may still make an entry or the version of, is later.
LastVersion ==
    \A s \in Slot : Writes(ops[s]) /\ ~ops[s].late =>
        LET k == ops[s].key
        IN /\ versions[k] <= ops[s].version
           /\ \A n \in Node : cache[n][k].version <= ops[s].version
           /\ \A r \in Slot : Stamped(ops[r]) /\ ops[r].key = k => ops[r].version <= ops[s].version

\* StaleOnlyIfOwed is not inductive: that an invalidation puts an end to the copy
\* it meets is a matter of versions, which the other conjuncts keep in order.
StaleInv == TypeInv /\ Clocked /\ ValuesInHand /\ LastVersion /\ StaleOnlyIfOwed

\* Initially no op is under way and no cache has an entry.
LEMMA InitStale == Init => StaleInv
<1> SUFFICES ASSUME Init PROVE StaleInv
  OBVIOUS
<1>1. TypeInv
  BY InitType
<1>2. Clocked /\ ValuesInHand /\ LastVersion
  <2>1. /\ \A s \in Slot : ops[s] = NoOp /\ ops[s].pc = "idle" /\ ops[s].version = 0
        /\ \A k \in Key : versions[k] = 0
        /\ \A n \in Node, k \in Key : cache[n][k].version = 0
        /\ clock = 0
    BY DEF Init, NoEntry, NoOp
  <2>2. \A s \in Slot : ~HasValue(ops[s]) /\ ~Writes(ops[s])
    BY <2>1 DEF HasValue, Writes
  <2>3. Clocked
    BY <2>1 DEF Clocked
  <2> QED BY <2>2, <2>3 DEF ValuesInHand, LastVersion
<1>3. StaleOnlyIfOwed
  BY DEF Init, NoEntry, Valid, StaleOnlyIfOwed
<1> QED BY <1>1, <1>2, <1>3 DEF StaleInv

\* The versions of entries and ops are numbers.
LEMMA VersionIs == /\ \A v \in 0..MaxClock : v \in Nat
                   /\ \A o \in Op : o.version \in Nat
                   /\ \A e \in CacheEntry : e.version \in Nat
<1>1. \A v \in 0..MaxClock : v \in Nat
  BY LimitsAssumption
<1>2. \A o \in Op : o.version \in 0..MaxClock
  BY DEF Op
<1>3. \A e \in CacheEntry : e.version \in 0..MaxClock
  BY DEF CacheEntry
<1> QED BY <1>1, <1>2, <1>3

\* Versions and the clock are numbers, before a step and after it.
LEMMA Numbers ==
    ASSUME TypeInv
    PROVE  /\ clock \in Nat
           /\ \A r \in Slot : ops[r].version \in Nat
           /\ \A k \in Key : versions[k] \in Nat
           /\ \A n \in Node, k \in Key : cache[n][k].version \in Nat
<1>1. /\ clock \in 0..MaxClock
      /\ \A r \in Slot : ops[r] \in Op
      /\ \A k \in Key : versions[k] \in 0..MaxClock
      /\ \A n \in Node, k \in Key : cache[n][k] \in CacheEntry
  BY TypeOps DEF TypeInv
<1>2. \A r \in Slot : ops[r].version \in Nat
  BY <1>1, VersionIs
<1>3. \A n \in Node, k \in Key : cache[n][k].version \in Nat
  BY <1>1, VersionIs
<1>4. clock \in Nat /\ \A k \in Key : versions[k] \in Nat
  BY <1>1, VersionIs
<1> QED BY <1>2, <1>3, <1>4

LEMMA NumbersNext ==
    ASSUME TypeInv'
    PROVE  /\ clock' \in Nat
           /\ \A r \in Slot : ops'[r].version \in Nat
           /\ \A k \in Key : versions'[k] \in Nat
           /\ \A n \in Node, k \in Key : cache'[n][k].version \in Nat
<1>1. /\ clock' \in 0..MaxClock
      /\ ops' \in [Slot -> Op]
      /\ versions' \in [Key -> 0..MaxClock]
      /\ cache' \in [Node -> [Key -> CacheEntry]]
  BY DEF TypeInv, TypeOK, Op, CacheEntry
<1>2. \A r \in Slot : ops'[r] \in Op
  BY <1>1
<1>3. \A n \in Node, k \in Key : cache'[n][k] \in CacheEntry
  BY <1>1
<1>4. \A r \in Slot : ops'[r].version \in Nat
  BY <1>2, VersionIs
<1>5. \A n \in Node, k \in Key : cache'[n][k].version \in Nat
  BY <1>3, VersionIs
<1>6. clock' \in Nat /\ \A k \in Key : versions'[k] \in Nat
  BY <1>1, VersionIs
<1> QED BY <1>4, <1>5, <1>6

\* What becomes of an op that takes nothing new in hand.
Quiet(o) == ~HasValue(o) /\ ~Writes(o) /\ ~Stamped(o) /\ o.version <= clock
Follows(o, q) == /\ q.key = o.key /\ q.late = o.late /\ q.version = o.version
                 /\ HasValue(q) => HasValue(o) /\ q.value = o.value
                 /\ Writes(q) => Writes(o)
                 /\ Stamped(q) => Stamped(o)

\* A version of k that was there, or that of an op that is stamped.
Known(k, v) == v = 0 \/ \E r \in Slot : Stamped(ops[r]) /\ ops[r].key = k /\ v = ops[r].version

\* While the store is not written and no op takes anything new, versions may
\* only be replaced by known ones.
LEMMA OpsFollow ==
    ASSUME StaleInv, TypeInv', store' = store, clock <= clock',
           \A r \in Slot : Quiet(ops'[r]) \/ Follows(ops[r], ops'[r]),
           \A k \in Key : versions'[k] = versions[k] \/ Known(k, versions'[k]),
           \A n \in Node, k \in Key : \/ cache'[n][k].version = cache[n][k].version
                                     \/ Known(k, cache'[n][k].version)
    PROVE  Clocked' /\ ValuesInHand' /\ LastVersion'
<1>1. /\ clock \in Nat /\ clock' \in Nat
      /\ \A r \in Slot : ops[r].version \in Nat /\ ops'[r].version \in Nat
      /\ \A r \in Slot : Named(ops[r])
      /\ \A k \in Key : versions[k] \in Nat /\ versions'[k] \in Nat
      /\ \A n \in Node, k \in Key : cache[n][k].version \in Nat /\ cache'[n][k].version \in Nat
  BY Numbers, NumbersNext DEF StaleInv, TypeInv
<1>2. Clocked'
  BY <1>1 DEF StaleInv, Clocked, Quiet, Follows, Known
<1>3. ValuesInHand'
  BY DEF StaleInv, ValuesInHand, Quiet, Follows
<1>4. LastVersion'
  <2> SUFFICES ASSUME NEW s \in Slot, Writes(ops'[s]), ~ops'[s].late
               PROVE  LET k == ops'[s].key
                      IN /\ versions'[k] <= ops'[s].version
                         /\ \A n \in Node : cache'[n][k].version <= ops'[s].version
                         /\ \A r \in Slot : Stamped(ops'[r]) /\ ops'[r].key = k
                                             => ops'[r].version <= ops'[s].version
    BY DEF LastVersion, Writes, Stamped
  <2> DEFINE k == ops[s].key
  <2>1. /\ Writes(ops[s]) /\ ~ops[s].late
        /\ ops'[s].key = k /\ ops'[s].version = ops[s].version /\ k \in Key
    BY <1>1 DEF Quiet, Follows, Named, Writes
  <2>2. /\ versions[k] <= ops[s].version
        /\ \A n \in Node : cache[n][k].version <= ops[s].version
        /\ \A r \in Slot : Stamped(ops[r]) /\ ops[r].key = k => ops[r].version <= ops[s].version
    BY <2>1 DEF StaleInv, LastVersion
  <2> HIDE DEF k
  <2>3. \A v : Known(k, v) => v <= ops[s].version
    BY <1>1, <2>2 DEF Known
  <2>4. \A r \in Slot : Stamped(ops'[r]) /\ ops'[r].key = k => ops'[r].version <= ops[s].version
    BY <2>2 DEF Quiet, Follows
  <2> QED BY <2>1, <2>2, <2>3, <2>4
<1> QED BY <1>2, <1>3, <1>4


\* An op that ends, and one that is replaced, among others that stay.
LEMMA EndFollows ==
    ASSUME TypeInv, NEW s \in Slot, Ends(s)
    PROVE  \A r \in Slot : Quiet(ops'[r]) \/ Follows(ops[r], ops'[r])
<1>1. Quiet(NoOp)
  BY Numbers DEF Quiet, NoOp, HasValue, Writes, Stamped
<1> QED BY <1>1, EndsIs DEF Follows

LEMMA SetFollows ==
    ASSUME TypeInv, NEW s \in Slot, NEW o \in Op, Named(o), ops' = [ops EXCEPT ![s] = o],
           Quiet(o) \/ Follows(ops[s], o)
    PROVE  \A r \in Slot : Quiet(ops'[r]) \/ Follows(ops[r], ops'[r])
  BY SetOp DEF Follows

\* Steps that leave Redis, the caches and the debts alone.
LEMMA AsideStale ==
    ASSUME StaleInv, TypeInv', UNCHANGED <<store, versions, cache, owed>>, clock <= clock',
           \A r \in Slot : Quiet(ops'[r]) \/ Follows(ops[r], ops'[r])
    PROVE  StaleInv'
<1>1. Clocked' /\ ValuesInHand' /\ LastVersion'
  BY OpsFollow
<1>2. StaleOnlyIfOwed'
  BY DEF StaleInv, StaleOnlyIfOwed
<1> QED BY <1>1, <1>2 DEF StaleInv

\* An entry is stored with what its op has in hand.
LEMMA StoreStale ==
    ASSUME StaleInv, TypeInv', NEW s \in Slot, NEW state \in {"M", "E", "S"},
           ops[s].pc \in {"fill", "store"}, StoreEntry(s, state),
           UNCHANGED <<store, versions, clock>>,
           \A r \in Slot : Quiet(ops'[r]) \/ Follows(ops[r], ops'[r])
    PROVE  StaleInv'
<1> DEFINE o == ops[s]
           e == EntryOf(o, state)
<1>0. TypeInv /\ clock \in Nat /\ Stamped(o) /\ HasValue(o)
  BY Numbers DEF StaleInv, Stamped, HasValue
<1>1. PICK room : Stored(o, e, room)
  BY <1>0, StoreEntryIs
<1>2. e.version = o.version /\ e.value = o.value /\ NoEntry.version = 0 /\ ~Valid(NoEntry)
  BY DEF NoEntry, Valid, EntryOf
<1> HIDE DEF e
<1>3. ASSUME NEW n \in Node, NEW k \in Key
      PROVE  cache'[n][k].version = cache[n][k].version \/ Known(k, cache'[n][k].version)
  <2>1. \/ cache'[n][k] = cache[n][k]
        \/ cache'[n][k] = NoEntry
        \/ k = o.key /\ cache'[n][k] = e
    BY <1>1 DEF Stored
  <2> QED BY <1>0, <1>2, <2>1 DEF Known
<1>4. Clocked' /\ ValuesInHand' /\ LastVersion'
  <2>1. clock <= clock'
    BY <1>0
  <2> QED BY <1>0, <1>3, <2>1, OpsFollow
<1>5. StaleOnlyIfOwed'
  <2> SUFFICES ASSUME NEW n \in Node, NEW k \in Key,
                      Valid(cache'[n][k]), cache'[n][k].value # store[k]
               PROVE  <<n, k>> \in owed'
    BY DEF StaleOnlyIfOwed, Valid
  <2>1. CASE n = o.at /\ k = o.key
    <3>1. cache'[n][k] = e /\ (<<n, k>> \in owed' <=> o.late)
      BY <1>1, <2>1 DEF Stored
    <3>2. ~o.late => o.value = store[k]
      BY <1>0, <2>1 DEF StaleInv, ValuesInHand
    <3> QED BY <1>2, <3>1, <3>2
  <2>2. CASE ~(n = o.at /\ k = o.key)
    <3>1. /\ cache'[n][k] = IF n # o.at THEN cache[n][k] ELSE room[k]
          /\ <<n, k>> \in owed' <=> <<n, k>> \in owed /\ (n # o.at \/ room[k] # NoEntry)
          /\ n = o.at => room[k] = cache[n][k] \/ room[k] = NoEntry
      BY <1>1, <2>2 DEF Stored
    <3>2. cache'[n][k] = cache[n][k] /\ (n # o.at \/ room[k] # NoEntry)
      BY <1>2, <3>1
    <3>3. <<n, k>> \in owed
      BY <3>2 DEF StaleInv, StaleOnlyIfOwed
    <3> QED BY <3>1, <3>2, <3>3
  <2> QED BY <2>1, <2>2
<1> QED BY <1>4, <1>5 DEF StaleInv

\* Reading: first the value of the store, then its version.
LEMMA ReadStale ==
    ASSUME StaleInv, TypeInv', NEW s \in Slot, ReadStore(s)
    PROVE  StaleInv'
<1>0. TypeInv /\ UNCHANGED <<store, versions, cache, owed>> /\ clock' = clock /\ clock \in Nat
  BY Numbers DEF StaleInv, ReadStore, redis
<1>1. CASE Ends(s)
  BY <1>0, <1>1, EndFollows, AsideStale
<1>2. ASSUME NEW o \in Op, Named(o), ops' = [ops EXCEPT ![s] = o], o.key \in Key,
             o.key = ops[s].key, o.late = ops[s].late,
             \/ /\ ops[s].pc = "hget value" /\ o.pc = "hget version"
                /\ o.value = store[o.key] /\ o.version = ops[s].version
             \/ /\ ops[s].pc = "hget version" /\ o.pc = "fill"
                /\ o.value = ops[s].value /\ o.version = versions[o.key]
      PROVE  StaleInv'
  <2>1. \A r \in Slot : ops'[r] = IF r = s THEN o ELSE ops[r]
    BY <1>0, <1>2, SetOp
  <2>2. ~Writes(o) /\ ~Writes(ops[s]) /\ (Stamped(o) => o.version = versions[o.key])
    BY <1>2 DEF Writes, Stamped
  <2>3. Clocked'
    <3>1. /\ \A k \in Key : versions[k] <= clock
          /\ \A n \in Node, k \in Key : cache[n][k].version <= clock
          /\ \A r \in Slot : ops[r].version <= clock
      BY DEF StaleInv, Clocked
    <3>2. o.version <= clock
      BY <1>2, <3>1
    <3> QED BY <1>0, <2>1, <3>1, <3>2 DEF Clocked
  <2>4. ValuesInHand'
    <3>1. ~o.late => o.value = store[o.key]
      BY <1>2 DEF StaleInv, ValuesInHand, HasValue
    <3>2. \A r \in Slot : HasValue(ops[r]) /\ ~ops[r].late => ops[r].value = store[ops[r].key]
      BY DEF StaleInv, ValuesInHand
    <3> QED BY <1>0, <2>1, <3>1, <3>2 DEF ValuesInHand
  <2>5. LastVersion'
    <3>1. ASSUME NEW r \in Slot, Writes(ops'[r]), ~ops'[r].late
          PROVE  LET k == ops[r].key
                 IN /\ ops'[r] = ops[r] /\ versions[k] <= ops[r].version
                    /\ \A n \in Node : cache[n][k].version <= ops[r].version
                    /\ \A q \in Slot : Stamped(ops[q]) /\ ops[q].key = k => ops[q].version <= ops[r].version
      <4>1. ops'[r] = ops[r]
        BY <2>1, <2>2, <3>1
      <4> QED BY <3>1, <4>1 DEF StaleInv, LastVersion
    <3> QED BY <1>0, <2>1, <2>2, <3>1 DEF LastVersion
  <2>6. StaleOnlyIfOwed'
    BY <1>0 DEF StaleInv, StaleOnlyIfOwed
  <2> QED BY <2>3, <2>4, <2>5, <2>6 DEF StaleInv
<1> QED BY <1>0, <1>1, <1>2, ReadIs

\* A write takes a version: no version there is is later.
LEMMA TakeStale ==
    ASSUME StaleInv, TypeInv', NEW s \in Slot, TakeVersion(s)
    PROVE  StaleInv'
<1>0. TypeInv /\ UNCHANGED <<store, versions, cache, owed>> /\ clock' = clock /\ clock \in Nat
  BY Numbers DEF StaleInv, TakeVersion, redis
<1>1. PICK o \in Op : /\ Named(o) /\ o.pc = "hset value" /\ o.version = clock
                     /\ ops' = [ops EXCEPT ![s] = o]
  BY <1>0, TakeVersionIs
<1>2. \A r \in Slot : ops'[r] = IF r = s THEN o ELSE ops[r]
  BY <1>0, <1>1, SetOp
<1>3. ~HasValue(o) /\ ~Stamped(o) /\ o.key \in Key
  BY <1>1 DEF HasValue, Stamped, Named
<1>4. Clocked'
  <2>1. /\ \A k \in Key : versions[k] <= clock
        /\ \A n \in Node, k \in Key : cache[n][k].version <= clock
        /\ \A r \in Slot : ops[r].version <= clock
    BY DEF StaleInv, Clocked
  <2>2. o.version <= clock
    <3>1. clock <= clock
      BY <1>0
    <3> QED BY <1>1, <3>1
  <2> QED BY <1>0, <1>2, <2>1, <2>2 DEF Clocked
<1>5. ValuesInHand'
  BY <1>0, <1>2, <1>3 DEF StaleInv, ValuesInHand
<1>6. LastVersion'
  <2>1. /\ versions[o.key] <= clock
        /\ \A n \in Node : cache[n][o.key].version <= clock
        /\ \A r \in Slot : ops[r].version <= clock
    BY <1>3 DEF StaleInv, Clocked
  <2>2. ASSUME NEW r \in Slot, r # s, Writes(ops[r]), ~ops[r].late
        PROVE  LET k == ops[r].key
               IN /\ versions[k] <= ops[r].version
                  /\ \A n \in Node : cache[n][k].version <= ops[r].version
                  /\ \A q \in Slot : Stamped(ops[q]) /\ ops[q].key = k => ops[q].version <= ops[r].version
    BY <2>2 DEF StaleInv, LastVersion
  <2> QED BY <1>0, <1>1, <1>2, <1>3, <2>1, <2>2 DEF LastVersion
<1>7. StaleOnlyIfOwed'
  BY <1>0 DEF StaleInv, StaleOnlyIfOwed
<1> QED BY <1>4, <1>5, <1>6, <1>7 DEF StaleInv

\* The store is written: the others that have something of the key in hand are
\* overtaken, and valid copies of the old value are owed.
LEMMA WriteStale ==
    ASSUME StaleInv, TypeInv', NEW s \in Slot, WriteValue(s)
    PROVE  StaleInv'
<1> DEFINE k == ops[s].key
<1>0. TypeInv /\ UNCHANGED <<versions, clock, cache>>
  BY DEF StaleInv, WriteValue
<1>1. k \in Key /\ ops[s].pc = "hset value" /\ store' = [store EXCEPT ![k] = ops[s].value]
  BY <1>0, WriteValueIs
<1>2. \A r \in Slot : /\ ops'[r].key = ops[r].key /\ ops'[r].value = ops[r].value
                      /\ ops'[r].version = ops[r].version
                      /\ ops'[r].pc = IF r = s THEN "hset version" ELSE ops[r].pc
  BY <1>0, WriteValueIs
<1>3. ops'[s].late = ops[s].late
  BY <1>0, WriteValueIs
<1>4. ASSUME NEW r \in Slot, r # s
      PROVE  /\ ops[r].key = k /\ ops[r].pc \notin {"get", "put", "hget value"} => ops'[r].late
             /\ ops[r].key # k => ops'[r] = ops[r]
  <2>1. ops'[r] = IF ops[r].key = k /\ ops[r].pc \notin {"get", "put", "hget value"}
                  THEN [ops[r] EXCEPT !.late = TRUE] ELSE ops[r]
    BY <1>0, <1>4, WriteValueIs
  <2>2. ops[r] \in Op
    BY <1>0, TypeOps DEF TypeInv
  <2>3. [ops[r] EXCEPT !.late = TRUE].late
    BY <2>2 DEF Op
  <2> QED BY <2>1, <2>3
<1>5. store'[k] = ops[s].value /\ \A j \in Key : j # k => store'[j] = store[j]
  <2>1. store \in [Key -> Value \cup {None}]
    BY <1>0, TypeOps DEF TypeInv
  <2> QED BY <1>1, <2>1
<1>6. \A m \in Node, j \in Key :
         <<m, j>> \in owed' <=> <<m, j>> \in owed \/ (j = k /\ Valid(cache[m][k]))
  BY <1>0, WriteValueIs
<1>7. \A r \in Slot : ops[r].pc # "idle" => ops[r].key \in Key
  BY <1>0 DEF TypeInv, Named
<1> HIDE DEF k
<1>8. Clocked'
  BY <1>0, <1>2 DEF StaleInv, Clocked
<1>9. ValuesInHand'
  <2> SUFFICES ASSUME NEW r \in Slot, HasValue(ops'[r]), ~ops'[r].late
               PROVE  ops'[r].value = store'[ops'[r].key]
    BY DEF ValuesInHand, HasValue
  <2>1. CASE r = s
    BY <1>2, <1>5, <2>1 DEF k
  <2>2. CASE r # s
    <3>1. ops'[r] = ops[r] /\ ops[r].key # k /\ ops[r].key \in Key
      BY <1>2, <1>4, <1>7, <2>2 DEF HasValue
    <3> QED BY <1>5, <3>1 DEF StaleInv, ValuesInHand, HasValue
  <2> QED BY <2>1, <2>2
<1>10. LastVersion'
  <2> SUFFICES ASSUME NEW q \in Slot, Writes(ops'[q]), ~ops'[q].late
               PROVE  LET j == ops'[q].key
                      IN /\ versions'[j] <= ops'[q].version
                         /\ \A n \in Node : cache'[n][j].version <= ops'[q].version
                         /\ \A r \in Slot : Stamped(ops'[r]) /\ ops'[r].key = j
                                             => ops'[r].version <= ops'[q].version
    BY DEF LastVersion, Writes, Stamped
  <2> DEFINE j == ops[q].key
  <2>1. Writes(ops[q]) /\ ~ops[q].late /\ ops'[q].key = j /\ (q # s => j # k)
    BY <1>1, <1>2, <1>3, <1>4 DEF Writes
  <2>2. /\ versions[j] <= ops[q].version
        /\ \A n \in Node : cache[n][j].version <= ops[q].version
        /\ \A r \in Slot : Stamped(ops[r]) /\ ops[r].key = j => ops[r].version <= ops[q].version
    BY <2>1 DEF StaleInv, LastVersion
  <2>3. ASSUME NEW r \in Slot, Stamped(ops'[r]), ops'[r].key = j
        PROVE  ops'[r].version <= ops[q].version
    <3>1. CASE r = s
      <4>1. q = s
        BY <1>2, <2>1, <2>3, <3>1 DEF k
      <4>2. ops[s].version <= ops[s].version
        BY <1>0, Numbers
      <4>3. ops'[r].version = ops[s].version
        BY <1>2, <3>1
      <4> QED BY <4>1, <4>2, <4>3
    <3>2. CASE r # s
      BY <1>2, <2>2, <2>3, <3>2 DEF Stamped
    <3> QED BY <3>1, <3>2
  <2> QED BY <1>0, <1>2, <2>1, <2>2, <2>3
<1>11. StaleOnlyIfOwed'
  <2> SUFFICES ASSUME NEW n \in Node, NEW j \in Key,
                      Valid(cache[n][j]), cache[n][j].value # store'[j]
               PROVE  <<n, j>> \in owed'
    BY <1>0 DEF StaleOnlyIfOwed, Valid
  <2>1. CASE j = k
    BY <1>6, <2>1
  <2>2. CASE j # k
    BY <1>5, <1>6, <2>2 DEF StaleInv, StaleOnlyIfOwed
  <2> QED BY <2>1, <2>2
<1> QED BY <1>8, <1>9, <1>10, <1>11 DEF StaleInv

\* An invalidation that was not overtaken leaves no valid entry: none is later.
LEMMA InvalidateStale ==
    ASSUME StaleInv, TypeInv', NEW s \in Slot, NEW p \in ops[s].pending, Invalidate(s, p)
    PROVE  StaleInv'
<1> DEFINE o == ops[s]
<1>0. TypeInv /\ UNCHANGED <<store, versions, clock>> /\ clock \in Nat
  BY InvalidateIs, Numbers DEF StaleInv, redis
<1>1. p \in Node /\ o.pc = "broadcast" /\ o.key \in Key
  BY <1>0, InvalidateIs
<1>2. \A r \in Slot : Quiet(ops'[r]) \/ Follows(ops[r], ops'[r])
  <2>1. CASE Ends(s)
    BY <1>0, <2>1, EndFollows
  <2>2. ASSUME NEW q \in Op, Named(q), q.pc = "broadcast", ops' = [ops EXCEPT ![s] = q],
               q.key = o.key, q.version = o.version, q.late = o.late
        PROVE  \A r \in Slot : Quiet(ops'[r]) \/ Follows(ops[r], ops'[r])
    <3>1. Follows(o, q)
      BY <1>1, <2>2 DEF Follows, HasValue, Writes, Stamped
    <3> QED BY <1>0, <2>2, <3>1, SetFollows
  <2> QED BY <1>0, <2>1, <2>2, InvalidateIs
<1>3. clock <= clock'
  BY <1>0
<1>4. CASE UNCHANGED <<cache, owed>>
  BY <1>0, <1>2, <1>3, <1>4, AsideStale
<1>5. CASE /\ cache' = [cache EXCEPT ![p][o.key] = Invalidated(@, o.version)]
           /\ owed' = IF o.late THEN owed ELSE owed \ {<<p, o.key>>}
  <2> DEFINE e == cache[p][o.key]
             i == Invalidated(e, o.version)
  <2>1. e \in CacheEntry /\ o.version \in 0..MaxClock /\ cache \in [Node -> [Key -> CacheEntry]]
    BY <1>0, <1>1, TypeOps DEF TypeInv, Op
  <2>2. /\ i = e \/ i.version = o.version
        /\ Valid(i) => i = e /\ ~(e.version <= o.version)
        /\ i \in CacheEntry
    BY <2>1, InvalidatedIs
  <2> HIDE DEF i
  <2>3. \A m \in Node, j \in Key :
           cache'[m][j] = IF m = p /\ j = o.key THEN i ELSE cache[m][j]
    <3>1. cache' = [cache EXCEPT ![p][o.key] = i]
      BY <1>5, <2>1 DEF i
    <3> QED BY <1>0, <1>1, <2>2, <3>1, SetEntry
  <2>4. Stamped(o) /\ Writes(o)
    BY <1>1 DEF Stamped, Writes
  <2>5. Clocked' /\ ValuesInHand' /\ LastVersion'
    <3>1. \A n \in Node, k \in Key : \/ cache'[n][k].version = cache[n][k].version
                                    \/ Known(k, cache'[n][k].version)
      BY <2>2, <2>3, <2>4 DEF Known
    <3> QED BY <1>0, <1>2, <1>3, <3>1, OpsFollow
  <2>6. StaleOnlyIfOwed'
    <3> SUFFICES ASSUME NEW n \in Node, NEW k \in Key,
                        Valid(cache'[n][k]), cache'[n][k].value # store[k]
                 PROVE  <<n, k>> \in owed'
      BY <1>0 DEF StaleOnlyIfOwed, Valid
    <3>1. CASE n = p /\ k = o.key
      <4>1. Valid(i) /\ cache'[n][k] = i
        BY <2>3, <3>1
      <4>2. i = e /\ ~(e.version <= o.version)
        BY <2>2, <4>1
      <4>3. o.late
        BY <1>1, <2>4, <4>2 DEF StaleInv, LastVersion
      <4> QED BY <1>5, <3>1, <4>1, <4>2, <4>3 DEF StaleInv, StaleOnlyIfOwed
    <3>2. CASE ~(n = p /\ k = o.key)
      <4>1. cache'[n][k] = cache[n][k]
        BY <2>3, <3>2
      <4>2. <<n, k>> \in owed
        BY <4>1 DEF StaleInv, StaleOnlyIfOwed
      <4> QED BY <1>5, <3>2, <4>2
    <3> QED BY <3>1, <3>2
  <2> QED BY <2>5, <2>6 DEF StaleInv
<1> QED BY <1>0, <1>4, <1>5, InvalidateIs

\* A hit keeps value and version of the entry it finds.
LEMMA HitStale ==
    ASSUME StaleInv, TypeInv', NEW s \in Slot, Hit(s)
    PROVE  StaleInv'
<1>0. /\ TypeInv /\ clock \in Nat /\ Ends(s)
      /\ UNCHANGED <<store, versions, clock, owed>>
  BY HitIs, Numbers DEF StaleInv, redis
<1>1. \A r \in Slot : Quiet(ops'[r]) \/ Follows(ops[r], ops'[r])
  BY <1>0, EndFollows
<1>2. clock <= clock'
  BY <1>0
<1>3. CASE cache' = cache
  BY <1>0, <1>1, <1>2, <1>3, AsideStale
<1>4. ASSUME NEW n \in Node, NEW k \in Key, NEW e \in CacheEntry,
             Valid(cache[n][k]), cache' = [cache EXCEPT ![n][k] = e],
             e.value = cache[n][k].value, e.version = cache[n][k].version
      PROVE  StaleInv'
  <2>1. \A m \in Node, j \in Key :
           cache'[m][j] = IF m = n /\ j = k THEN e ELSE cache[m][j]
    BY <1>0, <1>4, SetEntry
  <2>2. \A m \in Node, j \in Key :
           /\ cache'[m][j].version = cache[m][j].version
           /\ cache'[m][j].value = cache[m][j].value
           /\ Valid(cache'[m][j]) => Valid(cache[m][j])
    BY <1>4, <2>1
  <2>3. Clocked' /\ ValuesInHand' /\ LastVersion'
    BY <1>0, <1>1, <1>2, <2>2, OpsFollow
  <2>4. StaleOnlyIfOwed'
    <3> SUFFICES ASSUME NEW m \in Node, NEW j \in Key,
                        Valid(cache'[m][j]), cache'[m][j].value # store[j]
                 PROVE  <<m, j>> \in owed
      BY <1>0 DEF StaleOnlyIfOwed, Valid
    <3> QED BY <2>2 DEF StaleInv, StaleOnlyIfOwed
  <2> QED BY <2>3, <2>4 DEF StaleInv
<1> QED BY <1>0, <1>3, <1>4, HitIs

\* The version of a write goes to Redis; its op had it in hand before.
LEMMA WriteVersionStale ==
    ASSUME StaleInv, TypeInv', NEW s \in Slot, WriteVersion(s)
    PROVE  StaleInv'
<1> DEFINE k == ops[s].key
           o == [ops[s] EXCEPT !.pc = "store"]
<1>0. TypeInv /\ UNCHANGED <<store, clock, cache, owed>> /\ clock \in Nat
  BY Numbers DEF StaleInv, WriteVersion
<1>1. /\ ops[s].pc = "hset version" /\ k \in Key /\ o \in Op /\ Named(o)
      /\ ops' = [ops EXCEPT ![s] = o] /\ versions' = [versions EXCEPT ![k] = ops[s].version]
  BY <1>0, WriteVersionIs
<1>2. ops[s] \in Op /\ versions \in [Key -> 0..MaxClock]
  BY <1>0, TypeOps DEF TypeInv
<1>3. Follows(ops[s], o)
  BY <1>1, <1>2 DEF Follows, HasValue, Writes, Stamped, Op
<1> HIDE DEF o
<1>4. \A r \in Slot : Quiet(ops'[r]) \/ Follows(ops[r], ops'[r])
  BY <1>0, <1>1, <1>3, SetFollows
<1>5. \A j \in Key : versions'[j] = versions[j] \/ Known(j, versions'[j])
  <2>1. Stamped(ops[s])
    BY <1>1 DEF Stamped
  <2> QED BY <1>1, <1>2, <2>1 DEF Known
<1>6. clock <= clock'
  BY <1>0
<1>7. Clocked' /\ ValuesInHand' /\ LastVersion'
  BY <1>0, <1>4, <1>5, <1>6, OpsFollow
<1>8. StaleOnlyIfOwed'
  BY <1>0 DEF StaleInv, StaleOnlyIfOwed
<1> QED BY <1>7, <1>8 DEF StaleInv

\* A node that stops loses its cache; what its broadcasts have sent goes on.
LEMMA HaltStale ==
    ASSUME StaleInv, TypeInv', NEW n \in Node, Halt(n)
    PROVE  StaleInv'
<1>0. TypeInv /\ UNCHANGED <<store, versions, clock>> /\ clock \in Nat
  BY Numbers DEF StaleInv, Halt, redis
<1>1. \A r \in Slot : Quiet(ops'[r]) \/ Follows(ops[r], ops'[r])
  <2>1. Quiet(NoOp)
    BY <1>0, Numbers DEF Quiet, NoOp, HasValue, Writes, Stamped
  <2>2. ASSUME NEW r \in Slot, NEW P, ops'[r] = [ops[r] EXCEPT !.pending = P]
        PROVE  Follows(ops[r], ops'[r])
    <3>1. ops[r] \in Op
      BY <1>0, TypeOps DEF TypeInv
    <3> QED BY <2>2, <3>1 DEF Follows, HasValue, Writes, Stamped, Op
  <2>3. \A r \in Slot : Follows(ops[r], ops[r])
    BY DEF Follows
  <2> QED BY <1>0, <2>1, <2>2, <2>3, HaltIs
<1>2. \A m \in Node, j \in Key : cache'[m][j] = IF m = n THEN NoEntry ELSE cache[m][j]
  <2>1. [k \in Key |-> NoEntry] \in [Key -> CacheEntry]
    BY LimitsAssumption DEF NoEntry, CacheEntry
  <2>2. cache' = [cache EXCEPT ![n] = [k \in Key |-> NoEntry]]
    BY <1>0, HaltIs
  <2> QED BY <1>0, <2>1, <2>2, SetCache
<1>3. NoEntry.version = 0 /\ ~Valid(NoEntry)
  BY DEF NoEntry, Valid
<1>4. clock <= clock'
  BY <1>0
<1>5. Clocked' /\ ValuesInHand' /\ LastVersion'
  <2>1. \A m \in Node, j \in Key : \/ cache'[m][j].version = cache[m][j].version
                                  \/ Known(j, cache'[m][j].version)
    BY <1>2, <1>3 DEF Known
  <2> QED BY <1>0, <1>1, <1>4, <2>1, OpsFollow
<1>6. StaleOnlyIfOwed'
  <2> SUFFICES ASSUME NEW m \in Node, NEW j \in Key,
                      Valid(cache'[m][j]), cache'[m][j].value # store[j]
               PROVE  <<m, j>> \in owed'
    BY <1>0 DEF StaleOnlyIfOwed, Valid
  <2>1. m # n /\ cache'[m][j] = cache[m][j]
    BY <1>2, <1>3
  <2>2. <<m, j>> \in owed
    BY <2>1 DEF StaleInv, StaleOnlyIfOwed
  <2>3. owed' = {d \in owed : d[1] # n}
    BY <1>0, HaltIs
  <2> QED BY <2>1, <2>2, <2>3
<1> QED BY <1>5, <1>6 DEF StaleInv

\* Every step keeps the copies that are not owed as the store has them.
LEMMA NextStale == StaleInv /\ [Next]_vars => StaleInv'
<1> SUFFICES ASSUME StaleInv, [Next]_vars PROVE StaleInv'
  OBVIOUS
<1>0. TypeInv /\ TypeInv' /\ clock \in Nat /\ clock <= clock
  BY NextType, Numbers DEF StaleInv
<1>1. ASSUME NEW s \in Slot, Ends(s), UNCHANGED <<store, versions, cache, owed, clock>>
      PROVE  StaleInv'
  BY <1>0, <1>1, EndFollows, AsideStale
<1>2. ASSUME NEW s \in Slot, NEW o \in Op, Named(o), ops' = [ops EXCEPT ![s] = o],
             o.pc \in {"get", "put", "hget value"},
             o.version = 0 \/ o.version = ops[s].version,
             UNCHANGED <<store, versions, cache, owed, clock>>
      PROVE  StaleInv'
  <2>1. ops[s].version <= clock /\ 0 <= clock
    BY <1>0 DEF StaleInv, Clocked
  <2>2. Quiet(o)
    BY <1>2, <2>1 DEF Quiet, HasValue, Writes, Stamped
  <2> QED BY <1>0, <1>2, <2>2, SetFollows, AsideStale
<1>3. ASSUME NEW s \in Slot, Forward(s) PROVE StaleInv'
  <2>1. UNCHANGED <<store, versions, cache, owed, clock>>
    BY <1>0, <1>3, ForwardIs DEF redis
  <2>2. CASE Ends(s)
    BY <1>1, <2>1, <2>2
  <2>3. CASE ~Ends(s)
    <3>1. PICK a \in Arriving(s) :
             /\ [a EXCEPT !.at = Owner(a.at, a.key)] \in Op
             /\ Named([a EXCEPT !.at = Owner(a.at, a.key)])
             /\ ops' = [ops EXCEPT ![s] = [a EXCEPT !.at = Owner(a.at, a.key)]]
      BY <1>0, <1>3, <2>3, ForwardIs
    <3>2. a \in Op /\ a.pc \in {"get", "put"} /\ (a.version = 0 \/ a.version = ops[s].version)
      BY <1>0, ArrivingIs
    <3> DEFINE o == [a EXCEPT !.at = Owner(a.at, a.key)]
    <3>3. o.pc = a.pc /\ o.version = a.version
      BY <3>2 DEF Op
    <3> HIDE DEF o
    <3>4. o \in Op /\ Named(o) /\ ops' = [ops EXCEPT ![s] = o]
      BY <3>1 DEF o
    <3> QED BY <1>2, <2>1, <3>2, <3>3, <3>4
  <2> QED BY <2>2, <2>3
<1>4. ASSUME NEW s \in Slot, Miss(s) PROVE StaleInv'
  <2>1. UNCHANGED <<store, versions, cache, owed, clock>>
    BY <1>4 DEF Miss, redis
  <2> QED BY <1>0, <1>2, <1>4, <2>1, MissIs
<1>5. ASSUME NEW s \in Slot, Fill(s) PROVE StaleInv'
  <2>1. /\ ops[s].pc = "fill" /\ UNCHANGED <<store, versions, clock>> /\ Ends(s)
        /\ \E state \in {"M", "E", "S"} : StoreEntry(s, state)
    BY <1>5 DEF Fill, redis
  <2>2. \A r \in Slot : Quiet(ops'[r]) \/ Follows(ops[r], ops'[r])
    BY <1>0, <2>1, EndFollows
  <2> QED BY <1>0, <2>1, <2>2, StoreStale
<1>6. ASSUME NEW s \in Slot, StoreWritten(s) PROVE StaleInv'
  <2>1. /\ ops[s].pc = "store" /\ UNCHANGED <<store, versions, clock>>
        /\ StoreEntry(s, "M") /\ Asking(s, view[ops[s].at] \ {ops[s].at})
    BY <1>6 DEF StoreWritten, redis
  <2>2. view[ops[s].at] \ {ops[s].at} \in SUBSET Node
    BY <1>0, <2>1, TypeOps DEF TypeInv, Named
  <2>3. \A r \in Slot : Quiet(ops'[r]) \/ Follows(ops[r], ops'[r])
    <3>1. CASE Ends(s)
      BY <1>0, <3>1, EndFollows
    <3>2. ASSUME NEW q \in Op, Named(q), q.pc = "broadcast", ops' = [ops EXCEPT ![s] = q],
                 q.key = ops[s].key, q.version = ops[s].version, q.late = ops[s].late
          PROVE  \A r \in Slot : Quiet(ops'[r]) \/ Follows(ops[r], ops'[r])
      <4>1. Follows(ops[s], q)
        BY <2>1, <3>2 DEF Follows, HasValue, Writes, Stamped
      <4> QED BY <1>0, <3>2, <4>1, SetFollows
    <3> QED BY <1>0, <2>1, <2>2, <3>1, <3>2, AskingIs
  <2> QED BY <1>0, <2>1, <2>3, StoreStale
<1>7. ASSUME NEW s \in Slot, RedisFails(s) PROVE StaleInv'
  <2>1. Ends(s) /\ UNCHANGED <<store, versions, cache, owed, clock>>
    BY <1>7 DEF RedisFails, redis
  <2> QED BY <1>1, <2>1
<1>8. ASSUME NEW s \in Slot, OpStep(s) PROVE StaleInv'
  BY <1>0, <1>3, <1>4, <1>5, <1>6, <1>8, HitStale, ReadStale, TakeStale, WriteStale,
     WriteVersionStale, InvalidateStale DEF OpStep
<1>9. ASSUME UNCHANGED <<store, versions, cache, owed, ops>>, clock <= clock'
      PROVE  StaleInv'
  <2>1. \A r \in Slot : Quiet(ops'[r]) \/ Follows(ops[r], ops'[r])
    BY <1>9 DEF Follows
  <2> QED BY <1>0, <1>9, <2>1, AsideStale
<1>10. ASSUME NEW n \in Node, Refresh(n) \/ Leave(n) \/ Start(n) \/ Register(n) PROVE StaleInv'
  <2>1. UNCHANGED <<store, versions, clock, cache, owed, ops>>
    BY <1>10 DEF Refresh, Leave, Start, Register, redis
  <2> QED BY <1>0, <1>9, <2>1
<1>11. CASE Tick
  <2>1. UNCHANGED <<store, versions, cache, owed, ops>> /\ clock' = clock + 1
    BY <1>11 DEF Tick, redis
  <2> QED BY <1>0, <1>9, <2>1
<1>12. CASE UNCHANGED vars
  BY <1>0, <1>9, <1>12 DEF vars, redis
<1> QED BY <1>0, <1>7, <1>8, <1>10, <1>11, <1>12, HaltStale DEF Next

\* A copy that differs from the store is one that an invalidation has yet to
\* reach, has missed, or that an op overtaken by a write put there: put and get
\* of cache_node.py, however their commands interleave and whatever fails.
THEOREM StaleCopiesAreOwed == Spec => []StaleOnlyIfOwed
<1>1. StaleInv => StaleOnlyIfOwed
  BY DEF StaleInv
<1> QED BY <1>1, InitStale, NextStale, PTL DEF Spec

----------------------------------------------------------------------------
(* The capacity.                                                           *)

\* Within the capacity, of which the cardinality of an infinite set says nothing.
Fits(c) == Capacity = 0 \/ (IsFiniteSet(Holds(c)) /\ Cardinality(Holds(c)) <= Capacity)
AllFit == \A n \in Node : Fits(cache[n])

\* A cache that holds no more keys than one that fits.
LEMMA FewerFit ==
    ASSUME NEW c, NEW d, Fits(c), Holds(d) \subseteq Holds(c)
    PROVE  Fits(d)
<1>1. CASE Capacity = 0
  BY <1>1 DEF Fits
<1>2. CASE Capacity # 0
  <2>1. IsFiniteSet(Holds(c)) /\ Cardinality(Holds(c)) <= Capacity
    BY <1>2 DEF Fits
  <2>2. IsFiniteSet(Holds(d)) /\ Cardinality(Holds(d)) <= Cardinality(Holds(c))
    BY <2>1, FS_Subset
  <2>3. Cardinality(Holds(d)) \in Nat /\ Cardinality(Holds(c)) \in Nat /\ Capacity \in Nat
    BY <2>1, <2>2, FS_CardinalityType, LimitsAssumption
  <2> QED BY <2>1, <2>2, <2>3 DEF Fits
<1> QED BY <1>1, <1>2

\* One entry more, once there is room.
LEMMA OneMoreFits ==
    ASSUME NEW c \in [Key -> CacheEntry], Fits(c), NEW room \in RoomIn(c), NEW j \in Key,
           NEW d, Holds(d) \subseteq Holds(room) \cup {j}
    PROVE  Fits(d)
<1>1. CASE Capacity = 0
  BY <1>1 DEF Fits
<1>2. CASE Capacity # 0
  <2> DEFINE H == Holds(c)
             R == Holds(room)
  <2>1. IsFiniteSet(H) /\ Cardinality(H) <= Capacity /\ Cardinality(H) \in Nat /\ Capacity \in Nat
    BY <1>2, FS_CardinalityType, LimitsAssumption DEF Fits
  <2>2. IsFiniteSet(R) /\ Cardinality(R) + 1 <= Capacity
    <3>1. CASE Cardinality(H) < Capacity
      <4>1. room = c
        BY <3>1 DEF RoomIn
      <4> QED BY <2>1, <3>1, <4>1
    <3>2. CASE ~(Cardinality(H) < Capacity)
      <4>1. PICK k \in H : room = [c EXCEPT ![k] = NoEntry]
        BY <1>2, <3>2 DEF RoomIn
      <4>2. R = H \ {k}
        BY <4>1 DEF Holds
      <4> HIDE DEF H, R
      <4>3. IsFiniteSet(R) /\ Cardinality(R) = Cardinality(H) - 1
        BY <2>1, <4>1, <4>2, FS_RemoveElement
      <4> QED BY <2>1, <4>3
    <3> QED BY <3>1, <3>2
  <2> HIDE DEF H, R
  <2>3. IsFiniteSet(R \cup {j}) /\ Cardinality(R \cup {j}) <= Cardinality(R) + 1
    <3>1. Cardinality(R) \in Nat
      BY <2>2, FS_CardinalityType
    <3> QED BY <2>2, <3>1, FS_AddElement
  <2>4. IsFiniteSet(Holds(d)) /\ Cardinality(Holds(d)) <= Cardinality(R \cup {j})
    BY <2>3, FS_Subset DEF R
  <2>5. Cardinality(Holds(d)) \in Nat /\ Cardinality(R \cup {j}) \in Nat /\ Cardinality(R) \in Nat
    BY <2>2, <2>3, <2>4, FS_CardinalityType
  <2> QED BY <2>1, <2>2, <2>3, <2>4, <2>5 DEF Fits
<1> QED BY <1>1, <1>2

\* Storing an entry.
LEMMA StoreFits ==
    ASSUME TypeInv, AllFit, NEW s \in Slot, NEW state \in {"M", "E", "S"},
           ops[s].pc \in {"fill", "store"}, StoreEntry(s, state)
    PROVE  AllFit'
<1> DEFINE o == ops[s]
           e == EntryOf(o, state)
<1>1. o \in Op /\ o.at \in Node /\ o.key \in Key /\ cache \in [Node -> [Key -> CacheEntry]]
  BY TypeOps DEF TypeInv, Named
<1>2. PICK room \in RoomIn(cache[o.at]) : cache' = [cache EXCEPT ![o.at] = [room EXCEPT ![o.key] = e]]
  BY DEF StoreEntry, EntryOf
<1>3. e \in CacheEntry
  BY <1>1 DEF Op, CacheEntry, EntryOf
<1>4. room \in [Key -> CacheEntry] /\ cache[o.at] \in [Key -> CacheEntry]
  BY <1>1, RoomIs
<1> DEFINE d == [room EXCEPT ![o.key] = e]
<1> HIDE DEF o, e
<1>5. Holds(d) \subseteq Holds(room) \cup {o.key}
  BY <1>1, <1>4 DEF Holds
<1>6. cache'[o.at] = d /\ \A n \in Node : n # o.at => cache'[n] = cache[n]
  BY <1>1, <1>2
<1> HIDE DEF d
<1>7. Fits(d)
  BY <1>1, <1>2, <1>4, <1>5, OneMoreFits DEF AllFit
<1> QED BY <1>6, <1>7 DEF AllFit, Fits

\* Every other step leaves a node with the keys it had, or fewer.
LEMMA OthersShrink ==
    ASSUME TypeInv, Next, NEW n \in Node
    PROVE  \/ \E s \in Slot : Fill(s) \/ StoreWritten(s)
           \/ Holds(cache'[n]) \subseteq Holds(cache[n])
<1> SUFFICES ASSUME \A s \in Slot : ~(Fill(s) \/ StoreWritten(s))
             PROVE  \A k \in Key : cache[n][k] = NoEntry => cache'[n][k] = NoEntry
  BY DEF Holds
<1>1. CASE cache' = cache
  BY <1>1
<1>2. ASSUME NEW s \in Slot, Hit(s)
      PROVE  \A k \in Key : cache[n][k] = NoEntry => cache'[n][k] = NoEntry
  <2>1. CASE cache' = cache
    BY <2>1
  <2>2. ASSUME NEW m \in Node, NEW j \in Key, NEW e \in CacheEntry,
               Valid(cache[m][j]), cache' = [cache EXCEPT ![m][j] = e]
        PROVE  \A k \in Key : cache[n][k] = NoEntry => cache'[n][k] = NoEntry
    <3>1. \A k \in Key : cache'[n][k] = IF n = m /\ k = j THEN e ELSE cache[n][k]
      BY <2>2, SetEntry
    <3>2. cache[m][j] # NoEntry
      BY <2>2 DEF Valid, NoEntry
    <3> QED BY <3>1, <3>2
  <2> QED BY <1>2, <2>1, <2>2, HitIs
<1>3. ASSUME NEW s \in Slot, NEW p \in ops[s].pending, Invalidate(s, p)
      PROVE  \A k \in Key : cache[n][k] = NoEntry => cache'[n][k] = NoEntry
  <2>1. CASE cache' = cache
    BY <2>1
  <2>2. CASE cache' = [cache EXCEPT ![p][ops[s].key] = Invalidated(@, ops[s].version)]
    <3> DEFINE i == Invalidated(cache[p][ops[s].key], ops[s].version)
    <3>1. /\ p \in Node /\ ops[s].key \in Key /\ ops[s].version \in 0..MaxClock
          /\ cache \in [Node -> [Key -> CacheEntry]]
      BY <1>3, InvalidateIs, TypeOps DEF TypeInv, Op
    <3>2. i \in CacheEntry
      BY <3>1, InvalidatedIs
    <3>3. cache[p][ops[s].key] = NoEntry => i = NoEntry
      BY DEF Invalidated
    <3>4. cache' = [cache EXCEPT ![p][ops[s].key] = i]
      BY <2>2, <3>1
    <3> HIDE DEF i
    <3>5. \A k \in Key : cache'[n][k] = IF n = p /\ k = ops[s].key THEN i ELSE cache[n][k]
      BY <3>1, <3>2, <3>4, SetEntry
    <3> QED BY <3>3, <3>5
  <2> QED BY <1>3, <2>1, <2>2, InvalidateIs
<1>4. ASSUME NEW m \in Node, Halt(m)
      PROVE  \A k \in Key : cache[n][k] = NoEntry => cache'[n][k] = NoEntry
  <2>1. [k \in Key |-> NoEntry] \in [Key -> CacheEntry]
    BY LimitsAssumption DEF NoEntry, CacheEntry
  <2>2. cache' = [cache EXCEPT ![m] = [k \in Key |-> NoEntry]]
    BY <1>4, HaltIs
  <2> QED BY <2>1, <2>2, SetCache
<1>5. cache' = cache \/ (\E s \in Slot : Hit(s) \/ \E p \in ops[s].pending : Invalidate(s, p))
         \/ (\E m \in Node : Halt(m))
  <2>1. ASSUME NEW s \in Slot, Forward(s) \/ Miss(s) \/ ReadStore(s) \/ TakeVersion(s)
                               \/ WriteValue(s) \/ WriteVersion(s) \/ RedisFails(s)
        PROVE  cache' = cache
    BY <2>1 DEF Forward, Miss, ReadStore, TakeVersion, WriteValue, WriteVersion, RedisFails
  <2>2. ASSUME NEW m \in Node, Refresh(m) \/ Leave(m) \/ Start(m) \/ Register(m)
        PROVE  cache' = cache
    BY <2>2 DEF Refresh, Leave, Start, Register
  <2>3. Tick => cache' = cache
    BY DEF Tick
  <2> QED BY <2>1, <2>2, <2>3 DEF Next, OpStep
<1> QED BY <1>1, <1>2, <1>3, <1>4, <1>5

\* The cache of no node outgrows its capacity: what _ensure_capacity leaves room
\* for is stored before another op of the node runs.
THEOREM CapacityHolds == Spec => []CapacityKept
<1>1. Init => AllFit
  <2>1. \A n \in Node : Init => Holds(cache[n]) = {}
    BY DEF Init, Holds
  <2> QED BY <2>1, FS_EmptySet, LimitsAssumption DEF AllFit, Fits
<1>2. TypeInv /\ AllFit /\ [Next]_vars => AllFit'
  <2> SUFFICES ASSUME TypeInv, AllFit, [Next]_vars PROVE AllFit'
    OBVIOUS
  <2>1. CASE \E s \in Slot : Fill(s) \/ StoreWritten(s)
    <3>1. PICK s \in Slot : Fill(s) \/ StoreWritten(s)
      BY <2>1
    <3>2. /\ ops[s].pc \in {"fill", "store"}
          /\ \E state \in {"M", "E", "S"} : StoreEntry(s, state)
      BY <3>1 DEF Fill, StoreWritten
    <3> QED BY <3>2, StoreFits
  <2>2. CASE \A n \in Node : Holds(cache'[n]) \subseteq Holds(cache[n])
    BY <2>2, FewerFit DEF AllFit, Fits
  <2>3. CASE UNCHANGED vars
    BY <2>3 DEF vars, AllFit, Fits, Holds
  <2> QED BY <2>1, <2>2, <2>3, OthersShrink
<1>3. AllFit => CapacityKept
  BY DEF AllFit, Fits, CapacityKept
<1> QED BY <1>1, <1>2, <1>3, InitType, NextType, PTL DEF Spec
=============================================================================
