------------------------- MODULE LockManagerProofs -------------------------
(***************************************************************************)
(* Theorems about LockManager, for every set of keys and owners and every  *)
(* bound, proved with TLAPS.                                               *)
(***************************************************************************)
EXTENDS LockManager, Basics, FiniteSetTheorems, TLAPS

----------------------------------------------------------------------------
(* Filtering a queue.                                                      *)

\* No member occurs twice.
Distinct(q) == \A i, j \in 1..Len(q) : q[i] = q[j] => i = j

\* Every position up to the size of a set of indices is taken by one of them.
LEMMA NthIndexExists ==
    ASSUME NEW L \in Nat, NEW I, I \subseteq 1..L, NEW n \in 1..Cardinality(I)
    PROVE  NthIndex(I, n) \in I /\ Cardinality({j \in I : j <= NthIndex(I, n)}) = n
<1> DEFINE upTo(i) == {j \in I : j <= i}
           G == {i \in 0..L : n <= Cardinality(upTo(i))}
<1>1. IsFiniteSet(I) /\ Cardinality(I) \in Nat
  <2>1. IsFiniteSet(1..L)
    BY FS_Interval
  <2> QED BY <2>1, FS_Subset, FS_CardinalityType
<1>2. ASSUME NEW i PROVE IsFiniteSet(upTo(i)) /\ Cardinality(upTo(i)) \in Nat
  BY <1>1, FS_Subset, FS_CardinalityType
<1>3. \A j \in I : j \in Nat /\ 1 <= j /\ j <= L
  OBVIOUS
<1>4. n \in Nat /\ 1 <= n /\ n <= Cardinality(I)
  BY <1>1
<1>5. L \in G
  <2>1. upTo(L) = I
    BY <1>3
  <2> QED BY <2>1, <1>4
<1>6. PICK m \in G : \A k \in G : m <= k
  <2>1. G \subseteq 0..L /\ G # {}
    BY <1>5
  <2>2. G \subseteq Nat
    BY <2>1
  <2> HIDE DEF G
  <2> QED BY <2>1, <2>2, LeastNatural
<1>7. m \in Nat /\ m <= L /\ n <= Cardinality(upTo(m))
  BY <1>6
<1>8. m # 0
  <2>1. \A j \in I : ~(j <= 0)
    BY <1>3
  <2>2. upTo(0) = {}
    BY <2>1
  <2>3. Cardinality(upTo(0)) = 0
    BY <2>2, FS_EmptySet
  <2> QED BY <2>3, <1>4, <1>7
<1>9. Cardinality(upTo(m - 1)) < n
  <2>1. m - 1 \in 0..L /\ ~(m <= m - 1)
    BY <1>7, <1>8
  <2>2. m - 1 \notin G
    BY <2>1, <1>6
  <2>3. ~(n <= Cardinality(upTo(m - 1)))
    BY <2>1, <2>2
  <2>4. Cardinality(upTo(m - 1)) \in Nat
    BY <1>2
  <2> HIDE DEF upTo
  <2> QED BY <2>3, <2>4, <1>4
<1>10. m \in I
  <2>1. SUFFICES ASSUME m \notin I PROVE FALSE
    OBVIOUS
  <2>2. \A j \in I : (j <= m) <=> (j <= m - 1)
    BY <2>1, <1>3, <1>7
  <2>3. upTo(m) = upTo(m - 1)
    BY <2>2
  <2> HIDE DEF upTo
  <2> QED BY <2>3, <1>9, <1>7, <1>2, <1>4
<1>11. Cardinality(upTo(m)) = n
  <2>1. \A j \in I : (j <= m) <=> (j <= m - 1 \/ j = m)
    BY <1>3, <1>7
  <2>2. ~(m <= m - 1)
    BY <1>7
  <2>3. upTo(m) = upTo(m - 1) \cup {m} /\ m \notin upTo(m - 1)
    BY <2>1, <2>2, <1>10
  <2> HIDE DEF upTo
  <2>4. Cardinality(upTo(m)) = Cardinality(upTo(m - 1)) + 1
    BY <2>3, <1>2, FS_AddElement
  <2> QED BY <2>4, <1>9, <1>7, <1>2, <1>4
<1> QED BY <1>10, <1>11 DEF NthIndex

\* Taking members out of a queue leaves a queue of members that were in it,
\* each at most as often as it was.
LEMMA WithoutType ==
    ASSUME NEW T, NEW q \in Seq(T), NEW S
    PROVE  /\ Without(q, S) \in Seq(T)
           /\ Distinct(q) => Distinct(Without(q, S))
           /\ \A i \in 1..Len(Without(q, S)) :
                  \E j \in 1..Len(q) : Without(q, S)[i] = q[j] /\ q[j] \notin S
<1> DEFINE I == Indices(q, S)
<1>1. I \in SUBSET (1..Len(q)) /\ Len(q) \in Nat
  BY DEF Indices
<1>2. IsFiniteSet(I) /\ Cardinality(I) \in Nat
  <2>1. IsFiniteSet(1..Len(q))
    BY <1>1, FS_Interval
  <2> QED BY <2>1, <1>1, FS_Subset, FS_CardinalityType
<1>3. \A n \in 1..Cardinality(I) : NthIndex(I, n) \in I
  BY <1>1, NthIndexExists
<1>4. \A i \in I : q[i] \in T /\ q[i] \notin S /\ i \in 1..Len(q)
  BY DEF Indices
<1>5. Without(q, S) = [n \in 1..Cardinality(I) |-> q[NthIndex(I, n)]]
  BY DEF Without
<1> HIDE DEF I
<1>6. Without(q, S) \in [1..Cardinality(I) -> T]
  BY <1>3, <1>4, <1>5
<1>7. Len(Without(q, S)) = Cardinality(I) /\ Without(q, S) \in Seq(T)
  BY <1>6, <1>2
<1>8. \A m, n \in 1..Cardinality(I) : NthIndex(I, m) = NthIndex(I, n) => m = n
  <2>1. \A n \in 1..Cardinality(I) : Cardinality({j \in I : j <= NthIndex(I, n)}) = n
    BY <1>1, NthIndexExists
  <2> QED BY <2>1
<1>9. Distinct(q) => Distinct(Without(q, S))
  BY <1>3, <1>4, <1>5, <1>7, <1>8 DEF Distinct
<1> QED BY <1>3, <1>4, <1>5, <1>7, <1>9

----------------------------------------------------------------------------
(* What the two commands do to an entry.                                   *)

\* One lock: the conjuncts of Exclusion and WaitersHaveHolders for it.
Sound(e) == /\ e.mode = "none" <=> e.holders = {}
            /\ e.mode = "exclusive" => \E o \in Owner : e.holders = {o}
            /\ e.queue # << >> => e.holders # {}

\* Acquiring keeps an entry well-formed and sound, and takes nothing away.
LEMMA AcquireKeeps ==
    ASSUME NEW e \in Entry, NEW o \in Owner, NEW m \in Mode, Sound(e)
    PROVE  /\ Acquire(e, o, m) \in Entry
           /\ Sound(Acquire(e, o, m))
           /\ e.holders \subseteq Acquire(e, o, m).holders
           /\ e.mode = "exclusive" => Acquire(e, o, m).mode = "exclusive"
<1> DEFINE d == Acquire(e, o, m)
           new == [owner |-> o, mode |-> m]
<1>1. CASE CanGrant(e, o, m)
  <2> DEFINE q == Without(e.queue, [owner : {o}, mode : Mode])
  <2>1. q \in Seq(Waiter)
    BY WithoutType DEF Entry
  <2>2. d = [mode |-> m, holders |-> e.holders \cup {o}, queue |-> q]
    BY <1>1 DEF Acquire
  <2> HIDE DEF q, d
  <2>3. d \in Entry
    BY <2>1, <2>2 DEF Entry
  <2>4. e.mode = "none" \/ e.mode = "shared"
    BY <1>1 DEF CanGrant
  <2>5. m = "exclusive" => e.holders = {} \/ e.holders = {o}
    BY <1>1 DEF CanGrant, Sound
  <2>6. Sound(d)
    BY <2>2, <2>5 DEF Sound, Mode
  <2> QED BY <2>2, <2>3, <2>4, <2>6 DEF d
<1>2. CASE ~CanGrant(e, o, m) /\ new \in Queued(e)
  BY <1>2 DEF Acquire
<1>3. CASE ~CanGrant(e, o, m) /\ new \notin Queued(e)
  <2>1. d = [e EXCEPT !.queue = Append(@, new)]
    BY <1>3 DEF Acquire
  <2>2. new \in Waiter /\ Append(e.queue, new) \in Seq(Waiter)
    BY DEF Waiter, Entry
  <2>3. d \in Entry /\ d.holders = e.holders /\ d.mode = e.mode
    BY <2>1, <2>2 DEF Entry
  <2>4. e.holders # {}
    BY <1>3 DEF CanGrant, Sound
  <2> HIDE DEF d
  <2>5. Sound(d)
    BY <2>3, <2>4 DEF Sound
  <2> QED BY <2>3, <2>5 DEF d
<1> QED BY <1>1, <1>2, <1>3

\* Handing a free lock over: the prefix of the queue that is let in is either
\* all readers or one owner, and it is empty only if the queue is.
LEMMA GrantWaitersSound ==
    ASSUME NEW q \in Seq(Waiter)
    PROVE  GrantWaiters(q) \in Entry /\ Sound(GrantWaiters(q))
<1> DEFINE granted == Granted(q)
           d == GrantWaiters(q)
<1>1. \A w \in granted : w \in Waiter
  BY DEF Granted
<1>2. Without(q, granted) \in Seq(Waiter)
  BY WithoutType
<1>3. d.mode = (IF granted = {} THEN "none"
                ELSE IF \E w \in granted : w.mode = "exclusive" THEN "exclusive" ELSE "shared")
      /\ d.holders = {w.owner : w \in granted}
      /\ d.queue = Without(q, granted)
  BY DEF GrantWaiters
<1>4. d \in Entry
  BY <1>1, <1>2 DEF GrantWaiters, Entry, Waiter, Mode
<1>5. granted = {} => Without(q, granted) = << >>
  <2>1. SUFFICES ASSUME granted = {} PROVE q = << >>
    <3>1. q = << >> => Without(q, granted) = << >>
      <4>1. SUFFICES ASSUME q = << >>, Without(q, granted) # << >> PROVE FALSE
        OBVIOUS
      <4>2. 1 \in 1..Len(Without(q, granted))
        BY <1>2, <4>1
      <4>3. \E j \in 1..Len(q) : TRUE
        BY <4>2, WithoutType
      <4> QED BY <4>1, <4>3
    <3> QED BY <3>1
  <2>2. ASSUME q # << >> PROVE FALSE
    <3>1. 1 \in 1..Len(q)
      BY <2>2
    <3>2. \A j \in 1..1 : GrantedAt(q, j)
      BY DEF GrantedAt
    <3>3. q[1] \in granted
      BY <3>1, <3>2 DEF Granted
    <3> QED BY <3>3, <2>1
  <2> QED BY <2>2
<1>6. ASSUME NEW w \in granted, w.mode = "exclusive", NEW v \in granted
      PROVE  v.owner = w.owner
  <2>1. PICK i \in 1..Len(q) : w = q[i] /\ \A j \in 1..i : GrantedAt(q, j)
    BY DEF Granted
  <2>2. PICK k \in 1..Len(q) : v = q[k] /\ \A j \in 1..k : GrantedAt(q, j)
    BY DEF Granted
  <2>3. GrantedAt(q, i) /\ GrantedAt(q, k) /\ i \in Nat /\ k \in Nat
    BY <2>1, <2>2
  <2>4. CASE k < i
    <3>1. k \in 1..i-1
      BY <2>4, <2>3
    <3>2. q[i].mode = "shared" \/ q[k].owner = q[i].owner
      BY <3>1, <2>3 DEF GrantedAt
    <3> QED BY <3>2, <2>1, <2>2, <1>6
  <2>5. CASE i < k
    <3>1. i \in 1..k-1
      BY <2>5, <2>3
    <3>2. q[i].mode = "shared"
      BY <3>1, <2>3 DEF GrantedAt
    <3> QED BY <3>2, <2>1, <1>6
  <2>6. CASE i = k
    BY <2>6, <2>1, <2>2
  <2> QED BY <2>3, <2>4, <2>5, <2>6
<1> HIDE DEF granted, d
<1>7. d.mode = "exclusive" => \E o \in Owner : d.holders = {o}
  <2>1. SUFFICES ASSUME d.mode = "exclusive" PROVE \E o \in Owner : d.holders = {o}
    OBVIOUS
  <2>2. PICK w \in granted : w.mode = "exclusive"
    BY <2>1, <1>3
  <2>3. w.owner \in Owner
    BY <1>1 DEF Waiter
  <2>4. d.holders = {w.owner}
    BY <1>3, <1>6, <2>2
  <2> QED BY <2>3, <2>4
<1>8. d.mode = "none" <=> d.holders = {}
  BY <1>3
<1>9. d.queue # << >> => d.holders # {}
  BY <1>3, <1>5
<1> QED BY <1>4, <1>7, <1>8, <1>9 DEF Sound, d

\* Releasing keeps an entry well-formed and sound, and touches no holder but
\* the one that releases.
LEMMA ReleaseKeeps ==
    ASSUME NEW e \in Entry, NEW o \in Owner, Sound(e)
    PROVE  /\ Release(e, o) \in Entry
           /\ Sound(Release(e, o))
           /\ \A p \in e.holders \ {o} : /\ p \in Release(e, o).holders
                                         /\ Release(e, o).mode = e.mode
<1>1. CASE e.holders \subseteq {o}
  BY <1>1, GrantWaitersSound DEF Release, Entry
<1>2. CASE ~(e.holders \subseteq {o})
  <2> DEFINE d == Release(e, o)
  <2>1. d = [e EXCEPT !.holders = @ \ {o}]
    BY <1>2 DEF Release
  <2>2. /\ d \in Entry /\ d.mode = e.mode /\ d.queue = e.queue
        /\ d.holders = e.holders \ {o}
    BY <2>1 DEF Entry
  <2>3. d.holders # {}
    BY <2>2, <1>2
  <2> HIDE DEF d
  <2>4. Sound(d)
    BY <2>2, <2>3, <1>2 DEF Sound
  <2> QED BY <2>2, <2>4 DEF d
<1> QED BY <1>1, <1>2

----------------------------------------------------------------------------
(* The table: the inductive invariant and what follows from it.            *)

\* Well-formed, and every lock sound.  TypeOK alone is inductive; the second
\* conjunct needs it, and the two parts of Sound need each other: handing a
\* lock over to the whole queue keeps waiters off free locks only because
\* nobody else holds it.
TableInv == TypeOK /\ \A k \in Key : Sound(locks[k])

\* Initially every lock is free.
LEMMA InitTable == Init => TableInv
  BY MaxPendingAssumption
     DEF Init, TableInv, TypeOK, Sound, FreeEntry, Entry, Mode, Waiter

\* Applying a command to a well-formed and sound entry keeps it so.
LEMMA AppliedKeeps ==
    ASSUME NEW e \in Entry, NEW c \in Command, Sound(e)
    PROVE  Applied(e, c) \in Entry /\ Sound(Applied(e, c))
<1>1. CASE c.type = "lock.acquire"
  <2>1. c.owner \in Owner /\ c.mode \in Mode
    BY <1>1 DEF Command
  <2> QED BY <1>1, <2>1, AcquireKeeps DEF Applied
<1>2. CASE c.type # "lock.acquire"
  <2>1. c.owner \in Owner
    BY DEF Command
  <2> QED BY <1>2, <2>1, ReleaseKeeps DEF Applied
<1> QED BY <1>1, <1>2

\* The head of the log, when there is one, is a command for a key.
LEMMA HeadCommand ==
    ASSUME TypeOK, pending # << >>
    PROVE  /\ Head(pending) \in Command
           /\ Head(pending).key \in Key
           /\ Tail(pending) \in Seq(Command)
           /\ Len(Tail(pending)) <= MaxPending
<1>1. pending \in Seq(Command) /\ Len(pending) <= MaxPending
  BY DEF TypeOK
<1>2. Head(pending) \in Command /\ Tail(pending) \in Seq(Command)
  BY <1>1
<1>3. Len(Tail(pending)) = Len(pending) - 1 /\ Len(pending) \in Nat
  BY <1>1
<1>4. Head(pending).key \in Key
  BY <1>2 DEF Command
<1> QED BY <1>1, <1>2, <1>3, <1>4, MaxPendingAssumption

\* Every step keeps the table well-formed and sound.
LEMMA NextTable == TableInv /\ [Next]_vars => TableInv'
<1> SUFFICES ASSUME TableInv, [Next]_vars PROVE TableInv'
  OBVIOUS
<1> USE MaxPendingAssumption
<1>0. TypeOK /\ \A k \in Key : Sound(locks[k])
  BY DEF TableInv
<1>1. ASSUME NEW k \in Key, NEW o \in Owner, NEW m \in Mode, RequestLock(k, o, m)
      PROVE  TableInv'
  <2> DEFINE c == [type |-> "lock.acquire", key |-> k, owner |-> o, mode |-> m,
                   alone |-> pending = << >>]
  <2>1. c \in Command
    BY DEF Command
  <2> HIDE DEF c
  <2>2. pending' = Append(pending, c) /\ Len(pending) < MaxPending /\ locks' = locks
    BY <1>1 DEF RequestLock, c
  <2> QED BY <1>0, <2>1, <2>2 DEF TableInv, TypeOK
<1>2. ASSUME NEW k \in Key, NEW o \in Owner, RequestRelease(k, o)
      PROVE  TableInv'
  <2> DEFINE c == [type |-> "lock.release", key |-> k, owner |-> o]
  <2>1. c \in Command
    BY DEF Command
  <2> HIDE DEF c
  <2>2. pending' = Append(pending, c) /\ Len(pending) < MaxPending /\ locks' = locks
    BY <1>2 DEF RequestRelease, c
  <2> QED BY <1>0, <2>1, <2>2 DEF TableInv, TypeOK
<1>3. CASE ApplyCommand
  <2>1. pending # << >> /\ pending' = Tail(pending)
    BY <1>3 DEF ApplyCommand
  <2> DEFINE c == Head(pending)
  <2>2. /\ c \in Command /\ c.key \in Key
        /\ pending' \in Seq(Command) /\ Len(pending') <= MaxPending
    BY <1>0, <2>1, HeadCommand
  <2>3. locks' = [locks EXCEPT ![c.key] = Applied(locks[c.key], c)]
    BY <1>3 DEF ApplyCommand
  <2>4. locks \in [Key -> Entry]
    BY <1>0 DEF TypeOK
  <2> HIDE DEF c
  <2>5. locks[c.key] \in Entry /\ Sound(locks[c.key])
    BY <1>0, <2>2, <2>4
  <2>6. Applied(locks[c.key], c) \in Entry /\ Sound(Applied(locks[c.key], c))
    BY <2>2, <2>5, AppliedKeeps
  <2>7. locks' \in [Key -> Entry]
    BY <2>3, <2>4, <2>6
  <2>8. \A k \in Key : locks'[k] = (IF k = c.key THEN Applied(locks[c.key], c) ELSE locks[k])
    BY <2>3, <2>4
  <2>9. \A k \in Key : Sound(locks'[k])
    BY <1>0, <2>6, <2>8
  <2> QED BY <2>2, <2>7, <2>9 DEF TableInv, TypeOK, Sound
<1>4. CASE Truncate
  <2>1. PICK n \in 0..Len(pending) - 1 : pending' = SubSeq(pending, 1, n)
    BY <1>4 DEF Truncate
  <2>2. pending \in Seq(Command) /\ Len(pending) <= MaxPending /\ Len(pending) \in Nat
    BY <1>0 DEF TypeOK
  <2>3. pending' \in Seq(Command) /\ Len(pending') = n
    BY <2>1, <2>2
  <2>4. locks' = locks
    BY <1>4 DEF Truncate
  <2> QED BY <1>0, <2>1, <2>2, <2>3, <2>4 DEF TableInv, TypeOK
<1>5. CASE UNCHANGED vars
  BY <1>0, <1>5 DEF TableInv, TypeOK, vars
<1>6. ASSUME NEW k \in Key, NEW o \in Owner, RefuseRequest(k, o) PROVE TableInv'
  BY <1>5, <1>6 DEF RefuseRequest
<1> QED BY <1>1, <1>2, <1>3, <1>4, <1>5, <1>6 DEF Next, Request

\* The invariant of every behaviour.
LEMMA TableInvariant == Spec => []TableInv
  BY InitTable, NextTable, PTL DEF Spec

\* The table and the log have the types declared for them: the entries
\* _apply_acquire and _apply_release build are LockEntry values of the key's
\* owners, whatever the queue holds.
THEOREM TypeCorrect == Spec => []TypeOK
<1>1. TableInv => TypeOK
  BY DEF TableInv
<1> QED BY <1>1, TableInvariant, PTL

\* Two owners never hold a lock in exclusive mode, and _can_grant's reading
\* of mode and holders is consistent, for any number of clients and locks.
THEOREM MutualExclusion == Spec => []Exclusion
<1>1. TableInv => Exclusion
  BY DEF TableInv, Exclusion, Sound
<1> QED BY <1>1, TableInvariant, PTL

\* No waiter is left on a free lock, where no release would wake it up.
THEOREM NoOrphanedWaiter == Spec => []WaitersHaveHolders
<1>1. TableInv => WaitersHaveHolders
  BY DEF TableInv, WaitersHaveHolders, Sound
<1> QED BY <1>1, TableInvariant, PTL

----------------------------------------------------------------------------
(* Steps.                                                                  *)

\* A command is applied to the entry of its key and to no other.
LEMMA ApplyStep ==
    ASSUME TableInv, ApplyCommand
    PROVE  LET c == Head(pending)
           IN /\ pending # << >> /\ c \in Command /\ c.key \in Key
              /\ locks[c.key] \in Entry /\ Sound(locks[c.key])
              /\ \A k \in Key : locks'[k] = IF k = c.key THEN Applied(locks[k], c) ELSE locks[k]
<1>1. TypeOK /\ pending # << >> /\ \A k \in Key : Sound(locks[k])
  BY DEF TableInv, ApplyCommand
<1> DEFINE c == Head(pending)
<1>2. c \in Command /\ c.key \in Key
  BY <1>1, HeadCommand
<1>3. locks \in [Key -> Entry]
  BY <1>1 DEF TypeOK
<1>4. locks' = [locks EXCEPT ![c.key] = Applied(locks[c.key], c)]
  BY DEF ApplyCommand
<1> HIDE DEF c
<1>5. \A k \in Key : locks'[k] = IF k = c.key THEN Applied(locks[k], c) ELSE locks[k]
  BY <1>3, <1>4
<1> QED BY <1>1, <1>2, <1>3, <1>5 DEF c

\* What a step that is not an application does to the table: nothing.
LEMMA OtherSteps == [Next]_vars => ApplyCommand \/ UNCHANGED locks
  BY DEF Next, Request, RequestLock, RefuseRequest, RequestRelease, Truncate, vars

\* Neither command puts an owner in a queue twice in one mode.
LEMMA AppliedDistinct ==
    ASSUME NEW e \in Entry, NEW c \in Command, Distinct(e.queue)
    PROVE  Distinct(Applied(e, c).queue)
<1>1. e.queue \in Seq(Waiter)
  BY DEF Entry
<1>2. CASE c.type = "lock.acquire"
  <2> DEFINE new == [owner |-> c.owner, mode |-> c.mode]
  <2>1. CASE CanGrant(e, c.owner, c.mode)
    BY <1>1, <1>2, <2>1, WithoutType DEF Applied, Acquire
  <2>2. CASE ~CanGrant(e, c.owner, c.mode) /\ new \in Queued(e)
    BY <1>2, <2>2 DEF Applied, Acquire
  <2>3. CASE ~CanGrant(e, c.owner, c.mode) /\ new \notin Queued(e)
    <3>1. Applied(e, c).queue = Append(e.queue, new)
      BY <1>2, <2>3 DEF Applied, Acquire, Entry
    <3>2. \A i \in 1..Len(e.queue) : e.queue[i] # new
      BY <1>1, <2>3 DEF Queued, ToSet
    <3> HIDE DEF new
    <3> QED BY <1>1, <3>1, <3>2 DEF Distinct
  <2> QED BY <2>1, <2>2, <2>3
<1>3. CASE c.type # "lock.acquire"
  <2>1. CASE e.holders \subseteq {c.owner}
    BY <1>1, <1>3, <2>1, WithoutType DEF Applied, Release, GrantWaiters
  <2>2. CASE ~(e.holders \subseteq {c.owner})
    BY <1>3, <2>2 DEF Applied, Release, Entry
  <2> QED BY <2>1, <2>2
<1> QED BY <1>2, <1>3

\* QueuedOnce, lock by lock.
Once == \A k \in Key : Distinct(locks[k].queue)

LEMMA OnceInvariant == Spec => []Once
<1>1. Init => Once
  BY DEF Init, FreeEntry, Distinct, Once
<1>2. TableInv /\ Once /\ [Next]_vars => Once'
  <2> SUFFICES ASSUME TableInv, Once, [Next]_vars PROVE Once'
    OBVIOUS
  <2>1. CASE ApplyCommand
    BY <2>1, ApplyStep, AppliedDistinct DEF Once
  <2>2. CASE UNCHANGED locks
    BY <2>2 DEF Once
  <2> QED BY <2>1, <2>2, OtherSteps
<1> QED BY <1>1, <1>2, TableInvariant, PTL DEF Spec

\* A waiter is queued once for a mode: a request that is sent again while the
\* first one waits is not handed the lock a second time after its release.
THEOREM NobodyQueuedTwice == Spec => []QueuedOnce
<1>1. Once => QueuedOnce
  BY DEF Once, Distinct, QueuedOnce
<1> QED BY <1>1, OnceInvariant, PTL

\* No step takes a lock from its holder but the application of its release.
THEOREM HoldersAreSafe == Spec => OnlyReleaseRevokes
<1>1. TableInv /\ [Next]_vars => [KeepsHolders]_locks
  <2> SUFFICES ASSUME TableInv, [Next]_vars PROVE KeepsHolders
    OBVIOUS
  <2>1. CASE UNCHANGED locks
    BY <2>1 DEF KeepsHolders
  <2>2. CASE ApplyCommand
    <3> DEFINE c == Head(pending)
    <3>1. /\ pending # << >> /\ c \in Command /\ c.key \in Key
          /\ locks[c.key] \in Entry /\ Sound(locks[c.key])
          /\ \A k \in Key : locks'[k] = IF k = c.key THEN Applied(locks[k], c) ELSE locks[k]
      BY <2>2, ApplyStep
    <3> SUFFICES ASSUME NEW k \in Key, NEW o \in locks[k].holders, ~ReleasesNow(k, o)
                 PROVE  /\ o \in locks'[k].holders
                        /\ locks[k].mode = "exclusive" => locks'[k].mode = "exclusive"
      BY DEF KeepsHolders
    <3>2. CASE k # c.key
      BY <3>1, <3>2
    <3>3. CASE k = c.key /\ c.type = "lock.acquire"
      <4>1. c.owner \in Owner /\ c.mode \in Mode
        BY <3>1, <3>3 DEF Command
      <4>2. locks'[k] = Acquire(locks[k], c.owner, c.mode)
        BY <3>1, <3>3 DEF Applied
      <4> HIDE DEF c
      <4> QED BY <3>1, <3>3, <4>1, <4>2, AcquireKeeps
    <3>4. CASE k = c.key /\ c.type # "lock.acquire"
      <4>1. c.owner \in Owner /\ c.type = "lock.release"
        BY <3>1, <3>4 DEF Command
      <4>2. locks'[k] = Release(locks[k], c.owner)
        BY <3>1, <3>4 DEF Applied
      <4>3. c.owner # o
        BY <3>1, <3>4, <4>1 DEF ReleasesNow
      <4> HIDE DEF c
      <4> QED BY <3>1, <3>4, <4>1, <4>2, <4>3, ReleaseKeeps
    <3> QED BY <3>2, <3>3, <3>4
  <2> QED BY <2>1, <2>2, OtherSteps
<1> QED BY <1>1, TableInvariant, PTL DEF Spec, OnlyReleaseRevokes

----------------------------------------------------------------------------
(* Refinement.                                                             *)

Rights(e) == [o \in Owner |-> RightOf(e, o)]

\* A sound entry gives compatible rights.
LEMMA SoundCompatible ==
    ASSUME NEW e \in Entry, Sound(e)
    PROVE  Rights(e) \in [Owner -> Abstract!Right] /\ Abstract!Compatible(Rights(e))
<1>1. e.mode \in {"none", "shared", "exclusive"}
  BY DEF Entry, Mode
<1>2. Rights(e) \in [Owner -> Abstract!Right]
  BY <1>1 DEF Rights, RightOf, Abstract!Right
<1>3. Abstract!Compatible(Rights(e))
  BY DEF Rights, RightOf, Abstract!Compatible, Sound
<1> QED BY <1>2, <1>3

\* A holder that stays, in a mode at least as strong, keeps its right.
LEMMA StayingCovers ==
    ASSUME NEW e \in Entry, NEW d \in Entry, Sound(d), NEW p \in Owner,
           p \in e.holders => /\ p \in d.holders
                              /\ e.mode = "exclusive" => d.mode = "exclusive"
    PROVE  Abstract!Covers(Rights(d)[p], Rights(e)[p])
<1>1. e.mode \in {"none", "shared", "exclusive"} /\ d.mode \in {"none", "shared", "exclusive"}
  BY DEF Entry, Mode
<1>2. p \in d.holders => d.mode # "none"
  BY DEF Sound
<1> QED BY <1>1, <1>2 DEF Abstract!Covers, Rights, RightOf

\* The lock table, with its queues, its log and its commands in flight,
\* implements a readers-writer lock for each key.
THEOREM Refinement == Spec => ImplementsReadersWriter
<1> DEFINE right == [k \in Key |-> [o \in Owner |-> RightOf(locks[k], o)]]
<1>1. Init => Abstract!Init
  BY DEF Init, Abstract!Init, RightOf, FreeEntry
<1>2. TableInv /\ TableInv' /\ [Next]_vars => [Abstract!Next]_right
  <2> SUFFICES ASSUME TableInv, TableInv', [Next]_vars PROVE [Abstract!Next]_right
    OBVIOUS
  <2>1. CASE UNCHANGED locks
    BY <2>1
  <2>2. CASE ApplyCommand
    <3> DEFINE c == Head(pending)
               k == c.key
               e == locks[k]
               d == locks'[k]
    <3>1. /\ c \in Command /\ k \in Key /\ e \in Entry /\ Sound(e)
          /\ \A j \in Key : locks'[j] = IF j = k THEN Applied(locks[j], c) ELSE locks[j]
      BY <2>2, ApplyStep
    <3>2. d = Applied(e, c) /\ d \in Entry /\ Sound(d)
      BY <3>1, AppliedKeeps
    <3>3. right' = [right EXCEPT ![k] = Rights(d)]
      <4>1. \A j \in Key : right'[j] = IF j = k THEN Rights(d) ELSE right[j]
        BY <3>1 DEF Rights
      <4> QED BY <4>1
    <3>4. right[k] = Rights(e)
      BY <3>1 DEF Rights
    <3>5. Rights(d) \in [Owner -> Abstract!Right] /\ Abstract!Compatible(Rights(d))
      BY <3>2, SoundCompatible
    <3> HIDE DEF c, k, e, d
    <3>6. CASE c.type = "lock.acquire"
      <4>1. c.owner \in Owner /\ c.mode \in Mode
        BY <3>1, <3>6 DEF Command
      <4>2. d = Acquire(e, c.owner, c.mode)
        BY <3>2, <3>6 DEF Applied
      <4>3. \A p \in Owner : Abstract!Covers(Rights(d)[p], Rights(e)[p])
        BY <3>1, <3>2, <4>1, <4>2, AcquireKeeps, StayingCovers
      <4>4. Abstract!Grant(k)
        BY <3>3, <3>4, <3>5, <4>3 DEF Abstract!Grant
      <4> QED BY <3>1, <4>4 DEF Abstract!Next
    <3>7. CASE c.type # "lock.acquire"
      <4>1. c.owner \in Owner
        BY <3>1 DEF Command
      <4>2. d = Release(e, c.owner)
        BY <3>2, <3>7 DEF Applied
      <4>3. \A p \in Owner \ {c.owner} : Abstract!Covers(Rights(d)[p], Rights(e)[p])
        <5>1. \A p \in e.holders \ {c.owner} : p \in d.holders /\ d.mode = e.mode
          BY <3>1, <4>1, <4>2, ReleaseKeeps
        <5> QED BY <3>1, <3>2, <5>1, StayingCovers
      <4>4. CASE c.owner \in e.holders
        <5>1. Rights(e)[c.owner] # "none"
          BY <3>1, <4>1, <4>4 DEF Rights, RightOf, Sound
        <5>2. Abstract!Release(k, c.owner)
          BY <3>3, <3>4, <3>5, <4>3, <5>1 DEF Abstract!Release
        <5> QED BY <3>1, <4>1, <5>2 DEF Abstract!Next
      <4>5. CASE c.owner \notin e.holders
        <5>1. Abstract!Covers(Rights(d)[c.owner], Rights(e)[c.owner])
          BY <4>1, <4>5 DEF Rights, RightOf, Abstract!Covers
        <5>2. \A p \in Owner : Abstract!Covers(Rights(d)[p], Rights(e)[p])
          BY <4>3, <5>1
        <5>3. Abstract!Grant(k)
          BY <3>3, <3>4, <3>5, <5>2 DEF Abstract!Grant
        <5> QED BY <3>1, <5>3 DEF Abstract!Next
      <4> QED BY <4>4, <4>5
    <3> QED BY <3>6, <3>7
  <2> QED BY <2>1, <2>2, OtherSteps
<1> QED BY <1>1, <1>2, TableInvariant, PTL DEF Spec, ImplementsReadersWriter, Abstract!Spec
----------------------------------------------------------------------------
(* The order of a queue.                                                   *)

\* What stays in a queue keeps its place: nothing else comes in front of it.
LEMMA WithoutOrder ==
    ASSUME NEW T, NEW q \in Seq(T), NEW S, NEW i \in 1..Len(q), q[i] \notin S
    PROVE  \E n \in 1..Len(Without(q, S)) :
               /\ Without(q, S)[n] = q[i]
               /\ \A m \in 1..n-1 : \E j \in 1..i-1 : Without(q, S)[m] = q[j]
<1> DEFINE I == Indices(q, S)
           r == Without(q, S)
           upTo(l) == {j \in I : j <= l}
           n == Cardinality(upTo(i))
<1>1. /\ I \subseteq 1..Len(q) /\ Len(q) \in Nat /\ i \in I
      /\ IsFiniteSet(I) /\ Cardinality(I) \in Nat
  <2>1. I \subseteq 1..Len(q) /\ Len(q) \in Nat /\ i \in I
    BY DEF Indices
  <2>2. IsFiniteSet(1..Len(q))
    BY <2>1, FS_Interval
  <2> QED BY <2>1, <2>2, FS_Subset, FS_CardinalityType
<1>2. /\ Len(r) = Cardinality(I)
      /\ \A m \in 1..Cardinality(I) : r[m] = q[NthIndex(I, m)]
  BY <1>1 DEF Without
<1> HIDE DEF I, r
<1>3. \A j \in I : j \in Nat /\ j >= 1
  BY <1>1
<1>4. ASSUME NEW l \in I PROVE IsFiniteSet(upTo(l)) /\ Cardinality(upTo(l)) \in Nat
  BY <1>1, FS_Subset, FS_CardinalityType
<1>5. ASSUME NEW l \in I, NEW h \in I, l <= h
      PROVE  /\ Cardinality(upTo(l)) <= Cardinality(upTo(h))
             /\ Cardinality(upTo(l)) = Cardinality(upTo(h)) => l = h
  <2>1. upTo(l) \subseteq upTo(h) /\ h \in upTo(h)
    BY <1>3, <1>5
  <2>2. upTo(l) = upTo(h) => h <= l
    BY <2>1
  <2> HIDE DEF upTo
  <2>3. /\ Cardinality(upTo(l)) <= Cardinality(upTo(h))
        /\ Cardinality(upTo(l)) = Cardinality(upTo(h)) => upTo(l) = upTo(h)
    BY <1>4, <2>1, FS_Subset
  <2> QED BY <1>3, <1>5, <2>2, <2>3
<1>6. n \in 1..Cardinality(I)
  <2>1. n <= Cardinality(I) /\ n \in Nat
    BY <1>1, <1>4, FS_Subset
  <2>2. n # 0
    <3>1. i \in upTo(i)
      BY <1>1, <1>3
    <3>2. upTo(i) # {}
      BY <3>1
    <3> HIDE DEF upTo
    <3> QED BY <1>1, <1>4, <3>2, FS_EmptySet
  <2> HIDE DEF n
  <2> QED BY <1>1, <2>1, <2>2
<1>7. \A m \in 1..Cardinality(I) : NthIndex(I, m) \in I /\ Cardinality(upTo(NthIndex(I, m))) = m
  BY <1>1, NthIndexExists
<1> HIDE DEF upTo
<1>8. NthIndex(I, n) = i
  <2> DEFINE x == NthIndex(I, n)
  <2>1. x \in I /\ Cardinality(upTo(x)) = n
    <3> HIDE DEF n
    <3> QED BY <1>6, <1>7
  <2> HIDE DEF x
  <2>2. x <= i \/ i <= x
    BY <1>1, <1>3, <2>1
  <2> QED BY <1>1, <1>5, <2>1, <2>2 DEF x
<1>9. ASSUME NEW m \in 1..n-1 PROVE NthIndex(I, m) \in 1..i-1 /\ m \in 1..Cardinality(I)
  <2>1. m \in 1..Cardinality(I) /\ m < n
    BY <1>1, <1>6
  <2>2. NthIndex(I, m) \in I /\ Cardinality(upTo(NthIndex(I, m))) = m
    BY <1>7, <2>1
  <2> DEFINE x == NthIndex(I, m)
  <2>3. ~(i <= x)
    <3> HIDE DEF x
    <3>1. ASSUME i <= x PROVE n <= m
      BY <1>1, <1>5, <2>2, <3>1 DEF x
    <3>2. m \in Nat /\ n \in Nat
      BY <1>1, <1>6, <2>1
    <3> HIDE DEF n
    <3> QED BY <2>1, <3>1, <3>2
  <2>4. x \in I /\ x \in Nat /\ x >= 1
    BY <1>3, <2>2
  <2> HIDE DEF x
  <2>5. x \in 1..i-1
    BY <1>1, <2>3, <2>4
  <2> QED BY <2>1, <2>5 DEF x
<1> HIDE DEF n
<1>10. r[n] = q[i] /\ n \in 1..Len(r)
  BY <1>2, <1>6, <1>8
<1>11. \A m \in 1..n-1 : \E j \in 1..i-1 : r[m] = q[j]
  BY <1>2, <1>9
<1> QED BY <1>10, <1>11 DEF r

\* Taking away what is at the front leaves the rest as it is.
LEMMA WithoutFront ==
    ASSUME NEW T, NEW q \in Seq(T), NEW n \in 0..Len(q), NEW S,
           \A i \in 1..Len(q) : q[i] \in S <=> i <= n
    PROVE  Without(q, S) = SubSeq(q, n + 1, Len(q))
<1> DEFINE L == Len(q)
           I == Indices(q, S)
<1>1. L \in Nat /\ n \in Nat /\ n <= L
  OBVIOUS
<1>2. I = (n + 1)..L
  BY <1>1 DEF Indices
<1>3. ASSUME NEW l \in n..L PROVE Cardinality((n + 1)..l) = l - n
  <2>1. l \in Int /\ n + 1 \in Int /\ n \in Int
    BY <1>1
  <2>2. Cardinality((n + 1)..l) = IF n + 1 > l THEN 0 ELSE l - (n + 1) + 1
    BY <2>1, FS_Interval
  <2> QED BY <1>1, <2>1, <2>2
<1>4. Cardinality(I) = L - n
  BY <1>1, <1>2, <1>3
<1>5. ASSUME NEW k \in 1..(L - n) PROVE NthIndex(I, k) = n + k
  <2> DEFINE x == NthIndex(I, k)
  <2>1. x \in I /\ Cardinality({j \in I : j <= x}) = k
    <3>1. I \subseteq 1..L
      BY <1>1, <1>2
    <3> HIDE DEF I
    <3> QED BY <1>1, <1>4, <3>1, NthIndexExists
  <2> HIDE DEF x
  <2>2. {j \in I : j <= x} = (n + 1)..x /\ x \in n..L
    BY <1>1, <1>2, <2>1
  <2>3. k = x - n
    BY <1>3, <2>1, <2>2
  <2> QED BY <1>1, <2>2, <2>3 DEF x
<1> HIDE DEF I
<1>6. Without(q, S) = [k \in 1..(L - n) |-> q[n + k]]
  BY <1>4, <1>5 DEF Without, I
<1>7. SubSeq(q, n + 1, L) = [k \in 1..(L - n) |-> q[n + k]]
  BY <1>1
<1> QED BY <1>6, <1>7 DEF L

\* The handover lets the front of the queue in, and the first one left behind is
\* refused, whether a writer or readers went in.
LEMMA GrantWaitersFront ==
    ASSUME NEW q \in Seq(Waiter), Distinct(q), NEW d, d = GrantWaiters(q)
    PROVE  /\ \E n \in 0..Len(q) : /\ d.holders = {q[i].owner : i \in 1..n}
                                   /\ d.queue = SubSeq(q, n + 1, Len(q))
           /\ d.queue # << >> => ~CanGrant(d, Head(d.queue).owner, Head(d.queue).mode)
<1> DEFINE L == Len(q)
           g == Granted(q)
           P == {i \in 0..L : \A j \in 1..i : GrantedAt(q, j)}
<1>1. L \in Nat /\ \A i \in 1..L : q[i] \in Waiter
  OBVIOUS
<1>2. PICK n \in P : \A i \in P : i <= n
  <2>1. P \subseteq Nat /\ 0 \in P /\ P \subseteq 0..L
    BY <1>1
  <2>2. IsFiniteSet(0..L)
    BY <1>1, FS_Interval
  <2> HIDE DEF P
  <2>3. IsFiniteSet(P) /\ P # {}
    BY <2>1, <2>2, FS_Subset
  <2> QED BY <2>1, <2>3, GreatestOfFinite
<1>3. n \in 0..L /\ n \in Nat /\ \A j \in 1..n : GrantedAt(q, j)
  BY <1>1, <1>2
<1>4. g = {q[i] : i \in 1..n}
  <2>1. \A i \in 1..L : (\A j \in 1..i : GrantedAt(q, j)) <=> i <= n
    <3> TAKE i \in 1..L
    <3>1. ASSUME \A j \in 1..i : GrantedAt(q, j) PROVE i <= n
      <4>1. i \in P
        BY <1>1, <3>1
      <4> QED BY <1>2, <4>1
    <3>2. ASSUME i <= n PROVE \A j \in 1..i : GrantedAt(q, j)
      <4>1. \A j \in 1..i : j \in 1..n
        BY <1>1, <1>3, <3>2
      <4> QED BY <1>3, <4>1
    <3> QED BY <3>1, <3>2
  <2>2. {i \in 1..L : \A j \in 1..i : GrantedAt(q, j)} = 1..n
    BY <1>1, <1>3, <2>1
  <2> QED BY <2>2 DEF Granted
<1>5. \A i \in 1..L : q[i] \in g <=> i <= n
  BY <1>1, <1>3, <1>4 DEF Distinct
<1>6. /\ d.mode = (IF g = {} THEN "none"
                   ELSE IF \E w \in g : w.mode = "exclusive" THEN "exclusive" ELSE "shared")
      /\ d.holders = {w.owner : w \in g}
      /\ d.queue = Without(q, g)
  BY DEF GrantWaiters
<1> HIDE DEF g, P
<1>7. d.queue = SubSeq(q, n + 1, L)
  BY <1>3, <1>5, <1>6, WithoutFront
<1>8. d.holders = {q[i].owner : i \in 1..n}
  BY <1>4, <1>6
<1>9. ASSUME d.queue # << >> PROVE ~CanGrant(d, Head(d.queue).owner, Head(d.queue).mode)
  <2> DEFINE w == q[n + 1]
  <2>1. n + 1 \in 1..L /\ Head(d.queue) = w /\ n + 1 - 1 = n
    BY <1>1, <1>3, <1>7, <1>9
  <2>2. ~GrantedAt(q, n + 1)
    <3>1. n + 1 \notin P
      BY <1>2, <1>3
    <3>2. \A j \in 1..(n + 1) : j \in 1..n \/ j = n + 1
      BY <1>3
    <3>3. n + 1 \in 0..L
      BY <2>1
    <3> QED BY <1>3, <3>1, <3>2, <3>3 DEF P
  <2>3. PICK j \in 1..n : ~(q[j].mode = "shared" /\ (w.mode = "shared" \/ q[j].owner = w.owner))
    <3>1. 1..(n + 1)-1 = 1..n
      BY <1>3
    <3>2. GrantedAt(q, n + 1) <=>
              \A j \in 1..n : q[j].mode = "shared" /\ (w.mode = "shared" \/ q[j].owner = w.owner)
      BY <3>1, Zenon DEF GrantedAt
    <3> HIDE DEF w
    <3> QED BY <2>2, <3>2
  <2>4. q[j] \in g /\ q[j] \in Waiter /\ w \in Waiter
    BY <1>1, <1>3, <1>4, <2>1
  <2> HIDE DEF w
  <2>5. d.mode # "none" /\ q[j].owner \in d.holders
    BY <1>6, <2>4
  <2>6. CASE q[j].mode = "exclusive"
    <3>1. d.mode = "exclusive"
      BY <1>6, <2>4, <2>6
    <3> QED BY <2>1, <3>1 DEF CanGrant
  <2>7. CASE q[j].mode = "shared"
    <3>1. w.mode # "shared" /\ d.holders # {w.owner}
      BY <2>3, <2>5, <2>7
    <3> QED BY <2>1, <2>5, <3>1 DEF CanGrant
  <2> QED BY <2>4, <2>6, <2>7 DEF Waiter, Mode
<1> QED BY <1>3, <1>7, <1>8, <1>9 DEF L

\* When the last holder leaves, the lock goes to the front of the queue as far as
\* _can_grant lets it, and the rest keeps its order.  It needs that nobody is queued
\* twice: the filter takes every copy of a waiter out.
THEOREM HandoverIsFair == Spec => HandoverInOrder
<1>1. TableInv /\ Once /\ [Next]_vars => [HandoverServesFront]_locks
  <2> SUFFICES ASSUME TableInv, Once,
                      NEW k \in Key, NEW o \in Owner,
                      ApplyCommand, ReleasesNow(k, o), locks[k].holders \subseteq {o}
               PROVE  LET q == locks[k].queue
                          e == locks'[k]
                      IN /\ \E n \in 0..Len(q) : /\ e.holders = {q[i].owner : i \in 1..n}
                                                 /\ e.queue = SubSeq(q, n + 1, Len(q))
                         /\ e.queue # << >> => ~CanGrant(e, Head(e.queue).owner, Head(e.queue).mode)
    BY DEF HandoverServesFront
  <2> DEFINE c == Head(pending)
  <2>1. /\ locks[c.key] \in Entry
        /\ \A j \in Key : locks'[j] = IF j = c.key THEN Applied(locks[j], c) ELSE locks[j]
    BY ApplyStep
  <2>2. c.key = k /\ c.owner = o /\ c.type = "lock.release"
    BY DEF ReleasesNow
  <2> HIDE DEF c
  <2>3. locks'[k] = GrantWaiters(locks[k].queue)
    BY <2>1, <2>2 DEF Applied, Release
  <2>4. locks[k].queue \in Seq(Waiter) /\ Distinct(locks[k].queue)
    BY <2>1, <2>2 DEF Entry, Once
  <2> QED BY <2>3, <2>4, GrantWaitersFront
<1> QED BY <1>1, TableInvariant, OnceInvariant, PTL DEF Spec, HandoverInOrder

\* Waiter i of a lock keeps its place, or its owner holds the lock.
Stays(e, d, i) ==
    \/ e.queue[i].owner \in d.holders
    \/ \E n \in 1..Len(d.queue) :
           /\ d.queue[n] = e.queue[i]
           /\ \A m \in 1..n-1 : \E j \in 1..i-1 : d.queue[m] = e.queue[j]

LEMMA AppliedStays ==
    ASSUME NEW e \in Entry, NEW c \in Command, NEW i \in 1..Len(e.queue)
    PROVE  Stays(e, Applied(e, c), i)
<1> DEFINE q == e.queue
           d == Applied(e, c)
<1>1. q \in Seq(Waiter) /\ q[i] \in Waiter /\ i \in 1..Len(q)
  BY DEF Entry
<1>2. ASSUME NEW S, d.queue = Without(q, S), q[i] \in S => q[i].owner \in d.holders
      PROVE  Stays(e, d, i)
  <2>1. CASE q[i] \in S
    BY <1>2, <2>1 DEF Stays
  <2>2. CASE q[i] \notin S
    <3> HIDE DEF q, d
    <3>1. \E n \in 1..Len(Without(q, S)) :
              /\ Without(q, S)[n] = q[i]
              /\ \A m \in 1..n-1 : \E j \in 1..i-1 : Without(q, S)[m] = q[j]
      BY <1>1, <2>2, WithoutOrder
    <3> QED BY <1>2, <3>1 DEF Stays, q
  <2> QED BY <2>1, <2>2
<1>3. ASSUME Len(q) <= Len(d.queue), Len(d.queue) \in Nat, \A j \in 1..Len(q) : d.queue[j] = q[j]
      PROVE  Stays(e, d, i)
  <2>1. i \in 1..Len(d.queue) /\ \A m \in 1..i-1 : m \in 1..Len(q)
    BY <1>1, <1>3
  <2> HIDE DEF d
  <2> QED BY <1>1, <1>3, <2>1 DEF Stays
<1>4. CASE c.type = "lock.acquire"
  <2> DEFINE new == [owner |-> c.owner, mode |-> c.mode]
  <2>0. d = Acquire(e, c.owner, c.mode)
    BY <1>4 DEF Applied
  <2>1. CASE CanGrant(e, c.owner, c.mode)
    <3>1. d.queue = Without(q, [owner : {c.owner}, mode : Mode]) /\ c.owner \in d.holders
      BY <2>0, <2>1 DEF Acquire
    <3> HIDE DEF d
    <3>2. q[i] \in [owner : {c.owner}, mode : Mode] => q[i].owner \in d.holders
      BY <3>1
    <3> QED BY <1>2, <3>1, <3>2 DEF d
  <2>2. CASE ~CanGrant(e, c.owner, c.mode) /\ new \in Queued(e)
    <3>1. d.queue = q
      BY <2>0, <2>2 DEF Acquire
    <3> QED BY <1>1, <1>3, <3>1
  <2>3. CASE ~CanGrant(e, c.owner, c.mode) /\ new \notin Queued(e)
    <3>1. d.queue = Append(q, new)
      BY <2>0, <2>3 DEF Acquire, Entry
    <3> HIDE DEF new
    <3>2. Len(d.queue) = Len(q) + 1 /\ \A j \in 1..Len(q) : d.queue[j] = q[j]
      BY <1>1, <3>1
    <3> HIDE DEF d
    <3>3. Len(q) <= Len(d.queue) /\ Len(d.queue) \in Nat
      BY <1>1, <3>2
    <3> QED BY <1>3, <3>2, <3>3 DEF d
  <2> QED BY <2>1, <2>2, <2>3
<1>5. CASE c.type # "lock.acquire"
  <2>0. d = Release(e, c.owner)
    BY <1>5 DEF Applied
  <2>1. CASE e.holders \subseteq {c.owner}
    <3>1. d.queue = Without(q, Granted(q)) /\ d.holders = {w.owner : w \in Granted(q)}
      BY <2>0, <2>1 DEF Release, GrantWaiters
    <3> HIDE DEF d
    <3>2. q[i] \in Granted(q) => q[i].owner \in d.holders
      BY <3>1
    <3> QED BY <1>2, <3>1, <3>2 DEF d
  <2>2. CASE ~(e.holders \subseteq {c.owner})
    <3>1. d.queue = q
      BY <2>0, <2>2 DEF Release, Entry
    <3> QED BY <1>1, <1>3, <3>1
  <2> QED BY <2>1, <2>2
<1> QED BY <1>4, <1>5

\* No command drops a waiter whose owner does not get the lock, or puts anybody in
\* front of one.
THEOREM NobodyJumpsTheQueue == Spec => WaitersKeepPlace
<1>1. TableInv /\ [Next]_vars => [KeepsPlace]_locks
  <2> SUFFICES ASSUME TableInv, ApplyCommand, NEW k \in Key, NEW i \in 1..Len(locks[k].queue)
               PROVE  Stays(locks[k], locks'[k], i)
    BY OtherSteps DEF KeepsPlace, Stays
  <2> DEFINE c == Head(pending)
  <2>1. /\ c \in Command /\ locks[k] \in Entry
        /\ \A j \in Key : locks'[j] = IF j = c.key THEN Applied(locks[j], c) ELSE locks[j]
    BY ApplyStep DEF TableInv, TypeOK
  <2> HIDE DEF c
  <2>2. CASE k = c.key
    BY <2>1, <2>2, AppliedStays
  <2>3. CASE k # c.key
    <3>1. locks'[k] = locks[k] /\ Len(locks[k].queue) \in Nat
      BY <2>1, <2>3 DEF Entry
    <3>2. \A m \in 1..i-1 : m \in 1..i-1
      OBVIOUS
    <3> QED BY <3>1, <3>2 DEF Stays
  <2> QED BY <2>2, <2>3
<1> QED BY <1>1, TableInvariant, PTL DEF Spec, WaitersKeepPlace

----------------------------------------------------------------------------
(* Circles of waiting owners, and the requests that were tested.           *)

\* A command tested with nothing else in the log is next, and the table is still
\* the one it was tested on.
FreshTests ==
    \A i \in 1..Len(pending) :
        LET c == pending[i]
        IN (c.type = "lock.acquire" /\ c.alone) =>
               (i = 1 /\ ~DetectDeadlock(locks, c.owner, c.key))

\* A command appended to the log.
LEMMA SendKeepsFresh ==
    ASSUME TypeOK, FreshTests, UNCHANGED locks, NEW c \in Command, pending' = Append(pending, c),
           (c.type = "lock.acquire" /\ c.alone) =>
               (pending = << >> /\ ~DetectDeadlock(locks, c.owner, c.key))
    PROVE  FreshTests'
<1> DEFINE l == Len(pending)
<1>1. /\ pending \in Seq(Command) /\ l \in Nat
      /\ Len(pending') = l + 1 /\ pending'[l + 1] = c
      /\ \A i \in 1..l : pending'[i] = pending[i]
      /\ 1..(l + 1) = 1..l \cup {l + 1}
      /\ pending = << >> => l + 1 = 1
  BY DEF TypeOK
<1> HIDE DEF l
<1> QED BY <1>1 DEF FreshTests, l

LEMMA NextFresh == TableInv /\ FreshTests /\ [Next]_vars => FreshTests'
<1> SUFFICES ASSUME TableInv, FreshTests, [Next]_vars PROVE FreshTests'
  OBVIOUS
<1>0. TypeOK /\ pending \in Seq(Command)
  BY DEF TableInv, TypeOK
<1>1. ASSUME NEW k \in Key, NEW o \in Owner, NEW m \in Mode, RequestLock(k, o, m)
      PROVE  FreshTests'
  <2> DEFINE c == [type |-> "lock.acquire", key |-> k, owner |-> o, mode |-> m,
                   alone |-> pending = << >>]
  <2>1. c \in Command /\ c.owner = o /\ c.key = k /\ (c.alone <=> pending = << >>)
    BY DEF Command
  <2>2. pending' = Append(pending, c) /\ locks' = locks /\ ~DetectDeadlock(locks, o, k)
    BY <1>1 DEF RequestLock
  <2> HIDE DEF c
  <2> QED BY <1>0, <2>1, <2>2, SendKeepsFresh
<1>2. ASSUME NEW k \in Key, NEW o \in Owner, RequestRelease(k, o)
      PROVE  FreshTests'
  <2> DEFINE c == [type |-> "lock.release", key |-> k, owner |-> o]
  <2>1. c \in Command /\ c.type # "lock.acquire"
    BY DEF Command
  <2>2. pending' = Append(pending, c) /\ locks' = locks
    BY <1>2 DEF RequestRelease
  <2> HIDE DEF c
  <2> QED BY <1>0, <2>1, <2>2, SendKeepsFresh
<1>3. CASE ApplyCommand
  <2>1. pending # << >> /\ pending' = Tail(pending)
    BY <1>3 DEF ApplyCommand
  <2>2. /\ \A i \in 1..Len(pending') : /\ pending'[i] = pending[i + 1]
                                       /\ i + 1 \in 1..Len(pending) /\ i + 1 # 1
    BY <1>0, <2>1
  <2> QED BY <2>2 DEF FreshTests
<1>4. CASE Truncate
  <2>1. PICK n \in 0..Len(pending) - 1 : pending' = SubSeq(pending, 1, n)
    BY <1>4 DEF Truncate
  <2>2. locks' = locks
    BY <1>4 DEF Truncate
  <2>3. /\ Len(pending') = n /\ \A i \in 1..n : pending'[i] = pending[i]
        /\ \A i \in 1..n : i \in 1..Len(pending)
    BY <1>0, <2>1
  <2> QED BY <2>2, <2>3 DEF FreshTests
<1>5. CASE UNCHANGED vars
  BY <1>5 DEF vars, FreshTests
<1>6. ASSUME NEW k \in Key, NEW o \in Owner, RefuseRequest(k, o) PROVE FreshTests'
  BY <1>5, <1>6 DEF RefuseRequest
<1> QED BY <1>1, <1>2, <1>3, <1>4, <1>5, <1>6 DEF Next, Request

LEMMA FreshInvariant == Spec => []FreshTests
<1>1. Init => FreshTests
  BY DEF Init, FreshTests
<1> QED BY <1>1, NextFresh, TableInvariant, PTL DEF Spec

LEMMA WaitGraphIs ==
    ASSUME NEW table
    PROVE  /\ IsGraph(WaitGraph(table)) /\ WaitGraph(table).node = Owner
           /\ \A e \in WaitGraph(table).edge :
                  /\ e[1] \in Owner /\ e[2] \in Owner /\ e = <<e[1], e[2]>>
                  /\ \E k \in Key : e[1] \in QueuedOwners(table[k]) /\ e[2] \in table[k].holders
           /\ \A o, h \in Owner : \A k \in Key :
                  o \in QueuedOwners(table[k]) /\ h \in table[k].holders =>
                      <<o, h>> \in WaitGraph(table).edge
  BY DEF WaitGraph, IsGraph, WaitsFor

\* The lock is granted or given back: the new edges lead to its new holders, who
\* wait for nothing.
LEMMA GrantClosesNoCircle ==
    ASSUME Acyclic(WaitGraph(locks)), NEW k \in Key, NEW D \in SUBSET Owner,
           \A j \in Key : j # k => locks'[j] = locks[j],
           locks'[k].holders \subseteq locks[k].holders \cup D,
           QueuedOwners(locks'[k]) \subseteq QueuedOwners(locks[k]),
           \A j \in Key : QueuedOwners(locks'[j]) \cap D = {}
    PROVE  Acyclic(WaitGraph(locks'))
<1> DEFINE G == WaitGraph(locks)
           H == WaitGraph(locks')
<1>1. ASSUME NEW e \in H.edge PROVE (e \in G.edge \/ e[2] \in D) /\ e[1] \notin D
  <2>1. PICK j \in Key : e[1] \in QueuedOwners(locks'[j]) /\ e[2] \in locks'[j].holders
    BY WaitGraphIs
  <2>2. e[1] \in Owner /\ e[2] \in Owner /\ e = <<e[1], e[2]>>
    BY WaitGraphIs
  <2>3. e[1] \notin D
    BY <2>1
  <2>4. ASSUME e[2] \notin D PROVE e \in G.edge
    <3>1. e[1] \in QueuedOwners(locks[j]) /\ e[2] \in locks[j].holders
      BY <2>1, <2>4
    <3>2. <<e[1], e[2]>> \in G.edge
      BY <2>2, <3>1, WaitGraphIs
    <3> QED BY <2>2, <3>2
  <2> QED BY <2>3, <2>4
<1>2. IsGraph(G) /\ IsGraph(H) /\ H.node = G.node
  BY WaitGraphIs
<1> HIDE DEF G, H
<1>3. Acyclic(G)
  BY DEF G
<1>4. Acyclic(H)
  BY <1>1, <1>2, <1>3, AddSinks
<1> QED BY <1>4 DEF H

\* The owner queues up: the wait graph becomes the one that was tested.
LEMMA WaitClosesNoCircle ==
    ASSUME Acyclic(WaitGraph(locks)), NEW k \in Key, NEW o \in Owner,
           \A j \in Key : j # k => locks'[j] = locks[j],
           locks'[k].holders = locks[k].holders, locks[k].holders \subseteq Owner,
           QueuedOwners(locks'[k]) = QueuedOwners(locks[k]) \cup {o},
           ~DetectDeadlock(locks, o, k)
    PROVE  Acyclic(WaitGraph(locks'))
<1> DEFINE G == WaitGraph(locks)
           H == WaitGraph(locks')
<1>1. \A p, h \in Owner :
          WaitsFor(locks', p, h) <=> WaitsFor(locks, p, h) \/ (p = o /\ h \in locks[k].holders)
  BY DEF WaitsFor
<1>2. H = RequestGraph(locks, o, k)
  <2>1. \A e \in Owner \X Owner :
            WaitsFor(locks', e[1], e[2]) <=>
                WaitsFor(locks, e[1], e[2]) \/ e \in {o} \X locks[k].holders
    BY <1>1
  <2>2. {e \in Owner \X Owner : WaitsFor(locks', e[1], e[2])} =
            {e \in Owner \X Owner : WaitsFor(locks, e[1], e[2])} \cup ({o} \X locks[k].holders)
    BY <2>1
  <2> QED BY <2>2 DEF WaitGraph, RequestGraph
<1>3. \A e \in H.edge : e[1] \in Reachable(H, o) => e[1] \notin Reachable(H, e[2])
  BY <1>2 DEF DetectDeadlock, CycleFrom
<1>4. \A e \in H.edge : e \in G.edge \/ e[1] = o
  BY <1>2 DEF RequestGraph
<1>5. IsGraph(G) /\ IsGraph(H) /\ G.node = Owner /\ H.node = Owner
  BY WaitGraphIs
<1> HIDE DEF G, H
<1>6. Acyclic(G)
  BY DEF G
<1>7. Acyclic(H)
  BY <1>3, <1>4, <1>5, <1>6, AddSource
<1> QED BY <1>7 DEF H

\* Whom a command lets in, and whom it queues: either nobody new waits, or its own
\* owner queues up and the holders stay.
LEMMA AppliedQueues ==
    ASSUME NEW e \in Entry, NEW c \in Command, NEW d, d = Applied(e, c)
    PROVE  \/ QueuedOwners(d) \subseteq QueuedOwners(e)
           \/ /\ c.type = "lock.acquire" /\ d.holders = e.holders
              /\ QueuedOwners(d) = QueuedOwners(e) \cup {c.owner}
<1> DEFINE q == e.queue
<1>1. q \in Seq(Waiter)
  BY DEF Entry
<1>2. \A S : ToSet(Without(q, S)) \subseteq ToSet(q)
  BY <1>1, WithoutType DEF ToSet
<1>3. ASSUME NEW S, d.queue = Without(q, S) PROVE QueuedOwners(d) \subseteq QueuedOwners(e)
  BY <1>2, <1>3 DEF QueuedOwners, Queued
<1>4. d.queue = q => QueuedOwners(d) = QueuedOwners(e)
  BY DEF QueuedOwners, Queued
<1>5. CASE c.type = "lock.acquire"
  <2> DEFINE new == [owner |-> c.owner, mode |-> c.mode]
  <2>0. d = Acquire(e, c.owner, c.mode)
    BY <1>5 DEF Applied
  <2>1. CASE CanGrant(e, c.owner, c.mode)
    <3>1. d.queue = Without(q, [owner : {c.owner}, mode : Mode])
      BY <2>0, <2>1 DEF Acquire
    <3> QED BY <1>3, <3>1
  <2>2. CASE ~CanGrant(e, c.owner, c.mode) /\ new \in Queued(e)
    <3>1. d.queue = q
      BY <2>0, <2>2 DEF Acquire
    <3> QED BY <1>4, <3>1
  <2>3. CASE ~CanGrant(e, c.owner, c.mode) /\ new \notin Queued(e)
    <3>1. d.queue = Append(q, new) /\ d.holders = e.holders
      BY <2>0, <2>3 DEF Acquire, Entry
    <3>2. new.owner = c.owner
      OBVIOUS
    <3> HIDE DEF new
    <3>3. ToSet(d.queue) = ToSet(q) \cup {new}
      BY <1>1, <3>1 DEF ToSet
    <3>4. QueuedOwners(d) = QueuedOwners(e) \cup {c.owner}
      BY <3>2, <3>3 DEF QueuedOwners, Queued
    <3> QED BY <1>5, <3>1, <3>4
  <2> QED BY <2>1, <2>2, <2>3
<1>6. CASE c.type # "lock.acquire"
  <2>1. CASE e.holders \subseteq {c.owner}
    <3>1. d.queue = Without(q, Granted(q))
      BY <1>6, <2>1 DEF Applied, Release, GrantWaiters
    <3> QED BY <1>3, <3>1
  <2>2. CASE ~(e.holders \subseteq {c.owner})
    <3>1. d.queue = q
      BY <1>6, <2>2 DEF Applied, Release, Entry
    <3> QED BY <1>4, <3>1
  <2> QED BY <2>1, <2>2
<1> QED BY <1>5, <1>6

\* docs/architecture.md promises deadlock detection.  What _detect_deadlock gives, for
\* any number of owners and locks and whatever clients send: no circle closes but by
\* a command that was tested on another table than it is applied to, or by letting in
\* an owner that is still queued somewhere.  LockConcurrent shows the first.
THEOREM CirclesHaveCauses == Spec => CircleHasCause
<1>1. TableInv /\ FreshTests /\ [Next]_vars => [CircleNeedsCause]_locks
  <2> SUFFICES ASSUME TableInv, FreshTests, ApplyCommand,
                      ~TestIsStale, ~WaiterMadeHolder, Acyclic(WaitGraph(locks))
               PROVE  Acyclic(WaitGraph(locks'))
    BY OtherSteps DEF CircleNeedsCause, NoWaitCycle, Acyclic
  <2> DEFINE c == Head(pending)
             k == c.key
             e == locks[k]
             d == locks'[k]
             D == d.holders \ e.holders
  <2>1. /\ pending # << >> /\ c \in Command /\ k \in Key /\ e \in Entry
        /\ \A j \in Key : locks'[j] = IF j = k THEN Applied(locks[j], c) ELSE locks[j]
    BY ApplyStep
  <2>2. c.type = "lock.acquire" => ~DetectDeadlock(locks, c.owner, k)
    <3>1. pending \in Seq(Command)
      BY DEF TableInv, TypeOK
    <3>2. 1 \in 1..Len(pending) /\ c = pending[1]
      BY <2>1, <3>1
    <3> HIDE DEF c
    <3> QED BY <2>1, <3>2 DEF FreshTests, TestIsStale, c
  <2> HIDE DEF c
  <2>3. c.owner \in Owner /\ Applied(e, c) \in Entry /\ d = Applied(e, c)
    <3>1. Sound(e)
      BY <2>1 DEF TableInv
    <3> QED BY <2>1, <3>1, AppliedKeeps DEF Command
  <2>4. e.holders \subseteq Owner /\ d.holders \subseteq Owner
    BY <2>1, <2>3 DEF Entry
  <2>5. \A j \in Key : QueuedOwners(locks'[j]) \cap D = {}
    BY <2>1, <2>4 DEF WaiterMadeHolder
  <2>6. \A j \in Key : j # k => locks'[j] = locks[j]
    BY <2>1
  <2>7. \/ QueuedOwners(d) \subseteq QueuedOwners(e)
        \/ /\ c.type = "lock.acquire" /\ d.holders = e.holders
           /\ QueuedOwners(d) = QueuedOwners(e) \cup {c.owner}
    BY <2>1, <2>3, AppliedQueues
  <2>8. D \in SUBSET Owner /\ d.holders \subseteq e.holders \cup D
    BY <2>4
  <2> HIDE DEF k, D
  <2>9. CASE QueuedOwners(d) \subseteq QueuedOwners(e)
    BY <2>1, <2>5, <2>6, <2>8, <2>9, GrantClosesNoCircle
  <2>10. CASE /\ c.type = "lock.acquire" /\ d.holders = e.holders
              /\ QueuedOwners(d) = QueuedOwners(e) \cup {c.owner}
    BY <2>1, <2>2, <2>3, <2>4, <2>6, <2>10, WaitClosesNoCircle
  <2> QED BY <2>7, <2>9, <2>10
<1> QED BY <1>1, TableInvariant, FreshInvariant, PTL DEF Spec, CircleHasCause
============================================================================
