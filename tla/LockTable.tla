----------------------------- MODULE LockTable -----------------------------
(***************************************************************************)
(* The replicated lock table of nodes/lock_manager.py, as pure operators.  *)
(* DistributedLockManager._locks maps a key to a LockEntry; a log command  *)
(* changes the entry of its key through _apply_acquire or _apply_release   *)
(* and neither of them suspends, so each is one operator on entries.  The  *)
(* deadlock test of _request_lock reads the whole table.                   *)
(*                                                                         *)
(* A key that is absent from the dictionary behaves as FreeEntry, the      *)
(* default LockEntry(), so the table is total here.  Nothing is recursive: *)
(* LockManagerProofs reasons about these operators.                        *)
(***************************************************************************)
EXTENDS Naturals, Sequences, FiniteSets, SequencesExt, Reachability

CONSTANTS Key,    \* the names of the locks
          Owner   \* the clients that ask for them

Mode == {"shared", "exclusive"}

\* An element of wait_queue: the pair (owner, mode).
Waiter == [owner : Owner, mode : Mode]

\* LockEntry; "none" is the mode None of the code.
Entry == [mode : Mode \cup {"none"}, holders : SUBSET Owner, queue : Seq(Waiter)]

FreeEntry == [mode |-> "none", holders |-> {}, queue |-> << >>]

----------------------------------------------------------------------------
(* Filtering a wait queue: the list comprehensions that rebuild it.        *)

Indices(q, S) == {i \in 1..Len(q) : q[i] \notin S}

\* The index of the n-th of the elements kept.
NthIndex(I, n) == CHOOSE i \in I : Cardinality({j \in I : j <= i}) = n

\* q with the members of S taken out, the order of the rest unchanged.
Without(q, S) ==
    [n \in 1..Cardinality(Indices(q, S)) |-> q[NthIndex(Indices(q, S), n)]]

Queued(e) == ToSet(e.queue)
QueuedOwners(e) == {w.owner : w \in Queued(e)}

----------------------------------------------------------------------------
(* _can_grant: a free lock, one more reader, or the only reader upgrading. *)

CanGrant(e, o, m) ==
    \/ e.mode = "none"
    \/ e.mode = "shared" /\ m = "shared"
    \/ e.mode = "shared" /\ m = "exclusive" /\ e.holders = {o}

\* Slip: the pair stored the wrong way round.
AcquireSwapped(e, o, m) ==
    IF CanGrant(e, o, m) THEN [e EXCEPT !.mode = m, !.holders = @ \cup {o}]
    ELSE [e EXCEPT !.queue = Append(@, [owner |-> m, mode |-> o])]

\* _apply_acquire: hold the lock now, or queue up once.
Acquire(e, o, m) ==
    IF CanGrant(e, o, m)
    THEN [mode    |-> m,
          holders |-> e.holders \cup {o},
          queue   |-> Without(e.queue, [owner : {o}, mode : Mode])]
    ELSE IF [owner |-> o, mode |-> m] \in Queued(e)
         THEN e
         ELSE [e EXCEPT !.queue = Append(@, [owner |-> o, mode |-> m])]

(***************************************************************************)
(* _grant_waiters, called with no holder left.  The loop grants a prefix   *)
(* of the queue: it stops at the first waiter _can_grant refuses and right *)
(* after an exclusive one.  Waiter i is reached and granted when all       *)
(* before it were shared and it is shared too, or it is the exclusive      *)
(* request of an owner that is then the only holder (an upgrade).          *)
(***************************************************************************)
\* Slip: the loop goes on to an exclusive waiter after shared ones.
GrantedPastReaders(q, i) == \A j \in 1..i-1 : q[j].mode = "shared"

GrantedAt(q, i) ==
    \A j \in 1..i-1 : /\ q[j].mode = "shared"
                      /\ q[i].mode = "shared" \/ q[j].owner = q[i].owner

\* Slip: one waiter at a time.
GrantedFirst(q) == {q[i] : i \in {n \in 1..Len(q) : n = 1}}

Granted(q) == {q[i] : i \in {n \in 1..Len(q) : \A j \in 1..n : GrantedAt(q, j)}}

GrantWaiters(q) ==
    LET granted == Granted(q)
    IN [mode    |-> IF granted = {} THEN "none"
                    ELSE IF \E w \in granted : w.mode = "exclusive"
                         THEN "exclusive" ELSE "shared",
        holders |-> {w.owner : w \in granted},
        queue   |-> Without(q, granted)]

\* Slips: nobody is woken up; nobody looks at the other holders; the waiters that
\* are not let in are forgotten.
ReleaseSilent(e, o) ==
    IF e.holders \subseteq {o} THEN [FreeEntry EXCEPT !.queue = e.queue]
    ELSE [e EXCEPT !.holders = @ \ {o}]
ReleaseAll(e, o) == GrantWaiters(e.queue)
ReleaseForgets(e, o) ==
    IF e.holders \subseteq {o} THEN [GrantWaiters(e.queue) EXCEPT !.queue = << >>]
    ELSE [e EXCEPT !.holders = @ \ {o}]

\* _apply_release: only the last holder to leave lets waiters in.
Release(e, o) ==
    IF e.holders \subseteq {o} THEN GrantWaiters(e.queue)
    ELSE [e EXCEPT !.holders = @ \ {o}]

----------------------------------------------------------------------------
(* _build_wait_graph and _detect_deadlock.                                 *)

\* o waits for h: o is queued on a key that h holds.
WaitsFor(locks, o, h) ==
    \E k \in Key : o \in QueuedOwners(locks[k]) /\ h \in locks[k].holders

WaitGraph(locks) ==
    [node |-> Owner, edge |-> {e \in Owner \X Owner : WaitsFor(locks, e[1], e[2])}]

\* Slip: the wait of a holder for itself is left out.
RequestGraphOthers(locks, o, k) ==
    [node |-> Owner, edge |-> WaitGraph(locks).edge \cup ({o} \X (locks[k].holders \ {o}))]

\* The wait graph with the edges the request of owner o for key k adds.
RequestGraph(locks, o, k) ==
    [node |-> Owner, edge |-> WaitGraph(locks).edge \cup ({o} \X locks[k].holders)]

\* _has_cycle: the search from start meets some cycle, not only one that
\* goes through start.  WaitGraphSearch checks the search against this.
CycleFrom(graph, start) ==
    LET met == Reachable(graph, start)
    IN \E e \in graph.edge : e[1] \in met /\ e[1] \in Reachable(graph, e[2])

DetectDeadlock(locks, o, k) == CycleFrom(RequestGraph(locks, o, k), o)
============================================================================
