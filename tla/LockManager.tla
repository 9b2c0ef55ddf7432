---------------------------- MODULE LockManager ----------------------------
(***************************************************************************)
(* DistributedLockManager of nodes/lock_manager.py on the leader: clients  *)
(* ask it to acquire and release, it tests for deadlock against the table  *)
(* it has applied so far, hands the command to RaftNode.replicate and      *)
(* applies it when the log entry commits.  Between the test and the        *)
(* application lies an await, in which other requests run.                 *)
(*                                                                         *)
(* pending is the part of the Raft log this node has not applied yet.  An  *)
(* entry leaves it at the front, when it is applied, or at the back, when  *)
(* a new leader truncates the log.  Raft itself is module Raft.            *)
(*                                                                         *)
(* Clients may send anything at any time.  The answer True means that the  *)
(* command is committed; the client cannot tell a lock it holds from one   *)
(* it is queued for, so being queued keeps nobody from sending.            *)
(***************************************************************************)
EXTENDS LockTable

CONSTANT MaxPending   \* bound: commands between test and application

ASSUME MaxPendingAssumption == MaxPending \in Nat \ {0}

VARIABLES locks,    \* _locks
          pending   \* log entries not yet applied, oldest first

vars == <<locks, pending>>

\* alone is history: nothing lay in the log when the request was tested, so
\* it is applied to the table it was tested on.
Command ==
    [type : {"lock.acquire"}, key : Key, owner : Owner, mode : Mode, alone : BOOLEAN]
        \cup [type : {"lock.release"}, key : Key, owner : Owner]

----------------------------------------------------------------------------
Init == /\ locks = [k \in Key |-> FreeEntry]
        /\ pending = << >>

\* _request_lock, the test passed: the command goes to the log.
RequestLock(k, o, m) ==
    /\ Len(pending) < MaxPending
    /\ ~DetectDeadlock(locks, o, k)
    /\ pending' = Append(pending, [type |-> "lock.acquire", key |-> k, owner |-> o,
                                   mode |-> m, alone |-> pending = << >>])
    /\ UNCHANGED locks

\* _request_lock, the test failed: False to the caller and nothing else.
RefuseRequest(k, o) ==
    /\ Len(pending) < MaxPending
    /\ DetectDeadlock(locks, o, k)
    /\ UNCHANGED vars

\* release: no test, straight to the log, from anybody.
RequestRelease(k, o) ==
    /\ Len(pending) < MaxPending
    /\ pending' = Append(pending, [type |-> "lock.release", key |-> k, owner |-> o])
    /\ UNCHANGED locks

Applied(e, c) == IF c.type = "lock.acquire" THEN Acquire(e, c.owner, c.mode)
                 ELSE Release(e, c.owner)

\* apply_command, called by RaftNode._apply_entries with the next entry.
ApplyCommand ==
    /\ pending # << >>
    /\ LET c == Head(pending)
       IN locks' = [locks EXCEPT ![c.key] = Applied(@, c)]
    /\ pending' = Tail(pending)

\* The next command is the release of k by o.
ReleasesNow(k, o) ==
    /\ pending # << >>
    /\ Head(pending).type = "lock.release"
    /\ Head(pending).key = k
    /\ Head(pending).owner = o

\* The leader of a later term overwrites the unapplied end of the log.
Truncate ==
    /\ \E n \in 0..Len(pending) - 1 : pending' = SubSeq(pending, 1, n)
    /\ UNCHANGED locks

Request(k, o) == \/ \E m \in Mode : RequestLock(k, o, m)
                 \/ RefuseRequest(k, o)
                 \/ RequestRelease(k, o)

Next == \/ \E k \in Key, o \in Owner : Request(k, o)
        \/ ApplyCommand
        \/ Truncate

Spec == Init /\ [][Next]_vars

----------------------------------------------------------------------------
TypeOK == /\ locks \in [Key -> Entry]
          /\ pending \in Seq(Command)
          /\ Len(pending) <= MaxPending

(***************************************************************************)
(* Mode and holders tell the same story: a lock is free exactly when       *)
(* nobody holds it, and an exclusive lock has one holder.  They are        *)
(* separate fields, assigned in six places and read by _can_grant.         *)
(***************************************************************************)
Exclusion ==
    \A k \in Key : /\ locks[k].mode = "none" <=> locks[k].holders = {}
                   /\ locks[k].mode = "exclusive" => \E o \in Owner : locks[k].holders = {o}

(***************************************************************************)
(* Nobody is queued on a free lock: only a release looks at the queue, so  *)
(* such a waiter would wait for a release that never comes.                *)
(***************************************************************************)
WaitersHaveHolders ==
    \A k \in Key : locks[k].queue # << >> => locks[k].holders # {}

\* A waiter is queued once: `(owner, mode) not in wait_queue` and the
\* filters of _apply_acquire and _grant_waiters keep it so.
QueuedOnce ==
    \A k \in Key : \A i, j \in 1..Len(locks[k].queue) :
        locks[k].queue[i] = locks[k].queue[j] => i = j

(***************************************************************************)
(* A holder stays one, and in the mode it has (or a stronger one), until   *)
(* its own release is applied: no request of another owner, no handover    *)
(* and no truncation of the log takes a granted lock away.                 *)
(***************************************************************************)
KeepsHolders ==
    \A k \in Key : \A o \in locks[k].holders :
        \/ /\ o \in locks'[k].holders
           /\ locks[k].mode = "exclusive" => locks'[k].mode = "exclusive"
        \/ ReleasesNow(k, o)

OnlyReleaseRevokes == [][KeepsHolders]_locks

\* The rights the table gives its clients.
RightOf(e, o) == IF o \in e.holders THEN e.mode ELSE "none"

Abstract == INSTANCE ReadersWriter WITH
                right <- [k \in Key |-> [o \in Owner |-> RightOf(locks[k], o)]]

\* The table is a readers-writer lock per key: what a command does to it is
\* a grant or a release of the abstract specification, or not visible there.
ImplementsReadersWriter == Abstract!Spec

(***************************************************************************)
(* When the last holder leaves, the lock goes to the front of the queue:   *)
(* the new holders are the owners of its first waiters, the rest keeps its *)
(* order, and it starts with a waiter that is kept out, so nobody who can  *)
(* be let in with them is left behind.  The loop of _grant_waiters and the *)
(* filter after it run over mixed requests, some of the same owner.        *)
(***************************************************************************)
HandoverServesFront ==
    \A k \in Key, o \in Owner :
        (ApplyCommand /\ ReleasesNow(k, o) /\ locks[k].holders \subseteq {o}) =>
            LET q == locks[k].queue
                e == locks'[k]
            IN /\ \E n \in 0..Len(q) : /\ e.holders = {q[i].owner : i \in 1..n}
                                       /\ e.queue = SubSeq(q, n + 1, Len(q))
               /\ e.queue # << >> =>
                      ~CanGrant(e, Head(e.queue).owner, Head(e.queue).mode)

HandoverInOrder == [][HandoverServesFront]_locks

(***************************************************************************)
(* A waiter leaves the queue only when its owner holds the lock, and until *)
(* then nobody comes in front of it: no request, retry, release or         *)
(* handover, of anybody, drops a waiter or lets another one jump the queue. *)
(* (Readers who are granted at once do not queue.)                         *)
(***************************************************************************)
KeepsPlace ==
    \A k \in Key : \A i \in 1..Len(locks[k].queue) :
        LET q == locks[k].queue
            r == locks'[k].queue
        IN \/ q[i].owner \in locks'[k].holders
           \/ \E n \in 1..Len(r) :
                 /\ r[n] = q[i]
                 /\ \A m \in 1..n-1 : \E j \in 1..i-1 : r[m] = q[j]

WaitersKeepPlace == [][KeepsPlace]_locks

(***************************************************************************)
(* Owners wait for each other in a circle.  docs/architecture.md promises  *)
(* deadlock detection; LockConcurrent.cfg shows a circle.                  *)
(***************************************************************************)
NoWaitCycle ==
    LET graph == WaitGraph(locks)
    IN \A e \in graph.edge : e[1] \notin Reachable(graph, e[2])

\* The next command is an acquire tested on an older table than it meets.
TestIsStale ==
    /\ pending # << >>
    /\ Head(pending).type = "lock.acquire"
    /\ ~Head(pending).alone

\* The step makes an owner a holder that goes on waiting, here or elsewhere.
WaiterMadeHolder ==
    \E k \in Key, o \in Owner :
        /\ o \in locks'[k].holders \ locks[k].holders
        /\ \E j \in Key : o \in QueuedOwners(locks'[j])

(***************************************************************************)
(* What the deadlock test is worth.  A circle closes for two reasons only: *)
(* the command was tested on a table that has changed since, or it lets in *)
(* an owner that waits elsewhere, for whom nobody tests the waiters that   *)
(* have it as a holder from now on.  A request that queues up, tested on   *)
(* the table it is applied to, never closes one, nor does a release.       *)
(***************************************************************************)
CircleNeedsCause ==
    (~TestIsStale /\ ~WaiterMadeHolder /\ NoWaitCycle) => NoWaitCycle'

CircleHasCause == [][CircleNeedsCause]_locks
============================================================================
