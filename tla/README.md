# Verification of the distributed-sync-system

TLA+ models, TLC runs and TLAPS proofs for the Python program under
`distributed-sync-system/` of this repository: a Raft-based lock manager, a
replicated work queue over Redis and a MESI-like cache over Redis, three
clusters of asyncio processes that share one message bus.

Paths below are relative to `src/distributed-sync-system/` (so `nodes/` stands
for `src/distributed-sync-system/src/nodes/`, and so on). `PROJECT.json` maps
every definition that models code to its source lines.

Contents: [1 inventory](#1-the-system) · [2 modules](#2-modules) ·
[3 runs](#3-runs) · [4 fairness](#4-fairness) · [5 proofs](#5-proofs) ·
[6 where code and documents disagree](#6-where-the-code-and-its-documents-disagree) ·
[7 what is left out](#7-what-is-left-out) · [8 plan](#8-plan) ·
[9 how to run](#9-how-to-run)

## 1 The system

| Component | State it keeps | Operations | Interacts with |
|---|---|---|---|
| Raft consensus, `consensus/raft.py` | `current_term`, `voted_for`, `state`, `log`, `commit_index`, `last_applied`, `_next_index`, `_match_index`; a copy of term, vote, log and commit index in Redis | `replicate`, election timer and `_start_election`, heartbeat task and `_replicate_all`, handlers of `raft.request_vote` and `raft.append_entries`, `_load_state`/`_persist_state` | other Raft nodes over the bus; `apply_callback` into the lock manager; Redis |
| Lock manager, `nodes/lock_manager.py` | `_locks`: per key a mode, holders and a wait queue; a cache of the leader | `acquire_shared`, `acquire_exclusive`, `release`, `apply_command`, deadlock detection, forwarding to the leader | hands commands to `RaftNode.replicate`, receives them from `_apply_entries` |
| Queue node, `nodes/queue_node.py` | nothing of its own but the hash ring and in-memory metadata; per queue a ready list, an in-flight hash and a payload hash in Redis; the membership set | `enqueue`, `dequeue`, `ack`, each with failover over the replicas; `recover_expired` in `_recovery_loop`; `start`, `stop` | Redis, shared by all nodes; remote calls over the bus |
| Cache node, `nodes/cache_node.py` | up to `capacity` entries with a MESI state and a version; the hash ring; values and versions in Redis; the membership set | `get` and `put` with forwarding to the owner, `invalidate`, eviction (LRU or LFU), `refresh_membership`, `start`, `stop` | Redis, shared by all nodes; forwards and invalidations over the bus |
| Hash ring, `utils/consistent_hash.py` | sorted virtual nodes | `set_nodes`, `get_node`, `get_nodes` | queue (replicas of a queue) and cache (owner of a key) |
| Message bus, `communication/message_passing.py` | handlers, blocked targets, role of each token | `send`, `_handle_request`, `block`/`unblock` | everything |
| Base node, entry point, configuration, metrics, failure detector | wiring | read the environment, start and stop | everything |
| Demo, benchmarks, deployment files | none | clients of the above | outside the program |

### What is hard about it

Every process is one asyncio event loop: nothing runs in parallel inside it, and
everything may run at every `await`. State read before an `await` is stale
after it. In `raft.py` every handler awaits a write to Redis between changing
the term and deciding on it; `_start_election`, `_replicate_all` and
`replicate` await the answers of all peers while handlers go on changing the
state they will look at afterwards. `_request_lock` tests for deadlock, then
awaits replication. The queue has no locks at all: any number of nodes issue
single Redis commands against the same three structures, and a message changes
hands between them. A cache write is two Redis commands, a store into the
owner's cache and a round of invalidations, with other reads and writes of the
key in between; and every node forwards by its own idea of the ring. The bus is HTTP with a timeout: a request may be lost, or
carried out although the caller sees an error, which then tries another node.

`PROJECT.json` lists the hazards at their lines, with the properties that would
catch each one going wrong.

### What makes each part correct

- **Locks**: an exclusive holder is alone; nobody loses a lock but by his own
  release; a waiter waits for somebody, keeps its place and gets the lock when
  those before it had it; owners do not wait in a circle (the deadlock test is
  there for that, and does not always succeed: section 6).
- **Deadlock search**: refuses exactly when the search meets a cycle, whatever
  order Python's sets are iterated in.
- **Raft**: one vote per node and term, across restarts too; one leader per term; all nodes apply
  the same entries in the same order; `True` from `replicate` means that the
  command will be applied everywhere.
- **Queue**: at-least-once delivery: an accepted, unacknowledged message is not
  lost, is delivered, and comes back when its receiver does not acknowledge it;
  not before the visibility timeout.
- **Cache**: no stale copy stays after the writer's invalidation was delivered;
  forwarding ends; the cache stays within its capacity.
- **Hash ring**: `get_node` and `get_nodes` agree; replicas are different nodes; a
  node that leaves takes only its own keys with it.

## 2 Modules

| Module | What it is |
|---|---|
| `LockTable` | The lock table as pure operators: `_can_grant`, `_apply_acquire`, `_apply_release`, `_grant_waiters`, the wait graph and the meaning of the deadlock test |
| `LockManager` | The lock manager on the leader: requests, the log between test and application, truncation. Composes `LockTable` with an abstraction of Raft |
| `ReadersWriter` | Abstract specification: one readers-writer lock per key. `LockManager` implements it |
| `WaitGraphSearch` | The depth-first search `_has_cycle`, frame by frame, against `LockTable!CycleFrom` |
| `Raft` | `RaftNode` in its cluster, without restarts |
| `RaftStorage` | One `RaftNode`, its image in Redis and its restarts; the rest of the cluster is open |
| `HashRing` | `ConsistentHashRing` as operators on a set of nodes |
| `Queue` | The queue nodes over one queue in Redis. Takes its replicas from `HashRing` |
| `AtLeastOnce` | Abstract specification: a queue that owes a message until it is acknowledged. `Queue` implements it |
| `Cache` | The cache nodes over Redis. Takes the owner of a key from `HashRing` |
| `Reachability` | What a node of a graph leads to, by closed sets; `LockTable!CycleFrom` is stated with it |
| `LockManagerProofs`, `WaitGraphSearchProofs`, `RaftProofs`, `RaftStorageProofs`, `HashRingProofs`, `QueueProofs`, `CacheProofs`, `Basics` | Theorems; the last has the lemmas on least and greatest numbers and on graphs the others need |
| `MCLockManager`, `MCWaitGraphSearch`, `MCRaft`, `MCRaftStorage`, `MCQueue`, `MCCache` | Symmetry sets, rings, fault sets and state constraints for TLC |

Operators introduced by a comment `Slip:` are mistaken variants of the
definition that follows them. No specification uses them. Put in the place of
that definition, each makes TLC find one of the properties violated, which
shows that the property depends on the code it is about (`mutants` in
`PROJECT.json`).

### LockTable, LockManager, WaitGraphSearch

`locks[k]` is `_locks[k]`: `mode` (`"none"` is Python's `None`), `holders`, and
`queue` for `wait_queue`. A missing key behaves as the default `LockEntry()`,
so the table is total. The loops of `_grant_waiters` and the list
comprehensions are written by what they compute: `Granted(q)` is the set of
waiters the loop admits (a prefix of the queue), `Without(q, S)` the rest in
order.

`pending` is the part of the leader's Raft log that is not applied. A request
appends to it, after the deadlock test, at once: what happens between the
append and `apply_command` is module `Raft`. `ApplyCommand` is
`apply_command` called by `_apply_entries`; `Truncate` is what a new leader may
do to entries that are not committed. `release` is not tested and is accepted
from anybody, as the handler does.

Every owner may send anything at any time. The answer `True` means that the
command is committed; it is the same for an owner that was let in and for one
that was queued (`_request_lock`, `_apply_acquire`), no call blocks until the lock
is held, and no message tells a client that it holds it. So a client that waits for every answer goes on
sending while it is queued, as `scripts/demo.py:159-160` does with its release,
and the model keeps nobody from it. `alone`, a history field of an acquire, says that nothing
was in the log when its request was tested.

`CycleFrom(graph, start)`, what the deadlock test means, says that an edge which
start leads to lies on a cycle. `Reachable` is defined by closed sets and not by
the recursive `ConnectionsIn` of the community modules, so that it can be proved
about; the two definitions of `CycleFrom` were compared once on all 65 536 graphs
of four owners.

The refinement mapping to `ReadersWriter` gives owner `o` the right
`RightOf(locks[k], o)`: the mode of the lock if it is a holder, none otherwise.

### Raft

One step is what one coroutine does between two awaits.

| Code | Actions |
|---|---|
| `_election_loop`, `_start_election` | `StartElection` (up to the write), `AskForVotes` (payloads built, `gather` called), `CountVotes` (after `gather`, with `_become_leader` or `_step_down`) |
| `_handle_request_vote` | `VoteArrives`, and `VoteResumes` after each of its two awaits |
| `_handle_append_entries` | `AppendArrives`, and `AppendResumes` after each of its two awaits |
| `_run_heartbeat` | `Heartbeat`, `HeartbeatDone` |
| `replicate`, `_advance_commit_index` | `Replicate`, `ReplicateDone` |
| `_replicate_all`, `_replicate_to_peer` | `SendAppends`, `TakeReply`, `RoundStepsDown` |
| `_apply_entries` | inside `Commit`: it never suspends on the way |
| `bus.send` | `requests` (a set: any order), `CallFails` |

A handler that is suspended is a member of `handlers` with the place it will
resume at. The election timer is not paced: an election may start at any time,
on the leader too, since the timer of the code runs there and nothing resets
it. A run of `_replicate_all` (a *round*) belongs to a heartbeat task or to a
`replicate` call; its children take their responses in any order. Two history
variables, `ballots` and `won`, record the votes cast and the elections won
whose own vote, requests and count all took place in one term.

The write to Redis is a point of suspension and nothing else: without restarts
nobody reads it. What it is for is `RaftStorage`.

### RaftStorage

| Code | State and actions |
|---|---|
| `current_term`, `voted_for`, `log`; the hash `raft:<node_id>:state` | `mem`; `disk` |
| `_persist_state` (`consensus/raft.py:276`) | `Persist` takes the image and suspends the coroutine, `Land` is Redis executing it, `Resume` or `Promise` what follows |
| `_handle_request_vote`, `_handle_append_entries`, `_step_down`, `_start_election`, `replicate` | `RequestVote`, `AppendEntries`, `StepDown`, `StartElection`, `Replicate` |
| `start`, `_load_state` | `Start` (handlers registered, `hgetall` sent), `Read`, `Load` |
| `stop`, or the process dies | `Crash`: of the writes under way any may have landed, in any order |

A coroutine in `tasks` carries the image it is writing. Redis' client takes a
connection from a pool per command, so two writes under way may land in either
order: `older` and `passed` remember the order of issue, `behind` that the disk
holds less than it once did. `promises` are the votes that left the node: a
granted answer, or the requests of its own candidacy with the vote it counts for
itself. Both say `current_term` as it is when they leave, after the write; the term
the vote was written with is kept beside it as `written`. Which node is leader, how
up to date a candidate is and what a log contains do not matter to what is
remembered, so they are left open; every behaviour of a node in `Raft` is one
of `RaftStorage` as far as these are concerned.

`forgot` says that the node did one of the two things that make it forget:
handled a request before `_load_state` returned, or restarted on an image that
a later one had overtaken. The properties speak of nodes that did not (and the
run stops there, by the constraint `NothingForgotten`); what follows otherwise
is in section 6.

### HashRing

A ring is the set of nodes it was built from (`set_nodes` replaces all). `Points`
gives each node its virtual nodes, `KeyHash` or `QueueHash` a key its hash; MD5
is not modelled, and no two virtual nodes are taken to collide. `GetNode` is the
`bisect` and its wrap around to index 0, over `RingKeys`. The walk of
`get_nodes` around the circle, which keeps each node it meets for the first time,
is written by what it computes: the nodes in the order of their distance
`Reach`.

### Queue

The replicas a node tries are `GetNodes` of its own view of the members.
`ready`, `inflight`, `payloads` and `members` are the Redis structures; every
Redis command is one step. A *call* is a client's request on a node, going
through the replicas; a *job* is the operation carried out on one node. They
are separate because a lost response ends the attempt but not the job.
`recovery[n]` is `_recovery_loop` at the command it is about to send. Time is
kept as the age of each stamp, up to the age at which it no longer matters;
`lag` is the time that passed between a coroutine's reading of the clock and
its use.

The faults are failed and half-failed sends, exceptions of Redis (which end
the recovery task of a node for good: only `CancelledError` is caught), orderly
stops and crashes of nodes; all are in one instance at the same time. Redis
itself does not lose data.

A step that goes by several names in the code (`_enqueue_replica` for a local
and a remote call) is one action here.

The refinement mapping to `AtLeastOnce` takes as `pending`, what the queue owes, the
messages with a payload that are `Kept` (ready, marked, or in the hands of a coroutine
between two commands) and neither acknowledged nor dropped. An `rpush` of an enqueue is
`Put`, the `hget` of a dequeue `Hand`, a client's request to acknowledge `Ask`; what ends a
coroutine is `Lose`, of what it had in hand; all other steps stutter. `Lose` is allowed only
where a Redis command may raise or a node halt: lost responses and retries lose nothing.

### Cache

| Code | Actions |
|---|---|
| `get`: hit, forward, miss | `Hit`, `Forward`, `Miss` |
| `_read_store` (two `hget`), the new entry | `ReadStore` (twice), `Fill` |
| `put`: forward; version from the clock | `Forward`, `TakeVersion` |
| `_write_store` (two `hset`), the new entry | `WriteValue`, `WriteVersion`, `StoreWritten` |
| `_broadcast_invalidate`, `invalidate` | `Invalidate`, one call at a time in any order |
| `_ensure_capacity`, `_select_victim` | `RoomIn`, inside `StoreEntry`: nothing awaits on the way |
| `refresh_membership` | `Refresh` |
| `stop`; crash; `start` | `Leave` then `Halt`; `Halt`; `Start` then `Register` |

An *op* is one `get` or `put` wherever it is executed: a forward moves it to
another node, since the forwarding node changes nothing afterwards. What the call
returns is not modelled. Versions are clock readings (`int(time.time() * 1000)`),
and the clock may stand still between two of them.

Two pieces of history say which copies may be stale. A write that changes the
store puts every node with a valid copy in `owed`; storing what the write wrote,
or an invalidation that arrives, takes a node out; eviction too. An op is `late`
when another write of its key reached the store after the op read the value or
took its version. What a late op stores stays in `owed`, and the invalidations
of a late put take nothing out, since they may be of an earlier version than the
copies they meet.

## 3 Runs

All runs together take about ten minutes with two workers.

| Run | Instance | Distinct states | Shows |
|---|---|---|---|
| `locks` | 2 keys, 3 owners that send anything, 1 command pending, truncation | 47 991 | types, `Exclusion`, `WaitersHaveHolders`, `OnlyReleaseRevokes`, `HandoverInOrder`, `WaitersKeepPlace`, `CircleHasCause`, and that `LockManager` implements `ReadersWriter` |
| `lock_concurrent` | 2 keys, 2 owners that wait for their answers and send nothing while queued (`Polite`), 2 pending | - | *violation* of `NoWaitCycle` |
| `wait_graph_search` | all graphs on 4 owners | 105 761 | the search answers right (`AnswerIsRight`), and why it may skip visited nodes (`LeftNodesAreClean`) |
| `raft_election` | 3 nodes, terms 1 and 2, heartbeats, two nodes that start elections, calls to the third fail | 1 025 858 | `OneBallotPerTerm`, `OneWinnerPerTerm`, `VoteOnce`, and `ElectionInv`, the invariant of the proof |
| `raft_one_leader` | 3 nodes, 2 commands, term 1, calls to one node fail | 766 300 | `Agreement`, `FollowersHoldPrefix` |
| `raft_storage` | one node, 2 other candidates, terms to 2, 2 logs, 2 coroutines that write, crashes | 493 046 | `OnePromisePerTerm`, `AtRest` |
| `raft_stale_votes` | 3 nodes, 2 terms, no failing calls | - | *violation* of `ElectionSafety` |
| `raft_false_success` | 2 nodes, 2 commands, heartbeats, no failing calls, `FairSpec` | - | *violation* of `SuccessReachesAll` with two calls at a time |
| `queue_faults` | 2 nodes, 1 message, 1 client, 2 jobs at a time, 2 faults of any kind | 1 850 148 | types, `OnlyHoldersLose`, that `Queue` implements `AtLeastOnce` |
| `queue_calm` | 1 node, 2 messages, 2 clients, no faults, `FairSpec` | 171 743 | `NoLeak`, `VisibilityRespected`, `AcceptedIsDelivered` |
| `queue_stranded` | 1 node, 2 messages, 1 client, no faults, `FairSpec` | - | *violation* of `UnackedReturns` |
| `cache` | 2 nodes, 1 key, 2 values, 2 ops at a time, 1 fault of any kind, clock 0 and 1 | 2 084 598 | `StaleOnlyIfOwed`, `ForwardsDescend` |

### Bounds, and why they are enough to be interesting

- **Locks.** Keys do not influence each other except in the deadlock test, so two
  keys serve for the table and for circles. Three owners: a holder, a waiter
  and somebody to overtake it; two holders and an upgrade, and an owner queued in
  both modes or on both keys. `MaxPending` bounds the log; with 1, the next request is tested
  against a table with nothing in flight, which is the case in which the deadlock test
  is at its best, and with 2 the test can be out of date (`lock_concurrent`; the
  theorems hold for any bound).
- **Search.** Four owners have every shape of path that leads into a cycle and
  past it, up to names.
- **Raft.** `MaxTerm` bounds the elections. Two terms are needed for anything stale
  to exist. One term and a leader is where requests, responses and calls
  overtake each other. With three nodes a quorum is two, so one node may lag
  behind or be unreachable; `Flaky` names the nodes that calls may fail to
  reach, `Starters` those whose election timer fires: all of them, but in
  `raft_election`, where two compete for the votes of all three and the third
  is the one that is hard to reach. `MaxCalls` bounds how many heartbeats of one
  node still have requests under way; with 1 heartbeats go on without end, each
  after the requests of the last were received.
- **Raft storage.** Two coroutines are what a write overtaken by another needs, two
  candidates and two terms what a second vote needs. `MaxTerm` and `Task` are
  the bounds; there is none on the number of crashes.
- **Cache.** Two ops of one key meet in all orders: two puts, a get and a put, on
  the owner or on two nodes that each take themselves for it. The points make
  the key's walk pass the end of the circle. `Slot` bounds the ops at a time,
  `MaxClock` = 1 gives versions that are equal or apart, `MaxFaults` = 1 one lost
  call, Redis error, stop or crash (a restart is free). With one key nothing is
  evicted for another: capacity is a theorem.
- **Queue.** Two nodes are what failover and recovery by several nodes need. One
  message is enough for loss, duplicated by lost responses; two messages and
  two clients for order and for the visibility of one while another moves.
  `MaxJobs` = 2 lets two coroutines meet anywhere. `MaxFaults` bounds how much
  goes wrong in all: with 2, a fault may hit what an earlier one left behind.
  `MaxLag` is the time that passes inside one operation, 0 or 1 second against
  a timeout of 1. `MaxReady` stops the clock while the ready list is longer,
  so that repeated recoveries of the same message do not make it grow without
  end; in all runs it is at least the number of messages.

Larger instances have been checked once and found no difference: elections,
without heartbeats, in which all three nodes are candidates and calls to all of
them fail (4.5 million states); the properties of `locks` with two owners and
two commands pending (10 267 states); `Agreement` and `FollowersHoldPrefix` with two
nodes, heartbeats and failing calls; `OnlyHoldersLose` with any number of
failing sends and one failure of Redis or of a node (9.4 million states); the cache with
two keys and no faults (1.3 million states).

`CHECK_DEADLOCK FALSE` is set for the Raft runs, because no election starts after
`MaxTerm`, and for the search, which ends with its answer. The lock, queue, cache and storage
runs check for deadlock.

## 4 Fairness

- **`Raft!FairSpec`**: weak fairness per node of "some coroutine of this node that
  can run does, or a request that has arrived is handled": the event loop does
  not stop. Which coroutine runs is not said. It is stated for `Flaky = {}`.
  No election and no client call is made to happen.
- **`LockManager`, `RaftStorage` and `Cache`** state no fairness: their properties are of
  safety. That a waiter is granted some day is not claimed: nothing makes the
  commit index move but the next `replicate`, a client cannot tell that it holds a
  lock it should release, readers may starve a writer (`_can_grant` lets a reader join readers
  whoever is queued), and a release may leave a grantable waiter alone (section 6).
- **`Queue!FairSpec`**: jobs, calls and recovery loops go on (weakly fair, each is a
  coroutine that is always ready), the clock ticks, and clients keep asking for
  messages (strong, for all of them together: a client is not always idle). No
  acknowledgement is made to happen.

## 5 Proofs

TLAPS (tlapm with Z3, Zenon and LS4) checks every leaf. The theorems hold for any
sets of keys, owners, nodes and commands and all bounds, from the assumptions
the modules state: `MaxPendingAssumption`;
`NodeAssumption` (a finite non-empty cluster, `None` not a node),
`CommandAssumption`, `BoundsAssumption`; `NamesAssumption` of `RaftStorage`;
`NodesAssumption` and `PointsAssumption` of `HashRing` (finitely many nodes, each
with virtual nodes of its own); `SizesAssumption`, `NoneAssumption`, `FaultsAssumption` of
`Queue` (a positive timeout, `None` neither a name nor an age, a node that may halt
may do so before it answers); `KeysAssumption`, `LimitsAssumption` of `Cache`.

| Theorem | States |
|---|---|
| `LockManagerProofs!TypeCorrect` | `Spec => []TypeOK` |
| `LockManagerProofs!MutualExclusion` | `Spec => []Exclusion` |
| `LockManagerProofs!NoOrphanedWaiter` | `Spec => []WaitersHaveHolders` |
| `LockManagerProofs!NobodyQueuedTwice` | `Spec => []QueuedOnce` |
| `LockManagerProofs!HoldersAreSafe` | `Spec => OnlyReleaseRevokes` |
| `LockManagerProofs!Refinement` | `Spec => ImplementsReadersWriter` |
| `LockManagerProofs!HandoverIsFair` | `Spec => HandoverInOrder` |
| `LockManagerProofs!NobodyJumpsTheQueue` | `Spec => WaitersKeepPlace` |
| `LockManagerProofs!CirclesHaveCauses` | `Spec => CircleHasCause` |
| `WaitGraphSearchProofs!TypeCorrect` | `Spec => []TypeOK` |
| `WaitGraphSearchProofs!SearchIsRight` | `Spec => []AnswerIsRight` |
| `WaitGraphSearchProofs!LeftStayClean` | `Spec => []LeftNodesAreClean` |
| `RaftProofs!TypeCorrect` | `Spec => []TypeOK` |
| `RaftProofs!VotesAreKept` | `Spec => VoteOnce` |
| `RaftProofs!ElectionInvariant` | `Spec => []ElectionInv` |
| `RaftProofs!SingleBallots` | `Spec => []OneBallotPerTerm` |
| `RaftProofs!SingleWinner` | `Spec => []OneWinnerPerTerm` |
| `RaftProofs!OneLeaderAgrees` | `Spec /\ []OnlyLeads(L) => [](Agreement /\ FollowersHoldPrefix)`, for every node `L` |
| `RaftProofs!FirstTermAgrees` | `Spec => []Agreement`, for `MaxTerm = 1` |
| `RaftProofs!FirstTermPrefixes` | `Spec => []FollowersHoldPrefix`, for `MaxTerm = 1` |
| `RaftStorageProofs!TypeCorrect` | `Spec => []TypeOK` |
| `RaftStorageProofs!OneVoteATerm` | `Spec => []OnePromisePerTerm` |
| `RaftStorageProofs!RedisIsCurrent` | `Spec => []AtRest` |
| `HashRingProofs!NearestOwns` | `get_node` names the node that is first on the walk from the key |
| `HashRingProofs!LeavingMovesOnlyOwnKeys` | a key whose owner stays in the ring keeps its owner |
| `HashRingProofs!ForwardingDescends` | the owner a node takes for a key, other than itself, is nearer to the key |
| `HashRingProofs!ReplicasDiffer` | `get_nodes` names different nodes, nearest first, as many as asked for or all |
| `QueueProofs!TypeCorrect` | `Spec => []TypeOK` |
| `QueueProofs!NothingIsLost` | `Spec => []OnlyHoldersLose` |
| `QueueProofs!Refinement` | `Spec => ImplementsAtLeastOnce` |
| `QueueProofs!PayloadsDoNotLeak` | `Spec => []NoLeak`, for `Faults = {}` |
| `QueueProofs!MessagesStayHidden` | `Spec => VisibilityRespected`, for one node and `Faults = {}` |
| `CacheProofs!TypeCorrect` | `Spec => []TypeOK` |
| `CacheProofs!ForwardingEnds` | `Spec => ForwardsDescend` |
| `CacheProofs!StaleCopiesAreOwed` | `Spec => []StaleOnlyIfOwed` |
| `CacheProofs!CapacityHolds` | `Spec => []CapacityKept` |

**Locks.** The invariant is `TableInv`: types, and for every entry `Sound`, which
says at once that mode and holders agree and that a queue has holders before
it. Neither half is inductive alone: `_apply_release` relies on the holders to
decide whether anybody is woken up, and `_can_grant` on the mode to decide who
may enter. `AcquireKeeps`, `GrantWaitersSound` and `ReleaseKeeps` say of each
operator that it keeps an entry sound and what it does to the holders; the
steps of the specification then follow case by case. That the handover leaves
somebody in charge whenever somebody was queued rests on the first waiter
being always grantable; that it admits one exclusive owner or several shared
ones, on the prefix the loop grants. `Refinement` maps an applied acquire to `Grant`, a
release by a holder to `Release`, a release by anybody else and all other steps
to stuttering or, when nothing changes, to `Grant` of nothing.

`HandoverIsFair` and `NobodyJumpsTheQueue` rest on `Once`, that no owner is queued twice in
one mode: the filters of `_apply_acquire` and `_grant_waiters` take out every copy of what they
take out. With it, what `_grant_waiters` lets in is a prefix of the queue
(`GrantWaitersFront`) and the filter leaves the rest in its order (`WithoutFront`,
`WithoutOrder`).

`CirclesHaveCauses` rests on `FreshTests`: a request that was tested with nothing in the log is
at its front until it is applied, and the table is the one it was tested on. There are two ways then
for the wait graph to change. A lock that is granted or given back leaves edges of before and edges that lead
to the new holders; these wait for nothing, or the step is a `WaiterMadeHolder`, so they
close no cycle (`AddSinks`). An owner that queues up adds edges from itself, which close a
cycle only if the test would have seen it (`AddSource`). That the first cause is real is
`lock_concurrent`; the second is described in section 6.

**Search.** `SearchInv` says that the frames are a path from start of different
nodes (`IsPath`), that a call has only left nodes after it besides the one it is visiting
(`Processed`), and what the answer means (`Ends`); with these `LeftNodesAreClean` is
inductive: when a call ends, its node and the left nodes are closed under edges, so a
cycle through it would have to go through the path, where the search would
have met it. At the end every node start leads to has been left, and is clean.

**Raft.** `ElectionInv` is the conjunction of

- `BallotInv`: a ballot is of a term not later than the voter's, and one of its
  current term is its `voted_for`;
- `OneBallotPerTerm`;
- `AnswerInv`: a candidate that is busy has a ballot for itself in the term it
  started in, and each granted answer it holds stands for a ballot cast between
  the term it asked for and the term answered;
- `HandlerInv`: the same for a handler about to answer, and a handler suspended
  in `_step_down` is not ahead of its node's term;
- `WonInv`: who won has ballots of that term from a quorum.

`OneBallotPerTerm` alone is not inductive: it needs `BallotInv`, which ties the
history to `voted_for`. That a handler resumes in a *later* term than it
was suspended in is why a granted answer stands for a ballot "between" two
terms, and why `won` only counts elections that stay in their term: those need
answers of exactly that term, since `CountVotes` steps down for a higher one.
`OneWinnerPerTerm` follows from `WonInv` and `OneBallotPerTerm`, two quorums
having a node in common by the cardinality theorems of the library.

`OneLeaderInv(L)` is about replication while no node but `L` leads (`OnlyLeads`): rounds
run on `L` only (`RoundsAt`), every append request on its way or in the hands of a handler carries
a piece of the log of `L` (`AppendsFrom`), and the log of each node and what it has
applied begin that log (`LogsBegin`). The log of `L` only grows, because nobody sends to `L`; that
is why a late request is still a piece of it, and why a handler that cuts the log
of its node back to an older state does not break the prefix. Terms do not occur in it, so
`OneLeaderAgrees` holds for any number of elections that `L` wins. What it assumes is the
thing the code does not guarantee in general: `raft_stale_votes` has two leaders. In the first
term it does: `OneTermInv` says that whoever leads is among the winners, and the winner is one
by `SingleWinner`. That gives `FirstTermAgrees` and `FirstTermPrefixes` without the
assumption. For later terms with several leaders the two properties are not claimed.

**Raft storage.** `StorageInv` is types and, as long as nothing was forgotten,

- `Agreed`: the votes that left or are about to are one per term, as far as they left
  in the term they were written in (`Given`); `Grown`: the others left in a later one;
- `Remembered`: the memory of a running node knows all of them and is not below
  any image being written, where *below* means an earlier term, or the same term
  with no vote yet or the same vote;
- `Ordered`: the writes under way were issued in an order in which images only
  move up;
- `Kept`: Redis knows each vote whose write has landed, unless it is `behind`, and
  so does each write under way that was not overtaken;
- `Restarts`: a node that is not up has no memory and no coroutines, and loads
  what is in Redis;
- `Current`: the last write, or Redis when there is none, has the state of the node.

The vote is safe because it leaves after its write has landed (`Kept` speaks of
votes in images that landed, `Agreed` of all). A vote that leaves in a later term than it was written in is not
one of them: nothing was written for that term, and the property allows it. A crash keeps `Kept`: the disk it
leaves is the one there was or an image that was not overtaken; the other
case is what `forgot` excludes.

**Hash ring.** The positions on the circle are at different distances from a key's
hash (`TurnIs`), hence so are the nodes (`ReachDiffers`). The two cases of
`bisect`, at the end of the list or not, both give the nearest virtual node
(`NearestOwns`); the other theorems follow from distances alone. For
`ReplicasDiffer`, the ranks of the nodes of a ring on the walk are different
numbers up to the number of nodes, so by the pigeonhole theorem each is taken.

**Queue.** `TypeInv` adds to the types that a call and the job it waits for know
each other (`Waits`, `Linked`), and that a call whose replicas have run out waits for
a job on its own node: so a remote attempt that fails has a replica to go on from
(`Tail` of a list that is not empty). `OnlyHoldersLose` is not inductive.
That no payload and no mark is taken away too early rests on who does it: an `ack`
somebody asked for, or a dequeue that found no payload, deletes the mark whoever
set it (`queue_node.py:192`). So `LossInv` adds `Known`, a message that is around
anywhere (also in a snapshot of `recover_expired` or in a job about to read the
payload) has its payload or has been acknowledged, and `Asked`, what acks and such
dequeues work on has been acknowledged. A step then *loses nothing* when the
history only grows, each message kept stays kept, dropped or acknowledged, and what
comes to be around was around before; `OneJobActs` and `OneLoopActs` say what one
coroutine can change about the others, whose hands stay full.

`Refinement` says more than `OnlyHoldersLose`: a message that was put is owed even when its enqueue
never returned, and nothing comes back that the queue did not owe. What is
owed is told from what is not by `OwedInv`: whatever a coroutine still goes on with (a snapshot
of expired marks, a job about to read the payload) is kept, lost or acknowledged.
Without it `TakeBack`, which removes a mark whoever set it, could make a message
ready out of nothing. `PendingStep` then computes `pending` after any step from the messages it puts,
and each action is one of the abstract ones or a stutter.

`NoLeak` without faults needs more (`CalmInv`). A dequeue that finds no payload takes away the
mark whoever set it, and would leak the payload if one had been stored since it looked
(`GivesUp`). That none is rests on the payload being stored once: the enqueue that stores
it is the only one of its message and has not returned (`Fresh`), whereas the message of
the dequeue has been accepted (`SeenAccepted`, with `Known` and `Asked`). With lost responses
`SeenAccepted` does not hold: a message may be delivered while its enqueue, not answered, is
still to be tried again, so nothing is proved of `NoLeak` with faults.

`VisibilityRespected` on one node rests on a message being in one place at a time (`Apart`: once in the
ready list, or in the hands of one dequeue, or in those of the recovery loop, or marked), so that
nobody stamps it between the scan that found it expired and the next dequeue. `Aged` follows the
last stamp through these places: it is the mark, it is a timeout old when the scan takes it for
expired, and it grows with the lag of the dequeue that has popped the message
and has its own stamp still to write. With two recovery loops `Apart` does not hold: both may have
found the message expired.

**Cache.** A node is always in its own ring (part of `TypeOK`), so it forwards only
to a nearer one, whatever the other nodes' rings are: `ForwardsDescend` is
`ForwardingDescends` of the ring. `StaleInv` adds to `StaleOnlyIfOwed` that no
version is of the future (`Clocked`), that an op not overtaken has the value of
the store in hand (`ValuesInHand`), and that a write not overtaken has a version
no entry, no field of Redis and no op that may still write either exceeds
(`LastVersion`). The last is what makes its invalidations effective: `invalidate`
leaves entries of a later version alone, and an entry it left alone would be
taken out of `owed` although it is stale. `CapacityHolds` rests on the room being
made and used in one step.

`Basics` proves that a non-empty set of naturals has a least element and a
finite one a greatest. `NthIndex` (the filtering of queues), `QuorumIndex` and
the ring's `Least` are `CHOOSE`s that need them.

It also has the facts on `Reachable` (`ReachableSelf`, `AddSinks`, `AddSource`, ...) that the
search and the deadlock test need.

**Only model-checked.** `AcceptedIsDelivered`, since it needs fairness, which this prover
cannot do, and what the runs that expect a violation show, since a counterexample
is not a theorem.

## 6 Where the code and its documents disagree

1. `lock_concurrent`. `docs/architecture.md:7` promises deadlock detection.
   `_request_lock` (`nodes/lock_manager.py:52`) tests the applied table and then
   awaits replication. Two owners holding a key each and asking for the
   other's at the same time both pass, and wait for each other for good.
   The promise fails with one command in flight at a time too, and for clients that wait for every
   answer: o1 holds k1 and o3 holds k2; o2 asks for k1, then for k2, and is queued for
   both with `True`; o3 asks for k1 and is queued behind o2; o1 releases k1, which
   goes to o2, and now o2 and o3 wait for each other. Only requests are tested, and
   it was the handover that turned the wait of o3 for o1 into one for o2. What does hold is
   `CircleHasCause`: these two, a test on an outdated table and a lock let
   to an owner that is still queued, are the only causes of a circle (proved).
2. `raft_stale_votes`. `docs/architecture.md:7` rests the locks on Raft consensus,
   which has one leader per term. `_start_election` (`consensus/raft.py:129`)
   counts the votes it asked for in one term after its node may have moved to
   another, without comparing state and term: two leaders of one term. Among
   elections that stay in their term there is one winner (proved).
3. `raft_false_success`. `tests/unit/test_raft.py:85` and `:94` expect of a `True`
   from `replicate` that the command is applied on all nodes. `True` means
   that the commit index moved (`consensus/raft.py:81`); with two calls at a
   time one of them returns `True` for the other's entry, and its own is never
   committed, since only `replicate` advances the index. For a call on its own
   it holds: checked once, with three nodes and heartbeats (91 043 states).
4. `queue_stranded`. `docs/architecture.md:8` promises at-least-once delivery.
   `_list_queues` (`nodes/queue_node.py:209`) finds queues by their ready list, a key
   Redis removes with the last element. A message delivered last and never
   acknowledged does not come back until something else is enqueued.

Behaviour the models contain that no document contradicts: a node that stops or
meets a Redis error between `lpop` and `hset` (or inside `recover_expired`
between `hdel` and `rpush`) takes the message with it: `OnlyHoldersLose` names
exactly these as the only way to lose one. An append request overtaken by a
longer one cuts a follower's log back, even below the commit index of the
leader; under one leader later requests restore it.

A waiter that could have the lock may be left alone: `_grant_waiters` runs only when the last
holder leaves. When two readers hold a lock and the one of them that is queued for an upgrade is left by
the other, its request is at the front and grantable, and nobody looks at it (`nodes/lock_manager.py:83`)
until this owner asks again or releases. A request may also be dropped although it
was answered `True`: an owner that is let in takes all its entries out of the queue, the exclusive
one too when it is let in as a reader (`nodes/lock_manager.py:67`). And an owner that
has released a lock it was not given yet still gets it later, since a release leaves its queue entry
alone (`nodes/lock_manager.py:82`). `HandoverInOrder` and `WaitersKeepPlace` say what the queue
does guarantee.

A Raft node may vote twice in a term without a restart: the requests of an election, and a granted answer,
say the term the node has after the write of the vote (`consensus/raft.py:112` and `:192`). A
node that votes for another candidate in a term it was moved to while its own
candidacy was being written goes on to ask for votes in that same term and counts its own.

A restarted Raft node may vote twice in a term: `_load_state` overwrites the vote
it gave between the registration of its handlers and the answer of `hgetall`
(`consensus/raft.py:60`), and two writes of two coroutines may land in the order
opposite to the one of their images (`consensus/raft.py:288`). `OneVoteATerm` says
that these two and the one above are the only ways.

A cache node may serve a stale value after everything has come to rest, and without
any failure: a `get` stores what it read before its awaits over the entry of a
`put` that ran in between (`nodes/cache_node.py:81`), and of two puts of a key the
one that writes to Redis first may be the one that stores its entry last. A node
that joins is not told of invalidations by nodes that have not yet refreshed their
ring. `docs/deployment_guide.md:45` mentions staleness as a sign that nodes cannot
be reached; it promises nothing. `StaleOnlyIfOwed` says that there are no
others.

## 7 What is left out

- **Restart of a Raft node inside its cluster**: `RaftStorage` has the node and
  `Raft` the cluster; what two votes of one node do to an election is not
  followed. A write of `_persist_state` that raises is not modelled.
- **The pacing of the election timer**: elections start at any time here, which
  is more than the code does; nothing is shown about a leader being found.
- **Commands across terms**: runs with commands have one term. What a stale leader
  can do with entries is planned, with `SendAppends`' branch for a `next_index`
  beyond the log.
- **Lock manager over Raft in one model**, forwarding to the leader; `start` and `stop`
  of the lock node, which only start and stop Raft and the server.
- **Cache**: what a call returns; which valid entry LRU or LFU picks; clocks that
  differ between nodes (with them a later write may have an earlier version, and
  its invalidations do nothing); the time between `smembers` and `set_nodes` (no
  property depends on how a ring came about, as long as the node is in it).
  Liveness: an op may wait for a node that does not answer, up to the timeout of
  the bus.
- **Hash ring**: MD5, and virtual nodes that collide.
- **RBAC, TLS, configuration, metrics, base node, entry point**: static configuration
  and wiring. `failure_detector.py` is used by no node.
- **Data**: commands, payloads and queue names are model values. The queue's
  in-memory metadata is not read by anything modelled.
- **Several queues**: a queue has its own structures; recovery takes them one after
  the other, which adds time between steps and nothing else.

## 8 Plan

In this order, the most important first:

1. `Raft` with commands in two terms: entries of a stale leader, the majority's
   copies of a committed entry.
2. `LockService`: `Raft` and one `LockTable` per node, composed; tables of nodes
   that have applied the same number of commands are equal.
3. An abstract register per key for the cache, which `Cache` implements as far as
   `StaleOnlyIfOwed` allows.

## 9 How to run

In this directory, for a run of `PROJECT.json`:

    tlc -workers 2 -config RaftElection.cfg MCRaft.tla
    tlapm RaftProofs.tla
