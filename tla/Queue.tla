------------------------------- MODULE Queue -------------------------------
(***************************************************************************)
(* The queue nodes of nodes/queue_node.py on their shared Redis, for one   *)
(* queue.  Every Redis command is one atomic step and every await between  *)
(* two of them lets the other coroutines and the other nodes run:          *)
(*   - a call is a client's enqueue, dequeue or ack on some node; it tries *)
(*     the replicas the node's hash ring names, one after the other;       *)
(*   - a job is such an operation carried out on one node, for a local or  *)
(*     a remote call, and outlives the call when the response is lost;     *)
(*   - each node runs one recovery loop.                                   *)
(*                                                                         *)
(* Time is kept as ages, in units of the clock (whole seconds in the code, *)
(* which stores stamps): Age(stamp) = now - stamp, up to Old, from where   *)
(* on nothing depends on it.                                               *)
(***************************************************************************)
EXTENDS HashRing, Sequences, SequencesExt

CONSTANTS QueueHash,          \* the hash of the queue's name
          Message,            \* message ids, each enqueued by one call
          Client,
          None,
          ReplicationFactor,  \* replication_factor
          Timeout,            \* visibility_timeout_s
          Faults,             \* of {"send", "redis", "halt"}: what may go wrong
          MaxJobs,            \* bound: jobs that run at the same time
          MaxLag,             \* bound: time that passes inside one job or recovery
          MaxReady,           \* bound: time stands still while ready is longer
          MaxFaults           \* bound: how much of that goes wrong, in all

ASSUME SizesAssumption ==
    /\ QueueHash \in Hash /\ ReplicationFactor \in Nat \ {0} /\ Timeout \in Nat \ {0}
    /\ MaxJobs \in Nat \ {0} /\ MaxLag \in Nat /\ MaxReady \in Nat /\ MaxFaults \in Nat
ASSUME NoneAssumption == None \notin Node \cup Client \cup Message \cup (0..Timeout + MaxLag)
\* A node that halts may do so between its last command and its response.
ASSUME FaultsAssumption ==
    Faults \subseteq {"send", "redis", "halt"} /\ ("halt" \in Faults => "send" \in Faults)

Slot == 1..MaxJobs
Old == Timeout + MaxLag
Age == 0..Old

VARIABLES
    ready,      \* Redis: the list queue:<name>:ready
    inflight,   \* Redis: the hash queue:<name>:inflight, ages of the stamps
    payloads,   \* Redis: the keys of the hash queue:<name>:payloads
    members,    \* Redis: the set membership:queue
    life,       \* by node: "up", "leaving" (stop has begun), "down", "starting"
    view,       \* by node: the nodes in its hash ring
    recovery,   \* by node: _recovery_loop
    faults,     \* how many faults there were, against MaxFaults
    calls,      \* by client: its call
    jobs,       \* by slot: a job
    accepted,   \* history: messages whose enqueue returned
    received,   \* history: messages some dequeue returned
    acking,     \* history: messages some client has asked to acknowledge
    dropped,    \* history: messages whose holder ended before putting them back
    stamped     \* history: age of the last stamp a message got, None before

redis == <<ready, inflight, payloads, members>>
nodes == <<life, view, recovery, faults>>
history == <<accepted, received, acking, dropped, stamped>>
vars == <<redis, nodes, calls, jobs, history>>

NoCall == [op |-> "none", msg |-> None, at |-> None, left |-> << >>, slot |-> 0]
NoJob == [op |-> "none", pc |-> "none", msg |-> None, on |-> None, client |-> None, lag |-> 0]
Asleep == [pc |-> "sleep", lag |-> 0, items |-> {}, msg |-> None]

Serves(n) == life[n] # "down"

\* _select_replicas: the first nodes of the ring, as this node sees it.
Replicas(n) == GetNodes(view[n], QueueHash, ReplicationFactor)

Init ==
    /\ ready = << >> /\ payloads = {} /\ members = Node
    /\ inflight = [m \in Message |-> None]
    /\ life = [n \in Node |-> "up"]
    /\ view = [n \in Node |-> Node]
    /\ recovery = [n \in Node |-> Asleep] /\ faults = 0
    /\ calls = [c \in Client |-> NoCall]
    /\ jobs = [s \in Slot |-> NoJob]
    /\ accepted = {} /\ received = {} /\ acking = {} /\ dropped = {}
    /\ stamped = [m \in Message |-> None]

----------------------------------------------------------------------------
(* Calls.                                                                  *)

Sent(m) == \/ m \in accepted \cup payloads
           \/ \E c \in Client : calls[c].op = "enqueue" /\ calls[c].msg = m
           \/ \E s \in Slot : jobs[s].op = "enqueue" /\ jobs[s].msg = m

\* enqueue, dequeue and ack, up to the loop over the replicas.
Call(c, n, op, m) ==
    /\ calls[c] = NoCall /\ Serves(n)
    /\ calls' = [calls EXCEPT ![c] = [NoCall EXCEPT !.op = op, !.msg = m, !.at = n,
                                                    !.left = Replicas(n)]]
    /\ UNCHANGED <<redis, nodes, jobs>>

CallEnqueue(c, n) ==
    \E m \in Message : ~Sent(m) /\ Call(c, n, "enqueue", m) /\ UNCHANGED history

CallDequeue(c, n) == Call(c, n, "dequeue", None) /\ UNCHANGED history

CallAck(c, n) ==
    \E m \in received \ acking :
        /\ Call(c, n, "ack", m)
        /\ acking' = acking \cup {m}
        /\ UNCHANGED <<accepted, received, dropped, stamped>>

\* Something goes wrong.
Strikes == faults < MaxFaults /\ faults' = faults + 1

\* Slip: the call still listens to the attempt it has given up.
SkipListening(c) == calls' = [calls EXCEPT ![c].left = IF @ = << >> THEN @ ELSE Tail(@)]

\* The next attempt failed: the replica after it is tried.
Skip(c) == calls' = [calls EXCEPT ![c].left = Tail(@), ![c].slot = 0]

FirstPc(op) == CASE op = "enqueue" -> "hset payload"
                 [] op = "dequeue" -> "lpop"
                 [] op = "ack" -> "hdel inflight"

(***************************************************************************)
(* One turn of the loop: the operation runs on the next replica, here or   *)
(* through bus.send, which may raise at once.  When the replicas have run  *)
(* out, enqueue and ack work locally and dequeue returns None.             *)
(***************************************************************************)
Attempt(c) ==
    LET k == calls[c]
        target == IF k.left = << >> THEN k.at ELSE Head(k.left)
    IN /\ k.op # "none" /\ k.slot = 0
       /\ \/ /\ k.op = "dequeue" /\ k.left = << >>
             /\ calls' = [calls EXCEPT ![c] = NoCall]
             /\ UNCHANGED <<jobs, faults>>
          \/ /\ target # k.at
             /\ \/ ~Serves(target) /\ UNCHANGED faults
                \/ Serves(target) /\ "send" \in Faults /\ Strikes
             /\ Skip(c)
             /\ UNCHANGED jobs
          \/ /\ ~(k.op = "dequeue" /\ k.left = << >>)
             /\ Serves(target)
             /\ \E s \in Slot :
                   /\ jobs[s] = NoJob /\ \A r \in 1..s-1 : jobs[r] # NoJob
                   /\ jobs' = [jobs EXCEPT ![s] =
                         [NoJob EXCEPT !.op = k.op, !.pc = FirstPc(k.op), !.msg = k.msg,
                                       !.on = target, !.client = c]]
                   /\ calls' = [calls EXCEPT ![c].slot = s]
             /\ UNCHANGED faults
       /\ UNCHANGED <<redis, life, view, recovery, history>>

\* The response of a remote job is lost, or its node has gone: the call goes
\* on, and the job too if its node lives.
AttemptFails(c) ==
    LET s == calls[c].slot
    IN /\ s # 0 /\ jobs[s].on # calls[c].at
       /\ "send" \in Faults /\ Strikes
       /\ Skip(c)
       /\ jobs' = [jobs EXCEPT ![s].client = None]
       /\ UNCHANGED <<redis, life, view, recovery, history>>

----------------------------------------------------------------------------
(* Jobs.  Returns ends a job and hands its result to the call, if any.     *)

Returns(s, item) ==
    LET c == jobs[s].client
    IN /\ jobs' = [jobs EXCEPT ![s] = NoJob]
       /\ \/ /\ c = None
             /\ UNCHANGED calls
          \/ /\ c # None /\ jobs[s].op = "dequeue" /\ item = None
             /\ Skip(c)
          \/ /\ c # None /\ ~(jobs[s].op = "dequeue" /\ item = None)
             /\ calls' = [calls EXCEPT ![c] = NoCall]

Goes(s, pc) == jobs' = [jobs EXCEPT ![s].pc = pc] /\ UNCHANGED calls

\* _enqueue_replica.
EnqueueStep(s) ==
    LET j == jobs[s]
    IN /\ j.op = "enqueue"
       /\ \/ /\ j.pc = "hset payload"
             /\ payloads' = payloads \cup {j.msg}
             /\ Goes(s, "rpush")
             /\ UNCHANGED <<ready, accepted>>
          \/ /\ j.pc = "rpush"
             /\ ready' = Append(ready, j.msg)
             /\ Returns(s, j.msg)
             /\ accepted' = IF j.client = None THEN accepted ELSE accepted \cup {j.msg}
             /\ UNCHANGED payloads
       /\ UNCHANGED <<inflight, members, nodes, received, acking, dropped, stamped>>

\* _dequeue_local.  The stamp is taken between lpop and hset.
DequeueStep(s) ==
    LET j == jobs[s]
    IN /\ j.op = "dequeue"
       /\ \/ /\ j.pc = "lpop" /\ ready = << >>
             /\ Returns(s, None)
             /\ UNCHANGED <<ready, inflight, received, stamped>>
          \/ /\ j.pc = "lpop" /\ ready # << >>
             /\ ready' = Tail(ready)
             /\ jobs' = [jobs EXCEPT ![s].pc = "hset inflight", ![s].msg = Head(ready), ![s].lag = 0]
             /\ UNCHANGED <<calls, inflight, received, stamped>>
          \/ /\ j.pc = "hset inflight"
             /\ \E age \in 0..j.lag :
                   /\ inflight' = [inflight EXCEPT ![j.msg] = age]
                   /\ stamped' = [stamped EXCEPT ![j.msg] = age]
             /\ jobs' = [jobs EXCEPT ![s].pc = "hget", ![s].lag = 0]
             /\ UNCHANGED <<calls, ready, received>>
          \/ /\ j.pc = "hget" /\ j.msg \in payloads
             /\ Returns(s, j.msg)
             /\ received' = IF j.client = None THEN received ELSE received \cup {j.msg}
             /\ UNCHANGED <<ready, inflight, stamped>>
          \/ /\ j.pc = "hget" /\ j.msg \notin payloads
             /\ Goes(s, "hdel")
             /\ UNCHANGED <<ready, inflight, received, stamped>>
          \/ /\ j.pc = "hdel"
             /\ inflight' = [inflight EXCEPT ![j.msg] = None]
             /\ Returns(s, None)
             /\ UNCHANGED <<ready, received, stamped>>
       /\ UNCHANGED <<payloads, members, nodes, accepted, acking, dropped>>

\* Slip: the payload stays.
AckKeepsPayload(s) ==
    /\ jobs[s].op = "ack"
    /\ inflight' = [inflight EXCEPT ![jobs[s].msg] = None]
    /\ Returns(s, jobs[s].msg)
    /\ UNCHANGED <<payloads, ready, members, nodes, history>>

\* _ack_local.
AckStep(s) ==
    LET j == jobs[s]
    IN /\ j.op = "ack"
       /\ \/ /\ j.pc = "hdel inflight"
             /\ inflight' = [inflight EXCEPT ![j.msg] = None]
             /\ Goes(s, "hdel payload")
             /\ UNCHANGED payloads
          \/ /\ j.pc = "hdel payload"
             /\ payloads' = payloads \ {j.msg}
             /\ Returns(s, j.msg)
             /\ UNCHANGED inflight
       /\ UNCHANGED <<ready, members, nodes, history>>

JobStep(s) == EnqueueStep(s) \/ DequeueStep(s) \/ AckStep(s)

----------------------------------------------------------------------------
(* _recovery_loop.                                                         *)

\* refresh_membership; recover_expired then reads the clock.
Refresh(n) ==
    /\ life[n] = "up" /\ recovery[n].pc = "sleep"
    /\ \/ view' = [view EXCEPT ![n] = members \cup {n}]
       \/ "redis" \in Faults /\ view' = [view EXCEPT ![n] = Node]
    /\ recovery' = [recovery EXCEPT ![n] = [Asleep EXCEPT !.pc = "list"]]
    /\ UNCHANGED <<redis, life, faults, calls, jobs, history>>

\* _list_queues finds the queue by the key of its ready list, which Redis
\* keeps only while the list is not empty.
ListQueues(n) ==
    /\ recovery[n].pc = "list"
    /\ recovery' = [recovery EXCEPT ![n] = IF ready = << >> THEN Asleep
                                           ELSE [@ EXCEPT !.pc = "scan"]]
    /\ UNCHANGED <<redis, life, view, faults, calls, jobs, history>>

\* Slip: expired one second early.
ScanEarly(n) ==
    /\ recovery[n].pc = "scan"
    /\ LET expired == {m \in Message : /\ inflight[m] # None
                                       /\ inflight[m] + 1 >= Timeout + recovery[n].lag}
       IN recovery' = [recovery EXCEPT ![n] = IF expired = {} THEN Asleep
                           ELSE [Asleep EXCEPT !.pc = "hdel", !.items = expired]]
    /\ UNCHANGED <<redis, life, view, faults, calls, jobs, history>>

\* hgetall; the ages are those at the time the clock was read.
Scan(n) ==
    /\ recovery[n].pc = "scan"
    /\ LET expired == {m \in Message : /\ inflight[m] # None
                                       /\ inflight[m] >= Timeout + recovery[n].lag}
       IN recovery' = [recovery EXCEPT ![n] = IF expired = {} THEN Asleep
                           ELSE [Asleep EXCEPT !.pc = "hdel", !.items = expired]]
    /\ UNCHANGED <<redis, life, view, faults, calls, jobs, history>>

\* The mark is taken away, whoever set it and whether it is still there.
TakeBack(n) ==
    /\ recovery[n].pc = "hdel"
    /\ \E m \in recovery[n].items :
          /\ inflight' = [inflight EXCEPT ![m] = None]
          /\ recovery' = [recovery EXCEPT ![n] = [Asleep EXCEPT !.pc = "rpush", !.msg = m,
                                                      !.items = recovery[n].items \ {m}]]
    /\ UNCHANGED <<ready, payloads, members, life, view, faults, calls, jobs, history>>

\* Slip: the message goes to the front of the queue.
PutInFront(n) ==
    /\ recovery[n].pc = "rpush"
    /\ ready' = <<recovery[n].msg>> \o ready
    /\ recovery' = [recovery EXCEPT ![n] = IF @.items = {} THEN Asleep
                        ELSE [@ EXCEPT !.pc = "hdel", !.msg = None]]
    /\ UNCHANGED <<inflight, payloads, members, life, view, faults, calls, jobs, history>>

PutBack(n) ==
    /\ recovery[n].pc = "rpush"
    /\ ready' = Append(ready, recovery[n].msg)
    /\ recovery' = [recovery EXCEPT ![n] = IF @.items = {} THEN Asleep
                        ELSE [@ EXCEPT !.pc = "hdel", !.msg = None]]
    /\ UNCHANGED <<inflight, payloads, members, life, view, faults, calls, jobs, history>>

\* Slip: ready first, and the mark removed after that.
RecoveryPushesFirst(n) ==
    \/ Refresh(n) \/ ListQueues(n) \/ Scan(n)
    \/ /\ recovery[n].pc = "hdel"
       /\ \E m \in recovery[n].items :
             /\ ready' = Append(ready, m)
             /\ recovery' = [recovery EXCEPT ![n] = [Asleep EXCEPT !.pc = "rpush", !.msg = m]]
       /\ UNCHANGED <<inflight, payloads, members, life, view, faults, calls, jobs, history>>
    \/ /\ recovery[n].pc = "rpush"
       /\ inflight' = [inflight EXCEPT ![recovery[n].msg] = None]
       /\ recovery' = [recovery EXCEPT ![n] = Asleep]
       /\ UNCHANGED <<ready, payloads, members, life, view, faults, calls, jobs, history>>

RecoveryStep(n) == Refresh(n) \/ ListQueues(n) \/ Scan(n) \/ TakeBack(n) \/ PutBack(n)

----------------------------------------------------------------------------
(* What may go wrong.                                                      *)

\* A message that only this coroutine has: popped and not marked in flight,
\* or taken back and not made ready.
JobHolds(s) == IF jobs[s].pc = "hset inflight" THEN {jobs[s].msg} ELSE {}
RecoveryHolds(n) == IF recovery[n].pc = "rpush" THEN {recovery[n].msg} ELSE {}

\* Slip: an enqueue that fails takes its payload back.
JobFailsRollsBack(s) ==
    /\ "redis" \in Faults /\ jobs[s].op = "enqueue" /\ Strikes
    /\ payloads' = payloads \ {jobs[s].msg}
    /\ jobs' = [jobs EXCEPT ![s] = NoJob]
    /\ calls' = [c \in Client |-> IF c = jobs[s].client THEN NoCall ELSE calls[c]]
    /\ UNCHANGED <<ready, inflight, members, life, view, recovery, history>>

\* A Redis command of a job raises.  A remote call tries the next replica; a
\* local one passes the exception on to its client.
JobFails(s) ==
    LET j == jobs[s]
        local == j.client # None /\ j.on = calls[j.client].at
    IN /\ "redis" \in Faults /\ j # NoJob
       /\ Strikes
       /\ jobs' = [jobs EXCEPT ![s] = NoJob]
       /\ \/ j.client = None /\ UNCHANGED calls
          \/ j.client # None /\ local /\ calls' = [calls EXCEPT ![j.client] = NoCall]
          \/ j.client # None /\ ~local /\ Skip(j.client)
       /\ dropped' = dropped \cup JobHolds(s)
       /\ UNCHANGED <<redis, life, view, recovery, accepted, received, acking, stamped>>

\* A Redis command of recover_expired raises: nothing catches it, so the
\* recovery task of this node has ended.
RecoveryFails(n) ==
    /\ "redis" \in Faults /\ recovery[n].pc \notin {"sleep", "dead"}
    /\ Strikes
    /\ recovery' = [recovery EXCEPT ![n] = [Asleep EXCEPT !.pc = "dead"]]
    /\ dropped' = dropped \cup RecoveryHolds(n)
    /\ UNCHANGED <<redis, life, view, calls, jobs, accepted, received, acking, stamped>>

\* stop, up to unregister_node: the recovery task is cancelled where it is.
Leave(n) ==
    /\ "halt" \in Faults /\ life[n] = "up"
    /\ Strikes
    /\ life' = [life EXCEPT ![n] = "leaving"]
    /\ members' = members \ {n}
    /\ recovery' = [recovery EXCEPT ![n] = Asleep]
    /\ dropped' = dropped \cup RecoveryHolds(n)
    /\ UNCHANGED <<ready, inflight, payloads, view, calls, jobs, accepted, received, acking, stamped>>

\* The end of stop, or a crash: the calls and the jobs on the node end.
CallAfterHalt(k, n) ==
    IF k.at = n THEN NoCall
    ELSE IF k.slot # 0 /\ jobs[k.slot].on = n THEN [k EXCEPT !.left = Tail(k.left), !.slot = 0]
    ELSE k

Halt(n) ==
    /\ "halt" \in Faults /\ life[n] # "down"
    /\ (life[n] = "leaving" /\ UNCHANGED faults) \/ (life[n] # "leaving" /\ Strikes)
    /\ life' = [life EXCEPT ![n] = "down"]
    /\ recovery' = [recovery EXCEPT ![n] = Asleep]
    /\ calls' = [c \in Client |-> CallAfterHalt(calls[c], n)]
    /\ jobs' = [s \in Slot |->
                   IF jobs[s].on = n THEN NoJob
                   ELSE IF jobs[s].client # None /\ calls[jobs[s].client].at = n
                        THEN [jobs[s] EXCEPT !.client = None]
                   ELSE jobs[s]]
    /\ dropped' = dropped \cup RecoveryHolds(n)
                          \cup UNION {JobHolds(s) : s \in {r \in Slot : jobs[r].on = n}}
    /\ UNCHANGED <<redis, view, accepted, received, acking, stamped>>

\* start: the bus serves, with the static ring, before the node registers.
Start(n) ==
    /\ life[n] = "down"
    /\ life' = [life EXCEPT ![n] = "starting"]
    /\ view' = [view EXCEPT ![n] = Node]
    /\ UNCHANGED <<redis, recovery, faults, calls, jobs, history>>

Register(n) ==
    /\ life[n] = "starting"
    /\ life' = [life EXCEPT ![n] = "up"]
    /\ members' = members \cup {n}
    /\ UNCHANGED <<ready, inflight, payloads, view, recovery, faults, calls, jobs, history>>

----------------------------------------------------------------------------
Older(age) == IF age = None THEN None ELSE IF age < Old THEN age + 1 ELSE Old

\* A second passes.  Coroutines that have read the clock grow a lag.
Tick ==
    /\ Len(ready) <= MaxReady
    /\ \A s \in Slot : jobs[s].lag < MaxLag \/ jobs[s].pc # "hset inflight"
    /\ \A n \in Node : recovery[n].lag < MaxLag \/ recovery[n].pc \notin {"list", "scan"}
    /\ inflight' = [m \in Message |-> Older(inflight[m])]
    /\ stamped' = [m \in Message |-> Older(stamped[m])]
    /\ jobs' = [s \in Slot |-> IF jobs[s].pc = "hset inflight"
                               THEN [jobs[s] EXCEPT !.lag = @ + 1] ELSE jobs[s]]
    /\ recovery' = [n \in Node |-> IF recovery[n].pc \in {"list", "scan"}
                                   THEN [recovery[n] EXCEPT !.lag = @ + 1] ELSE recovery[n]]
    /\ UNCHANGED <<ready, payloads, members, life, view, faults, calls, accepted, received, acking, dropped>>

Next ==
    \/ \E c \in Client : \/ \E n \in Node : CallEnqueue(c, n) \/ CallDequeue(c, n) \/ CallAck(c, n)
                         \/ Attempt(c) \/ AttemptFails(c)
    \/ \E s \in Slot : JobStep(s) \/ JobFails(s)
    \/ \E n \in Node : \/ RecoveryStep(n) \/ RecoveryFails(n)
                       \/ Leave(n) \/ Halt(n) \/ Start(n) \/ Register(n)
    \/ Tick

Spec == Init /\ [][Next]_vars

(***************************************************************************)
(* Commands and the clock go on; clients keep asking for messages.         *)
(***************************************************************************)
FairSpec ==
    /\ Spec
    /\ \A s \in Slot : WF_vars(JobStep(s))
    /\ \A c \in Client : WF_vars(Attempt(c))
    /\ \A n \in Node : WF_vars(RecoveryStep(n))
    /\ WF_vars(Tick)
    /\ SF_vars(\E c \in Client, n \in Node : CallDequeue(c, n))

----------------------------------------------------------------------------
Id == Message \cup {None}

TypeOK ==
    /\ ready \in Seq(Message) /\ payloads \subseteq Message /\ members \subseteq Node
    /\ inflight \in [Message -> Age \cup {None}]
    /\ stamped \in [Message -> Age \cup {None}]
    /\ faults \in 0..MaxFaults
    /\ life \in [Node -> {"up", "leaving", "down", "starting"}]
    /\ view \in [Node -> SUBSET Node] /\ \A n \in Node : n \in view[n]
    /\ recovery \in [Node -> [pc : {"sleep", "list", "scan", "hdel", "rpush", "dead"},
                              lag : 0..MaxLag, items : SUBSET Message, msg : Id]]
    /\ calls \in [Client -> [op : {"none", "enqueue", "dequeue", "ack"}, msg : Id,
                             at : Node \cup {None}, left : Seq(Node), slot : 0..MaxJobs]]
    /\ jobs \in [Slot -> [op : {"none", "enqueue", "dequeue", "ack"},
                          pc : {"none", "hset payload", "rpush", "lpop", "hset inflight",
                                "hget", "hdel", "hdel inflight", "hdel payload"},
                          msg : Id, on : Node \cup {None}, client : Client \cup {None}, lag : 0..MaxLag]]
    /\ \A c \in Client : calls[c].slot # 0 => jobs[calls[c].slot].client = c
    /\ {accepted, received, acking, dropped} \subseteq SUBSET Message

\* Somebody will deliver m again, or put it back.
Kept(m) == \/ m \in ToSet(ready)
           \/ inflight[m] # None
           \/ \E s \in Slot : m \in JobHolds(s)
           \/ \E n \in Node : m \in RecoveryHolds(n)

(***************************************************************************)
(* At-least-once delivery (docs/architecture.md) needs this: a message     *)
(* whose enqueue has returned and which nobody has acknowledged has its    *)
(* payload and is ready, in flight, or in the hands of a coroutine,        *)
(* whatever nodes, retries and recoveries run at the same time.  The only  *)
(* way to lose one is to stop a coroutine that has popped it or taken its  *)
(* mark away.                                                              *)
(***************************************************************************)
OnlyHoldersLose ==
    \A m \in accepted \ acking : m \in payloads /\ (Kept(m) \/ m \in dropped)

\* What the queue owes its clients: it has the message and will deliver it.
Pending == {m \in payloads : Kept(m)} \ (acking \cup dropped)

Abstract == INSTANCE AtLeastOnce WITH
                MayLose <- Faults \cap {"redis", "halt"} # {},
                pending <- Pending, acked <- acking, lost <- dropped

(***************************************************************************)
(* The queue is an at-least-once queue: whatever the calls, their retries  *)
(* and the recovery loops do to its lists and hashes, together they put a  *)
(* message, hand one out, take its acknowledgement, or, where a Redis      *)
(* command may raise or a node halt, lose one; a lost response loses none. *)
(***************************************************************************)
ImplementsAtLeastOnce == Abstract!Spec

(***************************************************************************)
(* The visibility timeout: a message is not handed out again before the    *)
(* stamp of its last delivery is Timeout old.  On one node: two recovery   *)
(* loops that scan together make the message ready twice.                  *)
(***************************************************************************)
HandsOut(s) == jobs[s].pc = "hset inflight" /\ jobs'[s].pc = "hget"

VisibilityRespected ==
    [][\A s \in Slot : HandsOut(s) =>
          LET m == jobs[s].msg
          IN stamped[m] = None \/ stamped[m] >= stamped'[m] + Timeout]_vars

\* Payloads do not leak: while nothing fails, a stored payload belongs to a
\* message that will be delivered or put back, or that an acknowledgement or an
\* enqueue under way is about to settle.
Settling(s, m) == jobs[s].msg = m /\ jobs[s].pc \in {"rpush", "hdel payload"}

NoLeak == \A m \in payloads : Kept(m) \/ \E s \in Slot : Settling(s, m)

\* Every message accepted is delivered, when nothing fails.
AcceptedIsDelivered == \A m \in Message : (m \in accepted) ~> (m \in received)

(***************************************************************************)
(* The other half of at-least-once: a message that was delivered and is    *)
(* not acknowledged becomes ready again.  It does not when it is the last  *)
(* one: the queue has no ready list then, and _list_queues does not find   *)
(* it.                                                                     *)
(***************************************************************************)
UnackedReturns ==
    \A m \in Message : (m \in received) ~> (m \in ToSet(ready) \cup acking)

=============================================================================
