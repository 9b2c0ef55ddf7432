----------------------------- MODULE QueueProofs -----------------------------
(***************************************************************************)
(* Theorems about Queue, for any ring, messages, clients, faults and       *)
(* bounds, proved with TLAPS.                                              *)
(***************************************************************************)
EXTENDS Queue, HashRingProofs

Operation == {"none", "enqueue", "dequeue", "ack"}

CallRecord == [op : Operation, msg : Id, at : Node \cup {None}, left : Seq(Node),
               slot : 0..MaxJobs]

JobRecord == [op : Operation,
              pc : {"none", "hset payload", "rpush", "lpop", "hset inflight",
                    "hget", "hdel", "hdel inflight", "hdel payload"},
              msg : Id, on : Node \cup {None}, client : Client \cup {None}, lag : 0..MaxLag]

RecoveryRecord == [pc : {"sleep", "list", "scan", "hdel", "rpush", "dead"},
                   lag : 0..MaxLag, items : SUBSET Message, msg : Id]

\* A call or a job has a message unless it is a dequeue, and a dequeue has one
\* once it has popped it.
CallNamed(k) == k.op \in {"enqueue", "ack"} => k.msg \in Message
JobNamed(j) == j.op \in {"enqueue", "ack"} \/ j.pc \in {"hset inflight", "hget", "hdel"}
                   => j.msg \in Message

\* A call and the job it waits for know each other; only where the replicas have
\* run out is there no other to try, and then the job is a local one that is not
\* a dequeue.
Linked(s) ==
    LET c == jobs[s].client
    IN c # None => /\ calls[c].slot = s
                   /\ calls[c].op = jobs[s].op
                   /\ calls[c].left = << >> => jobs[s].op # "dequeue" /\ jobs[s].on = calls[c].at

Waits(c) == calls[c].slot # 0 => jobs[calls[c].slot].client = c

CallsInv == /\ calls \in [Client -> CallRecord] /\ jobs \in [Slot -> JobRecord]
            /\ \A c \in Client : CallNamed(calls[c]) /\ Waits(c)
            /\ \A s \in Slot : JobNamed(jobs[s]) /\ Linked(s)

RedisInv == /\ ready \in Seq(Message) /\ payloads \subseteq Message /\ members \subseteq Node
            /\ inflight \in [Message -> Age \cup {None}]

NodesInv == /\ life \in [Node -> {"up", "leaving", "down", "starting"}]
            /\ faults \in 0..MaxFaults
            /\ view \in [Node -> SUBSET Node] /\ \A n \in Node : n \in view[n]
            /\ recovery \in [Node -> RecoveryRecord]
            /\ \A n \in Node : recovery[n].pc = "rpush" => recovery[n].msg \in Message

HistoryInv == /\ accepted \subseteq Message /\ received \subseteq Message
              /\ acking \subseteq Message /\ dropped \subseteq Message
              /\ stamped \in [Message -> Age \cup {None}]

TypeInv == CallsInv /\ RedisInv /\ NodesInv /\ HistoryInv

LEMMA TypeInvOK == TypeInv => TypeOK
  BY DEF TypeInv, CallsInv, RedisInv, NodesInv, HistoryInv, TypeOK, Waits, Operation,
         CallRecord, JobRecord, RecoveryRecord

----------------------------------------------------------------------------
(* Values.                                                                 *)

LEMMA Names ==
    /\ None \notin Node /\ None \notin Client /\ None \notin Message /\ None \notin Age
    /\ 0 \in Age /\ 0 \in 0..MaxLag /\ 0..MaxLag \subseteq Age /\ 0 \notin Slot
    /\ Slot \subseteq 0..MaxJobs /\ 0 \in 0..MaxJobs
  BY NoneAssumption, SizesAssumption DEF Age, Old, Slot

LEMMA NoCallIs ==
    /\ NoCall \in CallRecord
    /\ NoCall.op = "none" /\ NoCall.slot = 0
  BY Names DEF NoCall, CallRecord, Id, Operation

LEMMA NoJobIs ==
    /\ NoJob \in JobRecord
    /\ NoJob.op = "none" /\ NoJob.pc = "none" /\ NoJob.client = None /\ NoJob.on = None
    /\ JobNamed(NoJob)
  BY Names DEF NoJob, JobRecord, Id, Operation, JobNamed

LEMMA AsleepIs ==
    /\ Asleep \in RecoveryRecord
    /\ Asleep.pc = "sleep" /\ Asleep.items = {} /\ Asleep.lag = 0
  BY Names DEF Asleep, RecoveryRecord, Id

\* The replicas of the queue, as a node sees them, are nodes.
LEMMA ReplicasAre ==
    ASSUME TypeInv, NEW n \in Node
    PROVE  Replicas(n) \in Seq(Node)
<1> DEFINE len == IF ReplicationFactor < Cardinality(view[n]) THEN ReplicationFactor
                  ELSE Cardinality(view[n])
<1>1. view[n] \in (SUBSET Node) \ {{}}
  BY DEF TypeInv, NodesInv
<1>2. GetNodes(view[n], QueueHash, ReplicationFactor) \in [1..len -> view[n]]
  BY <1>1, ReplicasDiffer, SizesAssumption
<1>3. len \in Nat
  BY <1>1, SizesAssumption, NodesAssumption, FS_Subset, FS_CardinalityType
<1>4. Replicas(n) \in [1..len -> Node]
  BY <1>1, <1>2 DEF Replicas
<1> HIDE DEF len
<1> QED BY <1>3, <1>4

----------------------------------------------------------------------------
(* What steps do to calls and jobs.                                        *)

\* A job goes on.
LEMMA JobGoesOn ==
    ASSUME CallsInv, NEW s \in Slot, NEW j \in JobRecord, JobNamed(j),
           j.op = jobs[s].op, j.on = jobs[s].on, j.client = jobs[s].client,
           jobs' = [jobs EXCEPT ![s] = j], UNCHANGED calls
    PROVE  CallsInv'
<1>1. /\ jobs' \in [Slot -> JobRecord]
      /\ \A r \in Slot : jobs'[r] = IF r = s THEN j ELSE jobs[r]
  BY DEF CallsInv
<1>2. \A r \in Slot : jobs'[r].op = jobs[r].op /\ jobs'[r].on = jobs[r].on
                      /\ jobs'[r].client = jobs[r].client /\ JobNamed(jobs'[r])
  BY <1>1 DEF CallsInv
<1>3. \A c \in Client : calls[c].slot \in 0..MaxJobs
  BY DEF CallsInv, CallRecord
<1>4. \A c \in Client : calls[c].slot # 0 => calls[c].slot \in Slot
  BY <1>3, SizesAssumption DEF Slot
<1>5. \A c \in Client : Waits(c)'
  BY <1>2, <1>4 DEF CallsInv, Waits
<1>6. \A r \in Slot : Linked(r)'
  BY <1>2 DEF CallsInv, Linked
<1> QED BY <1>1, <1>2, <1>5, <1>6 DEF CallsInv

\* A call that waits for no job changes.
LEMMA CallGoesOn ==
    ASSUME CallsInv, NEW c \in Client, calls[c].slot = 0,
           NEW k \in CallRecord, CallNamed(k), k.slot = 0,
           calls' = [calls EXCEPT ![c] = k], UNCHANGED jobs
    PROVE  CallsInv'
<1>1. /\ calls' \in [Client -> CallRecord]
      /\ \A d \in Client : calls'[d] = IF d = c THEN k ELSE calls[d]
  BY DEF CallsInv
<1>2. \A s \in Slot : jobs[s].client # c
  BY Names DEF CallsInv, Linked
<1>3. \A s \in Slot : jobs[s].client \in Client \cup {None}
  BY DEF CallsInv, JobRecord
<1>4. \A s \in Slot : Linked(s)'
  BY <1>1, <1>2, <1>3 DEF CallsInv, Linked
<1>5. \A d \in Client : CallNamed(calls'[d]) /\ Waits(d)'
  BY <1>1 DEF CallsInv, Waits
<1> QED BY <1>1, <1>4, <1>5 DEF CallsInv

\* A call stops waiting for its job, which ends or goes on for nobody.
LEMMA CallLeavesJob ==
    ASSUME CallsInv, NEW s \in Slot, NEW c \in Client, jobs[s].client = c,
           NEW k \in CallRecord, CallNamed(k), k.slot = 0,
           NEW j \in JobRecord, JobNamed(j), j.client = None,
           calls' = [calls EXCEPT ![c] = k], jobs' = [jobs EXCEPT ![s] = j]
    PROVE  CallsInv'
<1>1. /\ calls' \in [Client -> CallRecord] /\ jobs' \in [Slot -> JobRecord]
      /\ \A d \in Client : calls'[d] = IF d = c THEN k ELSE calls[d]
      /\ \A r \in Slot : jobs'[r] = IF r = s THEN j ELSE jobs[r]
  BY DEF CallsInv
<1>2. \A r \in Slot : r # s => jobs[r].client # c
  BY Names DEF CallsInv, Linked
<1>3. \A r \in Slot : jobs[r].client \in Client \cup {None}
  BY DEF CallsInv, JobRecord
<1>4. \A r \in Slot : JobNamed(jobs'[r]) /\ Linked(r)'
  BY <1>1, <1>2, <1>3 DEF CallsInv, Linked
<1>5. \A d \in Client : calls[d].slot # 0 => calls[d].slot \in Slot
  BY SizesAssumption DEF CallsInv, CallRecord, Slot
<1>6. \A d \in Client : CallNamed(calls'[d]) /\ Waits(d)'
  BY <1>1, <1>5 DEF CallsInv, Waits
<1> QED BY <1>1, <1>4, <1>6 DEF CallsInv

\* A job nobody waits for ends.
LEMMA OrphanEnds ==
    ASSUME CallsInv, NEW s \in Slot, jobs[s].client = None,
           jobs' = [jobs EXCEPT ![s] = NoJob], UNCHANGED calls
    PROVE  CallsInv'
<1>1. /\ jobs' \in [Slot -> JobRecord]
      /\ \A r \in Slot : jobs'[r] = IF r = s THEN NoJob ELSE jobs[r]
  BY NoJobIs DEF CallsInv
<1>2. \A r \in Slot : JobNamed(jobs'[r]) /\ Linked(r)'
  BY <1>1, NoJobIs DEF CallsInv, Linked
<1>3. \A d \in Client : calls[d].slot # 0 => calls[d].slot \in Slot
  BY SizesAssumption DEF CallsInv, CallRecord, Slot
<1>4. \A d \in Client : Waits(d)'
  BY <1>1, <1>3, Names DEF CallsInv, Waits
<1> QED BY <1>1, <1>2, <1>4 DEF CallsInv

\* Skip and the end of a call.
LEMMA SkipIs ==
    ASSUME CallsInv, NEW c \in Client, calls[c].left # << >>, Skip(c)
    PROVE  \E k \in CallRecord : /\ CallNamed(k) /\ k.slot = 0 /\ k.op = calls[c].op
                                 /\ k.msg = calls[c].msg
                                 /\ calls' = [calls EXCEPT ![c] = k]
<1> DEFINE k == [calls[c] EXCEPT !.left = Tail(calls[c].left), !.slot = 0]
<1>1. calls[c] \in CallRecord /\ CallNamed(calls[c])
  BY DEF CallsInv
<1>2. Tail(calls[c].left) \in Seq(Node)
  BY <1>1 DEF CallRecord
<1>3. /\ k \in CallRecord /\ CallNamed(k) /\ k.slot = 0 /\ k.op = calls[c].op
      /\ k.msg = calls[c].msg
  BY <1>1, <1>2, Names DEF CallRecord, CallNamed
<1>4. calls' = [calls EXCEPT ![c] = k]
  BY DEF Skip
<1> QED BY <1>3, <1>4

\* No call becomes an acknowledgement.
NoNewAck == \A d \in Client : calls'[d].op = "ack" => /\ calls[d].op = "ack"
                                                       /\ calls'[d].msg = calls[d].msg

\* One call changes, to one that is nothing or what it was.
LEMMA CallKeepsOp ==
    ASSUME CallsInv, NEW c \in Client, NEW k \in CallRecord, calls' = [calls EXCEPT ![c] = k],
           k.op = "none" \/ (k.op = calls[c].op /\ k.msg = calls[c].msg)
    PROVE  NoNewAck
<1>1. \A d \in Client : calls'[d] = IF d = c THEN k ELSE calls[d]
  BY DEF CallsInv
<1> QED BY <1>1 DEF NoNewAck

LEMMA ReturnsIs ==
    ASSUME CallsInv, NEW s \in Slot, NEW item, Returns(s, item)
    PROVE  CallsInv' /\ NoNewAck
<1> DEFINE c == jobs[s].client
<1>1. jobs' = [jobs EXCEPT ![s] = NoJob]
  BY DEF Returns
<1>2. c \in Client \cup {None}
  BY DEF CallsInv, JobRecord
<1>3. CASE c = None
  <2>1. UNCHANGED calls
    BY <1>3 DEF Returns
  <2> QED BY <1>1, <1>3, <2>1, OrphanEnds DEF NoNewAck
<1>4. CASE c # None /\ jobs[s].op = "dequeue" /\ item = None
  <2>1. Skip(c) /\ c \in Client /\ calls[c].left # << >>
    BY <1>2, <1>4 DEF Returns, CallsInv, Linked
  <2>2. PICK k \in CallRecord : /\ CallNamed(k) /\ k.slot = 0 /\ k.op = calls[c].op
                                /\ k.msg = calls[c].msg
                                /\ calls' = [calls EXCEPT ![c] = k]
    <3> HIDE DEF c
    <3> QED BY <2>1, SkipIs
  <2>3. CallsInv'
    BY <1>1, <2>1, <2>2, CallLeavesJob, NoJobIs
  <2> QED BY <2>1, <2>2, <2>3, CallKeepsOp
<1>5. CASE c # None /\ ~(jobs[s].op = "dequeue" /\ item = None)
  <2>1. calls' = [calls EXCEPT ![c] = NoCall] /\ c \in Client
    BY <1>2, <1>5 DEF Returns
  <2>2. CallNamed(NoCall)
    BY NoCallIs DEF CallNamed
  <2>3. CallsInv'
    BY <1>1, <2>1, <2>2, CallLeavesJob, NoJobIs, NoCallIs
  <2> QED BY <2>1, <2>3, CallKeepsOp, NoCallIs
<1> QED BY <1>3, <1>4, <1>5

----------------------------------------------------------------------------
(* Steps of calls.                                                         *)

\* enqueue, dequeue and ack, up to the loop over the replicas.
LEMMA CallIs ==
    ASSUME TypeInv, NEW c \in Client, NEW n \in Node, NEW op \in {"enqueue", "dequeue", "ack"},
           NEW m \in Id, op # "dequeue" => m \in Message, Call(c, n, op, m)
    PROVE  /\ CallsInv' /\ RedisInv' /\ NodesInv'
           /\ \A d \in Client : calls'[d].op = "ack" => \/ op = "ack" /\ calls'[d].msg = m
                                                        \/ /\ calls[d].op = "ack"
                                                           /\ calls'[d].msg = calls[d].msg
<1> DEFINE k == [NoCall EXCEPT !.op = op, !.msg = m, !.at = n, !.left = Replicas(n)]
<1>1. k \in CallRecord /\ CallNamed(k) /\ k.slot = 0 /\ k.op = op /\ k.msg = m
  BY ReplicasAre, Names DEF NoCall, CallRecord, CallNamed, Operation
<1>2. calls' = [calls EXCEPT ![c] = k] /\ calls[c].slot = 0 /\ UNCHANGED <<redis, nodes, jobs>>
  BY NoCallIs DEF Call
<1> HIDE DEF k
<1>3. CallsInv
  BY DEF TypeInv
<1>4. CallsInv'
  BY <1>1, <1>2, <1>3, CallGoesOn
<1>5. RedisInv' /\ NodesInv'
  BY <1>2 DEF TypeInv, RedisInv, NodesInv, redis, nodes
<1>6. \A d \in Client : calls'[d] = IF d = c THEN k ELSE calls[d]
  BY <1>2, <1>3 DEF CallsInv
<1> QED BY <1>1, <1>4, <1>5, <1>6

LEMMA CallType ==
    ASSUME TypeInv, NEW c \in Client, NEW n \in Node,
           CallEnqueue(c, n) \/ CallDequeue(c, n) \/ CallAck(c, n)
    PROVE  TypeInv'
<1>1. CASE CallEnqueue(c, n)
  <2>1. PICK m \in Message : Call(c, n, "enqueue", m) /\ UNCHANGED history
    BY <1>1 DEF CallEnqueue
  <2> QED BY <2>1, CallIs DEF TypeInv, HistoryInv, history, Id
<1>2. CASE CallDequeue(c, n)
  <2>1. Call(c, n, "dequeue", None) /\ UNCHANGED history
    BY <1>2 DEF CallDequeue
  <2> QED BY <2>1, CallIs DEF TypeInv, HistoryInv, history, Id
<1>3. CASE CallAck(c, n)
  <2>1. PICK m \in received \ acking :
            Call(c, n, "ack", m) /\ acking' = acking \cup {m}
            /\ UNCHANGED <<accepted, received, dropped, stamped>>
    BY <1>3 DEF CallAck
  <2>2. m \in Message
    BY DEF TypeInv, HistoryInv
  <2> QED BY <2>1, <2>2, CallIs DEF TypeInv, HistoryInv, history, Id
<1> QED BY <1>1, <1>2, <1>3

\* A job starts for a call.
LEMMA JobStarts ==
    ASSUME CallsInv, NEW c \in Client, calls[c].slot = 0, NEW s \in Slot, jobs[s] = NoJob,
           NEW j \in JobRecord, JobNamed(j), j.client = c, j.op = calls[c].op,
           calls[c].left = << >> => j.op # "dequeue" /\ j.on = calls[c].at,
           jobs' = [jobs EXCEPT ![s] = j], calls' = [calls EXCEPT ![c].slot = s]
    PROVE  CallsInv' /\ NoNewAck
<1> DEFINE k == [calls[c] EXCEPT !.slot = s]
<1>1. calls[c] \in CallRecord /\ CallNamed(calls[c])
  BY DEF CallsInv
<1>2. /\ k \in CallRecord /\ CallNamed(k) /\ k.slot = s /\ k.op = calls[c].op
      /\ k.msg = calls[c].msg /\ k.left = calls[c].left /\ k.at = calls[c].at
  BY <1>1, Names DEF CallRecord, CallNamed
<1>3. calls' = [calls EXCEPT ![c] = k]
  OBVIOUS
<1> HIDE DEF k
<1>4. /\ calls' \in [Client -> CallRecord] /\ jobs' \in [Slot -> JobRecord]
      /\ \A d \in Client : calls'[d] = IF d = c THEN k ELSE calls[d]
      /\ \A r \in Slot : jobs'[r] = IF r = s THEN j ELSE jobs[r]
  BY <1>2, <1>3 DEF CallsInv
<1>5. \A r \in Slot : jobs[r].client # c /\ jobs[r].client \in Client \cup {None}
  <2>1. \A r \in Slot : jobs[r].client \in Client \cup {None}
    BY DEF CallsInv, JobRecord
  <2>2. \A r \in Slot : jobs[r].client # c
    BY Names DEF CallsInv, Linked
  <2> QED BY <2>1, <2>2
<1>6. ASSUME NEW r \in Slot PROVE JobNamed(jobs'[r]) /\ Linked(r)'
  <2>1. CASE r = s
    <3>1. jobs'[r] = j /\ calls'[c] = k
      BY <1>4, <2>1
    <3> QED BY <1>2, <2>1, <3>1 DEF Linked
  <2>2. CASE r # s
    <3>1. jobs'[r] = jobs[r] /\ JobNamed(jobs[r]) /\ Linked(r)
      BY <1>4, <2>2 DEF CallsInv
    <3>2. jobs[r].client # None => calls'[jobs[r].client] = calls[jobs[r].client]
      BY <1>4, <1>5
    <3> QED BY <3>1, <3>2 DEF Linked
  <2> QED BY <2>1, <2>2
<1>7. \A d \in Client : calls[d].slot # 0 => calls[d].slot \in Slot /\ calls[d].slot # s
  BY SizesAssumption, NoJobIs, Names DEF CallsInv, CallRecord, Slot, Waits
<1>8. \A d \in Client : CallNamed(calls'[d]) /\ Waits(d)'
  BY <1>2, <1>4, <1>7 DEF CallsInv, Waits
<1>9. NoNewAck
  BY <1>2, <1>4 DEF NoNewAck
<1> QED BY <1>4, <1>6, <1>8, <1>9 DEF CallsInv

\* What a turn of the loop starts: the operation of the call, from its first
\* command.
Started(c, s) ==
    /\ jobs[s] = NoJob
    /\ \E j \in JobRecord : /\ j.op = calls[c].op /\ j.msg = calls[c].msg /\ j.pc = FirstPc(j.op)
                            /\ j.op \in {"enqueue", "dequeue", "ack"}
                            /\ jobs' = [jobs EXCEPT ![s] = j]

LEMMA AttemptType ==
    ASSUME TypeInv, NEW c \in Client, Attempt(c)
    PROVE  TypeInv' /\ NoNewAck /\ (UNCHANGED jobs \/ \E s \in Slot : Started(c, s))
<1> DEFINE k == calls[c]
           target == IF k.left = << >> THEN k.at ELSE Head(k.left)
<1>1. /\ k \in CallRecord /\ CallNamed(k) /\ k.slot = 0 /\ k.op # "none" /\ CallsInv
  BY DEF TypeInv, CallsInv, Attempt
<1>2. CASE /\ calls' = [calls EXCEPT ![c] = NoCall]
           /\ UNCHANGED <<jobs, faults>>
  <2>1. CallNamed(NoCall)
    BY NoCallIs DEF CallNamed
  <2>2. CallsInv' /\ NoNewAck
    BY <1>1, <1>2, <2>1, NoCallIs, CallGoesOn, CallKeepsOp
  <2> QED BY <1>2, <2>2 DEF Attempt, TypeInv, RedisInv, NodesInv, HistoryInv, redis, history
<1>3. CASE /\ target # k.at
           /\ UNCHANGED faults \/ Strikes
           /\ Skip(c)
           /\ UNCHANGED jobs
  <2>1. k.left # << >>
    BY <1>3
  <2>2. PICK k1 \in CallRecord : /\ CallNamed(k1) /\ k1.slot = 0 /\ k1.op = k.op /\ k1.msg = k.msg
                                 /\ calls' = [calls EXCEPT ![c] = k1]
    BY <1>1, <1>3, <2>1, SkipIs
  <2>3. CallsInv' /\ NoNewAck
    BY <1>1, <1>3, <2>2, CallGoesOn, CallKeepsOp
  <2>4. faults' \in 0..MaxFaults
    BY <1>3, SizesAssumption DEF Strikes, TypeInv, NodesInv
  <2> QED BY <1>3, <2>3, <2>4 DEF Attempt, TypeInv, RedisInv, NodesInv, HistoryInv, redis, history
<1>4. ASSUME NEW s \in Slot, ~(k.op = "dequeue" /\ k.left = << >>), Serves(target), jobs[s] = NoJob,
             jobs' = [jobs EXCEPT ![s] = [NoJob EXCEPT !.op = k.op, !.pc = FirstPc(k.op),
                                             !.msg = k.msg, !.on = target, !.client = c]],
             calls' = [calls EXCEPT ![c].slot = s], UNCHANGED faults
      PROVE  TypeInv' /\ NoNewAck /\ Started(c, s)
  <2> DEFINE j == [NoJob EXCEPT !.op = k.op, !.pc = FirstPc(k.op),
                                !.msg = k.msg, !.on = target, !.client = c]
  <2>1. target \in Node \cup {None}
    BY <1>1 DEF CallRecord
  <2>2. k.op \in {"enqueue", "dequeue", "ack"} /\ k.msg \in Id
    BY <1>1 DEF CallRecord, Operation
  <2>3. /\ FirstPc(k.op) \in {"hset payload", "lpop", "hdel inflight"}
    BY <2>2 DEF FirstPc
  <2>4. /\ j \in JobRecord /\ j.op = k.op /\ j.msg = k.msg /\ j.on = target /\ j.client = c
        /\ j.pc = FirstPc(k.op)
    <3> HIDE DEF target, k
    <3> QED BY <2>1, <2>2, <2>3, NoJobIs, Names DEF NoJob, JobRecord, Operation
  <2>5. JobNamed(j)
    BY <1>1, <2>2, <2>3, <2>4 DEF CallNamed, JobNamed
  <2>6. k.left = << >> => j.op # "dequeue" /\ j.on = k.at
    BY <1>4, <2>4
  <2>7. jobs' = [jobs EXCEPT ![s] = j]
    BY <1>4
  <2> HIDE DEF j, target
  <2>8. CallsInv' /\ NoNewAck
    BY <1>1, <1>4, <2>4, <2>5, <2>6, <2>7, JobStarts
  <2>9. Started(c, s)
    BY <1>4, <2>2, <2>4, <2>7 DEF Started
  <2> QED BY <1>4, <2>8, <2>9 DEF Attempt, TypeInv, RedisInv, NodesInv, HistoryInv, redis, history
<1>5. \/ calls' = [calls EXCEPT ![c] = NoCall] /\ UNCHANGED <<jobs, faults>>
      \/ target # k.at /\ (UNCHANGED faults \/ Strikes) /\ Skip(c) /\ UNCHANGED jobs
      \/ /\ ~(k.op = "dequeue" /\ k.left = << >>) /\ Serves(target) /\ UNCHANGED faults
         /\ \E s \in Slot :
               /\ jobs[s] = NoJob
               /\ jobs' = [jobs EXCEPT ![s] = [NoJob EXCEPT !.op = k.op, !.pc = FirstPc(k.op),
                                                  !.msg = k.msg, !.on = target, !.client = c]]
               /\ calls' = [calls EXCEPT ![c].slot = s]
  BY DEF Attempt
<1> HIDE DEF k, target
<1> QED BY <1>2, <1>3, <1>4, <1>5

\* The response of a job is lost.
LEMMA AttemptFailsType ==
    ASSUME TypeInv, NEW c \in Client, AttemptFails(c)
    PROVE  /\ TypeInv' /\ NoNewAck
           /\ \E s \in Slot : jobs' = [jobs EXCEPT ![s].client = None]
<1> DEFINE s == calls[c].slot
<1>1. /\ s # 0 /\ jobs[s].on # calls[c].at /\ Strikes /\ Skip(c)
      /\ jobs' = [jobs EXCEPT ![s].client = None]
      /\ UNCHANGED <<redis, life, view, recovery, history>>
  BY DEF AttemptFails
<1>2. CallsInv /\ s \in Slot
  BY <1>1, SizesAssumption DEF TypeInv, CallsInv, CallRecord, Slot
<1>3. jobs[s].client = c /\ calls[c].left # << >>
  BY <1>1, <1>2, Names DEF CallsInv, Waits, Linked
<1> HIDE DEF s
<1>4. PICK k \in CallRecord : /\ CallNamed(k) /\ k.slot = 0 /\ k.op = calls[c].op
                              /\ k.msg = calls[c].msg
                              /\ calls' = [calls EXCEPT ![c] = k]
  BY <1>1, <1>2, <1>3, SkipIs
<1> DEFINE j == [jobs[s] EXCEPT !.client = None]
<1>5. j \in JobRecord /\ JobNamed(j) /\ j.client = None
  BY <1>2 DEF CallsInv, JobRecord, JobNamed
<1>6. jobs' = [jobs EXCEPT ![s] = j]
  BY <1>1
<1> HIDE DEF j
<1>7. CallsInv' /\ NoNewAck
  BY <1>2, <1>3, <1>4, <1>5, <1>6, CallLeavesJob, CallKeepsOp
<1>8. faults' \in 0..MaxFaults
  BY <1>1, SizesAssumption DEF Strikes, TypeInv, NodesInv
<1>9. RedisInv' /\ NodesInv' /\ HistoryInv'
  BY <1>1, <1>8 DEF TypeInv, RedisInv, NodesInv, HistoryInv, redis, history
<1> QED BY <1>1, <1>2, <1>7, <1>9 DEF TypeInv

----------------------------------------------------------------------------
(* Steps of jobs.                                                          *)

LEMMA GoesIs ==
    ASSUME CallsInv, NEW s \in Slot, NEW pc \in {"rpush", "hget", "hdel", "hdel payload"},
           jobs[s].msg \in Message, Goes(s, pc)
    PROVE  CallsInv' /\ NoNewAck
<1> DEFINE j == [jobs[s] EXCEPT !.pc = pc]
<1>1. jobs[s] \in JobRecord
  BY DEF CallsInv
<1>2. /\ j \in JobRecord /\ j.op = jobs[s].op /\ j.on = jobs[s].on /\ j.client = jobs[s].client
      /\ JobNamed(j)
  BY <1>1 DEF JobRecord, JobNamed
<1>3. jobs' = [jobs EXCEPT ![s] = j] /\ UNCHANGED calls
  BY DEF Goes
<1> HIDE DEF j
<1> QED BY <1>2, <1>3, JobGoesOn DEF NoNewAck

\* _enqueue_replica: a payload, then the ready list.
LEMMA EnqueueType ==
    ASSUME TypeInv, NEW s \in Slot, EnqueueStep(s) PROVE TypeInv' /\ NoNewAck
<1>1. /\ jobs[s].op = "enqueue" /\ jobs[s].msg \in Message /\ CallsInv
      /\ UNCHANGED <<inflight, members, nodes, received, acking, dropped, stamped>>
  BY DEF EnqueueStep, TypeInv, CallsInv, JobNamed
<1>2. NodesInv'
  BY <1>1 DEF TypeInv, NodesInv, nodes
<1>3. CASE /\ payloads' = payloads \cup {jobs[s].msg} /\ Goes(s, "rpush")
           /\ UNCHANGED <<ready, accepted>>
  BY <1>1, <1>2, <1>3, GoesIs DEF TypeInv, RedisInv, HistoryInv
<1>4. CASE /\ ready' = Append(ready, jobs[s].msg) /\ Returns(s, jobs[s].msg)
           /\ accepted' = IF jobs[s].client = None THEN accepted ELSE accepted \cup {jobs[s].msg}
           /\ UNCHANGED payloads
  <2>1. CallsInv' /\ NoNewAck
    BY <1>1, <1>4, ReturnsIs
  <2>2. RedisInv' /\ HistoryInv'
    BY <1>1, <1>4 DEF TypeInv, RedisInv, HistoryInv
  <2> QED BY <1>2, <2>1, <2>2 DEF TypeInv
<1> QED BY <1>3, <1>4 DEF EnqueueStep

\* _dequeue_local.
LEMMA DequeueType ==
    ASSUME TypeInv, NEW s \in Slot, DequeueStep(s) PROVE TypeInv' /\ NoNewAck
<1> DEFINE j == jobs[s]
<1>1. /\ j.op = "dequeue" /\ CallsInv /\ j \in JobRecord /\ JobNamed(j)
      /\ UNCHANGED <<payloads, members, nodes, accepted, acking, dropped>>
  BY DEF DequeueStep, TypeInv, CallsInv
<1>2. NodesInv'
  BY <1>1 DEF TypeInv, NodesInv, nodes
<1>3. CASE j.pc = "lpop" /\ Returns(s, None) /\ UNCHANGED <<ready, inflight, received, stamped>>
  BY <1>1, <1>2, <1>3, ReturnsIs DEF TypeInv, RedisInv, HistoryInv
<1>4. CASE /\ j.pc = "lpop" /\ ready # << >> /\ ready' = Tail(ready)
           /\ jobs' = [jobs EXCEPT ![s].pc = "hset inflight", ![s].msg = Head(ready), ![s].lag = 0]
           /\ UNCHANGED <<calls, inflight, received, stamped>>
  <2> DEFINE j1 == [j EXCEPT !.pc = "hset inflight", !.msg = Head(ready), !.lag = 0]
  <2>1. Head(ready) \in Message /\ Tail(ready) \in Seq(Message)
    <3>1. ready \in Seq(Message) /\ ready # << >>
      BY <1>4 DEF TypeInv, RedisInv
    <3> QED BY <3>1
  <2>2. /\ j1 \in JobRecord /\ j1.op = j.op /\ j1.on = j.on /\ j1.client = j.client /\ JobNamed(j1)
    BY <1>1, <2>1, Names DEF JobRecord, JobNamed, Id
  <2>3. jobs' = [jobs EXCEPT ![s] = j1]
    BY <1>4
  <2> HIDE DEF j1
  <2>4. CallsInv' /\ NoNewAck
    BY <1>1, <1>4, <2>2, <2>3, JobGoesOn DEF NoNewAck
  <2>5. RedisInv' /\ HistoryInv'
    BY <1>1, <1>4, <2>1 DEF TypeInv, RedisInv, HistoryInv
  <2> QED BY <1>2, <2>4, <2>5 DEF TypeInv
<1>5. CASE /\ j.pc = "hset inflight"
           /\ \E age \in 0..j.lag : /\ inflight' = [inflight EXCEPT ![j.msg] = age]
                                    /\ stamped' = [stamped EXCEPT ![j.msg] = age]
           /\ jobs' = [jobs EXCEPT ![s].pc = "hget", ![s].lag = 0]
           /\ UNCHANGED <<calls, ready, received>>
  <2> DEFINE j1 == [j EXCEPT !.pc = "hget", !.lag = 0]
  <2>1. /\ j1 \in JobRecord /\ j1.op = j.op /\ j1.on = j.on /\ j1.client = j.client /\ JobNamed(j1)
    BY <1>1, <1>5, Names DEF JobRecord, JobNamed
  <2>2. jobs' = [jobs EXCEPT ![s] = j1]
    BY <1>5
  <2> HIDE DEF j1
  <2>3. CallsInv' /\ NoNewAck
    BY <1>1, <1>5, <2>1, <2>2, JobGoesOn DEF NoNewAck
  <2>4. 0..j.lag \subseteq Age
    <3>1. j.lag \in 0..MaxLag
      BY <1>1 DEF JobRecord
    <3> HIDE DEF j
    <3> QED BY <3>1, SizesAssumption DEF Age, Old
  <2>5. RedisInv' /\ HistoryInv'
    BY <1>1, <1>5, <2>4 DEF TypeInv, RedisInv, HistoryInv
  <2> QED BY <1>2, <2>3, <2>5 DEF TypeInv
<1>6. CASE /\ j.pc = "hget" /\ Returns(s, j.msg)
           /\ received' = IF j.client = None THEN received ELSE received \cup {j.msg}
           /\ UNCHANGED <<ready, inflight, stamped>>
  <2>1. j.msg \in Message /\ CallsInv' /\ NoNewAck
    BY <1>1, <1>6, ReturnsIs DEF JobNamed
  <2> QED BY <1>1, <1>2, <1>6, <2>1 DEF TypeInv, RedisInv, HistoryInv
<1>7. CASE /\ j.pc = "hget" /\ Goes(s, "hdel") /\ UNCHANGED <<ready, inflight, received, stamped>>
  <2>1. j.msg \in Message
    BY <1>1, <1>7 DEF JobNamed
  <2>2. CallsInv' /\ NoNewAck
    BY <1>1, <1>7, <2>1, GoesIs
  <2> QED BY <1>1, <1>2, <1>7, <2>2 DEF TypeInv, RedisInv, HistoryInv
<1>8. CASE /\ j.pc = "hdel" /\ inflight' = [inflight EXCEPT ![j.msg] = None] /\ Returns(s, None)
           /\ UNCHANGED <<ready, received, stamped>>
  <2>1. CallsInv' /\ NoNewAck
    BY <1>1, <1>8, ReturnsIs
  <2> QED BY <1>1, <1>2, <1>8, <2>1 DEF TypeInv, RedisInv, HistoryInv
<1> QED BY <1>3, <1>4, <1>5, <1>6, <1>7, <1>8 DEF DequeueStep

\* _ack_local.
LEMMA AckType ==
    ASSUME TypeInv, NEW s \in Slot, AckStep(s) PROVE TypeInv' /\ NoNewAck
<1> DEFINE j == jobs[s]
<1>1. /\ j.op = "ack" /\ j.msg \in Message /\ CallsInv
      /\ UNCHANGED <<ready, members, nodes, history>>
  BY DEF AckStep, TypeInv, CallsInv, JobNamed
<1>2. NodesInv' /\ HistoryInv'
  BY <1>1 DEF TypeInv, NodesInv, HistoryInv, nodes, history
<1>3. CASE inflight' = [inflight EXCEPT ![j.msg] = None] /\ Goes(s, "hdel payload") /\ UNCHANGED payloads
  <2>1. CallsInv' /\ NoNewAck
    BY <1>1, <1>3, GoesIs
  <2> QED BY <1>1, <1>2, <1>3, <2>1 DEF TypeInv, RedisInv
<1>4. CASE payloads' = payloads \ {j.msg} /\ Returns(s, j.msg) /\ UNCHANGED inflight
  <2>1. CallsInv' /\ NoNewAck
    BY <1>1, <1>4, ReturnsIs
  <2> QED BY <1>1, <1>2, <1>4, <2>1 DEF TypeInv, RedisInv
<1> QED BY <1>3, <1>4 DEF AckStep

LEMMA StrikesType ==
    ASSUME TypeInv, UNCHANGED faults \/ Strikes
    PROVE  faults' \in 0..MaxFaults
  BY SizesAssumption DEF Strikes, TypeInv, NodesInv

\* What a coroutine holds is a message.
LEMMA HoldsMessages ==
    ASSUME TypeInv
    PROVE  /\ \A s \in Slot : JobHolds(s) \subseteq Message
           /\ \A n \in Node : RecoveryHolds(n) \subseteq Message
  BY DEF TypeInv, CallsInv, JobNamed, JobHolds, NodesInv, RecoveryHolds

\* A Redis command of a job raises.
LEMMA JobFailsType ==
    ASSUME TypeInv, NEW s \in Slot, JobFails(s) PROVE TypeInv' /\ NoNewAck
<1> DEFINE c == jobs[s].client
<1>1. /\ CallsInv /\ Strikes
      /\ UNCHANGED <<redis, life, view, recovery, accepted, received, acking, stamped>>
      /\ jobs' = [jobs EXCEPT ![s] = NoJob]
      /\ dropped' = dropped \cup JobHolds(s)
  BY DEF JobFails, TypeInv
<1>2. c \in Client \cup {None}
  BY <1>1 DEF CallsInv, JobRecord
<1>3. \/ c = None /\ UNCHANGED calls
      \/ c # None /\ calls' = [calls EXCEPT ![c] = NoCall]
      \/ c # None /\ jobs[s].on # calls[c].at /\ Skip(c)
  BY DEF JobFails
<1> HIDE DEF c
<1>4. CallsInv' /\ NoNewAck
  <2>1. CASE c = None /\ UNCHANGED calls
    BY <1>1, <2>1, OrphanEnds DEF c, NoNewAck
  <2>2. CASE c # None /\ calls' = [calls EXCEPT ![c] = NoCall]
    <3>1. CallNamed(NoCall) /\ c \in Client
      BY <1>2, <2>2, NoCallIs DEF CallNamed
    <3> QED BY <1>1, <2>2, <3>1, NoCallIs, NoJobIs, CallLeavesJob, CallKeepsOp DEF c
  <2>3. CASE c # None /\ jobs[s].on # calls[c].at /\ Skip(c)
    <3>1. c \in Client /\ calls[c].left # << >>
      BY <1>1, <1>2, <2>3 DEF CallsInv, Linked, c
    <3>2. PICK k \in CallRecord : /\ CallNamed(k) /\ k.slot = 0 /\ k.op = calls[c].op
                                  /\ k.msg = calls[c].msg
                                  /\ calls' = [calls EXCEPT ![c] = k]
      BY <1>1, <2>3, <3>1, SkipIs
    <3> QED BY <1>1, <3>1, <3>2, NoJobIs, CallLeavesJob, CallKeepsOp DEF c
  <2> QED BY <1>3, <2>1, <2>2, <2>3
<1>5. dropped' \subseteq Message /\ faults' \in 0..MaxFaults
  BY <1>1, HoldsMessages, StrikesType DEF TypeInv, HistoryInv
<1> QED BY <1>1, <1>4, <1>5 DEF TypeInv, RedisInv, NodesInv, HistoryInv, redis

----------------------------------------------------------------------------
(* Steps of recovery, membership and time.                                 *)

\* Parts that a step leaves alone.
LEMMA Untouched ==
    ASSUME TypeInv
    PROVE  /\ UNCHANGED <<calls, jobs>> => CallsInv'
           /\ UNCHANGED redis => RedisInv'
           /\ UNCHANGED history => HistoryInv'
  BY DEF TypeInv, CallsInv, Waits, Linked, RedisInv, HistoryInv, redis, history

\* One recovery loop goes on.
LEMMA RecoveryGoesOn ==
    ASSUME TypeInv, NEW n \in Node, NEW r \in RecoveryRecord, r.pc = "rpush" => r.msg \in Message,
           recovery' = [recovery EXCEPT ![n] = r]
    PROVE  /\ recovery' \in [Node -> RecoveryRecord]
           /\ \A m \in Node : recovery'[m] = IF m = n THEN r ELSE recovery[m]
           /\ \A m \in Node : recovery'[m].pc = "rpush" => recovery'[m].msg \in Message
  BY DEF TypeInv, NodesInv

LEMMA RecoveryType ==
    ASSUME TypeInv, NEW n \in Node, RecoveryStep(n) PROVE TypeInv'
<1> DEFINE r == recovery[n]
<1>0. r \in RecoveryRecord /\ (r.pc = "rpush" => r.msg \in Message)
  BY DEF TypeInv, NodesInv
<1>1. CASE Refresh(n)
  <2> DEFINE r1 == [Asleep EXCEPT !.pc = "list"]
  <2>1. r1 \in RecoveryRecord /\ r1.pc = "list"
    BY AsleepIs DEF Asleep, RecoveryRecord
  <2>2. recovery' = [recovery EXCEPT ![n] = r1]
    BY <1>1 DEF Refresh
  <2> HIDE DEF r1
  <2>3. view' \in [Node -> SUBSET Node] /\ \A m \in Node : m \in view'[m]
    <3>1. members \subseteq Node
      BY DEF TypeInv, RedisInv
    <3> QED BY <1>1, <3>1 DEF Refresh, TypeInv, NodesInv
  <2> QED BY <1>1, <2>1, <2>2, <2>3, RecoveryGoesOn, Untouched DEF Refresh, TypeInv, NodesInv
<1>2. CASE ListQueues(n)
  <2> DEFINE r1 == IF ready = << >> THEN Asleep ELSE [r EXCEPT !.pc = "scan"]
  <2>1. r1 \in RecoveryRecord /\ r1.pc # "rpush"
    BY <1>0, AsleepIs DEF RecoveryRecord
  <2>2. recovery' = [recovery EXCEPT ![n] = r1]
    BY <1>2 DEF ListQueues
  <2>3. UNCHANGED <<redis, life, view, faults, calls, jobs, history>>
    BY <1>2 DEF ListQueues
  <2> HIDE DEF r1
  <2> QED BY <2>1, <2>2, <2>3, RecoveryGoesOn, Untouched DEF TypeInv, NodesInv
<1>3. CASE Scan(n)
  <2> DEFINE expired == {m \in Message : inflight[m] # None /\ inflight[m] >= Timeout + r.lag}
             r1 == IF expired = {} THEN Asleep ELSE [Asleep EXCEPT !.pc = "hdel", !.items = expired]
  <2>1. r1 \in RecoveryRecord /\ r1.pc # "rpush"
    <3>1. expired \in SUBSET Message
      OBVIOUS
    <3> HIDE DEF expired
    <3> QED BY <3>1, AsleepIs DEF Asleep, RecoveryRecord
  <2>2. recovery' = [recovery EXCEPT ![n] = r1]
    BY <1>3 DEF Scan
  <2>3. UNCHANGED <<redis, life, view, faults, calls, jobs, history>>
    BY <1>3 DEF Scan
  <2> HIDE DEF r1
  <2> QED BY <2>1, <2>2, <2>3, RecoveryGoesOn, Untouched DEF TypeInv, NodesInv
<1>4. CASE TakeBack(n)
  <2>1. PICK m \in r.items :
            /\ inflight' = [inflight EXCEPT ![m] = None]
            /\ recovery' = [recovery EXCEPT ![n] = [Asleep EXCEPT !.pc = "rpush", !.msg = m,
                                                        !.items = r.items \ {m}]]
    BY <1>4 DEF TakeBack
  <2> DEFINE r1 == [Asleep EXCEPT !.pc = "rpush", !.msg = m, !.items = r.items \ {m}]
  <2>2. m \in Message /\ r.items \ {m} \in SUBSET Message
    BY <1>0, <2>1 DEF RecoveryRecord
  <2>3. r1 \in RecoveryRecord /\ r1.msg = m
    BY <2>2, AsleepIs DEF Asleep, RecoveryRecord, Id
  <2>4. recovery' = [recovery EXCEPT ![n] = r1]
    BY <2>1
  <2> HIDE DEF r1
  <2> QED BY <1>4, <2>1, <2>2, <2>3, <2>4, RecoveryGoesOn, Untouched DEF TakeBack, TypeInv, NodesInv, RedisInv
<1>5. CASE PutBack(n)
  <2> DEFINE r1 == IF r.items = {} THEN Asleep ELSE [r EXCEPT !.pc = "hdel", !.msg = None]
  <2>1. r1 \in RecoveryRecord /\ r1.pc # "rpush"
    BY <1>0, AsleepIs DEF RecoveryRecord, Id
  <2>2. recovery' = [recovery EXCEPT ![n] = r1]
    BY <1>5 DEF PutBack
  <2>3. ready' \in Seq(Message)
    BY <1>0, <1>5 DEF PutBack, TypeInv, RedisInv
  <2> HIDE DEF r1
  <2> QED BY <1>5, <2>1, <2>2, <2>3, RecoveryGoesOn, Untouched DEF PutBack, TypeInv, NodesInv, RedisInv
<1> QED BY <1>1, <1>2, <1>3, <1>4, <1>5 DEF RecoveryStep

\* A recovery task ends; a node begins to stop, starts, or registers.
LEMMA NodeType ==
    ASSUME TypeInv, NEW n \in Node, RecoveryFails(n) \/ Leave(n) \/ Start(n) \/ Register(n)
    PROVE  TypeInv'
<1>1. RecoveryHolds(n) \subseteq Message
  BY HoldsMessages
<1>2. CASE RecoveryFails(n)
  <2> DEFINE r1 == [Asleep EXCEPT !.pc = "dead"]
  <2>1. r1 \in RecoveryRecord /\ r1.pc # "rpush"
    BY AsleepIs DEF Asleep, RecoveryRecord
  <2>2. recovery' = [recovery EXCEPT ![n] = r1] /\ Strikes
    BY <1>2 DEF RecoveryFails
  <2> HIDE DEF r1
  <2>3. NodesInv'
    BY <1>2, <2>1, <2>2, RecoveryGoesOn, StrikesType DEF RecoveryFails, TypeInv, NodesInv
  <2>4. HistoryInv'
    BY <1>1, <1>2 DEF RecoveryFails, TypeInv, HistoryInv
  <2> QED BY <1>2, <2>3, <2>4, Untouched DEF RecoveryFails, TypeInv
<1>3. CASE Leave(n)
  <2>1. recovery' = [recovery EXCEPT ![n] = Asleep] /\ Strikes
    BY <1>3 DEF Leave
  <2>2. NodesInv'
    BY <1>3, <2>1, RecoveryGoesOn, AsleepIs, StrikesType DEF Leave, TypeInv, NodesInv
  <2>3. HistoryInv'
    BY <1>1, <1>3 DEF Leave, TypeInv, HistoryInv
  <2>4. RedisInv'
    BY <1>3 DEF Leave, TypeInv, RedisInv
  <2> QED BY <1>3, <2>2, <2>3, <2>4, Untouched DEF Leave, TypeInv
<1>4. CASE Start(n)
  <2>1. NodesInv'
    BY <1>4 DEF Start, TypeInv, NodesInv
  <2> QED BY <1>4, <2>1, Untouched DEF Start, TypeInv
<1>5. CASE Register(n)
  <2>1. NodesInv' /\ RedisInv'
    BY <1>5 DEF Register, TypeInv, NodesInv, RedisInv
  <2> QED BY <1>5, <2>1, Untouched DEF Register, TypeInv
<1> QED BY <1>2, <1>3, <1>4, <1>5

\* A node halts: the calls on it end, the others give up its jobs.
LEMMA HaltCalls ==
    ASSUME TypeInv, NEW n \in Node, Halt(n)
    PROVE  CallsInv' /\ NoNewAck
<1>1. /\ CallsInv
      /\ calls' = [c \in Client |-> CallAfterHalt(calls[c], n)]
      /\ jobs' = [s \in Slot |->
                    IF jobs[s].on = n THEN NoJob
                    ELSE IF jobs[s].client # None /\ calls[jobs[s].client].at = n
                         THEN [jobs[s] EXCEPT !.client = None]
                    ELSE jobs[s]]
  BY DEF Halt, TypeInv
<1>2. \A c \in Client : /\ calls[c] \in CallRecord /\ CallNamed(calls[c]) /\ Waits(c)
                        /\ calls[c].slot # 0 => calls[c].slot \in Slot
  BY <1>1, SizesAssumption DEF CallsInv, CallRecord, Slot
<1>3. \A s \in Slot : /\ jobs[s] \in JobRecord /\ JobNamed(jobs[s]) /\ Linked(s)
                      /\ jobs[s].client \in Client \cup {None}
  BY <1>1 DEF CallsInv, JobRecord
<1>4. ASSUME NEW c \in Client
      PROVE  /\ calls'[c] \in CallRecord /\ CallNamed(calls'[c])
             /\ calls'[c].op = "ack" => calls[c].op = "ack" /\ calls'[c].msg = calls[c].msg
             /\ calls'[c].slot # 0 => /\ calls'[c] = calls[c] /\ calls[c].at # n
                                      /\ jobs[calls[c].slot].on # n
  <2> DEFINE k == calls[c]
  <2>1. calls'[c] = CallAfterHalt(k, n)
    BY <1>1
  <2>2. CASE k.at = n
    <3>1. calls'[c] = NoCall
      BY <2>1, <2>2 DEF CallAfterHalt
    <3> QED BY <3>1, NoCallIs DEF CallNamed
  <2>3. CASE k.at # n /\ k.slot # 0 /\ jobs[k.slot].on = n
    <3> DEFINE k1 == [k EXCEPT !.left = Tail(k.left), !.slot = 0]
    <3>1. calls'[c] = k1
      BY <2>1, <2>3 DEF CallAfterHalt
    <3>2. jobs[k.slot].client = c /\ k.left # << >>
      <4>1. k.slot \in Slot /\ jobs[k.slot].client = c
        BY <1>2, <2>3 DEF Waits
      <4>2. Linked(k.slot) /\ c # None /\ jobs[k.slot].on # k.at
        BY <1>3, <2>3, <4>1, Names
      <4> QED BY <4>1, <4>2 DEF Linked
    <3>3. k \in CallRecord /\ CallNamed(k)
      BY <1>2
    <3> HIDE DEF k
    <3>4. k.left \in Seq(Node) /\ k.left # << >>
      BY <3>2, <3>3 DEF CallRecord
    <3>5. Tail(k.left) \in Seq(Node)
      BY <3>4
    <3>6. k1 \in CallRecord /\ CallNamed(k1) /\ k1.slot = 0 /\ k1.op = k.op /\ k1.msg = k.msg
      BY <3>3, <3>5, Names DEF CallRecord, CallNamed
    <3> QED BY <3>1, <3>6 DEF k
  <2>4. CASE k.at # n /\ ~(k.slot # 0 /\ jobs[k.slot].on = n)
    <3>1. calls'[c] = k
      BY <2>1, <2>4 DEF CallAfterHalt
    <3> QED BY <1>2, <2>4, <3>1
  <2> QED BY <2>2, <2>3, <2>4
<1>5. ASSUME NEW s \in Slot
      PROVE  /\ jobs'[s] \in JobRecord /\ JobNamed(jobs'[s])
             /\ jobs'[s].client # None => /\ jobs'[s] = jobs[s] /\ jobs[s].on # n
                                          /\ calls[jobs[s].client].at # n
             /\ jobs[s].on # n /\ (jobs[s].client # None => calls[jobs[s].client].at # n)
                   => jobs'[s] = jobs[s]
  <2> DEFINE j == jobs[s]
             orphan == j.client # None /\ calls[j.client].at = n
  <2>1. jobs'[s] = IF j.on = n THEN NoJob
                   ELSE IF orphan THEN [j EXCEPT !.client = None] ELSE j
    BY <1>1
  <2>2. j \in JobRecord /\ JobNamed(j)
    BY <1>3
  <2>3. LET j1 == [j EXCEPT !.client = None]
        IN j1 \in JobRecord /\ JobNamed(j1) /\ j1.client = None
    <3> HIDE DEF j
    <3> QED BY <2>2 DEF JobRecord, JobNamed
  <2> QED BY <2>1, <2>2, <2>3, NoJobIs
<1>6. calls' \in [Client -> CallRecord] /\ jobs' \in [Slot -> JobRecord]
  BY <1>1, <1>4, <1>5
<1>7. \A s \in Slot : Linked(s)'
  <2> SUFFICES ASSUME NEW s \in Slot, jobs'[s].client # None PROVE Linked(s)'
    BY DEF Linked
  <2> DEFINE c == jobs[s].client
  <2>1. jobs'[s] = jobs[s] /\ jobs[s].on # n /\ calls[c].at # n /\ c # None
    BY <1>5
  <2>2. c \in Client /\ calls[c].slot = s
    BY <1>3, <2>1 DEF Linked
  <2>3. calls'[c] = calls[c]
    BY <1>1, <2>1, <2>2 DEF CallAfterHalt
  <2> QED BY <1>3, <2>1, <2>3 DEF Linked
<1>8. \A c \in Client : Waits(c)'
  <2> SUFFICES ASSUME NEW c \in Client, calls'[c].slot # 0 PROVE jobs'[calls'[c].slot].client = c
    BY DEF Waits
  <2>1. calls'[c] = calls[c] /\ calls[c].at # n /\ jobs[calls[c].slot].on # n
    BY <1>4
  <2>2. calls[c].slot \in Slot /\ jobs[calls[c].slot].client = c
    BY <1>2, <2>1 DEF Waits
  <2> QED BY <1>5, <2>1, <2>2
<1> QED BY <1>4, <1>5, <1>6, <1>7, <1>8 DEF CallsInv, NoNewAck

LEMMA HaltType ==
    ASSUME TypeInv, NEW n \in Node, Halt(n) PROVE TypeInv'
<1>1. CallsInv'
  BY HaltCalls
<1>2. recovery' = [recovery EXCEPT ![n] = Asleep] /\ (UNCHANGED faults \/ Strikes)
  BY DEF Halt
<1>3. NodesInv'
  BY <1>2, RecoveryGoesOn, AsleepIs, StrikesType DEF Halt, TypeInv, NodesInv
<1>4. dropped' \subseteq Message
  BY HoldsMessages DEF Halt, TypeInv, HistoryInv
<1>5. HistoryInv'
  BY <1>4 DEF Halt, TypeInv, HistoryInv
<1> QED BY <1>1, <1>3, <1>5, Untouched DEF Halt, TypeInv

\* A second passes: coroutines that have read the clock are at most MaxLag behind.
LEMMA TickType == TypeInv /\ Tick => TypeInv' /\ NoNewAck
<1> SUFFICES ASSUME TypeInv, Tick PROVE TypeInv' /\ NoNewAck
  OBVIOUS
<1>1. \A age \in Age \cup {None} : Older(age) \in Age \cup {None}
  BY SizesAssumption DEF Older, Age, Old
<1>2. RedisInv' /\ HistoryInv'
  BY <1>1 DEF Tick, TypeInv, RedisInv, HistoryInv
<1>3. ASSUME NEW s \in Slot
      PROVE  /\ jobs'[s] \in JobRecord /\ jobs'[s].op = jobs[s].op /\ jobs'[s].pc = jobs[s].pc
             /\ jobs'[s].msg = jobs[s].msg /\ jobs'[s].on = jobs[s].on
             /\ jobs'[s].client = jobs[s].client
  <2> DEFINE j == jobs[s]
             j1 == [j EXCEPT !.lag = j.lag + 1]
  <2>1. jobs'[s] = IF j.pc = "hset inflight" THEN j1 ELSE j
    BY <1>3 DEF Tick
  <2>2. j \in JobRecord /\ (j.pc = "hset inflight" => j.lag < MaxLag)
    BY DEF Tick, TypeInv, CallsInv
  <2> HIDE DEF j
  <2>3. CASE j.pc = "hset inflight"
    <3>1. j.lag \in 0..MaxLag /\ j.lag < MaxLag
      BY <2>2, <2>3 DEF JobRecord
    <3>2. j.lag + 1 \in 0..MaxLag
      BY <3>1, SizesAssumption
    <3>3. /\ j1 \in JobRecord /\ j1.op = j.op /\ j1.pc = j.pc /\ j1.msg = j.msg /\ j1.on = j.on
          /\ j1.client = j.client
      BY <2>2, <3>2 DEF JobRecord
    <3> QED BY <2>1, <2>3, <3>3 DEF j
  <2>4. CASE j.pc # "hset inflight"
    BY <2>1, <2>2, <2>4 DEF j
  <2> QED BY <2>3, <2>4
<1>4. UNCHANGED calls
  BY DEF Tick
<1>5. CallsInv'
  <2>1. jobs' \in [Slot -> JobRecord]
    BY <1>3 DEF Tick
  <2>2. \A c \in Client : calls[c].slot # 0 => calls[c].slot \in Slot
    BY SizesAssumption DEF TypeInv, CallsInv, CallRecord, Slot
  <2>3. ASSUME NEW s \in Slot PROVE JobNamed(jobs'[s]) /\ Linked(s)'
    <3>1. JobNamed(jobs[s]) /\ Linked(s)
      BY DEF TypeInv, CallsInv
    <3>2. JobNamed(jobs'[s])
      BY <1>3, <3>1 DEF JobNamed
    <3>3. Linked(s)'
      BY <1>3, <1>4, <3>1 DEF Linked
    <3> QED BY <3>2, <3>3
  <2>4. \A c \in Client : Waits(c)'
    BY <1>3, <1>4, <2>2 DEF TypeInv, CallsInv, Waits
  <2> QED BY <1>4, <2>1, <2>3, <2>4 DEF TypeInv, CallsInv
<1>6. ASSUME NEW n \in Node
      PROVE  recovery'[n] \in RecoveryRecord /\ (recovery'[n].pc = "rpush" => recovery'[n].msg \in Message)
  <2> DEFINE r == recovery[n]
             r1 == [r EXCEPT !.lag = r.lag + 1]
  <2>1. recovery'[n] = IF r.pc \in {"list", "scan"} THEN r1 ELSE r
    BY DEF Tick
  <2>2. /\ r \in RecoveryRecord /\ (r.pc = "rpush" => r.msg \in Message)
        /\ r.pc \in {"list", "scan"} => r.lag < MaxLag
    BY DEF Tick, TypeInv, NodesInv
  <2> HIDE DEF r
  <2>3. CASE r.pc \in {"list", "scan"}
    <3>1. r.lag \in 0..MaxLag /\ r.lag < MaxLag
      BY <2>2, <2>3 DEF RecoveryRecord
    <3>2. r.lag + 1 \in 0..MaxLag
      BY <3>1, SizesAssumption
    <3>3. r1 \in RecoveryRecord /\ r1.pc = r.pc
      BY <2>2, <3>2 DEF RecoveryRecord
    <3> QED BY <2>1, <2>3, <3>3
  <2>4. CASE r.pc \notin {"list", "scan"}
    BY <2>1, <2>2, <2>4
  <2> QED BY <2>3, <2>4
<1>7. NodesInv'
  BY <1>6 DEF Tick, TypeInv, NodesInv
<1> QED BY <1>2, <1>4, <1>5, <1>7 DEF TypeInv, NoNewAck

LEMMA InitType == Init => TypeInv
<1> SUFFICES ASSUME Init PROVE TypeInv
  OBVIOUS
<1>1. CallsInv
  <2>1. \A c \in Client : calls[c] = NoCall
    BY DEF Init
  <2>2. \A s \in Slot : jobs[s] = NoJob
    BY DEF Init
  <2>3. calls \in [Client -> CallRecord] /\ jobs \in [Slot -> JobRecord]
    BY NoCallIs, NoJobIs DEF Init
  <2> QED BY <2>1, <2>2, <2>3, NoCallIs, NoJobIs DEF CallsInv, CallNamed, Waits, Linked
<1>2. NodesInv
  BY AsleepIs, SizesAssumption DEF Init, NodesInv
<1> QED BY <1>1, <1>2 DEF Init, TypeInv, RedisInv, HistoryInv

LEMMA NextType == TypeInv /\ [Next]_vars => TypeInv'
<1> SUFFICES ASSUME TypeInv, [Next]_vars PROVE TypeInv'
  OBVIOUS
<1>1. ASSUME NEW c \in Client, NEW n \in Node, CallEnqueue(c, n) \/ CallDequeue(c, n) \/ CallAck(c, n)
      PROVE  TypeInv'
  BY <1>1, CallType
<1>2. ASSUME NEW c \in Client, Attempt(c) \/ AttemptFails(c)
      PROVE  TypeInv'
  BY <1>2, AttemptType, AttemptFailsType
<1>3. ASSUME NEW s \in Slot, JobStep(s) \/ JobFails(s)
      PROVE  TypeInv'
  BY <1>3, EnqueueType, DequeueType, AckType, JobFailsType DEF JobStep
<1>4. ASSUME NEW n \in Node,
             RecoveryStep(n) \/ RecoveryFails(n) \/ Leave(n) \/ Halt(n) \/ Start(n) \/ Register(n)
      PROVE  TypeInv'
  BY <1>4, RecoveryType, NodeType, HaltType
<1>5. CASE Tick
  BY <1>5, TickType
<1>6. CASE UNCHANGED vars
  BY <1>6, Untouched DEF vars, nodes, TypeInv, NodesInv
<1> QED BY <1>1, <1>2, <1>3, <1>4, <1>5, <1>6 DEF Next

\* Redis, the calls, the jobs and the recovery loops keep their types, and a job
\* answers the call that waits for it and no other: the failover of queue_node.py
\* never has a call with no replica left waiting for another node.
THEOREM TypeCorrect == Spec => []TypeOK
<1>1. TypeInv => TypeOK
  BY TypeInvOK
<1> QED BY <1>1, InitType, NextType, PTL DEF Spec

----------------------------------------------------------------------------
(* No message is lost.                                                     *)

\* A coroutine has m in hand and may store it somewhere.
HeldByJob(m) == \E s \in Slot : jobs[s].pc \in {"hset inflight", "hget", "rpush"} /\ jobs[s].msg = m
HeldByRecovery(m) == \E n \in Node : \/ recovery[n].pc = "rpush" /\ recovery[n].msg = m
                                     \/ m \in recovery[n].items
Present(m) == m \in ToSet(ready) \/ inflight[m] # None \/ HeldByJob(m) \/ HeldByRecovery(m)

\* m is in the queue, or in the hands of somebody who found it there.
PoppedByJob(m) == \E s \in Slot : jobs[s].pc \in {"hset inflight", "hget"} /\ jobs[s].msg = m
Circulates(m) == m \in ToSet(ready) \/ inflight[m] # None \/ PoppedByJob(m) \/ HeldByRecovery(m)

\* What is around has its payload, until somebody acknowledges it.
Known == \A m \in Message : Present(m) => m \in payloads \cup acking

\* Acknowledgements have been asked for, and what a dequeue gives up for want of
\* a payload has been acknowledged.
CallAsked(c) == calls[c].op = "ack" => calls[c].msg \in acking
JobAsked(s) == jobs[s].op = "ack" \/ jobs[s].pc = "hdel" => jobs[s].msg \in acking
Asked == (\A c \in Client : CallAsked(c)) /\ (\A s \in Slot : JobAsked(s))

\* OnlyHoldersLose is not inductive: that no payload and no mark of a message is
\* removed too early rests on who removes them and on what was found missing.
LossInv == TypeInv /\ Known /\ Asked /\ OnlyHoldersLose

\* What a step may do.
Grows == acking \subseteq acking' /\ dropped \subseteq dropped' /\ payloads \subseteq payloads' \cup acking'
StaysKept == \A m \in Message : Kept(m) => Kept(m)' \/ m \in dropped' \cup acking'
StaysKnown == \A m \in Message : Present(m)' => Present(m) \/ m \in payloads' \cup acking'
Accepts == \A m \in accepted' \ accepted : m \in payloads' \cup acking' /\ Kept(m)'
NothingAppears == \A m \in Message : Circulates(m)' => Circulates(m) \/ m \in ToSet(ready')
LosesNothing == Grows /\ StaysKept /\ StaysKnown /\ Accepts /\ NothingAppears

LEMMA LossStep == LossInv /\ TypeInv' /\ Asked' /\ LosesNothing => LossInv'
<1> SUFFICES ASSUME LossInv, TypeInv', Asked', LosesNothing PROVE LossInv'
  OBVIOUS
<1>1. Grows /\ StaysKept /\ StaysKnown /\ Accepts
  BY DEF LosesNothing
<1>2. Known'
  <2> SUFFICES ASSUME NEW m \in Message, Present(m)' PROVE m \in payloads' \cup acking'
    BY DEF Known
  <2>1. Present(m) => m \in payloads \cup acking
    BY DEF LossInv, Known
  <2>2. Present(m) \/ m \in payloads' \cup acking'
    BY <1>1 DEF StaysKnown
  <2> QED BY <1>1, <2>1, <2>2 DEF Grows
<1>3. OnlyHoldersLose'
  <2> SUFFICES ASSUME NEW m \in accepted' \ acking'
               PROVE  m \in payloads' /\ (Kept(m)' \/ m \in dropped')
    BY DEF OnlyHoldersLose
  <2>1. m \in Message
    BY DEF TypeInv, HistoryInv
  <2>2. CASE m \in accepted
    <3>1. m \notin acking
      BY <1>1 DEF Grows
    <3>2. m \in payloads /\ (Kept(m) \/ m \in dropped)
      BY <2>2, <3>1 DEF LossInv, OnlyHoldersLose
    <3>3. m \in payloads' /\ (m \in dropped => m \in dropped')
      BY <1>1, <3>2 DEF Grows
    <3>4. Kept(m) => Kept(m)' \/ m \in dropped'
      BY <1>1, <2>1 DEF StaysKept
    <3> QED BY <3>2, <3>3, <3>4
  <2>3. CASE m \notin accepted
    BY <1>1, <2>3 DEF Accepts
  <2> QED BY <2>2, <2>3
<1> QED BY <1>2, <1>3 DEF LossInv

\* A coroutine goes on with what it has in hand, or ends and drops it.
JobStays(s) == \/ jobs'[s].pc = jobs[s].pc /\ jobs'[s].msg = jobs[s].msg
               \/ /\ jobs'[s].pc \notin {"hset inflight", "hget", "rpush"}
                  /\ JobHolds(s) \subseteq dropped'
RecoveryStays(n) ==
    /\ recovery'[n].items \subseteq recovery[n].items
    /\ \/ recovery'[n].pc = recovery[n].pc /\ recovery'[n].msg = recovery[n].msg
       \/ recovery'[n].pc # "rpush" /\ RecoveryHolds(n) \subseteq dropped'

LEMMA Quiet ==
    ASSUME UNCHANGED ready,
           \A m \in Message : \/ inflight'[m] = None <=> inflight[m] = None
                              \/ inflight'[m] = None /\ m \in acking',
           \A s \in Slot : JobStays(s), \A n \in Node : RecoveryStays(n)
    PROVE  StaysKept /\ StaysKnown /\ NothingAppears
<1>1. ASSUME NEW m \in Message, Kept(m) PROVE Kept(m)' \/ m \in dropped' \cup acking'
  <2>1. CASE m \in ToSet(ready)
    BY <2>1 DEF Kept
  <2>2. CASE inflight[m] # None
    BY <2>2 DEF Kept
  <2>3. ASSUME NEW s \in Slot, m \in JobHolds(s) PROVE m \in dropped' \/ Kept(m)'
    <3>1. JobStays(s) /\ jobs[s].pc = "hset inflight" /\ m = jobs[s].msg
      BY <2>3 DEF JobHolds
    <3>2. m \in dropped' \/ m \in JobHolds(s)'
      BY <2>3, <3>1 DEF JobStays, JobHolds
    <3> QED BY <3>2 DEF Kept
  <2>4. ASSUME NEW n \in Node, m \in RecoveryHolds(n) PROVE m \in dropped' \/ Kept(m)'
    <3>1. RecoveryStays(n) /\ recovery[n].pc = "rpush" /\ m = recovery[n].msg
      BY <2>4 DEF RecoveryHolds
    <3>2. m \in dropped' \/ m \in RecoveryHolds(n)'
      BY <2>4, <3>1 DEF RecoveryStays, RecoveryHolds
    <3> QED BY <3>2 DEF Kept
  <2> QED BY <1>1, <2>1, <2>2, <2>3, <2>4 DEF Kept
<1>2. ASSUME NEW m \in Message, Present(m)' PROVE Present(m) \/ m \in payloads' \cup acking'
  <2>1. HeldByJob(m)' => HeldByJob(m)
    BY DEF HeldByJob, JobStays
  <2>2. HeldByRecovery(m)' => HeldByRecovery(m)
    BY DEF HeldByRecovery, RecoveryStays
  <2> QED BY <1>2, <2>1, <2>2 DEF Present
<1>3. ASSUME NEW m \in Message, Circulates(m)' PROVE Circulates(m)
  <2>1. PoppedByJob(m)' => PoppedByJob(m)
    BY DEF PoppedByJob, JobStays
  <2>2. HeldByRecovery(m)' => HeldByRecovery(m)
    BY DEF HeldByRecovery, RecoveryStays
  <2> QED BY <1>3, <2>1, <2>2 DEF Circulates
<1> QED BY <1>1, <1>2, <1>3 DEF StaysKept, StaysKnown, NothingAppears

\* No call and no job becomes an acknowledgement that was not asked for.
LEMMA AskedStays ==
    ASSUME Asked, NoNewAck, acking \subseteq acking', \A s \in Slot : JobAsked(s)'
    PROVE  Asked'
  BY DEF Asked, NoNewAck, CallAsked

\* A job that is not a new one, nor has just missed a payload, is no new
\* acknowledgement.
LEMMA JobAskedStays ==
    ASSUME Asked, acking \subseteq acking', NEW s \in Slot,
           jobs'[s] = NoJob \/ (jobs'[s].op = jobs[s].op /\ jobs'[s].msg = jobs[s].msg
                                /\ (jobs'[s].pc = "hdel" => jobs[s].pc = "hdel"))
    PROVE  JobAsked(s)'
  BY NoJobIs DEF Asked, JobAsked

\* Nothing changes that a message could be lost by.
Idle == UNCHANGED <<ready, inflight, payloads, accepted, dropped>> /\ acking \subseteq acking'

LEMMA IdleLosesNothing ==
    ASSUME Idle, \A s \in Slot : JobStays(s), \A n \in Node : RecoveryStays(n)
    PROVE  LosesNothing
<1>1. Grows /\ Accepts
  BY DEF Idle, Grows, Accepts
<1>2. StaysKept /\ StaysKnown /\ NothingAppears
  BY Quiet DEF Idle
<1> QED BY <1>1, <1>2 DEF LosesNothing

LEMMA CallLoses ==
    ASSUME LossInv, NEW c \in Client, NEW n \in Node,
           CallEnqueue(c, n) \/ CallDequeue(c, n) \/ CallAck(c, n)
    PROVE  Asked' /\ LosesNothing
<1>1. TypeInv /\ Asked
  BY DEF LossInv
<1>2. UNCHANGED <<redis, nodes, jobs>> /\ UNCHANGED <<accepted, dropped>> /\ acking \subseteq acking'
  BY DEF CallEnqueue, CallDequeue, CallAck, Call, history
<1>3. LosesNothing
  BY <1>2, IdleLosesNothing DEF Idle, JobStays, RecoveryStays, redis, nodes
<1>4. \A s \in Slot : JobAsked(s)'
  BY <1>1, <1>2 DEF Asked, JobAsked
<1>5. ASSUME NEW d \in Client PROVE CallAsked(d)'
  <2>1. CASE CallEnqueue(c, n)
    <3>1. PICK m \in Message : Call(c, n, "enqueue", m)
      BY <2>1 DEF CallEnqueue
    <3> QED BY <1>1, <1>2, <3>1, CallIs DEF Asked, CallAsked, Id
  <2>2. CASE CallDequeue(c, n)
    <3>1. Call(c, n, "dequeue", None)
      BY <2>2 DEF CallDequeue
    <3> QED BY <1>1, <1>2, <3>1, CallIs DEF Asked, CallAsked, Id
  <2>3. CASE CallAck(c, n)
    <3>1. PICK m \in received : Call(c, n, "ack", m) /\ acking' = acking \cup {m}
      BY <2>3 DEF CallAck
    <3>2. m \in Message
      BY <1>1 DEF TypeInv, HistoryInv
    <3> QED BY <1>1, <3>1, <3>2, CallIs DEF Asked, CallAsked, Id
  <2> QED BY <2>1, <2>2, <2>3
<1> QED BY <1>3, <1>4, <1>5 DEF Asked

LEMMA AttemptLoses ==
    ASSUME LossInv, NEW c \in Client, Attempt(c) \/ AttemptFails(c)
    PROVE  Asked' /\ LosesNothing
<1>1. TypeInv /\ Asked /\ jobs \in [Slot -> JobRecord]
  <2>1. TypeInv /\ Asked
    BY DEF LossInv
  <2> QED BY <2>1 DEF TypeInv, CallsInv
<1>2. UNCHANGED <<redis, recovery, history>> /\ NoNewAck
  <2>1. UNCHANGED <<redis, recovery, history>>
    BY DEF Attempt, AttemptFails
  <2> QED BY <1>1, <2>1, AttemptType, AttemptFailsType
<1>3. Idle /\ \A n \in Node : RecoveryStays(n)
  BY <1>2 DEF Idle, RecoveryStays, redis, history
<1>4. CASE UNCHANGED jobs
  <2>1. LosesNothing
    BY <1>3, <1>4, IdleLosesNothing DEF JobStays
  <2>2. \A s \in Slot : JobAsked(s)'
    BY <1>1, <1>3, <1>4 DEF Asked, JobAsked, Idle
  <2> QED BY <1>1, <1>2, <1>3, <2>1, <2>2, AskedStays DEF Idle
<1>5. ASSUME NEW s \in Slot, Started(c, s) PROVE Asked' /\ LosesNothing
  <2>1. PICK j \in JobRecord :
            /\ j.op = calls[c].op /\ j.msg = calls[c].msg /\ j.pc = FirstPc(j.op)
            /\ j.op \in {"enqueue", "dequeue", "ack"}
            /\ jobs' = [jobs EXCEPT ![s] = j]
    BY <1>5 DEF Started
  <2>2. jobs[s] = NoJob /\ \A r \in Slot : jobs'[r] = IF r = s THEN j ELSE jobs[r]
    BY <1>1, <1>5, <2>1 DEF Started
  <2>3. j.pc \in {"hset payload", "lpop", "hdel inflight"}
    BY <2>1 DEF FirstPc
  <2>4. \A r \in Slot : JobStays(r)
    BY <2>2, <2>3, NoJobIs DEF JobStays, JobHolds
  <2>5. \A r \in Slot : JobAsked(r)'
    BY <1>1, <1>3, <2>1, <2>2, <2>3 DEF Asked, CallAsked, JobAsked, Idle
  <2>6. LosesNothing
    BY <1>3, <2>4, IdleLosesNothing
  <2> QED BY <1>1, <1>2, <1>3, <2>5, <2>6, AskedStays DEF Idle
<1>6. CASE \E s \in Slot : jobs' = [jobs EXCEPT ![s].client = None]
  <2>1. \A r \in Slot : jobs'[r].op = jobs[r].op /\ jobs'[r].pc = jobs[r].pc /\ jobs'[r].msg = jobs[r].msg
    <3>1. PICK s \in Slot : jobs' = [jobs EXCEPT ![s].client = None]
      BY <1>6
    <3>2. jobs[s] \in JobRecord /\ \A r \in Slot \ {s} : jobs'[r] = jobs[r]
      BY <1>1, <3>1
    <3> DEFINE j == jobs[s]
               j1 == [j EXCEPT !.client = None]
    <3>3. jobs'[s] = j1
      BY <1>1, <3>1
    <3>4. j1.op = j.op /\ j1.pc = j.pc /\ j1.msg = j.msg
      <4>1. j \in JobRecord
        BY <3>2
      <4> HIDE DEF j
      <4> QED BY <4>1 DEF JobRecord
    <3> HIDE DEF j1
    <3> QED BY <3>2, <3>3, <3>4
  <2>2. LosesNothing
    BY <1>3, <2>1, IdleLosesNothing DEF JobStays
  <2>3. \A s \in Slot : JobAsked(s)'
    BY <1>1, <1>3, <2>1 DEF Asked, JobAsked, Idle
  <2> QED BY <1>1, <1>2, <1>3, <2>2, <2>3, AskedStays DEF Idle
<1> QED BY <1>1, <1>4, <1>5, <1>6, AttemptType, AttemptFailsType

LEMMA AckLoses ==
    ASSUME LossInv, NEW s \in Slot, AckStep(s)
    PROVE  Asked' /\ LosesNothing
<1> DEFINE j == jobs[s]
<1>1. /\ TypeInv /\ Asked /\ jobs \in [Slot -> JobRecord] /\ inflight \in [Message -> Age \cup {None}]
      /\ j.op = "ack" /\ j.msg \in acking /\ j.pc \in {"hdel inflight", "hdel payload"}
  BY DEF LossInv, TypeInv, CallsInv, RedisInv, AckStep, Asked, JobAsked
<1>2. /\ NoNewAck /\ UNCHANGED <<ready, accepted, acking, dropped, recovery>>
      /\ inflight' = [inflight EXCEPT ![j.msg] = None] \/ inflight' = inflight
      /\ payloads' = payloads \ {j.msg} \/ payloads' = payloads
  BY <1>1, AckType DEF AckStep, nodes, history
<1>3. /\ \A r \in Slot : r # s => jobs'[r] = jobs[r]
      /\ \/ jobs'[s] = NoJob
         \/ jobs'[s].op = j.op /\ jobs'[s].msg = j.msg /\ jobs'[s].pc = "hdel payload"
  <2>1. jobs' = [jobs EXCEPT ![s].pc = "hdel payload"] \/ jobs' = [jobs EXCEPT ![s] = NoJob]
    BY DEF AckStep, Goes, Returns
  <2> QED BY <1>1, <2>1 DEF JobRecord
<1>4. \A r \in Slot : JobStays(r)
  BY <1>1, <1>3, NoJobIs DEF JobStays, JobHolds
<1>5. \A r \in Slot : JobAsked(r)'
  BY <1>1, <1>2, <1>3, JobAskedStays
<1>6. Grows /\ Accepts
  BY <1>1, <1>2 DEF Grows, Accepts
<1>7. \A m \in Message : \/ inflight'[m] = None <=> inflight[m] = None
                         \/ inflight'[m] = None /\ m \in acking'
  BY <1>1, <1>2
<1>8. StaysKept /\ StaysKnown /\ NothingAppears
  BY <1>2, <1>4, <1>7, Quiet DEF RecoveryStays
<1> QED BY <1>1, <1>2, <1>5, <1>6, <1>8, AskedStays DEF LosesNothing

LEMMA SetOfSequence ==
    ASSUME NEW q \in Seq(Message), NEW m \in Message
    PROVE  /\ ToSet(Append(q, m)) = ToSet(q) \cup {m}
           /\ q # << >> => ToSet(q) = {Head(q)} \cup ToSet(Tail(q))
<1>1. ToSet(Append(q, m)) = ToSet(q) \cup {m}
  <2>1. Append(q, m) \in Seq(Message) /\ Len(Append(q, m)) = Len(q) + 1 /\ Len(q) \in Nat
    OBVIOUS
  <2>2. \A i \in 1..Len(q) : Append(q, m)[i] = q[i]
    OBVIOUS
  <2>3. Append(q, m)[Len(q) + 1] = m
    OBVIOUS
  <2>4. /\ DOMAIN q = 1..Len(q) /\ DOMAIN Append(q, m) = 1..Len(q) + 1
        /\ 1..Len(q) + 1 = (1..Len(q)) \cup {Len(q) + 1}
    BY <2>1
  <2> QED BY <2>2, <2>3, <2>4 DEF ToSet
<1>2. ASSUME q # << >> PROVE ToSet(q) = {Head(q)} \cup ToSet(Tail(q))
  <2>1. Tail(q) \in Seq(Message) /\ Len(Tail(q)) = Len(q) - 1 /\ Len(q) \in Nat \ {0}
    BY <1>2
  <2>2. Head(q) = q[1] /\ \A i \in 1..Len(q) - 1 : Tail(q)[i] = q[i + 1]
    BY <1>2
  <2>3. DOMAIN q = 1..Len(q) /\ DOMAIN Tail(q) = 1..Len(q) - 1
    BY <2>1
  <2>4. ToSet(q) \subseteq {Head(q)} \cup ToSet(Tail(q))
    <3> SUFFICES ASSUME NEW i \in 1..Len(q) PROVE q[i] \in {Head(q)} \cup ToSet(Tail(q))
      BY <2>3 DEF ToSet
    <3>1. CASE i = 1
      BY <2>2, <3>1
    <3>2. CASE i # 1
      <4>1. i - 1 \in 1..Len(q) - 1 /\ (i - 1) + 1 = i
        BY <2>1, <3>2
      <4>2. Tail(q)[i - 1] = q[i]
        BY <2>2, <4>1
      <4> QED BY <2>3, <4>1, <4>2 DEF ToSet
    <3> QED BY <3>1, <3>2
  <2>5. ToSet(Tail(q)) \subseteq ToSet(q)
    <3> SUFFICES ASSUME NEW i \in 1..Len(q) - 1 PROVE Tail(q)[i] \in ToSet(q)
      BY <2>3 DEF ToSet
    <3>1. i + 1 \in 1..Len(q) /\ Tail(q)[i] = q[i + 1]
      BY <2>1, <2>2
    <3> QED BY <2>3, <3>1 DEF ToSet
  <2>6. Head(q) \in ToSet(q)
    BY <2>1, <2>2, <2>3 DEF ToSet
  <2> QED BY <2>4, <2>5, <2>6
<1> QED BY <1>1, <1>2

\* One job acts: what the others have in hand they keep.
OneJob(s) == (\A r \in Slot : r # s => jobs'[r] = jobs[r]) /\ UNCHANGED recovery

LEMMA OneJobActs ==
    ASSUME NEW s \in Slot, OneJob(s), NEW m \in Message
    PROVE  /\ Kept(m) => \/ Kept(m)' \/ m \in JobHolds(s)
                         \/ m \in ToSet(ready) /\ m \notin ToSet(ready')
                         \/ inflight[m] # None /\ inflight'[m] = None
           /\ Present(m)' => \/ Present(m)
                             \/ m \in ToSet(ready') /\ m \notin ToSet(ready)
                             \/ inflight'[m] # None /\ inflight[m] = None
                             \/ jobs'[s].pc \in {"hset inflight", "hget", "rpush"} /\ jobs'[s].msg = m
           /\ Circulates(m)' => \/ Circulates(m) \/ m \in ToSet(ready')
                                \/ inflight'[m] # None /\ inflight[m] = None
                                \/ jobs'[s].pc \in {"hset inflight", "hget"} /\ jobs'[s].msg = m
<1>1. ASSUME NEW r \in Slot, r # s PROVE JobHolds(r)' = JobHolds(r)
  BY <1>1 DEF OneJob, JobHolds
<1>2. \A n \in Node : RecoveryHolds(n)' = RecoveryHolds(n)
  BY DEF OneJob, RecoveryHolds
<1>3. HeldByRecovery(m)' <=> HeldByRecovery(m)
  BY DEF OneJob, HeldByRecovery
<1>4. HeldByJob(m)' => \/ HeldByJob(m)
                       \/ jobs'[s].pc \in {"hset inflight", "hget", "rpush"} /\ jobs'[s].msg = m
  <2> SUFFICES ASSUME NEW r \in Slot, jobs'[r].pc \in {"hset inflight", "hget", "rpush"},
                      jobs'[r].msg = m, r # s
               PROVE  HeldByJob(m)
    BY DEF HeldByJob
  <2>1. jobs'[r] = jobs[r]
    BY DEF OneJob
  <2> QED BY <2>1 DEF HeldByJob
<1>5. Kept(m) => \/ Kept(m)' \/ m \in JobHolds(s)
                 \/ m \in ToSet(ready) /\ m \notin ToSet(ready')
                 \/ inflight[m] # None /\ inflight'[m] = None
  BY <1>1, <1>2 DEF Kept
<1>6. Present(m)' => \/ Present(m)
                     \/ m \in ToSet(ready') /\ m \notin ToSet(ready)
                     \/ inflight'[m] # None /\ inflight[m] = None
                     \/ jobs'[s].pc \in {"hset inflight", "hget", "rpush"} /\ jobs'[s].msg = m
  BY <1>3, <1>4 DEF Present
<1>7. PoppedByJob(m)' => \/ PoppedByJob(m)
                         \/ jobs'[s].pc \in {"hset inflight", "hget"} /\ jobs'[s].msg = m
  <2> SUFFICES ASSUME NEW r \in Slot, jobs'[r].pc \in {"hset inflight", "hget"},
                      jobs'[r].msg = m, r # s
               PROVE  PoppedByJob(m)
    BY DEF PoppedByJob
  <2>1. jobs'[r] = jobs[r]
    BY DEF OneJob
  <2> QED BY <2>1 DEF PoppedByJob
<1>8. Circulates(m)' => \/ Circulates(m) \/ m \in ToSet(ready')
                        \/ inflight'[m] # None /\ inflight[m] = None
                        \/ jobs'[s].pc \in {"hset inflight", "hget"} /\ jobs'[s].msg = m
  BY <1>3, <1>7 DEF Circulates
<1> QED BY <1>5, <1>6, <1>8

LEMMA EnqueueLoses ==
    ASSUME LossInv, NEW s \in Slot, EnqueueStep(s)
    PROVE  Asked' /\ LosesNothing
<1> DEFINE j == jobs[s]
<1>1. /\ TypeInv /\ Asked /\ Known /\ jobs \in [Slot -> JobRecord] /\ ready \in Seq(Message)
      /\ j.op = "enqueue" /\ j.msg \in Message /\ j.pc \in {"hset payload", "rpush"}
      /\ UNCHANGED <<inflight, recovery, acking, dropped>>
  BY DEF LossInv, TypeInv, CallsInv, RedisInv, JobNamed, EnqueueStep, nodes
<1>2. NoNewAck
  BY <1>1, EnqueueType
<1>3. CASE /\ j.pc = "hset payload" /\ payloads' = payloads \cup {j.msg}
           /\ jobs' = [jobs EXCEPT ![s].pc = "rpush"] /\ UNCHANGED <<ready, accepted>>
  <2>1. OneJob(s) /\ jobs'[s].op = j.op /\ jobs'[s].msg = j.msg /\ jobs'[s].pc = "rpush"
    BY <1>1, <1>3 DEF OneJob, JobRecord
  <2>2. Grows /\ Accepts
    BY <1>1, <1>3 DEF Grows, Accepts
  <2>3. StaysKept
    BY <1>1, <1>3, <2>1, OneJobActs DEF StaysKept, JobHolds
  <2>4. StaysKnown
    BY <1>1, <1>3, <2>1, OneJobActs DEF StaysKnown
  <2>5. NothingAppears
    BY <1>1, <1>3, <2>1, OneJobActs DEF NothingAppears
  <2>6. \A r \in Slot : JobAsked(r)'
    BY <1>1, <2>1, JobAskedStays DEF OneJob
  <2> QED BY <1>1, <1>2, <2>2, <2>3, <2>4, <2>5, <2>6, AskedStays DEF LosesNothing
<1>4. CASE /\ j.pc = "rpush" /\ ready' = Append(ready, j.msg) /\ jobs' = [jobs EXCEPT ![s] = NoJob]
           /\ accepted' = IF j.client = None THEN accepted ELSE accepted \cup {j.msg}
           /\ UNCHANGED payloads
  <2>1. OneJob(s) /\ jobs'[s] = NoJob
    BY <1>1, <1>4 DEF OneJob
  <2>2. ToSet(ready') = ToSet(ready) \cup {j.msg}
    BY <1>1, <1>4, SetOfSequence
  <2> PICK m \in Message : m = j.msg
    BY <1>1
  <2>3. Present(m) /\ m \in payloads \cup acking
    BY <1>1, <1>4 DEF Known, Present, HeldByJob
  <2>4. Kept(m)'
    BY <2>2 DEF Kept
  <2>5. Grows /\ Accepts
    BY <1>1, <1>4, <2>3, <2>4 DEF Grows, Accepts
  <2>6. StaysKept
    BY <1>1, <1>4, <2>1, <2>2, OneJobActs DEF StaysKept, JobHolds
  <2>7. StaysKnown
    BY <1>1, <1>4, <2>1, <2>2, <2>3, NoJobIs, OneJobActs DEF StaysKnown
  <2>8. NothingAppears
    BY <1>1, <1>4, <2>1, NoJobIs, OneJobActs DEF NothingAppears
  <2>9. \A r \in Slot : JobAsked(r)'
    BY <1>1, <2>1, JobAskedStays DEF OneJob
  <2> QED BY <1>1, <1>2, <2>5, <2>6, <2>7, <2>8, <2>9, AskedStays DEF LosesNothing
<1> QED BY <1>3, <1>4 DEF EnqueueStep, Goes, Returns

LEMMA DequeueLoses ==
    ASSUME LossInv, NEW s \in Slot, DequeueStep(s)
    PROVE  Asked' /\ LosesNothing
<1> DEFINE j == jobs[s]
<1>1. /\ TypeInv /\ Asked /\ Known /\ jobs \in [Slot -> JobRecord] /\ ready \in Seq(Message)
      /\ inflight \in [Message -> Age \cup {None}]
      /\ j \in JobRecord /\ JobNamed(j) /\ j.op = "dequeue"
      /\ UNCHANGED <<recovery, payloads, accepted, acking, dropped>>
  BY DEF LossInv, TypeInv, CallsInv, RedisInv, DequeueStep, nodes
<1>2. NoNewAck /\ Grows /\ Accepts
  BY <1>1, DequeueType DEF Grows, Accepts
<1>3. SUFFICES StaysKept /\ StaysKnown /\ NothingAppears /\ JobAsked(s)' /\ OneJob(s)
  <2>1. ASSUME StaysKept, StaysKnown, NothingAppears, JobAsked(s)', OneJob(s) PROVE Asked' /\ LosesNothing
    <3>1. \A r \in Slot : r # s => JobAsked(r)'
      BY <1>1, <2>1, JobAskedStays DEF OneJob
    <3> QED BY <1>1, <1>2, <2>1, <3>1, AskedStays DEF LosesNothing
  <2> QED BY <2>1
<1>4. CASE j.pc = "lpop" /\ jobs' = [jobs EXCEPT ![s] = NoJob] /\ UNCHANGED <<ready, inflight>>
  <2>1. OneJob(s) /\ jobs'[s] = NoJob
    BY <1>1, <1>4 DEF OneJob
  <2>2. StaysKept /\ StaysKnown /\ NothingAppears
    BY <1>4, <2>1, OneJobActs, NoJobIs DEF StaysKept, StaysKnown, NothingAppears, JobHolds
  <2> QED BY <1>1, <2>1, <2>2, JobAskedStays
<1>5. CASE /\ j.pc = "lpop" /\ ready # << >> /\ ready' = Tail(ready)
           /\ jobs' = [jobs EXCEPT ![s].pc = "hset inflight", ![s].msg = Head(ready), ![s].lag = 0]
           /\ UNCHANGED inflight
  <2>1. PICK m \in Message : m = Head(ready)
    <3>1. ready \in Seq(Message) /\ ready # << >>
      BY <1>1, <1>5
    <3>2. Head(ready) \in Message
      BY <3>1
    <3> QED BY <3>2
  <2>2. /\ OneJob(s) /\ jobs'[s].op = j.op /\ jobs'[s].pc = "hset inflight" /\ jobs'[s].msg = m
    <3>1. jobs'[s] = [j EXCEPT !.pc = "hset inflight", !.msg = m, !.lag = 0]
      BY <1>1, <1>5, <2>1
    <3>2. OneJob(s)
      BY <1>1, <1>5 DEF OneJob
    <3> HIDE DEF j
    <3> QED BY <1>1, <3>1, <3>2 DEF JobRecord
  <2>3. ToSet(ready) = {m} \cup ToSet(ready')
    BY <1>1, <1>5, <2>1, SetOfSequence
  <2>4. Kept(m)' /\ Present(m)
    <3>1. m \in JobHolds(s)'
      BY <2>2 DEF JobHolds
    <3> QED BY <2>3, <3>1 DEF Kept, Present
  <2>5. StaysKept
    BY <1>5, <2>2, <2>3, <2>4, OneJobActs DEF StaysKept, JobHolds
  <2>6. StaysKnown
    BY <1>5, <2>2, <2>3, <2>4, OneJobActs DEF StaysKnown
  <2>7. Circulates(m)
    BY <2>3 DEF Circulates
  <2>8. NothingAppears
    BY <1>5, <2>2, <2>7, OneJobActs DEF NothingAppears
  <2> QED BY <1>1, <2>2, <2>5, <2>6, <2>8 DEF JobAsked
<1>6. CASE /\ j.pc = "hset inflight"
           /\ \E age \in 0..j.lag : inflight' = [inflight EXCEPT ![j.msg] = age]
           /\ jobs' = [jobs EXCEPT ![s].pc = "hget", ![s].lag = 0]
           /\ UNCHANGED ready
  <2>1. PICK m \in Message : m = j.msg
    BY <1>1, <1>6 DEF JobNamed
  <2>2. OneJob(s) /\ jobs'[s].op = j.op /\ jobs'[s].pc = "hget" /\ jobs'[s].msg = m
    <3>1. jobs'[s] = [j EXCEPT !.pc = "hget", !.lag = 0]
      BY <1>1, <1>6
    <3>2. OneJob(s)
      BY <1>1, <1>6 DEF OneJob
    <3> HIDE DEF j
    <3> QED BY <1>1, <2>1, <3>1, <3>2 DEF JobRecord
  <2>3. inflight'[m] # None /\ \A x \in Message : x # m => inflight'[x] = inflight[x]
    <3>1. 0..j.lag \subseteq Age
      <4>1. j.lag \in 0..MaxLag
        BY <1>1 DEF JobRecord
      <4> HIDE DEF j
      <4> QED BY <4>1, SizesAssumption DEF Age, Old
    <3> QED BY <1>1, <1>6, <2>1, <3>1, Names
  <2>4. Kept(m)' /\ Present(m)
    <3>1. HeldByJob(m)
      BY <1>6, <2>1 DEF HeldByJob
    <3> QED BY <2>3, <3>1 DEF Kept, Present
  <2>5. StaysKept
    <3> SUFFICES ASSUME NEW x \in Message, Kept(x), x # m PROVE Kept(x)'
      BY <2>4 DEF StaysKept
    <3>1. x \notin JobHolds(s)
      BY <2>1 DEF JobHolds
    <3>2. UNCHANGED ready /\ OneJob(s) /\ inflight'[x] = inflight[x]
      BY <1>6, <2>2, <2>3
    <3> QED BY <3>1, <3>2, OneJobActs
  <2>6. StaysKnown
    BY <1>6, <2>2, <2>3, <2>4, OneJobActs DEF StaysKnown
  <2>7. Circulates(m)
    BY <1>6, <2>1 DEF Circulates, PoppedByJob
  <2>8. NothingAppears
    BY <2>2, <2>3, <2>7, OneJobActs DEF NothingAppears
  <2> QED BY <1>1, <2>2, <2>5, <2>6, <2>8 DEF JobAsked
<1>7. CASE j.pc = "hget" /\ jobs' = [jobs EXCEPT ![s] = NoJob] /\ UNCHANGED <<ready, inflight>>
  <2>1. OneJob(s) /\ jobs'[s] = NoJob
    BY <1>1, <1>7 DEF OneJob
  <2>2. StaysKept /\ StaysKnown /\ NothingAppears
    BY <1>7, <2>1, OneJobActs, NoJobIs DEF StaysKept, StaysKnown, NothingAppears, JobHolds
  <2> QED BY <1>1, <2>1, <2>2, JobAskedStays
<1>8. CASE /\ j.pc = "hget" /\ j.msg \notin payloads /\ jobs' = [jobs EXCEPT ![s].pc = "hdel"]
           /\ UNCHANGED <<ready, inflight>>
  <2>1. PICK m \in Message : m = j.msg
    BY <1>1, <1>8 DEF JobNamed
  <2>2. OneJob(s) /\ jobs'[s].op = j.op /\ jobs'[s].pc = "hdel" /\ jobs'[s].msg = m
    <3>1. jobs'[s] = [j EXCEPT !.pc = "hdel"]
      BY <1>1, <1>8
    <3>2. OneJob(s)
      BY <1>1, <1>8 DEF OneJob
    <3> HIDE DEF j
    <3> QED BY <1>1, <2>1, <3>1, <3>2 DEF JobRecord
  <2>3. Present(m)
    BY <1>8, <2>1 DEF HeldByJob, Present
  <2>4. m \in acking'
    BY <1>1, <1>8, <2>1, <2>3 DEF Known
  <2>5. StaysKept /\ StaysKnown /\ NothingAppears
    BY <1>8, <2>2, OneJobActs DEF StaysKept, StaysKnown, NothingAppears, JobHolds
  <2> QED BY <2>2, <2>4, <2>5 DEF JobAsked
<1>9. CASE /\ j.pc = "hdel" /\ inflight' = [inflight EXCEPT ![j.msg] = None]
           /\ jobs' = [jobs EXCEPT ![s] = NoJob] /\ UNCHANGED ready
  <2>1. PICK m \in Message : m = j.msg
    BY <1>1, <1>9 DEF JobNamed
  <2>2. OneJob(s) /\ jobs'[s] = NoJob
    BY <1>1, <1>9 DEF OneJob
  <2>3. m \in acking'
    BY <1>1, <1>9, <2>1 DEF Asked, JobAsked
  <2>4. \A x \in Message : x # m => inflight'[x] = inflight[x]
    BY <1>1, <1>9, <2>1
  <2>5. inflight'[m] = None
    BY <1>1, <1>9, <2>1
  <2>6. StaysKept
    <3> SUFFICES ASSUME NEW x \in Message, Kept(x), x # m PROVE Kept(x)'
      BY <2>3 DEF StaysKept
    <3>1. x \notin JobHolds(s)
      BY <1>9 DEF JobHolds
    <3>2. UNCHANGED ready /\ inflight'[x] = inflight[x] /\ OneJob(s)
      BY <1>9, <2>2, <2>4
    <3> HIDE DEF j
    <3> QED BY <3>1, <3>2, OneJobActs
  <2>7. StaysKnown /\ NothingAppears
    BY <1>9, <2>2, <2>4, <2>5, OneJobActs, NoJobIs DEF StaysKnown, NothingAppears
  <2> QED BY <1>1, <2>2, <2>6, <2>7, JobAskedStays
<1> QED BY <1>4, <1>5, <1>6, <1>7, <1>8, <1>9 DEF DequeueStep, Goes, Returns

\* A job that fails drops a message it has popped and not yet marked.
LEMMA JobFailsLoses ==
    ASSUME LossInv, NEW s \in Slot, JobFails(s)
    PROVE  Asked' /\ LosesNothing
<1>1. /\ TypeInv /\ Asked /\ jobs \in [Slot -> JobRecord]
      /\ jobs' = [jobs EXCEPT ![s] = NoJob]
      /\ dropped' = dropped \cup JobHolds(s)
      /\ UNCHANGED <<ready, inflight, payloads, accepted, acking, recovery>>
  BY DEF LossInv, TypeInv, CallsInv, JobFails, redis
<1>2. NoNewAck
  BY <1>1, JobFailsType
<1>3. jobs'[s] = NoJob /\ \A r \in Slot : r # s => jobs'[r] = jobs[r]
  BY <1>1
<1>4. \A r \in Slot : JobStays(r)
  BY <1>1, <1>3, NoJobIs DEF JobStays
<1>5. StaysKept /\ StaysKnown /\ NothingAppears
  BY <1>1, <1>4, Quiet DEF RecoveryStays
<1>6. Grows /\ Accepts
  BY <1>1 DEF Grows, Accepts
<1>7. \A r \in Slot : JobAsked(r)'
  BY <1>1, <1>3, JobAskedStays
<1> QED BY <1>1, <1>2, <1>5, <1>6, <1>7, AskedStays DEF LosesNothing

\* One recovery loop acts: what all others have in hand they keep.
OneLoop(n) == (\A k \in Node : k # n => recovery'[k] = recovery[k]) /\ UNCHANGED jobs

LEMMA OneLoopActs ==
    ASSUME NEW n \in Node, OneLoop(n), NEW m \in Message
    PROVE  /\ Kept(m) => \/ Kept(m)' \/ m \in RecoveryHolds(n)
                         \/ m \in ToSet(ready) /\ m \notin ToSet(ready')
                         \/ inflight[m] # None /\ inflight'[m] = None
           /\ Present(m)' => \/ Present(m)
                             \/ m \in ToSet(ready') /\ m \notin ToSet(ready)
                             \/ inflight'[m] # None /\ inflight[m] = None
                             \/ recovery'[n].pc = "rpush" /\ recovery'[n].msg = m
                             \/ m \in recovery'[n].items
           /\ Circulates(m)' => \/ Circulates(m) \/ m \in ToSet(ready')
                                \/ inflight'[m] # None /\ inflight[m] = None
                                \/ recovery'[n].pc = "rpush" /\ recovery'[n].msg = m
                                \/ m \in recovery'[n].items
<1>1. ASSUME NEW k \in Node, k # n PROVE RecoveryHolds(k)' = RecoveryHolds(k)
  BY <1>1 DEF OneLoop, RecoveryHolds
<1>2. \A s \in Slot : JobHolds(s)' = JobHolds(s)
  BY DEF OneLoop, JobHolds
<1>3. (HeldByJob(m)' <=> HeldByJob(m)) /\ (PoppedByJob(m)' <=> PoppedByJob(m))
  BY DEF OneLoop, HeldByJob, PoppedByJob
<1>4. HeldByRecovery(m)' => \/ HeldByRecovery(m)
                            \/ recovery'[n].pc = "rpush" /\ recovery'[n].msg = m
                            \/ m \in recovery'[n].items
  <2> SUFFICES ASSUME NEW k \in Node, k # n,
                      \/ recovery'[k].pc = "rpush" /\ recovery'[k].msg = m
                      \/ m \in recovery'[k].items
               PROVE  HeldByRecovery(m)
    BY DEF HeldByRecovery
  <2>1. recovery'[k] = recovery[k]
    BY DEF OneLoop
  <2> QED BY <2>1 DEF HeldByRecovery
<1>5. Kept(m) => \/ Kept(m)' \/ m \in RecoveryHolds(n)
                 \/ m \in ToSet(ready) /\ m \notin ToSet(ready')
                 \/ inflight[m] # None /\ inflight'[m] = None
  BY <1>1, <1>2 DEF Kept
<1>6. Present(m)' => \/ Present(m)
                     \/ m \in ToSet(ready') /\ m \notin ToSet(ready)
                     \/ inflight'[m] # None /\ inflight[m] = None
                     \/ recovery'[n].pc = "rpush" /\ recovery'[n].msg = m
                     \/ m \in recovery'[n].items
  BY <1>3, <1>4 DEF Present
<1>7. Circulates(m)' => \/ Circulates(m) \/ m \in ToSet(ready')
                        \/ inflight'[m] # None /\ inflight[m] = None
                        \/ recovery'[n].pc = "rpush" /\ recovery'[n].msg = m
                        \/ m \in recovery'[n].items
  BY <1>3, <1>4 DEF Circulates
<1> QED BY <1>5, <1>6, <1>7

LEMMA RecoveryLoses ==
    ASSUME LossInv, NEW n \in Node, RecoveryStep(n)
    PROVE  Asked' /\ LosesNothing
<1> DEFINE r == recovery[n]
<1>1. /\ TypeInv /\ Asked /\ recovery \in [Node -> RecoveryRecord] /\ r \in RecoveryRecord
      /\ ready \in Seq(Message) /\ inflight \in [Message -> Age \cup {None}]
      /\ r.pc = "rpush" => r.msg \in Message
      /\ UNCHANGED <<payloads, calls, jobs, accepted, acking, dropped>>
  BY DEF LossInv, TypeInv, NodesInv, RedisInv, RecoveryStep, Refresh, ListQueues, Scan, TakeBack,
         PutBack, redis, history
<1>2. Asked'
  BY <1>1 DEF Asked, CallAsked, JobAsked
<1>3. Grows /\ Accepts
  BY <1>1 DEF Grows, Accepts
<1>4. SUFFICES StaysKept /\ StaysKnown /\ NothingAppears
  BY <1>2, <1>3 DEF LosesNothing
<1>5. OneLoop(n)
  BY <1>1 DEF RecoveryStep, Refresh, ListQueues, Scan, TakeBack, PutBack, OneLoop
<1>6. CASE Refresh(n) \/ ListQueues(n)
  <2>1. /\ UNCHANGED <<ready, inflight>> /\ r.pc \in {"sleep", "list"}
        /\ recovery'[n] \in {[Asleep EXCEPT !.pc = "list"], Asleep, [r EXCEPT !.pc = "scan"]}
    BY <1>1, <1>6 DEF Refresh, ListQueues, redis
  <2>2. recovery'[n].pc # "rpush" /\ recovery'[n].items \subseteq r.items
    <3>1. [Asleep EXCEPT !.pc = "list"].pc = "list" /\ [Asleep EXCEPT !.pc = "list"].items = {}
      BY AsleepIs DEF RecoveryRecord
    <3>2. [r EXCEPT !.pc = "scan"].pc = "scan" /\ [r EXCEPT !.pc = "scan"].items = r.items
      <4> HIDE DEF r
      <4> QED BY <1>1 DEF RecoveryRecord
    <3> QED BY <2>1, <3>1, <3>2, AsleepIs
  <2>3. \A k \in Node : RecoveryStays(k)
    BY <1>5, <2>1, <2>2 DEF OneLoop, RecoveryStays, RecoveryHolds
  <2> QED BY <1>1, <2>1, <2>3, Quiet DEF JobStays
<1>7. CASE Scan(n)
  <2> DEFINE expired == {m \in Message : inflight[m] # None /\ inflight[m] >= Timeout + r.lag}
  <2>1. /\ UNCHANGED <<ready, inflight>> /\ r.pc = "scan"
        /\ recovery'[n] \in {[Asleep EXCEPT !.pc = "hdel", !.items = expired], Asleep}
    BY <1>1, <1>7 DEF Scan, redis
  <2>2. \A m \in expired : inflight[m] # None
    OBVIOUS
  <2> HIDE DEF expired
  <2>3. recovery'[n].pc # "rpush" /\ recovery'[n].items \subseteq expired
    <3>1. LET r1 == [Asleep EXCEPT !.pc = "hdel", !.items = expired]
          IN r1.pc = "hdel" /\ r1.items = expired
      BY AsleepIs DEF RecoveryRecord
    <3> QED BY <2>1, <3>1, AsleepIs
  <2>4. StaysKept
    BY <1>5, <2>1, OneLoopActs DEF StaysKept, RecoveryHolds
  <2>5. \A m \in expired \cap Message : Present(m) /\ Circulates(m)
    BY <2>2 DEF Present, Circulates
  <2>6. StaysKnown /\ NothingAppears
    BY <1>5, <2>1, <2>3, <2>5, OneLoopActs DEF StaysKnown, NothingAppears
  <2> QED BY <2>4, <2>6
<1>8. CASE TakeBack(n)
  <2>1. PICK m \in r.items :
            /\ inflight' = [inflight EXCEPT ![m] = None]
            /\ recovery' = [recovery EXCEPT ![n] = [Asleep EXCEPT !.pc = "rpush", !.msg = m,
                                                        !.items = r.items \ {m}]]
    BY <1>8 DEF TakeBack
  <2>2. m \in Message
    BY <1>1, <2>1 DEF RecoveryRecord
  <2>3. recovery'[n].pc = "rpush" /\ recovery'[n].msg = m /\ recovery'[n].items = r.items \ {m}
    <3>1. recovery'[n] = [Asleep EXCEPT !.pc = "rpush", !.msg = m, !.items = r.items \ {m}]
      BY <1>1, <2>1
    <3> HIDE DEF r
    <3> QED BY <3>1, AsleepIs DEF RecoveryRecord
  <2>4. r.pc = "hdel" /\ UNCHANGED ready /\ inflight'[m] = None
        /\ \A x \in Message : x # m => inflight'[x] = inflight[x]
    BY <1>1, <1>8, <2>1, <2>2 DEF TakeBack
  <2>5. Kept(m)'
    <3>1. m \in RecoveryHolds(n)'
      BY <2>3 DEF RecoveryHolds
    <3> QED BY <3>1 DEF Kept
  <2>6. \A x \in r.items : Present(x) /\ Circulates(x)
    BY DEF HeldByRecovery, Present, Circulates
  <2>7. StaysKept
    <3> SUFFICES ASSUME NEW x \in Message, Kept(x), x # m PROVE Kept(x)'
      BY <2>5 DEF StaysKept
    <3>1. x \notin RecoveryHolds(n)
      BY <2>4 DEF RecoveryHolds
    <3> QED BY <1>5, <2>4, <3>1, OneLoopActs
  <2>8. StaysKnown /\ NothingAppears
    <3> SUFFICES ASSUME NEW x \in Message
                 PROVE  (Present(x)' => Present(x)) /\ (Circulates(x)' => Circulates(x))
      BY DEF StaysKnown, NothingAppears
    <3>1. CASE x \in r.items
      BY <2>6, <3>1
    <3>2. CASE x \notin r.items
      <4>1. x # m /\ x \notin recovery'[n].items /\ inflight'[x] = inflight[x] /\ UNCHANGED ready
        BY <2>1, <2>3, <2>4, <3>2
      <4>2. x \in ToSet(ready') => Circulates(x)
        BY <4>1 DEF Circulates
      <4> QED BY <1>5, <2>3, <4>1, <4>2, OneLoopActs
    <3> QED BY <3>1, <3>2
  <2> QED BY <2>7, <2>8
<1>9. CASE PutBack(n)
  <2>1. r.pc = "rpush" /\ r.msg \in Message /\ ready' = Append(ready, r.msg) /\ UNCHANGED inflight
    BY <1>1, <1>9 DEF PutBack
  <2> PICK m \in Message : m = r.msg
    BY <2>1
  <2>2. ToSet(ready') = ToSet(ready) \cup {m}
    BY <1>1, <2>1, SetOfSequence
  <2>3. recovery'[n].pc # "rpush" /\ recovery'[n].items \subseteq r.items
    <3>1. recovery'[n] = IF r.items = {} THEN Asleep ELSE [r EXCEPT !.pc = "hdel", !.msg = None]
      BY <1>1, <1>9 DEF PutBack
    <3>2. LET r1 == [r EXCEPT !.pc = "hdel", !.msg = None]
          IN r1.pc = "hdel" /\ r1.items = r.items
      <4> HIDE DEF r
      <4> QED BY <1>1 DEF RecoveryRecord
    <3> QED BY <3>1, <3>2, AsleepIs
  <2>4. Kept(m)'
    BY <2>2 DEF Kept
  <2>5. Present(m) /\ \A x \in r.items : Present(x)
    BY <2>1 DEF HeldByRecovery, Present
  <2>6. StaysKept
    <3> SUFFICES ASSUME NEW x \in Message, Kept(x), x # m PROVE Kept(x)'
      BY <2>4 DEF StaysKept
    <3>1. x \notin RecoveryHolds(n)
      BY DEF RecoveryHolds
    <3> QED BY <1>5, <2>1, <2>2, <3>1, OneLoopActs
  <2>7. NothingAppears
    <3>1. \A x \in r.items : Circulates(x)
      BY DEF HeldByRecovery, Circulates
    <3> QED BY <1>5, <2>1, <2>3, <3>1, OneLoopActs DEF NothingAppears
  <2>8. StaysKnown
    <3> SUFFICES ASSUME NEW x \in Message, Present(x)' PROVE Present(x)
      BY DEF StaysKnown
    <3>1. CASE x = m \/ x \in r.items
      BY <2>5, <3>1
    <3>2. CASE x # m /\ x \notin r.items
      <4>1. x \notin recovery'[n].items
        BY <2>3, <3>2
      <4> QED BY <1>5, <2>1, <2>2, <2>3, <3>2, <4>1, OneLoopActs
    <3> QED BY <3>1, <3>2
  <2> QED BY <2>6, <2>7, <2>8
<1> QED BY <1>6, <1>7, <1>8, <1>9 DEF RecoveryStep

\* A recovery task that ends drops the message it has taken back.
LEMMA NodeLoses ==
    ASSUME LossInv, NEW n \in Node, RecoveryFails(n) \/ Leave(n) \/ Start(n) \/ Register(n)
    PROVE  Asked' /\ LosesNothing
<1>1. /\ TypeInv /\ Asked /\ recovery \in [Node -> RecoveryRecord]
      /\ UNCHANGED <<ready, inflight, payloads, calls, jobs, accepted, acking>>
      /\ dropped \subseteq dropped'
  BY DEF LossInv, TypeInv, NodesInv, RecoveryFails, Leave, Start, Register, redis, history
<1>2. Asked' /\ Grows /\ Accepts
  BY <1>1 DEF Asked, CallAsked, JobAsked, Grows, Accepts
<1>3. \A k \in Node : RecoveryStays(k)
  <2>1. CASE UNCHANGED recovery
    BY <2>1 DEF RecoveryStays
  <2>2. CASE /\ recovery' \in {[recovery EXCEPT ![n] = [Asleep EXCEPT !.pc = "dead"]],
                               [recovery EXCEPT ![n] = Asleep]}
             /\ dropped' = dropped \cup RecoveryHolds(n)
    <3>1. \A k \in Node : k # n => recovery'[k] = recovery[k]
      BY <1>1, <2>2
    <3>2. recovery'[n] \in {[Asleep EXCEPT !.pc = "dead"], Asleep}
      BY <1>1, <2>2
    <3>3. [Asleep EXCEPT !.pc = "dead"].pc = "dead" /\ [Asleep EXCEPT !.pc = "dead"].items = {}
      BY AsleepIs DEF RecoveryRecord
    <3>4. recovery'[n].pc # "rpush" /\ recovery'[n].items = {}
      BY <3>2, <3>3, AsleepIs
    <3> QED BY <2>2, <3>1, <3>4 DEF RecoveryStays
  <2> QED BY <2>1, <2>2 DEF RecoveryFails, Leave, Start, Register
<1>4. StaysKept /\ StaysKnown /\ NothingAppears
  BY <1>1, <1>3, Quiet DEF JobStays
<1> QED BY <1>2, <1>4 DEF LosesNothing

\* A node that halts drops what its recovery loop and its jobs have in hand.
LEMMA HaltLoses ==
    ASSUME LossInv, NEW n \in Node, Halt(n)
    PROVE  Asked' /\ LosesNothing
<1>1. /\ TypeInv /\ Asked /\ recovery \in [Node -> RecoveryRecord] /\ jobs \in [Slot -> JobRecord]
      /\ UNCHANGED <<ready, inflight, payloads, accepted, acking>>
      /\ recovery' = [recovery EXCEPT ![n] = Asleep]
      /\ dropped' = dropped \cup RecoveryHolds(n)
                            \cup UNION {JobHolds(s) : s \in {r \in Slot : jobs[r].on = n}}
  BY DEF LossInv, TypeInv, NodesInv, CallsInv, Halt, redis
<1>2. NoNewAck
  BY <1>1, HaltCalls
<1>3. Grows /\ Accepts
  BY <1>1 DEF Grows, Accepts
<1>4. ASSUME NEW k \in Node PROVE RecoveryStays(k)
  <2>1. recovery'[k] = IF k = n THEN Asleep ELSE recovery[k]
    BY <1>1
  <2> QED BY <1>1, <2>1, AsleepIs DEF RecoveryStays
<1>5. ASSUME NEW s \in Slot
      PROVE  \/ jobs'[s] = NoJob /\ jobs[s].on = n
             \/ jobs'[s].op = jobs[s].op /\ jobs'[s].pc = jobs[s].pc /\ jobs'[s].msg = jobs[s].msg
  <2> DEFINE j == jobs[s]
             j1 == [j EXCEPT !.client = None]
  <2>1. (jobs'[s] = NoJob /\ j.on = n) \/ jobs'[s] \in {j1, j}
    BY DEF Halt
  <2>2. j \in JobRecord
    BY <1>1
  <2> HIDE DEF j
  <2>3. j1.op = j.op /\ j1.pc = j.pc /\ j1.msg = j.msg
    BY <2>2 DEF JobRecord
  <2> QED BY <2>1, <2>3 DEF j
<1>6. ASSUME NEW s \in Slot PROVE JobStays(s)
  <2>1. jobs[s].on = n => JobHolds(s) \subseteq dropped'
    BY <1>1
  <2> QED BY <1>5, <2>1, NoJobIs DEF JobStays
<1>7. StaysKept /\ StaysKnown /\ NothingAppears
  BY <1>1, <1>4, <1>6, Quiet
<1>8. \A s \in Slot : JobAsked(s)'
  BY <1>1, <1>5, JobAskedStays
<1> QED BY <1>1, <1>2, <1>3, <1>7, <1>8, AskedStays DEF LosesNothing

\* Time that passes takes no mark away.
LEMMA TickLoses == LossInv /\ Tick => Asked' /\ LosesNothing
<1> SUFFICES ASSUME LossInv, Tick PROVE Asked' /\ LosesNothing
  OBVIOUS
<1>1. /\ TypeInv /\ Asked /\ recovery \in [Node -> RecoveryRecord] /\ jobs \in [Slot -> JobRecord]
      /\ inflight \in [Message -> Age \cup {None}]
      /\ UNCHANGED <<ready, payloads, calls, accepted, acking, dropped>>
  BY DEF LossInv, TypeInv, NodesInv, CallsInv, RedisInv, Tick
<1>2. NoNewAck
  BY <1>1, TickType
<1>3. Grows /\ Accepts
  BY <1>1 DEF Grows, Accepts
<1>4. ASSUME NEW m \in Message PROVE inflight'[m] = None <=> inflight[m] = None
  <2>1. inflight'[m] = Older(inflight[m]) /\ inflight[m] \in Age \cup {None}
    BY <1>1 DEF Tick
  <2>2. \A age \in Age : Older(age) \in Age
    BY SizesAssumption, Names DEF Older, Age, Old
  <2>3. Older(None) = None
    BY DEF Older
  <2> QED BY <2>1, <2>2, <2>3, Names
<1>5. ASSUME NEW k \in Node PROVE RecoveryStays(k)
  <2> DEFINE r == recovery[k]
             r1 == [r EXCEPT !.lag = r.lag + 1]
  <2>1. recovery'[k] \in {r, r1} /\ r \in RecoveryRecord
    BY <1>1 DEF Tick
  <2> HIDE DEF r
  <2>2. r1.pc = r.pc /\ r1.msg = r.msg /\ r1.items = r.items
    BY <2>1 DEF RecoveryRecord
  <2>3. recovery'[k].pc = r.pc /\ recovery'[k].msg = r.msg /\ recovery'[k].items = r.items
    BY <2>1, <2>2
  <2> QED BY <2>3 DEF r, RecoveryStays
<1>6. ASSUME NEW s \in Slot
      PROVE  jobs'[s].op = jobs[s].op /\ jobs'[s].pc = jobs[s].pc /\ jobs'[s].msg = jobs[s].msg
  <2> DEFINE j == jobs[s]
             j1 == [j EXCEPT !.lag = j.lag + 1]
  <2>1. jobs'[s] \in {j, j1} /\ j \in JobRecord
    BY <1>1 DEF Tick
  <2> HIDE DEF j
  <2>2. j1.op = j.op /\ j1.pc = j.pc /\ j1.msg = j.msg
    BY <2>1 DEF JobRecord
  <2>3. jobs'[s].op = j.op /\ jobs'[s].pc = j.pc /\ jobs'[s].msg = j.msg
    BY <2>1, <2>2
  <2> QED BY <2>3 DEF j
<1>7. StaysKept /\ StaysKnown /\ NothingAppears
  BY <1>1, <1>4, <1>5, <1>6, Quiet DEF JobStays
<1>8. \A s \in Slot : JobAsked(s)'
  BY <1>1, <1>6, JobAskedStays
<1> QED BY <1>1, <1>2, <1>3, <1>7, <1>8, AskedStays DEF LosesNothing

LEMMA InitLoss == Init => LossInv
<1> SUFFICES ASSUME Init PROVE LossInv
  OBVIOUS
<1>1. TypeInv
  BY InitType
<1>2. /\ \A c \in Client : calls[c].op = "none"
      /\ \A s \in Slot : jobs[s].op = "none" /\ jobs[s].pc = "none"
      /\ \A n \in Node : recovery[n].pc = "sleep" /\ recovery[n].items = {}
  <2>1. /\ \A c \in Client : calls[c] = NoCall
        /\ \A s \in Slot : jobs[s] = NoJob
        /\ \A n \in Node : recovery[n] = Asleep
    BY DEF Init
  <2> QED BY <2>1, NoCallIs, NoJobIs, AsleepIs
<1>3. Asked
  BY <1>2 DEF Asked, CallAsked, JobAsked
<1>4. ASSUME NEW m \in Message PROVE ~Present(m)
  <2>1. m \notin ToSet(ready) /\ inflight[m] = None
    BY DEF Init, ToSet
  <2> QED BY <1>2, <2>1 DEF Present, HeldByJob, HeldByRecovery
<1>5. OnlyHoldersLose
  BY DEF Init, OnlyHoldersLose
<1> QED BY <1>1, <1>3, <1>4, <1>5 DEF LossInv, Known

LEMMA StepLoses == LossInv /\ [Next]_vars => Asked' /\ LosesNothing
<1> SUFFICES ASSUME LossInv, [Next]_vars PROVE Asked' /\ LosesNothing
  OBVIOUS
<1>1. ASSUME NEW c \in Client, NEW n \in Node, CallEnqueue(c, n) \/ CallDequeue(c, n) \/ CallAck(c, n)
      PROVE  Asked' /\ LosesNothing
  BY <1>1, CallLoses
<1>2. ASSUME NEW c \in Client, Attempt(c) \/ AttemptFails(c)
      PROVE  Asked' /\ LosesNothing
  BY <1>2, AttemptLoses
<1>3. ASSUME NEW s \in Slot, JobStep(s) \/ JobFails(s)
      PROVE  Asked' /\ LosesNothing
  BY <1>3, EnqueueLoses, DequeueLoses, AckLoses, JobFailsLoses DEF JobStep
<1>4. ASSUME NEW n \in Node,
             RecoveryStep(n) \/ RecoveryFails(n) \/ Leave(n) \/ Halt(n) \/ Start(n) \/ Register(n)
      PROVE  Asked' /\ LosesNothing
  BY <1>4, RecoveryLoses, NodeLoses, HaltLoses
<1>5. CASE UNCHANGED vars
  <2>1. Idle /\ (\A s \in Slot : JobStays(s)) /\ \A n \in Node : RecoveryStays(n)
    BY <1>5 DEF vars, redis, nodes, history, Idle, JobStays, RecoveryStays
  <2>2. Asked'
    BY <1>5 DEF vars, history, LossInv, Asked, CallAsked, JobAsked
  <2> QED BY <2>1, <2>2, IdleLosesNothing
<1> QED BY <1>1, <1>2, <1>3, <1>4, <1>5, TickLoses DEF Next

LEMMA NextLoss == LossInv /\ [Next]_vars => LossInv'
<1> SUFFICES ASSUME LossInv, [Next]_vars PROVE LossInv'
  OBVIOUS
<1>1. TypeInv'
  BY NextType DEF LossInv
<1> QED BY <1>1, StepLoses, LossStep

\* At-least-once delivery: for all numbers of nodes, clients and messages, and
\* whatever commands, responses and nodes fail, the calls, the recovery loops and
\* the acknowledgements of queue_node.py lose a message that nobody acknowledged
\* only if a coroutine ends between two of its Redis commands: after the LPOP of
\* _dequeue_local, or after the HDEL of recover_expired.
THEOREM NothingIsLost == Spec => []OnlyHoldersLose
<1>1. LossInv => OnlyHoldersLose
  BY DEF LossInv
<1> QED BY <1>1, InitLoss, NextLoss, PTL DEF Spec

----------------------------------------------------------------------------
(* No payload leaks while nothing fails.                                   *)

\* A message that is around other than by its enqueue.
Seen(m) == \/ m \in ToSet(ready) \/ inflight[m] # None \/ HeldByRecovery(m)
           \/ \E s \in Slot : jobs[s].pc \in {"hset inflight", "hget"} /\ jobs[s].msg = m

\* What is around was accepted: an enqueue that has made its message ready returns
\* in the same step, since no response is lost.
SeenAccepted == \A m \in Message : Seen(m) \/ m \in received \cup acking => m \in accepted

\* A message is enqueued by one call and one job, and is not accepted before.
Fresh ==
    /\ \A c \in Client : calls[c].op = "enqueue" => calls[c].msg \notin accepted
    /\ \A c, d \in Client : calls[c].op = "enqueue" /\ calls[d].op = "enqueue"
                            /\ calls[c].msg = calls[d].msg => c = d
    /\ \A s \in Slot : jobs[s].op = "enqueue" =>
           jobs[s].client # None /\ calls[jobs[s].client].msg = jobs[s].msg

\* A dequeue that gives a message up has found no payload, and none comes back.
GivesUp == \A s \in Slot : jobs[s].pc = "hdel" => jobs[s].msg \notin payloads

\* NoLeak is not inductive: a dequeue that takes the mark of a message away leaks
\* its payload if the payload was stored since it looked.
CalmInv == LossInv /\ SeenAccepted /\ Fresh /\ GivesUp /\ NoLeak

\* No call becomes an enqueue.
NoNewEnqueue == \A d \in Client : calls'[d].op = "enqueue" =>
                    calls[d].op = "enqueue" /\ calls'[d].msg = calls[d].msg

\* A job that enqueues did so before, for the same call, or was started by its call.
EnqueuesFor(r) == jobs'[r].op = "enqueue" =>
    \/ /\ jobs[r].op = "enqueue"
       /\ jobs'[r].msg = jobs[r].msg /\ jobs'[r].client = jobs[r].client
    \/ /\ jobs'[r].client \in Client
       /\ calls'[jobs'[r].client].msg = jobs'[r].msg

LEMMA FreshStays ==
    ASSUME TypeInv, TypeInv', Fresh, NoNewEnqueue, \A r \in Slot : EnqueuesFor(r),
           \A d \in Client : calls'[d].op = "enqueue" => calls'[d].msg \notin accepted'
    PROVE  Fresh'
<1>1. ASSUME NEW r \in Slot, jobs'[r].op = "enqueue"
      PROVE  jobs'[r].client # None /\ calls'[jobs'[r].client].msg = jobs'[r].msg
  <2>1. CASE /\ jobs[r].op = "enqueue"
             /\ jobs'[r].msg = jobs[r].msg /\ jobs'[r].client = jobs[r].client
    <3> DEFINE c == jobs[r].client
    <3>1. c # None /\ calls[c].msg = jobs[r].msg
      BY <2>1 DEF Fresh
    <3>2. c \in Client
      BY <3>1 DEF TypeInv, CallsInv, JobRecord
    <3>3. jobs'[r].client = c /\ Linked(r)'
      BY <2>1 DEF TypeInv, CallsInv
    <3>4. calls'[c].op = "enqueue"
      BY <1>1, <3>1, <3>3 DEF Linked
    <3> QED BY <2>1, <3>1, <3>2, <3>3, <3>4 DEF NoNewEnqueue
  <2>2. CASE jobs'[r].client \in Client /\ calls'[jobs'[r].client].msg = jobs'[r].msg
    BY <2>2, Names
  <2> QED BY <1>1, <2>1, <2>2 DEF EnqueuesFor
<1>2. \A c, d \in Client : calls'[c].op = "enqueue" /\ calls'[d].op = "enqueue"
                           /\ calls'[c].msg = calls'[d].msg => c = d
  BY DEF Fresh, NoNewEnqueue
<1> QED BY <1>1, <1>2 DEF Fresh

\* A step that accepts nothing.
LEMMA FreshQuiet ==
    ASSUME TypeInv, TypeInv', Fresh, NoNewEnqueue, \A r \in Slot : EnqueuesFor(r),
           UNCHANGED accepted
    PROVE  Fresh'
  BY FreshStays DEF Fresh, NoNewEnqueue

\* A call that ends, or goes on with its replicas.
LEMMA ReturnsFresh ==
    ASSUME TypeInv, NEW s \in Slot, NEW item, Returns(s, item)
    PROVE  /\ NoNewEnqueue /\ \A r \in Slot : EnqueuesFor(r)
           /\ jobs'[s] = NoJob /\ \A r \in Slot : r # s => jobs'[r] = jobs[r]
           /\ jobs[s].op = "enqueue" /\ jobs[s].client # None =>
                  calls' = [calls EXCEPT ![jobs[s].client] = NoCall]
<1> DEFINE c == jobs[s].client
<1>1. /\ calls \in [Client -> CallRecord] /\ jobs \in [Slot -> JobRecord] /\ CallsInv
      /\ c \in Client \cup {None}
  BY DEF TypeInv, CallsInv, JobRecord
<1>2. jobs' = [jobs EXCEPT ![s] = NoJob]
  BY DEF Returns
<1>3. jobs'[s] = NoJob /\ \A r \in Slot : r # s => jobs'[r] = jobs[r]
  BY <1>1, <1>2
<1>4. \A r \in Slot : EnqueuesFor(r)
  BY <1>3, NoJobIs DEF EnqueuesFor
<1>5. NoNewEnqueue
  <2>1. CASE c = None
    BY <2>1 DEF Returns, NoNewEnqueue
  <2>2. CASE c # None /\ jobs[s].op = "dequeue" /\ Skip(c)
    <3>1. c \in Client /\ calls[c].left # << >>
      BY <1>1, <2>2 DEF CallsInv, Linked
    <3> HIDE DEF c
    <3>2. PICK k \in CallRecord : /\ k.op = calls[c].op /\ k.msg = calls[c].msg
                                  /\ calls' = [calls EXCEPT ![c] = k]
      BY <1>1, <2>2, <3>1, SkipIs
    <3> QED BY <1>1, <3>1, <3>2 DEF NoNewEnqueue
  <2>3. CASE c # None /\ calls' = [calls EXCEPT ![c] = NoCall]
    <3>1. c \in Client
      BY <1>1, <2>3
    <3> QED BY <1>1, <2>3, <3>1, NoCallIs DEF NoNewEnqueue
  <2> QED BY <2>1, <2>2, <2>3 DEF Returns
<1> QED BY <1>3, <1>4, <1>5 DEF Returns

\* A job goes on.
LEMMA GoesFresh ==
    ASSUME NEW s \in Slot, UNCHANGED calls, \A r \in Slot : r # s => jobs'[r] = jobs[r],
           /\ jobs'[s].op = jobs[s].op
           /\ jobs[s].op = "enqueue" => /\ jobs'[s].msg = jobs[s].msg
                                        /\ jobs'[s].client = jobs[s].client
    PROVE  NoNewEnqueue /\ \A r \in Slot : EnqueuesFor(r)
  BY DEF NoNewEnqueue, EnqueuesFor

\* A message whose payload is no leak.
Around(m) == Kept(m) \/ \E s \in Slot : Settling(s, m)

\* What a step may do.
LeaksNothing == \A m \in payloads' : m \in payloads /\ Around(m) => Around(m)'
StoresForSome == \A m \in payloads' \ payloads : Around(m)'
SeesAccepted ==
    /\ accepted \subseteq accepted'
    /\ \A m \in Message : Seen(m)' => Seen(m) \/ m \in accepted'
    /\ received' \cup acking' \subseteq received \cup acking \cup accepted'
Calm == LeaksNothing /\ StoresForSome /\ SeesAccepted /\ GivesUp'

LEMMA CalmStep ==
    ASSUME CalmInv, LossInv', Fresh', Calm
    PROVE  CalmInv'
<1>1. SeenAccepted'
  BY DEF CalmInv, Calm, SeesAccepted, SeenAccepted
<1>2. NoLeak'
  <2> SUFFICES ASSUME NEW m \in payloads' PROVE Around(m)'
    BY DEF NoLeak, Around
  <2>1. CASE m \in payloads
    <3>1. Around(m)
      BY <2>1 DEF CalmInv, NoLeak, Around
    <3> QED BY <2>1, <3>1 DEF Calm, LeaksNothing
  <2>2. CASE m \notin payloads
    BY <2>2 DEF Calm, StoresForSome
  <2> QED BY <2>1, <2>2
<1> QED BY <1>1, <1>2 DEF CalmInv, Calm

\* A coroutine does not take up a message, nor give one away that it must settle.
JobQuiet(s) ==
    \/ jobs'[s].pc = jobs[s].pc /\ jobs'[s].msg = jobs[s].msg
    \/ /\ jobs[s].pc \notin {"hset inflight", "rpush", "hdel payload"}
       /\ jobs'[s].pc \notin {"hset inflight", "hget"}
       /\ jobs'[s].pc = "hdel" => jobs'[s].msg \notin payloads'
RecoveryQuiet(n) ==
    \/ recovery'[n].pc = recovery[n].pc /\ recovery'[n].msg = recovery[n].msg
       /\ recovery'[n].items = recovery[n].items
    \/ /\ recovery[n].pc # "rpush" /\ recovery'[n].pc # "rpush"
       /\ \A m \in recovery'[n].items : Seen(m)

LEMMA QuietCalm ==
    ASSUME GivesUp, UNCHANGED ready, payloads' \subseteq payloads, accepted \subseteq accepted',
           \A m \in Message : inflight'[m] = None <=> inflight[m] = None,
           received' \cup acking' \subseteq received \cup acking \cup accepted',
           payloads \subseteq Message,
           \A s \in Slot : JobQuiet(s), \A n \in Node : RecoveryQuiet(n)
    PROVE  Calm
<1>1. ASSUME NEW m \in Message, Around(m) PROVE Around(m)'
  <2>1. CASE m \in ToSet(ready)
    BY <2>1 DEF Around, Kept
  <2>2. CASE inflight[m] # None
    BY <2>2 DEF Around, Kept
  <2>3. ASSUME NEW s \in Slot, m \in JobHolds(s) PROVE Around(m)'
    <3>1. jobs[s].pc = "hset inflight" /\ m = jobs[s].msg
      BY <2>3 DEF JobHolds
    <3>2. m \in JobHolds(s)'
      BY <3>1 DEF JobQuiet, JobHolds
    <3> QED BY <3>2 DEF Around, Kept
  <2>4. ASSUME NEW n \in Node, m \in RecoveryHolds(n) PROVE Around(m)'
    <3>1. recovery[n].pc = "rpush" /\ m = recovery[n].msg
      BY <2>4 DEF RecoveryHolds
    <3>2. m \in RecoveryHolds(n)'
      BY <3>1 DEF RecoveryQuiet, RecoveryHolds
    <3> QED BY <3>2 DEF Around, Kept
  <2>5. ASSUME NEW s \in Slot, Settling(s, m) PROVE Around(m)'
    <3>1. Settling(s, m)'
      BY <2>5 DEF JobQuiet, Settling
    <3> QED BY <3>1 DEF Around
  <2> QED BY <1>1, <2>1, <2>2, <2>3, <2>4, <2>5 DEF Around, Kept
<1>2. ASSUME NEW m \in Message, Seen(m)' PROVE Seen(m)
  <2>1. ASSUME NEW n \in Node,
               \/ recovery'[n].pc = "rpush" /\ recovery'[n].msg = m
               \/ m \in recovery'[n].items
        PROVE  Seen(m)
    BY <2>1 DEF RecoveryQuiet, HeldByRecovery, Seen
  <2>2. ASSUME NEW s \in Slot, jobs'[s].pc \in {"hset inflight", "hget"}, jobs'[s].msg = m
        PROVE  Seen(m)
    BY <2>2 DEF JobQuiet, Seen
  <2> QED BY <1>2, <2>1, <2>2 DEF Seen, HeldByRecovery
<1>3. GivesUp'
  BY DEF GivesUp, JobQuiet
<1> QED BY <1>1, <1>2, <1>3 DEF Calm, LeaksNothing, StoresForSome, SeesAccepted

LEMMA OneJobCalm ==
    ASSUME NEW s \in Slot, OneJob(s), NEW m \in Message
    PROVE  /\ Around(m) => \/ Around(m)' \/ m \in JobHolds(s) \/ Settling(s, m)
                           \/ m \in ToSet(ready) /\ m \notin ToSet(ready')
                           \/ inflight[m] # None /\ inflight'[m] = None
           /\ Seen(m)' => \/ Seen(m)
                          \/ m \in ToSet(ready') /\ m \notin ToSet(ready)
                          \/ inflight'[m] # None /\ inflight[m] = None
                          \/ jobs'[s].pc \in {"hset inflight", "hget"} /\ jobs'[s].msg = m
<1>1. ASSUME NEW r \in Slot, r # s PROVE jobs'[r] = jobs[r]
  BY <1>1 DEF OneJob
<1>2. HeldByRecovery(m)' <=> HeldByRecovery(m)
  BY DEF OneJob, HeldByRecovery
<1>3. ASSUME NEW r \in Slot, r # s, Settling(r, m) PROVE Around(m)'
  <2>1. Settling(r, m)'
    BY <1>1, <1>3 DEF Settling
  <2> QED BY <2>1 DEF Around
<1>4. ASSUME NEW r \in Slot, jobs'[r].pc \in {"hset inflight", "hget"}, jobs'[r].msg = m, r # s
      PROVE  Seen(m)
  BY <1>1, <1>4 DEF Seen
<1>5. Around(m) => \/ Around(m)' \/ m \in JobHolds(s) \/ Settling(s, m)
                   \/ m \in ToSet(ready) /\ m \notin ToSet(ready')
                   \/ inflight[m] # None /\ inflight'[m] = None
  BY <1>3, OneJobActs DEF Around
<1>6. Seen(m)' => \/ Seen(m)
                  \/ m \in ToSet(ready') /\ m \notin ToSet(ready)
                  \/ inflight'[m] # None /\ inflight[m] = None
                  \/ jobs'[s].pc \in {"hset inflight", "hget"} /\ jobs'[s].msg = m
  BY <1>2, <1>4 DEF Seen
<1> QED BY <1>5, <1>6

LEMMA OneLoopCalm ==
    ASSUME NEW n \in Node, OneLoop(n), NEW m \in Message
    PROVE  /\ Around(m) => \/ Around(m)' \/ m \in RecoveryHolds(n)
                           \/ m \in ToSet(ready) /\ m \notin ToSet(ready')
                           \/ inflight[m] # None /\ inflight'[m] = None
           /\ Seen(m)' => \/ Seen(m)
                          \/ m \in ToSet(ready') /\ m \notin ToSet(ready)
                          \/ inflight'[m] # None /\ inflight[m] = None
                          \/ recovery'[n].pc = "rpush" /\ recovery'[n].msg = m
                          \/ m \in recovery'[n].items
<1>1. ASSUME NEW k \in Node, k # n,
             \/ recovery'[k].pc = "rpush" /\ recovery'[k].msg = m
             \/ m \in recovery'[k].items
      PROVE  Seen(m)
  <2>1. recovery'[k] = recovery[k]
    BY <1>1 DEF OneLoop
  <2> QED BY <1>1, <2>1 DEF Seen, HeldByRecovery
<1>2. ASSUME NEW r \in Slot, Settling(r, m) PROVE Around(m)'
  <2>1. Settling(r, m)'
    BY <1>2 DEF OneLoop, Settling
  <2> QED BY <2>1 DEF Around
<1>3. Around(m) => \/ Around(m)' \/ m \in RecoveryHolds(n)
                   \/ m \in ToSet(ready) /\ m \notin ToSet(ready')
                   \/ inflight[m] # None /\ inflight'[m] = None
  BY <1>2, OneLoopActs DEF Around
<1>4. Seen(m)' => \/ Seen(m)
                  \/ m \in ToSet(ready') /\ m \notin ToSet(ready)
                  \/ inflight'[m] # None /\ inflight[m] = None
                  \/ recovery'[n].pc = "rpush" /\ recovery'[n].msg = m
                  \/ m \in recovery'[n].items
  BY <1>1 DEF Seen, HeldByRecovery, OneLoop
<1> QED BY <1>3, <1>4

\* A call starts: an enqueue with a message that was never sent.
LEMMA CallCalm ==
    ASSUME CalmInv, NEW c \in Client, NEW n \in Node,
           CallEnqueue(c, n) \/ CallDequeue(c, n) \/ CallAck(c, n)
    PROVE  Fresh' /\ Calm
<1>1. /\ TypeInv /\ TypeInv' /\ SeenAccepted /\ Fresh /\ GivesUp
      /\ calls \in [Client -> CallRecord] /\ payloads \subseteq Message
      /\ received \subseteq Message
  BY CallType DEF CalmInv, LossInv, TypeInv, CallsInv, RedisInv, HistoryInv
<1>2. /\ UNCHANGED <<redis, nodes, jobs, accepted, received>>
      /\ acking' \subseteq acking \cup received
  BY DEF CallEnqueue, CallDequeue, CallAck, Call, history
<1>3. Calm
  <2>1. received \subseteq accepted
    BY <1>1 DEF SeenAccepted
  <2>2. UNCHANGED <<ready, inflight, payloads, recovery>>
    BY <1>2 DEF redis, nodes
  <2> QED BY <1>1, <1>2, <2>1, <2>2, QuietCalm DEF JobQuiet, RecoveryQuiet
<1>4. ASSUME NEW op, NEW m, Call(c, n, op, m)
      PROVE  /\ calls[c] = NoCall /\ calls'[c].op = op /\ calls'[c].msg = m
             /\ \A d \in Client : d # c => calls'[d] = calls[d]
  <2> DEFINE k == [NoCall EXCEPT !.op = op, !.msg = m, !.at = n, !.left = Replicas(n)]
  <2>1. k.op = op /\ k.msg = m
    BY DEF NoCall
  <2>2. calls[c] = NoCall /\ calls' = [calls EXCEPT ![c] = k]
    BY <1>4 DEF Call
  <2> HIDE DEF k
  <2> QED BY <1>1, <2>1, <2>2
<1>5. Fresh'
  <2>1. CASE CallDequeue(c, n) \/ CallAck(c, n)
    <3>1. PICK op \in {"dequeue", "ack"} : \E m : Call(c, n, op, m)
      BY <2>1 DEF CallDequeue, CallAck
    <3>2. NoNewEnqueue
      BY <1>4, <3>1 DEF NoNewEnqueue
    <3>3. \A r \in Slot : EnqueuesFor(r)
      BY <1>2 DEF EnqueuesFor
    <3> QED BY <1>1, <1>2, <3>2, <3>3, FreshQuiet
  <2>2. CASE CallEnqueue(c, n)
    <3>1. PICK m \in Message : ~Sent(m) /\ Call(c, n, "enqueue", m)
      BY <2>2 DEF CallEnqueue
    <3>2. /\ calls[c] = NoCall /\ calls'[c].op = "enqueue" /\ calls'[c].msg = m
          /\ \A d \in Client : d # c => calls'[d] = calls[d]
      BY <1>4, <3>1
    <3>3. /\ m \notin accepted
          /\ \A d \in Client : calls[d].op = "enqueue" => calls[d].msg # m
      BY <3>1 DEF Sent
    <3>4. \A d \in Client : calls'[d].op = "enqueue" => calls'[d].msg \notin accepted'
      BY <1>1, <1>2, <3>2, <3>3 DEF Fresh
    <3>5. ASSUME NEW d \in Client, NEW e \in Client, calls'[d].op = "enqueue",
                 calls'[e].op = "enqueue", calls'[d].msg = calls'[e].msg
          PROVE  d = e
      BY <1>1, <3>2, <3>3, <3>5 DEF Fresh
    <3>6. ASSUME NEW r \in Slot, jobs'[r].op = "enqueue"
          PROVE  jobs'[r].client # None /\ calls'[jobs'[r].client].msg = jobs'[r].msg
      <4>1. jobs'[r] = jobs[r] /\ jobs[r].op = "enqueue"
        BY <1>2, <3>6
      <4>2. jobs[r].client # None /\ calls[jobs[r].client].msg = jobs[r].msg
        BY <1>1, <4>1 DEF Fresh
      <4>3. jobs[r].client \in Client
        BY <1>1, <4>2 DEF TypeInv, CallsInv, JobRecord
      <4>4. calls[jobs[r].client].op = "enqueue"
        BY <1>1, <4>1, <4>2 DEF TypeInv, CallsInv, Linked
      <4>5. jobs[r].client # c
        BY <3>2, <4>4, NoCallIs
      <4> QED BY <3>2, <4>1, <4>2, <4>3, <4>5
    <3> QED BY <3>4, <3>5, <3>6 DEF Fresh
  <2> QED BY <2>1, <2>2
<1> QED BY <1>3, <1>5

LEMMA AttemptCalm ==
    ASSUME CalmInv, NEW c \in Client, Attempt(c)
    PROVE  Fresh' /\ Calm
<1> DEFINE k == calls[c]
           target == IF k.left = << >> THEN k.at ELSE Head(k.left)
<1>1. /\ TypeInv /\ TypeInv' /\ CallsInv /\ Fresh /\ GivesUp
      /\ calls \in [Client -> CallRecord] /\ jobs \in [Slot -> JobRecord]
      /\ payloads \subseteq Message /\ k \in CallRecord
      /\ UNCHANGED <<ready, inflight, payloads, recovery, accepted, received, acking>>
  BY AttemptType DEF CalmInv, LossInv, TypeInv, CallsInv, RedisInv, Attempt, redis, history
<1>2. UNCHANGED jobs \/ \E s \in Slot : Started(c, s)
  BY <1>1, AttemptType
<1>3. \A r \in Slot : JobQuiet(r)
  <2>1. CASE UNCHANGED jobs
    BY <2>1 DEF JobQuiet
  <2>2. ASSUME NEW s \in Slot, Started(c, s) PROVE \A r \in Slot : JobQuiet(r)
    <3>1. PICK j \in JobRecord : /\ j.pc = FirstPc(j.op)
                                 /\ j.op \in {"enqueue", "dequeue", "ack"}
                                 /\ jobs' = [jobs EXCEPT ![s] = j]
      BY <2>2 DEF Started
    <3>2. jobs[s] = NoJob /\ \A r \in Slot : jobs'[r] = IF r = s THEN j ELSE jobs[r]
      BY <1>1, <2>2, <3>1 DEF Started
    <3>3. j.pc \in {"hset payload", "lpop", "hdel inflight"}
      BY <3>1 DEF FirstPc
    <3> QED BY <3>2, <3>3, NoJobIs DEF JobQuiet
  <2> QED BY <1>2, <2>1, <2>2
<1>4. Calm
  BY <1>1, <1>3, QuietCalm DEF RecoveryQuiet
<1>5. CASE calls' = [calls EXCEPT ![c] = NoCall] /\ UNCHANGED jobs
  <2>1. NoNewEnqueue
    BY <1>1, <1>5, NoCallIs DEF NoNewEnqueue
  <2>2. \A r \in Slot : EnqueuesFor(r)
    BY <1>5 DEF EnqueuesFor
  <2> QED BY <1>1, <1>4, <2>1, <2>2, FreshQuiet
<1>6. CASE k.left # << >> /\ Skip(c) /\ UNCHANGED jobs
  <2>1. PICK k1 \in CallRecord : /\ k1.op = k.op /\ k1.msg = k.msg
                                 /\ calls' = [calls EXCEPT ![c] = k1]
    BY <1>1, <1>6, SkipIs
  <2>2. NoNewEnqueue
    BY <1>1, <2>1 DEF NoNewEnqueue
  <2>3. \A r \in Slot : EnqueuesFor(r)
    BY <1>6 DEF EnqueuesFor
  <2> QED BY <1>1, <1>4, <2>2, <2>3, FreshQuiet
<1> DEFINE j == [NoJob EXCEPT !.op = k.op, !.pc = FirstPc(k.op),
                              !.msg = k.msg, !.on = target, !.client = c]
<1>7. ASSUME NEW s \in Slot, calls' = [calls EXCEPT ![c].slot = s], jobs' = [jobs EXCEPT ![s] = j]
      PROVE  Fresh'
  <2> HIDE DEF k, target
  <2>1. /\ calls'[c].op = calls[c].op /\ calls'[c].msg = calls[c].msg
        /\ \A d \in Client : d # c => calls'[d] = calls[d]
    BY <1>1, <1>7 DEF CallRecord
  <2>2. NoNewEnqueue
    BY <2>1 DEF NoNewEnqueue
  <2>3. j.client = c /\ j.msg = k.msg
    BY DEF NoJob
  <2>4. \A r \in Slot : jobs'[r] = IF r = s THEN j ELSE jobs[r]
    BY <1>1, <1>7
  <2> HIDE DEF j
  <2>5. \A r \in Slot : EnqueuesFor(r)
    BY <2>1, <2>3, <2>4 DEF EnqueuesFor, k
  <2> QED BY <1>1, <2>2, <2>5, FreshQuiet
<1>8. \/ calls' = [calls EXCEPT ![c] = NoCall] /\ UNCHANGED jobs
      \/ target # k.at /\ Skip(c) /\ UNCHANGED jobs
      \/ \E s \in Slot : /\ jobs' = [jobs EXCEPT ![s] = j]
                         /\ calls' = [calls EXCEPT ![c].slot = s]
  BY DEF Attempt
<1>9. target # k.at => k.left # << >>
  OBVIOUS
<1> HIDE DEF k, target, j
<1> QED BY <1>4, <1>5, <1>6, <1>7, <1>8, <1>9

\* _enqueue_replica: no other enqueue has this message, so its payload is stored
\* once, before it is accepted.
LEMMA EnqueueCalm ==
    ASSUME CalmInv, NEW s \in Slot, EnqueueStep(s)
    PROVE  Fresh' /\ Calm
<1> DEFINE j == jobs[s]
           c == j.client
<1>1. /\ TypeInv /\ TypeInv' /\ Asked /\ Fresh /\ GivesUp /\ SeenAccepted
      /\ calls \in [Client -> CallRecord] /\ jobs \in [Slot -> JobRecord]
      /\ ready \in Seq(Message)
      /\ j.op = "enqueue" /\ j.msg \in Message
      /\ UNCHANGED <<inflight, recovery, received, acking>>
  BY EnqueueType DEF CalmInv, LossInv, TypeInv, CallsInv, RedisInv, JobNamed, EnqueueStep, nodes
<1> PICK m \in Message : m = j.msg
  BY <1>1
<1>2. c \in Client /\ calls[c].op = "enqueue" /\ calls[c].msg = m
  <2>1. c # None /\ calls[c].msg = m
    BY <1>1 DEF Fresh
  <2>2. c \in Client
    BY <1>1, <2>1 DEF JobRecord
  <2>3. calls[c].op = "enqueue"
    BY <1>1, <2>1 DEF TypeInv, CallsInv, Linked
  <2> QED BY <2>1, <2>2, <2>3
<1>3. m \notin accepted
  BY <1>1, <1>2 DEF Fresh
<1>4. CASE /\ j.pc = "hset payload" /\ payloads' = payloads \cup {m}
           /\ jobs' = [jobs EXCEPT ![s].pc = "rpush"] /\ UNCHANGED <<ready, accepted, calls>>
  <2>1. /\ OneJob(s) /\ jobs'[s].op = j.op /\ jobs'[s].msg = m /\ jobs'[s].pc = "rpush"
        /\ jobs'[s].client = c
    BY <1>1, <1>4 DEF OneJob, JobRecord
  <2> HIDE DEF c, j
  <2>2. Fresh'
    BY <1>1, <1>4, <2>1, GoesFresh, FreshQuiet DEF OneJob, j, c
  <2>3. Around(m)'
    <3>1. Settling(s, m)'
      BY <2>1 DEF Settling
    <3> QED BY <3>1 DEF Around
  <2>4. LeaksNothing
    <3> SUFFICES ASSUME NEW x \in Message, Around(x), x # m PROVE Around(x)'
      BY <2>3, <1>1 DEF LeaksNothing, TypeInv, RedisInv
    <3>1. x \notin JobHolds(s) /\ ~Settling(s, x)
      BY <1>4 DEF JobHolds, Settling, j
    <3> QED BY <1>1, <1>4, <2>1, <3>1, OneJobCalm
  <2>5. StoresForSome
    BY <1>4, <2>3 DEF StoresForSome
  <2>6. SeesAccepted
    BY <1>1, <1>4, <2>1, OneJobCalm DEF SeesAccepted
  <2>7. GivesUp'
    <3> SUFFICES ASSUME NEW r \in Slot, jobs'[r].pc = "hdel" PROVE jobs'[r].msg \notin payloads'
      BY DEF GivesUp
    <3>1. jobs'[r] = jobs[r] /\ jobs[r].pc = "hdel"
      BY <2>1 DEF OneJob
    <3>2. jobs[r].msg \in acking /\ jobs[r].msg \in Message
      BY <1>1, <3>1 DEF Asked, JobAsked, TypeInv, CallsInv, JobNamed
    <3>3. jobs[r].msg # m
      BY <1>1, <1>3, <3>2 DEF SeenAccepted
    <3>4. jobs[r].msg \notin payloads
      BY <1>1, <3>1 DEF GivesUp
    <3>5. payloads' = payloads \cup {m}
      BY <1>4
    <3> QED BY <3>1, <3>3, <3>4, <3>5
  <2> QED BY <2>2, <2>4, <2>5, <2>6, <2>7 DEF Calm
<1>5. CASE /\ j.pc = "rpush" /\ ready' = Append(ready, m) /\ Returns(s, m)
           /\ accepted' = accepted \cup {m} /\ UNCHANGED payloads
  <2>1. /\ NoNewEnqueue /\ \A r \in Slot : EnqueuesFor(r)
        /\ jobs'[s] = NoJob /\ \A r \in Slot : r # s => jobs'[r] = jobs[r]
        /\ calls' = [calls EXCEPT ![c] = NoCall]
    BY <1>1, <1>2, <1>5, Names, ReturnsFresh
  <2>2. OneJob(s)
    BY <1>1, <2>1 DEF OneJob
  <2>3. ToSet(ready') = ToSet(ready) \cup {m}
    BY <1>1, <1>5, SetOfSequence
  <2> HIDE DEF c, j
  <2>4. Fresh'
    <3> SUFFICES ASSUME NEW d \in Client, calls'[d].op = "enqueue" PROVE calls'[d].msg \notin accepted'
      BY <1>1, <2>1, FreshStays
    <3>1. d # c /\ calls'[d] = calls[d]
      BY <1>1, <1>2, <2>1, NoCallIs
    <3>2. calls[d].op = "enqueue" /\ calls[d].msg # m /\ calls[d].msg \notin accepted
      BY <1>1, <1>2, <3>1 DEF Fresh
    <3> QED BY <1>5, <3>1, <3>2
  <2>5. Around(m)'
    BY <2>3 DEF Around, Kept
  <2>6. LeaksNothing
    <3> SUFFICES ASSUME NEW x \in Message, Around(x), x # m PROVE Around(x)'
      BY <2>5, <1>1 DEF LeaksNothing, TypeInv, RedisInv
    <3>1. x \notin JobHolds(s) /\ ~Settling(s, x)
      BY <1>5 DEF JobHolds, Settling, j
    <3> QED BY <1>1, <2>2, <2>3, <3>1, OneJobCalm
  <2>7. StoresForSome
    BY <1>5 DEF StoresForSome
  <2>8. SeesAccepted
    <3>1. jobs'[s].pc \notin {"hset inflight", "hget"}
      BY <2>1, NoJobIs
    <3> QED BY <1>1, <1>5, <2>2, <2>3, <3>1, OneJobCalm DEF SeesAccepted
  <2>9. GivesUp'
    <3>1. \A r \in Slot : jobs'[r].pc = "hdel" => jobs'[r] = jobs[r]
      BY <2>1, NoJobIs
    <3> QED BY <1>1, <1>5, <3>1 DEF GivesUp
  <2> QED BY <2>4, <2>6, <2>7, <2>8, <2>9 DEF Calm
<1>6. c # None
  BY <1>2, Names
<1> QED BY <1>1, <1>4, <1>5, <1>6 DEF EnqueueStep, Goes

\* _ack_local: the payload of a message whose mark was removed is about to go.
LEMMA AckCalm ==
    ASSUME CalmInv, NEW s \in Slot, AckStep(s)
    PROVE  Fresh' /\ Calm
<1> DEFINE j == jobs[s]
<1>1. /\ TypeInv /\ TypeInv' /\ Fresh /\ GivesUp
      /\ jobs \in [Slot -> JobRecord] /\ payloads \subseteq Message
      /\ inflight \in [Message -> Age \cup {None}]
      /\ j.op = "ack" /\ j.msg \in Message
      /\ UNCHANGED <<ready, recovery, accepted, received, acking>>
  BY AckType DEF CalmInv, LossInv, TypeInv, CallsInv, RedisInv, JobNamed, AckStep, nodes, history
<1> PICK m \in Message : m = j.msg
  BY <1>1
<1>2. CASE /\ j.pc = "hdel inflight" /\ inflight' = [inflight EXCEPT ![m] = None]
           /\ jobs' = [jobs EXCEPT ![s].pc = "hdel payload"] /\ UNCHANGED <<payloads, calls>>
  <2>1. /\ OneJob(s) /\ jobs'[s].op = j.op /\ jobs'[s].msg = m /\ jobs'[s].pc = "hdel payload"
    BY <1>1, <1>2 DEF OneJob, JobRecord
  <2>2. inflight'[m] = None /\ \A x \in Message : x # m => inflight'[x] = inflight[x]
    BY <1>1, <1>2
  <2> HIDE DEF j
  <2>3. Fresh'
    BY <1>1, <1>2, <2>1, GoesFresh, FreshQuiet DEF OneJob, j
  <2>4. Around(m)'
    <3>1. Settling(s, m)'
      BY <2>1 DEF Settling
    <3> QED BY <3>1 DEF Around
  <2>5. LeaksNothing
    <3> SUFFICES ASSUME NEW x \in Message, Around(x), x # m PROVE Around(x)'
      BY <2>4, <1>1, <1>2 DEF LeaksNothing
    <3>1. x \notin JobHolds(s) /\ ~Settling(s, x)
      BY <1>2 DEF JobHolds, Settling, j
    <3>2. UNCHANGED ready /\ inflight'[x] = inflight[x] /\ OneJob(s)
      BY <1>1, <2>1, <2>2
    <3> QED BY <3>1, <3>2, OneJobCalm
  <2>6. StoresForSome /\ SeesAccepted
    BY <1>1, <1>2, <2>1, <2>2, OneJobCalm DEF StoresForSome, SeesAccepted
  <2>7. GivesUp'
    <3>1. \A r \in Slot : jobs'[r].pc = "hdel" => jobs'[r] = jobs[r]
      BY <2>1 DEF OneJob
    <3>2. UNCHANGED payloads
      BY <1>2
    <3> QED BY <1>1, <3>1, <3>2 DEF GivesUp
  <2> QED BY <2>3, <2>5, <2>6, <2>7 DEF Calm
<1>3. CASE /\ j.pc = "hdel payload" /\ payloads' = payloads \ {m} /\ Returns(s, m)
           /\ UNCHANGED inflight
  <2>1. /\ NoNewEnqueue /\ \A r \in Slot : EnqueuesFor(r)
        /\ jobs'[s] = NoJob /\ \A r \in Slot : r # s => jobs'[r] = jobs[r]
    BY <1>1, <1>3, ReturnsFresh
  <2>2. OneJob(s)
    BY <1>1, <2>1 DEF OneJob
  <2> HIDE DEF j
  <2>3. Fresh'
    BY <1>1, <2>1, FreshQuiet
  <2>4. LeaksNothing
    <3> SUFFICES ASSUME NEW x \in Message, Around(x), x # m PROVE Around(x)'
      BY <1>1, <1>3 DEF LeaksNothing
    <3>1. x \notin JobHolds(s) /\ ~Settling(s, x)
      BY <1>3 DEF JobHolds, Settling, j
    <3> QED BY <1>1, <1>3, <2>2, <3>1, OneJobCalm
  <2>5. StoresForSome /\ SeesAccepted
    <3>1. jobs'[s].pc \notin {"hset inflight", "hget"}
      BY <2>1, NoJobIs
    <3> QED BY <1>1, <1>3, <2>2, <3>1, OneJobCalm DEF StoresForSome, SeesAccepted
  <2>6. GivesUp'
    <3>1. \A r \in Slot : jobs'[r].pc = "hdel" => jobs'[r] = jobs[r]
      BY <2>1, NoJobIs
    <3> QED BY <1>1, <1>3, <3>1 DEF GivesUp
  <2> QED BY <2>3, <2>4, <2>5, <2>6 DEF Calm
<1> QED BY <1>1, <1>2, <1>3 DEF AckStep, Goes

\* _dequeue_local: a message taken from the ready list, marked, and handed out, or
\* given up without its payload.
LEMMA DequeueCalm ==
    ASSUME CalmInv, NEW s \in Slot, DequeueStep(s)
    PROVE  Fresh' /\ Calm
<1> DEFINE j == jobs[s]
<1>1. /\ TypeInv /\ TypeInv' /\ Fresh /\ GivesUp /\ SeenAccepted
      /\ jobs \in [Slot -> JobRecord] /\ ready \in Seq(Message) /\ payloads \subseteq Message
      /\ inflight \in [Message -> Age \cup {None}]
      /\ j \in JobRecord /\ JobNamed(j) /\ j.op = "dequeue"
      /\ UNCHANGED <<recovery, payloads, accepted, acking>>
  BY DequeueType DEF CalmInv, LossInv, TypeInv, CallsInv, RedisInv, DequeueStep, nodes
<1>2. StoresForSome /\ accepted \subseteq accepted'
  BY <1>1 DEF StoresForSome
<1>3. ASSUME NEW item, Returns(s, item)
      PROVE  Fresh' /\ jobs'[s] = NoJob /\ OneJob(s)
  <2>1. /\ NoNewEnqueue /\ \A r \in Slot : EnqueuesFor(r)
        /\ jobs'[s] = NoJob /\ \A r \in Slot : r # s => jobs'[r] = jobs[r]
    BY <1>1, <1>3, ReturnsFresh
  <2> QED BY <1>1, <2>1, FreshQuiet DEF OneJob
<1>4. ASSUME NEW j1 \in JobRecord, j1.op = j.op, jobs' = [jobs EXCEPT ![s] = j1], UNCHANGED calls
      PROVE  Fresh' /\ jobs'[s] = j1 /\ OneJob(s)
  <2>1. jobs'[s] = j1 /\ \A r \in Slot : r # s => jobs'[r] = jobs[r]
    BY <1>1, <1>4
  <2>2. NoNewEnqueue /\ \A r \in Slot : EnqueuesFor(r)
    BY <1>1, <1>4, <2>1, GoesFresh
  <2> QED BY <1>1, <2>1, <2>2, FreshQuiet DEF OneJob
<1>5. ASSUME OneJob(s), UNCHANGED <<ready, inflight>>, JobQuiet(s),
             received' \subseteq received \cup accepted
      PROVE  Calm
  <2>1. \A r \in Slot : JobQuiet(r)
    BY <1>5 DEF OneJob, JobQuiet
  <2>2. \A n \in Node : RecoveryQuiet(n)
    BY <1>1 DEF RecoveryQuiet
  <2> QED BY <1>1, <1>5, <2>1, <2>2, QuietCalm
<1>6. CASE j.pc = "lpop" /\ Returns(s, None) /\ UNCHANGED <<ready, inflight, received>>
  <2>1. Fresh' /\ jobs'[s] = NoJob /\ OneJob(s)
    BY <1>3, <1>6
  <2>2. JobQuiet(s)
    BY <1>6, <2>1, NoJobIs DEF JobQuiet
  <2> QED BY <1>5, <1>6, <2>1, <2>2
<1>7. CASE /\ j.pc = "lpop" /\ ready # << >> /\ ready' = Tail(ready)
           /\ jobs' = [jobs EXCEPT ![s].pc = "hset inflight", ![s].msg = Head(ready), ![s].lag = 0]
           /\ UNCHANGED <<calls, inflight, received>>
  <2>1. PICK m \in Message : m = Head(ready)
    <3>1. ready \in Seq(Message) /\ ready # << >>
      BY <1>1, <1>7
    <3>2. Head(ready) \in Message
      BY <3>1
    <3> QED BY <3>2
  <2> DEFINE j1 == [j EXCEPT !.pc = "hset inflight", !.msg = m, !.lag = 0]
  <2>2. j1 \in JobRecord /\ j1.op = j.op /\ j1.pc = "hset inflight" /\ j1.msg = m
    <3> HIDE DEF j
    <3> QED BY <1>1, Names DEF JobRecord, Id
  <2>3. jobs' = [jobs EXCEPT ![s] = j1]
    BY <1>7, <2>1
  <2> HIDE DEF j1
  <2>4. Fresh' /\ jobs'[s] = j1 /\ OneJob(s)
    BY <1>4, <1>7, <2>2, <2>3
  <2>5. ToSet(ready) = {m} \cup ToSet(ready') /\ UNCHANGED <<inflight, received>>
    BY <1>1, <1>7, <2>1, SetOfSequence
  <2>6. Around(m)'
    <3>1. m \in JobHolds(s)'
      BY <2>2, <2>4 DEF JobHolds
    <3> QED BY <3>1 DEF Around, Kept
  <2>7. LeaksNothing
    <3> SUFFICES ASSUME NEW x \in Message, Around(x), x # m PROVE Around(x)'
      BY <1>1, <2>6 DEF LeaksNothing
    <3>1. x \notin JobHolds(s) /\ ~Settling(s, x)
      BY <1>7 DEF JobHolds, Settling
    <3> QED BY <2>4, <2>5, <3>1, OneJobCalm
  <2>8. SeesAccepted
    <3>1. m \in accepted
      BY <1>1, <2>5 DEF SeenAccepted, Seen
    <3>2. jobs'[s].msg = m
      BY <2>2, <2>4
    <3> QED BY <1>1, <2>4, <2>5, <3>1, <3>2, OneJobCalm DEF SeesAccepted
  <2>9. GivesUp'
    <3>1. \A r \in Slot : jobs'[r].pc = "hdel" => jobs'[r] = jobs[r]
      BY <2>2, <2>4 DEF OneJob
    <3> QED BY <1>1, <3>1 DEF GivesUp
  <2> QED BY <1>2, <2>4, <2>7, <2>8, <2>9 DEF Calm
<1>8. CASE /\ j.pc = "hset inflight"
           /\ \E age \in 0..j.lag : inflight' = [inflight EXCEPT ![j.msg] = age]
           /\ jobs' = [jobs EXCEPT ![s].pc = "hget", ![s].lag = 0]
           /\ UNCHANGED <<calls, ready, received>>
  <2>1. PICK m \in Message : m = j.msg
    BY <1>1, <1>8 DEF JobNamed
  <2> DEFINE j1 == [j EXCEPT !.pc = "hget", !.lag = 0]
  <2>2. j1 \in JobRecord /\ j1.op = j.op /\ j1.pc = "hget" /\ j1.msg = m
    <3> HIDE DEF j
    <3> QED BY <1>1, <2>1, Names DEF JobRecord
  <2>3. jobs' = [jobs EXCEPT ![s] = j1]
    BY <1>8
  <2> HIDE DEF j1
  <2>4. Fresh' /\ jobs'[s] = j1 /\ OneJob(s)
    BY <1>4, <1>8, <2>2, <2>3
  <2>5. inflight'[m] # None /\ \A x \in Message : x # m => inflight'[x] = inflight[x]
    <3>1. 0..j.lag \subseteq Age
      <4>1. j.lag \in 0..MaxLag
        BY <1>1 DEF JobRecord
      <4> HIDE DEF j
      <4> QED BY <4>1, SizesAssumption DEF Age, Old
    <3> QED BY <1>1, <1>8, <2>1, <3>1, Names
  <2>6. UNCHANGED <<ready, received>>
    BY <1>8
  <2>7. Around(m)'
    BY <2>5 DEF Around, Kept
  <2>8. LeaksNothing
    <3> SUFFICES ASSUME NEW x \in Message, Around(x), x # m PROVE Around(x)'
      BY <1>1, <2>7 DEF LeaksNothing
    <3>1. x \notin JobHolds(s) /\ ~Settling(s, x)
      BY <1>8, <2>1 DEF JobHolds, Settling
    <3> QED BY <2>4, <2>5, <2>6, <3>1, OneJobCalm
  <2>9. SeesAccepted
    <3>1. m \in accepted
      BY <1>1, <1>8, <2>1 DEF SeenAccepted, Seen
    <3>2. jobs'[s].msg = m
      BY <2>2, <2>4
    <3> QED BY <1>1, <2>4, <2>5, <2>6, <3>1, <3>2, OneJobCalm DEF SeesAccepted
  <2>10. GivesUp'
    <3>1. \A r \in Slot : jobs'[r].pc = "hdel" => jobs'[r] = jobs[r]
      BY <2>2, <2>4 DEF OneJob
    <3> QED BY <1>1, <3>1 DEF GivesUp
  <2> QED BY <1>2, <2>4, <2>8, <2>9, <2>10 DEF Calm
<1>9. CASE /\ j.pc = "hget" /\ Returns(s, j.msg) /\ UNCHANGED <<ready, inflight>>
           /\ received' \subseteq received \cup {j.msg}
  <2>1. PICK m \in Message : m = j.msg
    BY <1>1, <1>9 DEF JobNamed
  <2>2. Fresh' /\ jobs'[s] = NoJob /\ OneJob(s)
    BY <1>3, <1>9
  <2>3. JobQuiet(s)
    BY <1>9, <2>2, NoJobIs DEF JobQuiet
  <2>4. m \in accepted
    BY <1>1, <1>9, <2>1 DEF SeenAccepted, Seen
  <2>5. UNCHANGED <<ready, inflight>> /\ received' \subseteq received \cup accepted
    BY <1>9, <2>1, <2>4
  <2> QED BY <1>5, <2>2, <2>3, <2>5
<1>10. CASE /\ j.pc = "hget" /\ j.msg \notin payloads /\ jobs' = [jobs EXCEPT ![s].pc = "hdel"]
            /\ UNCHANGED <<calls, ready, inflight, received>>
  <2> DEFINE j1 == [j EXCEPT !.pc = "hdel"]
  <2>1. j1 \in JobRecord /\ j1.op = j.op /\ j1.pc = "hdel" /\ j1.msg = j.msg
    <3> HIDE DEF j
    <3> QED BY <1>1 DEF JobRecord
  <2>2. jobs' = [jobs EXCEPT ![s] = j1]
    BY <1>10
  <2> HIDE DEF j1
  <2>3. Fresh' /\ jobs'[s] = j1 /\ OneJob(s)
    BY <1>4, <1>10, <2>1, <2>2
  <2>4. JobQuiet(s)
    BY <1>1, <1>10, <2>1, <2>3 DEF JobQuiet
  <2> QED BY <1>5, <1>10, <2>3, <2>4
<1>11. CASE /\ j.pc = "hdel" /\ inflight' = [inflight EXCEPT ![j.msg] = None] /\ Returns(s, None)
            /\ UNCHANGED <<ready, received>>
  <2>1. PICK m \in Message : m = j.msg
    BY <1>1, <1>11 DEF JobNamed
  <2>2. Fresh' /\ jobs'[s] = NoJob /\ OneJob(s)
    BY <1>3, <1>11
  <2>3. inflight'[m] = None /\ \A x \in Message : x # m => inflight'[x] = inflight[x]
    BY <1>1, <1>11, <2>1
  <2>4. m \notin payloads /\ UNCHANGED <<ready, received>>
    BY <1>1, <1>11, <2>1 DEF GivesUp
  <2>5. LeaksNothing
    <3> SUFFICES ASSUME NEW x \in Message, Around(x), x # m PROVE Around(x)'
      BY <1>1, <2>4 DEF LeaksNothing
    <3>1. x \notin JobHolds(s) /\ ~Settling(s, x)
      BY <1>11 DEF JobHolds, Settling
    <3> QED BY <2>2, <2>3, <2>4, <3>1, OneJobCalm
  <2>6. SeesAccepted
    <3>1. jobs'[s].pc \notin {"hset inflight", "hget"}
      BY <2>2, NoJobIs
    <3> QED BY <1>1, <2>2, <2>3, <2>4, <3>1, OneJobCalm DEF SeesAccepted
  <2>7. GivesUp'
    <3>1. \A r \in Slot : jobs'[r].pc = "hdel" => jobs'[r] = jobs[r]
      BY <2>2, NoJobIs DEF OneJob
    <3> QED BY <1>1, <3>1 DEF GivesUp
  <2> QED BY <1>2, <2>2, <2>5, <2>6, <2>7 DEF Calm
<1> QED BY <1>6, <1>7, <1>8, <1>9, <1>10, <1>11 DEF DequeueStep, Goes

\* _recovery_loop: what it takes back was in flight, so it was accepted, and it puts
\* it back.
LEMMA RecoveryCalm ==
    ASSUME CalmInv, NEW n \in Node, RecoveryStep(n)
    PROVE  Fresh' /\ Calm
<1> DEFINE r == recovery[n]
<1>1. /\ TypeInv /\ TypeInv' /\ Fresh /\ GivesUp /\ SeenAccepted
      /\ recovery \in [Node -> RecoveryRecord] /\ r \in RecoveryRecord
      /\ ready \in Seq(Message) /\ payloads \subseteq Message
      /\ inflight \in [Message -> Age \cup {None}]
      /\ r.pc = "rpush" => r.msg \in Message
  BY RecoveryType DEF CalmInv, LossInv, TypeInv, NodesInv, RedisInv
<1>2. UNCHANGED <<payloads, calls, jobs, accepted, received, acking>>
  BY DEF RecoveryStep, Refresh, ListQueues, Scan, TakeBack, PutBack, redis, history
<1>3. Fresh'
  BY <1>1, <1>2, FreshQuiet DEF NoNewEnqueue, EnqueuesFor
<1>4. StoresForSome /\ accepted \subseteq accepted' /\ GivesUp'
  BY <1>1, <1>2 DEF StoresForSome, GivesUp
<1>5. OneLoop(n)
  BY <1>1, <1>2 DEF RecoveryStep, Refresh, ListQueues, Scan, TakeBack, PutBack, OneLoop
<1>6. CASE Refresh(n) \/ ListQueues(n) \/ Scan(n)
  <2> DEFINE expired == {m \in Message : inflight[m] # None /\ inflight[m] >= Timeout + r.lag}
  <2>1. /\ UNCHANGED <<ready, inflight>> /\ r.pc # "rpush"
        /\ recovery'[n] \in {[Asleep EXCEPT !.pc = "list"], Asleep, [r EXCEPT !.pc = "scan"],
                             [Asleep EXCEPT !.pc = "hdel", !.items = expired]}
    BY <1>1, <1>6 DEF Refresh, ListQueues, Scan, redis
  <2>2. \A m \in expired : Seen(m)
    BY DEF Seen
  <2> HIDE DEF expired
  <2>3. recovery'[n].pc # "rpush" /\ recovery'[n].items \subseteq r.items \cup expired
    <3>1. [Asleep EXCEPT !.pc = "list"].pc = "list" /\ [Asleep EXCEPT !.pc = "list"].items = {}
      BY AsleepIs DEF RecoveryRecord
    <3>2. [r EXCEPT !.pc = "scan"].pc = "scan" /\ [r EXCEPT !.pc = "scan"].items = r.items
      <4> HIDE DEF r
      <4> QED BY <1>1 DEF RecoveryRecord
    <3>3. LET r1 == [Asleep EXCEPT !.pc = "hdel", !.items = expired]
          IN r1.pc = "hdel" /\ r1.items = expired
      BY AsleepIs DEF RecoveryRecord
    <3> QED BY <2>1, <3>1, <3>2, <3>3, AsleepIs
  <2>4. \A m \in r.items : Seen(m)
    BY DEF Seen, HeldByRecovery
  <2>5. \A k \in Node : RecoveryQuiet(k)
    BY <1>5, <2>1, <2>2, <2>3, <2>4 DEF OneLoop, RecoveryQuiet
  <2>6. \A s \in Slot : JobQuiet(s)
    BY <1>2 DEF JobQuiet
  <2>7. Calm
    BY <1>1, <1>2, <2>1, <2>5, <2>6, QuietCalm
  <2> QED BY <1>3, <2>7
<1>7. CASE TakeBack(n)
  <2>1. PICK m \in r.items :
            /\ inflight' = [inflight EXCEPT ![m] = None]
            /\ recovery' = [recovery EXCEPT ![n] = [Asleep EXCEPT !.pc = "rpush", !.msg = m,
                                                        !.items = r.items \ {m}]]
    BY <1>7 DEF TakeBack
  <2>2. m \in Message
    BY <1>1, <2>1 DEF RecoveryRecord
  <2>3. recovery'[n].pc = "rpush" /\ recovery'[n].msg = m /\ recovery'[n].items = r.items \ {m}
    <3>1. recovery'[n] = [Asleep EXCEPT !.pc = "rpush", !.msg = m, !.items = r.items \ {m}]
      BY <1>1, <2>1
    <3> HIDE DEF r
    <3> QED BY <3>1, AsleepIs DEF RecoveryRecord
  <2>4. r.pc = "hdel" /\ UNCHANGED ready /\ inflight'[m] = None
        /\ \A x \in Message : x # m => inflight'[x] = inflight[x]
    BY <1>1, <1>7, <2>1, <2>2 DEF TakeBack
  <2>5. Around(m)'
    <3>1. m \in RecoveryHolds(n)'
      BY <2>3 DEF RecoveryHolds
    <3> QED BY <3>1 DEF Around, Kept
  <2>6. LeaksNothing
    <3> SUFFICES ASSUME NEW x \in Message, Around(x), x # m PROVE Around(x)'
      BY <1>1, <1>2, <2>5 DEF LeaksNothing
    <3>1. x \notin RecoveryHolds(n)
      BY <2>4 DEF RecoveryHolds
    <3> QED BY <1>5, <2>4, <3>1, OneLoopCalm
  <2>7. \A x \in r.items : Seen(x)
    BY DEF Seen, HeldByRecovery
  <2>8. SeesAccepted
    <3> SUFFICES ASSUME NEW x \in Message, Seen(x)' PROVE Seen(x)
      BY <1>2 DEF SeesAccepted
    <3>1. CASE x \in r.items
      BY <2>7, <3>1
    <3>2. CASE x \notin r.items
      <4>1. x # m /\ x \notin recovery'[n].items /\ inflight'[x] = inflight[x] /\ UNCHANGED ready
        BY <2>1, <2>3, <2>4, <3>2
      <4> QED BY <1>5, <2>3, <4>1, OneLoopCalm
    <3> QED BY <3>1, <3>2
  <2> QED BY <1>3, <1>4, <2>6, <2>8 DEF Calm
<1>8. CASE PutBack(n)
  <2>1. r.pc = "rpush" /\ r.msg \in Message /\ ready' = Append(ready, r.msg) /\ UNCHANGED inflight
    BY <1>1, <1>8 DEF PutBack
  <2> PICK m \in Message : m = r.msg
    BY <2>1
  <2>2. ToSet(ready') = ToSet(ready) \cup {m}
    BY <1>1, <2>1, SetOfSequence
  <2>3. recovery'[n].pc # "rpush" /\ recovery'[n].items \subseteq r.items
    <3>1. recovery'[n] = IF r.items = {} THEN Asleep ELSE [r EXCEPT !.pc = "hdel", !.msg = None]
      BY <1>1, <1>8 DEF PutBack
    <3>2. LET r1 == [r EXCEPT !.pc = "hdel", !.msg = None]
          IN r1.pc = "hdel" /\ r1.items = r.items
      <4> HIDE DEF r
      <4> QED BY <1>1 DEF RecoveryRecord
    <3> QED BY <3>1, <3>2, AsleepIs
  <2>4. Around(m)'
    BY <2>2 DEF Around, Kept
  <2>5. LeaksNothing
    <3> SUFFICES ASSUME NEW x \in Message, Around(x), x # m PROVE Around(x)'
      BY <1>1, <1>2, <2>4 DEF LeaksNothing
    <3>1. x \notin RecoveryHolds(n)
      BY DEF RecoveryHolds
    <3> QED BY <1>5, <2>1, <2>2, <3>1, OneLoopCalm
  <2>6. Seen(m) /\ \A x \in r.items : Seen(x)
    BY <2>1 DEF Seen, HeldByRecovery
  <2>7. SeesAccepted
    <3> SUFFICES ASSUME NEW x \in Message, Seen(x)' PROVE Seen(x)
      BY <1>2 DEF SeesAccepted
    <3>1. CASE x = m \/ x \in r.items
      BY <2>6, <3>1
    <3>2. CASE x # m /\ x \notin r.items
      <4>1. x \notin recovery'[n].items
        BY <2>3, <3>2
      <4> QED BY <1>5, <2>1, <2>2, <2>3, <3>2, <4>1, OneLoopCalm
    <3> QED BY <3>1, <3>2
  <2> QED BY <1>3, <1>4, <2>5, <2>7 DEF Calm
<1> QED BY <1>6, <1>7, <1>8 DEF RecoveryStep

\* A node that starts, and a step that changes nothing.
LEMMA NodeCalm ==
    ASSUME CalmInv, TypeInv',
           UNCHANGED <<ready, inflight, payloads, recovery, calls, jobs, accepted, received, acking>>
    PROVE  Fresh' /\ Calm
<1>1. /\ TypeInv /\ Fresh /\ GivesUp /\ payloads \subseteq Message
  BY DEF CalmInv, LossInv, TypeInv, RedisInv
<1>2. Fresh'
  BY <1>1, FreshQuiet DEF NoNewEnqueue, EnqueuesFor
<1>3. Calm
  BY <1>1, QuietCalm DEF JobQuiet, RecoveryQuiet
<1> QED BY <1>2, <1>3

\* Time that passes takes no mark away and sets none.
LEMMA TickCalm == CalmInv /\ Tick => Fresh' /\ Calm
<1> SUFFICES ASSUME CalmInv, Tick PROVE Fresh' /\ Calm
  OBVIOUS
<1>1. /\ TypeInv /\ TypeInv' /\ Fresh /\ GivesUp /\ payloads \subseteq Message
      /\ recovery \in [Node -> RecoveryRecord] /\ jobs \in [Slot -> JobRecord]
      /\ inflight \in [Message -> Age \cup {None}]
      /\ UNCHANGED <<ready, payloads, calls, accepted, received, acking>>
  BY TickType DEF CalmInv, LossInv, TypeInv, NodesInv, CallsInv, RedisInv, Tick
<1>2. ASSUME NEW m \in Message PROVE inflight'[m] = None <=> inflight[m] = None
  <2>1. inflight'[m] = Older(inflight[m]) /\ inflight[m] \in Age \cup {None}
    BY <1>1 DEF Tick
  <2>2. \A age \in Age : Older(age) \in Age
    BY SizesAssumption, Names DEF Older, Age, Old
  <2>3. Older(None) = None
    BY DEF Older
  <2> QED BY <2>1, <2>2, <2>3, Names
<1>3. ASSUME NEW k \in Node PROVE RecoveryQuiet(k)
  <2> DEFINE r == recovery[k]
             r1 == [r EXCEPT !.lag = r.lag + 1]
  <2>1. recovery'[k] \in {r, r1} /\ r \in RecoveryRecord
    BY <1>1 DEF Tick
  <2> HIDE DEF r
  <2>2. r1.pc = r.pc /\ r1.msg = r.msg /\ r1.items = r.items
    BY <2>1 DEF RecoveryRecord
  <2>3. recovery'[k].pc = r.pc /\ recovery'[k].msg = r.msg /\ recovery'[k].items = r.items
    BY <2>1, <2>2
  <2> QED BY <2>3 DEF r, RecoveryQuiet
<1>4. ASSUME NEW s \in Slot
      PROVE  /\ jobs'[s].op = jobs[s].op /\ jobs'[s].pc = jobs[s].pc /\ jobs'[s].msg = jobs[s].msg
             /\ jobs'[s].client = jobs[s].client
  <2> DEFINE j == jobs[s]
             j1 == [j EXCEPT !.lag = j.lag + 1]
  <2>1. jobs'[s] \in {j, j1} /\ j \in JobRecord
    BY <1>1 DEF Tick
  <2> HIDE DEF j
  <2>2. j1.op = j.op /\ j1.pc = j.pc /\ j1.msg = j.msg /\ j1.client = j.client
    BY <2>1 DEF JobRecord
  <2>3. jobs'[s].op = j.op /\ jobs'[s].pc = j.pc /\ jobs'[s].msg = j.msg /\ jobs'[s].client = j.client
    BY <2>1, <2>2
  <2> QED BY <2>3 DEF j
<1>5. Fresh'
  <2>1. NoNewEnqueue
    BY <1>1 DEF NoNewEnqueue
  <2>2. \A r \in Slot : EnqueuesFor(r)
    BY <1>4 DEF EnqueuesFor
  <2> QED BY <1>1, <2>1, <2>2, FreshQuiet
<1>6. \A s \in Slot : JobQuiet(s)
  BY <1>4 DEF JobQuiet
<1>7. Calm
  BY <1>1, <1>2, <1>3, <1>6, QuietCalm
<1> QED BY <1>5, <1>7

LEMMA InitCalm == Init => CalmInv
<1> SUFFICES ASSUME Init PROVE CalmInv
  OBVIOUS
<1>1. /\ \A c \in Client : calls[c].op = "none"
      /\ \A s \in Slot : jobs[s].op = "none" /\ jobs[s].pc = "none"
      /\ \A n \in Node : recovery[n].pc = "sleep" /\ recovery[n].items = {}
  <2>1. /\ \A c \in Client : calls[c] = NoCall
        /\ \A s \in Slot : jobs[s] = NoJob
        /\ \A n \in Node : recovery[n] = Asleep
    BY DEF Init
  <2> QED BY <2>1, NoCallIs, NoJobIs, AsleepIs
<1>2. Fresh /\ GivesUp
  BY <1>1 DEF Fresh, GivesUp
<1>3. SeenAccepted
  <2>1. ASSUME NEW m \in Message PROVE ~Seen(m)
    <3>1. m \notin ToSet(ready) /\ inflight[m] = None
      BY DEF Init, ToSet
    <3> QED BY <1>1, <3>1 DEF Seen, HeldByRecovery
  <2> QED BY <2>1 DEF SeenAccepted, Init
<1>4. NoLeak
  BY DEF NoLeak, Init
<1> QED BY <1>2, <1>3, <1>4, InitLoss DEF CalmInv

\* While nothing fails no response is lost and no node halts.
LEMMA NextCalm ==
    ASSUME Faults = {}, CalmInv, [Next]_vars PROVE CalmInv'
<1>1. LossInv' /\ TypeInv'
  BY NextLoss DEF CalmInv, LossInv
<1>2. ASSUME NEW c \in Client, NEW n \in Node, CallEnqueue(c, n) \/ CallDequeue(c, n) \/ CallAck(c, n)
      PROVE  CalmInv'
  BY <1>1, <1>2, CallCalm, CalmStep
<1>3. ASSUME NEW c \in Client, Attempt(c) PROVE CalmInv'
  BY <1>1, <1>3, AttemptCalm, CalmStep
<1>4. ASSUME NEW s \in Slot, JobStep(s) PROVE CalmInv'
  BY <1>1, <1>4, EnqueueCalm, DequeueCalm, AckCalm, CalmStep DEF JobStep
<1>5. ASSUME NEW n \in Node, RecoveryStep(n) PROVE CalmInv'
  BY <1>1, <1>5, RecoveryCalm, CalmStep
<1>6. ASSUME NEW n \in Node, Start(n) \/ Register(n) PROVE CalmInv'
  <2>1. UNCHANGED <<ready, inflight, payloads, recovery, calls, jobs, accepted, received, acking>>
    BY <1>6 DEF Start, Register, redis, history
  <2> QED BY <1>1, <2>1, NodeCalm, CalmStep
<1>7. CASE Tick
  BY <1>1, <1>7, TickCalm, CalmStep
<1>8. CASE UNCHANGED vars
  <2>1. UNCHANGED <<ready, inflight, payloads, recovery, calls, jobs, accepted, received, acking>>
    BY <1>8 DEF vars, redis, nodes, history
  <2> QED BY <1>1, <2>1, NodeCalm, CalmStep
<1>9. /\ \A c \in Client : ~AttemptFails(c)
      /\ \A s \in Slot : ~JobFails(s)
      /\ \A n \in Node : ~RecoveryFails(n) /\ ~Leave(n) /\ ~Halt(n)
  BY DEF AttemptFails, JobFails, RecoveryFails, Leave, Halt
<1> QED BY <1>2, <1>3, <1>4, <1>5, <1>6, <1>7, <1>8, <1>9 DEF Next

\* Payloads do not leak: with no failure, for all numbers of nodes, clients and
\* messages, a payload that queue_node.py stores stays only as long as its message
\* is ready, in flight, in the hands of a coroutine, or settled by one: _dequeue_local
\* takes no mark away that another delivery still needs.
THEOREM PayloadsDoNotLeak ==
    ASSUME Faults = {} PROVE Spec => []NoLeak
<1>1. CalmInv => NoLeak
  BY DEF CalmInv
<1>2. CalmInv /\ [Next]_vars => CalmInv'
  BY NextCalm
<1> QED BY <1>1, <1>2, InitCalm, PTL DEF Spec

----------------------------------------------------------------------------
(* The visibility timeout, on one node while nothing fails.                *)

\* A message is in one place at a time: once in the ready list, in the hands of one
\* dequeue, in those of the recovery loop, or marked, or seen to be so by a recovery
\* loop that is about to take it back.
Once(q, m) == \A i, k \in DOMAIN q : q[i] = m /\ q[k] = m => i = k
Queued(m) == m \in ToSet(ready)
Popped(m) == \E s \in Slot : m \in JobHolds(s)
TakenBack(m) == \E n \in Node : m \in RecoveryHolds(n)
Expired(m) == \E n \in Node : m \in recovery[n].items
Marked(m) == inflight[m] # None \/ Expired(m)

Apart(m) ==
    /\ Once(ready, m)
    /\ \A s, r \in Slot : m \in JobHolds(s) /\ m \in JobHolds(r) => s = r
    /\ Queued(m) => ~Popped(m) /\ ~Marked(m) /\ ~TakenBack(m)
    /\ Popped(m) => ~Marked(m) /\ ~TakenBack(m)
    /\ Marked(m) => ~TakenBack(m)

\* A mark is the last stamp.  From when the recovery loop has found the message
\* expired until it is popped again, that stamp is Timeout old; while a dequeue has
\* it in hand, Timeout and its lag, the time since it popped the message.
Rested(m, lag) == stamped[m] # None => stamped[m] >= Timeout + lag
Aged(m) ==
    /\ stamped[m] # None => m \in accepted
    /\ inflight[m] # None => stamped[m] = inflight[m]
    /\ Queued(m) \/ TakenBack(m) \/ Expired(m) => Rested(m, 0)
    /\ \A s \in Slot : m \in JobHolds(s) => Rested(m, jobs[s].lag)

SpacedInv == CalmInv /\ \A m \in Message : Apart(m) /\ Aged(m)

\* Marked for so long that it may be taken back.
Overdue(m) == inflight[m] # None /\ Rested(m, 0)

\* What VisibilityRespected says of a step.
Visible == \A s \in Slot : HandsOut(s) =>
               LET m == jobs[s].msg
               IN stamped[m] = None \/ stamped[m] >= stamped'[m] + Timeout

\* A message goes to no other place.
Stays(m) ==
    /\ accepted \subseteq accepted'
    /\ Once(ready', m) /\ (m \in ToSet(ready') => m \in ToSet(ready))
    /\ inflight'[m] \in {inflight[m], None} /\ stamped'[m] = stamped[m]
    /\ \A s \in Slot : m \in JobHolds(s)' => m \in JobHolds(s) /\ jobs'[s].lag = jobs[s].lag
    /\ \A n \in Node : /\ m \in RecoveryHolds(n)' => m \in RecoveryHolds(n)
                       /\ m \in recovery'[n].items => m \in recovery[n].items \/ Overdue(m)

LEMMA StaysSpaced ==
    ASSUME NEW m \in Message, Apart(m), Aged(m), Stays(m)
    PROVE  Apart(m)' /\ Aged(m)'
<1>1. /\ Queued(m)' => Queued(m)
      /\ Popped(m)' => Popped(m)
      /\ TakenBack(m)' => TakenBack(m)
      /\ Expired(m)' => Expired(m) \/ Overdue(m)
      /\ Marked(m)' => Marked(m)
  BY DEF Stays, Queued, Popped, TakenBack, Expired, Marked, Overdue
<1>2. Apart(m)'
  BY <1>1 DEF Apart, Stays
<1>3. Rested(m, 0)' <=> Rested(m, 0)
  BY DEF Stays, Rested
<1>4. Queued(m)' \/ TakenBack(m)' \/ Expired(m)' => Rested(m, 0)'
  BY <1>1, <1>3 DEF Aged, Overdue
<1>5. ASSUME NEW s \in Slot, m \in JobHolds(s)', stamped'[m] # None
      PROVE  stamped'[m] >= Timeout + jobs'[s].lag
  BY <1>5 DEF Stays, Aged, Rested
<1>6. stamped'[m] # None => m \in accepted'
  BY DEF Stays, Aged
<1>7. inflight'[m] # None => stamped'[m] = inflight'[m]
  BY DEF Stays, Aged
<1> QED BY <1>2, <1>4, <1>5, <1>6, <1>7 DEF Aged, Rested

\* A coroutine takes no message up and stamps none.
JobStill(s) ==
    \/ jobs'[s].pc = jobs[s].pc /\ jobs'[s].msg = jobs[s].msg /\ jobs'[s].lag = jobs[s].lag
    \/ jobs[s].pc # "hset inflight" /\ jobs'[s].pc # "hset inflight"
RecoveryStill(n) ==
    /\ recovery'[n].pc = "rpush" => recovery[n].pc = "rpush" /\ recovery'[n].msg = recovery[n].msg
    /\ \A m \in recovery'[n].items :
           m \in recovery[n].items \/ Overdue(m)

LEMMA StillHolds ==
    ASSUME NEW s \in Slot, JobStill(s)
    PROVE  /\ \A m : m \in JobHolds(s)' => m \in JobHolds(s) /\ jobs'[s].lag = jobs[s].lag
           /\ ~HandsOut(s)
<1>1. CASE jobs'[s].pc = jobs[s].pc /\ jobs'[s].msg = jobs[s].msg /\ jobs'[s].lag = jobs[s].lag
  BY <1>1 DEF JobHolds, HandsOut
<1>2. CASE jobs[s].pc # "hset inflight" /\ jobs'[s].pc # "hset inflight"
  BY <1>2 DEF JobHolds, HandsOut
<1> QED BY <1>1, <1>2 DEF JobStill

LEMMA StillSpaced ==
    ASSUME SpacedInv, UNCHANGED <<ready, stamped>>, accepted \subseteq accepted',
           \A m \in Message : inflight'[m] \in {inflight[m], None},
           \A s \in Slot : JobStill(s), \A n \in Node : RecoveryStill(n)
    PROVE  (\A m \in Message : Apart(m)' /\ Aged(m)') /\ Visible
<1>1. ASSUME NEW m \in Message PROVE Apart(m)' /\ Aged(m)'
  <2>1. Apart(m) /\ Aged(m)
    BY DEF SpacedInv
  <2>2. ASSUME NEW n \in Node
        PROVE  /\ m \in RecoveryHolds(n)' => m \in RecoveryHolds(n)
               /\ m \in recovery'[n].items => m \in recovery[n].items \/ Overdue(m)
    BY DEF RecoveryStill, RecoveryHolds
  <2>3. Once(ready', m)
    BY <2>1 DEF Apart, Once
  <2>4. Stays(m)
    BY <2>2, <2>3, StillHolds DEF Stays
  <2> QED BY <2>1, <2>4, StaysSpaced
<1>2. Visible
  BY StillHolds DEF Visible
<1> QED BY <1>1, <1>2

\* One job acts: the message stays where it is unless this job or the ready list
\* gets it.
LEMMA OneJobSpaced ==
    ASSUME NEW s \in Slot, OneJob(s), NEW m \in Message
    PROVE  /\ \A r \in Slot : r # s => /\ m \in JobHolds(r)' <=> m \in JobHolds(r)
                                       /\ jobs'[r].lag = jobs[r].lag /\ ~HandsOut(r)
           /\ TakenBack(m)' <=> TakenBack(m)
           /\ Expired(m)' <=> Expired(m)
           /\ \A n \in Node : /\ m \in RecoveryHolds(n)' <=> m \in RecoveryHolds(n)
                              /\ m \in recovery'[n].items <=> m \in recovery[n].items
<1>1. \A r \in Slot : r # s => jobs'[r] = jobs[r]
  BY DEF OneJob
<1>2. recovery' = recovery
  BY DEF OneJob
<1>3. \A r \in Slot : r # s => /\ m \in JobHolds(r)' <=> m \in JobHolds(r)
                               /\ jobs'[r].lag = jobs[r].lag /\ ~HandsOut(r)
  BY <1>1 DEF JobHolds, HandsOut
<1> QED BY <1>2, <1>3 DEF TakenBack, Expired, RecoveryHolds

LEMMA OnceInSequence ==
    ASSUME NEW q \in Seq(Message), NEW m \in Message
    PROVE  /\ \A x \in Message : Once(q, x) /\ (x = m => m \notin ToSet(q)) => Once(Append(q, m), x)
           /\ q # << >> => /\ \A x \in Message : Once(q, x) => Once(Tail(q), x)
                           /\ Once(q, Head(q)) => Head(q) \notin ToSet(Tail(q))
<1>1. ASSUME NEW x \in Message, Once(q, x), x = m => m \notin ToSet(q)
      PROVE  Once(Append(q, m), x)
  <2>1. /\ DOMAIN q = 1..Len(q) /\ DOMAIN Append(q, m) = 1..Len(q) + 1 /\ Len(q) \in Nat
        /\ Append(q, m)[Len(q) + 1] = m
        /\ \A i \in 1..Len(q) : Append(q, m)[i] = q[i]
    OBVIOUS
  <2>2. SUFFICES ASSUME NEW i \in 1..Len(q) + 1, NEW k \in 1..Len(q) + 1,
                        Append(q, m)[i] = x, Append(q, m)[k] = x
                 PROVE  i = k
    BY <2>1 DEF Once
  <2>3. CASE i \in 1..Len(q) /\ k \in 1..Len(q)
    BY <1>1, <2>1, <2>2, <2>3 DEF Once
  <2>4. CASE x # m
    BY <2>1, <2>2, <2>3, <2>4
  <2>5. CASE x = m
    <3>1. \A l \in 1..Len(q) : q[l] # m
      BY <1>1, <2>1, <2>5 DEF ToSet
    <3> QED BY <2>1, <2>2, <2>5, <3>1
  <2> QED BY <2>4, <2>5
<1>2. ASSUME q # << >>
      PROVE  /\ \A x \in Message : Once(q, x) => Once(Tail(q), x)
             /\ Once(q, Head(q)) => Head(q) \notin ToSet(Tail(q))
  <2>1. /\ DOMAIN q = 1..Len(q) /\ Len(q) \in Nat \ {0} /\ DOMAIN Tail(q) = 1..Len(q) - 1
        /\ Head(q) = q[1] /\ \A i \in 1..Len(q) - 1 : Tail(q)[i] = q[i + 1]
    BY <1>2
  <2>2. ASSUME NEW x \in Message, Once(q, x) PROVE Once(Tail(q), x)
    BY <2>1, <2>2 DEF Once
  <2>3. ASSUME Once(q, Head(q)) PROVE Head(q) \notin ToSet(Tail(q))
    BY <2>1, <2>3 DEF Once, ToSet
  <2> QED BY <2>2, <2>3
<1> QED BY <1>1, <1>2

\* _enqueue_replica: a message that was never ready, and so has no stamp.
LEMMA EnqueueSpaced ==
    ASSUME SpacedInv, NEW s \in Slot, EnqueueStep(s)
    PROVE  (\A m \in Message : Apart(m)' /\ Aged(m)') /\ Visible
<1> DEFINE j == jobs[s]
           c == j.client
<1>1. /\ TypeInv /\ Fresh /\ SeenAccepted
      /\ jobs \in [Slot -> JobRecord] /\ ready \in Seq(Message)
      /\ j.op = "enqueue" /\ j.msg \in Message
      /\ UNCHANGED <<inflight, stamped, recovery>>
  BY DEF SpacedInv, CalmInv, LossInv, TypeInv, CallsInv, RedisInv, JobNamed, EnqueueStep, nodes
<1> PICK m \in Message : m = j.msg
  BY <1>1
<1>2. CASE /\ j.pc = "hset payload" /\ jobs' = [jobs EXCEPT ![s].pc = "rpush"]
           /\ UNCHANGED <<ready, accepted>>
  <2>1. jobs'[s].pc = "rpush" /\ \A r \in Slot : r # s => jobs'[r] = jobs[r]
    BY <1>1, <1>2 DEF JobRecord
  <2>2. \A r \in Slot : JobStill(r)
    BY <1>2, <2>1 DEF JobStill
  <2>3. \A n \in Node : RecoveryStill(n)
    BY <1>1 DEF RecoveryStill
  <2> QED BY <1>1, <1>2, <2>2, <2>3, StillSpaced
<1>3. CASE /\ j.pc = "rpush" /\ ready' = Append(ready, m) /\ jobs' = [jobs EXCEPT ![s] = NoJob]
           /\ accepted' = IF c = None THEN accepted ELSE accepted \cup {m}
  <2>1. m \notin accepted
    <3>1. c # None /\ calls[c].msg = m
      BY <1>1 DEF Fresh
    <3>2. c \in Client
      BY <1>1, <3>1 DEF JobRecord
    <3>3. calls[c].op = "enqueue"
      BY <1>1, <3>1 DEF TypeInv, CallsInv, Linked
    <3> QED BY <1>1, <3>1, <3>2, <3>3 DEF Fresh
  <2>2. OneJob(s) /\ jobs'[s] = NoJob /\ accepted \subseteq accepted'
    BY <1>1, <1>3 DEF OneJob
  <2>3. /\ j.pc # "hset inflight" /\ \A x : x \notin JobHolds(s)'
        /\ \A r \in Slot : r # s => ~HandsOut(r)
    BY <1>3, <2>2, NoJobIs, OneJobSpaced DEF JobHolds
  <2>4. ToSet(ready') = ToSet(ready) \cup {m}
    BY <1>1, <1>3, SetOfSequence
  <2>5. ~Queued(m) /\ ~Popped(m) /\ ~TakenBack(m) /\ ~Marked(m) /\ stamped[m] = None
    <3>1. ~Seen(m)
      BY <1>1, <2>1 DEF SeenAccepted
    <3>2. ~Queued(m) /\ ~Popped(m) /\ ~TakenBack(m) /\ ~Marked(m)
      BY <3>1 DEF Seen, Queued, Popped, TakenBack, Marked, Expired, HeldByRecovery, JobHolds, RecoveryHolds
    <3> QED BY <2>1, <3>2 DEF SpacedInv, Aged
  <2>6. Apart(m)' /\ Aged(m)'
    <3>1. Once(ready', m)
      BY <1>1, <1>3, <2>5, OnceInSequence DEF SpacedInv, Apart, Queued
    <3>2. ~Popped(m)' /\ ~TakenBack(m)' /\ ~Marked(m)' /\ stamped'[m] = None /\ inflight'[m] = None
      BY <1>1, <2>2, <2>3, <2>5, OneJobSpaced DEF Popped, Marked
    <3> QED BY <3>1, <3>2 DEF Apart, Aged, Popped, Marked, Rested
  <2>7. ASSUME NEW x \in Message, x # m PROVE Apart(x)' /\ Aged(x)'
    <3>1. Apart(x) /\ Aged(x)
      BY DEF SpacedInv
    <3>2. Once(ready', x)
      BY <1>1, <1>3, <2>7, <3>1, OnceInSequence DEF Apart
    <3>3. Stays(x)
      BY <1>1, <2>2, <2>3, <2>4, <2>7, <3>2, OneJobSpaced DEF Stays
    <3> QED BY <3>1, <3>3, StaysSpaced
  <2>8. Visible
    BY <2>3 DEF Visible, HandsOut
  <2> QED BY <2>6, <2>7, <2>8
<1> QED BY <1>2, <1>3 DEF EnqueueStep, Goes, Returns

\* A message that is popped has rested.
LEMMA PopSpaced ==
    ASSUME SpacedInv, NEW s \in Slot, OneJob(s), ready # << >>, NEW m \in Message, m = Head(ready),
           ready' = Tail(ready), JobHolds(s) = {}, JobHolds(s)' = {m}, jobs'[s].lag = 0,
           UNCHANGED <<inflight, stamped, accepted>>
    PROVE  (\A x \in Message : Apart(x)' /\ Aged(x)') /\ Visible
<1>1. ready \in Seq(Message)
  BY DEF SpacedInv, CalmInv, LossInv, TypeInv, RedisInv
<1>2. ToSet(ready) = {m} \cup ToSet(ready')
  BY <1>1, SetOfSequence
<1>3. ~HandsOut(s)
  BY DEF JobHolds, HandsOut
<1>4. Apart(m) /\ Aged(m) /\ Queued(m)
  BY <1>2 DEF SpacedInv, Queued
<1>5. ~Popped(m) /\ ~Marked(m) /\ ~TakenBack(m) /\ Rested(m, 0)
  BY <1>4 DEF Apart, Aged
<1>6. Once(ready', m) /\ ~Queued(m)'
  <2>1. Once(ready, m)
    BY <1>4 DEF Apart
  <2>2. Once(ready', m) /\ m \notin ToSet(ready')
    BY <1>1, <2>1, OnceInSequence
  <2> QED BY <2>2 DEF Queued
<1>7. \A r \in Slot : m \in JobHolds(r)' => r = s
  BY <1>5, OneJobSpaced DEF Popped
<1>8. ~Marked(m)' /\ ~TakenBack(m)' /\ ~Expired(m)' /\ inflight'[m] = None
  BY <1>5, OneJobSpaced DEF Marked
<1>9. Apart(m)'
  BY <1>6, <1>7, <1>8 DEF Apart
<1>10. Aged(m)'
  <2>1. \A r \in Slot : m \in JobHolds(r)' => jobs'[r].lag = 0
    BY <1>7
  <2>2. stamped'[m] # None => stamped'[m] >= Timeout + 0
    BY <1>5 DEF Rested
  <2>3. stamped'[m] # None => m \in accepted'
    BY <1>4 DEF Aged
  <2>4. \A r \in Slot : m \in JobHolds(r)' => (stamped'[m] # None => stamped'[m] >= Timeout + jobs'[r].lag)
    BY <2>1, <2>2
  <2> QED BY <1>6, <1>8, <2>3, <2>4 DEF Aged, Rested
<1>11. ASSUME NEW x \in Message, x # m PROVE Apart(x)' /\ Aged(x)'
  <2>1. Apart(x) /\ Aged(x)
    BY DEF SpacedInv
  <2>2. Once(ready', x)
    BY <1>1, <2>1, OnceInSequence DEF Apart
  <2>3. ASSUME NEW r \in Slot, x \in JobHolds(r)' PROVE x \in JobHolds(r) /\ jobs'[r].lag = jobs[r].lag
    BY <1>11, <2>3, OneJobSpaced
  <2>4. Stays(x)
    BY <1>2, <1>11, <2>2, <2>3, OneJobSpaced DEF Stays
  <2> QED BY <2>1, <2>4, StaysSpaced
<1>12. Visible
  BY <1>3, OneJobSpaced DEF Visible
<1> QED BY <1>9, <1>10, <1>11, <1>12

\* A message that is handed out and stamped.
LEMMA StampSpaced ==
    ASSUME SpacedInv, NEW s \in Slot, OneJob(s), NEW m \in Message, m \in JobHolds(s),
           JobHolds(s)' = {}, NEW age \in 0..jobs[s].lag,
           inflight' = [inflight EXCEPT ![m] = age], stamped' = [stamped EXCEPT ![m] = age],
           UNCHANGED <<ready, accepted>>
    PROVE  (\A x \in Message : Apart(x)' /\ Aged(x)') /\ Visible
<1>1. /\ inflight \in [Message -> Age \cup {None}] /\ stamped \in [Message -> Age \cup {None}]
      /\ jobs[s].lag \in 0..MaxLag /\ SeenAccepted
  BY DEF SpacedInv, CalmInv, LossInv, TypeInv, RedisInv, HistoryInv, CallsInv, JobRecord
<1>2. jobs[s].msg = m /\ (\E r \in Slot : jobs[r].pc \in {"hset inflight", "hget"} /\ jobs[r].msg = m)
  BY DEF JobHolds
<1>3. Apart(m) /\ Aged(m)
  BY DEF SpacedInv
<1>4. ~Queued(m) /\ ~Marked(m) /\ ~TakenBack(m) /\ Rested(m, jobs[s].lag)
  BY <1>3 DEF Apart, Aged, Popped
<1>5. m \in accepted
  BY <1>1, <1>2 DEF SeenAccepted, Seen
<1>6. ~Queued(m)' /\ ~Popped(m)' /\ ~TakenBack(m)' /\ ~Expired(m)'
  <2>1. ~Popped(m)'
    BY <1>3, OneJobSpaced DEF Popped, Apart
  <2>2. ~TakenBack(m)' /\ ~Expired(m)'
    BY <1>4, OneJobSpaced DEF Marked
  <2> QED BY <1>4, <2>1, <2>2 DEF Queued
<1>7. inflight'[m] = age /\ stamped'[m] = age
  BY <1>1
<1>8. Apart(m)'
  BY <1>3, <1>6 DEF Apart, Popped
<1>9. Aged(m)'
  BY <1>5, <1>6, <1>7 DEF Aged, Popped
<1>10. ASSUME NEW x \in Message, x # m PROVE Apart(x)' /\ Aged(x)'
  <2>1. Apart(x) /\ Aged(x)
    BY DEF SpacedInv
  <2>2. Once(ready', x)
    BY <2>1 DEF Apart
  <2>3. \A r \in Slot : x \in JobHolds(r)' => x \in JobHolds(r) /\ jobs'[r].lag = jobs[r].lag
    BY OneJobSpaced
  <2>4. inflight'[x] = inflight[x] /\ stamped'[x] = stamped[x]
    BY <1>1, <1>10
  <2>5. Stays(x)
    BY <2>2, <2>3, <2>4, OneJobSpaced DEF Stays
  <2> QED BY <2>1, <2>5, StaysSpaced
<1>11. Visible
  <2> DEFINE lag == jobs[s].lag
  <2>1. stamped[m] # None => stamped[m] >= Timeout + lag /\ stamped[m] \in Age
    BY <1>1, <1>4 DEF Rested
  <2>2. age \in 0..lag /\ lag \in 0..MaxLag
    BY <1>1
  <2> HIDE DEF lag
  <2>3. lag \in Nat /\ age \in Nat /\ age <= lag
    BY <2>2, SizesAssumption
  <2>4. ASSUME stamped[m] # None PROVE stamped[m] >= age + Timeout
    <3> DEFINE old == stamped[m]
    <3>1. old >= Timeout + lag /\ old \in Age
      BY <2>1, <2>4
    <3> HIDE DEF old
    <3>2. old \in Nat /\ Timeout \in Nat
      BY <3>1, SizesAssumption DEF Age, Old
    <3>3. old >= age + Timeout
      BY <2>3, <3>1, <3>2
    <3> QED BY <3>3 DEF old
  <2>5. stamped[m] = None \/ stamped[m] >= stamped'[m] + Timeout
    BY <1>7, <2>4
  <2> QED BY <1>2, <2>5, OneJobSpaced DEF Visible
<1> QED BY <1>8, <1>9, <1>10, <1>11

LEMMA DequeueSpaced ==
    ASSUME SpacedInv, NEW s \in Slot, DequeueStep(s)
    PROVE  (\A m \in Message : Apart(m)' /\ Aged(m)') /\ Visible
<1> DEFINE j == jobs[s]
<1>1. /\ jobs \in [Slot -> JobRecord] /\ ready \in Seq(Message)
      /\ inflight \in [Message -> Age \cup {None}]
      /\ j \in JobRecord /\ JobNamed(j)
      /\ UNCHANGED <<recovery, accepted>>
  BY DEF SpacedInv, CalmInv, LossInv, TypeInv, CallsInv, RedisInv, DequeueStep, nodes
<1>2. ASSUME NEW j1 \in JobRecord, jobs' = [jobs EXCEPT ![s] = j1]
      PROVE  jobs'[s] = j1 /\ OneJob(s)
  BY <1>1, <1>2 DEF OneJob
<1>3. ASSUME NEW j1 \in JobRecord, jobs' = [jobs EXCEPT ![s] = j1], j1.pc # "hset inflight",
             j.pc # "hset inflight", UNCHANGED <<ready, stamped>>,
             \A m \in Message : inflight'[m] \in {inflight[m], None}
      PROVE  (\A m \in Message : Apart(m)' /\ Aged(m)') /\ Visible
  <2>1. \A r \in Slot : JobStill(r)
    BY <1>2, <1>3 DEF OneJob, JobStill
  <2>2. \A n \in Node : RecoveryStill(n)
    BY <1>1 DEF RecoveryStill
  <2> QED BY <1>1, <1>3, <2>1, <2>2, StillSpaced
<1>4. CASE /\ j.pc \in {"lpop", "hget"} /\ jobs' = [jobs EXCEPT ![s] = NoJob]
           /\ UNCHANGED <<ready, inflight, stamped>>
  BY <1>3, <1>4, NoJobIs
<1>5. CASE /\ j.pc = "lpop" /\ ready # << >> /\ ready' = Tail(ready)
           /\ jobs' = [jobs EXCEPT ![s].pc = "hset inflight", ![s].msg = Head(ready), ![s].lag = 0]
           /\ UNCHANGED <<inflight, stamped>>
  <2>1. PICK m \in Message : m = Head(ready)
    <3>1. ready \in Seq(Message) /\ ready # << >>
      BY <1>1, <1>5
    <3>2. Head(ready) \in Message
      BY <3>1
    <3> QED BY <3>2
  <2> DEFINE j1 == [j EXCEPT !.pc = "hset inflight", !.msg = m, !.lag = 0]
  <2>2. j1 \in JobRecord /\ j1.pc = "hset inflight" /\ j1.msg = m /\ j1.lag = 0
    <3> HIDE DEF j
    <3> QED BY <1>1, Names DEF JobRecord, Id
  <2>3. jobs' = [jobs EXCEPT ![s] = j1]
    BY <1>5, <2>1
  <2> HIDE DEF j1
  <2>4. jobs'[s] = j1 /\ OneJob(s)
    BY <1>2, <2>2, <2>3
  <2>5. JobHolds(s) = {} /\ JobHolds(s)' = {m} /\ jobs'[s].lag = 0
    BY <1>5, <2>2, <2>4 DEF JobHolds
  <2>6. ready # << >> /\ ready' = Tail(ready) /\ UNCHANGED <<inflight, stamped, accepted>>
    BY <1>1, <1>5
  <2> QED BY <2>1, <2>4, <2>5, <2>6, PopSpaced
<1>6. CASE /\ j.pc = "hset inflight"
           /\ \E age \in 0..j.lag : /\ inflight' = [inflight EXCEPT ![j.msg] = age]
                                    /\ stamped' = [stamped EXCEPT ![j.msg] = age]
           /\ jobs' = [jobs EXCEPT ![s].pc = "hget", ![s].lag = 0]
           /\ UNCHANGED ready
  <2>1. PICK age \in 0..j.lag : /\ inflight' = [inflight EXCEPT ![j.msg] = age]
                                /\ stamped' = [stamped EXCEPT ![j.msg] = age]
    BY <1>6
  <2>2. PICK m \in Message : m = j.msg
    BY <1>1, <1>6 DEF JobNamed
  <2> DEFINE j1 == [j EXCEPT !.pc = "hget", !.lag = 0]
  <2>3. j1 \in JobRecord /\ j1.pc = "hget"
    <3> HIDE DEF j
    <3> QED BY <1>1, Names DEF JobRecord
  <2>4. jobs' = [jobs EXCEPT ![s] = j1]
    BY <1>6
  <2> HIDE DEF j1
  <2>5. jobs'[s] = j1 /\ OneJob(s)
    BY <1>2, <2>3, <2>4
  <2>6. m \in JobHolds(s) /\ JobHolds(s)' = {}
    BY <1>6, <2>2, <2>3, <2>5 DEF JobHolds
  <2>7. UNCHANGED <<ready, accepted>>
    BY <1>1, <1>6
  <2> QED BY <2>1, <2>2, <2>5, <2>6, <2>7, StampSpaced
<1>7. CASE /\ j.pc = "hget" /\ jobs' = [jobs EXCEPT ![s].pc = "hdel"]
           /\ UNCHANGED <<ready, inflight, stamped>>
  <2> DEFINE j1 == [j EXCEPT !.pc = "hdel"]
  <2>1. j1 \in JobRecord /\ j1.pc = "hdel"
    <3> HIDE DEF j
    <3> QED BY <1>1 DEF JobRecord
  <2>2. jobs' = [jobs EXCEPT ![s] = j1]
    BY <1>7
  <2> HIDE DEF j1
  <2> QED BY <1>3, <1>7, <2>1, <2>2
<1>8. CASE /\ j.pc = "hdel" /\ inflight' = [inflight EXCEPT ![j.msg] = None]
           /\ jobs' = [jobs EXCEPT ![s] = NoJob] /\ UNCHANGED <<ready, stamped>>
  <2>1. \A m \in Message : inflight'[m] \in {inflight[m], None}
    BY <1>1, <1>8
  <2> QED BY <1>3, <1>8, <2>1, NoJobIs
<1> QED BY <1>4, <1>5, <1>6, <1>7, <1>8 DEF DequeueStep, Returns, Goes

LEMMA AckSpaced ==
    ASSUME SpacedInv, NEW s \in Slot, AckStep(s)
    PROVE  (\A m \in Message : Apart(m)' /\ Aged(m)') /\ Visible
<1> DEFINE j == jobs[s]
<1>1. /\ jobs \in [Slot -> JobRecord] /\ inflight \in [Message -> Age \cup {None}]
      /\ j.pc # "hset inflight"
      /\ UNCHANGED <<ready, recovery, accepted, stamped>>
  BY DEF SpacedInv, CalmInv, LossInv, TypeInv, CallsInv, RedisInv, AckStep, nodes, history
<1>2. \A m \in Message : inflight'[m] \in {inflight[m], None}
  BY <1>1 DEF AckStep
<1>3. jobs' = [jobs EXCEPT ![s] = NoJob] \/ jobs' = [jobs EXCEPT ![s].pc = "hdel payload"]
  BY DEF AckStep, Returns, Goes
<1>4. jobs'[s].pc # "hset inflight" /\ \A r \in Slot : r # s => jobs'[r] = jobs[r]
  BY <1>1, <1>3, NoJobIs DEF JobRecord
<1>5. \A r \in Slot : JobStill(r)
  BY <1>1, <1>4 DEF JobStill
<1>6. \A n \in Node : RecoveryStill(n)
  BY <1>1 DEF RecoveryStill
<1> QED BY <1>1, <1>2, <1>5, <1>6, StillSpaced

LEMMA AttemptSpaced ==
    ASSUME SpacedInv, NEW c \in Client, Attempt(c)
    PROVE  (\A m \in Message : Apart(m)' /\ Aged(m)') /\ Visible
<1>1. /\ TypeInv /\ jobs \in [Slot -> JobRecord]
      /\ UNCHANGED <<ready, inflight, stamped, recovery, accepted>>
  BY DEF SpacedInv, CalmInv, LossInv, TypeInv, CallsInv, Attempt, redis, history
<1>2. UNCHANGED jobs \/ \E s \in Slot : Started(c, s)
  BY <1>1, AttemptType
<1>3. \A r \in Slot : JobStill(r)
  <2>1. CASE UNCHANGED jobs
    BY <2>1 DEF JobStill
  <2>2. ASSUME NEW s \in Slot, Started(c, s) PROVE \A r \in Slot : JobStill(r)
    <3>1. PICK j \in JobRecord : /\ j.pc = FirstPc(j.op)
                                 /\ j.op \in {"enqueue", "dequeue", "ack"}
                                 /\ jobs' = [jobs EXCEPT ![s] = j]
      BY <2>2 DEF Started
    <3>2. jobs[s] = NoJob /\ \A r \in Slot : jobs'[r] = IF r = s THEN j ELSE jobs[r]
      BY <1>1, <2>2, <3>1 DEF Started
    <3>3. j.pc \in {"hset payload", "lpop", "hdel inflight"}
      BY <3>1 DEF FirstPc
    <3> QED BY <3>2, <3>3, NoJobIs DEF JobStill
  <2> QED BY <1>2, <2>1, <2>2
<1>4. \A n \in Node : RecoveryStill(n)
  BY <1>1 DEF RecoveryStill
<1> QED BY <1>1, <1>3, <1>4, StillSpaced

\* Steps of calls and nodes, and no step.
LEMMA RestSpaced ==
    ASSUME SpacedInv, UNCHANGED <<ready, inflight, stamped, recovery, accepted, jobs>>
    PROVE  (\A m \in Message : Apart(m)' /\ Aged(m)') /\ Visible
<1>1. (\A r \in Slot : JobStill(r)) /\ \A n \in Node : RecoveryStill(n)
  BY DEF JobStill, RecoveryStill
<1> QED BY <1>1, StillSpaced

\* _recovery_loop of the only node: a message that it takes back is in its hands
\* alone, and its mark was the last stamp and old.
LEMMA RecoverySpaced ==
    ASSUME SpacedInv, NEW n \in Node, Node = {n}, RecoveryStep(n)
    PROVE  (\A m \in Message : Apart(m)' /\ Aged(m)') /\ Visible
<1> DEFINE r == recovery[n]
<1>1. /\ recovery \in [Node -> RecoveryRecord] /\ r \in RecoveryRecord
      /\ ready \in Seq(Message) /\ inflight \in [Message -> Age \cup {None}]
      /\ r.pc = "rpush" => r.msg \in Message
  BY DEF SpacedInv, CalmInv, LossInv, TypeInv, NodesInv, RedisInv
<1>2. UNCHANGED <<jobs, accepted, stamped>>
  BY DEF RecoveryStep, Refresh, ListQueues, Scan, TakeBack, PutBack, redis, history
<1>3. /\ \A s \in Slot : ~HandsOut(s)
      /\ \A x : \A s \in Slot : (x \in JobHolds(s)' <=> x \in JobHolds(s)) /\ jobs'[s].lag = jobs[s].lag
      /\ \A x : Popped(x)' <=> Popped(x)
  BY <1>2 DEF HandsOut, JobHolds, Popped
<1>4. Visible
  BY <1>3 DEF Visible
<1>5. CASE Refresh(n) \/ ListQueues(n) \/ Scan(n)
  <2> DEFINE expired == {m \in Message : inflight[m] # None /\ inflight[m] >= Timeout + r.lag}
  <2>1. /\ UNCHANGED <<ready, inflight>>
        /\ recovery'[n] \in {[Asleep EXCEPT !.pc = "list"], Asleep, [r EXCEPT !.pc = "scan"],
                             [Asleep EXCEPT !.pc = "hdel", !.items = expired]}
    BY <1>1, <1>5 DEF Refresh, ListQueues, Scan, redis
  <2>2. \A m \in expired : Overdue(m)
    <3> SUFFICES ASSUME NEW m \in Message, inflight[m] # None, inflight[m] >= Timeout + r.lag
                 PROVE  Overdue(m)
      OBVIOUS
    <3>1. stamped[m] = inflight[m] /\ inflight[m] \in Age
      BY <1>1 DEF SpacedInv, Aged
    <3>2. r.lag \in 0..MaxLag
      BY <1>1 DEF RecoveryRecord
    <3> DEFINE age == inflight[m]
               lag == r.lag
    <3>3. age \in Age /\ lag \in 0..MaxLag /\ age >= Timeout + lag
      BY <3>1, <3>2
    <3> HIDE DEF age, lag
    <3>4. age >= Timeout + 0
      BY <3>3, SizesAssumption DEF Age, Old
    <3> QED BY <3>1, <3>4 DEF Overdue, Rested, age
  <2> HIDE DEF expired
  <2>3. recovery'[n].pc # "rpush" /\ recovery'[n].items \subseteq r.items \cup expired
    <3>1. [Asleep EXCEPT !.pc = "list"].pc = "list" /\ [Asleep EXCEPT !.pc = "list"].items = {}
      BY AsleepIs DEF RecoveryRecord
    <3>2. [r EXCEPT !.pc = "scan"].pc = "scan" /\ [r EXCEPT !.pc = "scan"].items = r.items
      <4> HIDE DEF r
      <4> QED BY <1>1 DEF RecoveryRecord
    <3>3. LET r1 == [Asleep EXCEPT !.pc = "hdel", !.items = expired]
          IN r1.pc = "hdel" /\ r1.items = expired
      BY AsleepIs DEF RecoveryRecord
    <3> QED BY <2>1, <3>1, <3>2, <3>3, AsleepIs
  <2>4. \A k \in Node : RecoveryStill(k)
    BY <2>2, <2>3 DEF RecoveryStill
  <2>5. \A s \in Slot : JobStill(s)
    BY <1>2 DEF JobStill
  <2> QED BY <1>2, <2>1, <2>4, <2>5, StillSpaced
<1>6. CASE TakeBack(n)
  <2>1. PICK m \in r.items :
            /\ inflight' = [inflight EXCEPT ![m] = None]
            /\ recovery' = [recovery EXCEPT ![n] = [Asleep EXCEPT !.pc = "rpush", !.msg = m,
                                                        !.items = r.items \ {m}]]
    BY <1>6 DEF TakeBack
  <2>2. m \in Message
    BY <1>1, <2>1 DEF RecoveryRecord
  <2>3. recovery'[n].pc = "rpush" /\ recovery'[n].msg = m /\ recovery'[n].items = r.items \ {m}
    <3>1. recovery'[n] = [Asleep EXCEPT !.pc = "rpush", !.msg = m, !.items = r.items \ {m}]
      BY <1>1, <2>1
    <3> HIDE DEF r
    <3> QED BY <3>1, AsleepIs DEF RecoveryRecord
  <2>4. /\ UNCHANGED ready /\ RecoveryHolds(n)' = {m}
        /\ \A x \in Message : inflight'[x] = IF x = m THEN None ELSE inflight[x]
    BY <1>1, <1>6, <2>1, <2>2, <2>3 DEF TakeBack, RecoveryHolds
  <2>5. Expired(m) /\ Marked(m) /\ Apart(m) /\ Aged(m)
    BY <2>1, <2>2 DEF Expired, Marked, SpacedInv
  <2>6. ~Queued(m) /\ ~Popped(m) /\ Rested(m, 0)
    BY <2>5 DEF Apart, Aged
  <2>7. ~Queued(m)' /\ ~Popped(m)' /\ ~Expired(m)' /\ ~Marked(m)' /\ inflight'[m] = None
    <3>1. ~Expired(m)'
      BY <2>3 DEF Expired
    <3> QED BY <1>3, <2>2, <2>4, <2>6, <3>1 DEF Marked, Queued
  <2>8. Apart(m)'
    BY <2>4, <2>5, <2>7 DEF Apart, Popped
  <2>9. Aged(m)'
    BY <1>2, <2>5, <2>6, <2>7 DEF Aged, Popped, Rested
  <2>10. ASSUME NEW x \in Message, x # m PROVE Apart(x)' /\ Aged(x)'
    <3>1. Apart(x) /\ Aged(x)
      BY DEF SpacedInv
    <3>2. Once(ready', x)
      BY <2>4, <3>1 DEF Apart
    <3>3. Stays(x)
      BY <1>2, <1>3, <2>3, <2>4, <2>10, <3>2 DEF Stays
    <3> QED BY <3>1, <3>3, StaysSpaced
  <2> QED BY <1>4, <2>8, <2>9, <2>10
<1>7. CASE PutBack(n)
  <2>1. r.pc = "rpush" /\ r.msg \in Message /\ ready' = Append(ready, r.msg) /\ UNCHANGED inflight
    BY <1>1, <1>7 DEF PutBack
  <2> PICK m \in Message : m = r.msg
    BY <2>1
  <2>2. ToSet(ready') = ToSet(ready) \cup {m}
    BY <1>1, <2>1, SetOfSequence
  <2>3. recovery'[n].pc # "rpush" /\ recovery'[n].items \subseteq r.items
    <3>1. recovery'[n] = IF r.items = {} THEN Asleep ELSE [r EXCEPT !.pc = "hdel", !.msg = None]
      BY <1>1, <1>7 DEF PutBack
    <3>2. LET r1 == [r EXCEPT !.pc = "hdel", !.msg = None]
          IN r1.pc = "hdel" /\ r1.items = r.items
      <4> HIDE DEF r
      <4> QED BY <1>1 DEF RecoveryRecord
    <3> QED BY <3>1, <3>2, AsleepIs
  <2>4. RecoveryHolds(n)' = {} /\ m \in RecoveryHolds(n)
    BY <2>1, <2>3 DEF RecoveryHolds
  <2>5. TakenBack(m) /\ Apart(m) /\ Aged(m)
    BY <2>4 DEF TakenBack, SpacedInv
  <2>6. ~Queued(m) /\ ~Popped(m) /\ ~Marked(m) /\ Rested(m, 0)
    BY <2>5 DEF Apart, Aged
  <2>7. ~TakenBack(m)' /\ ~Popped(m)' /\ ~Expired(m)' /\ ~Marked(m)' /\ inflight'[m] = None
    <3>1. ~Expired(m)'
      BY <2>3, <2>6 DEF Expired, Marked
    <3>2. ~TakenBack(m)'
      BY <2>4 DEF TakenBack
    <3> QED BY <1>3, <2>1, <2>6, <3>1, <3>2 DEF Marked
  <2>8. Once(ready', m)
    BY <1>1, <2>1, <2>5, <2>6, OnceInSequence DEF Apart, Queued
  <2>9. Apart(m)'
    BY <2>7, <2>8 DEF Apart, Popped
  <2>10. Aged(m)'
    BY <1>2, <2>5, <2>6, <2>7 DEF Aged, Popped, Rested
  <2>11. ASSUME NEW x \in Message, x # m PROVE Apart(x)' /\ Aged(x)'
    <3>1. Apart(x) /\ Aged(x)
      BY DEF SpacedInv
    <3>2. Once(ready', x)
      BY <1>1, <2>1, <2>11, <3>1, OnceInSequence DEF Apart
    <3>3. x \in ToSet(ready') => x \in ToSet(ready)
      BY <2>2, <2>11
    <3>4. Stays(x)
      BY <1>2, <1>3, <2>1, <2>3, <2>4, <3>2, <3>3 DEF Stays
    <3> QED BY <3>1, <3>4, StaysSpaced
  <2> QED BY <1>4, <2>9, <2>10, <2>11
<1> QED BY <1>5, <1>6, <1>7 DEF RecoveryStep

\* Time makes stamps older by as much as the dequeues under way.
LEMMA TickSpaced ==
    ASSUME SpacedInv, Tick
    PROVE  (\A m \in Message : Apart(m)' /\ Aged(m)') /\ Visible
<1>1. /\ recovery \in [Node -> RecoveryRecord] /\ jobs \in [Slot -> JobRecord]
      /\ inflight \in [Message -> Age \cup {None}] /\ stamped \in [Message -> Age \cup {None}]
      /\ UNCHANGED <<ready, accepted>>
  BY DEF SpacedInv, CalmInv, LossInv, TypeInv, NodesInv, CallsInv, RedisInv, HistoryInv, Tick
<1>2. \A m \in Message : inflight'[m] = Older(inflight[m]) /\ stamped'[m] = Older(stamped[m])
  BY DEF Tick
<1>3. Older(None) = None /\ \A age \in Age : Older(age) \in Age
  BY SizesAssumption, Names DEF Older, Age, Old
<1>4. ASSUME NEW k \in Node
      PROVE  RecoveryHolds(k)' = RecoveryHolds(k) /\ recovery'[k].items = recovery[k].items
  <2> DEFINE r == recovery[k]
             r1 == [r EXCEPT !.lag = r.lag + 1]
  <2>1. recovery'[k] \in {r, r1} /\ r \in RecoveryRecord
    BY <1>1 DEF Tick
  <2> HIDE DEF r
  <2>2. r1.pc = r.pc /\ r1.msg = r.msg /\ r1.items = r.items
    BY <2>1 DEF RecoveryRecord
  <2>3. recovery'[k].pc = r.pc /\ recovery'[k].msg = r.msg /\ recovery'[k].items = r.items
    BY <2>1, <2>2
  <2> QED BY <2>3 DEF r, RecoveryHolds
<1>5. ASSUME NEW s \in Slot
      PROVE  /\ JobHolds(s)' = JobHolds(s) /\ ~HandsOut(s)
             /\ JobHolds(s) # {} => /\ jobs[s].lag \in 0..MaxLag /\ jobs[s].lag < MaxLag
                                    /\ jobs'[s].lag = jobs[s].lag + 1
  <2> DEFINE j == jobs[s]
             j1 == [j EXCEPT !.lag = j.lag + 1]
  <2>1. /\ jobs'[s] = IF j.pc = "hset inflight" THEN j1 ELSE j
        /\ j \in JobRecord /\ (j.lag < MaxLag \/ j.pc # "hset inflight")
    BY <1>1 DEF Tick
  <2> HIDE DEF j
  <2>2. j1.pc = j.pc /\ j1.msg = j.msg /\ j1.lag = j.lag + 1 /\ j.lag \in 0..MaxLag
    BY <2>1 DEF JobRecord
  <2>3. jobs'[s].pc = j.pc /\ jobs'[s].msg = j.msg
    BY <2>1, <2>2
  <2>4. j.pc = "hset inflight" => j.lag < MaxLag /\ jobs'[s].lag = j.lag + 1
    BY <2>1, <2>2
  <2> QED BY <2>2, <2>3, <2>4 DEF j, JobHolds, HandsOut
<1>6. ASSUME NEW m \in Message PROVE Apart(m)' /\ Aged(m)'
  <2>1. Apart(m) /\ Aged(m)
    BY DEF SpacedInv
  <2>2. inflight'[m] = None <=> inflight[m] = None
    BY <1>1, <1>2, <1>3, Names
  <2>3. stamped'[m] = None <=> stamped[m] = None
    BY <1>1, <1>2, <1>3, Names
  <2>4. /\ Queued(m)' <=> Queued(m)
        /\ Popped(m)' <=> Popped(m)
        /\ TakenBack(m)' <=> TakenBack(m)
        /\ Expired(m)' <=> Expired(m)
        /\ Marked(m)' <=> Marked(m)
    BY <1>1, <1>4, <1>5, <2>2 DEF Queued, Popped, TakenBack, Expired, Marked
  <2>5. Once(ready', m)
    BY <1>1, <2>1 DEF Apart
  <2>6. Apart(m)'
    BY <1>5, <2>1, <2>4, <2>5 DEF Apart
  <2>7. ASSUME NEW lag \in 0..MaxLag, NEW more \in {0, 1}, lag + more <= MaxLag, Rested(m, lag),
               stamped'[m] # None
        PROVE  stamped'[m] >= Timeout + (lag + more)
    <3> DEFINE age == stamped[m]
    <3>1. age \in Age /\ age >= Timeout + lag /\ stamped'[m] = Older(age)
      BY <1>1, <1>2, <2>3, <2>7 DEF Rested
    <3> HIDE DEF age
    <3>2. Older(age) = IF age < Old THEN age + 1 ELSE Old
      BY <3>1, Names DEF Older
    <3>3. age \in Nat /\ Old = Timeout + MaxLag /\ Timeout \in Nat /\ MaxLag \in Nat /\ lag \in Nat
          /\ age <= Old
      BY <3>1, SizesAssumption DEF Age, Old
    <3>4. Older(age) >= Timeout + (lag + more)
      BY <2>7, <3>1, <3>2, <3>3
    <3> QED BY <3>1, <3>4
  <2>8. Queued(m)' \/ TakenBack(m)' \/ Expired(m)' => Rested(m, 0)'
    <3> SUFFICES ASSUME Queued(m) \/ TakenBack(m) \/ Expired(m), stamped'[m] # None
                 PROVE  stamped'[m] >= Timeout + 0
      BY <2>4 DEF Rested
    <3>1. Rested(m, 0) /\ 0 \in 0..MaxLag /\ 0 + 0 <= MaxLag /\ 0 + 0 = 0
      BY <2>1, SizesAssumption DEF Aged
    <3> QED BY <2>7, <3>1
  <2>9. ASSUME NEW s \in Slot, m \in JobHolds(s)', stamped'[m] # None
        PROVE  stamped'[m] >= Timeout + jobs'[s].lag
    <3> DEFINE lag == jobs[s].lag
    <3>1. lag \in 0..MaxLag /\ lag < MaxLag /\ jobs'[s].lag = lag + 1 /\ Rested(m, lag)
      BY <1>5, <2>1, <2>9 DEF Aged
    <3> HIDE DEF lag
    <3>2. lag + 1 <= MaxLag
      BY <3>1, SizesAssumption
    <3>3. stamped'[m] >= Timeout + (lag + 1)
      BY <2>7, <2>9, <3>1, <3>2
    <3> QED BY <3>1, <3>3
  <2>10. /\ stamped'[m] # None => m \in accepted'
         /\ inflight'[m] # None => stamped'[m] = inflight'[m]
    BY <1>1, <1>2, <2>1, <2>2, <2>3 DEF Aged
  <2>11. Aged(m)'
    BY <2>8, <2>9, <2>10 DEF Aged, Rested
  <2> QED BY <2>6, <2>11
<1>7. Visible
  BY <1>5 DEF Visible
<1> QED BY <1>6, <1>7

LEMMA InitSpaced == Init => SpacedInv
<1> SUFFICES ASSUME Init PROVE SpacedInv
  OBVIOUS
<1>1. /\ \A s \in Slot : JobHolds(s) = {}
      /\ \A n \in Node : RecoveryHolds(n) = {} /\ recovery[n].items = {}
  <2>1. (\A s \in Slot : jobs[s] = NoJob) /\ \A n \in Node : recovery[n] = Asleep
    BY DEF Init
  <2> QED BY <2>1, NoJobIs, AsleepIs DEF JobHolds, RecoveryHolds
<1>2. ASSUME NEW m \in Message PROVE Apart(m) /\ Aged(m)
  <2>1. ~Queued(m) /\ Once(ready, m) /\ inflight[m] = None /\ stamped[m] = None
    BY DEF Init, Queued, ToSet, Once
  <2>2. ~Popped(m) /\ ~TakenBack(m) /\ ~Expired(m)
    BY <1>1 DEF Popped, TakenBack, Expired
  <2> QED BY <1>1, <2>1, <2>2 DEF Apart, Aged, Marked
<1> QED BY <1>2, InitCalm DEF SpacedInv

LEMMA NextSpaced ==
    ASSUME Faults = {}, NEW n, Node = {n}, SpacedInv, [Next]_vars
    PROVE  SpacedInv' /\ Visible
<1>1. CalmInv'
  BY NextCalm DEF SpacedInv
<1>2. SUFFICES (\A m \in Message : Apart(m)' /\ Aged(m)') /\ Visible
  BY <1>1 DEF SpacedInv
<1>3. ASSUME NEW c \in Client, NEW k \in Node, CallEnqueue(c, k) \/ CallDequeue(c, k) \/ CallAck(c, k)
      PROVE  (\A m \in Message : Apart(m)' /\ Aged(m)') /\ Visible
  <2>1. UNCHANGED <<ready, inflight, stamped, recovery, accepted, jobs>>
    BY <1>3 DEF CallEnqueue, CallDequeue, CallAck, Call, redis, nodes, history
  <2> QED BY <2>1, RestSpaced
<1>4. ASSUME NEW c \in Client, Attempt(c)
      PROVE  (\A m \in Message : Apart(m)' /\ Aged(m)') /\ Visible
  BY <1>4, AttemptSpaced
<1>5. ASSUME NEW s \in Slot, JobStep(s)
      PROVE  (\A m \in Message : Apart(m)' /\ Aged(m)') /\ Visible
  BY <1>5, EnqueueSpaced, DequeueSpaced, AckSpaced DEF JobStep
<1>6. ASSUME NEW k \in Node, RecoveryStep(k)
      PROVE  (\A m \in Message : Apart(m)' /\ Aged(m)') /\ Visible
  <2>1. Node = {k}
    OBVIOUS
  <2> QED BY <1>6, <2>1, RecoverySpaced
<1>7. ASSUME NEW k \in Node, Start(k) \/ Register(k)
      PROVE  (\A m \in Message : Apart(m)' /\ Aged(m)') /\ Visible
  <2>1. UNCHANGED <<ready, inflight, stamped, recovery, accepted, jobs>>
    BY <1>7 DEF Start, Register, redis, history
  <2> QED BY <2>1, RestSpaced
<1>8. CASE Tick
  BY <1>8, TickSpaced
<1>9. CASE UNCHANGED vars
  <2>1. UNCHANGED <<ready, inflight, stamped, recovery, accepted, jobs>>
    BY <1>9 DEF vars, redis, nodes, history
  <2> QED BY <2>1, RestSpaced
<1>10. /\ \A c \in Client : ~AttemptFails(c)
       /\ \A s \in Slot : ~JobFails(s)
       /\ \A k \in Node : ~RecoveryFails(k) /\ ~Leave(k) /\ ~Halt(k)
  BY DEF AttemptFails, JobFails, RecoveryFails, Leave, Halt
<1> QED BY <1>3, <1>4, <1>5, <1>6, <1>7, <1>8, <1>9, <1>10 DEF Next

\* The visibility timeout of queue_node.py: with one node and no failure, for all
\* numbers of clients, messages and jobs and all timeouts, a message is handed out
\* again only when the stamp of its last delivery is older than
\* visibility_timeout_s, however long dequeues take between popping a message and
\* marking it, or the recovery loop between reading the clock and the marks.
THEOREM MessagesStayHidden ==
    ASSUME Faults = {}, NEW n, Node = {n} PROVE Spec => VisibilityRespected
<1>1. SpacedInv /\ [Next]_vars =>
          [\A s \in Slot : HandsOut(s) =>
              LET m == jobs[s].msg
              IN stamped[m] = None \/ stamped[m] >= stamped'[m] + Timeout]_vars
  BY NextSpaced DEF Visible
<1>2. SpacedInv /\ [Next]_vars => SpacedInv'
  BY NextSpaced
<1> QED BY <1>1, <1>2, InitSpaced, PTL DEF Spec, VisibilityRespected

----------------------------------------------------------------------------
(* Queue implements AtLeastOnce.                                           *)

\* A message that somebody still goes on with is kept, was lost or has been
\* acknowledged: recovery takes back marks that may be gone by then, and without
\* this a message could come back that the queue owed to nobody.
OwedInv == LossInv /\ \A m \in Message : Circulates(m) => Kept(m) \/ m \in acking \cup dropped

LEMMA KeptCirculates ==
    ASSUME NEW m
    PROVE  (Kept(m) => Present(m) /\ Circulates(m)) /\ (Kept(m)' => Circulates(m)')
<1>1. ASSUME NEW s \in Slot PROVE /\ m \in JobHolds(s) => HeldByJob(m) /\ PoppedByJob(m)
                                  /\ m \in JobHolds(s)' => PoppedByJob(m)'
  <2>1. ASSUME m \in JobHolds(s) PROVE jobs[s].pc = "hset inflight" /\ jobs[s].msg = m
    BY <2>1 DEF JobHolds
  <2>2. ASSUME m \in JobHolds(s)' PROVE jobs'[s].pc = "hset inflight" /\ jobs'[s].msg = m
    BY <2>2 DEF JobHolds
  <2> QED BY <2>1, <2>2 DEF HeldByJob, PoppedByJob
<1>2. ASSUME NEW n \in Node PROVE /\ m \in RecoveryHolds(n) => HeldByRecovery(m)
                                  /\ m \in RecoveryHolds(n)' => HeldByRecovery(m)'
  <2>1. ASSUME m \in RecoveryHolds(n) PROVE recovery[n].pc = "rpush" /\ recovery[n].msg = m
    BY <2>1 DEF RecoveryHolds
  <2>2. ASSUME m \in RecoveryHolds(n)' PROVE recovery'[n].pc = "rpush" /\ recovery'[n].msg = m
    BY <2>2 DEF RecoveryHolds
  <2> QED BY <2>1, <2>2 DEF HeldByRecovery
<1>3. Kept(m) => Present(m) /\ Circulates(m)
  BY <1>1, <1>2 DEF Kept, Present, Circulates
<1>4. Kept(m)' => Circulates(m)'
  BY <1>1, <1>2 DEF Kept, Circulates
<1> QED BY <1>3, <1>4

LEMMA InitOwed == Init => OwedInv
<1> SUFFICES ASSUME Init, NEW m \in Message, Circulates(m) PROVE FALSE
  BY InitLoss DEF OwedInv
<1>1. m \notin ToSet(ready) /\ inflight[m] = None
  BY DEF Init, ToSet
<1>2. /\ \A s \in Slot : jobs[s].pc = "none"
      /\ \A n \in Node : recovery[n].pc = "sleep" /\ recovery[n].items = {}
  BY NoJobIs, AsleepIs DEF Init
<1>3. ~PoppedByJob(m) /\ ~HeldByRecovery(m)
  BY <1>2 DEF PoppedByJob, HeldByRecovery
<1> QED BY <1>1, <1>3 DEF Circulates

LEMMA NextOwed == OwedInv /\ [Next]_vars => OwedInv'
<1> SUFFICES ASSUME OwedInv, [Next]_vars, NEW m \in Message, Circulates(m)'
             PROVE  Kept(m)' \/ m \in acking' \cup dropped'
  BY NextLoss DEF OwedInv
<1>1. Grows /\ StaysKept /\ NothingAppears
  BY StepLoses DEF OwedInv, LosesNothing
<1>2. CASE m \in ToSet(ready')
  BY <1>2 DEF Kept
<1>3. CASE Circulates(m)
  <2>1. Kept(m) \/ m \in acking \cup dropped
    BY <1>3 DEF OwedInv
  <2> QED BY <1>1, <2>1 DEF Grows, StaysKept
<1> QED BY <1>1, <1>2, <1>3 DEF NothingAppears

\* What a step makes of the messages the queue owes, S being those it puts.
Puts(S) == /\ S \subseteq Message \cap ToSet(ready')
           /\ \A m \in Message : m \in ToSet(ready') => Circulates(m) \/ m \in S

LEMMA PendingStep ==
    ASSUME OwedInv, [Next]_vars, NEW S, Puts(S)
    PROVE  Pending' = (Pending \cup S) \ (acking' \cup dropped')
<1>1. /\ Grows /\ StaysKept /\ NothingAppears /\ LossInv /\ LossInv'
      /\ payloads \subseteq Message /\ payloads' \subseteq Message
  BY StepLoses, NextLoss DEF OwedInv, LosesNothing, LossInv, TypeInv, RedisInv
<1>2. ASSUME NEW m \in Pending' PROVE m \in (Pending \cup S) \ (acking' \cup dropped')
  <2>1. m \in Message /\ m \in payloads' /\ Kept(m)' /\ m \notin acking' \cup dropped'
    BY <1>1 DEF Pending
  <2>2. Circulates(m)'
    BY <2>1, KeptCirculates
  <2>3. CASE m \in S
    BY <2>1, <2>3
  <2>4. CASE Circulates(m)
    <3>1. m \notin acking \cup dropped
      BY <1>1, <2>1 DEF Grows
    <3>2. Kept(m)
      BY <2>1, <2>4, <3>1 DEF OwedInv
    <3>3. m \in payloads
      BY <1>1, <2>1, <3>1, <3>2, KeptCirculates DEF LossInv, Known
    <3> QED BY <2>1, <3>1, <3>2, <3>3 DEF Pending
  <2> QED BY <1>1, <2>1, <2>2, <2>3, <2>4 DEF NothingAppears, Puts
<1>3. ASSUME NEW m \in (Pending \cup S) \ (acking' \cup dropped') PROVE m \in Pending'
  <2>1. CASE m \in Pending
    <3>1. m \in payloads /\ Kept(m) /\ m \in Message
      BY <1>1, <2>1 DEF Pending
    <3>2. m \in payloads' /\ Kept(m)'
      BY <1>1, <1>3, <3>1 DEF Grows, StaysKept
    <3> QED BY <1>3, <3>2 DEF Pending
  <2>2. CASE m \in S
    <3>1. m \in Message /\ Kept(m)' /\ Present(m)'
      BY <2>2 DEF Puts, Kept, Present
    <3>2. m \in payloads'
      BY <1>1, <1>3, <3>1 DEF LossInv, Known
    <3> QED BY <1>3, <3>1, <3>2 DEF Pending
  <2> QED BY <1>3, <2>1, <2>2
<1> QED BY <1>2, <1>3

\* A step that puts nothing and that no client notices is a stutter.
LEMMA QuietMaps ==
    ASSUME OwedInv, [Next]_vars, Puts({}), UNCHANGED <<accepted, received, acking, dropped>>
    PROVE  UNCHANGED Abstract!vars
<1>1. Pending' = Pending
  BY PendingStep DEF Pending
<1> QED BY <1>1 DEF Abstract!vars

\* A step in which coroutines end that had the messages of S in hand.
LEMMA LossMaps ==
    ASSUME OwedInv, [Next]_vars, UNCHANGED <<ready, accepted, received, acking>>,
           Faults \cap {"redis", "halt"} # {}, NEW S, dropped' = dropped \cup S,
           \A m \in S : m \in Message /\ Kept(m)
    PROVE  Abstract!Next
<1>1. Puts({})
  BY DEF Puts, Circulates
<1>2. Pending' = Pending \ S
  BY <1>1, PendingStep DEF Pending
<1>3. S \subseteq Pending \cup acking \cup dropped
  BY KeptCirculates DEF OwedInv, LossInv, Known, Pending
<1>4. Abstract!Lose(S)
  BY <1>2, <1>3 DEF Abstract!Lose, Abstract!Known
<1> QED BY <1>4 DEF Abstract!Next

LEMMA CallMaps ==
    ASSUME OwedInv, NEW c \in Client, NEW n \in Node,
           CallEnqueue(c, n) \/ CallDequeue(c, n) \/ CallAck(c, n)
    PROVE  Abstract!Next \/ UNCHANGED Abstract!vars
<1>1. [Next]_vars /\ UNCHANGED <<ready, accepted, received, dropped>>
  <2>1. [Next]_vars
    BY DEF Next
  <2>2. UNCHANGED <<ready, accepted, received, dropped>>
    BY DEF CallEnqueue, CallDequeue, CallAck, Call, redis, history
  <2> QED BY <2>1, <2>2
<1>2. Puts({})
  BY <1>1 DEF Puts, Circulates
<1>3. CASE UNCHANGED acking
  BY <1>1, <1>2, <1>3, QuietMaps
<1>4. CASE CallAck(c, n)
  <2>1. PICK m \in received : acking' = acking \cup {m}
    BY <1>4 DEF CallAck
  <2>2. m \in Message
    BY DEF OwedInv, LossInv, TypeInv, HistoryInv
  <2>3. Pending' = Pending \ {m}
    BY <1>1, <1>2, <2>1, PendingStep DEF Pending
  <2>4. Abstract!Ask(m)
    BY <1>1, <2>1, <2>3 DEF Abstract!Ask
  <2> QED BY <2>2, <2>4 DEF Abstract!Next
<1>5. UNCHANGED acking \/ CallAck(c, n)
  BY DEF CallEnqueue, CallDequeue, history
<1> QED BY <1>3, <1>4, <1>5

LEMMA EnqueueMaps ==
    ASSUME OwedInv, NEW s \in Slot, EnqueueStep(s)
    PROVE  Abstract!Next \/ UNCHANGED Abstract!vars
<1>1. /\ [Next]_vars /\ UNCHANGED <<received, acking, dropped>>
      /\ jobs[s].msg \in Message /\ ready \in Seq(Message)
  BY DEF Next, JobStep, EnqueueStep, OwedInv, LossInv, TypeInv, CallsInv, RedisInv, JobNamed
<1>2. CASE UNCHANGED <<ready, accepted>>
  <2>1. Puts({})
    BY <1>2 DEF Puts, Circulates
  <2> QED BY <1>1, <1>2, <2>1, QuietMaps
<1>3. CASE ready' = Append(ready, jobs[s].msg) /\ accepted' \in {accepted, accepted \cup {jobs[s].msg}}
  <2> PICK m \in Message : m = jobs[s].msg
    BY <1>1
  <2>1. ToSet(ready') = ToSet(ready) \cup {m}
    BY <1>1, <1>3, SetOfSequence
  <2>2. Puts({m})
    BY <2>1 DEF Puts, Circulates
  <2>3. Pending' = (Pending \cup {m}) \ (acking \cup dropped)
    BY <1>1, <2>2, PendingStep
  <2>4. Pending' = Pending \cup ({m} \ (acking \cup dropped))
    BY <2>3 DEF Pending
  <2>5. Abstract!Put(m)
    BY <1>1, <1>3, <2>4 DEF Abstract!Put
  <2> QED BY <2>5 DEF Abstract!Next
<1> QED BY <1>2, <1>3 DEF EnqueueStep

LEMMA DequeueMaps ==
    ASSUME OwedInv, NEW s \in Slot, DequeueStep(s)
    PROVE  Abstract!Next \/ UNCHANGED Abstract!vars
<1>1. [Next]_vars /\ UNCHANGED <<accepted, acking, dropped>> /\ ready \in Seq(Message)
  <2>1. [Next]_vars
    BY DEF Next, JobStep
  <2>2. UNCHANGED <<accepted, acking, dropped>>
    BY DEF DequeueStep
  <2>3. ready \in Seq(Message)
    BY DEF OwedInv, LossInv, TypeInv, RedisInv
  <2> QED BY <2>1, <2>2, <2>3
<1>2. Puts({})
  <2>1. ready' = ready \/ (ready # << >> /\ ready' = Tail(ready))
    BY DEF DequeueStep
  <2>2. ToSet(ready') \subseteq ToSet(ready)
    <3>1. CASE ready' = ready
      BY <3>1
    <3>2. CASE ready # << >> /\ ready' = Tail(ready)
      <4>1. Head(ready) \in Message
        BY <1>1, <3>2
      <4> QED BY <1>1, <3>2, <4>1, SetOfSequence
    <3> QED BY <2>1, <3>1, <3>2
  <2> QED BY <2>2 DEF Puts, Circulates
<1>3. CASE UNCHANGED received
  BY <1>1, <1>2, <1>3, QuietMaps
<1>4. CASE jobs[s].pc = "hget" /\ jobs[s].msg \in payloads /\ received' = received \cup {jobs[s].msg}
  <2> PICK m \in Message : m = jobs[s].msg
    BY <1>4 DEF OwedInv, LossInv, TypeInv, RedisInv
  <2>1. Circulates(m)
    BY <1>4 DEF Circulates, PoppedByJob
  <2>2. m \in Pending \cup acking \cup dropped
    BY <1>4, <2>1 DEF OwedInv, Pending
  <2>3. Pending' = Pending
    BY <1>1, <1>2, PendingStep DEF Pending
  <2>4. Abstract!Hand(m)
    BY <1>1, <1>4, <2>2, <2>3 DEF Abstract!Hand, Abstract!Known
  <2> QED BY <2>4 DEF Abstract!Next
<1>5. \/ UNCHANGED received
      \/ /\ jobs[s].pc = "hget" /\ jobs[s].msg \in payloads
         /\ received' = received \cup {jobs[s].msg}
  BY DEF DequeueStep
<1> QED BY <1>3, <1>4, <1>5

\* What recovery makes ready it has taken from the marks.
LEMMA RecoveryMaps ==
    ASSUME OwedInv, NEW n \in Node, RecoveryStep(n)
    PROVE  UNCHANGED Abstract!vars
<1>1. [Next]_vars /\ UNCHANGED <<accepted, received, acking, dropped>>
  <2>1. [Next]_vars
    BY DEF Next
  <2>2. UNCHANGED <<accepted, received, acking, dropped>>
    BY DEF RecoveryStep, Refresh, ListQueues, Scan, TakeBack, PutBack, history
  <2> QED BY <2>1, <2>2
<1>2. Puts({})
  <2>1. CASE UNCHANGED ready
    BY <2>1 DEF Puts, Circulates
  <2>2. CASE PutBack(n)
    <3>1. PICK m \in Message : m = recovery[n].msg
      BY <2>2 DEF PutBack, OwedInv, LossInv, TypeInv, NodesInv
    <3>2. ready \in Seq(Message) /\ ready' = Append(ready, m)
      BY <2>2, <3>1 DEF PutBack, OwedInv, LossInv, TypeInv, RedisInv
    <3>3. ToSet(ready') = ToSet(ready) \cup {m}
      BY <3>2, SetOfSequence
    <3>4. Circulates(m)
      BY <2>2, <3>1 DEF PutBack, Circulates, HeldByRecovery
    <3> QED BY <3>3, <3>4 DEF Puts, Circulates
  <2> QED BY <2>1, <2>2 DEF RecoveryStep, Refresh, ListQueues, Scan, TakeBack, redis
<1> QED BY <1>1, <1>2, QuietMaps

LEMMA JobFailsMaps ==
    ASSUME OwedInv, NEW s \in Slot, JobFails(s)
    PROVE  Abstract!Next
<1>1. /\ [Next]_vars /\ UNCHANGED <<ready, accepted, received, acking>>
      /\ Faults \cap {"redis", "halt"} # {} /\ dropped' = dropped \cup JobHolds(s)
  BY DEF Next, JobFails, redis
<1>2. \A m \in JobHolds(s) : m \in Message /\ Kept(m)
  BY HoldsMessages DEF Kept, OwedInv, LossInv
<1> QED BY <1>1, <1>2, LossMaps

LEMMA NodeEndsMaps ==
    ASSUME OwedInv, NEW n \in Node, RecoveryFails(n) \/ Leave(n) \/ Halt(n)
    PROVE  Abstract!Next
<1>1. /\ [Next]_vars /\ UNCHANGED <<ready, accepted, received, acking>>
      /\ Faults \cap {"redis", "halt"} # {}
  BY DEF Next, RecoveryFails, Leave, Halt, redis
<1>2. /\ \A m \in RecoveryHolds(n) : m \in Message /\ Kept(m)
      /\ \A s \in Slot : \A m \in JobHolds(s) : m \in Message /\ Kept(m)
  BY HoldsMessages DEF Kept, OwedInv, LossInv
<1>3. CASE dropped' = dropped \cup RecoveryHolds(n)
  BY <1>1, <1>2, <1>3, LossMaps
<1>4. CASE Halt(n)
  <2> DEFINE S == RecoveryHolds(n) \cup UNION {JobHolds(s) : s \in {r \in Slot : jobs[r].on = n}}
  <2>1. dropped' = dropped \cup S
    BY <1>4 DEF Halt
  <2>2. \A m \in S : m \in Message /\ Kept(m)
    BY <1>2
  <2> HIDE DEF S
  <2> QED BY <1>1, <2>1, <2>2, LossMaps
<1> QED BY <1>3, <1>4 DEF RecoveryFails, Leave

LEMMA NextMaps ==
    ASSUME OwedInv, [Next]_vars
    PROVE  Abstract!Next \/ UNCHANGED Abstract!vars
<1>1. ASSUME UNCHANGED <<ready, accepted, received, acking, dropped>>
      PROVE  UNCHANGED Abstract!vars
  <2>1. Puts({})
    BY <1>1 DEF Puts, Circulates
  <2> QED BY <1>1, <2>1, QuietMaps
<1>2. ASSUME NEW c \in Client, Attempt(c) \/ AttemptFails(c) PROVE UNCHANGED Abstract!vars
  BY <1>1, <1>2 DEF Attempt, AttemptFails, redis, history
<1>3. ASSUME NEW s \in Slot, AckStep(s) PROVE UNCHANGED Abstract!vars
  BY <1>1, <1>3 DEF AckStep, history
<1>4. ASSUME NEW n \in Node, Start(n) \/ Register(n) PROVE UNCHANGED Abstract!vars
  BY <1>1, <1>4 DEF Start, Register, redis, history
<1>5. CASE Tick \/ UNCHANGED vars
  BY <1>1, <1>5 DEF Tick, vars, redis, history
<1>6. CASE \E c \in Client, n \in Node : CallEnqueue(c, n) \/ CallDequeue(c, n) \/ CallAck(c, n)
  BY <1>6, CallMaps
<1>7. CASE \E s \in Slot : EnqueueStep(s) \/ DequeueStep(s) \/ JobFails(s)
  BY <1>7, EnqueueMaps, DequeueMaps, JobFailsMaps
<1>8. CASE \E n \in Node : RecoveryStep(n) \/ RecoveryFails(n) \/ Leave(n) \/ Halt(n)
  BY <1>8, RecoveryMaps, NodeEndsMaps
<1> QED BY <1>2, <1>3, <1>4, <1>5, <1>6, <1>7, <1>8 DEF Next, JobStep

\* queue_node.py is an at-least-once queue, for all numbers of nodes, clients and
\* messages and under all failures: its calls with their retries on other replicas,
\* its dequeues in three commands and its recovery loops only ever put a message,
\* hand out one that was put, take an acknowledgement from a client that had
\* received the message, and lose one only where a Redis command may raise or a
\* node halt.
THEOREM Refinement == Spec => ImplementsAtLeastOnce
<1>1. Init => Abstract!Init
  BY DEF Init, Abstract!Init, Pending
<1>2. OwedInv /\ [Next]_vars => [Abstract!Next]_(Abstract!vars)
  BY NextMaps
<1> QED BY <1>1, <1>2, InitOwed, NextOwed, PTL DEF Spec, ImplementsAtLeastOnce, Abstract!Spec
=============================================================================
