----------------------------- MODULE RaftStorage -----------------------------
(***************************************************************************)
(* What one RaftNode of consensus/raft.py keeps when it restarts: its term, *)
(* vote and log, in memory and in the Redis hash _persist_state writes and *)
(* _load_state reads.  The rest of the cluster is open: any request may    *)
(* come at any time.  Module Raft has the cluster, without restarts.       *)
(*                                                                         *)
(* Several coroutines may be writing.  Each takes its image of the state   *)
(* before its await and goes on when the write has landed.  The client has *)
(* a pool of connections, so writes may land in another order than they    *)
(* were issued in.                                                         *)
(*                                                                         *)
(* A log is a model value, since only whether it is the same matters here; *)
(* whether a candidate is up to date with it is left open, and so is which *)
(* node is the leader: a command may be given to any node that is up.      *)
(***************************************************************************)
EXTENDS Naturals

CONSTANTS Self, Candidate,  \* this node, the others
          None,
          Log, EmptyLog,
          MaxTerm,          \* bound: the last term
          Task              \* bound: as many coroutines write at the same time

ASSUME NamesAssumption ==
    /\ Self \notin Candidate /\ None \notin Candidate \cup {Self}
    /\ EmptyLog \in Log /\ MaxTerm \in Nat

VARIABLES
    life,      \* "down", "loading" (hgetall is sent), "read" (image in hand), "up"
    mem,       \* current_term, voted_for, log
    disk,      \* Redis: raft:<node_id>:state
    loaded,    \* what _load_state has in hand
    tasks,     \* coroutines between a write and what follows it
    behind,    \* history: disk is older than something that was on it
    forgot,    \* history: why the node may not know what it did
    promises   \* history: the votes that left this node

vars == <<life, mem, disk, loaded, tasks, behind, forgot, promises>>

Image == [term : 0..MaxTerm, vote : Candidate \cup {Self, None}, log : Log]
Fresh == [term |-> 0, vote |-> None, log |-> EmptyLog]

\* A coroutine: its image, what follows, for whom; whether the write has
\* landed, a later one landed before it, and which were issued before it.
Idle == [pc |-> "idle", image |-> Fresh, to |-> None, landed |-> FALSE,
         passed |-> FALSE, older |-> {}]

Writing == {s \in Task : tasks[s].pc # "idle" /\ ~tasks[s].landed}

Init ==
    /\ life = "down" /\ mem = Fresh /\ disk = Fresh /\ loaded = Fresh
    /\ tasks = [s \in Task |-> Idle]
    /\ behind = FALSE /\ forgot = {} /\ promises = {}

----------------------------------------------------------------------------
(***************************************************************************)
(* The assignments a coroutine makes and its call of _persist_state, after *)
(* which it goes on as pc.  A request may come while the state is loaded:  *)
(* the node then acts on, and writes, what a new process has.              *)
(***************************************************************************)
Persist(s, image, pc, to) ==
    /\ mem' = image
    /\ tasks' = [tasks EXCEPT ![s] =
                    [Idle EXCEPT !.pc = pc, !.image = image, !.to = to, !.older = Writing \ {s}]]
    /\ forgot' = IF life = "up" THEN forgot ELSE forgot \cup {"early"}
    /\ UNCHANGED <<life, disk, loaded, behind, promises>>

Free(s) == life # "down" /\ tasks[s] = Idle

\* Slip: the vote cleared as it is stored.
SteppedDownStored(t) == [mem EXCEPT !.term = t, !.vote = ""]

\* _step_down; a response of a higher term calls it as the requests do.
SteppedDown(t) == [mem EXCEPT !.term = t, !.vote = None]

StepDown(s) ==
    \E t \in mem.term + 1..MaxTerm :
        Free(s) /\ life = "up" /\ Persist(s, SteppedDown(t), "done", None)

\* _handle_request_vote, of a candidate that is up to date.
RequestVote(s) ==
    \E c \in Candidate :
        /\ Free(s)
        /\ \/ \E t \in mem.term + 1..MaxTerm : Persist(s, SteppedDown(t), "decide", c)
           \/ mem.vote \in {None, c} /\ Persist(s, [mem EXCEPT !.vote = c], "grant", c)

\* _handle_append_entries, with entries that are stored.
AppendEntries(s) ==
    /\ Free(s)
    /\ \/ \E t \in mem.term + 1..MaxTerm : Persist(s, SteppedDown(t), "append", None)
       \/ \E l \in Log : Persist(s, [mem EXCEPT !.log = l], "done", None)

\* _start_election, one at a time.
StartElection(s) ==
    /\ Free(s) /\ life = "up" /\ mem.term < MaxTerm
    /\ \A r \in Task : tasks[r].pc # "ask"
    /\ Persist(s, [mem EXCEPT !.term = @ + 1, !.vote = Self], "ask", Self)

\* Slip: the entry is appended and nothing written.
ReplicateUnwritten(s) ==
    /\ Free(s) /\ life = "up"
    /\ \E l \in Log : mem' = [mem EXCEPT !.log = l]
    /\ UNCHANGED <<life, disk, loaded, tasks, behind, forgot, promises>>

\* replicate.
Replicate(s) ==
    /\ Free(s) /\ life = "up"
    /\ \E l \in Log : Persist(s, [mem EXCEPT !.log = l], "done", None)

----------------------------------------------------------------------------
(* Redis, and what follows a write.                                        *)

\* Redis executes a write; the ones issued before it are passed.
Land(s) ==
    /\ s \in Writing
    /\ disk' = tasks[s].image
    /\ behind' = tasks[s].passed
    /\ tasks' = [r \in Task |->
                    IF r = s THEN [tasks[s] EXCEPT !.landed = TRUE]
                    ELSE [tasks[r] EXCEPT !.passed = @ \/ r \in tasks[s].older,
                                          !.older = @ \ {s}]]
    /\ UNCHANGED <<life, mem, loaded, forgot, promises>>

Ends(s) ==
    /\ tasks' = [tasks EXCEPT ![s] = Idle]
    /\ UNCHANGED <<life, mem, disk, loaded, behind, forgot>>

\* After _step_down: the rest of the handler, on the state as it is now.
Resume(s) ==
    LET c == tasks[s].to
    IN /\ tasks[s].landed
       /\ \/ /\ tasks[s].pc = "decide" /\ mem.vote \in {None, c}
             /\ Persist(s, [mem EXCEPT !.vote = c], "grant", c)
          \/ /\ tasks[s].pc = "append"
             /\ \E l \in Log : Persist(s, [mem EXCEPT !.log = l], "done", None)
          \/ /\ tasks[s].pc \in {"decide", "append", "done"}
             /\ Ends(s) /\ UNCHANGED promises

\* What leaves says the term the node has by now: the granted answer does, and
\* so do its own requests, in which it still stands itself.
Promised(s) == [term |-> mem.term, to |-> tasks[s].to, written |-> tasks[s].image.term]

\* Slip: the answer does not wait for the write.
PromiseAtOnce(s) ==
    /\ tasks[s].pc \in {"grant", "ask"}
    /\ promises' = promises \cup {Promised(s)}
    /\ Ends(s)

\* The vote leaves this node.
Promise(s) ==
    /\ tasks[s].landed /\ tasks[s].pc \in {"grant", "ask"}
    /\ promises' = promises \cup {Promised(s)}
    /\ Ends(s)

----------------------------------------------------------------------------
(* Restarts.                                                               *)

\* The node stops or crashes.  Its writes under way may land, or some of them,
\* one of them last.
Crash ==
    /\ life # "down"
    /\ life' = "down" /\ mem' = Fresh /\ tasks' = [s \in Task |-> Idle]
    /\ \/ /\ forgot' = IF behind THEN forgot \cup {"order"} ELSE forgot
          /\ UNCHANGED disk
       \/ \E s \in Writing :
             /\ disk' = tasks[s].image
             /\ forgot' = IF tasks[s].passed THEN forgot \cup {"order"} ELSE forgot
    /\ loaded' = Fresh /\ behind' = FALSE
    /\ UNCHANGED promises

\* start: the handlers are registered, hgetall is sent.
Start ==
    /\ life = "down" /\ life' = "loading"
    /\ UNCHANGED <<mem, disk, loaded, tasks, behind, forgot, promises>>

\* Redis answers.
Read ==
    /\ life = "loading" /\ life' = "read"
    /\ loaded' = disk
    /\ UNCHANGED <<mem, disk, tasks, behind, forgot, promises>>

\* The rest of _load_state; an empty hash leaves the state alone.
Load ==
    /\ life = "read" /\ life' = "up"
    /\ mem' = IF loaded = Fresh THEN mem ELSE loaded
    /\ loaded' = Fresh
    /\ UNCHANGED <<disk, tasks, behind, forgot, promises>>

Next == \/ \E s \in Task : \/ StepDown(s) \/ RequestVote(s) \/ AppendEntries(s)
                           \/ StartElection(s) \/ Replicate(s)
                           \/ Land(s) \/ Resume(s) \/ Promise(s)
        \/ Crash \/ Start \/ Read \/ Load

Spec == Init /\ [][Next]_vars

----------------------------------------------------------------------------
TypeOK ==
    /\ life \in {"down", "loading", "read", "up"}
    /\ mem \in Image /\ disk \in Image /\ loaded \in Image
    /\ tasks \in [Task -> [pc : {"idle", "decide", "grant", "append", "ask", "done"},
                           image : Image, to : Candidate \cup {Self, None},
                           landed : BOOLEAN, passed : BOOLEAN, older : SUBSET Task]]
    /\ behind \in BOOLEAN /\ forgot \subseteq {"early", "order"}
    /\ promises \subseteq [term : 0..MaxTerm, to : Candidate \cup {Self}, written : 0..MaxTerm]

(***************************************************************************)
(* A node votes for one candidate a term, however often it restarts and    *)
(* whichever of its writes were under way; Raft rests on it.  It is broken *)
(* in three ways only: a request handled before the state was loaded, a    *)
(* restart while the disk holds an image older than one it held, and a     *)
(* vote that says a later term than was written with it, since the node    *)
(* moved on while the write was under way.                                 *)
(***************************************************************************)
OnePromisePerTerm ==
    forgot = {} =>
        \A p, q \in promises :
            p.term = q.term /\ p.to # q.to => p.written < p.term \/ q.written < q.term

\* When no write is under way Redis has the state of the node, unless writes
\* landed in the wrong order or requests came too early.
AtRest ==
    life = "up" /\ Writing = {} /\ ~behind /\ forgot = {} => disk = mem
=============================================================================
