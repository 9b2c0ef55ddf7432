-------------------------------- MODULE Raft --------------------------------
(***************************************************************************)
(* RaftNode of consensus/raft.py: elections, log replication and commit,   *)
(* for a cluster in which no node restarts.                                *)
(*                                                                         *)
(* Each node is one asyncio event loop.  A step here is what one coroutine *)
(* does between two awaits; every other coroutine may run in between:      *)
(*   - the election timer, which runs one _start_election at a time;       *)
(*   - the heartbeat task of a leader and any number of replicate calls,   *)
(*     all of which run _replicate_all (a round, below);                   *)
(*   - a handler per request received, of which several may be suspended.  *)
(* The awaits are the writes of _persist_state and the calls of bus.send.  *)
(*                                                                         *)
(* A log index i stands for i - 1 in the code, so 0 is its -1.             *)
(***************************************************************************)
EXTENDS Naturals, FiniteSets, Sequences, SequencesExt

CONSTANTS Node,      \* the cluster
          Command,   \* the commands clients replicate, each once
          None,      \* voted_for of a node that has not voted
          MaxTerm,   \* bound: no election starts a later term
          Starters,  \* bound: the nodes whose election timer fires
          MaxCalls,  \* bound: heartbeats of a node with requests still about
          Flaky      \* the nodes bus.send may fail to reach, or to get a response from

ASSUME NodeAssumption == IsFiniteSet(Node) /\ Node # {} /\ None \notin Node
ASSUME CommandAssumption == Node \cap Command = {}
ASSUME BoundsAssumption ==
    MaxTerm \in Nat /\ MaxCalls \in Nat /\ Starters \subseteq Node /\ Flaky \subseteq Node

VARIABLES
    \* RaftNode, by node
    currentTerm,   \* current_term
    votedFor,      \* voted_for
    state,         \* "follower", "candidate" or "leader"
    log,           \* log: entries [term, command]
    commitIndex,   \* commit_index
    applied,       \* the entries given to apply_callback: last_applied is its length
    nextIndex,     \* _next_index
    matchIndex,    \* _match_index
    \* suspended coroutines
    election,      \* by node: the run of _start_election
    round,         \* by node or command: the run of _replicate_all
    handlers,      \* requests being handled, where their handler is suspended
    requests,      \* requests on their way
    \* history
    ballots,       \* votes cast: <<voter, term at that moment, candidate>>
    won            \* <<term, node>>: elections won in the term they were started in

nodeVars == <<currentTerm, votedFor, state>>
logVars == <<log, commitIndex, applied>>
leaderVars == <<nextIndex, matchIndex>>
history == <<ballots, won>>
vars == <<nodeVars, logVars, leaderVars, election, round, handlers, requests, history>>

Peers(n) == Node \ {n}
\* Slip: half of the nodes.
QuorumHalf == Cardinality(Node) \div 2

Quorum == Cardinality(Node) \div 2 + 1
Term == 0..MaxTerm
LogEntry == [term : Term, command : Command]

----------------------------------------------------------------------------
(* Coroutines and messages.                                                *)

\* _start_election of a node: its own term when it voted for itself, the
\* term its requests carry, the peers not heard of, the answers so far.
Answer == [from : Node, term : Term, granted : BOOLEAN]
NoElection == [pc |-> "idle", own |-> 0, term |-> 0, pending |-> {}, answers |-> {}]

(***************************************************************************)
(* _replicate_all on node at.  pc: "loop" the heartbeat task sleeps,       *)
(* "ready" gather() has been called and its children have not run yet (the *)
(* write that precedes it in replicate is part of this), "waiting" for     *)
(* them.  pending: children without a response; replies: responses a child *)
(* has not looked at; answers: the terms in the results of the others.     *)
(* A replicate call ends as "true", "false" or "error".                    *)
(***************************************************************************)
NoRound(n) == [pc |-> "none", at |-> n, call |-> 0,
               pending |-> {}, replies |-> {}, answers |-> {}]

LastTerm(l) == IF l = << >> THEN 0 ELSE l[Len(l)].term

VoteRequest(n, p) ==
    [type |-> "vote", from |-> n, to |-> p, term |-> currentTerm[n],
     lastIndex |-> Len(log[n]), lastTerm |-> LastTerm(log[n])]

\* Slip: the entries from the one after next_index on.
AppendRequestSkips(n, p, id) ==
    LET prev == nextIndex[n][p] - 1
    IN [type |-> "append", from |-> n, to |-> p, term |-> currentTerm[n],
        round |-> id, call |-> round[id].call,
        prev |-> prev, prevTerm |-> IF prev = 0 THEN 0 ELSE log[n][prev].term,
        entries |-> SubSeq(log[n], prev + 2, Len(log[n])), commit |-> commitIndex[n]]

\* The payload _replicate_to_peer builds, with everything from next_index on.
AppendRequest(n, p, id) ==
    LET prev == nextIndex[n][p] - 1
    IN [type |-> "append", from |-> n, to |-> p, term |-> currentTerm[n],
        round |-> id, call |-> round[id].call,
        prev |-> prev, prevTerm |-> IF prev = 0 THEN 0 ELSE log[n][prev].term,
        entries |-> SubSeq(log[n], prev + 1, Len(log[n])), commit |-> commitIndex[n]]

\* Responses, if the call still waits for one.
Heard(e, p, answer) == [e EXCEPT !.pending = e.pending \ {p}, !.answers = e.answers \cup {answer}]
Got(r, p, reply) == [r EXCEPT !.pending = r.pending \ {p}, !.replies = r.replies \cup {reply}]

AnswerVote(m, t, granted) ==
    election' = [election EXCEPT ![m.from] =
        IF @.pc = "asking" /\ @.term = m.term /\ m.to \in @.pending
        THEN Heard(@, m.to, [from |-> m.to, term |-> t, granted |-> granted]) ELSE @]

AnswerAppend(m, t, success) ==
    round' = [round EXCEPT ![m.round] =
        IF @.pc = "waiting" /\ @.call = m.call /\ m.to \in @.pending
        THEN Got(@, m.to, [from |-> m.to, term |-> t, success |-> success,
                           prev |-> m.prev, sent |-> Len(m.entries)]) ELSE @]

----------------------------------------------------------------------------
Init ==
    /\ currentTerm = [n \in Node |-> 0]
    /\ votedFor = [n \in Node |-> None]
    /\ state = [n \in Node |-> "follower"]
    /\ log = [n \in Node |-> << >>]
    /\ commitIndex = [n \in Node |-> 0]
    /\ applied = [n \in Node |-> << >>]
    /\ nextIndex = [n \in Node |-> [p \in Peers(n) |-> 1]]
    /\ matchIndex = [n \in Node |-> [p \in Peers(n) |-> 0]]
    /\ election = [n \in Node |-> NoElection]
    /\ round = [id \in Node \cup Command |->
                   IF id \in Node THEN NoRound(id)
                   ELSE [NoRound(None) EXCEPT !.pc = "new"]]
    /\ handlers = {} /\ requests = {} /\ ballots = {} /\ won = {}

\* Slips: the vote cleared as it is stored; the term left as it is.
StepDownStored(n, t) ==
    /\ currentTerm' = [currentTerm EXCEPT ![n] = t]
    /\ state' = [state EXCEPT ![n] = "follower"]
    /\ votedFor' = [votedFor EXCEPT ![n] = ""]
StepDownInTerm(n, t) ==
    /\ state' = [state EXCEPT ![n] = "follower"]
    /\ votedFor' = [votedFor EXCEPT ![n] = None]
    /\ UNCHANGED currentTerm

\* The assignments of _step_down; its write is the await that follows.
StepDown(n, t) ==
    /\ currentTerm' = [currentTerm EXCEPT ![n] = t]
    /\ state' = [state EXCEPT ![n] = "follower"]
    /\ votedFor' = [votedFor EXCEPT ![n] = None]

\* Slip: only the newest entry is applied.
CommitNewest(n, i) ==
    /\ commitIndex' = [commitIndex EXCEPT ![n] = i]
    /\ applied' = [applied EXCEPT ![n] = IF i = 0 THEN @ ELSE Append(@, log[n][i])]

\* commit_index = i, and _apply_entries, which never suspends on the way.
Commit(n, i) ==
    /\ commitIndex' = [commitIndex EXCEPT ![n] = i]
    /\ applied' = [applied EXCEPT ![n] = @ \o SubSeq(log[n], Len(@) + 1, i)]

----------------------------------------------------------------------------
(* _start_election.  The timer runs on every node, the leader included.    *)

StartElection(n) ==
    /\ n \in Starters
    /\ election[n].pc = "idle"
    /\ currentTerm[n] < MaxTerm
    /\ state' = [state EXCEPT ![n] = "candidate"]
    /\ currentTerm' = [currentTerm EXCEPT ![n] = @ + 1]
    /\ votedFor' = [votedFor EXCEPT ![n] = n]
    /\ ballots' = ballots \cup {<<n, currentTerm[n] + 1, n>>}
    /\ election' = [election EXCEPT ![n] =
                       [NoElection EXCEPT !.pc = "persist", !.own = currentTerm[n] + 1]]
    /\ UNCHANGED <<logVars, leaderVars, round, handlers, requests, won>>

\* After the write: current_term is read again, whatever it is by now.
AskForVotes(n) ==
    /\ election[n].pc = "persist"
    /\ requests' = requests \cup {VoteRequest(n, p) : p \in Peers(n)}
    /\ election' = [election EXCEPT ![n] =
                       [@ EXCEPT !.pc = "asking", !.term = currentTerm[n], !.pending = Peers(n)]]
    /\ UNCHANGED <<nodeVars, logVars, leaderVars, round, handlers, history>>

\* _become_leader: the heartbeat task of an earlier leadership is cancelled.
BecomeLeader(n) ==
    /\ state' = [state EXCEPT ![n] = "leader"]
    /\ nextIndex' = [nextIndex EXCEPT ![n] = [p \in Peers(n) |-> Len(log[n]) + 1]]
    /\ matchIndex' = [matchIndex EXCEPT ![n] = [p \in Peers(n) |-> 0]]
    /\ round' = [round EXCEPT ![n] = [NoRound(n) EXCEPT !.pc = "loop"]]
    /\ won' = IF election[n].own = currentTerm[n] /\ election[n].term = currentTerm[n]
              THEN won \cup {<<currentTerm[n], n>>} ELSE won
    /\ UNCHANGED <<currentTerm, votedFor>>

\* Slip: whoever answers counts.
VotersAnswering(n) == {n} \cup {r.from : r \in election[n].answers}

Voters(n) == {n} \cup {r.from : r \in {a \in election[n].answers : a.granted}}

(***************************************************************************)
(* All calls have ended: the first result of a higher term ends the        *)
(* election, otherwise the votes are counted.  Neither the state nor the   *)
(* term is compared with what they were when the election started.         *)
(***************************************************************************)
CountVotes(n) ==
    /\ election[n].pc = "asking" /\ election[n].pending = {}
    /\ LET higher == {r \in election[n].answers : r.term > currentTerm[n]}
       IN \/ /\ \E r \in higher : StepDown(n, r.term)
             /\ UNCHANGED <<leaderVars, round, won>>
          \/ /\ higher = {} /\ Cardinality(Voters(n)) >= Quorum
             /\ BecomeLeader(n)
          \/ /\ higher = {} /\ Cardinality(Voters(n)) < Quorum
             /\ UNCHANGED <<nodeVars, leaderVars, round, won>>
    /\ election' = [election EXCEPT ![n] = NoElection]
    /\ UNCHANGED <<logVars, handlers, requests, ballots>>

----------------------------------------------------------------------------
(* _handle_request_vote: it may suspend in _step_down and after voting.    *)

UpToDate(m, l) == IF m.lastTerm # LastTerm(l) THEN m.lastTerm > LastTerm(l)
                  ELSE m.lastIndex >= Len(l)

\* Slip: voted_for is not asked.
DecideVoteAgain(n, m, others) ==
    \/ /\ UpToDate(m, log[n])
       /\ votedFor' = [votedFor EXCEPT ![n] = m.from]
       /\ ballots' = ballots \cup {<<n, currentTerm[n], m.from>>}
       /\ handlers' = others \cup {[req |-> m, pc |-> "granted"]}
       /\ UNCHANGED election
    \/ /\ ~UpToDate(m, log[n])
       /\ AnswerVote(m, currentTerm[n], FALSE)
       /\ handlers' = others
       /\ UNCHANGED <<votedFor, ballots>>

\* The part after the term checks.  The term is not looked at again.
DecideVote(n, m, others) ==
    \/ /\ votedFor[n] \in {None, m.from} /\ UpToDate(m, log[n])
       /\ votedFor' = [votedFor EXCEPT ![n] = m.from]
       /\ ballots' = ballots \cup {<<n, currentTerm[n], m.from>>}
       /\ handlers' = others \cup {[req |-> m, pc |-> "granted"]}
       /\ UNCHANGED election
    \/ /\ ~(votedFor[n] \in {None, m.from} /\ UpToDate(m, log[n]))
       /\ AnswerVote(m, currentTerm[n], FALSE)
       /\ handlers' = others
       /\ UNCHANGED <<votedFor, ballots>>

VoteArrives(m) ==
    /\ m.type = "vote"
    /\ requests' = requests \ {m}
    /\ \/ /\ m.term < currentTerm[m.to]
          /\ AnswerVote(m, currentTerm[m.to], FALSE)
          /\ UNCHANGED <<nodeVars, handlers, ballots>>
       \/ /\ m.term > currentTerm[m.to]
          /\ StepDown(m.to, m.term)
          /\ handlers' = handlers \cup {[req |-> m, pc |-> "stepped"]}
          /\ UNCHANGED <<election, ballots>>
       \/ /\ m.term = currentTerm[m.to]
          /\ DecideVote(m.to, m, handlers)
          /\ UNCHANGED <<currentTerm, state>>
    /\ UNCHANGED <<logVars, leaderVars, round, won>>

VoteResumes(h) ==
    /\ h.req.type = "vote"
    /\ \/ /\ h.pc = "stepped"
          /\ DecideVote(h.req.to, h.req, handlers \ {h})
       \/ /\ h.pc = "granted"
          /\ AnswerVote(h.req, currentTerm[h.req.to], TRUE)
          /\ handlers' = handlers \ {h}
          /\ UNCHANGED <<votedFor, ballots>>
    /\ UNCHANGED <<currentTerm, state, logVars, leaderVars, round, requests, won>>

----------------------------------------------------------------------------
(* _handle_append_entries: it may suspend in _step_down and after storing. *)

Matches(m, l) == m.prev <= Len(l) /\ (m.prev # 0 => l[m.prev].term = m.prevTerm)

\* Slip: nothing is deleted.
StoredAtEnd(l, m) == l \o m.entries

\* Entries replace whatever follows prev, without being compared with it.
Stored(l, m) == SubSeq(l, 1, m.prev) \o m.entries

\* The end: take over the leader's commit index, apply, answer.
FinishAppend(n, m) ==
    /\ IF m.commit > commitIndex[n]
       THEN Commit(n, IF m.commit < Len(log[n]) THEN m.commit ELSE Len(log[n]))
       ELSE UNCHANGED <<commitIndex, applied>>
    /\ AnswerAppend(m, currentTerm[n], TRUE)
    /\ UNCHANGED log

\* The part after the term checks.
AcceptAppend(n, m, others) ==
    /\ state' = [state EXCEPT ![n] = "follower"]
    /\ \/ /\ ~Matches(m, log[n])
          /\ AnswerAppend(m, currentTerm[n], FALSE)
          /\ handlers' = others
          /\ UNCHANGED logVars
       \/ /\ Matches(m, log[n]) /\ m.entries # << >>
          /\ log' = [log EXCEPT ![n] = Stored(@, m)]
          /\ handlers' = others \cup {[req |-> m, pc |-> "stored"]}
          /\ UNCHANGED <<commitIndex, applied, round>>
       \/ /\ Matches(m, log[n]) /\ m.entries = << >>
          /\ FinishAppend(n, m)
          /\ handlers' = others

AppendArrives(m) ==
    /\ m.type = "append"
    /\ requests' = requests \ {m}
    /\ \/ /\ m.term < currentTerm[m.to]
          /\ AnswerAppend(m, currentTerm[m.to], FALSE)
          /\ UNCHANGED <<nodeVars, logVars, handlers>>
       \/ /\ m.term > currentTerm[m.to]
          /\ StepDown(m.to, m.term)
          /\ handlers' = handlers \cup {[req |-> m, pc |-> "stepped"]}
          /\ UNCHANGED <<logVars, round>>
       \/ /\ m.term = currentTerm[m.to]
          /\ AcceptAppend(m.to, m, handlers)
          /\ UNCHANGED <<currentTerm, votedFor>>
    /\ UNCHANGED <<leaderVars, election, history>>

AppendResumes(h) ==
    /\ h.req.type = "append"
    /\ \/ /\ h.pc = "stepped"
          /\ AcceptAppend(h.req.to, h.req, handlers \ {h})
       \/ /\ h.pc = "stored"
          /\ FinishAppend(h.req.to, h.req)
          /\ handlers' = handlers \ {h}
          /\ UNCHANGED state
    /\ UNCHANGED <<currentTerm, votedFor, leaderVars, election, requests, history>>

----------------------------------------------------------------------------
(* Rounds of _replicate_all.                                               *)

\* Call numbers of heartbeats no request or handler carries any more.
FreeCalls(n) ==
    (1..MaxCalls) \ {m.call : m \in {r \in requests \cup {h.req : h \in handlers} :
                                        r.type = "append" /\ r.round = n}}

\* _run_heartbeat: another round while leader, else the task ends.
Heartbeat(n) ==
    /\ round[n].pc = "loop"
    /\ \/ /\ state[n] = "leader"
          /\ FreeCalls(n) # {}
          /\ round' = [round EXCEPT ![n] =
                          [@ EXCEPT !.pc = "ready", !.call = Min(FreeCalls(n))]]
       \/ /\ state[n] # "leader"
          /\ round' = [round EXCEPT ![n] = NoRound(n)]
    /\ UNCHANGED <<nodeVars, logVars, leaderVars, election, handlers, requests, history>>

\* replicate(c) on node n: refused unless leader, else the entry is appended.
Replicate(c, n) ==
    /\ round[c].pc = "new"
    /\ \/ /\ state[n] # "leader"
          /\ round' = [round EXCEPT ![c].pc = "false"]
          /\ UNCHANGED log
       \/ /\ state[n] = "leader"
          /\ log' = [log EXCEPT ![n] = Append(@, [term |-> currentTerm[n], command |-> c])]
          /\ round' = [round EXCEPT ![c] = [NoRound(n) EXCEPT !.pc = "ready"]]
    /\ UNCHANGED <<nodeVars, commitIndex, applied, leaderVars, election, handlers,
                   requests, history>>

(***************************************************************************)
(* The children of gather() run: each builds its payload from the term and *)
(* the log of this moment, leader or not.  A child whose next_index lies   *)
(* beyond a log cut short meanwhile ends with an IndexError.               *)
(***************************************************************************)
SendAppends(id) ==
    /\ round[id].pc = "ready"
    /\ LET n == round[id].at
           targets == {p \in Peers(n) : nextIndex[n][p] - 1 <= Len(log[n])}
       IN /\ requests' = requests \cup {AppendRequest(n, p, id) : p \in targets}
          /\ round' = [round EXCEPT ![id] = [@ EXCEPT !.pc = "waiting", !.pending = targets]]
    /\ UNCHANGED <<nodeVars, logVars, leaderVars, election, handlers, history>>

Looked(e, r) == [e EXCEPT !.replies = e.replies \ {r}, !.answers = e.answers \cup {r.term}]

\* A child gets its response: no look at the term or at what was sent since.
TakeReply(id, r) ==
    /\ LET n == round[id].at
       IN IF r.success
          THEN /\ matchIndex' = [matchIndex EXCEPT ![n][r.from] = r.prev + r.sent]
               /\ nextIndex' = [nextIndex EXCEPT ![n][r.from] = r.prev + r.sent + 1]
          ELSE /\ nextIndex' = [nextIndex EXCEPT ![n][r.from] = IF r.prev = 0 THEN 1 ELSE r.prev]
               /\ UNCHANGED matchIndex
    /\ round' = [round EXCEPT ![id] = Looked(@, r)]
    /\ UNCHANGED <<nodeVars, logVars, election, handlers, requests, history>>

\* bus.send raises: blocked target, connection error, lost response.  The
\* request may have left all the same.
CallFails ==
    /\ \/ /\ \E n \in Node : \E p \in election[n].pending \cap Flaky :
                election' = [election EXCEPT ![n].pending = @ \ {p}]
          /\ UNCHANGED round
       \/ /\ \E id \in Node \cup Command : \E p \in round[id].pending \cap Flaky :
                round' = [round EXCEPT ![id].pending = @ \ {p}]
          /\ UNCHANGED election
    /\ UNCHANGED <<nodeVars, logVars, leaderVars, handlers, requests, history>>

\* The value of _advance_commit_index's sorted list at (n - 1) // 2: the
\* largest index that enough nodes are believed to have reached.
Reached(n, p) == IF p = n THEN Len(log[n]) ELSE matchIndex[n][p]
QuorumIndex(n) ==
    Max({i \in {Reached(n, p) : p \in Node} :
            Cardinality({p \in Node : Reached(n, p) >= i})
                >= Cardinality(Node) - ((Cardinality(Node) - 1) \div 2)})

\* All children are done; a result of a higher term makes the node step down.
RoundStepsDown(id) ==
    /\ round[id].pc = "waiting" /\ round[id].pending = {} /\ round[id].replies = {}
    /\ \E t \in round[id].answers :
          /\ t > currentTerm[round[id].at]
          /\ StepDown(round[id].at, t)
          /\ round' = [round EXCEPT ![id].answers = @ \ {t}]
    /\ UNCHANGED <<logVars, leaderVars, election, handlers, requests, history>>

RoundDone(id) ==
    /\ round[id].pc = "waiting" /\ round[id].pending = {} /\ round[id].replies = {}
    /\ \A t \in round[id].answers : t <= currentTerm[round[id].at]

HeartbeatDone(n) ==
    /\ RoundDone(n)
    /\ round' = [round EXCEPT ![n] = [NoRound(n) EXCEPT !.pc = "loop"]]
    /\ UNCHANGED <<nodeVars, logVars, leaderVars, election, handlers, requests, history>>

\* _advance_commit_index, then the end of replicate.
ReplicateDone(c) ==
    /\ RoundDone(c)
    /\ LET n == round[c].at
           i == QuorumIndex(n)
           result == IF i <= commitIndex[n] THEN "false"
                     ELSE IF i > Len(log[n]) THEN "error"
                     ELSE IF log[n][i].term = currentTerm[n] THEN "true" ELSE "false"
       IN /\ IF result = "true" THEN Commit(n, i) ELSE UNCHANGED <<commitIndex, applied>>
          /\ round' = [round EXCEPT ![c] = [NoRound(n) EXCEPT !.pc = result]]
    /\ UNCHANGED <<nodeVars, log, leaderVars, election, handlers, requests, history>>

----------------------------------------------------------------------------
Receive == \E m \in requests : VoteArrives(m) \/ AppendArrives(m)
Resume == \E h \in handlers : VoteResumes(h) \/ AppendResumes(h)
TakeReplies == \E id \in Node \cup Command : \E r \in round[id].replies : TakeReply(id, r)

Next ==
    \/ \E n \in Node : \/ StartElection(n) \/ AskForVotes(n) \/ CountVotes(n)
                       \/ Heartbeat(n) \/ HeartbeatDone(n)
    \/ \E c \in Command : (\E n \in Node : Replicate(c, n)) \/ ReplicateDone(c)
    \/ \E id \in Node \cup Command : SendAppends(id) \/ RoundStepsDown(id)
    \/ Receive \/ Resume \/ TakeReplies \/ CallFails

Spec == Init /\ [][Next]_vars

----------------------------------------------------------------------------
Request == [type : {"vote"}, from : Node, to : Node, term : Term,
            lastIndex : Nat, lastTerm : Term]
           \cup [type : {"append"}, from : Node, to : Node, term : Term,
                 round : Node \cup Command, call : 0..MaxCalls, prev : Nat,
                 prevTerm : Term, entries : Seq(LogEntry), commit : Nat]

Reply == [from : Node, term : Term, success : BOOLEAN, prev : Nat, sent : Nat]

ElectionRun == [pc : {"idle", "persist", "asking"}, own : Term, term : Term,
                pending : SUBSET Node, answers : SUBSET Answer]

RoundRun == [pc : {"none", "loop", "new", "ready", "waiting", "true", "false", "error"},
             at : Node \cup {None}, call : 0..MaxCalls, pending : SUBSET Node,
             replies : SUBSET Reply, answers : SUBSET Term]

\* A round that runs does so on a node.
RoundsOK ==
    /\ round \in [Node \cup Command -> RoundRun]
    /\ \A id \in Node \cup Command :
           round[id].pc \in {"loop", "ready", "waiting"} => round[id].at \in Node

TypeOK ==
    /\ currentTerm \in [Node -> Term]
    /\ votedFor \in [Node -> Node \cup {None}]
    /\ state \in [Node -> {"follower", "candidate", "leader"}]
    /\ log \in [Node -> Seq(LogEntry)]
    /\ commitIndex \in [Node -> Nat]
    /\ applied \in [Node -> Seq(LogEntry)]
    /\ DOMAIN nextIndex = Node /\ DOMAIN matchIndex = Node
    /\ \A n \in Node : /\ nextIndex[n] \in [Peers(n) -> Nat \ {0}]
                       /\ matchIndex[n] \in [Peers(n) -> Nat]
    /\ election \in [Node -> ElectionRun]
    /\ RoundsOK
    /\ requests \subseteq Request
    /\ handlers \subseteq [req : Request, pc : {"stepped", "granted", "stored"}]
    /\ ballots \subseteq Node \X Term \X Node
    /\ won \subseteq Term \X Node

\* Terms never go back, and within one term a node never changes its vote:
\* voted_for is assigned in three places and cleared in one, across awaits.
KeepsVote ==
    \A n \in Node :
        \/ currentTerm'[n] > currentTerm[n]
        \/ /\ currentTerm'[n] = currentTerm[n]
           /\ votedFor[n] # None => votedFor'[n] = votedFor[n]

VoteOnce == [][KeepsVote]_vars

\* The same said of the votes that were sent: nobody votes for two
\* candidates in one term, even in a handler that resumes in a later term.
OneBallotPerTerm ==
    \A b, c \in ballots : b[1] = c[1] /\ b[2] = c[2] => b[3] = c[3]

(***************************************************************************)
(* At most one candidate wins a term among those whose own vote, requests  *)
(* and count all happened in that term.  (_start_election does not check   *)
(* that they did: see ElectionSafety.)                                     *)
(***************************************************************************)
OneWinnerPerTerm == \A w, v \in won : w[1] = v[1] => w[2] = v[2]

(***************************************************************************)
(* Why: a ballot fixes the vote of its term; a candidate that asks has     *)
(* voted for itself; a granted answer, and a handler about to send one,    *)
(* stands for a ballot cast between the term asked for and the term        *)
(* answered; who won has the ballots of a quorum, all of the term it won.  *)
(***************************************************************************)
Balloted(v, lo, hi, c) == \E t \in lo..hi : <<v, t, c>> \in ballots

BallotInv == \A b \in ballots :
    /\ b[2] <= currentTerm[b[1]]
    /\ b[2] = currentTerm[b[1]] => votedFor[b[1]] = b[3]

AnswerInv == \A n \in Node :
    /\ election[n].pc # "idle" => <<n, election[n].own, n>> \in ballots
    /\ election[n].pc = "asking" => \A a \in election[n].answers :
           a.granted => Balloted(a.from, election[n].term, a.term, n)
    /\ election[n].pc # "asking" => election[n].answers = {}

HandlerInv == \A h \in handlers : h.req.type = "vote" =>
    /\ h.req.term <= currentTerm[h.req.to]
    /\ h.pc = "granted" => Balloted(h.req.to, h.req.term, currentTerm[h.req.to], h.req.from)

WonInv == \A w \in won : \E V \in SUBSET Node :
    Cardinality(V) >= Quorum /\ \A v \in V : <<v, w[1], w[2]>> \in ballots

ElectionInv == BallotInv /\ OneBallotPerTerm /\ AnswerInv /\ HandlerInv /\ WonInv

(***************************************************************************)
(* Raft's Election Safety, a term has one leader, which                    *)
(* docs/architecture.md claims by resting the lock manager on Raft.  Votes *)
(* of an earlier term make a candidate leader of the term it is in when it *)
(* counts them.                                                            *)
(***************************************************************************)
ElectionSafety ==
    \A a, b \in Node : /\ state[a] = "leader" /\ state[b] = "leader"
                       /\ currentTerm[a] = currentTerm[b]
                       => a = b

----------------------------------------------------------------------------
(* Replication under one leader (MaxTerm = 1).                             *)

\* All nodes apply the same entries in the same order, although requests
\* overtake each other and handlers of one node interleave.
Agreement ==
    \A a, b \in Node : IsPrefix(applied[a], applied[b]) \/ IsPrefix(applied[b], applied[a])

\* No request, however late, leaves a follower with a log that disagrees
\* with the leader's: what it holds is a prefix.
FollowersHoldPrefix ==
    \A a, b \in Node : state[a] = "leader" => IsPrefix(log[b], log[a])

----------------------------------------------------------------------------
(***************************************************************************)
(* Fairness: the event loop of a node does not stop while a coroutine can  *)
(* go on or a request can arrive; nothing is said of which comes first.    *)
(* It is for instances without failing calls (Flaky = {}): a request is    *)
(* not lost.  Nothing makes an election start or a client call.            *)
(***************************************************************************)
RoundStep(id) ==
    \/ SendAppends(id) \/ RoundStepsDown(id)
    \/ \E r \in round[id].replies : TakeReply(id, r)
    \/ id \in Node /\ (Heartbeat(id) \/ HeartbeatDone(id))
    \/ id \in Command /\ ReplicateDone(id)

NodeStep(n) ==
    \/ AskForVotes(n) \/ CountVotes(n)
    \/ \E id \in Node \cup Command : round[id].at = n /\ RoundStep(id)
    \/ \E m \in requests : m.to = n /\ (VoteArrives(m) \/ AppendArrives(m))
    \/ \E h \in handlers : h.req.to = n /\ (VoteResumes(h) \/ AppendResumes(h))

Fairness == \A n \in Node : WF_vars(NodeStep(n))

FairSpec == Spec /\ Fairness

(***************************************************************************)
(* What tests/unit/test_raft.py waits for: after replicate has returned    *)
(* True the command is applied on every node, carried there by later       *)
(* heartbeats.  It holds for a call on its own.  With two calls at a time  *)
(* it does not: True only means that the commit index moved, by whatever   *)
(* entry, and only another replicate moves it again.                       *)
(***************************************************************************)
SuccessReachesAll ==
    \A c \in Command : \A n \in Node :
        (round[c].pc = "true") ~> (\E e \in ToSet(applied[n]) : e.command = c)
=============================================================================
