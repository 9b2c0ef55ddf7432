----------------------------- MODULE RaftProofs -----------------------------
(***************************************************************************)
(* Theorems about Raft, for every cluster, every set of commands and every *)
(* bound, proved with TLAPS.                                               *)
(***************************************************************************)
EXTENDS Raft, Basics, SequenceTheorems

----------------------------------------------------------------------------
(* Types: what the pieces of the handlers return.                          *)

\* The fields both kinds of request have, and those of their own.
LEMMA RequestFields ==
    ASSUME NEW m \in Request
    PROVE  /\ m.from \in Node /\ m.to \in Node /\ m.term \in Term
           /\ m.type \in {"vote", "append"}
           /\ m.type = "vote" => m.lastIndex \in Nat /\ m.lastTerm \in Term
           /\ m.type = "append" => /\ m.round \in Node \cup Command
                                   /\ m.prev \in Nat /\ m.prevTerm \in Term
                                   /\ m.entries \in Seq(LogEntry) /\ m.commit \in Nat
  BY DEF Request

\* A node that steps down to a term it was sent keeps its type.
LEMMA StepDownType ==
    ASSUME TypeOK, NEW n \in Node, NEW t \in Term, StepDown(n, t)
    PROVE  /\ currentTerm' \in [Node -> Term]
           /\ votedFor' \in [Node -> Node \cup {None}]
           /\ state' \in [Node -> {"follower", "candidate", "leader"}]
  BY DEF TypeOK, StepDown

\* The last term of a log is a term.
LEMMA LastTermType ==
    ASSUME NEW l \in Seq(LogEntry) PROVE LastTerm(l) \in Term
<1>1. CASE l = << >>
  BY <1>1, BoundsAssumption DEF LastTerm, Term
<1>2. CASE l # << >>
  <2>1. l[Len(l)] \in LogEntry
    BY <1>2
  <2> QED BY <1>2, <2>1 DEF LastTerm, LogEntry
<1> QED BY <1>1, <1>2

\* An answer to a vote request keeps the election it reaches well-formed.
LEMMA AnswerVoteType ==
    ASSUME TypeOK, NEW m \in Request, NEW t \in Term, NEW g \in BOOLEAN,
           AnswerVote(m, t, g)
    PROVE  election' \in [Node -> ElectionRun]
<1>1. m.from \in Node /\ m.to \in Node
  BY RequestFields
<1>2. [from |-> m.to, term |-> t, granted |-> g] \in Answer
  BY <1>1 DEF Answer
<1>3. election \in [Node -> ElectionRun]
  BY DEF TypeOK
<1> DEFINE a == [from |-> m.to, term |-> t, granted |-> g]
           e == election[m.from]
<1>4. e \in ElectionRun
  BY <1>1, <1>3
<1>5. Heard(e, m.to, a) \in ElectionRun
  BY <1>2, <1>4 DEF ElectionRun, Heard
<1> QED BY <1>3, <1>4, <1>5 DEF AnswerVote

\* An answer to an append request keeps the round it reaches well-formed.
LEMMA AnswerAppendType ==
    ASSUME TypeOK, NEW m \in Request, m.type = "append",
           NEW t \in Term, NEW g \in BOOLEAN, AnswerAppend(m, t, g)
    PROVE  RoundsOK'
<1> DEFINE a == [from |-> m.to, term |-> t, success |-> g,
                 prev |-> m.prev, sent |-> Len(m.entries)]
           e == round[m.round]
           d == Got(e, m.to, a)
<1>1. m.to \in Node /\ m.round \in Node \cup Command /\ m.prev \in Nat /\ Len(m.entries) \in Nat
  BY RequestFields
<1>2. a \in Reply
  BY <1>1 DEF Reply
<1>3. /\ round \in [Node \cup Command -> RoundRun]
      /\ \A id \in Node \cup Command :
            round[id].pc \in {"loop", "ready", "waiting"} => round[id].at \in Node
  BY DEF TypeOK, RoundsOK
<1>4. e \in RoundRun
  BY <1>1, <1>3
<1>5. round' = [round EXCEPT ![m.round] =
                    IF @.pc = "waiting" /\ @.call = m.call /\ m.to \in @.pending THEN d ELSE @]
  BY <1>3, <1>1 DEF AnswerAppend
<1> HIDE DEF a
<1>6. d \in RoundRun /\ d.pc = e.pc /\ d.at = e.at
  BY <1>2, <1>4 DEF RoundRun, Got
<1> HIDE DEF d
<1> QED BY <1>1, <1>3, <1>4, <1>5, <1>6 DEF RoundsOK

\* Taking over a commit index within the log keeps what is applied a sequence
\* of log entries.
LEMMA CommitType ==
    ASSUME TypeOK, NEW n \in Node, NEW i \in Nat, i <= Len(log[n]), Commit(n, i)
    PROVE  commitIndex' \in [Node -> Nat] /\ applied' \in [Node -> Seq(LogEntry)]
<1>1. /\ log \in [Node -> Seq(LogEntry)] /\ applied \in [Node -> Seq(LogEntry)]
      /\ commitIndex \in [Node -> Nat]
  BY DEF TypeOK
<1>2. log[n] \in Seq(LogEntry) /\ applied[n] \in Seq(LogEntry)
  BY <1>1
<1>3. Len(applied[n]) + 1 \in Nat /\ Len(applied[n]) + 1 >= 1
  BY <1>2
<1>4. SubSeq(log[n], Len(applied[n]) + 1, i) \in Seq(LogEntry)
  BY <1>2, <1>3
<1>5. applied[n] \o SubSeq(log[n], Len(applied[n]) + 1, i) \in Seq(LogEntry)
  BY <1>2, <1>4
<1> QED BY <1>1, <1>5 DEF Commit

\* The quorum index is an index: the least of the indices reached is reached
\* by every node, so the set it is the maximum of is not empty.
LEMMA QuorumIndexType ==
    ASSUME TypeOK, NEW n \in Node
    PROVE  QuorumIndex(n) \in Nat
<1> DEFINE reached == {Reached(n, p) : p \in Node}
           need == Cardinality(Node) - ((Cardinality(Node) - 1) \div 2)
           S == {i \in reached : Cardinality({p \in Node : Reached(n, p) >= i}) >= need}
<1>1. IsFiniteSet(Node) /\ Cardinality(Node) \in Nat /\ Cardinality(Node) # 0
  BY NodeAssumption, FS_CardinalityType, FS_EmptySet
<1>2. \A p \in Node : Reached(n, p) \in Nat
  <2>1. /\ log \in [Node -> Seq(LogEntry)]
        /\ matchIndex[n] \in [Peers(n) -> Nat]
    BY DEF TypeOK
  <2>2. Len(log[n]) \in Nat
    BY <2>1 DEF RoundsOK
  <2>3. \A p \in Node : p # n => p \in Peers(n)
    BY DEF Peers
  <2> QED BY <2>1, <2>2, <2>3 DEF Reached
<1>3. reached \subseteq Nat /\ reached # {} /\ IsFiniteSet(reached)
  <2>1. IsFiniteSet(reached)
    <3> DEFINE f == [p \in Node |-> Reached(n, p)]
    <3>1. f \in Surjection(Node, reached)
      BY DEF Surjection
    <3> HIDE DEF reached, f
    <3> QED BY <3>1, <1>1, FS_Surjection
  <2> QED BY <1>2, <2>1
<1>4. S # {}
  <2>1. PICK i \in reached : \A j \in reached : i <= j
    <3> HIDE DEF reached
    <3> QED BY <1>3, LeastNatural
  <2>2. \A p \in Node : Reached(n, p) >= i
    BY <1>2, <1>3, <2>1
  <2>3. {p \in Node : Reached(n, p) >= i} = Node
    BY <2>2
  <2>4. Cardinality(Node) >= need
    BY <1>1
  <2> QED BY <2>1, <2>3, <2>4
<1>5. IsFiniteSet(S) /\ S \subseteq Nat
  <2> HIDE DEF reached, need
  <2> QED BY <1>3, FS_Subset
<1>6. PICK m \in S : \A k \in S : k <= m
  <2> HIDE DEF S
  <2> QED BY <1>4, <1>5, GreatestOfFinite
<1>7. QuorumIndex(n) = CHOOSE x \in S : \A y \in S : x >= y
  BY DEF QuorumIndex, Max
<1> HIDE DEF S
<1>8. \A k \in S : m >= k
  BY <1>5, <1>6
<1>9. QuorumIndex(n) \in S
  BY <1>7, <1>8
<1> QED BY <1>5, <1>9

----------------------------------------------------------------------------
(* Type correctness: one lemma per action.                                 *)

\* Nothing happened, nothing is wrong.
LEMMA InitType == Init => TypeOK
<1> SUFFICES ASSUME Init PROVE TypeOK
  OBVIOUS
<1> USE NodeAssumption, CommandAssumption, BoundsAssumption
<1>1. 0 \in Term /\ 0 \in 0..MaxCalls
  BY DEF Term
<1>2. NoElection \in ElectionRun
  BY <1>1 DEF NoElection, ElectionRun
<1>3. \A x \in Node \cup {None} : NoRound(x) \in RoundRun
  BY <1>1 DEF NoRound, RoundRun
<1>4. [NoRound(None) EXCEPT !.pc = "new"] \in RoundRun
  BY <1>1 DEF NoRound, RoundRun
<1>5. round \in [Node \cup Command -> RoundRun]
  BY <1>3, <1>4 DEF Init
<1>6. \A id \in Node \cup Command : round[id].pc \in {"none", "new"}
  BY DEF Init, NoRound
<1>7. election \in [Node -> ElectionRun]
  BY <1>2 DEF Init
<1>8. DOMAIN nextIndex = Node /\ DOMAIN matchIndex = Node
      /\ \A n \in Node : /\ nextIndex[n] \in [Peers(n) -> Nat \ {0}]
                         /\ matchIndex[n] \in [Peers(n) -> Nat]
  BY DEF Init
<1>9. /\ currentTerm \in [Node -> Term]
      /\ votedFor \in [Node -> Node \cup {None}]
      /\ state \in [Node -> {"follower", "candidate", "leader"}]
      /\ log \in [Node -> Seq(LogEntry)]
      /\ commitIndex \in [Node -> Nat]
      /\ applied \in [Node -> Seq(LogEntry)]
      /\ requests = {} /\ handlers = {} /\ ballots = {} /\ won = {}
  BY <1>1 DEF Init
<1> QED BY <1>5, <1>6, <1>7, <1>8, <1>9 DEF TypeOK, RoundsOK

\* StartElection: the term stays below MaxTerm by its guard.
LEMMA StartElectionType ==
    ASSUME TypeOK, NEW n \in Node, StartElection(n) PROVE TypeOK'
<1> USE BoundsAssumption
<1>1. currentTerm[n] + 1 \in Term /\ 0 \in Term
  BY DEF TypeOK, StartElection, Term
<1>2. [NoElection EXCEPT !.pc = "persist", !.own = currentTerm[n] + 1] \in ElectionRun
  BY <1>1 DEF NoElection, ElectionRun
<1> QED BY <1>1, <1>2
        DEF TypeOK, RoundsOK, StartElection, logVars, leaderVars

\* AskForVotes: the requests of an election are requests.
LEMMA AskForVotesType ==
    ASSUME TypeOK, NEW n \in Node, AskForVotes(n) PROVE TypeOK'
<1>1. \A p \in Peers(n) : VoteRequest(n, p) \in Request
  <2>1. log[n] \in Seq(LogEntry) /\ currentTerm[n] \in Term
    BY DEF TypeOK
  <2>2. LastTerm(log[n]) \in Term /\ Len(log[n]) \in Nat
    BY <2>1, LastTermType
  <2> QED BY <2>1, <2>2 DEF VoteRequest, Request, Peers
<1>2. requests' \subseteq Request
  BY <1>1 DEF TypeOK, AskForVotes
<1>3. election' \in [Node -> ElectionRun]
  <2> DEFINE e == election[n]
             d == [e EXCEPT !.pc = "asking", !.term = currentTerm[n], !.pending = Peers(n)]
  <2>1. e \in ElectionRun /\ currentTerm[n] \in Term /\ Peers(n) \in SUBSET Node
    BY DEF TypeOK, Peers
  <2>2. d \in ElectionRun
    BY <2>1 DEF ElectionRun
  <2>3. election' = [election EXCEPT ![n] = d]
    BY DEF AskForVotes
  <2> HIDE DEF d
  <2> QED BY <2>2, <2>3 DEF TypeOK
<1> QED BY <1>2, <1>3 DEF TypeOK, RoundsOK, AskForVotes, nodeVars, logVars, leaderVars, history

\* CountVotes: in each of its three outcomes.
LEMMA CountVotesType ==
    ASSUME TypeOK, NEW n \in Node, CountVotes(n) PROVE TypeOK'
<1> USE BoundsAssumption
<1>1. 0 \in Term /\ NoElection \in ElectionRun
  BY DEF Term, NoElection, ElectionRun
<1>2. election' \in [Node -> ElectionRun]
  BY <1>1 DEF TypeOK, CountVotes
<1>3. UNCHANGED <<logVars, handlers, requests, ballots>>
  BY DEF CountVotes
<1>4. CASE (\E r \in election[n].answers : StepDown(n, r.term)) /\ UNCHANGED <<leaderVars, round, won>>
  <2>1. PICK r \in election[n].answers : StepDown(n, r.term)
    BY <1>4
  <2>2. r.term \in Term
    BY <2>1 DEF TypeOK, ElectionRun, Answer
  <2>3. /\ currentTerm' \in [Node -> Term]
        /\ votedFor' \in [Node -> Node \cup {None}]
        /\ state' \in [Node -> {"follower", "candidate", "leader"}]
    BY <2>1, <2>2, StepDownType
  <2> QED BY <1>2, <1>3, <1>4, <2>3 DEF TypeOK, RoundsOK, logVars, leaderVars
<1>5. CASE BecomeLeader(n)
  <2>1. currentTerm[n] \in Term /\ log[n] \in Seq(LogEntry)
    BY DEF TypeOK
  <2>2. won' \subseteq Term \X Node
    BY <1>5, <2>1 DEF TypeOK, BecomeLeader
  <2>3. [NoRound(n) EXCEPT !.pc = "loop"] \in RoundRun
    BY DEF NoRound, RoundRun
  <2>4. RoundsOK'
    BY <1>5, <2>3 DEF TypeOK, RoundsOK, BecomeLeader, NoRound
  <2>5. /\ DOMAIN nextIndex' = Node /\ DOMAIN matchIndex' = Node
        /\ \A x \in Node : /\ nextIndex'[x] \in [Peers(x) -> Nat \ {0}]
                           /\ matchIndex'[x] \in [Peers(x) -> Nat]
    BY <1>5, <2>1 DEF TypeOK, RoundsOK, BecomeLeader
  <2>6. state' \in [Node -> {"follower", "candidate", "leader"}]
    BY <1>5 DEF TypeOK, BecomeLeader
  <2>7. UNCHANGED <<currentTerm, votedFor>>
    BY <1>5 DEF BecomeLeader
  <2> QED BY <1>2, <1>3, <2>2, <2>4, <2>5, <2>6, <2>7 DEF TypeOK, logVars
<1>6. CASE UNCHANGED <<nodeVars, leaderVars, round, won>>
  BY <1>2, <1>3, <1>6 DEF TypeOK, RoundsOK, nodeVars, logVars, leaderVars
<1> QED BY <1>4, <1>5, <1>6 DEF CountVotes

\* What a request in its handler is allowed to do to votes and handlers.
LEMMA DecideVoteType ==
    ASSUME TypeOK, NEW m \in Request, m.type = "vote", NEW others,
           others \subseteq handlers, DecideVote(m.to, m, others)
    PROVE  /\ votedFor' \in [Node -> Node \cup {None}]
           /\ ballots' \subseteq Node \X Term \X Node
           /\ handlers' \subseteq [req : Request, pc : {"stepped", "granted", "stored"}]
           /\ election' \in [Node -> ElectionRun]
<1>1. m.from \in Node /\ m.to \in Node /\ currentTerm[m.to] \in Term
  BY RequestFields DEF TypeOK
<1>2. CASE votedFor' = [votedFor EXCEPT ![m.to] = m.from]
           /\ ballots' = ballots \cup {<<m.to, currentTerm[m.to], m.from>>}
           /\ handlers' = others \cup {[req |-> m, pc |-> "granted"]}
           /\ UNCHANGED election
  BY <1>1, <1>2 DEF TypeOK
<1>3. CASE AnswerVote(m, currentTerm[m.to], FALSE) /\ handlers' = others
           /\ UNCHANGED <<votedFor, ballots>>
  BY <1>1, <1>3, AnswerVoteType DEF TypeOK
<1> QED BY <1>2, <1>3 DEF DecideVote

\* VoteArrives: in each of its three cases.
LEMMA VoteArrivesType ==
    ASSUME TypeOK, NEW m \in requests, VoteArrives(m) PROVE TypeOK'
<1>1. m \in Request /\ m.type = "vote" /\ m.to \in Node /\ m.term \in Term
  BY RequestFields DEF TypeOK, VoteArrives
<1>2. currentTerm[m.to] \in Term
  BY <1>1 DEF TypeOK
<1>3. UNCHANGED <<logVars, leaderVars, round, won>> /\ requests' = requests \ {m}
  BY DEF VoteArrives
<1>4. CASE AnswerVote(m, currentTerm[m.to], FALSE) /\ UNCHANGED <<nodeVars, handlers, ballots>>
  <2>1. election' \in [Node -> ElectionRun]
    BY <1>1, <1>2, <1>4, AnswerVoteType
  <2> QED BY <1>3, <1>4, <2>1 DEF TypeOK, RoundsOK, nodeVars, logVars, leaderVars
<1>5. CASE /\ StepDown(m.to, m.term)
           /\ handlers' = handlers \cup {[req |-> m, pc |-> "stepped"]}
           /\ UNCHANGED <<election, ballots>>
  <2>1. /\ currentTerm' \in [Node -> Term]
        /\ votedFor' \in [Node -> Node \cup {None}]
        /\ state' \in [Node -> {"follower", "candidate", "leader"}]
    BY <1>1, <1>5, StepDownType
  <2> QED BY <1>1, <1>3, <1>5, <2>1 DEF TypeOK, RoundsOK, logVars, leaderVars
<1>6. CASE DecideVote(m.to, m, handlers) /\ UNCHANGED <<currentTerm, state>>
  <2>1. /\ votedFor' \in [Node -> Node \cup {None}]
        /\ ballots' \subseteq Node \X Term \X Node
        /\ handlers' \subseteq [req : Request, pc : {"stepped", "granted", "stored"}]
        /\ election' \in [Node -> ElectionRun]
    BY <1>1, <1>6, DecideVoteType
  <2> QED BY <1>3, <1>6, <2>1 DEF TypeOK, RoundsOK, logVars, leaderVars
<1> QED BY <1>4, <1>5, <1>6 DEF VoteArrives

\* VoteResumes: the part of the handler after a write.
LEMMA VoteResumesType ==
    ASSUME TypeOK, NEW h \in handlers, VoteResumes(h) PROVE TypeOK'
<1>1. h.req \in Request /\ h.req.type = "vote" /\ h.req.to \in Node
  BY RequestFields DEF TypeOK, VoteResumes
<1>2. currentTerm[h.req.to] \in Term
  BY <1>1 DEF TypeOK
<1>3. UNCHANGED <<currentTerm, state, logVars, leaderVars, round, requests, won>>
  BY DEF VoteResumes
<1>4. CASE DecideVote(h.req.to, h.req, handlers \ {h})
  <2>1. /\ votedFor' \in [Node -> Node \cup {None}]
        /\ ballots' \subseteq Node \X Term \X Node
        /\ handlers' \subseteq [req : Request, pc : {"stepped", "granted", "stored"}]
        /\ election' \in [Node -> ElectionRun]
    BY <1>1, <1>4, DecideVoteType
  <2> QED BY <1>3, <1>4, <2>1 DEF TypeOK, RoundsOK, logVars, leaderVars
<1>5. CASE /\ AnswerVote(h.req, currentTerm[h.req.to], TRUE)
           /\ handlers' = handlers \ {h} /\ UNCHANGED <<votedFor, ballots>>
  <2>1. election' \in [Node -> ElectionRun]
    BY <1>1, <1>2, <1>5, AnswerVoteType
  <2> QED BY <1>3, <1>5, <2>1 DEF TypeOK, RoundsOK, logVars, leaderVars
<1> QED BY <1>4, <1>5 DEF VoteResumes

\* The end of an append handler: commit at most what the log holds, answer.
LEMMA FinishAppendType ==
    ASSUME TypeOK, NEW m \in Request, m.type = "append", FinishAppend(m.to, m)
    PROVE  /\ log' \in [Node -> Seq(LogEntry)]
           /\ commitIndex' \in [Node -> Nat]
           /\ applied' \in [Node -> Seq(LogEntry)]
           /\ RoundsOK'
<1>1. m.to \in Node /\ m.commit \in Nat
  BY RequestFields
<1>2. log[m.to] \in Seq(LogEntry) /\ currentTerm[m.to] \in Term
  BY <1>1 DEF TypeOK, RoundsOK
<1>3. log' \in [Node -> Seq(LogEntry)]
  BY DEF TypeOK, FinishAppend
<1>4. commitIndex' \in [Node -> Nat] /\ applied' \in [Node -> Seq(LogEntry)]
  <2> DEFINE i == IF m.commit < Len(log[m.to]) THEN m.commit ELSE Len(log[m.to])
  <2>1. i \in Nat /\ i <= Len(log[m.to])
    BY <1>1, <1>2
  <2>2. Commit(m.to, i) \/ UNCHANGED <<commitIndex, applied>>
    BY DEF FinishAppend
  <2> HIDE DEF i
  <2>3. CASE Commit(m.to, i)
    BY <1>1, <2>1, <2>3, CommitType
  <2>4. CASE UNCHANGED <<commitIndex, applied>>
    BY <2>4 DEF TypeOK
  <2> QED BY <2>2, <2>3, <2>4
<1>5. AnswerAppend(m, currentTerm[m.to], TRUE)
  BY DEF FinishAppend
<1> QED BY <1>2, <1>3, <1>4, <1>5, AnswerAppendType

\* The part of an append handler that checks the log and stores.
LEMMA AcceptAppendType ==
    ASSUME TypeOK, NEW m \in Request, m.type = "append", NEW others,
           others \subseteq handlers, AcceptAppend(m.to, m, others)
    PROVE  /\ state' \in [Node -> {"follower", "candidate", "leader"}]
           /\ handlers' \subseteq [req : Request, pc : {"stepped", "granted", "stored"}]
           /\ log' \in [Node -> Seq(LogEntry)]
           /\ commitIndex' \in [Node -> Nat]
           /\ applied' \in [Node -> Seq(LogEntry)]
           /\ RoundsOK'
<1>1. m.to \in Node /\ m.prev \in Nat /\ m.entries \in Seq(LogEntry)
  BY RequestFields
<1>2. log[m.to] \in Seq(LogEntry) /\ currentTerm[m.to] \in Term
  BY <1>1 DEF TypeOK
<1>3. state' \in [Node -> {"follower", "candidate", "leader"}]
  BY DEF TypeOK, AcceptAppend
<1>4. CASE /\ AnswerAppend(m, currentTerm[m.to], FALSE)
           /\ handlers' = others /\ UNCHANGED logVars
  <2>1. RoundsOK'
    BY <1>2, <1>4, AnswerAppendType
  <2> QED BY <1>3, <1>4, <2>1 DEF TypeOK, logVars
<1>5. CASE /\ Matches(m, log[m.to])
           /\ log' = [log EXCEPT ![m.to] = Stored(log[m.to], m)]
           /\ handlers' = others \cup {[req |-> m, pc |-> "stored"]}
           /\ UNCHANGED <<commitIndex, applied, round>>
  <2>1. m.prev <= Len(log[m.to])
    BY <1>5 DEF Matches
  <2>2. SubSeq(log[m.to], 1, m.prev) \in Seq(LogEntry)
    BY <1>1, <1>2, <2>1
  <2>3. Stored(log[m.to], m) \in Seq(LogEntry)
    BY <1>1, <2>2 DEF Stored
  <2>4. handlers' \subseteq [req : Request, pc : {"stepped", "granted", "stored"}]
    BY <1>5 DEF TypeOK
  <2>5. log' \in [Node -> Seq(LogEntry)]
    BY <1>5, <2>3 DEF TypeOK
  <2> QED BY <1>3, <1>5, <2>4, <2>5 DEF TypeOK, RoundsOK
<1>6. CASE FinishAppend(m.to, m) /\ handlers' = others
  <2>1. handlers' \subseteq [req : Request, pc : {"stepped", "granted", "stored"}]
    BY <1>6 DEF TypeOK
  <2> QED BY <1>3, <1>6, <2>1, FinishAppendType
<1> QED BY <1>4, <1>5, <1>6 DEF AcceptAppend

\* AppendArrives: in each of its three cases.
LEMMA AppendArrivesType ==
    ASSUME TypeOK, NEW m \in requests, AppendArrives(m) PROVE TypeOK'
<1>1. m \in Request /\ m.type = "append" /\ m.to \in Node /\ m.term \in Term
  BY RequestFields DEF TypeOK, AppendArrives
<1>2. currentTerm[m.to] \in Term
  BY <1>1 DEF TypeOK
<1>3. UNCHANGED <<leaderVars, election, history>> /\ requests' = requests \ {m}
  BY DEF AppendArrives
<1>4. CASE AnswerAppend(m, currentTerm[m.to], FALSE) /\ UNCHANGED <<nodeVars, logVars, handlers>>
  <2>1. RoundsOK'
    BY <1>1, <1>2, <1>4, AnswerAppendType
  <2> QED BY <1>3, <1>4, <2>1 DEF TypeOK, nodeVars, logVars, leaderVars, history
<1>5. CASE /\ StepDown(m.to, m.term)
           /\ handlers' = handlers \cup {[req |-> m, pc |-> "stepped"]}
           /\ UNCHANGED <<logVars, round>>
  <2>1. /\ currentTerm' \in [Node -> Term]
        /\ votedFor' \in [Node -> Node \cup {None}]
        /\ state' \in [Node -> {"follower", "candidate", "leader"}]
    BY <1>1, <1>5, StepDownType
  <2> QED BY <1>1, <1>3, <1>5, <2>1 DEF TypeOK, RoundsOK, logVars, leaderVars, history
<1>6. CASE AcceptAppend(m.to, m, handlers) /\ UNCHANGED <<currentTerm, votedFor>>
  <2>1. /\ state' \in [Node -> {"follower", "candidate", "leader"}]
        /\ handlers' \subseteq [req : Request, pc : {"stepped", "granted", "stored"}]
        /\ log' \in [Node -> Seq(LogEntry)]
        /\ commitIndex' \in [Node -> Nat]
        /\ applied' \in [Node -> Seq(LogEntry)]
        /\ RoundsOK'
    BY <1>1, <1>6, AcceptAppendType
  <2> QED BY <1>3, <1>6, <2>1 DEF TypeOK, leaderVars, history
<1> QED BY <1>4, <1>5, <1>6 DEF AppendArrives

\* AppendResumes: the part of the handler after a write.
LEMMA AppendResumesType ==
    ASSUME TypeOK, NEW h \in handlers, AppendResumes(h) PROVE TypeOK'
<1>1. h.req \in Request /\ h.req.type = "append" /\ h.req.to \in Node
  BY RequestFields DEF TypeOK, AppendResumes
<1>2. UNCHANGED <<currentTerm, votedFor, leaderVars, election, requests, history>>
  BY DEF AppendResumes
<1>3. CASE AcceptAppend(h.req.to, h.req, handlers \ {h})
  <2>1. /\ state' \in [Node -> {"follower", "candidate", "leader"}]
        /\ handlers' \subseteq [req : Request, pc : {"stepped", "granted", "stored"}]
        /\ log' \in [Node -> Seq(LogEntry)]
        /\ commitIndex' \in [Node -> Nat]
        /\ applied' \in [Node -> Seq(LogEntry)]
        /\ RoundsOK'
    BY <1>1, <1>3, AcceptAppendType
  <2> QED BY <1>2, <2>1 DEF TypeOK, leaderVars, history
<1>4. CASE FinishAppend(h.req.to, h.req) /\ handlers' = handlers \ {h} /\ UNCHANGED state
  <2>1. /\ log' \in [Node -> Seq(LogEntry)]
        /\ commitIndex' \in [Node -> Nat]
        /\ applied' \in [Node -> Seq(LogEntry)]
        /\ RoundsOK'
    BY <1>1, <1>4, FinishAppendType
  <2> QED BY <1>2, <1>4, <2>1 DEF TypeOK, leaderVars, history
<1> QED BY <1>3, <1>4 DEF AppendResumes

\* A round whose record changes to one of the right type on a node.
LEMMA RoundChanged ==
    ASSUME TypeOK, NEW id \in Node \cup Command, NEW d \in RoundRun,
           d.pc \in {"loop", "ready", "waiting"} => d.at \in Node,
           round' = [round EXCEPT ![id] = d]
    PROVE  RoundsOK'
  BY DEF TypeOK, RoundsOK

\* Heartbeat: a free call number is one of 1..MaxCalls.
LEMMA HeartbeatType ==
    ASSUME TypeOK, NEW n \in Node, Heartbeat(n) PROVE TypeOK'
<1>1. round[n] \in RoundRun /\ round[n].pc = "loop" /\ round[n].at \in Node
  BY DEF Heartbeat, TypeOK, RoundsOK
<1>2. CASE FreeCalls(n) # {} /\ round' = [round EXCEPT ![n] =
               [round[n] EXCEPT !.pc = "ready", !.call = Min(FreeCalls(n))]]
  <2> DEFINE d == [round[n] EXCEPT !.pc = "ready", !.call = Min(FreeCalls(n))]
  <2>1. FreeCalls(n) \subseteq 1..MaxCalls
    BY DEF FreeCalls
  <2>2. PICK i \in FreeCalls(n) : \A j \in FreeCalls(n) : i <= j
    <3>1. FreeCalls(n) \subseteq Nat
      BY <2>1
    <3> QED BY <1>2, <3>1, LeastNatural
  <2>3. Min(FreeCalls(n)) \in 0..MaxCalls
    BY <2>1, <2>2, BoundsAssumption DEF Min
  <2>4. d \in RoundRun /\ d.at \in Node
    BY <1>1, <2>3 DEF RoundRun
  <2> HIDE DEF d
  <2>5. RoundsOK'
    BY <1>2, <2>4, RoundChanged DEF d
  <2> QED BY <2>5 DEF Heartbeat, TypeOK, nodeVars, logVars, leaderVars, history
<1>3. CASE round' = [round EXCEPT ![n] = NoRound(n)]
  <2>1. NoRound(n) \in RoundRun /\ NoRound(n).pc = "none"
    BY BoundsAssumption DEF NoRound, RoundRun
  <2>2. RoundsOK'
    BY <1>3, <2>1, RoundChanged
  <2> QED BY <2>2 DEF Heartbeat, TypeOK, nodeVars, logVars, leaderVars, history
<1> QED BY <1>2, <1>3 DEF Heartbeat

\* Replicate: the entry appended is an entry.
LEMMA ReplicateType ==
    ASSUME TypeOK, NEW c \in Command, NEW n \in Node, Replicate(c, n) PROVE TypeOK'
<1>1. round[c] \in RoundRun
  BY DEF TypeOK, RoundsOK
<1>2. CASE round' = [round EXCEPT ![c].pc = "false"] /\ UNCHANGED log
  <2>1. [round[c] EXCEPT !.pc = "false"] \in RoundRun
    BY <1>1 DEF RoundRun
  <2>2. [round[c] EXCEPT !.pc = "false"].pc = "false"
    BY <1>1 DEF RoundRun
  <2>3. RoundsOK'
    BY <1>2, <2>1, <2>2, RoundChanged
  <2> QED BY <1>2, <2>3 DEF Replicate, TypeOK, nodeVars, leaderVars, history
<1>3. CASE /\ log' = [log EXCEPT ![n] = Append(@, [term |-> currentTerm[n], command |-> c])]
           /\ round' = [round EXCEPT ![c] = [NoRound(n) EXCEPT !.pc = "ready"]]
  <2>1. [term |-> currentTerm[n], command |-> c] \in LogEntry
    BY DEF TypeOK, LogEntry
  <2>2. log' \in [Node -> Seq(LogEntry)]
    BY <1>3, <2>1 DEF TypeOK
  <2>3. [NoRound(n) EXCEPT !.pc = "ready"] \in RoundRun
        /\ [NoRound(n) EXCEPT !.pc = "ready"].at \in Node
    BY BoundsAssumption DEF NoRound, RoundRun
  <2>4. RoundsOK'
    BY <1>3, <2>3, RoundChanged
  <2> QED BY <2>2, <2>4 DEF Replicate, TypeOK, nodeVars, leaderVars, history
<1> QED BY <1>2, <1>3 DEF Replicate

\* SendAppends: the requests of a round are requests.
LEMMA SendAppendsType ==
    ASSUME TypeOK, NEW id \in Node \cup Command, SendAppends(id) PROVE TypeOK'
<1> DEFINE n == round[id].at
           targets == {p \in Peers(n) : nextIndex[n][p] - 1 <= Len(log[n])}
           d == [round[id] EXCEPT !.pc = "waiting", !.pending = targets]
<1>1. round[id] \in RoundRun /\ n \in Node
  BY DEF SendAppends, TypeOK, RoundsOK
<1>2. d \in RoundRun /\ d.at \in Node
  BY <1>1 DEF RoundRun, Peers
<1>3. RoundsOK'
  <2>1. round' = [round EXCEPT ![id] = d]
    BY DEF SendAppends
  <2> HIDE DEF d
  <2> QED BY <1>2, <2>1, RoundChanged
<1>4. \A p \in targets : AppendRequest(n, p, id) \in Request
  <2> HIDE DEF n
  <2> TAKE p \in targets
  <2>1. /\ p \in Peers(n) /\ p \in Node /\ nextIndex[n][p] \in Nat \ {0}
        /\ nextIndex[n][p] - 1 <= Len(log[n])
    BY <1>1 DEF TypeOK, Peers
  <2>2. log[n] \in Seq(LogEntry) /\ currentTerm[n] \in Term /\ commitIndex[n] \in Nat
    BY <1>1 DEF TypeOK
  <2> DEFINE prev == nextIndex[n][p] - 1
             prevTerm == IF prev = 0 THEN 0 ELSE log[n][prev].term
             entries == SubSeq(log[n], prev + 1, Len(log[n]))
  <2>3. prev \in Nat /\ prev <= Len(log[n]) /\ Len(log[n]) \in Nat
    BY <2>1, <2>2
  <2>4. prevTerm \in Term
    <3> HIDE DEF prev
    <3>1. prev # 0 => prev \in 1..Len(log[n])
      BY <2>3
    <3>2. prev # 0 => log[n][prev] \in LogEntry
      BY <2>2, <3>1
    <3> QED BY <3>2, BoundsAssumption DEF LogEntry, Term
  <2>5. entries \in Seq(LogEntry)
    BY <2>2, <2>3
  <2>6. round[id].call \in 0..MaxCalls
    BY <1>1 DEF RoundRun
  <2>7. AppendRequest(n, p, id) =
            [type |-> "append", from |-> n, to |-> p, term |-> currentTerm[n],
             round |-> id, call |-> round[id].call, prev |-> prev, prevTerm |-> prevTerm,
             entries |-> entries, commit |-> commitIndex[n]]
    BY DEF AppendRequest
  <2> HIDE DEF prev, prevTerm, entries
  <2> QED BY <1>1, <2>1, <2>2, <2>3, <2>4, <2>5, <2>6, <2>7 DEF Request
<1>5. requests' \subseteq Request
  BY <1>4 DEF SendAppends, TypeOK
<1> QED BY <1>3, <1>5 DEF SendAppends, TypeOK, nodeVars, logVars, leaderVars, history

\* TakeReply: next_index stays positive.
LEMMA TakeReplyType ==
    ASSUME TypeOK, NEW id \in Node \cup Command, NEW r \in round[id].replies, TakeReply(id, r)
    PROVE  TypeOK'
<1>1. round[id] \in RoundRun /\ r \in Reply
  BY DEF TypeOK, RoundsOK, RoundRun
<1>2. Looked(round[id], r) \in RoundRun /\ Looked(round[id], r).pc = round[id].pc
      /\ Looked(round[id], r).at = round[id].at
  BY <1>1 DEF Looked, RoundRun, Reply
<1>3. RoundsOK'
  BY <1>2, RoundChanged DEF TakeReply, TypeOK, RoundsOK
<1>4. r.prev \in Nat /\ r.sent \in Nat
  BY <1>1 DEF Reply
<1>5. /\ DOMAIN nextIndex' = Node /\ DOMAIN matchIndex' = Node
      /\ \A x \in Node : /\ nextIndex'[x] \in [Peers(x) -> Nat \ {0}]
                         /\ matchIndex'[x] \in [Peers(x) -> Nat]
  <2> DEFINE n == round[id].at
             f == r.from
  <2>1. /\ DOMAIN nextIndex = Node /\ DOMAIN matchIndex = Node
        /\ \A x \in Node : /\ nextIndex[x] \in [Peers(x) -> Nat \ {0}]
                           /\ matchIndex[x] \in [Peers(x) -> Nat]
    BY DEF TypeOK
  <2>2. \E i \in Nat \ {0} : nextIndex' = [nextIndex EXCEPT ![n][f] = i]
    <3>1. r.prev + r.sent + 1 \in Nat \ {0} /\ (r.prev # 0 => r.prev \in Nat \ {0})
      BY <1>4
    <3> QED BY <3>1 DEF TakeReply
  <2>3. matchIndex' = matchIndex \/ \E i \in Nat : matchIndex' = [matchIndex EXCEPT ![n][f] = i]
    <3>1. r.prev + r.sent \in Nat
      BY <1>4
    <3> QED BY <3>1 DEF TakeReply
  <2> HIDE DEF n, f
  <2>4. PICK i \in Nat \ {0} : nextIndex' = [nextIndex EXCEPT ![n] = [nextIndex[n] EXCEPT ![f] = i]]
    BY <2>2
  <2>5. DOMAIN nextIndex' = Node /\ \A x \in Node : nextIndex'[x] \in [Peers(x) -> Nat \ {0}]
    BY <2>1, <2>4
  <2>6. DOMAIN matchIndex' = Node /\ \A x \in Node : matchIndex'[x] \in [Peers(x) -> Nat]
    <3>1. CASE matchIndex' = matchIndex
      BY <2>1, <3>1
    <3>2. ASSUME NEW j \in Nat,
                 matchIndex' = [matchIndex EXCEPT ![n] = [matchIndex[n] EXCEPT ![f] = j]]
          PROVE  DOMAIN matchIndex' = Node /\ \A x \in Node : matchIndex'[x] \in [Peers(x) -> Nat]
      BY <2>1, <3>2
    <3> QED BY <2>3, <3>1, <3>2
  <2> QED BY <2>5, <2>6
<1> QED BY <1>3, <1>5 DEF TakeReply, TypeOK, nodeVars, logVars, history

\* CallFails: only the sets of calls without a response shrink.
LEMMA CallFailsType == TypeOK /\ CallFails => TypeOK'
<1> SUFFICES ASSUME TypeOK, CallFails PROVE TypeOK'
  OBVIOUS
<1>1. ASSUME NEW n \in Node, NEW p, election' = [election EXCEPT ![n].pending = @ \ {p}],
             UNCHANGED round
      PROVE  TypeOK'
  <2> DEFINE e == [election[n] EXCEPT !.pending = election[n].pending \ {p}]
  <2>1. election \in [Node -> ElectionRun]
    BY DEF TypeOK
  <2>2. e \in ElectionRun
    BY <2>1 DEF ElectionRun
  <2>3. election' = [election EXCEPT ![n] = e]
    BY <1>1
  <2> HIDE DEF e
  <2>4. election' \in [Node -> ElectionRun]
    BY <2>1, <2>2, <2>3
  <2> QED BY <1>1, <2>4 DEF CallFails, TypeOK, RoundsOK, nodeVars, logVars, leaderVars, history
<1>2. ASSUME NEW id \in Node \cup Command, NEW p,
             round' = [round EXCEPT ![id].pending = @ \ {p}], UNCHANGED election
      PROVE  TypeOK'
  <2>1. round[id] \in RoundRun
    BY DEF TypeOK, RoundsOK
  <2> DEFINE d == [round[id] EXCEPT !.pending = round[id].pending \ {p}]
  <2>2. d \in RoundRun /\ d.pc = round[id].pc /\ d.at = round[id].at
    BY <2>1 DEF RoundRun
  <2>3. round' = [round EXCEPT ![id] = d]
    BY <1>2
  <2> HIDE DEF d
  <2>4. RoundsOK'
    BY <2>2, <2>3, RoundChanged DEF TypeOK, RoundsOK
  <2> QED BY <1>2, <2>4 DEF CallFails, TypeOK, nodeVars, logVars, leaderVars, history
<1> QED BY <1>1, <1>2 DEF CallFails

\* RoundStepsDown: the term taken over is a term.
LEMMA RoundStepsDownType ==
    ASSUME TypeOK, NEW id \in Node \cup Command, RoundStepsDown(id) PROVE TypeOK'
<1>1. round[id] \in RoundRun /\ round[id].at \in Node
  BY DEF RoundStepsDown, TypeOK, RoundsOK
<1>2. PICK t \in round[id].answers :
          /\ StepDown(round[id].at, t)
          /\ round' = [round EXCEPT ![id].answers = @ \ {t}]
  BY DEF RoundStepsDown
<1>3. t \in Term
  BY <1>1, <1>2 DEF RoundRun
<1>4. /\ currentTerm' \in [Node -> Term]
      /\ votedFor' \in [Node -> Node \cup {None}]
      /\ state' \in [Node -> {"follower", "candidate", "leader"}]
  BY <1>1, <1>2, <1>3, StepDownType
<1> DEFINE d == [round[id] EXCEPT !.answers = round[id].answers \ {t}]
<1>5. d \in RoundRun /\ d.at \in Node /\ round' = [round EXCEPT ![id] = d]
  BY <1>1, <1>2 DEF RoundRun
<1> HIDE DEF d
<1>6. RoundsOK'
  BY <1>5, RoundChanged
<1> QED BY <1>4, <1>6 DEF RoundStepsDown, TypeOK, logVars, leaderVars, history

\* HeartbeatDone: the heartbeat task sleeps again.
LEMMA HeartbeatDoneType ==
    ASSUME TypeOK, NEW n \in Node, HeartbeatDone(n) PROVE TypeOK'
<1>1. [NoRound(n) EXCEPT !.pc = "loop"] \in RoundRun
      /\ [NoRound(n) EXCEPT !.pc = "loop"].at \in Node
  BY BoundsAssumption DEF NoRound, RoundRun
<1>2. RoundsOK'
  BY <1>1, RoundChanged DEF HeartbeatDone
<1> QED BY <1>2 DEF HeartbeatDone, TypeOK, nodeVars, logVars, leaderVars, history

\* ReplicateDone: the quorum index is a number that some node has reached.
LEMMA ReplicateDoneType ==
    ASSUME TypeOK, NEW c \in Command, ReplicateDone(c) PROVE TypeOK'
<1> DEFINE n == round[c].at
           i == QuorumIndex(n)
           result == IF i <= commitIndex[n] THEN "false"
                     ELSE IF i > Len(log[n]) THEN "error"
                     ELSE IF log[n][i].term = currentTerm[n] THEN "true" ELSE "false"
           d == [NoRound(n) EXCEPT !.pc = result]
<1>1. n \in Node
  BY DEF ReplicateDone, RoundDone, TypeOK, RoundsOK
<1>2. /\ IF result = "true" THEN Commit(n, i) ELSE UNCHANGED <<commitIndex, applied>>
      /\ round' = [round EXCEPT ![c] = d]
  BY DEF ReplicateDone
<1> HIDE DEF n
<1>3. i \in Nat /\ Len(log[n]) \in Nat /\ commitIndex[n] \in Nat
  BY <1>1, QuorumIndexType DEF TypeOK
<1>4. result \in {"true", "false", "error"}
  OBVIOUS
<1>5. result = "true" => i <= Len(log[n])
  BY <1>3
<1> HIDE DEF i, result
<1>6. d \in RoundRun /\ d.pc = result
  BY <1>1, <1>4, BoundsAssumption DEF NoRound, RoundRun
<1> HIDE DEF d
<1>7. RoundsOK'
  BY <1>2, <1>4, <1>6, RoundChanged
<1>8. commitIndex' \in [Node -> Nat] /\ applied' \in [Node -> Seq(LogEntry)]
  <2>1. CASE result = "true"
    BY <1>1, <1>2, <1>3, <1>5, <2>1, CommitType
  <2>2. CASE result # "true"
    BY <1>2, <2>2 DEF TypeOK
  <2> QED BY <2>1, <2>2
<1> QED BY <1>7, <1>8 DEF ReplicateDone, TypeOK, nodeVars, leaderVars, history

\* Every step keeps the types.
LEMMA NextType == TypeOK /\ [Next]_vars => TypeOK'
<1> SUFFICES ASSUME TypeOK, [Next]_vars PROVE TypeOK'
  OBVIOUS
<1>1. CASE UNCHANGED vars
  BY <1>1 DEF TypeOK, RoundsOK, vars, nodeVars, logVars, leaderVars, history
<1>2. ASSUME NEW n \in Node,
             StartElection(n) \/ AskForVotes(n) \/ CountVotes(n)
                 \/ Heartbeat(n) \/ HeartbeatDone(n)
      PROVE  TypeOK'
  BY <1>2, StartElectionType, AskForVotesType, CountVotesType, HeartbeatType,
     HeartbeatDoneType
<1>3. ASSUME NEW c \in Command, (\E n \in Node : Replicate(c, n)) \/ ReplicateDone(c)
      PROVE  TypeOK'
  BY <1>3, ReplicateType, ReplicateDoneType
<1>4. ASSUME NEW id \in Node \cup Command, SendAppends(id) \/ RoundStepsDown(id)
      PROVE  TypeOK'
  BY <1>4, SendAppendsType, RoundStepsDownType
<1>5. CASE Receive
  BY <1>5, VoteArrivesType, AppendArrivesType DEF Receive
<1>6. CASE Resume
  BY <1>6, VoteResumesType, AppendResumesType DEF Resume
<1>7. CASE TakeReplies
  BY <1>7, TakeReplyType DEF TakeReplies
<1>8. CASE CallFails
  BY <1>8, CallFailsType
<1> QED BY <1>1, <1>2, <1>3, <1>4, <1>5, <1>6, <1>7, <1>8 DEF Next

\* Everything the coroutines read and send has the type declared for it: in
\* particular no handler stores a list with a hole in it, no payload carries
\* an index below -1, and the quorum index always exists.
THEOREM TypeCorrect == Spec => []TypeOK
  BY InitType, NextType, PTL DEF Spec

----------------------------------------------------------------------------
(* Voting: terms, votes and ballots.                                       *)

\* A step adds at most one ballot: the vote its voter has after the step, in
\* the term it has then.
BallotStep ==
    \/ ballots' = ballots
    \/ \E n \in Node : /\ votedFor'[n] \in Node
                       /\ ballots' = ballots \cup {<<n, currentTerm'[n], votedFor'[n]>>}

\* Stepping down to a higher term gives up the vote of a lower one.
LEMMA StepDownVotes ==
    ASSUME TypeOK, NEW n \in Node, NEW t \in Term, t > currentTerm[n],
           StepDown(n, t), UNCHANGED ballots
    PROVE  KeepsVote /\ BallotStep
  BY DEF TypeOK, StepDown, KeepsVote, BallotStep

\* A handler that decides on a vote keeps the one cast in this term.
LEMMA DecideVoteVotes ==
    ASSUME TypeOK, NEW m \in Request, NEW others, DecideVote(m.to, m, others),
           UNCHANGED currentTerm
    PROVE  KeepsVote /\ BallotStep
<1>1. m.from \in Node /\ m.to \in Node
  BY RequestFields
<1>2. CASE /\ votedFor[m.to] \in {None, m.from}
           /\ votedFor' = [votedFor EXCEPT ![m.to] = m.from]
           /\ ballots' = ballots \cup {<<m.to, currentTerm[m.to], m.from>>}
  BY <1>1, <1>2 DEF TypeOK, KeepsVote, BallotStep
<1>3. CASE UNCHANGED <<votedFor, ballots>>
  BY <1>3 DEF KeepsVote, BallotStep
<1> QED BY <1>2, <1>3 DEF DecideVote

\* Every step.
LEMMA VotingSteps == TypeOK /\ [Next]_vars => KeepsVote /\ BallotStep
<1> SUFFICES ASSUME TypeOK, [Next]_vars PROVE KeepsVote /\ BallotStep
  OBVIOUS
<1>0. CASE UNCHANGED <<currentTerm, votedFor, ballots>>
  BY <1>0 DEF KeepsVote, BallotStep
<1>1. ASSUME NEW n \in Node, StartElection(n) PROVE KeepsVote /\ BallotStep
  <2>1. /\ currentTerm[n] + 1 > currentTerm[n]
        /\ currentTerm' = [currentTerm EXCEPT ![n] = currentTerm[n] + 1]
        /\ votedFor' = [votedFor EXCEPT ![n] = n]
        /\ ballots' = ballots \cup {<<n, currentTerm[n] + 1, n>>}
    BY <1>1 DEF StartElection, TypeOK, Term
  <2> QED BY <2>1 DEF TypeOK, KeepsVote, BallotStep
<1>2. ASSUME NEW n \in Node, CountVotes(n) PROVE KeepsVote /\ BallotStep
  <2>1. CASE \E r \in election[n].answers : r.term > currentTerm[n] /\ StepDown(n, r.term)
    <3>1. PICK r \in election[n].answers : r.term > currentTerm[n] /\ StepDown(n, r.term)
      BY <2>1
    <3>2. r.term \in Term
      BY <3>1 DEF TypeOK, ElectionRun, Answer
    <3> QED BY <1>2, <3>1, <3>2, StepDownVotes DEF CountVotes
  <2>2. CASE UNCHANGED <<currentTerm, votedFor>>
    BY <1>0, <1>2, <2>2 DEF CountVotes
  <2> QED BY <1>2, <2>1, <2>2 DEF CountVotes, BecomeLeader, nodeVars
<1>3. ASSUME NEW m \in requests, VoteArrives(m) PROVE KeepsVote /\ BallotStep
  <2>1. m \in Request /\ m.to \in Node /\ m.term \in Term
    BY RequestFields DEF TypeOK
  <2>2. CASE UNCHANGED <<nodeVars, handlers, ballots>>
    BY <1>0, <2>2 DEF nodeVars
  <2>3. CASE m.term > currentTerm[m.to] /\ StepDown(m.to, m.term) /\ UNCHANGED <<election, ballots>>
    BY <2>1, <2>3, StepDownVotes
  <2>4. CASE DecideVote(m.to, m, handlers) /\ UNCHANGED <<currentTerm, state>>
    BY <2>1, <2>4, DecideVoteVotes
  <2> QED BY <1>3, <2>2, <2>3, <2>4 DEF VoteArrives
<1>4. ASSUME NEW h \in handlers, VoteResumes(h) PROVE KeepsVote /\ BallotStep
  <2>1. h.req \in Request /\ UNCHANGED currentTerm
    BY <1>4 DEF TypeOK, VoteResumes
  <2>2. CASE DecideVote(h.req.to, h.req, handlers \ {h})
    BY <2>1, <2>2, DecideVoteVotes
  <2>3. CASE UNCHANGED <<votedFor, ballots>>
    BY <1>0, <2>1, <2>3
  <2> QED BY <1>4, <2>2, <2>3 DEF VoteResumes
<1>5. ASSUME NEW m \in requests, AppendArrives(m) PROVE KeepsVote /\ BallotStep
  <2>1. m \in Request /\ m.to \in Node /\ m.term \in Term /\ UNCHANGED ballots
    BY <1>5, RequestFields DEF TypeOK, AppendArrives, history
  <2>2. CASE m.term > currentTerm[m.to] /\ StepDown(m.to, m.term)
    BY <2>1, <2>2, StepDownVotes
  <2>3. CASE UNCHANGED <<currentTerm, votedFor>>
    BY <1>0, <2>1, <2>3
  <2> QED BY <1>5, <2>2, <2>3 DEF AppendArrives, nodeVars
<1>6. ASSUME NEW id \in Node \cup Command, RoundStepsDown(id) PROVE KeepsVote /\ BallotStep
  <2>1. round[id].at \in Node /\ round[id] \in RoundRun /\ UNCHANGED ballots
    BY <1>6 DEF RoundStepsDown, TypeOK, RoundsOK, history
  <2>2. PICK t \in round[id].answers : t > currentTerm[round[id].at] /\ StepDown(round[id].at, t)
    BY <1>6 DEF RoundStepsDown
  <2>3. t \in Term
    BY <2>1, <2>2 DEF RoundRun
  <2> QED BY <2>1, <2>2, <2>3, StepDownVotes
<1>7. ASSUME NEW h \in handlers, AppendResumes(h) PROVE KeepsVote /\ BallotStep
  BY <1>0, <1>7 DEF AppendResumes, history
<1>8. ASSUME NEW n \in Node, AskForVotes(n) \/ Heartbeat(n) \/ HeartbeatDone(n)
      PROVE  KeepsVote /\ BallotStep
  BY <1>0, <1>8 DEF AskForVotes, Heartbeat, HeartbeatDone, nodeVars, history
<1>9. ASSUME NEW c \in Command, (\E n \in Node : Replicate(c, n)) \/ ReplicateDone(c)
      PROVE  KeepsVote /\ BallotStep
  BY <1>0, <1>9 DEF Replicate, ReplicateDone, nodeVars, history
<1>10. ASSUME NEW id \in Node \cup Command, SendAppends(id) PROVE KeepsVote /\ BallotStep
  BY <1>0, <1>10 DEF SendAppends, nodeVars, history
<1>11. CASE TakeReplies
  BY <1>0, <1>11 DEF TakeReplies, TakeReply, nodeVars, history
<1>12. CASE CallFails
  BY <1>0, <1>12 DEF CallFails, nodeVars, history
<1>13. CASE UNCHANGED vars
  BY <1>0, <1>13 DEF vars, nodeVars, history
<1> QED BY <1>1, <1>2, <1>3, <1>4, <1>5, <1>6, <1>7, <1>8, <1>9, <1>10, <1>11, <1>12, <1>13
        DEF Next, Receive, Resume

\* In the code's words: current_term never decreases, and voted_for, once
\* set, stays until the term grows, whichever coroutines interleave.
THEOREM VotesAreKept == Spec => VoteOnce
<1>1. TypeOK /\ [Next]_vars => [KeepsVote]_vars
  BY VotingSteps
<1> QED BY <1>1, TypeCorrect, PTL DEF Spec, VoteOnce

----------------------------------------------------------------------------
(* ElectionInv is inductive.                                               *)

\* Terms grow and ballots are never withdrawn.
LEMMA Monotone ==
    ASSUME TypeOK, TypeOK', KeepsVote, BallotStep
    PROVE  /\ ballots \subseteq ballots'
           /\ \A n \in Node : /\ currentTerm[n] \in Nat /\ currentTerm'[n] \in Nat
                              /\ currentTerm[n] <= currentTerm'[n]
<1>1. \A n \in Node : currentTerm[n] \in Nat /\ currentTerm'[n] \in Nat
  BY BoundsAssumption DEF TypeOK, Term
<1> QED BY <1>1 DEF KeepsVote, BallotStep

\* The ballots of a term agree with each other and with voted_for.
LEMMA BallotsKept ==
    ASSUME TypeOK, TypeOK', KeepsVote, BallotStep, BallotInv, OneBallotPerTerm
    PROVE  BallotInv' /\ OneBallotPerTerm'
<1>1. \A n \in Node : /\ currentTerm[n] \in Nat /\ currentTerm'[n] \in Nat
                      /\ currentTerm[n] <= currentTerm'[n]
  BY Monotone
<1>2. \A b \in ballots : b[1] \in Node /\ b[2] \in Nat /\ b[3] \in Node /\ b[3] # None
  <2>1. \A b \in ballots : b[1] \in Node /\ b[2] \in Term /\ b[3] \in Node
    BY DEF TypeOK
  <2>2. \A t \in Term : t \in Nat
    BY BoundsAssumption DEF Term
  <2> QED BY <2>1, <2>2, NodeAssumption
<1>3. \A b \in ballots : b[2] <= currentTerm'[b[1]]
                         /\ (b[2] = currentTerm'[b[1]] => votedFor'[b[1]] = b[3])
  <2> TAKE b \in ballots
  <2>1. b[2] <= currentTerm[b[1]] /\ (b[2] = currentTerm[b[1]] => votedFor[b[1]] = b[3])
    BY DEF BallotInv
  <2>2. b[2] = currentTerm'[b[1]] => currentTerm'[b[1]] = currentTerm[b[1]]
    BY <1>1, <1>2, <2>1
  <2>3. b[2] <= currentTerm'[b[1]]
    BY <1>1, <1>2, <2>1
  <2>4. currentTerm'[b[1]] = currentTerm[b[1]] /\ votedFor[b[1]] # None
            => votedFor'[b[1]] = votedFor[b[1]]
    BY <1>1, <1>2 DEF KeepsVote
  <2> QED BY <1>2, <2>1, <2>2, <2>3, <2>4
<1>4. CASE ballots' = ballots
  BY <1>3, <1>4 DEF BallotInv, OneBallotPerTerm
<1>5. ASSUME NEW n \in Node, ballots' = ballots \cup {<<n, currentTerm'[n], votedFor'[n]>>}
      PROVE  BallotInv' /\ OneBallotPerTerm'
  <2>1. BallotInv'
    BY <1>1, <1>3, <1>5 DEF BallotInv
  <2>2. \A b, c \in ballots' : b[1] = c[1] /\ b[2] = c[2] => b[3] = c[3]
    BY <1>3, <1>5 DEF OneBallotPerTerm
  <2> QED BY <2>1, <2>2 DEF OneBallotPerTerm
<1> QED BY <1>4, <1>5 DEF BallotStep

\* A candidate without a new answer keeps what its answers stand for.
LEMMA AnswersStand ==
    ASSUME AnswerInv, ballots \subseteq ballots', UNCHANGED election
    PROVE  AnswerInv'
  BY DEF AnswerInv, Balloted

\* Handlers that were there before keep what they stand for.
LEMMA HandlersStand ==
    ASSUME TypeOK, TypeOK', KeepsVote, BallotStep, HandlerInv
    PROVE  \A h \in handlers : h.req.type = "vote" =>
               /\ h.req.term <= currentTerm'[h.req.to]
               /\ h.pc = "granted" =>
                      \E t \in h.req.term..currentTerm'[h.req.to] :
                          <<h.req.to, t, h.req.from>> \in ballots'
<1> TAKE h \in handlers
<1> HAVE h.req.type = "vote"
<1>1. h.req.to \in Node /\ h.req.term \in Nat
  BY RequestFields, BoundsAssumption DEF TypeOK, Term
<1>2. /\ ballots \subseteq ballots'
      /\ currentTerm[h.req.to] \in Nat /\ currentTerm'[h.req.to] \in Nat
      /\ currentTerm[h.req.to] <= currentTerm'[h.req.to]
  BY <1>1, Monotone
<1>3. h.req.term <= currentTerm[h.req.to]
  BY DEF HandlerInv
<1>4. ASSUME h.pc = "granted"
      PROVE  \E t \in h.req.term..currentTerm'[h.req.to] : <<h.req.to, t, h.req.from>> \in ballots'
  <2>1. PICK t \in h.req.term..currentTerm[h.req.to] : <<h.req.to, t, h.req.from>> \in ballots
    BY <1>4 DEF HandlerInv, Balloted
  <2>2. t \in h.req.term..currentTerm'[h.req.to]
    BY <1>1, <1>2
  <2> QED BY <1>2, <2>1, <2>2
<1> QED BY <1>1, <1>2, <1>3, <1>4

\* An answer reaches a candidate: a granted one must stand for a ballot.
LEMMA AnswerArrives ==
    ASSUME TypeOK, AnswerInv, ballots \subseteq ballots',
           NEW m \in Request, NEW t \in Term, NEW g \in BOOLEAN, AnswerVote(m, t, g),
           g => \E u \in m.term..t : <<m.to, u, m.from>> \in ballots'
    PROVE  AnswerInv'
<1>1. m.from \in Node /\ m.to \in Node
  BY RequestFields
<1> DEFINE a == [from |-> m.to, term |-> t, granted |-> g]
           e == election[m.from]
<1>2. election \in [Node -> ElectionRun] /\ e \in ElectionRun
  BY <1>1 DEF TypeOK
<1>3. /\ Heard(e, m.to, a).pc = e.pc /\ Heard(e, m.to, a).own = e.own
      /\ Heard(e, m.to, a).term = e.term
      /\ Heard(e, m.to, a).answers = e.answers \cup {a}
  BY <1>2 DEF Heard, ElectionRun
<1>4. CASE election' = [election EXCEPT ![m.from] = Heard(e, m.to, a)]
           /\ e.pc = "asking" /\ e.term = m.term
  <2>1. /\ election'[m.from].pc = "asking" /\ election'[m.from].own = e.own
        /\ election'[m.from].term = m.term /\ election'[m.from].answers = e.answers \cup {a}
    BY <1>1, <1>2, <1>3, <1>4
  <2>2. \A n \in Node \ {m.from} : election'[n] = election[n]
    BY <1>2, <1>4
  <2>3. <<m.from, e.own, m.from>> \in ballots'
    BY <1>1, <1>4 DEF AnswerInv
  <2>4. \A b \in e.answers \cup {a} :
            b.granted => \E u \in m.term..b.term : <<b.from, u, m.from>> \in ballots'
    <3>1. \A b \in e.answers :
              b.granted => \E u \in m.term..b.term : <<b.from, u, m.from>> \in ballots
      BY <1>1, <1>4 DEF AnswerInv, Balloted
    <3> QED BY <3>1
  <2> HIDE DEF a, e
  <2>5. ASSUME NEW n \in Node
        PROVE  /\ election'[n].pc # "idle" => <<n, election'[n].own, n>> \in ballots'
               /\ election'[n].pc = "asking" => \A b \in election'[n].answers :
                      b.granted => \E u \in election'[n].term..b.term : <<b.from, u, n>> \in ballots'
               /\ election'[n].pc # "asking" => election'[n].answers = {}
    <3>1. CASE n = m.from
      BY <3>1, <2>1, <2>3, <2>4
    <3>2. CASE n # m.from
      BY <3>2, <2>2 DEF AnswerInv, Balloted
    <3> QED BY <3>1, <3>2
  <2> QED BY <2>5 DEF AnswerInv, Balloted
<1>5. CASE election' = election
  BY <1>5, AnswersStand
<1>6. \/ /\ election' = [election EXCEPT ![m.from] = Heard(e, m.to, a)]
         /\ e.pc = "asking" /\ e.term = m.term
      \/ election' = election
  BY <1>1, <1>2 DEF AnswerVote
<1> QED BY <1>4, <1>5, <1>6

\* A handler stands when its request's term was reached and, once it has
\* granted its vote, the ballot is there.
Stands(h) == /\ h.req.term <= currentTerm'[h.req.to]
             /\ h.pc = "granted" => \E t \in h.req.term..currentTerm'[h.req.to] :
                                        <<h.req.to, t, h.req.from>> \in ballots'

\* HandlerInv in the next state, from the handlers a step adds.
LEMMA NewHandlers ==
    ASSUME TypeOK, TypeOK', KeepsVote, BallotStep, HandlerInv,
           \A h \in handlers' : h \in handlers \/ h.req.type # "vote" \/ Stands(h)
    PROVE  HandlerInv'
  BY HandlersStand DEF HandlerInv, Balloted, Stands

\* Who has won keeps the ballots of its quorum.
LEMMA WinnersStand ==
    ASSUME WonInv, ballots \subseteq ballots', UNCHANGED won
    PROVE  WonInv'
<1> SUFFICES ASSUME NEW w \in won
             PROVE  \E V \in SUBSET Node : /\ Cardinality(V) >= Quorum
                                           /\ \A v \in V : <<v, w[1], w[2]>> \in ballots'
  BY DEF WonInv
<1>1. PICK V \in SUBSET Node : /\ Cardinality(V) >= Quorum
                               /\ \A v \in V : <<v, w[1], w[2]>> \in ballots
  BY DEF WonInv
<1> QED BY <1>1

\* A decision on a vote: a granted one leaves its ballot behind.
LEMMA DecideVoteElects ==
    ASSUME TypeOK, TypeOK', KeepsVote, BallotStep, ElectionInv,
           NEW m \in Request, NEW others, others \subseteq handlers,
           m.term <= currentTerm[m.to], DecideVote(m.to, m, others),
           UNCHANGED currentTerm
    PROVE  AnswerInv' /\ HandlerInv'
<1>1. m.from \in Node /\ m.to \in Node /\ m.term \in Nat /\ currentTerm[m.to] \in Term
      /\ currentTerm[m.to] \in Nat
  BY RequestFields, BoundsAssumption DEF TypeOK, Term
<1>2. ballots \subseteq ballots'
  BY Monotone
<1>3. AnswerInv /\ HandlerInv
  BY DEF ElectionInv
<1>4. CASE /\ ballots' = ballots \cup {<<m.to, currentTerm[m.to], m.from>>}
           /\ handlers' = others \cup {[req |-> m, pc |-> "granted"]}
           /\ UNCHANGED election
  <2>1. Stands([req |-> m, pc |-> "granted"])
    <3>1. currentTerm[m.to] \in m.term..currentTerm'[m.to]
      BY <1>1
    <3>2. <<m.to, currentTerm[m.to], m.from>> \in ballots'
      BY <1>4
    <3>3. \E t \in m.term..currentTerm'[m.to] : <<m.to, t, m.from>> \in ballots'
      BY <3>1, <3>2
    <3> QED BY <3>3 DEF Stands
  <2>2. \A h \in handlers' : h \in handlers \/ h = [req |-> m, pc |-> "granted"]
    BY <1>4
  <2>3. HandlerInv'
    BY <1>3, <2>1, <2>2, NewHandlers
  <2> QED BY <1>2, <1>3, <1>4, <2>3, AnswersStand
<1>5. CASE AnswerVote(m, currentTerm[m.to], FALSE) /\ handlers' = others
  <2>1. AnswerInv'
    BY <1>1, <1>2, <1>3, <1>5, AnswerArrives
  <2> QED BY <1>3, <1>5, <2>1, NewHandlers
<1> QED BY <1>4, <1>5 DEF DecideVote

\* CountVotes: the voters of a winner have cast ballots in its term.
LEMMA CountVotesElects ==
    ASSUME TypeOK, TypeOK', ElectionInv, NEW n \in Node, CountVotes(n)
    PROVE  AnswerInv' /\ WonInv'
<1>1. /\ election[n].pc = "asking" /\ UNCHANGED ballots
      /\ election' = [election EXCEPT ![n] = NoElection]
      /\ election \in [Node -> ElectionRun]
  BY DEF CountVotes, TypeOK
<1>2. AnswerInv'
  BY <1>1 DEF ElectionInv, AnswerInv, NoElection, Balloted
<1>3. CASE UNCHANGED won
  BY <1>1, <1>2, <1>3, WinnersStand DEF ElectionInv
<1>4. CASE /\ \A r \in election[n].answers : ~(r.term > currentTerm[n])
           /\ Cardinality(Voters(n)) >= Quorum
           /\ election[n].own = currentTerm[n] /\ election[n].term = currentTerm[n]
           /\ won' = won \cup {<<currentTerm[n], n>>}
  <2>1. currentTerm[n] \in Nat /\ \A r \in election[n].answers : r.term \in Nat /\ r.from \in Node
    <3>1. election[n].answers \subseteq Answer /\ currentTerm[n] \in Term
      BY <1>1 DEF TypeOK, ElectionRun
    <3>2. \A r \in election[n].answers : r.term \in Term /\ r.from \in Node
      BY <3>1 DEF Answer
    <3>3. \A t \in Term : t \in Nat
      BY BoundsAssumption DEF Term
    <3> QED BY <3>1, <3>2, <3>3
  <2>2. \A v \in Voters(n) : v \in Node /\ <<v, currentTerm[n], n>> \in ballots
    <3>1. <<n, currentTerm[n], n>> \in ballots
      BY <1>1, <1>4 DEF ElectionInv, AnswerInv
    <3>2. ASSUME NEW r \in election[n].answers, r.granted
          PROVE  <<r.from, currentTerm[n], n>> \in ballots
      <4>1. PICK t \in currentTerm[n]..r.term : <<r.from, t, n>> \in ballots
        BY <1>1, <1>4, <3>2 DEF ElectionInv, AnswerInv, Balloted
      <4>2. t = currentTerm[n]
        BY <1>4, <2>1
      <4> QED BY <4>1, <4>2
    <3> QED BY <2>1, <3>1, <3>2 DEF Voters
  <2>3. \E V \in SUBSET Node : /\ Cardinality(V) >= Quorum
                               /\ \A v \in V : <<v, currentTerm[n], n>> \in ballots'
    <3>1. Voters(n) \in SUBSET Node
      BY <2>2
    <3>2. \A v \in Voters(n) : <<v, currentTerm[n], n>> \in ballots'
      BY <1>1, <2>2
    <3> QED BY <1>4, <3>1, <3>2
  <2>4. ASSUME NEW w \in won'
        PROVE  \E V \in SUBSET Node : /\ Cardinality(V) >= Quorum
                                      /\ \A v \in V : <<v, w[1], w[2]>> \in ballots'
    <3>1. CASE w \in won
      <4>1. PICK V \in SUBSET Node : /\ Cardinality(V) >= Quorum
                                     /\ \A v \in V : <<v, w[1], w[2]>> \in ballots
        BY <3>1 DEF ElectionInv, WonInv
      <4> QED BY <1>1, <4>1
    <3>2. CASE w = <<currentTerm[n], n>>
      BY <2>3, <3>2
    <3> QED BY <1>4, <3>1, <3>2
  <2> QED BY <1>2, <2>4 DEF WonInv
<1> QED BY <1>3, <1>4 DEF CountVotes, BecomeLeader

\* VoteArrives: a ballot cast by the handler is the only one of its term.
LEMMA VoteArrivesElects ==
    ASSUME TypeOK, TypeOK', KeepsVote, BallotStep, ElectionInv,
           NEW m \in requests, VoteArrives(m)
    PROVE  AnswerInv' /\ HandlerInv'
<1>1. /\ m \in Request /\ m.to \in Node /\ m.term \in Nat /\ m.term \in Term
      /\ currentTerm[m.to] \in Term /\ currentTerm[m.to] \in Nat
  BY RequestFields, BoundsAssumption DEF TypeOK, Term
<1>2. AnswerInv /\ HandlerInv /\ ballots \subseteq ballots'
  BY Monotone DEF ElectionInv
<1>3. CASE AnswerVote(m, currentTerm[m.to], FALSE) /\ UNCHANGED handlers
  BY <1>1, <1>2, <1>3, AnswerArrives, NewHandlers
<1>4. CASE /\ StepDown(m.to, m.term)
           /\ handlers' = handlers \cup {[req |-> m, pc |-> "stepped"]} /\ UNCHANGED election
  <2>1. currentTerm'[m.to] = m.term
    BY <1>1, <1>4 DEF StepDown, TypeOK
  <2>2. Stands([req |-> m, pc |-> "stepped"])
    BY <1>1, <2>1 DEF Stands
  <2>3. \A h \in handlers' : h \in handlers \/ h = [req |-> m, pc |-> "stepped"]
    BY <1>4
  <2> QED BY <1>2, <1>4, <2>2, <2>3, AnswersStand, NewHandlers
<1>5. CASE m.term = currentTerm[m.to] /\ DecideVote(m.to, m, handlers) /\ UNCHANGED <<currentTerm, state>>
  BY <1>1, <1>5, DecideVoteElects
<1> QED BY <1>3, <1>4, <1>5 DEF VoteArrives, nodeVars

\* VoteResumes: a vote granted after a write, and the answer sent after another.
LEMMA VoteResumesElects ==
    ASSUME TypeOK, TypeOK', KeepsVote, BallotStep, ElectionInv,
           NEW h \in handlers, VoteResumes(h)
    PROVE  AnswerInv' /\ HandlerInv'
<1>1. /\ h.req \in Request /\ h.req.type = "vote" /\ h.req.to \in Node
      /\ currentTerm[h.req.to] \in Term
      /\ UNCHANGED currentTerm
  BY RequestFields DEF TypeOK, VoteResumes
<1>2. AnswerInv /\ HandlerInv /\ ballots \subseteq ballots'
  BY Monotone DEF ElectionInv
<1>3. CASE DecideVote(h.req.to, h.req, handlers \ {h})
  <2>1. h.req.term <= currentTerm[h.req.to]
    BY <1>1, <1>2 DEF HandlerInv
  <2> QED BY <1>1, <1>3, <2>1, DecideVoteElects
<1>4. CASE h.pc = "granted" /\ AnswerVote(h.req, currentTerm[h.req.to], TRUE)
           /\ handlers' = handlers \ {h}
  <2>1. \E u \in h.req.term..currentTerm[h.req.to] : <<h.req.to, u, h.req.from>> \in ballots'
    BY <1>1, <1>2, <1>4 DEF HandlerInv, Balloted
  <2>2. AnswerInv'
    BY <1>1, <1>2, <1>4, <2>1, AnswerArrives
  <2> QED BY <1>2, <1>4, <2>2, NewHandlers
<1> QED BY <1>3, <1>4 DEF VoteResumes

\* The rest of the steps: no vote is answered, handled or counted.
LEMMA OthersElect ==
    ASSUME TypeOK, TypeOK', KeepsVote, BallotStep, ElectionInv,
           \A h \in handlers' : h \in handlers \/ h.req.type # "vote",
           \/ UNCHANGED election
           \/ \E n \in Node : \E S : election' = [election EXCEPT ![n].pending = S],
           UNCHANGED won
    PROVE  AnswerInv' /\ HandlerInv' /\ WonInv'
<1>1. AnswerInv /\ HandlerInv /\ WonInv /\ ballots \subseteq ballots'
  BY Monotone DEF ElectionInv
<1>2. HandlerInv' /\ WonInv'
  BY <1>1, NewHandlers, WinnersStand
<1>3. ASSUME NEW n \in Node, NEW S, election' = [election EXCEPT ![n].pending = S]
      PROVE  AnswerInv'
  <2>1. election \in [Node -> ElectionRun]
    BY DEF TypeOK
  <2>2. \A x \in Node : /\ election'[x].pc = election[x].pc
                        /\ election'[x].own = election[x].own
                        /\ election'[x].term = election[x].term
                        /\ election'[x].answers = election[x].answers
    BY <1>3, <2>1 DEF ElectionRun
  <2> QED BY <1>1, <2>2 DEF AnswerInv, Balloted
<1> QED BY <1>1, <1>2, <1>3, AnswersStand

\* An append handler adds at most itself to the suspended ones.
LEMMA AcceptAppendHandlers ==
    ASSUME NEW n, NEW m, NEW others, others \subseteq handlers, AcceptAppend(n, m, others)
    PROVE  \A h \in handlers' : h \in handlers \/ h.req = m
<1>1. handlers' = others \/ handlers' = others \cup {[req |-> m, pc |-> "stored"]}
  BY DEF AcceptAppend
<1> QED BY <1>1

\* So does a vote handler.
LEMMA DecideVoteHandlers ==
    ASSUME NEW n, NEW m, NEW others, others \subseteq handlers, DecideVote(n, m, others)
    PROVE  \A h \in handlers' : h \in handlers \/ h.req = m
<1>1. handlers' = others \/ handlers' = others \cup {[req |-> m, pc |-> "granted"]}
  BY DEF DecideVote
<1> QED BY <1>1

\* Nobody has voted yet.
LEMMA InitElection == Init => ElectionInv
  BY DEF Init, ElectionInv, BallotInv, OneBallotPerTerm, AnswerInv, HandlerInv, WonInv,
         NoElection

\* Every step keeps ElectionInv.
LEMMA NextElection == TypeOK /\ TypeOK' /\ ElectionInv /\ [Next]_vars => ElectionInv'
<1> SUFFICES ASSUME TypeOK, TypeOK', ElectionInv, [Next]_vars PROVE ElectionInv'
  OBVIOUS
<1>1. KeepsVote /\ BallotStep
  BY VotingSteps
<1>2. BallotInv' /\ OneBallotPerTerm'
  BY <1>1, BallotsKept DEF ElectionInv
<1>3. AnswerInv /\ HandlerInv /\ WonInv /\ ballots \subseteq ballots'
  BY <1>1, Monotone DEF ElectionInv
<1> SUFFICES AnswerInv' /\ HandlerInv' /\ WonInv'
  BY <1>2 DEF ElectionInv
<1>4. ASSUME NEW n \in Node, StartElection(n) PROVE AnswerInv' /\ HandlerInv' /\ WonInv'
  <2>1. UNCHANGED <<handlers, won>>
    BY <1>4 DEF StartElection
  <2>2. /\ election \in [Node -> ElectionRun] /\ <<n, currentTerm[n] + 1, n>> \in ballots'
        /\ election' = [election EXCEPT ![n] =
                            [NoElection EXCEPT !.pc = "persist", !.own = currentTerm[n] + 1]]
    BY <1>4 DEF StartElection, TypeOK
  <2>3. AnswerInv'
    BY <1>3, <2>2 DEF AnswerInv, Balloted, NoElection
  <2> QED BY <1>1, <1>3, <2>1, <2>3, NewHandlers, WinnersStand
<1>5. ASSUME NEW n \in Node, AskForVotes(n) PROVE AnswerInv' /\ HandlerInv' /\ WonInv'
  <2>1. UNCHANGED <<handlers, won>> /\ election[n].pc = "persist"
    BY <1>5 DEF AskForVotes, history
  <2>2. /\ election \in [Node -> ElectionRun]
        /\ election' = [election EXCEPT ![n] =
               [election[n] EXCEPT !.pc = "asking", !.term = currentTerm[n], !.pending = Peers(n)]]
    BY <1>5 DEF AskForVotes, TypeOK
  <2>3. /\ election'[n].pc = "asking" /\ election'[n].own = election[n].own
        /\ election'[n].answers = election[n].answers
        /\ \A x \in Node \ {n} : election'[x] = election[x]
    BY <2>2 DEF ElectionRun
  <2>4. <<n, election[n].own, n>> \in ballots /\ election[n].answers = {}
    BY <1>3, <2>1 DEF AnswerInv
  <2>5. AnswerInv'
    BY <1>3, <2>3, <2>4 DEF AnswerInv, Balloted
  <2> QED BY <1>1, <1>3, <2>1, <2>5, NewHandlers, WinnersStand
<1>6. ASSUME NEW n \in Node, CountVotes(n) PROVE AnswerInv' /\ HandlerInv' /\ WonInv'
  <2>1. UNCHANGED handlers
    BY <1>6 DEF CountVotes
  <2> QED BY <1>1, <1>3, <1>6, <2>1, CountVotesElects, NewHandlers
<1>7. ASSUME NEW m \in requests, VoteArrives(m) PROVE AnswerInv' /\ HandlerInv' /\ WonInv'
  BY <1>1, <1>3, <1>7, VoteArrivesElects, WinnersStand DEF VoteArrives
<1>8. ASSUME NEW h \in handlers, VoteResumes(h) PROVE AnswerInv' /\ HandlerInv' /\ WonInv'
  BY <1>1, <1>3, <1>8, VoteResumesElects, WinnersStand DEF VoteResumes
<1>9. ASSUME NEW m \in requests, AppendArrives(m) PROVE AnswerInv' /\ HandlerInv' /\ WonInv'
  <2>1. m.type = "append" /\ UNCHANGED <<election, won>>
    BY <1>9 DEF AppendArrives, history
  <2>2. \A h \in handlers' : h \in handlers \/ h.req = m
    <3>1. CASE UNCHANGED handlers
      BY <3>1
    <3>2. CASE handlers' = handlers \cup {[req |-> m, pc |-> "stepped"]}
      BY <3>2
    <3>3. CASE AcceptAppend(m.to, m, handlers)
      BY <3>3, AcceptAppendHandlers
    <3> QED BY <1>9, <3>1, <3>2, <3>3 DEF AppendArrives
  <2>3. \A h \in handlers' : h \in handlers \/ h.req.type # "vote"
    BY <2>1, <2>2
  <2> QED BY <1>1, <2>1, <2>3, OthersElect
<1>10. ASSUME NEW h \in handlers, AppendResumes(h) PROVE AnswerInv' /\ HandlerInv' /\ WonInv'
  <2>1. h.req.type = "append" /\ UNCHANGED <<election, won>>
    BY <1>10 DEF AppendResumes, history
  <2>2. \A g \in handlers' : g \in handlers \/ g.req = h.req
    <3>1. CASE AcceptAppend(h.req.to, h.req, handlers \ {h})
      BY <3>1, AcceptAppendHandlers
    <3>2. CASE handlers' = handlers \ {h}
      BY <3>2
    <3> QED BY <1>10, <3>1, <3>2 DEF AppendResumes
  <2>3. \A g \in handlers' : g \in handlers \/ g.req.type # "vote"
    BY <2>1, <2>2
  <2> QED BY <1>1, <2>1, <2>3, OthersElect
<1>11. CASE CallFails
  <2>1. UNCHANGED <<handlers, won>>
    BY <1>11 DEF CallFails, history
  <2>2. \/ UNCHANGED election
        \/ \E n \in Node : \E S : election' = [election EXCEPT ![n].pending = S]
    BY <1>11 DEF CallFails
  <2> QED BY <1>1, <2>1, <2>2, OthersElect
<1>12. CASE UNCHANGED <<election, handlers, won>>
  BY <1>1, <1>12, OthersElect
<1>13. ASSUME NEW n \in Node, Heartbeat(n) \/ HeartbeatDone(n) PROVE UNCHANGED <<election, handlers, won>>
  BY <1>13 DEF Heartbeat, HeartbeatDone, history
<1>14. ASSUME NEW c \in Command, (\E n \in Node : Replicate(c, n)) \/ ReplicateDone(c)
       PROVE  UNCHANGED <<election, handlers, won>>
  BY <1>14 DEF Replicate, ReplicateDone, history
<1>15. ASSUME NEW id \in Node \cup Command, SendAppends(id) \/ RoundStepsDown(id)
       PROVE  UNCHANGED <<election, handlers, won>>
  BY <1>15 DEF SendAppends, RoundStepsDown, history
<1>16. TakeReplies \/ UNCHANGED vars => UNCHANGED <<election, handlers, won>>
  BY DEF TakeReplies, TakeReply, vars, history
<1> QED BY <1>4, <1>5, <1>6, <1>7, <1>8, <1>9, <1>10, <1>11, <1>12, <1>13, <1>14, <1>15, <1>16
        DEF Next, Receive, Resume

----------------------------------------------------------------------------
(* Elections.                                                              *)

\* The invariant the election properties rest on holds in every behaviour.
THEOREM ElectionInvariant == Spec => []ElectionInv
<1>1. TypeOK /\ ElectionInv /\ [Next]_vars => (TypeOK /\ ElectionInv)'
  BY NextType, NextElection
<1> QED BY InitType, InitElection, <1>1, PTL DEF Spec

\* No node sends its vote for a term to two candidates, however many vote
\* handlers are suspended in it.
THEOREM SingleBallots == Spec => []OneBallotPerTerm
<1>1. ElectionInv => OneBallotPerTerm
  BY DEF ElectionInv
<1> QED BY <1>1, ElectionInvariant, PTL

\* Quorums of one cluster share a node.
LEMMA QuorumsMeet ==
    ASSUME NEW V \in SUBSET Node, NEW W \in SUBSET Node,
           Cardinality(V) >= Quorum, Cardinality(W) >= Quorum
    PROVE  V \cap W # {}
<1>1. IsFiniteSet(Node) /\ Cardinality(Node) \in Nat
  BY NodeAssumption, FS_CardinalityType
<1>2. Cardinality(V) \in Nat /\ Cardinality(W) \in Nat
  BY <1>1, FS_Subset, FS_CardinalityType
<1>3. Cardinality(V) + Cardinality(W) > Cardinality(Node)
  BY <1>1, <1>2 DEF Quorum
<1> QED BY <1>1, <1>3, FS_MajoritiesIntersect

\* Of the elections that stay within their term, at most one is won in each
\* term, in a cluster of any size.
THEOREM SingleWinner == Spec => []OneWinnerPerTerm
<1>1. TypeOK /\ ElectionInv => OneWinnerPerTerm
  <2> SUFFICES ASSUME TypeOK, ElectionInv, NEW w \in won, NEW v \in won, w[1] = v[1]
               PROVE  w[2] = v[2]
    BY DEF OneWinnerPerTerm
  <2>1. PICK V \in SUBSET Node : /\ Cardinality(V) >= Quorum
                                 /\ \A x \in V : <<x, w[1], w[2]>> \in ballots
    BY DEF ElectionInv, WonInv
  <2>2. PICK W \in SUBSET Node : /\ Cardinality(W) >= Quorum
                                 /\ \A x \in W : <<x, v[1], v[2]>> \in ballots
    BY DEF ElectionInv, WonInv
  <2>3. PICK x \in Node : x \in V /\ x \in W
    BY <2>1, <2>2, QuorumsMeet
  <2>4. <<x, w[1], w[2]>> \in ballots /\ <<x, v[1], v[2]>> \in ballots
    BY <2>1, <2>2, <2>3
  <2> QED BY <2>4 DEF ElectionInv, OneBallotPerTerm
<1> QED BY <1>1, TypeCorrect, ElectionInvariant, PTL

----------------------------------------------------------------------------
(* Replication under one leader: logs that begin another.                  *)

\* The entries of s are the first ones of t.
Begins(s, t) == Len(s) <= Len(t) /\ \A i \in 1..Len(s) : s[i] = t[i]

LEMMA BeginsIsPrefix ==
    ASSUME NEW T, NEW s \in Seq(T), NEW t \in Seq(T), Begins(s, t)
    PROVE  IsPrefix(s, t)
<1> DEFINE l == Len(s)
<1>1. l \in Nat /\ Len(t) \in Nat /\ l <= Len(t) /\ \A i \in 1..l : s[i] = t[i]
  BY DEF Begins
<1>2. 1 \in Int /\ l \in Int
  BY <1>1
<1>3. \A i \in 1..l : s[i] \in T /\ t[i] \in T
  BY <1>1
<1> DEFINE a == SubSeq(s, 1, l)
           b == SubSeq(t, 1, l)
           n == IF 1 <= l THEN l - 1 + 1 ELSE 0
<1> HIDE DEF l
<1>4. a \in Seq(T) /\ Len(a) = n /\ \A i \in 1..(l - 1 + 1) : a[i] = s[1 + i - 1]
  BY <1>2, <1>3, SubSeqProperties
<1>5. b \in Seq(T) /\ Len(b) = n /\ \A i \in 1..(l - 1 + 1) : b[i] = t[1 + i - 1]
  BY <1>2, <1>3, SubSeqProperties
<1> HIDE DEF a, b
<1>6. n = l /\ l - 1 + 1 = l /\ \A i \in 1..l : 1 + i - 1 = i
  BY <1>1
<1>7. Len(a) = l /\ Len(b) = l /\ \A i \in 1..l : a[i] = b[i]
  BY <1>1, <1>4, <1>5, <1>6
<1>8. a = b
  BY <1>4, <1>5, <1>7
<1> QED BY <1>1, <1>8 DEF IsPrefix, a, b, l

\* Two beginnings of one log agree.
LEMMA BeginningsAgree ==
    ASSUME NEW T, NEW s \in Seq(T), NEW t \in Seq(T), NEW u \in Seq(T),
           Begins(s, u), Begins(t, u)
    PROVE  IsPrefix(s, t) \/ IsPrefix(t, s)
<1>1. Len(s) \in Nat /\ Len(t) \in Nat
  OBVIOUS
<1>2. ASSUME Len(s) <= Len(t) PROVE Begins(s, t)
  <2>1. \A i \in 1..Len(s) : i \in 1..Len(t)
    BY <1>1, <1>2
  <2> QED BY <1>2, <2>1 DEF Begins
<1>3. ASSUME Len(t) <= Len(s) PROVE Begins(t, s)
  <2>1. \A i \in 1..Len(t) : i \in 1..Len(s)
    BY <1>1, <1>3
  <2> QED BY <1>3, <2>1 DEF Begins
<1> QED BY <1>1, <1>2, <1>3, BeginsIsPrefix

\* A log that grows at its end.
LEMMA BeginsAppend ==
    ASSUME NEW T, NEW s \in Seq(T), NEW t \in Seq(T), NEW x \in T, Begins(s, t)
    PROVE  Begins(s, Append(t, x)) /\ Begins(Append(t, x), Append(t, x))
<1>1. /\ Len(s) \in Nat /\ Len(t) \in Nat /\ Len(Append(t, x)) = Len(t) + 1
      /\ \A i \in 1..Len(t) : Append(t, x)[i] = t[i]
  OBVIOUS
<1> QED BY <1>1 DEF Begins

\* A piece that is put after the part of l up to index p, where both come from u.
LEMMA BeginsPiece ==
    ASSUME NEW T, NEW l \in Seq(T), NEW e \in Seq(T), NEW u \in Seq(T), Begins(l, u),
           NEW p \in Nat, p <= Len(l), p + Len(e) <= Len(u),
           \A i \in 1..Len(e) : e[i] = u[p + i]
    PROVE  Begins(SubSeq(l, 1, p) \o e, u)
<1> DEFINE a == SubSeq(l, 1, p)
           r == a \o e
<1>1. Len(l) \in Nat /\ Len(e) \in Nat /\ Len(u) \in Nat
  OBVIOUS
<1>2. \A i \in 1..p : i \in 1..Len(l)
  BY <1>1
<1>3. \A i \in 1..p : l[i] \in T
  BY <1>2
<1>4. a \in Seq(T) /\ Len(a) = (IF 1 <= p THEN p - 1 + 1 ELSE 0) /\ \A i \in 1..(p - 1 + 1) : a[i] = l[1 + i - 1]
  <2>1. 1 \in Int /\ p \in Int
    OBVIOUS
  <2> QED BY <1>3, <2>1, SubSeqProperties
<1> HIDE DEF a
<1>5. Len(a) = p /\ \A i \in 1..p : a[i] = u[i]
  <2>1. p - 1 + 1 = p /\ \A i \in 1..p : 1 + i - 1 = i
    OBVIOUS
  <2>2. Len(a) = p
    BY <1>4, <2>1
  <2>3. \A i \in 1..p : a[i] = l[i]
    BY <1>4, <2>1
  <2> QED BY <1>2, <2>2, <2>3 DEF Begins
<1>6. /\ Len(r) = p + Len(e)
      /\ \A i \in 1..Len(r) : r[i] = IF i <= Len(a) THEN a[i] ELSE e[i - Len(a)]
  <2>1. /\ Len(r) = Len(a) + Len(e)
        /\ \A i \in 1..(Len(a) + Len(e)) : r[i] = IF i <= Len(a) THEN a[i] ELSE e[i - Len(a)]
    BY <1>4, ConcatProperties
  <2> HIDE DEF r
  <2> QED BY <1>5, <2>1
<1> HIDE DEF r
<1>7. ASSUME NEW i \in 1..(p + Len(e)) PROVE r[i] = u[i]
  <2>1. CASE i <= p
    <3>1. i \in 1..p
      BY <1>1, <2>1
    <3> QED BY <1>5, <1>6, <2>1, <3>1
  <2>2. CASE ~(i <= p)
    <3>1. i - p \in 1..Len(e) /\ p + (i - p) = i
      BY <1>1, <2>2
    <3> QED BY <1>5, <1>6, <2>2, <3>1
  <2> QED BY <2>1, <2>2
<1> QED BY <1>6, <1>7 DEF Begins, r, a

\* Applying up to index i of a log: what is applied still begins the same log.
LEMMA BeginsCommit ==
    ASSUME NEW T, NEW a \in Seq(T), NEW l \in Seq(T), NEW u \in Seq(T),
           Begins(a, u), Begins(l, u), NEW i \in Nat, i <= Len(l)
    PROVE  Begins(a \o SubSeq(l, Len(a) + 1, i), u)
<1> DEFINE k == Len(a)
           e == SubSeq(l, k + 1, i)
           r == a \o e
<1>1. k \in Nat /\ Len(l) \in Nat /\ Len(u) \in Nat
  OBVIOUS
<1> HIDE DEF k
<1>2. \A j \in (k + 1)..i : j \in 1..Len(l)
  BY <1>1
<1>3. \A j \in (k + 1)..i : l[j] \in T /\ l[j] = u[j]
  BY <1>2 DEF Begins
<1>4. /\ e \in Seq(T) /\ Len(e) = (IF k + 1 <= i THEN i - (k + 1) + 1 ELSE 0)
      /\ \A j \in 1..(i - (k + 1) + 1) : e[j] = l[k + 1 + j - 1]
  <2>1. k + 1 \in Int /\ i \in Int
    BY <1>1
  <2>2. \A j \in (k + 1)..i : l[j] \in T
    BY <1>3
  <2> QED BY <2>1, <2>2, SubSeqProperties
<1> HIDE DEF e
<1>5. /\ Len(r) = k + Len(e)
      /\ \A j \in 1..Len(r) : r[j] = IF j <= k THEN a[j] ELSE e[j - k]
  <2>1. /\ Len(r) = Len(a) + Len(e)
        /\ \A j \in 1..(Len(a) + Len(e)) : r[j] = IF j <= Len(a) THEN a[j] ELSE e[j - Len(a)]
    BY <1>4, ConcatProperties
  <2> HIDE DEF r
  <2> QED BY <2>1 DEF k
<1> HIDE DEF r
<1>6. CASE k + 1 <= i
  <2>1. Len(e) = i - k /\ Len(r) = i
    BY <1>1, <1>4, <1>5, <1>6
  <2>2. ASSUME NEW j \in 1..i PROVE r[j] = u[j]
    <3>1. CASE j <= k
      <4>1. j \in 1..k
        BY <1>1, <3>1
      <4> QED BY <1>5, <2>1, <3>1, <4>1 DEF Begins, k
    <3>2. CASE ~(j <= k)
      <4>1. j - k \in 1..(i - (k + 1) + 1) /\ k + 1 + (j - k) - 1 = j /\ j \in (k + 1)..i
        BY <1>1, <3>2
      <4>2. e[j - k] = l[j]
        BY <1>4, <4>1
      <4> QED BY <1>3, <1>5, <2>1, <3>2, <4>1, <4>2
    <3> QED BY <3>1, <3>2
  <2>3. i <= Len(u)
    BY <1>1 DEF Begins
  <2> QED BY <2>1, <2>2, <2>3 DEF Begins, r, e, k
<1>7. CASE ~(k + 1 <= i)
  <2>1. Len(e) = 0 /\ Len(r) = k
    BY <1>1, <1>4, <1>5, <1>7
  <2>2. \A j \in 1..k : r[j] = a[j]
    BY <1>1, <1>5, <2>1
  <2> QED BY <2>1, <2>2 DEF Begins, r, e, k
<1> QED BY <1>6, <1>7

----------------------------------------------------------------------------
(* Replication under one leader: the invariant.                            *)

OnlyLeads(L) == \A n \in Node : state[n] = "leader" => n = L

Running == {"loop", "ready", "waiting"}

RoundsAt(L) ==
    \A id \in Node \cup Command :
        round[id].pc \in Running => round[id].at = L /\ (id \in Node => id = L)

AppendsAbout == {m \in requests \cup {h.req : h \in handlers} : m.type = "append"}

\* The entries of a request are those of the leader's log at their places.
Carried(m, l) == /\ m.prev + Len(m.entries) <= Len(l)
                 /\ \A i \in 1..Len(m.entries) : m.entries[i] = l[m.prev + i]

AppendsFrom(L) == \A m \in AppendsAbout : m.to # L /\ Carried(m, log[L])

LogsBegin(L) == \A n \in Node : Begins(log[n], log[L]) /\ Begins(applied[n], log[L])

\* As long as no node but L leads, rounds run on L only, what is on its way carries
\* pieces of the log of L, and what a node holds or has applied begins that log.
\* It is kept for L because nobody sends to L: its log only grows.  Terms do not
\* appear in it.
OneLeaderInv(L) == OnlyLeads(L) /\ RoundsAt(L) /\ AppendsFrom(L) /\ LogsBegin(L)

LEMMA RoundsStay ==
    ASSUME NEW L \in Node, RoundsAt(L),
           \A id \in Node \cup Command : round'[id].pc \in Running =>
               \/ round[id].pc \in Running /\ round'[id].at = round[id].at
               \/ round'[id].at = L /\ (id \in Node => id = L)
    PROVE  RoundsAt(L)'
  BY DEF RoundsAt

LEMMA AppendsStay ==
    ASSUME NEW L \in Node, AppendsFrom(L), log'[L] = log[L],
           \A m \in requests' : m \in requests \/ m.type # "append",
           \A h \in handlers' : h \in handlers \/ h.req \in AppendsAbout \/ h.req.type # "append"
    PROVE  AppendsFrom(L)'
<1>1. \A m \in AppendsAbout' : m \in AppendsAbout
  BY DEF AppendsAbout
<1> QED BY <1>1 DEF AppendsFrom, Carried

\* An answer changes neither where a round runs nor how far it is.
LEMMA AnswerAppendRounds ==
    ASSUME TypeOK, NEW m \in Request, m.type = "append", NEW t, NEW g, AnswerAppend(m, t, g)
    PROVE  \A id \in Node \cup Command :
               round'[id].pc = round[id].pc /\ round'[id].at = round[id].at
<1> DEFINE a == [from |-> m.to, term |-> t, success |-> g,
                 prev |-> m.prev, sent |-> Len(m.entries)]
           e == round[m.round]
           d == Got(e, m.to, a)
<1>1. m.round \in Node \cup Command
  BY RequestFields
<1>2. round \in [Node \cup Command -> RoundRun]
  BY DEF TypeOK, RoundsOK
<1>3. round' = [round EXCEPT ![m.round] =
                    IF @.pc = "waiting" /\ @.call = m.call /\ m.to \in @.pending THEN d ELSE @]
  BY <1>1, <1>2 DEF AnswerAppend
<1>4. e \in RoundRun
  BY <1>1, <1>2
<1> HIDE DEF a, e
<1>5. d.pc = e.pc /\ d.at = e.at
  BY <1>4 DEF RoundRun, Got
<1> HIDE DEF d
<1> QED BY <1>1, <1>2, <1>3, <1>5 DEF e

LEMMA CommitBegins ==
    ASSUME TypeOK, NEW L \in Node, LogsBegin(L), NEW n \in Node, NEW i \in Nat, i <= Len(log[n]),
           Commit(n, i), UNCHANGED log
    PROVE  LogsBegin(L)'
<1>1. /\ log \in [Node -> Seq(LogEntry)] /\ applied \in [Node -> Seq(LogEntry)]
      /\ applied' = [applied EXCEPT ![n] =
                         applied[n] \o SubSeq(log[n], Len(applied[n]) + 1, i)]
  BY DEF TypeOK, Commit
<1>2. \A x \in Node : log[x] \in Seq(LogEntry) /\ applied[x] \in Seq(LogEntry)
  BY <1>1
<1>3. \A x \in Node : applied'[x] = IF x = n THEN applied[n] \o SubSeq(log[n], Len(applied[n]) + 1, i)
                                    ELSE applied[x]
  BY <1>1
<1>4. Begins(applied[n] \o SubSeq(log[n], Len(applied[n]) + 1, i), log[L])
  <2>1. /\ log[n] \in Seq(LogEntry) /\ log[L] \in Seq(LogEntry) /\ applied[n] \in Seq(LogEntry)
        /\ Begins(log[n], log[L]) /\ Begins(applied[n], log[L])
    BY <1>2 DEF LogsBegin
  <2> QED BY <2>1, BeginsCommit
<1>5. \A x \in Node : Begins(applied'[x], log[L])
  BY <1>3, <1>4 DEF LogsBegin
<1> QED BY <1>5 DEF LogsBegin

LEMMA FinishBegins ==
    ASSUME TypeOK, NEW L \in Node, LogsBegin(L), NEW m \in Request, m.type = "append",
           FinishAppend(m.to, m)
    PROVE  LogsBegin(L)' /\ UNCHANGED log
<1> DEFINE n == m.to
           i == IF m.commit < Len(log[n]) THEN m.commit ELSE Len(log[n])
<1>1. n \in Node /\ m.commit \in Nat /\ log[n] \in Seq(LogEntry)
  BY RequestFields DEF TypeOK
<1>2. i \in Nat /\ i <= Len(log[n])
  BY <1>1
<1>3. UNCHANGED log /\ (Commit(n, i) \/ UNCHANGED <<commitIndex, applied>>)
  BY DEF FinishAppend
<1> HIDE DEF i, n
<1>4. CASE Commit(n, i)
  BY <1>1, <1>2, <1>3, <1>4, CommitBegins
<1>5. CASE UNCHANGED <<commitIndex, applied>>
  BY <1>3, <1>5 DEF LogsBegin
<1> QED BY <1>3, <1>4, <1>5

\* A follower takes over a request, whatever its own log held before, and however
\* long the request was on its way.
LEMMA AcceptBegins ==
    ASSUME TypeOK, NEW L \in Node, OneLeaderInv(L), NEW m \in AppendsAbout, m \in Request,
           NEW others \in SUBSET handlers, AcceptAppend(m.to, m, others)
    PROVE  /\ LogsBegin(L)' /\ log'[L] = log[L] /\ OnlyLeads(L)'
           /\ \A id \in Node \cup Command :
                  round'[id].pc = round[id].pc /\ round'[id].at = round[id].at
           /\ \A h \in handlers' : h \in handlers \/ h.req = m
<1> DEFINE n == m.to
<1>1. m.type = "append" /\ n \in Node /\ n # L /\ Carried(m, log[L])
  BY RequestFields DEF OneLeaderInv, AppendsFrom, AppendsAbout
<1>2. state' = [state EXCEPT ![n] = "follower"]
  BY DEF AcceptAppend
<1>3. OnlyLeads(L)'
  BY <1>1, <1>2 DEF OneLeaderInv, OnlyLeads, TypeOK
<1>4. \A h \in handlers' : h \in handlers \/ h.req = m
  BY AcceptAppendHandlers
<1>5. CASE AnswerAppend(m, currentTerm[n], FALSE) /\ UNCHANGED logVars
  BY <1>1, <1>3, <1>4, <1>5, AnswerAppendRounds DEF OneLeaderInv, LogsBegin, logVars
<1>6. CASE /\ Matches(m, log[n])
           /\ log' = [log EXCEPT ![n] = Stored(log[n], m)]
           /\ UNCHANGED <<commitIndex, applied, round>>
  <2>1. /\ log \in [Node -> Seq(LogEntry)] /\ log[n] \in Seq(LogEntry) /\ log[L] \in Seq(LogEntry)
        /\ m.prev \in Nat /\ m.entries \in Seq(LogEntry)
    BY <1>1, RequestFields DEF TypeOK
  <2>2. Begins(log[n], log[L]) /\ m.prev <= Len(log[n])
    BY <1>1, <1>6 DEF OneLeaderInv, LogsBegin, Matches
  <2>3. Begins(Stored(log[n], m), log[L])
    BY <1>1, <2>1, <2>2, BeginsPiece DEF Stored, Carried
  <2>4. \A x \in Node : log'[x] = IF x = n THEN Stored(log[n], m) ELSE log[x]
    BY <1>6, <2>1
  <2>5. log'[L] = log[L]
    BY <1>1, <2>4
  <2>6. LogsBegin(L)'
    BY <1>6, <2>3, <2>4, <2>5 DEF OneLeaderInv, LogsBegin
  <2> QED BY <1>3, <1>4, <1>6, <2>5, <2>6
<1>7. CASE FinishAppend(n, m)
  <2>1. AnswerAppend(m, currentTerm[n], TRUE)
    BY <1>7 DEF FinishAppend
  <2> QED BY <1>1, <1>3, <1>4, <1>7, <2>1, FinishBegins, AnswerAppendRounds DEF OneLeaderInv
<1> QED BY <1>5, <1>6, <1>7 DEF AcceptAppend

\* A step that leaves the logs and sends nothing of them.
LEMMA QuietStep ==
    ASSUME NEW L \in Node, OneLeaderInv(L), OnlyLeads(L)', UNCHANGED <<log, applied>>,
           \A m \in requests' : m \in requests \/ m.type # "append",
           \A h \in handlers' : h \in handlers \/ h.req \in AppendsAbout \/ h.req.type # "append",
           \A id \in Node \cup Command : round'[id].pc \in Running =>
               \/ round[id].pc \in Running /\ round'[id].at = round[id].at
               \/ round'[id].at = L /\ (id \in Node => id = L)
    PROVE  OneLeaderInv(L)'
<1>1. OnlyLeads(L) /\ RoundsAt(L) /\ AppendsFrom(L) /\ LogsBegin(L)
  BY DEF OneLeaderInv
<1>2. RoundsAt(L)'
  BY <1>1, RoundsStay
<1>3. AppendsFrom(L)'
  <2>1. log'[L] = log[L]
    OBVIOUS
  <2> QED BY <1>1, <2>1, AppendsStay
<1>4. LogsBegin(L)'
  BY <1>1 DEF LogsBegin
<1> QED BY <1>2, <1>3, <1>4 DEF OneLeaderInv

\* Elections touch neither logs nor what carries them.  Who wins one is L.
LEMMA ElectionsUnderOne ==
    ASSUME TypeOK, NEW L \in Node, OneLeaderInv(L), OnlyLeads(L)', NEW n \in Node,
           StartElection(n) \/ AskForVotes(n) \/ CountVotes(n)
    PROVE  OneLeaderInv(L)'
<1>1. UNCHANGED <<log, applied, handlers>>
  BY DEF StartElection, AskForVotes, CountVotes, logVars
<1>2. \A m \in requests' : m \in requests \/ m.type # "append"
  <2>1. \A p \in Peers(n) : VoteRequest(n, p).type # "append"
    BY DEF VoteRequest
  <2>2. CASE AskForVotes(n)
    BY <2>1, <2>2 DEF AskForVotes
  <2>3. CASE StartElection(n) \/ CountVotes(n)
    BY <2>3 DEF StartElection, CountVotes
  <2> QED BY <2>2, <2>3
<1>3. CASE UNCHANGED round
  BY <1>1, <1>2, <1>3, QuietStep
<1>4. CASE CountVotes(n) /\ BecomeLeader(n)
  <2>1. state'[n] = "leader"
    BY <1>4 DEF BecomeLeader, TypeOK
  <2>2. n = L
    BY <2>1 DEF OnlyLeads
  <2>3. /\ round \in [Node \cup Command -> RoundRun]
        /\ round' = [round EXCEPT ![L] = [NoRound(L) EXCEPT !.pc = "loop"]]
    BY <1>4, <2>2 DEF BecomeLeader, TypeOK, RoundsOK
  <2>4. [NoRound(L) EXCEPT !.pc = "loop"].at = L
    BY DEF NoRound
  <2>5. \A id \in Node \cup Command :
            round'[id] = IF id = L THEN [NoRound(L) EXCEPT !.pc = "loop"] ELSE round[id]
    BY <2>3
  <2>6. \A id \in Node \cup Command : round'[id].pc \in Running =>
            \/ round[id].pc \in Running /\ round'[id].at = round[id].at
            \/ round'[id].at = L /\ (id \in Node => id = L)
    BY <2>4, <2>5, CommandAssumption
  <2> QED BY <1>1, <1>2, <2>6, QuietStep
<1> QED BY <1>3, <1>4 DEF StartElection, AskForVotes, CountVotes

\* Nor do the handlers of vote requests.
LEMMA VotesUnderOne ==
    ASSUME TypeOK, NEW L \in Node, OneLeaderInv(L), OnlyLeads(L)',
           \/ \E m \in requests : VoteArrives(m)
           \/ \E h \in handlers : VoteResumes(h)
    PROVE  OneLeaderInv(L)'
<1>1. UNCHANGED <<log, applied, round>>
  BY DEF VoteArrives, VoteResumes, logVars
<1>2. requests' \subseteq requests
  BY DEF VoteArrives, VoteResumes
<1>3. ASSUME NEW h \in handlers' PROVE h \in handlers \/ h.req.type # "append"
  <2>1. ASSUME NEW m \in requests, VoteArrives(m) PROVE h \in handlers \/ (h.req = m /\ m.type = "vote")
    <3>1. m.type = "vote"
      BY <2>1 DEF VoteArrives
    <3>2. \/ handlers' = handlers
          \/ handlers' = handlers \cup {[req |-> m, pc |-> "stepped"]}
          \/ DecideVote(m.to, m, handlers)
      BY <2>1 DEF VoteArrives
    <3> QED BY <3>1, <3>2, DecideVoteHandlers
  <2>2. ASSUME NEW g \in handlers, VoteResumes(g)
        PROVE  h \in handlers \/ (h.req = g.req /\ g.req.type = "vote")
    <3>1. g.req.type = "vote"
      BY <2>2 DEF VoteResumes
    <3>2. handlers' = handlers \ {g} \/ DecideVote(g.req.to, g.req, handlers \ {g})
      BY <2>2 DEF VoteResumes
    <3> QED BY <3>1, <3>2, DecideVoteHandlers
  <2> QED BY <2>1, <2>2
<1> QED BY <1>1, <1>2, <1>3, QuietStep

\* The handlers of append requests: what they store and apply comes from the log
\* of L, in whatever order the requests arrive.
LEMMA AppendsUnderOne ==
    ASSUME TypeOK, NEW L \in Node, OneLeaderInv(L), OnlyLeads(L)',
           \/ \E m \in requests : AppendArrives(m)
           \/ \E h \in handlers : AppendResumes(h)
    PROVE  OneLeaderInv(L)'
<1>1. requests' \subseteq requests
  BY DEF AppendArrives, AppendResumes
<1> DEFINE RoundsSame == \A id \in Node \cup Command :
               round'[id].pc = round[id].pc /\ round'[id].at = round[id].at
<1>2. SUFFICES ASSUME NEW m \in AppendsAbout,
                      LogsBegin(L)', log'[L] = log[L], RoundsSame,
                      \A h \in handlers' : h \in handlers \/ h.req = m
               PROVE  OneLeaderInv(L)'
  <2> HIDE DEF RoundsSame
  <2>1. ASSUME NEW m \in requests, AppendArrives(m)
        PROVE  /\ LogsBegin(L)' /\ log'[L] = log[L] /\ RoundsSame
               /\ \A h \in handlers' : h \in handlers \/ h.req = m
    <3>1. m \in Request /\ m.type = "append" /\ m \in AppendsAbout
      BY <2>1 DEF AppendArrives, TypeOK, AppendsAbout
    <3>2. CASE AnswerAppend(m, currentTerm[m.to], FALSE) /\ UNCHANGED <<nodeVars, logVars, handlers>>
      <4>1. RoundsSame
        BY <3>1, <3>2, AnswerAppendRounds DEF RoundsSame
      <4> QED BY <3>2, <4>1 DEF OneLeaderInv, LogsBegin, logVars
    <3>3. CASE handlers' = handlers \cup {[req |-> m, pc |-> "stepped"]} /\ UNCHANGED <<logVars, round>>
      <4>1. \A h \in handlers' : h \in handlers \/ h.req = m
        BY <3>3
      <4>2. RoundsSame
        BY <3>3 DEF RoundsSame
      <4> QED BY <3>3, <4>1, <4>2 DEF OneLeaderInv, LogsBegin, logVars
    <3>4. CASE AcceptAppend(m.to, m, handlers)
      BY <3>1, <3>4, AcceptBegins DEF RoundsSame
    <3> QED BY <2>1, <3>2, <3>3, <3>4 DEF AppendArrives
  <2>2. ASSUME NEW g \in handlers, AppendResumes(g)
        PROVE  /\ LogsBegin(L)' /\ log'[L] = log[L] /\ RoundsSame
               /\ \A h \in handlers' : h \in handlers \/ h.req = g.req
    <3>1. g.req \in Request /\ g.req.type = "append" /\ g.req \in AppendsAbout
      BY <2>2 DEF AppendResumes, TypeOK, AppendsAbout
    <3>2. CASE AcceptAppend(g.req.to, g.req, handlers \ {g})
      <4>1. handlers \ {g} \in SUBSET handlers
        OBVIOUS
      <4> QED BY <3>1, <3>2, <4>1, AcceptBegins DEF RoundsSame
    <3>3. CASE FinishAppend(g.req.to, g.req) /\ handlers' = handlers \ {g}
      <4>1. AnswerAppend(g.req, currentTerm[g.req.to], TRUE)
        BY <3>3 DEF FinishAppend
      <4>2. RoundsSame
        BY <3>1, <4>1, AnswerAppendRounds DEF RoundsSame
      <4>3. LogsBegin(L)' /\ UNCHANGED log
        BY <3>1, <3>3, FinishBegins DEF OneLeaderInv
      <4> QED BY <3>3, <4>2, <4>3
    <3> QED BY <2>2, <3>2, <3>3 DEF AppendResumes
  <2>3. CASE \E m \in requests : AppendArrives(m)
    <3>1. PICK m \in requests : AppendArrives(m)
      BY <2>3
    <3>2. m \in AppendsAbout
      BY <3>1 DEF AppendArrives, AppendsAbout
    <3> QED BY <2>1, <3>1, <3>2
  <2>4. CASE \E h \in handlers : AppendResumes(h)
    <3>1. PICK g \in handlers : AppendResumes(g)
      BY <2>4
    <3>2. g.req \in AppendsAbout
      BY <3>1 DEF AppendResumes, AppendsAbout
    <3> QED BY <2>2, <3>1, <3>2
  <2> QED BY <2>3, <2>4
<1>3. RoundsAt(L)'
  BY <1>2, RoundsStay DEF OneLeaderInv
<1>4. AppendsFrom(L)'
  <2>1. \A r \in requests' : r \in requests \/ r.type # "append"
    BY <1>1
  <2>2. \A h \in handlers' : h \in handlers \/ h.req \in AppendsAbout \/ h.req.type # "append"
    BY <1>2
  <2> QED BY <1>2, <2>1, <2>2, AppendsStay DEF OneLeaderInv
<1> QED BY <1>2, <1>3, <1>4 DEF OneLeaderInv

\* One round changes: it goes on where it runs, stops, or runs on L.
LEMMA OneRoundMoves ==
    ASSUME TypeOK, NEW L \in Node, RoundsAt(L), NEW id \in Node \cup Command, NEW d,
           round' = [round EXCEPT ![id] = d],
           d.pc \in Running => \/ round[id].pc \in Running /\ d.at = round[id].at
                               \/ d.at = L /\ (id \in Node => id = L)
    PROVE  \A x \in Node \cup Command : round'[x].pc \in Running =>
               \/ round[x].pc \in Running /\ round'[x].at = round[x].at
               \/ round'[x].at = L /\ (x \in Node => x = L)
<1>1. \A x \in Node \cup Command : round'[x] = IF x = id THEN d ELSE round[x]
  BY DEF TypeOK, RoundsOK
<1> QED BY <1>1

\* The steps of rounds that touch neither logs nor requests.
LEMMA RoundsUnderOne ==
    ASSUME TypeOK, NEW L \in Node, OneLeaderInv(L), OnlyLeads(L)',
           \/ \E n \in Node : Heartbeat(n) \/ HeartbeatDone(n)
           \/ \E id \in Node \cup Command : RoundStepsDown(id)
           \/ TakeReplies \/ CallFails
    PROVE  OneLeaderInv(L)'
<1>1. UNCHANGED <<log, applied, requests, handlers>>
  BY DEF Heartbeat, HeartbeatDone, RoundStepsDown, TakeReplies, TakeReply, CallFails, logVars
<1>2. RoundsAt(L) /\ \A x \in Node \cup Command : round[x] \in RoundRun
  BY DEF OneLeaderInv, TypeOK, RoundsOK
<1>3. SUFFICES ASSUME round' # round
               PROVE  \A x \in Node \cup Command : round'[x].pc \in Running =>
                          \/ round[x].pc \in Running /\ round'[x].at = round[x].at
                          \/ round'[x].at = L /\ (x \in Node => x = L)
  BY <1>1, QuietStep
<1>4. ASSUME NEW n \in Node, Heartbeat(n)
      PROVE  \E d : /\ round' = [round EXCEPT ![n] = d]
                    /\ d.pc \in Running => round[n].pc \in Running /\ d.at = round[n].at
  <2> DEFINE d == [round[n] EXCEPT !.pc = "ready", !.call = Min(FreeCalls(n))]
  <2>1. d.at = round[n].at
    BY <1>2 DEF RoundRun
  <2>2. NoRound(n).pc \notin Running
    BY DEF NoRound, Running
  <2>3. round[n].pc \in Running /\ (\/ round' = [round EXCEPT ![n] = d]
                                    \/ round' = [round EXCEPT ![n] = NoRound(n)])
    BY <1>4 DEF Heartbeat, Running
  <2> HIDE DEF d
  <2> QED BY <2>1, <2>2, <2>3
<1>5. ASSUME NEW n \in Node, HeartbeatDone(n)
      PROVE  \E d : round' = [round EXCEPT ![n] = d] /\ d.at = L /\ n = L
  <2> DEFINE d == [NoRound(n) EXCEPT !.pc = "loop"]
  <2>1. round' = [round EXCEPT ![n] = d] /\ round[n].pc \in Running
    BY <1>5 DEF HeartbeatDone, RoundDone, Running
  <2>2. n = L
    BY <1>2, <2>1 DEF RoundsAt
  <2>3. d.at = n
    BY DEF NoRound
  <2> HIDE DEF d
  <2> QED BY <2>1, <2>2, <2>3
<1>6. ASSUME NEW id \in Node \cup Command, RoundStepsDown(id)
      PROVE  \E d : /\ round' = [round EXCEPT ![id] = d]
                    /\ d.pc = round[id].pc /\ d.at = round[id].at
  <2>1. PICK t : round' = [round EXCEPT ![id].answers = @ \ {t}]
    BY <1>6 DEF RoundStepsDown
  <2> DEFINE d == [round[id] EXCEPT !.answers = round[id].answers \ {t}]
  <2>2. d.pc = round[id].pc /\ d.at = round[id].at
    BY <1>2 DEF RoundRun
  <2>3. round' = [round EXCEPT ![id] = d]
    BY <2>1
  <2> HIDE DEF d
  <2> QED BY <2>2, <2>3
<1>7. ASSUME NEW id \in Node \cup Command, NEW r, TakeReply(id, r)
      PROVE  \E d : /\ round' = [round EXCEPT ![id] = d]
                    /\ d.pc = round[id].pc /\ d.at = round[id].at
  <2> DEFINE d == Looked(round[id], r)
  <2>1. d.pc = round[id].pc /\ d.at = round[id].at
    BY <1>2 DEF RoundRun, Looked
  <2>2. round' = [round EXCEPT ![id] = d]
    BY <1>7 DEF TakeReply
  <2> HIDE DEF d
  <2> QED BY <2>1, <2>2
<1>8. ASSUME CallFails
      PROVE  \E id \in Node \cup Command : \E d :
                 /\ round' = [round EXCEPT ![id] = d]
                 /\ d.pc = round[id].pc /\ d.at = round[id].at
  <2>1. PICK id \in Node \cup Command : \E p : round' = [round EXCEPT ![id].pending = @ \ {p}]
    BY <1>3, <1>8 DEF CallFails
  <2>2. PICK p : round' = [round EXCEPT ![id].pending = @ \ {p}]
    BY <2>1
  <2> DEFINE d == [round[id] EXCEPT !.pending = round[id].pending \ {p}]
  <2>3. d.pc = round[id].pc /\ d.at = round[id].at
    BY <1>2 DEF RoundRun
  <2>4. round' = [round EXCEPT ![id] = d]
    BY <2>2
  <2> HIDE DEF d
  <2> QED BY <2>3, <2>4
<1>9. PICK id \in Node \cup Command : \E d :
          /\ round' = [round EXCEPT ![id] = d]
          /\ d.pc \in Running => \/ round[id].pc \in Running /\ d.at = round[id].at
                                 \/ d.at = L /\ (id \in Node => id = L)
  <2>1. CASE \E n \in Node : Heartbeat(n)
    BY <1>4, <2>1
  <2>2. CASE \E n \in Node : HeartbeatDone(n)
    BY <1>5, <2>2
  <2>3. CASE \E x \in Node \cup Command : RoundStepsDown(x)
    BY <1>6, <2>3
  <2>4. CASE TakeReplies
    BY <1>7, <2>4 DEF TakeReplies
  <2>5. CASE CallFails
    BY <1>8, <2>5
  <2> QED BY <2>1, <2>2, <2>3, <2>4, <2>5
<1> QED BY <1>2, <1>9, OneRoundMoves

\* What a round of L sends is a piece of the log of L.
LEMMA SentIsCarried ==
    ASSUME TypeOK, NEW L \in Node, NEW id \in Node \cup Command, NEW p \in Peers(L),
           nextIndex[L][p] - 1 <= Len(log[L])
    PROVE  /\ AppendRequest(L, p, id).type = "append"
           /\ AppendRequest(L, p, id).to # L
           /\ Carried(AppendRequest(L, p, id), log[L])
<1> DEFINE prev == nextIndex[L][p] - 1
           e == SubSeq(log[L], prev + 1, Len(log[L]))
           m == AppendRequest(L, p, id)
<1>1. m.type = "append" /\ m.to = p /\ p # L /\ m.prev = prev /\ m.entries = e
  BY DEF AppendRequest, Peers
<1> HIDE DEF m
<1>2. log[L] \in Seq(LogEntry) /\ prev \in Nat /\ prev <= Len(log[L]) /\ Len(log[L]) \in Nat
  BY DEF TypeOK
<1> DEFINE k == Len(log[L])
<1>3. /\ Len(e) = (IF prev + 1 <= k THEN k - (prev + 1) + 1 ELSE 0)
      /\ \A i \in 1..(k - (prev + 1) + 1) : e[i] = log[L][prev + 1 + i - 1]
  <2> HIDE DEF prev
  <2>1. \A i \in (prev + 1)..k : log[L][i] \in LogEntry
    BY <1>2
  <2>2. prev + 1 \in Int /\ k \in Int
    BY <1>2
  <2> HIDE DEF k
  <2> QED BY <2>1, <2>2, SubSeqProperties DEF k
<1> HIDE DEF prev, e
<1>4. prev + Len(e) = k
  BY <1>2, <1>3
<1>5. \A i \in 1..Len(e) : e[i] = log[L][prev + i]
  <2>1. \A i \in 1..Len(e) : i \in 1..(k - (prev + 1) + 1) /\ prev + 1 + i - 1 = prev + i
    BY <1>2, <1>4
  <2> QED BY <1>3, <2>1
<1> QED BY <1>1, <1>4, <1>5 DEF Carried, m

LEMMA SendUnderOne ==
    ASSUME TypeOK, NEW L \in Node, OneLeaderInv(L), OnlyLeads(L)',
           NEW id \in Node \cup Command, SendAppends(id)
    PROVE  OneLeaderInv(L)'
<1> DEFINE targets == {p \in Peers(L) : nextIndex[L][p] - 1 <= Len(log[L])}
           d == [round[id] EXCEPT !.pc = "waiting", !.pending = targets]
<1>1. /\ OnlyLeads(L) /\ RoundsAt(L) /\ AppendsFrom(L) /\ LogsBegin(L)
      /\ round[id] \in RoundRun /\ round[id].pc \in Running
  BY DEF OneLeaderInv, TypeOK, RoundsOK, SendAppends, Running
<1>2. round[id].at = L
  BY <1>1 DEF RoundsAt
<1>3. /\ requests' = requests \cup {AppendRequest(L, p, id) : p \in targets}
      /\ round' = [round EXCEPT ![id] = d]
      /\ UNCHANGED <<log, applied, handlers>>
  BY <1>2 DEF SendAppends, logVars
<1>4. d.at = L
  BY <1>1, <1>2 DEF RoundRun
<1> HIDE DEF d
<1>5. RoundsAt(L)'
  <2>1. \A x \in Node \cup Command : round'[x].pc \in Running =>
            \/ round[x].pc \in Running /\ round'[x].at = round[x].at
            \/ round'[x].at = L /\ (x \in Node => x = L)
    BY <1>1, <1>2, <1>3, <1>4, OneRoundMoves
  <2> QED BY <1>1, <2>1, RoundsStay
<1>6. AppendsFrom(L)'
  <2>1. ASSUME NEW m \in requests' \cup {h.req : h \in handlers'}, m.type = "append"
        PROVE  m.to # L /\ Carried(m, log[L])
    <3>1. CASE m \in AppendsAbout
      BY <1>1, <3>1 DEF AppendsFrom
    <3>2. CASE \E p \in targets : m = AppendRequest(L, p, id)
      BY <3>2, SentIsCarried
    <3> QED BY <1>3, <2>1, <3>1, <3>2 DEF AppendsAbout
  <2>2. \A m \in AppendsAbout' : m.to # L /\ Carried(m, log[L])
    BY <2>1 DEF AppendsAbout
  <2>3. log'[L] = log[L]
    BY <1>3
  <2> QED BY <2>2, <2>3 DEF AppendsFrom, Carried
<1>7. LogsBegin(L)'
  BY <1>1, <1>3 DEF LogsBegin
<1> QED BY <1>5, <1>6, <1>7 DEF OneLeaderInv

\* L appends a command: what is on its way still stands in its log.
LEMMA ReplicateUnderOne ==
    ASSUME TypeOK, NEW L \in Node, OneLeaderInv(L), OnlyLeads(L)',
           NEW c \in Command, NEW n \in Node, Replicate(c, n)
    PROVE  OneLeaderInv(L)'
<1>1. OnlyLeads(L) /\ RoundsAt(L) /\ AppendsFrom(L) /\ LogsBegin(L)
  BY DEF OneLeaderInv
<1>2. round[c] \in RoundRun /\ UNCHANGED <<applied, requests, handlers>>
  BY DEF TypeOK, RoundsOK, Replicate
<1>3. CASE round' = [round EXCEPT ![c].pc = "false"] /\ UNCHANGED log
  <2> DEFINE d == [round[c] EXCEPT !.pc = "false"]
  <2>1. round' = [round EXCEPT ![c] = d]
    BY <1>3
  <2>2. d.pc \notin Running
    BY <1>2 DEF RoundRun, Running
  <2> HIDE DEF d
  <2>3. \A x \in Node \cup Command : round'[x].pc \in Running =>
            \/ round[x].pc \in Running /\ round'[x].at = round[x].at
            \/ round'[x].at = L /\ (x \in Node => x = L)
    BY <1>1, <2>1, <2>2, OneRoundMoves
  <2> QED BY <1>2, <1>3, <2>3, QuietStep
<1>4. CASE /\ state[n] = "leader"
           /\ log' = [log EXCEPT ![n] = Append(@, [term |-> currentTerm[n], command |-> c])]
           /\ round' = [round EXCEPT ![c] = [NoRound(n) EXCEPT !.pc = "ready"]]
  <2> DEFINE e == [term |-> currentTerm[n], command |-> c]
             d == [NoRound(n) EXCEPT !.pc = "ready"]
             l == Append(log[L], e)
  <2>1. n = L /\ d.at = n
    BY <1>1, <1>4 DEF OnlyLeads, NoRound
  <2>2. e \in LogEntry /\ log \in [Node -> Seq(LogEntry)] /\ log[L] \in Seq(LogEntry)
    BY DEF TypeOK, LogEntry
  <2>3. log' = [log EXCEPT ![L] = l] /\ round' = [round EXCEPT ![c] = d]
    BY <1>4, <2>1
  <2> HIDE DEF d, e
  <2>4. RoundsAt(L)'
    <3>1. c \notin Node
      BY CommandAssumption
    <3>2. \A x \in Node \cup Command : round'[x].pc \in Running =>
              \/ round[x].pc \in Running /\ round'[x].at = round[x].at
              \/ round'[x].at = L /\ (x \in Node => x = L)
      BY <1>1, <2>1, <2>3, <3>1, OneRoundMoves
    <3> QED BY <1>1, <3>2, RoundsStay
  <2>5. Len(l) = Len(log[L]) + 1 /\ \A i \in 1..Len(log[L]) : l[i] = log[L][i]
    BY <2>2
  <2>6. \A x \in Node : log'[x] = IF x = L THEN l ELSE log[x]
    BY <2>2, <2>3
  <2> HIDE DEF l
  <2>7. AppendsFrom(L)'
    <3>1. ASSUME NEW m \in AppendsAbout, m \in Request PROVE m.to # L /\ Carried(m, l)
      <4>1. /\ m.to # L /\ m.prev + Len(m.entries) <= Len(log[L])
            /\ \A i \in 1..Len(m.entries) : m.entries[i] = log[L][m.prev + i]
        BY <1>1 DEF AppendsFrom, Carried
      <4>2. m.prev \in Nat /\ Len(m.entries) \in Nat /\ Len(log[L]) \in Nat
        <5>1. m.type = "append"
          BY DEF AppendsAbout
        <5>2. m.prev \in Nat /\ m.entries \in Seq(LogEntry)
          BY <3>1, <5>1, RequestFields
        <5> QED BY <2>2, <5>2
      <4>3. \A i \in 1..Len(m.entries) : m.prev + i \in 1..Len(log[L])
        BY <4>1, <4>2
      <4> QED BY <2>5, <4>1, <4>2, <4>3 DEF Carried
    <3>2. AppendsAbout' = AppendsAbout
      BY <1>2 DEF AppendsAbout
    <3>3. \A m \in AppendsAbout : m \in Request
      BY DEF AppendsAbout, TypeOK
    <3>4. \A m \in AppendsAbout' : m.to # L /\ Carried(m, l)
      BY <3>1, <3>2, <3>3
    <3> QED BY <2>6, <3>4 DEF AppendsFrom, Carried
  <2>8. ASSUME NEW x \in Node PROVE Begins(log'[x], l) /\ Begins(applied[x], l)
    <3>1. log[x] \in Seq(LogEntry) /\ applied[x] \in Seq(LogEntry)
      BY DEF TypeOK
    <3>2. Begins(log[x], log[L]) /\ Begins(applied[x], log[L])
      BY <1>1 DEF LogsBegin
    <3> QED BY <2>2, <2>6, <3>1, <3>2, BeginsAppend DEF l
  <2>9. LogsBegin(L)'
    BY <1>2, <2>6, <2>8 DEF LogsBegin
  <2> QED BY <2>4, <2>7, <2>9 DEF OneLeaderInv
<1> QED BY <1>3, <1>4 DEF Replicate

\* L commits what its log holds, and nothing beyond its end.
LEMMA ReplicateDoneUnderOne ==
    ASSUME TypeOK, NEW L \in Node, OneLeaderInv(L), OnlyLeads(L)',
           NEW c \in Command, ReplicateDone(c)
    PROVE  OneLeaderInv(L)'
<1>1. OnlyLeads(L) /\ RoundsAt(L) /\ AppendsFrom(L) /\ LogsBegin(L)
  BY DEF OneLeaderInv
<1>2. round[c].at = L /\ UNCHANGED <<log, requests, handlers>>
  BY <1>1 DEF ReplicateDone, RoundDone, RoundsAt, Running
<1> DEFINE i == QuorumIndex(L)
           result == IF i <= commitIndex[L] THEN "false"
                     ELSE IF i > Len(log[L]) THEN "error"
                     ELSE IF log[L][i].term = currentTerm[L] THEN "true" ELSE "false"
           d == [NoRound(L) EXCEPT !.pc = result]
<1>3. /\ IF result = "true" THEN Commit(L, i) ELSE UNCHANGED <<commitIndex, applied>>
      /\ round' = [round EXCEPT ![c] = d]
  BY <1>2 DEF ReplicateDone
<1>4. i \in Nat /\ Len(log[L]) \in Nat
  <2>1. i \in Nat
    BY QuorumIndexType
  <2>2. log[L] \in Seq(LogEntry)
    BY DEF TypeOK
  <2> QED BY <2>1, <2>2
<1>5. result = "true" => i <= Len(log[L])
  BY <1>4
<1>6. result \notin Running
  BY DEF Running
<1> HIDE DEF i, result
<1>7. d.pc \notin Running
  BY <1>6 DEF NoRound
<1> HIDE DEF d
<1>8. RoundsAt(L)'
  <2>1. \A x \in Node \cup Command : round'[x].pc \in Running =>
            \/ round[x].pc \in Running /\ round'[x].at = round[x].at
            \/ round'[x].at = L /\ (x \in Node => x = L)
    BY <1>1, <1>3, <1>7, OneRoundMoves
  <2> QED BY <1>1, <2>1, RoundsStay
<1>9. AppendsFrom(L)'
  <2>1. log'[L] = log[L]
    BY <1>2
  <2> QED BY <1>1, <1>2, <2>1, AppendsStay
<1>10. LogsBegin(L)'
  <2>1. CASE result = "true"
    BY <1>1, <1>2, <1>3, <1>4, <1>5, <2>1, CommitBegins
  <2>2. CASE result # "true"
    BY <1>1, <1>2, <1>3, <2>2 DEF LogsBegin
  <2> QED BY <2>1, <2>2
<1> QED BY <1>8, <1>9, <1>10 DEF OneLeaderInv

\* Nothing is on its way, and all logs are empty.
LEMMA InitUnderOne ==
    ASSUME Init, NEW L \in Node PROVE OneLeaderInv(L)
<1>1. OnlyLeads(L) /\ AppendsFrom(L)
  BY DEF Init, OnlyLeads, AppendsFrom, AppendsAbout
<1>2. RoundsAt(L)
  BY DEF Init, RoundsAt, Running, NoRound
<1>3. \A n \in Node : log[n] = << >> /\ applied[n] = << >>
  BY DEF Init
<1>4. LogsBegin(L)
  BY <1>3 DEF LogsBegin, Begins
<1> QED BY <1>1, <1>2, <1>4 DEF OneLeaderInv

\* Every step after which nobody else leads keeps the invariant.
LEMMA NextUnderOne ==
    ASSUME TypeOK, NEW L \in Node, OneLeaderInv(L), OnlyLeads(L)', [Next]_vars
    PROVE  OneLeaderInv(L)'
<1>1. CASE UNCHANGED vars
  <2>1. UNCHANGED <<log, applied, requests, handlers, round>>
    BY <1>1 DEF vars, logVars
  <2> QED BY <2>1, QuietStep
<1>2. CASE \E n \in Node : StartElection(n) \/ AskForVotes(n) \/ CountVotes(n)
  BY <1>2, ElectionsUnderOne
<1>3. CASE \E n \in Node : Heartbeat(n) \/ HeartbeatDone(n)
  BY <1>3, RoundsUnderOne
<1>4. CASE \E c \in Command : (\E n \in Node : Replicate(c, n)) \/ ReplicateDone(c)
  BY <1>4, ReplicateUnderOne, ReplicateDoneUnderOne
<1>5. CASE \E id \in Node \cup Command : SendAppends(id)
  BY <1>5, SendUnderOne
<1>6. CASE \E id \in Node \cup Command : RoundStepsDown(id)
  BY <1>6, RoundsUnderOne
<1>7. CASE Receive
  BY <1>7, VotesUnderOne, AppendsUnderOne DEF Receive
<1>8. CASE Resume
  BY <1>8, VotesUnderOne, AppendsUnderOne DEF Resume
<1>9. CASE TakeReplies \/ CallFails
  BY <1>9, RoundsUnderOne
<1> QED BY <1>1, <1>2, <1>3, <1>4, <1>5, <1>6, <1>7, <1>8, <1>9 DEF Next

\* What the invariant says of the logs.
LEMMA OneLeaderImplies ==
    ASSUME TypeOK, NEW L \in Node, OneLeaderInv(L)
    PROVE  Agreement /\ FollowersHoldPrefix
<1>1. \A n \in Node : /\ log[n] \in Seq(LogEntry) /\ applied[n] \in Seq(LogEntry)
                      /\ Begins(log[n], log[L]) /\ Begins(applied[n], log[L])
  BY DEF TypeOK, OneLeaderInv, LogsBegin
<1>2. Agreement
  BY <1>1, BeginningsAgree DEF Agreement
<1>3. ASSUME NEW a \in Node, NEW b \in Node, state[a] = "leader"
      PROVE  IsPrefix(log[b], log[a])
  <2>1. a = L
    BY <1>3 DEF OneLeaderInv, OnlyLeads
  <2> QED BY <1>1, <2>1, BeginsIsPrefix
<1> QED BY <1>2, <1>3 DEF FollowersHoldPrefix

\* As long as one node alone is ever leader, in however many terms, all nodes apply
\* the same entries in the same order and a follower holds a prefix of the leader's
\* log: late, lost and overtaking requests and the interleaved handlers of
\* _handle_append_entries do no harm.  What goes wrong in this code needs two leaders.
THEOREM OneLeaderAgrees ==
    ASSUME NEW L \in Node
    PROVE  Spec /\ []OnlyLeads(L) => [](Agreement /\ FollowersHoldPrefix)
<1>1. Init => OneLeaderInv(L)
  BY InitUnderOne
<1>2. TypeOK /\ OneLeaderInv(L) /\ OnlyLeads(L)' /\ [Next]_vars => OneLeaderInv(L)'
  BY NextUnderOne
<1>3. TypeOK /\ OneLeaderInv(L) => Agreement /\ FollowersHoldPrefix
  BY OneLeaderImplies
<1> QED BY <1>1, <1>2, <1>3, TypeCorrect, PTL DEF Spec

----------------------------------------------------------------------------
(* Replication in the first term.                                          *)

\* In one term every leader has won the election of that term, and every election
\* that runs is the one of that term.
WinnersLead ==
    /\ \A n \in Node : /\ state[n] = "leader" => <<1, n>> \in won
                       /\ election[n].pc # "idle" => election[n].own = 1 /\ currentTerm[n] = 1
                       /\ election[n].pc = "asking" => election[n].term = 1
    /\ \A w \in won : w[1] = 1

\* So whoever won is the one leader there will be; before that anybody may be.
OneTermInv ==
    /\ WinnersLead
    /\ \A L \in Node : (\A w \in won : w[2] = L) => OneLeaderInv(L)

\* How far an election is changes with its own three steps only; so does who has won,
\* and nothing else makes a leader.
ElectionsSame ==
    /\ \A n \in Node : /\ election'[n].pc = election[n].pc
                       /\ election'[n].own = election[n].own
                       /\ election'[n].term = election[n].term
                       /\ state'[n] = "leader" => state[n] = "leader"
    /\ won' = won

\* An answer changes who was heard of.
LEMMA AnswerVoteElection ==
    ASSUME TypeOK, NEW m \in Request, NEW t, NEW g, AnswerVote(m, t, g)
    PROVE  \A n \in Node : /\ election'[n].pc = election[n].pc
                           /\ election'[n].own = election[n].own
                           /\ election'[n].term = election[n].term
<1> DEFINE a == [from |-> m.to, term |-> t, granted |-> g]
           e == election[m.from]
           d == Heard(e, m.to, a)
<1>1. m.from \in Node /\ election \in [Node -> ElectionRun] /\ e \in ElectionRun
  BY RequestFields DEF TypeOK
<1>2. d.pc = e.pc /\ d.own = e.own /\ d.term = e.term
  <2> HIDE DEF a, e
  <2> QED BY <1>1 DEF Heard, ElectionRun
<1>3. election' = [election EXCEPT ![m.from] = d] \/ election' = election
  <2>1. election' = [election EXCEPT ![m.from] =
                         IF e.pc = "asking" /\ e.term = m.term /\ m.to \in e.pending THEN d ELSE e]
    BY <1>1 DEF AnswerVote
  <2> HIDE DEF d
  <2> QED BY <1>1, <2>1
<1> HIDE DEF d
<1> QED BY <1>1, <1>2, <1>3

\* Stepping down makes no leader.
LEMMA StepDownLeads ==
    ASSUME TypeOK, NEW n \in Node, NEW t, StepDown(n, t)
    PROVE  \A x \in Node : state'[x] = "leader" => state[x] = "leader"
  BY DEF TypeOK, StepDown

\* Every step that is none of _start_election.
LEMMA ElectionMoves ==
    ASSUME TypeOK, [Next]_vars
    PROVE  \/ ElectionsSame
           \/ \E n \in Node : StartElection(n) \/ AskForVotes(n) \/ CountVotes(n)
<1>1. CASE UNCHANGED <<election, state, won>>
  BY <1>1 DEF ElectionsSame
<1>2. ASSUME NEW m \in requests, VoteArrives(m) PROVE ElectionsSame
  <2>1. m \in Request /\ m.to \in Node /\ UNCHANGED won
    BY <1>2, RequestFields DEF TypeOK, VoteArrives
  <2>2. CASE AnswerVote(m, currentTerm[m.to], FALSE) /\ UNCHANGED state
    BY <2>1, <2>2, AnswerVoteElection DEF ElectionsSame
  <2>3. CASE StepDown(m.to, m.term) /\ UNCHANGED election
    BY <2>1, <2>3, StepDownLeads DEF ElectionsSame
  <2>4. CASE UNCHANGED <<election, state>>
    BY <2>1, <2>4 DEF ElectionsSame
  <2> QED BY <1>2, <2>2, <2>3, <2>4 DEF VoteArrives, DecideVote, nodeVars
<1>3. ASSUME NEW h \in handlers, VoteResumes(h) PROVE ElectionsSame
  <2>1. h.req \in Request /\ UNCHANGED <<state, won>>
    BY <1>3 DEF TypeOK, VoteResumes
  <2>2. CASE \E g \in BOOLEAN : AnswerVote(h.req, currentTerm[h.req.to], g)
    BY <2>1, <2>2, AnswerVoteElection DEF ElectionsSame
  <2>3. CASE UNCHANGED election
    BY <2>1, <2>3 DEF ElectionsSame
  <2> QED BY <1>3, <2>2, <2>3 DEF VoteResumes, DecideVote
<1>4. ASSUME NEW m \in requests, AppendArrives(m) PROVE ElectionsSame
  <2>1. m \in Request /\ m.to \in Node /\ UNCHANGED <<election, won>>
    BY <1>4, RequestFields DEF TypeOK, AppendArrives, history
  <2>2. CASE UNCHANGED state
    BY <2>1, <2>2 DEF ElectionsSame
  <2>3. CASE StepDown(m.to, m.term)
    BY <2>1, <2>3, StepDownLeads DEF ElectionsSame
  <2>4. CASE state' = [state EXCEPT ![m.to] = "follower"]
    BY <2>1, <2>4 DEF ElectionsSame, TypeOK
  <2> QED BY <1>4, <2>2, <2>3, <2>4 DEF AppendArrives, AcceptAppend, nodeVars
<1>5. ASSUME NEW h \in handlers, AppendResumes(h) PROVE ElectionsSame
  <2>1. h.req \in Request /\ h.req.to \in Node /\ UNCHANGED <<election, won>>
    BY <1>5, RequestFields DEF TypeOK, AppendResumes, history
  <2>2. CASE UNCHANGED state
    BY <2>1, <2>2 DEF ElectionsSame
  <2>3. CASE state' = [state EXCEPT ![h.req.to] = "follower"]
    BY <2>1, <2>3 DEF ElectionsSame, TypeOK
  <2> QED BY <1>5, <2>2, <2>3 DEF AppendResumes, AcceptAppend
<1>6. ASSUME NEW id \in Node \cup Command, RoundStepsDown(id) PROVE ElectionsSame
  <2>1. round[id].at \in Node /\ UNCHANGED <<election, won>>
    BY <1>6 DEF RoundStepsDown, TypeOK, RoundsOK, history
  <2>2. PICK t : StepDown(round[id].at, t)
    BY <1>6 DEF RoundStepsDown
  <2> QED BY <2>1, <2>2, StepDownLeads DEF ElectionsSame
<1>7. CASE CallFails
  <2>1. UNCHANGED <<state, won>>
    BY <1>7 DEF CallFails, nodeVars, history
  <2>2. CASE UNCHANGED election
    BY <2>1, <2>2 DEF ElectionsSame
  <2>3. ASSUME NEW n \in Node, NEW S, election' = [election EXCEPT ![n].pending = S]
        PROVE  ElectionsSame
    <3>1. election \in [Node -> ElectionRun]
      BY DEF TypeOK
    <3>2. \A x \in Node : /\ election'[x].pc = election[x].pc
                          /\ election'[x].own = election[x].own
                          /\ election'[x].term = election[x].term
      BY <2>3, <3>1 DEF ElectionRun
    <3> QED BY <2>1, <3>2 DEF ElectionsSame
  <2> QED BY <1>7, <2>2, <2>3 DEF CallFails
<1>8. ASSUME NEW n \in Node, Heartbeat(n) \/ HeartbeatDone(n) PROVE UNCHANGED <<election, state, won>>
  BY <1>8 DEF Heartbeat, HeartbeatDone, nodeVars, history
<1>9. ASSUME NEW c \in Command, (\E n \in Node : Replicate(c, n)) \/ ReplicateDone(c)
      PROVE  UNCHANGED <<election, state, won>>
  BY <1>9 DEF Replicate, ReplicateDone, nodeVars, history
<1>10. ASSUME NEW id \in Node \cup Command, SendAppends(id) PROVE UNCHANGED <<election, state, won>>
  BY <1>10 DEF SendAppends, nodeVars, history
<1>11. TakeReplies \/ UNCHANGED vars => UNCHANGED <<election, state, won>>
  BY DEF TakeReplies, TakeReply, vars, nodeVars, history
<1> QED BY <1>1, <1>2, <1>3, <1>4, <1>5, <1>6, <1>7, <1>8, <1>9, <1>10, <1>11
        DEF Next, Receive, Resume

\* The three steps of _start_election, when there is one term to start.
LEMMA OneTermElections ==
    ASSUME MaxTerm = 1, TypeOK, TypeOK', KeepsVote, WinnersLead, NEW n \in Node,
           StartElection(n) \/ AskForVotes(n) \/ CountVotes(n)
    PROVE  WinnersLead' /\ won \subseteq won'
<1>1. \A x \in Node : /\ currentTerm[x] \in {0, 1} /\ currentTerm'[x] \in {0, 1}
                      /\ currentTerm[x] = 1 => currentTerm'[x] = 1
  <2>1. Term = {0, 1}
    BY DEF Term
  <2> QED BY <2>1 DEF TypeOK, KeepsVote
<1>2. /\ election \in [Node -> ElectionRun] /\ state \in [Node -> {"follower", "candidate", "leader"}]
      /\ currentTerm \in [Node -> Term] /\ election[n] \in ElectionRun
  BY DEF TypeOK
<1> DEFINE Fine(x) == /\ state'[x] = "leader" => <<1, x>> \in won'
                      /\ election'[x].pc # "idle" => election'[x].own = 1 /\ currentTerm'[x] = 1
                      /\ election'[x].pc = "asking" => election'[x].term = 1
<1>3. ASSUME NEW x \in Node \ {n}, won \subseteq won',
             election'[x] = election[x], state'[x] = state[x]
      PROVE  Fine(x)
  BY <1>1, <1>3 DEF WinnersLead
<1>4. CASE StartElection(n)
  <2> DEFINE d == [NoElection EXCEPT !.pc = "persist", !.own = currentTerm[n] + 1]
  <2>1. /\ currentTerm[n] = 0 /\ UNCHANGED won
        /\ currentTerm' = [currentTerm EXCEPT ![n] = currentTerm[n] + 1]
        /\ state' = [state EXCEPT ![n] = "candidate"] /\ election' = [election EXCEPT ![n] = d]
    BY <1>1, <1>4 DEF StartElection
  <2>2. d.pc = "persist" /\ d.own = 1
    BY <2>1 DEF NoElection
  <2> HIDE DEF d
  <2>3. Fine(n)
    BY <1>2, <2>1, <2>2
  <2>4. \A x \in Node \ {n} : election'[x] = election[x] /\ state'[x] = state[x]
    BY <1>2, <2>1
  <2>5. \A x \in Node : Fine(x)
    BY <1>3, <2>1, <2>3, <2>4
  <2> QED BY <2>1, <2>5 DEF WinnersLead
<1>5. CASE AskForVotes(n)
  <2> DEFINE d == [election[n] EXCEPT !.pc = "asking", !.term = currentTerm[n], !.pending = Peers(n)]
  <2>1. /\ election[n].pc = "persist" /\ UNCHANGED <<won, state>>
        /\ election' = [election EXCEPT ![n] = d]
    BY <1>5 DEF AskForVotes, nodeVars, history
  <2>2. election[n].own = 1 /\ currentTerm[n] = 1
    BY <2>1 DEF WinnersLead
  <2>3. d.pc = "asking" /\ d.own = 1 /\ d.term = 1
    BY <1>2, <2>2 DEF ElectionRun
  <2> HIDE DEF d
  <2>4. Fine(n)
    BY <1>1, <1>2, <2>1, <2>2, <2>3 DEF WinnersLead
  <2>5. \A x \in Node \ {n} : election'[x] = election[x] /\ state'[x] = state[x]
    BY <1>2, <2>1
  <2>6. \A x \in Node : Fine(x)
    BY <1>3, <2>1, <2>4, <2>5
  <2> QED BY <2>1, <2>6 DEF WinnersLead
<1>6. CASE CountVotes(n)
  <2>1. election' = [election EXCEPT ![n] = NoElection] /\ election[n].pc = "asking"
    BY <1>6 DEF CountVotes
  <2>2. election[n].own = 1 /\ currentTerm[n] = 1 /\ election[n].term = 1
    BY <2>1 DEF WinnersLead
  <2>3. election'[n].pc = "idle" /\ \A x \in Node \ {n} : election'[x] = election[x]
    BY <1>2, <2>1 DEF NoElection
  <2>4. SUFFICES /\ won \subseteq won' /\ \A w \in won' : w[1] = 1
                 /\ \A x \in Node \ {n} : state'[x] = state[x]
                 /\ state'[n] = "leader" => <<1, n>> \in won'
    <3>1. \A x \in Node \ {n} : Fine(x)
      BY <1>3, <2>3, <2>4
    <3>2. Fine(n)
      BY <2>3, <2>4
    <3>3. \A x \in Node : Fine(x)
      BY <3>1, <3>2
    <3> QED BY <2>4, <3>3 DEF WinnersLead
  <2>5. CASE BecomeLeader(n)
    <3>1. won' = won \cup {<<1, n>>} /\ state' = [state EXCEPT ![n] = "leader"]
      BY <2>2, <2>5 DEF BecomeLeader
    <3> QED BY <1>2, <3>1 DEF WinnersLead
  <2>6. CASE (\E r \in election[n].answers : StepDown(n, r.term)) /\ UNCHANGED won
    <3>1. state' = [state EXCEPT ![n] = "follower"]
      BY <2>6 DEF StepDown
    <3> QED BY <1>2, <2>6, <3>1 DEF WinnersLead
  <2>7. CASE UNCHANGED <<state, won>>
    BY <2>7 DEF WinnersLead
  <2> QED BY <1>6, <2>5, <2>6, <2>7 DEF CountVotes, nodeVars
<1> QED BY <1>4, <1>5, <1>6

LEMMA OneTermWinners ==
    ASSUME MaxTerm = 1, TypeOK, TypeOK', WinnersLead, [Next]_vars
    PROVE  WinnersLead' /\ won \subseteq won'
<1>1. KeepsVote
  BY VotingSteps
<1>2. CASE ElectionsSame
  <2>1. \A x \in Node : currentTerm[x] = 1 => currentTerm'[x] = 1
    <3>1. Term = {0, 1}
      BY DEF Term
    <3> QED BY <1>1, <3>1 DEF TypeOK, KeepsVote
  <2> QED BY <1>2, <2>1 DEF ElectionsSame, WinnersLead
<1> QED BY <1>1, <1>2, ElectionMoves, OneTermElections

LEMMA NextOneTerm ==
    ASSUME MaxTerm = 1, TypeOK, TypeOK', OneTermInv, [Next]_vars
    PROVE  OneTermInv'
<1>1. WinnersLead' /\ won \subseteq won'
  BY OneTermWinners DEF OneTermInv
<1>2. ASSUME NEW L \in Node, \A w \in won' : w[2] = L
      PROVE  OneLeaderInv(L)'
  <2>1. OneLeaderInv(L)
    BY <1>1, <1>2 DEF OneTermInv
  <2>2. OnlyLeads(L)'
    BY <1>1, <1>2 DEF WinnersLead, OnlyLeads
  <2> QED BY <2>1, <2>2, NextUnderOne
<1> QED BY <1>1, <1>2 DEF OneTermInv

LEMMA OneTermAgrees ==
    ASSUME TypeOK, OneWinnerPerTerm, OneTermInv
    PROVE  Agreement /\ FollowersHoldPrefix
<1>1. PICK L \in Node : \A w \in won : w[2] = L
  <2>1. CASE won = {}
    BY <2>1, NodeAssumption
  <2>2. ASSUME NEW v \in won PROVE \E L \in Node : \A w \in won : w[2] = L
    <3>1. v[2] \in Node
      BY DEF TypeOK
    <3>2. \A w \in won : w[2] = v[2]
      BY DEF OneTermInv, WinnersLead, OneWinnerPerTerm
    <3> QED BY <3>1, <3>2
  <2> QED BY <2>1, <2>2
<1> QED BY <1>1, OneLeaderImplies DEF OneTermInv

\* What the first term keeps: its winner alone leads, and the logs begin alike.
THEOREM OneTermInvariant ==
    ASSUME MaxTerm = 1 PROVE Spec => []OneTermInv
<1>1. Init => OneTermInv
  BY InitUnderOne DEF Init, OneTermInv, WinnersLead, NoElection
<1>2. TypeOK /\ TypeOK' /\ OneTermInv /\ [Next]_vars => OneTermInv'
  BY NextOneTerm
<1> QED BY <1>1, <1>2, TypeCorrect, PTL DEF Spec

\* In the first term nodes apply the same entries in the same order: there is one
\* winner (SingleWinner), and under one leader logs agree.
THEOREM FirstTermAgrees ==
    ASSUME MaxTerm = 1 PROVE Spec => []Agreement
<1>1. TypeOK /\ OneWinnerPerTerm /\ OneTermInv => Agreement
  BY OneTermAgrees
<1> QED BY <1>1, TypeCorrect, SingleWinner, OneTermInvariant, PTL

\* And what a follower holds is a prefix of the log of whoever leads.
THEOREM FirstTermPrefixes ==
    ASSUME MaxTerm = 1 PROVE Spec => []FollowersHoldPrefix
<1>1. TypeOK /\ OneWinnerPerTerm /\ OneTermInv => FollowersHoldPrefix
  BY OneTermAgrees
<1> QED BY <1>1, TypeCorrect, SingleWinner, OneTermInvariant, PTL
=============================================================================
