-------------------------- MODULE RaftStorageProofs --------------------------
(***************************************************************************)
(* Theorems about RaftStorage, for any terms, candidates, logs and number  *)
(* of coroutines that write at the same time, proved with TLAPS.           *)
(***************************************************************************)
EXTENDS RaftStorage, TLAPS

Voter == Candidate \cup {Self}

Coroutine == [pc : {"idle", "decide", "grant", "append", "ask", "done"},
              image : Image, to : Voter \cup {None},
              landed : BOOLEAN, passed : BOOLEAN, older : SUBSET Task]

\* The votes that leave.
Votes == [term : 0..MaxTerm, to : Voter, written : 0..MaxTerm]

\* A coroutine that will let a vote out has it in its image; the writes that
\* count as issued before another are under way.
Consistent(s) ==
    /\ tasks[s].pc \in {"decide", "grant", "ask"} => tasks[s].to \in Voter
    /\ tasks[s].pc \in {"grant", "ask"} => tasks[s].image.vote = tasks[s].to
    /\ tasks[s].older \subseteq Writing \ {s}

TypeInv == /\ life \in {"down", "loading", "read", "up"}
           /\ mem \in Image /\ disk \in Image /\ loaded \in Image
           /\ tasks \in [Task -> Coroutine]
           /\ behind \in BOOLEAN /\ forgot \subseteq {"early", "order"}
           /\ promises \subseteq Votes
           /\ \A s \in Task : Consistent(s)

LEMMA TypeInvOK == TypeInv => TypeOK
  BY DEF TypeInv, TypeOK, Coroutine, Voter, Votes

\* What a new process has, and a free slot.
LEMMA FreshIs == /\ Fresh \in Image /\ Idle \in Coroutine
                 /\ Idle.pc = "idle" /\ ~Idle.landed /\ ~Idle.passed /\ Idle.older = {}
<1>1. Fresh \in Image
  BY NamesAssumption DEF Fresh, Image
<1> QED BY <1>1 DEF Idle, Coroutine

\* Initially.
LEMMA InitType == Init => TypeInv
  BY FreshIs, NamesAssumption DEF Init, TypeInv, Consistent, Writing

\* The slot of a coroutine that calls _persist_state.
Called(s, image, pc, to) ==
    [Idle EXCEPT !.pc = pc, !.image = image, !.to = to, !.older = Writing \ {s}]

LEMMA CalledIs ==
    ASSUME NEW s \in Task, NEW image \in Image, NEW to \in Voter \cup {None},
           NEW pc \in {"decide", "grant", "append", "ask", "done"}
    PROVE  LET t == Called(s, image, pc, to)
           IN /\ t \in Coroutine /\ t.pc = pc /\ t.image = image /\ t.to = to
              /\ ~t.landed /\ ~t.passed /\ t.older = Writing \ {s}
<1>1. Writing \ {s} \subseteq Task /\ Fresh \in Image
  BY FreshIs DEF Writing
<1> QED BY <1>1 DEF Called, Idle, Coroutine

\* The state after _persist_state has been called.
LEMMA PersistIs ==
    ASSUME TypeInv, NEW s \in Task, s \notin Writing, NEW image \in Image,
           NEW to \in Voter \cup {None}, NEW pc \in {"decide", "grant", "append", "ask", "done"},
           pc \in {"decide", "grant", "ask"} => to \in Voter,
           pc \in {"grant", "ask"} => image.vote = to,
           Persist(s, image, pc, to)
    PROVE  /\ TypeInv'
           /\ mem' = image /\ UNCHANGED <<life, disk, loaded, behind, promises>>
           /\ forgot' = {} => forgot = {} /\ life = "up"
           /\ \A r \in Task : tasks'[r] = IF r = s THEN Called(s, image, pc, to) ELSE tasks[r]
           /\ Writing' = Writing \cup {s}
<1> DEFINE t == Called(s, image, pc, to)
<1>1. /\ t \in Coroutine /\ t.pc = pc /\ t.image = image /\ t.to = to
      /\ ~t.landed /\ ~t.passed /\ t.older = Writing \ {s}
  BY CalledIs
<1>2. tasks' = [tasks EXCEPT ![s] = t]
  BY DEF Persist, Called
<1> HIDE DEF t
<1>3. tasks' \in [Task -> Coroutine] /\ \A r \in Task : tasks'[r] = IF r = s THEN t ELSE tasks[r]
  BY <1>1, <1>2 DEF TypeInv
<1>4. Writing' = Writing \cup {s}
  BY <1>1, <1>3 DEF Writing
<1>5. \A r \in Task : Consistent(r)'
  <2>1. ASSUME NEW r \in Task PROVE Consistent(r)'
    <3>1. CASE r = s
      <4>1. tasks'[r] = t
        BY <1>3, <3>1
      <4> QED BY <1>1, <1>4, <3>1, <4>1 DEF Consistent
    <3>2. CASE r # s
      <4>1. tasks'[r] = tasks[r] /\ Consistent(r)
        BY <1>3, <3>2 DEF TypeInv
      <4> QED BY <1>4, <4>1 DEF Consistent
    <3> QED BY <3>1, <3>2
  <2> QED BY <2>1
<1>6. /\ mem' = image /\ UNCHANGED <<life, disk, loaded, behind, promises>>
      /\ forgot' = IF life = "up" THEN forgot ELSE forgot \cup {"early"}
  BY DEF Persist
<1> QED BY <1>3, <1>4, <1>5, <1>6 DEF TypeInv, t

----------------------------------------------------------------------------
(* Memory only moves on: to a later term, or from no vote to a vote.       *)

Below(i, j) == i.term < j.term \/ (i.term = j.term /\ (i.vote = None \/ i.vote = j.vote))

LEMMA BelowIs ==
    ASSUME NEW i \in Image, NEW j \in Image, NEW k \in Image
    PROVE  Below(i, i) /\ (Below(i, j) /\ Below(j, k) => Below(i, k))
<1>1. i.term \in Nat /\ j.term \in Nat /\ k.term \in Nat
  BY NamesAssumption DEF Image
<1> QED BY <1>1 DEF Below

\* A handler calls _persist_state on a state that is not below the one there was.
Calls(s) ==
    \E image \in Image, pc \in {"decide", "grant", "append", "ask", "done"}, to \in Voter \cup {None} :
        /\ s \notin Writing /\ Persist(s, image, pc, to) /\ Below(mem, image)
        /\ pc \in {"decide", "grant", "ask"} => to \in Voter
        /\ pc \in {"grant", "ask"} => image.vote = to

LEMMA HandlersCall ==
    ASSUME TypeInv, NEW s \in Task,
           \/ StepDown(s) \/ RequestVote(s) \/ AppendEntries(s) \/ StartElection(s) \/ Replicate(s)
           \/ Resume(s)
    PROVE  \/ Calls(s)
           \/ /\ tasks[s].landed /\ tasks[s].pc \notin {"grant", "ask"}
              /\ Ends(s) /\ UNCHANGED promises
<1>1. /\ mem \in Image /\ mem.term \in 0..MaxTerm /\ mem.vote \in Voter \cup {None} /\ mem.log \in Log
      /\ MaxTerm \in Nat /\ mem.term \in Nat
  BY NamesAssumption DEF TypeInv, Image, Voter
<1>2. Free(s) => s \notin Writing
  BY FreshIs DEF Free, Writing
<1>3. ASSUME NEW t \in mem.term + 1..MaxTerm
      PROVE  SteppedDown(t) \in Image /\ Below(mem, SteppedDown(t))
  <2>1. t \in 0..MaxTerm /\ mem.term < t
    BY <1>1, <1>3
  <2>2. SteppedDown(t) \in Image /\ SteppedDown(t).term = t
    BY <1>1, <2>1 DEF SteppedDown, Image
  <2> QED BY <2>1, <2>2 DEF Below
<1>4. ASSUME NEW c \in Candidate, mem.vote \in {None, c}
      PROVE  LET i == [mem EXCEPT !.vote = c]
             IN i \in Image /\ Below(mem, i) /\ i.vote = c /\ c \in Voter
  BY <1>1, <1>4 DEF Below, Image, Voter
<1>5. ASSUME NEW l \in Log
      PROVE  LET i == [mem EXCEPT !.log = l]
             IN i \in Image /\ Below(mem, i)
  BY <1>1 DEF Below, Image
<1>6. CASE StepDown(s)
  <2>1. PICK t \in mem.term + 1..MaxTerm : Free(s) /\ Persist(s, SteppedDown(t), "done", None)
    BY <1>6 DEF StepDown
  <2> QED BY <1>2, <1>3, <2>1 DEF Calls
<1>7. CASE RequestVote(s)
  <2>1. PICK c \in Candidate :
           /\ Free(s)
           /\ \/ \E t \in mem.term + 1..MaxTerm : Persist(s, SteppedDown(t), "decide", c)
              \/ mem.vote \in {None, c} /\ Persist(s, [mem EXCEPT !.vote = c], "grant", c)
    BY <1>7 DEF RequestVote
  <2>2. c \in Voter
    BY DEF Voter
  <2>3. CASE \E t \in mem.term + 1..MaxTerm : Persist(s, SteppedDown(t), "decide", c)
    BY <1>2, <1>3, <2>1, <2>2, <2>3 DEF Calls
  <2>4. CASE mem.vote \in {None, c} /\ Persist(s, [mem EXCEPT !.vote = c], "grant", c)
    BY <1>2, <1>4, <2>1, <2>2, <2>4 DEF Calls
  <2> QED BY <2>1, <2>3, <2>4
<1>8. CASE AppendEntries(s)
  BY <1>2, <1>3, <1>5, <1>8 DEF AppendEntries, Calls
<1>9. CASE StartElection(s)
  <2> DEFINE i == [mem EXCEPT !.term = @ + 1, !.vote = Self]
  <2>1. Free(s) /\ mem.term < MaxTerm /\ Persist(s, i, "ask", Self)
    BY <1>9 DEF StartElection
  <2>2. i \in Image /\ i.vote = Self /\ i.term = mem.term + 1 /\ Self \in Voter
    <3>1. mem.term + 1 \in 0..MaxTerm
      BY <1>1, <2>1
    <3>2. ASSUME NEW t \in 0..MaxTerm, NEW v \in Voter
          PROVE  LET j == [mem EXCEPT !.term = t, !.vote = v]
                 IN j \in Image /\ j.vote = v /\ j.term = t
      BY <1>1 DEF Image, Voter
    <3>3. Self \in Voter
      BY DEF Voter
    <3> QED BY <3>1, <3>2, <3>3
  <2>3. Below(mem, i)
    BY <1>1, <2>2 DEF Below
  <2> QED BY <1>2, <2>1, <2>2, <2>3 DEF Calls
<1>10. CASE Replicate(s)
  BY <1>2, <1>5, <1>10 DEF Replicate, Calls
<1>11. CASE Resume(s)
  <2>1. tasks[s].landed /\ s \notin Writing
    BY <1>11 DEF Resume, Writing
  <2> DEFINE c == tasks[s].to
  <2>3. CASE tasks[s].pc = "decide" /\ mem.vote \in {None, c} /\ Persist(s, [mem EXCEPT !.vote = c], "grant", c)
    <3> DEFINE i == [mem EXCEPT !.vote = c]
    <3>1. c \in Voter
      BY <2>3 DEF TypeInv, Consistent
    <3>2. i \in Image /\ Below(mem, i) /\ i.vote = c
      BY <1>1, <2>3, <3>1 DEF Below, Image, Voter
    <3> QED BY <2>1, <2>3, <3>1, <3>2 DEF Calls
  <2>4. CASE tasks[s].pc = "append" /\ \E l \in Log : Persist(s, [mem EXCEPT !.log = l], "done", None)
    BY <1>5, <2>1, <2>4 DEF Calls
  <2> QED BY <1>11, <2>1, <2>3, <2>4 DEF Resume
<1> QED BY <1>6, <1>7, <1>8, <1>9, <1>10, <1>11

----------------------------------------------------------------------------
(* The other steps of a coroutine.                                         *)

\* A write lands: it no longer counts, and the writes issued before it are passed.
LEMMA LandIs ==
    ASSUME TypeInv, NEW s \in Task, Land(s)
    PROVE  /\ TypeInv' /\ s \in Writing /\ Writing' = Writing \ {s}
           /\ disk' = tasks[s].image /\ behind' = tasks[s].passed
           /\ UNCHANGED <<life, mem, loaded, forgot, promises>>
           /\ \A r \in Task : /\ tasks'[r].pc = tasks[r].pc
                              /\ tasks'[r].image = tasks[r].image
                              /\ tasks'[r].to = tasks[r].to
                              /\ tasks'[r].landed <=> tasks[r].landed \/ r = s
                              /\ r # s => tasks'[r].older = tasks[r].older \ {s}
                              /\ r # s => (tasks'[r].passed <=> tasks[r].passed \/ r \in tasks[s].older)
<1>1. s \in Writing /\ disk' = tasks[s].image /\ behind' = tasks[s].passed
      /\ UNCHANGED <<life, mem, loaded, forgot, promises>>
  BY DEF Land
<1>2. tasks' = [r \in Task |->
                  IF r = s THEN [tasks[s] EXCEPT !.landed = TRUE]
                  ELSE [tasks[r] EXCEPT !.passed = @ \/ r \in tasks[s].older, !.older = @ \ {s}]]
  BY DEF Land
<1>3. ASSUME NEW r \in Task
      PROVE  /\ tasks'[r] \in Coroutine
             /\ tasks'[r].pc = tasks[r].pc /\ tasks'[r].image = tasks[r].image
             /\ tasks'[r].to = tasks[r].to
             /\ tasks'[r].landed <=> tasks[r].landed \/ r = s
             /\ r # s => tasks'[r].older = tasks[r].older \ {s}
             /\ r # s => (tasks'[r].passed <=> tasks[r].passed \/ r \in tasks[s].older)
             /\ r = s => tasks'[r].older = tasks[r].older
  <2>1. tasks[r] \in Coroutine
    BY DEF TypeInv
  <2>2. CASE r = s
    <3>1. tasks'[r] = [tasks[r] EXCEPT !.landed = TRUE]
      BY <1>2, <2>2
    <3> QED BY <2>1, <2>2, <3>1 DEF Coroutine
  <2>3. CASE r # s
    <3> DEFINE passed == tasks[r].passed \/ r \in tasks[s].older
               older == tasks[r].older \ {s}
    <3>1. tasks'[r] = [tasks[r] EXCEPT !.passed = passed, !.older = older]
      BY <1>2, <2>3
    <3>2. passed \in BOOLEAN /\ older \in SUBSET Task
      BY <2>1 DEF Coroutine
    <3>3. /\ tasks'[r] \in Coroutine
          /\ tasks'[r].pc = tasks[r].pc /\ tasks'[r].image = tasks[r].image
          /\ tasks'[r].to = tasks[r].to /\ tasks'[r].landed = tasks[r].landed
          /\ tasks'[r].older = older /\ tasks'[r].passed = passed
      <4> HIDE DEF passed, older
      <4> QED BY <2>1, <3>1, <3>2 DEF Coroutine
    <3> QED BY <2>3, <3>3
  <2> QED BY <2>2, <2>3
<1>4. Writing' = Writing \ {s}
  BY <1>1, <1>3 DEF Writing
<1>5. tasks' \in [Task -> Coroutine]
  BY <1>2, <1>3
<1>6. \A r \in Task : Consistent(r)'
  <2>1. ASSUME NEW r \in Task PROVE Consistent(r)'
    <3>1. Consistent(r) /\ Consistent(s)
      BY DEF TypeInv
    <3>2. CASE r = s
      BY <1>3, <1>4, <3>1, <3>2 DEF Consistent
    <3>3. CASE r # s
      BY <1>3, <1>4, <3>1, <3>3 DEF Consistent
    <3> QED BY <3>2, <3>3
  <2> QED BY <2>1
<1>7. tasks[s].image \in Image /\ tasks[s].passed \in BOOLEAN
  BY DEF TypeInv, Coroutine
<1> QED BY <1>1, <1>3, <1>4, <1>5, <1>6, <1>7 DEF TypeInv

\* A coroutine whose write has landed ends.
LEMMA EndsIs ==
    ASSUME TypeInv, NEW s \in Task, Ends(s), tasks[s].landed,
           promises' \subseteq Votes
    PROVE  /\ TypeInv' /\ Writing' = Writing
           /\ UNCHANGED <<life, mem, disk, loaded, behind, forgot>>
           /\ \A r \in Task : tasks'[r] = IF r = s THEN Idle ELSE tasks[r]
<1>1. tasks' = [tasks EXCEPT ![s] = Idle] /\ UNCHANGED <<life, mem, disk, loaded, behind, forgot>>
  BY DEF Ends
<1>2. tasks' \in [Task -> Coroutine] /\ \A r \in Task : tasks'[r] = IF r = s THEN Idle ELSE tasks[r]
  BY <1>1, FreshIs DEF TypeInv
<1>3. Writing' = Writing
  BY <1>2, FreshIs DEF Writing
<1>4. \A r \in Task : Consistent(r)'
  <2>1. ASSUME NEW r \in Task PROVE Consistent(r)'
    <3>1. Consistent(r)
      BY DEF TypeInv
    <3>2. CASE r = s
      <4>1. tasks'[r] = Idle
        BY <1>2, <3>2
      <4> QED BY <4>1, FreshIs DEF Consistent
    <3>3. CASE r # s
      BY <1>2, <1>3, <3>1, <3>3 DEF Consistent
    <3> QED BY <3>2, <3>3
  <2> QED BY <2>1
<1> QED BY <1>1, <1>2, <1>3, <1>4 DEF TypeInv

\* The vote that leaves is the one in the image, in the term of the node.
LEMMA PromiseIs ==
    ASSUME TypeInv, NEW s \in Task, Promise(s)
    PROVE  /\ Ends(s) /\ tasks[s].landed /\ tasks[s].pc \in {"grant", "ask"}
           /\ promises' = promises \cup {Promised(s)}
           /\ promises' \subseteq Votes
<1>1. /\ tasks[s].pc \in {"grant", "ask"} /\ tasks[s].landed /\ Ends(s)
      /\ promises' = promises \cup {Promised(s)}
  BY DEF Promise
<1>2. tasks[s].to \in Voter /\ tasks[s].image.term \in 0..MaxTerm /\ mem.term \in 0..MaxTerm
  <2>1. tasks[s].image \in Image
    BY DEF TypeInv, Coroutine
  <2> QED BY <1>1, <2>1 DEF TypeInv, Consistent, Image
<1>3. Promised(s) \in Votes
  BY <1>2 DEF Promised, Votes
<1> QED BY <1>1, <1>3 DEF TypeInv

\* A crash leaves an image that was there or under way.
LEMMA CrashIs ==
    ASSUME TypeInv, Crash
    PROVE  /\ TypeInv'
           /\ life' = "down" /\ mem' = Fresh /\ ~behind' /\ promises' = promises
           /\ \A r \in Task : tasks'[r] = Idle
           /\ Writing' = {}
           /\ forgot' = {} =>
                 /\ forgot = {}
                 /\ \/ ~behind /\ disk' = disk
                    \/ \E s \in Writing : ~tasks[s].passed /\ disk' = tasks[s].image
<1>1. /\ life' = "down" /\ mem' = Fresh /\ behind' = FALSE /\ loaded' = Fresh
      /\ tasks' = [s \in Task |-> Idle] /\ promises' = promises
  BY DEF Crash
<1>2. \/ /\ forgot' = IF behind THEN forgot \cup {"order"} ELSE forgot
         /\ disk' = disk
      \/ \E s \in Writing :
            /\ disk' = tasks[s].image
            /\ forgot' = IF tasks[s].passed THEN forgot \cup {"order"} ELSE forgot
  BY DEF Crash
<1>3. disk' \in Image /\ forgot' \subseteq {"early", "order"}
  <2>1. \A s \in Writing : tasks[s].image \in Image
    BY DEF TypeInv, Writing, Coroutine
  <2> QED BY <1>2, <2>1 DEF TypeInv
<1>4. tasks' \in [Task -> Coroutine] /\ \A r \in Task : tasks'[r] = Idle
  BY <1>1, FreshIs
<1>5. Writing' = {}
  BY <1>4, FreshIs DEF Writing
<1>6. \A r \in Task : Consistent(r)'
  BY <1>4, FreshIs DEF Consistent
<1> QED BY <1>1, <1>2, <1>3, <1>4, <1>5, <1>6, FreshIs DEF TypeInv

\* Steps that leave the coroutines alone keep what is known of them.
LEMMA AsideType ==
    ASSUME TypeInv, UNCHANGED <<tasks, disk, behind, forgot, promises>>,
           life' \in {"down", "loading", "read", "up"}, mem' \in Image, loaded' \in Image
    PROVE  TypeInv' /\ Writing' = Writing
<1>1. Writing' = Writing
  BY DEF Writing
<1> QED BY <1>1 DEF TypeInv, Consistent

LEMMA NextType == TypeInv /\ [Next]_vars => TypeInv'
<1> SUFFICES ASSUME TypeInv, [Next]_vars PROVE TypeInv'
  OBVIOUS
<1>1. ASSUME NEW s \in Task,
             \/ StepDown(s) \/ RequestVote(s) \/ AppendEntries(s) \/ StartElection(s) \/ Replicate(s)
             \/ Resume(s)
      PROVE  TypeInv'
  <2>1. CASE Calls(s)
    BY <2>1, PersistIs DEF Calls
  <2>2. CASE tasks[s].landed /\ Ends(s) /\ UNCHANGED promises
    <3>1. promises' \subseteq Votes
      BY <2>2 DEF TypeInv
    <3> QED BY <2>2, <3>1, EndsIs
  <2> QED BY <1>1, <2>1, <2>2, HandlersCall
<1>2. ASSUME NEW s \in Task, Land(s) PROVE TypeInv'
  BY <1>2, LandIs
<1>3. ASSUME NEW s \in Task, Promise(s) PROVE TypeInv'
  BY <1>3, PromiseIs, EndsIs
<1>4. CASE Crash
  BY <1>4, CrashIs
<1>5. CASE Start \/ Read \/ Load
  <2>1. /\ UNCHANGED <<tasks, disk, behind, forgot, promises>>
        /\ life' \in {"down", "loading", "read", "up"}
    BY <1>5 DEF Start, Read, Load
  <2>2. mem' \in Image /\ loaded' \in Image
    BY <1>5, FreshIs DEF Start, Read, Load, TypeInv
  <2> QED BY <2>1, <2>2, AsideType
<1>6. CASE UNCHANGED vars
  <2>1. UNCHANGED <<life, mem, disk, loaded, tasks, behind, forgot, promises>>
    BY <1>6 DEF vars
  <2> QED BY <2>1, AsideType DEF TypeInv
<1> QED BY <1>1, <1>2, <1>3, <1>4, <1>5, <1>6 DEF Next

\* Memory, Redis and the coroutines keep their types.
THEOREM TypeCorrect == Spec => []TypeOK
  BY InitType, NextType, TypeInvOK, PTL DEF Spec

----------------------------------------------------------------------------
(* One vote a term.                                                        *)

\* The coroutines that will let a vote out; the votes that left in the term they
\* were written in, those and the ones that will leave, and those among them that
\* have been written.
Voting == {s \in Task : tasks[s].pc \in {"grant", "ask"}}
VoteOf(s) == <<tasks[s].image.term, tasks[s].to>>
Given(p) == \E v \in promises : v.written = v.term /\ p = <<v.term, v.to>>
Voted(p) == Given(p) \/ \E s \in Voting : p = VoteOf(s)
Written(p) == Given(p) \/ \E s \in Voting : tasks[s].landed /\ p = VoteOf(s)

Vote == (0..MaxTerm) \X Voter

\* A node with this image cannot give another vote in the term of p.
Keeps(i, p) == p[1] < i.term \/ (p[1] = i.term /\ p[2] = i.vote)

Agreed == \A p, q \in Vote : Voted(p) /\ Voted(q) /\ p[1] = q[1] => p[2] = q[2]

Remembered == life = "up" => /\ \A p \in Vote : Voted(p) => Keeps(mem, p)
                             /\ \A s \in Writing : Below(tasks[s].image, mem)

\* Of two writes one was issued first, with an image below that of the other.
Ordered == /\ \A r, s \in Writing : r = s \/ r \in tasks[s].older \/ s \in tasks[r].older
           /\ \A s \in Writing : \A r \in tasks[s].older : Below(tasks[r].image, tasks[s].image)

\* Redis keeps the votes that left, and so does what may still land, except for
\* what landed or will land after a later write.
Kept == /\ ~behind => \A p \in Vote : Written(p) => Keeps(disk, p)
        /\ \A s \in Writing : ~tasks[s].passed => \A p \in Vote : Written(p) => Keeps(tasks[s].image, p)

\* Nothing happens before the state is loaded.
Restarts == /\ life # "up" => mem = Fresh /\ ~behind /\ \A s \in Task : tasks[s] = Idle
            /\ life = "read" => loaded = disk

\* The last write, or Redis when there is none, has the state of the node.
Current ==
    life = "up" =>
        /\ \A s \in Writing : ~tasks[s].passed /\ (\A r \in Writing : s \notin tasks[r].older)
                                 => tasks[s].image = mem
        /\ Writing = {} /\ ~behind => disk = mem

\* The term of the node only grows.
Grown == \A v \in promises : v.written <= v.term

Sound == Agreed /\ Remembered /\ Ordered /\ Kept /\ Restarts /\ Current /\ Grown

\* OnePromisePerTerm is not inductive: that a vote is not forgotten rests on the
\* images that may be in Redis when the node restarts.
StorageInv == TypeInv /\ (forgot = {} => Sound)

\* Initially no vote has left and Redis has nothing.
LEMMA InitStorage == Init => StorageInv
<1> SUFFICES ASSUME Init PROVE StorageInv
  OBVIOUS
<1>1. TypeInv
  BY InitType
<1>2. Writing = {} /\ Voting = {}
  BY FreshIs DEF Init, Writing, Voting
<1>3. \A p : ~Voted(p) /\ ~Written(p)
  BY <1>2 DEF Init, Given, Voted, Written
<1>4. Sound
  BY <1>2, <1>3 DEF Init, Sound, Agreed, Remembered, Ordered, Kept, Restarts, Current, Grown
<1> QED BY <1>1, <1>4 DEF StorageInv

\* Images that come later keep the votes of those below them.
LEMMA KeepsOn ==
    ASSUME NEW i \in Image, NEW j \in Image, NEW p \in Vote, Keeps(i, p), Below(i, j)
    PROVE  Keeps(j, p)
<1>1. i.term \in Nat /\ j.term \in Nat /\ p[1] \in Nat /\ p[2] # None
  BY NamesAssumption DEF Image, Vote, Voter
<1> QED BY <1>1 DEF Keeps, Below

\* A vote of the term of an image that keeps it is the image's.
LEMMA KeepsIs ==
    ASSUME NEW i \in Image, NEW p \in Vote, Keeps(i, p), p[1] = i.term
    PROVE  p[2] = i.vote
<1>1. i.term \in Nat
  BY NamesAssumption DEF Image
<1> QED BY <1>1 DEF Keeps

\* The vote of a coroutine is one, and its image keeps it.
LEMMA VoteOfIs ==
    ASSUME TypeInv, NEW s \in Voting
    PROVE  /\ s \in Task /\ VoteOf(s) \in Vote /\ Keeps(tasks[s].image, VoteOf(s))
           /\ VoteOf(s)[1] = tasks[s].image.term /\ VoteOf(s)[2] = tasks[s].to
           /\ tasks[s].to = tasks[s].image.vote
<1>1. s \in Task /\ tasks[s].pc \in {"grant", "ask"} /\ Consistent(s) /\ tasks[s].image \in Image
  BY DEF Voting, TypeInv, Coroutine
<1>2. tasks[s].to \in Voter /\ tasks[s].to = tasks[s].image.vote /\ tasks[s].image.term \in 0..MaxTerm
  BY <1>1 DEF Consistent, Image
<1> QED BY <1>1, <1>2 DEF VoteOf, Vote, Keeps

\* A handler that writes an image above memory.
LEMMA CallSound ==
    ASSUME TypeInv, Sound, NEW s \in Task, Calls(s), forgot' = {}
    PROVE  Sound'
<1>1. PICK image \in Image, pc \in {"decide", "grant", "append", "ask", "done"}, to \in Voter \cup {None} :
         /\ s \notin Writing /\ Persist(s, image, pc, to) /\ Below(mem, image)
         /\ pc \in {"decide", "grant", "ask"} => to \in Voter
         /\ pc \in {"grant", "ask"} => image.vote = to
  BY DEF Calls
<1> DEFINE t == Called(s, image, pc, to)
<1>2. /\ TypeInv' /\ life = "up"
      /\ mem' = image /\ UNCHANGED <<life, disk, loaded, behind, promises>>
      /\ \A r \in Task : tasks'[r] = IF r = s THEN t ELSE tasks[r]
      /\ Writing' = Writing \cup {s}
  BY <1>1, PersistIs
<1>3. /\ t.pc = pc /\ t.image = image /\ t.to = to
      /\ ~t.landed /\ ~t.passed /\ t.older = Writing \ {s}
  BY CalledIs
<1> HIDE DEF t
<1>4. /\ mem \in Image /\ \A r \in Task : tasks[r].image \in Image
      /\ \A r \in Task : tasks[r].older \subseteq Writing
      /\ Writing \subseteq Task
  BY DEF TypeInv, Coroutine, Consistent, Writing
<1>5. \A p \in Vote : Voted(p)' => Voted(p) \/ (pc \in {"grant", "ask"} /\ p[1] = image.term /\ p[2] = to)
  BY <1>2, <1>3 DEF Given, Voted, Voting, VoteOf
<1>6. \A p \in Vote : Written(p)' => Written(p)
  BY <1>2, <1>3 DEF Given, Written, Voting, VoteOf
<1>7. \A p \in Vote : Written(p) => Voted(p)
  BY DEF Written, Voted
<1>8. \A p \in Vote : Voted(p) => Keeps(image, p)
  BY <1>1, <1>2, <1>4, KeepsOn DEF Sound, Remembered
<1>9. \A r \in Writing : Below(tasks[r].image, image)
  <2> SUFFICES ASSUME NEW r \in Writing PROVE Below(tasks[r].image, image)
    OBVIOUS
  <2>1. Below(tasks[r].image, mem)
    BY <1>2 DEF Sound, Remembered
  <2> QED BY <1>1, <1>4, <2>1, BelowIs
<1>10. Agreed'
  <2>1. ASSUME NEW p \in Vote, Voted(p)' PROVE p[1] = image.term => p[2] = image.vote
    BY <1>1, <1>5, <1>8, <2>1, KeepsIs
  <2>2. ASSUME NEW p \in Vote, NEW q \in Vote, Voted(p)', Voted(q)', p[1] = q[1] PROVE p[2] = q[2]
    <3>1. CASE p[1] = image.term
      <4>1. p[2] = image.vote
        BY <2>1, <2>2, <3>1
      <4>2. q[2] = image.vote
        BY <2>1, <2>2, <3>1
      <4> QED BY <4>1, <4>2
    <3>2. CASE p[1] # image.term
      <4>1. Voted(p) /\ Voted(q)
        BY <1>5, <2>2, <3>2
      <4> QED BY <2>2, <4>1 DEF Sound, Agreed
    <3> QED BY <3>1, <3>2
  <2> QED BY <2>2 DEF Agreed, Vote
<1>11. Remembered'
  <2>1. ASSUME NEW p \in Vote, Voted(p)' PROVE Keeps(image, p)
    BY <1>1, <1>5, <1>8, <2>1 DEF Keeps
  <2>2. ASSUME NEW r \in Writing' PROVE Below(tasks'[r].image, image)
    <3>1. CASE r = s
      BY <1>2, <1>3, <3>1, BelowIs
    <3>2. CASE r # s
      BY <1>2, <1>4, <1>9, <2>2, <3>2
    <3> QED BY <3>1, <3>2
  <2> QED BY <1>2, <2>1, <2>2 DEF Remembered, Keeps, Below, Vote
<1>12. Ordered'
  <2>1. ASSUME NEW q \in Writing', NEW r \in Writing'
        PROVE  q = r \/ q \in tasks'[r].older \/ r \in tasks'[q].older
    BY <1>2, <1>3, <1>4 DEF Sound, Ordered
  <2>2. ASSUME NEW q \in Writing', NEW r \in tasks'[q].older
        PROVE  Below(tasks'[r].image, tasks'[q].image)
    <3>1. CASE q = s
      <4>1. r \in Writing /\ r # s /\ tasks'[r] = tasks[r] /\ tasks'[q].image = image
        BY <1>2, <1>3, <1>4, <2>2, <3>1
      <4> QED BY <1>9, <4>1
    <3>2. CASE q # s
      <4>1. q \in Writing /\ tasks'[q] = tasks[q] /\ r \in tasks[q].older
        BY <1>2, <1>4, <2>2, <3>2
      <4>2. r \in Writing /\ tasks'[r] = tasks[r]
        BY <1>1, <1>2, <1>4, <4>1
      <4> QED BY <4>1, <4>2 DEF Sound, Ordered
    <3> QED BY <3>1, <3>2
  <2> QED BY <2>1, <2>2 DEF Ordered, Below
<1>13. Kept'
  <2>1. ASSUME ~behind, NEW p \in Vote, Written(p)' PROVE Keeps(disk, p)
    BY <1>6, <2>1 DEF Sound, Kept
  <2>2. ASSUME NEW r \in Writing', ~tasks'[r].passed, NEW p \in Vote, Written(p)'
        PROVE  Keeps(tasks'[r].image, p)
    <3>1. CASE r = s
      BY <1>2, <1>3, <1>6, <1>7, <1>8, <2>2, <3>1
    <3>2. CASE r # s
      <4>1. r \in Writing /\ tasks'[r] = tasks[r]
        BY <1>2, <1>4, <2>2, <3>2
      <4> QED BY <1>6, <2>2, <4>1 DEF Sound, Kept
    <3> QED BY <3>1, <3>2
  <2> QED BY <1>2, <2>1, <2>2 DEF Kept, Keeps, Vote
<1>14. Restarts'
  BY <1>2 DEF Restarts
<1>15. Current'
  <2>1. ASSUME NEW r \in Writing', r # s PROVE r \in tasks'[s].older
    BY <1>2, <1>3, <2>1
  <2>2. tasks'[s].image = mem' /\ s \in Writing'
    BY <1>2, <1>3
  <2> QED BY <2>1, <2>2 DEF Current
<1>16. Grown'
  BY <1>2 DEF Sound, Grown
<1> QED BY <1>10, <1>11, <1>12, <1>13, <1>14, <1>15, <1>16 DEF Sound

\* A write lands: what is left of the others was issued later, or is passed.
LEMMA LandSound ==
    ASSUME TypeInv, Sound, NEW s \in Task, Land(s)
    PROVE  Sound'
<1>1. /\ s \in Writing /\ Writing' = Writing \ {s}
      /\ disk' = tasks[s].image /\ behind' = tasks[s].passed
      /\ UNCHANGED <<life, mem, loaded, forgot, promises>>
  BY LandIs
<1>2. \A r \in Task : /\ tasks'[r].pc = tasks[r].pc
                      /\ tasks'[r].image = tasks[r].image
                      /\ tasks'[r].to = tasks[r].to
                      /\ tasks'[r].landed <=> tasks[r].landed \/ r = s
                      /\ r # s => tasks'[r].older = tasks[r].older \ {s}
                      /\ r # s => (tasks'[r].passed <=> tasks[r].passed \/ r \in tasks[s].older)
  BY LandIs
<1>3. /\ mem \in Image /\ \A r \in Task : tasks[r].image \in Image
      /\ \A r \in Task : tasks[r].older \subseteq Writing \ {r}
      /\ Writing \subseteq Task
  BY DEF TypeInv, Coroutine, Consistent, Writing
<1>4. life = "up"
  BY <1>1, FreshIs DEF Sound, Restarts, Writing
<1>5. \A p \in Vote : Voted(p)' <=> Voted(p)
  BY <1>1, <1>2 DEF Given, Voted, Voting, VoteOf
<1>6. \A p \in Vote : Written(p)' => Written(p) \/ (s \in Voting /\ p = VoteOf(s))
  BY <1>1, <1>2 DEF Given, Written, Voting, VoteOf
<1>7. s \in Voting => Keeps(tasks[s].image, VoteOf(s))
  BY VoteOfIs
<1>8. Agreed'
  BY <1>5 DEF Sound, Agreed, Vote
<1>9. Remembered'
  <2>1. ASSUME NEW p \in Vote, Voted(p)' PROVE Keeps(mem, p)
    BY <1>4, <1>5, <2>1 DEF Sound, Remembered
  <2>2. ASSUME NEW r \in Writing' PROVE Below(tasks'[r].image, mem)
    <3>1. r \in Writing /\ tasks'[r].image = tasks[r].image
      BY <1>1, <1>2, <1>3, <2>2
    <3> QED BY <1>4, <3>1 DEF Sound, Remembered
  <2> QED BY <1>1, <2>1, <2>2 DEF Remembered, Keeps, Below, Vote
<1>10. Ordered'
  <2>1. ASSUME NEW q \in Writing', NEW r \in Writing'
        PROVE  q = r \/ q \in tasks'[r].older \/ r \in tasks'[q].older
    <3>1. q \in Writing /\ r \in Writing /\ q # s /\ r # s
      BY <1>1, <2>1
    <3>2. q = r \/ q \in tasks[r].older \/ r \in tasks[q].older
      BY <3>1 DEF Sound, Ordered
    <3> QED BY <1>2, <1>3, <3>1, <3>2
  <2>2. ASSUME NEW q \in Writing', NEW r \in tasks'[q].older
        PROVE  Below(tasks'[r].image, tasks'[q].image)
    <3>1. q \in Writing /\ q # s /\ r \in tasks[q].older
      BY <1>1, <1>2, <1>3, <2>2
    <3>2. Below(tasks[r].image, tasks[q].image)
      BY <3>1 DEF Sound, Ordered
    <3>3. r \in Task /\ q \in Task
      BY <1>3, <3>1
    <3> QED BY <1>2, <3>2, <3>3
  <2> QED BY <2>1, <2>2 DEF Ordered, Below
<1>11. Kept'
  <2>1. ASSUME ~behind', NEW p \in Vote, Written(p)' PROVE Keeps(tasks[s].image, p)
    BY <1>1, <1>6, <1>7, <2>1 DEF Sound, Kept
  <2>2. ASSUME NEW r \in Writing', ~tasks'[r].passed, NEW p \in Vote, Written(p)'
        PROVE  Keeps(tasks'[r].image, p)
    <3>1. r \in Writing /\ r # s /\ r \in Task
      BY <1>1, <1>3, <2>2
    <3>2. ~tasks[r].passed /\ r \notin tasks[s].older /\ tasks'[r].image = tasks[r].image
      BY <1>2, <2>2, <3>1
    <3>3. CASE Written(p)
      BY <2>2, <3>1, <3>2, <3>3 DEF Sound, Kept
    <3>4. CASE s \in Voting /\ p = VoteOf(s)
      <4>1. s \in tasks[r].older
        BY <1>1, <3>1, <3>2 DEF Sound, Ordered
      <4>2. Below(tasks[s].image, tasks[r].image)
        BY <3>1, <4>1 DEF Sound, Ordered
      <4>3. Keeps(tasks[s].image, p)
        BY <1>7, <3>4
      <4> QED BY <1>3, <3>1, <3>2, <4>2, <4>3, KeepsOn
    <3> QED BY <1>6, <2>2, <3>3, <3>4
  <2> QED BY <1>1, <2>1, <2>2 DEF Kept, Keeps, Vote
<1>12. Restarts'
  BY <1>1, <1>4 DEF Restarts
<1>13. Current'
  <2>1. ASSUME NEW r \in Writing', ~tasks'[r].passed, \A q \in Writing' : r \notin tasks'[q].older
        PROVE  tasks'[r].image = mem
    <3>1. r \in Writing /\ r # s /\ r \in Task
      BY <1>1, <1>3, <2>1
    <3>2. ~tasks[r].passed /\ r \notin tasks[s].older /\ tasks'[r].image = tasks[r].image
      BY <1>2, <2>1, <3>1
    <3>3. \A q \in Writing : r \notin tasks[q].older
      <4>1. ASSUME NEW q \in Writing, q # s PROVE r \notin tasks[q].older
        BY <1>1, <1>2, <1>3, <2>1, <3>1, <4>1
      <4> QED BY <3>2, <4>1
    <3> QED BY <1>4, <3>1, <3>2, <3>3 DEF Sound, Current
  <2>2. ASSUME Writing' = {}, ~behind' PROVE tasks[s].image = mem
    <3>1. Writing = {s} /\ s \notin tasks[s].older
      BY <1>1, <1>3, <2>2
    <3> QED BY <1>1, <1>4, <2>2, <3>1 DEF Sound, Current
  <2> QED BY <1>1, <2>1, <2>2 DEF Current
<1>14. Grown'
  BY <1>1 DEF Sound, Grown
<1> QED BY <1>8, <1>9, <1>10, <1>11, <1>12, <1>13, <1>14 DEF Sound

\* A coroutine ends, its vote out or not.
LEMMA EndSound ==
    ASSUME TypeInv, Sound, NEW s \in Task, Ends(s), tasks[s].landed,
           \/ promises' = promises
           \/ s \in Voting /\ promises' = promises \cup {Promised(s)},
           promises' \subseteq Votes
    PROVE  Sound'
<1>1. /\ Writing' = Writing /\ UNCHANGED <<life, mem, disk, loaded, behind, forgot>>
      /\ \A r \in Task : tasks'[r] = IF r = s THEN Idle ELSE tasks[r]
  BY EndsIs
<1>2. s \notin Writing /\ Writing \subseteq Task
  BY DEF Writing
<1>3. \A p \in Vote : Given(p)' => Given(p) \/ (s \in Voting /\ p = VoteOf(s))
  BY DEF Given, Promised, VoteOf
<1>4. /\ \A p \in Vote : Voted(p)' => Voted(p)
      /\ \A p \in Vote : Written(p)' => Written(p)
  BY <1>1, <1>3, FreshIs DEF Voted, Written, Voting, VoteOf
<1>5. \A r \in Writing : tasks'[r] = tasks[r]
  BY <1>1, <1>2
<1>6. Agreed'
  BY <1>4 DEF Sound, Agreed, Vote
<1>7. Remembered'
  <2>1. ASSUME life = "up", NEW p \in Vote, Voted(p)' PROVE Keeps(mem, p)
    BY <1>4, <2>1 DEF Sound, Remembered
  <2>2. ASSUME life = "up", NEW r \in Writing PROVE Below(tasks'[r].image, mem)
    BY <1>5, <2>2 DEF Sound, Remembered
  <2> QED BY <1>1, <2>1, <2>2 DEF Remembered, Keeps, Below, Vote
<1>8. Ordered'
  <2>1. \A r \in Writing : tasks[r].older \subseteq Writing
    BY <1>2 DEF TypeInv, Consistent
  <2>2. ASSUME NEW q \in Writing, NEW r \in tasks'[q].older
        PROVE  Below(tasks'[r].image, tasks'[q].image)
    <3>1. tasks'[q] = tasks[q] /\ r \in Writing /\ tasks'[r] = tasks[r]
      BY <1>5, <2>1, <2>2
    <3> QED BY <2>2, <3>1 DEF Sound, Ordered
  <2>3. \A q, r \in Writing : q = r \/ q \in tasks'[r].older \/ r \in tasks'[q].older
    BY <1>5 DEF Sound, Ordered
  <2> QED BY <1>1, <2>2, <2>3 DEF Ordered, Below
<1>9. Kept'
  <2>1. ASSUME ~behind, NEW p \in Vote, Written(p)' PROVE Keeps(disk, p)
    BY <1>4, <2>1 DEF Sound, Kept
  <2>2. ASSUME NEW r \in Writing, ~tasks'[r].passed, NEW p \in Vote, Written(p)'
        PROVE  Keeps(tasks'[r].image, p)
    BY <1>4, <1>5, <2>2 DEF Sound, Kept
  <2> QED BY <1>1, <2>1, <2>2 DEF Kept, Keeps, Vote
<1>10. Restarts'
  BY <1>1 DEF Sound, Restarts
<1>11. Current'
  BY <1>1, <1>5 DEF Sound, Current
<1>12. Grown'
  <2>1. ASSUME s \in Voting PROVE tasks[s].image.term <= mem.term
    <3>1. VoteOf(s) \in Vote /\ VoteOf(s)[1] = tasks[s].image.term /\ Voted(VoteOf(s))
      BY <2>1, VoteOfIs DEF Voted
    <3>2. life = "up"
      BY FreshIs, <2>1 DEF Sound, Restarts, Voting
    <3>3. Keeps(mem, VoteOf(s))
      BY <3>1, <3>2 DEF Sound, Remembered
    <3>4. mem.term \in Nat /\ VoteOf(s)[1] \in Nat
      BY <3>1, NamesAssumption DEF TypeInv, Image, Vote
    <3> QED BY <3>1, <3>3, <3>4 DEF Keeps
  <2>2. s \in Voting => Promised(s).written <= Promised(s).term
    BY <2>1 DEF Promised
  <2> QED BY <2>2 DEF Sound, Grown
<1> QED BY <1>6, <1>7, <1>8, <1>9, <1>10, <1>11, <1>12 DEF Sound

\* After a step no coroutine is under way: what Redis has keeps every vote that left.
LEMMA IdleSound ==
    ASSUME \A s \in Task : tasks'[s] = Idle, ~behind', promises' = promises, Agreed, Grown,
           \A p \in Vote : Given(p) => Keeps(disk', p),
           life' # "up" => mem' = Fresh, life' = "read" => loaded' = disk',
           life' = "up" => mem' = disk'
    PROVE  Sound'
<1>1. Writing' = {} /\ Voting' = {}
  BY FreshIs DEF Writing, Voting
<1>2. \A p : (Voted(p)' <=> Given(p)) /\ (Written(p)' <=> Given(p))
  BY <1>1 DEF Given, Voted, Written
<1>3. Agreed'
  BY <1>2 DEF Agreed, Voted, Vote
<1>4. Remembered' /\ Kept'
  BY <1>1, <1>2 DEF Remembered, Kept, Keeps, Vote
<1>5. Ordered' /\ Restarts' /\ Current'
  BY <1>1 DEF Ordered, Restarts, Current
<1>6. Grown'
  BY DEF Grown
<1> QED BY <1>3, <1>4, <1>5, <1>6 DEF Sound

\* Every step keeps the votes.
LEMMA NextStorage == StorageInv /\ [Next]_vars => StorageInv'
<1> SUFFICES ASSUME StorageInv, [Next]_vars, forgot' = {} PROVE Sound'
  BY NextType DEF StorageInv
<1>0. TypeInv
  BY DEF StorageInv
<1>1. ASSUME NEW s \in Task,
             \/ StepDown(s) \/ RequestVote(s) \/ AppendEntries(s) \/ StartElection(s) \/ Replicate(s)
             \/ Resume(s)
      PROVE  Sound'
  <2>1. CASE Calls(s)
    <3>1. forgot = {}
      BY <1>0, <2>1, PersistIs DEF Calls
    <3> QED BY <1>0, <2>1, <3>1, CallSound DEF StorageInv
  <2>2. CASE tasks[s].landed /\ Ends(s) /\ UNCHANGED promises
    <3>1. forgot = {} /\ promises' \subseteq Votes
      BY <1>0, <2>2 DEF Ends, TypeInv
    <3> QED BY <1>0, <2>2, <3>1, EndSound DEF StorageInv
  <2> QED BY <1>0, <1>1, <2>1, <2>2, HandlersCall
<1>2. ASSUME NEW s \in Task, Land(s) PROVE Sound'
  <2>1. forgot = {}
    BY <1>0, <1>2, LandIs
  <2> QED BY <1>0, <1>2, <2>1, LandSound DEF StorageInv
<1>3. ASSUME NEW s \in Task, Promise(s) PROVE Sound'
  <2>1. /\ Ends(s) /\ tasks[s].landed /\ s \in Voting
        /\ promises' \subseteq Votes
    BY <1>0, <1>3, PromiseIs DEF Voting
  <2>2. promises' = promises \cup {Promised(s)}
    BY <1>0, <1>3, PromiseIs
  <2>3. forgot = {}
    BY <2>1 DEF Ends
  <2> QED BY <1>0, <2>1, <2>2, <2>3, EndSound DEF StorageInv
<1>4. CASE Crash
  <2>1. /\ life' = "down" /\ mem' = Fresh /\ ~behind' /\ promises' = promises
        /\ \A r \in Task : tasks'[r] = Idle
        /\ forgot = {}
        /\ \/ ~behind /\ disk' = disk
           \/ \E s \in Writing : ~tasks[s].passed /\ disk' = tasks[s].image
    BY <1>0, <1>4, CrashIs
  <2>2. ASSUME NEW p \in Vote, Given(p) PROVE Keeps(disk', p)
    <3>1. Written(p) /\ Kept
      BY <2>1, <2>2 DEF Written, StorageInv, Sound
    <3>2. CASE ~behind /\ disk' = disk
      BY <3>1, <3>2 DEF Kept
    <3>3. CASE \E s \in Writing : ~tasks[s].passed /\ disk' = tasks[s].image
      BY <3>1, <3>3 DEF Kept
    <3> QED BY <2>1, <3>2, <3>3
  <2>3. Agreed /\ Grown
    BY <2>1 DEF StorageInv, Sound
  <2> QED BY <2>1, <2>2, <2>3, IdleSound
<1>5. CASE Start \/ Read \/ Load
  <2>1. /\ UNCHANGED <<tasks, disk, behind, forgot, promises>>
        /\ life # "up"
    BY <1>5 DEF Start, Read, Load
  <2>2. Agreed /\ Grown /\ Kept /\ Restarts
    BY <2>1 DEF StorageInv, Sound
  <2>3. \A p \in Vote : Given(p) => Keeps(disk', p)
    BY <2>1, <2>2 DEF Kept, Written, Restarts
  <2>4. /\ life' # "up" => mem' = Fresh
        /\ life' = "read" => loaded' = disk'
        /\ life' = "up" => mem' = disk'
    BY <1>5, <2>1, <2>2 DEF Start, Read, Load, Restarts
  <2> QED BY <2>1, <2>2, <2>3, <2>4, IdleSound DEF Restarts
<1>6. CASE UNCHANGED vars
  <2>1. UNCHANGED <<life, mem, disk, loaded, tasks, behind, forgot, promises>>
    BY <1>6 DEF vars
  <2>2. Sound
    BY <2>1 DEF StorageInv
  <2> QED BY <2>1, <2>2 DEF Sound, Agreed, Remembered, Ordered, Kept, Restarts, Current, Grown,
                            Given, Voted, Written, Voting, VoteOf, Writing
<1> QED BY <1>1, <1>2, <1>3, <1>4, <1>5, <1>6 DEF Next

\* However often the node restarts and whichever of its writes land, it votes
\* for one candidate a term, unless a request came before _load_state returned,
\* or writes of _persist_state landed in the wrong order, or one of the two votes
\* says a later term than was written with it.
THEOREM OneVoteATerm == Spec => []OnePromisePerTerm
<1>1. StorageInv => OnePromisePerTerm
  <2> SUFFICES ASSUME StorageInv, forgot = {}, NEW p \in promises, NEW q \in promises,
                      p.term = q.term, ~(p.written < p.term), ~(q.written < q.term)
               PROVE  p.to = q.to
    BY DEF OnePromisePerTerm
  <2>1. promises \subseteq Votes /\ Sound
    BY DEF StorageInv, TypeInv
  <2>2. ASSUME NEW v \in promises, ~(v.written < v.term) PROVE v.written = v.term
    <3>1. v.written <= v.term /\ v.written \in 0..MaxTerm /\ v.term \in 0..MaxTerm
      BY <2>1 DEF Sound, Grown, Votes
    <3> QED BY <2>2, <3>1, NamesAssumption
  <2> DEFINE i == <<p.term, p.to>>
             j == <<q.term, q.to>>
  <2>3. i \in Vote /\ j \in Vote /\ Voted(i) /\ Voted(j)
    BY <2>1, <2>2 DEF Votes, Vote, Given, Voted
  <2> HIDE DEF i, j
  <2>4. i[1] = j[1] => i[2] = j[2]
    BY <2>3 DEF StorageInv, Sound, Agreed
  <2> QED BY <2>4 DEF i, j
<1> QED BY <1>1, InitStorage, NextStorage, PTL DEF Spec

\* A node at rest has its state in Redis.
THEOREM RedisIsCurrent == Spec => []AtRest
<1>1. StorageInv => AtRest
  BY DEF StorageInv, Sound, Current, AtRest
<1> QED BY <1>1, InitStorage, NextStorage, PTL DEF Spec
=============================================================================
