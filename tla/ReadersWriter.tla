--------------------------- MODULE ReadersWriter ---------------------------
(***************************************************************************)
(* What the lock service promises, with no queues, logs or commands: every *)
(* owner has a right on every key, rights are granted only while they are  *)
(* compatible, and an owner loses one only by releasing.  A release may    *)
(* hand the lock over in the same step.  LockManager implements this.      *)
(***************************************************************************)
CONSTANTS Key, Owner

Right == {"none", "shared", "exclusive"}

VARIABLE right   \* right[k][o]: what owner o may do with key k

\* A writer is alone.
Compatible(r) ==
    \A a, b \in Owner : r[a] = "exclusive" /\ r[b] # "none" => a = b

\* s allows at least what r allows.
Covers(s, r) == \/ r = "none"
                \/ r = "shared" /\ s # "none"
                \/ s = "exclusive"

Init == right = [k \in Key |-> [o \in Owner |-> "none"]]

\* Some owners gain a right and nobody loses one.
Grant(k) ==
    \E r \in [Owner -> Right] :
        /\ Compatible(r)
        /\ \A o \in Owner : Covers(r[o], right[k][o])
        /\ right' = [right EXCEPT ![k] = r]

\* o gives its right back; if that frees the lock others may gain theirs.
Release(k, o) ==
    /\ right[k][o] # "none"
    /\ \E r \in [Owner -> Right] :
        /\ Compatible(r)
        /\ \A p \in Owner \ {o} : Covers(r[p], right[k][p])
        /\ right' = [right EXCEPT ![k] = r]

Next == \E k \in Key : Grant(k) \/ \E o \in Owner : Release(k, o)

Spec == Init /\ [][Next]_right
============================================================================
