---------------------------- MODULE AtLeastOnce ----------------------------
(***************************************************************************)
(* What the queue promises, with no nodes, replicas, timeouts or Redis     *)
(* commands: a message that was put stays pending, and may be handed out   *)
(* any number of times, until a client that has received it asks to have   *)
(* it acknowledged.  What was acknowledged may still come again, but the   *)
(* queue no longer owes it.  Only where MayLose may a message get lost     *)
(* before that.  Queue implements this.                                    *)
(***************************************************************************)
CONSTANTS Message,
          MayLose   \* whether a coroutine may end with a message in hand

VARIABLES pending,    \* messages the queue owes to its clients
          accepted,   \* messages some client knows to be put
          received,   \* messages some client has received
          acked,      \* messages some client has asked to acknowledge
          lost        \* messages that may never be handed out again

vars == <<pending, accepted, received, acked, lost>>

Known == pending \cup acked \cup lost

Init == pending = {} /\ accepted = {} /\ received = {} /\ acked = {} /\ lost = {}

\* m is put, perhaps again; the client may not get to know.
Put(m) ==
    /\ pending' = pending \cup ({m} \ (acked \cup lost))
    /\ accepted' \in {accepted, accepted \cup {m}}
    /\ UNCHANGED <<received, acked, lost>>

Hand(m) ==
    /\ m \in Known
    /\ received' = received \cup {m}
    /\ UNCHANGED <<pending, accepted, acked, lost>>

Ask(m) ==
    /\ m \in received
    /\ acked' = acked \cup {m} /\ pending' = pending \ {m}
    /\ UNCHANGED <<accepted, received, lost>>

Lose(S) ==
    /\ MayLose /\ S \subseteq Known
    /\ lost' = lost \cup S /\ pending' = pending \ S
    /\ UNCHANGED <<accepted, received, acked>>

Next == \/ \E m \in Message : Put(m) \/ Hand(m) \/ Ask(m)
        \/ \E S \in SUBSET Message : Lose(S)

Spec == Init /\ [][Next]_vars
============================================================================
