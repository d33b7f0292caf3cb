------------------------------ MODULE Delivery ------------------------------
(***************************************************************************)
(* What the worker process promises about an enqueued item (a row of       *)
(* ops.jobs or ops.outbox): it is settled at most once, it is settled as   *)
(* "delivered" only after its handler has taken effect, and nothing is      *)
(* said about how often the handler takes effect (delivery is at least     *)
(* once, never exactly once).                                               *)
(***************************************************************************)
CONSTANT Items

VARIABLES outcome,  \* outcome[i]: "absent", "open", "delivered" or "given_up"
          effected  \* effected[i]: the handler of i has taken effect at least once

vars == <<outcome, effected>>

Init == /\ outcome = [i \in Items |-> "absent"]
        /\ effected = [i \in Items |-> FALSE]

Enqueue(i) == /\ outcome[i] = "absent"
              /\ outcome' = [outcome EXCEPT ![i] = "open"]
              /\ UNCHANGED effected

TakeEffect(i) == /\ outcome[i] # "absent"
                 /\ effected' = [effected EXCEPT ![i] = TRUE]
                 /\ UNCHANGED outcome

Settle(i) == /\ outcome[i] = "open"
             /\ \/ effected[i] /\ outcome' = [outcome EXCEPT ![i] = "delivered"]
                \/ outcome' = [outcome EXCEPT ![i] = "given_up"]
             /\ UNCHANGED effected

Next == \E i \in Items : Enqueue(i) \/ TakeEffect(i) \/ Settle(i)

Spec == Init /\ [][Next]_vars
=============================================================================
