------------------------------- MODULE Writes -------------------------------
(***************************************************************************)
(* What the write path promises to the readers of the projection cache:    *)
(* an operation takes effect at most once, the cache only ever shows       *)
(* effects that have been committed and forgets none while the server      *)
(* runs, and a write is confirmed to its user only when the cache already  *)
(* shows it.                                                               *)
(***************************************************************************)
CONSTANT Ops

VARIABLES committed,  \* operations whose effect is in the database
          visible,    \* operations whose effect the server's cache shows
          confirmed   \* operations reported as successful to their user

vars == <<committed, visible, confirmed>>

Init == committed = {} /\ visible = {} /\ confirmed = {}

Take(o) == /\ o \notin committed
           /\ committed' = committed \union {o}
           /\ UNCHANGED <<visible, confirmed>>

\* The cache is replaced by a later snapshot of the database.
Publish(snapshot) == /\ visible \subseteq snapshot /\ snapshot \subseteq committed
                     /\ visible' = snapshot
                     /\ UNCHANGED <<committed, confirmed>>

Confirm(o) == /\ o \in committed \intersect visible
              /\ confirmed' = confirmed \union {o}
              /\ UNCHANGED <<committed, visible>>

\* The server restarts with an empty cache; transactions it had sent to the
\* database may still have been committed.
Restart(last) == /\ last \subseteq Ops \ committed
                 /\ committed' = committed \union last
                 /\ visible' = {}
                 /\ UNCHANGED confirmed

Next == \/ \E o \in Ops : Take(o) \/ Confirm(o)
        \/ \E s \in SUBSET Ops : Publish(s) \/ Restart(s)

Spec == Init /\ [][Next]_vars
=============================================================================
