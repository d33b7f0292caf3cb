------------------------------- MODULE Worker -------------------------------
(***************************************************************************)
(* The background worker: several worker processes claim rows of ops.jobs  *)
(* and ops.outbox under a time-limited lease, run the registered handler   *)
(* and settle the row (Backend/workerService.js, workerHandlers.js and     *)
(* db/repositories/workerRepository.js).                                   *)
(*                                                                         *)
(* The database clock is abstracted to two bits per row: `due` (available_ *)
(* at has been reached) and `expired` (lease_until has been reached).      *)
(***************************************************************************)
EXTENDS Naturals

CONSTANTS Workers,      \* worker ids: `${INSTANCE_ID}-${process.pid}`
          Items,        \* rows that may be enqueued
          Outbox,       \* the items that are rows of ops.outbox, the others are jobs
          Supported,    \* items whose handler is registered with the row's version
          MaxAttempts,  \* maxAttempts of the handler
          MaxFaults,    \* bound: crashes, lost answers and leases that expire too early
          None

ASSUME OutboxAssumption == Outbox \subseteq Items
ASSUME MaxAttemptsAssumption == MaxAttempts \in Nat \ {0}
ASSUME MaxFaultsAssumption == MaxFaults \in Nat
ASSUME NoneAssumption == None \notin Items /\ None \notin Workers

VARIABLES status,    \* status column, "absent" before the row is inserted
          due,       \* available_at <= clock_timestamp()
          owner,     \* lease_owner
          expired,   \* lease_until <= clock_timestamp()
          attempts,  \* attempt_count
          phase,     \* what the worker's single chain of steps is doing
          item,      \* the claimed row the worker holds in memory
          attempt,   \* item.attemptCount as returned by the claim
          effected,  \* the handler's effect has been committed at least once
          faults     \* faults so far (see MaxFaults)

rowVars == <<status, due, owner, expired, attempts>>
workerVars == <<phase, item, attempt>>
vars == <<status, due, owner, expired, attempts, phase, item, attempt, effected, faults>>

Statuses == {"absent", "pending", "leased", "retrying", "failed", "success", "sent", "dead", "unknown"}
Phases == {"idle", "outbox", "claimed", "ran", "threw", "unclear"}

IsOutbox(i) == i \in Outbox
RetryStatus(i) == IF IsOutbox(i) THEN "failed" ELSE "retrying"
DoneStatus(i) == IF IsOutbox(i) THEN "sent" ELSE "success"
DeadStatus(i) == IF IsOutbox(i) THEN "unknown" ELSE "dead"
Settled(i) == status[i] \in {"success", "sent", "dead", "unknown"}
Running(w) == phase[w] \notin {"idle", "outbox"}

Init == /\ status = [i \in Items |-> "absent"]
        /\ due = [i \in Items |-> FALSE]
        /\ owner = [i \in Items |-> None]
        /\ expired = [i \in Items |-> FALSE]
        /\ attempts = [i \in Items |-> 0]
        /\ phase = [w \in Workers |-> "idle"]
        /\ item = [w \in Workers |-> None]
        /\ attempt = [w \in Workers |-> 0]
        /\ effected = [i \in Items |-> FALSE]
        /\ faults = 0

(***************************************************************************)
(* Rows.                                                                   *)
(***************************************************************************)
\* INSERT ... ON CONFLICT DO NOTHING: a second insert of the same key changes nothing.
Enqueue(i) ==
  /\ status[i] = "absent"
  /\ status' = [status EXCEPT ![i] = "pending"]
  /\ due' = [due EXCEPT ![i] = TRUE]
  /\ UNCHANGED <<owner, expired, attempts, workerVars, effected, faults>>

\* The backoff of a row that waits for its next attempt is over.
BecomesDue(i) ==
  /\ status[i] \in {"retrying", "failed"} /\ ~due[i]
  /\ due' = [due EXCEPT ![i] = TRUE]
  /\ UNCHANGED <<status, owner, expired, attempts, workerVars, effected, faults>>

HeldInMemory(i) == \E w \in Workers : Running(w) /\ item[w] = i /\ owner[i] = w

\* lease_until passes. Nothing renews a lease, so this may happen while the
\* owner still runs the handler: that is one of the counted faults.
LeaseExpires(i) ==
  /\ status[i] = "leased" /\ ~expired[i]
  /\ expired' = [expired EXCEPT ![i] = TRUE]
  /\ IF HeldInMemory(i) THEN faults < MaxFaults /\ faults' = faults + 1
                        ELSE UNCHANGED faults
  /\ UNCHANGED <<status, due, owner, attempts, workerVars, effected>>

(***************************************************************************)
(* Claims. FOR UPDATE SKIP LOCKED makes a claim atomic and lets a claim    *)
(* that meets only locked candidates find nothing.                         *)
(***************************************************************************)
\* Mutants: a claim query that forgets crashed owners, or settled rows.
MutClaimableNoRecovery(i) == status[i] \in {"pending", "retrying", "failed"} /\ due[i]
MutClaimableByDueDate(i) == due[i] /\ (status[i] = "leased" => expired[i])
Claimable(i) == \/ status[i] \in {"pending", "retrying", "failed"} /\ due[i]
                \/ status[i] = "leased" /\ expired[i]

Lease(w, i) ==
  /\ status' = [status EXCEPT ![i] = "leased"]
  /\ owner' = [owner EXCEPT ![i] = w]
  /\ expired' = [expired EXCEPT ![i] = FALSE]
  /\ attempts' = [attempts EXCEPT ![i] = @ + 1]
  /\ UNCHANGED <<due, effected>>

Claim(w, i) ==
  /\ phase[w] = IF IsOutbox(i) THEN "outbox" ELSE "idle"
  /\ Claimable(i)
  /\ Lease(w, i)
  /\ phase' = [phase EXCEPT ![w] = "claimed"]
  /\ item' = [item EXCEPT ![w] = i]
  /\ attempt' = [attempt EXCEPT ![w] = attempts[i] + 1]
  /\ UNCHANGED faults

\* The claim commits but its answer is lost (DB_COMMIT_OUTCOME_UNKNOWN): the
\* iteration fails and the row stays leased to a worker that does not know it.
ClaimAnswerLost(w, i) ==
  /\ phase[w] = IF IsOutbox(i) THEN "outbox" ELSE "idle"
  /\ Claimable(i)
  /\ faults < MaxFaults /\ faults' = faults + 1
  /\ Lease(w, i)
  /\ phase' = [phase EXCEPT ![w] = "idle"]
  /\ UNCHANGED <<item, attempt>>

\* runOnce turns to the outbox only after processJob found no job.
NoJob(w) ==
  /\ phase[w] = "idle"
  /\ \/ \A i \in Items \ Outbox : ~Claimable(i)
     \/ \E v \in Workers \ {w} : phase[v] = "idle"   \* every candidate locked by v
  /\ \E i \in Outbox : Claimable(i)   \* an idle poll otherwise changes nothing
  /\ phase' = [phase EXCEPT ![w] = "outbox"]
  /\ UNCHANGED <<rowVars, item, attempt, effected, faults>>

NoOutbox(w) ==
  /\ phase[w] = "outbox"
  /\ \A i \in Outbox : ~Claimable(i)
  /\ phase' = [phase EXCEPT ![w] = "idle"]
  /\ UNCHANGED <<rowVars, item, attempt, effected, faults>>

(***************************************************************************)
(* The handler.                                                            *)
(***************************************************************************)
HandlerSucceeds(w) ==
  /\ phase[w] = "claimed" /\ item[w] \in Supported
  /\ effected' = [effected EXCEPT ![item[w]] = TRUE]
  /\ phase' = [phase EXCEPT ![w] = "ran"]
  /\ UNCHANGED <<rowVars, item, attempt, faults>>

\* The handler throws. Its transaction may have been committed (the answer to
\* COMMIT was lost): code WRITE_OUTCOME_UNKNOWN says so, any other code does not.
HandlerThrows(w) ==
  /\ phase[w] = "claimed" /\ item[w] \in Supported
  /\ \E committed \in BOOLEAN, code \in {"threw", "unclear"} :
       /\ effected' = [effected EXCEPT ![item[w]] = @ \/ committed]
       /\ phase' = [phase EXCEPT ![w] = code]
  /\ UNCHANGED <<rowVars, item, attempt, faults>>

(***************************************************************************)
(* Settling a row: every UPDATE is guarded by status='leased' AND          *)
(* lease_owner=<this worker>; no matching row throws *_LEASE_LOST.         *)
(***************************************************************************)
OwnsLease(w) == status[item[w]] = "leased" /\ owner[item[w]] = w

Release(w, s, d) ==
  /\ status' = [status EXCEPT ![item[w]] = s]
  /\ due' = [due EXCEPT ![item[w]] = d]
  /\ owner' = [owner EXCEPT ![item[w]] = None]
  /\ expired' = [expired EXCEPT ![item[w]] = FALSE]
  /\ UNCHANGED attempts

Forget(w) ==
  /\ phase' = [phase EXCEPT ![w] = "idle"]
  /\ item' = [item EXCEPT ![w] = None]
  /\ attempt' = [attempt EXCEPT ![w] = 0]

\* completeJob(success) / completeOutbox(sent) inside the try block: an error,
\* LEASE_LOST included, is caught and treated as a failure of the handler.
CompleteSuccess(w) ==
  /\ phase[w] = "ran"
  /\ \/ /\ OwnsLease(w) /\ Release(w, DoneStatus(item[w]), due[item[w]])
        /\ Forget(w) /\ UNCHANGED faults
     \/ /\ ~OwnsLease(w)
        /\ phase' = [phase EXCEPT ![w] = "threw"]
        /\ UNCHANGED <<rowVars, item, attempt, faults>>
     \/ /\ faults < MaxFaults /\ faults' = faults + 1
        /\ \/ OwnsLease(w) /\ Release(w, DoneStatus(item[w]), due[item[w]])
           \/ UNCHANGED rowVars
        /\ phase' = [phase EXCEPT ![w] = "threw"]
        /\ UNCHANGED <<item, attempt>>
  /\ UNCHANGED effected

\* Mutant: an unknown commit outcome counts as a success.
MutVerdictOptimistic(w) ==
  IF item[w] \notin Supported THEN DeadStatus(item[w])
  ELSE IF phase[w] = "unclear" THEN DoneStatus(item[w])
  ELSE IF attempt[w] >= MaxAttempts THEN DeadStatus(item[w])
  ELSE RetryStatus(item[w])

\* The status the catch block (or the missing handler) asks for.
Verdict(w) ==
  IF item[w] \notin Supported THEN DeadStatus(item[w])
  ELSE IF phase[w] = "unclear" THEN "unknown"
  ELSE IF attempt[w] >= MaxAttempts THEN DeadStatus(item[w])
  ELSE RetryStatus(item[w])

CompleteFailure(w) ==
  /\ phase[w] \in {"threw", "unclear"} \/ (phase[w] = "claimed" /\ item[w] \notin Supported)
  /\ \/ /\ OwnsLease(w)
        /\ Release(w, Verdict(w), Verdict(w) # RetryStatus(item[w]) /\ due[item[w]])
        /\ UNCHANGED faults
     \/ ~OwnsLease(w) /\ UNCHANGED <<rowVars, faults>>
     \/ /\ faults < MaxFaults /\ faults' = faults + 1   \* the UPDATE fails
        /\ UNCHANGED rowVars
  /\ Forget(w)
  /\ UNCHANGED effected

\* The process dies; its successor may come back under the same worker id.
Crash(w) ==
  /\ phase[w] # "idle"
  /\ faults < MaxFaults /\ faults' = faults + 1
  /\ Forget(w)
  /\ UNCHANGED <<rowVars, effected>>

WorkerStep(w) ==
  \/ \E i \in Items : Claim(w, i)
  \/ NoJob(w) \/ NoOutbox(w)
  \/ HandlerSucceeds(w) \/ HandlerThrows(w)
  \/ CompleteSuccess(w) \/ CompleteFailure(w)

Next ==
  \/ \E i \in Items : Enqueue(i) \/ BecomesDue(i) \/ LeaseExpires(i)
  \/ \E w \in Workers : \/ WorkerStep(w) \/ Crash(w)
                        \/ \E i \in Items : ClaimAnswerLost(w, i)

Spec == Init /\ [][Next]_vars

(***************************************************************************)
(* The poll timer and the wake channel keep every live worker stepping,    *)
(* and time passes: due dates and the leases nobody holds any more run out.*)
(***************************************************************************)
Fairness ==
  /\ \A w \in Workers : WF_vars(WorkerStep(w))
  /\ \A i \in Items : WF_vars(BecomesDue(i)) /\ WF_vars(LeaseExpires(i))

FairSpec == Spec /\ Fairness
-----------------------------------------------------------------------------
TypeOK ==
  /\ status \in [Items -> Statuses]
  /\ due \in [Items -> BOOLEAN]
  /\ owner \in [Items -> Workers \cup {None}]
  /\ expired \in [Items -> BOOLEAN]
  /\ attempts \in [Items -> Nat]
  /\ phase \in [Workers -> Phases]
  /\ item \in [Workers -> Items \cup {None}]
  /\ attempt \in [Workers -> Nat]
  /\ effected \in [Items -> BOOLEAN]
  /\ faults \in Nat

(***************************************************************************)
(* There is no fencing token in the UPDATEs, only the worker id. It is     *)
(* enough: a worker that still passes the owner check is running the very  *)
(* attempt the row was last leased for, never an older one.                *)
(***************************************************************************)
OwnerRunsLatestAttempt ==
  \A w \in Workers : Running(w) /\ owner[item[w]] = w => attempt[w] = attempts[item[w]]

(***************************************************************************)
(* A row counted as delivered was delivered: "success"/"sent" is never     *)
(* recorded for a row none of whose attempts took effect, although any     *)
(* attempt can lose its lease to another one in between.                   *)
(***************************************************************************)
DeliveredHasEffect ==
  \A i \in Items : status[i] \in {"success", "sent"} => effected[i]

(***************************************************************************)
(* A settled row stays as it is: a worker that comes back late, after its  *)
(* lease ran out and another worker settled the row, changes nothing.      *)
(***************************************************************************)
SettledRowsKept ==
  \A i \in Items : Settled(i) => status'[i] = status[i] /\ attempts'[i] = attempts[i]
SettledIsFinal == [][SettledRowsKept]_vars

(***************************************************************************)
(* Every enqueued row is settled in the end, whatever the handlers, the    *)
(* crashes (finitely many) and the expiring leases do.                     *)
(***************************************************************************)
EverySettled == \A i \in Items : status[i] = "pending" ~> Settled(i)

\* What the owner check and the recorded result promise together.
SettledTruthfully == OwnerRunsLatestAttempt /\ DeliveredHasEffect

\* The worker implements the promise of module Delivery.
Promise == INSTANCE Delivery WITH
  outcome <- [i \in Items |-> IF status[i] = "absent" THEN "absent"
                              ELSE IF status[i] \in {"success", "sent"} THEN "delivered"
                              ELSE IF Settled(i) THEN "given_up" ELSE "open"]
Implements == Promise!Spec
=============================================================================
