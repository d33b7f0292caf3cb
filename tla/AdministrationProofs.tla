-------------------------- MODULE AdministrationProofs --------------------------
(***************************************************************************)
(* Proofs about the administration: the background worker settles its rows *)
(* truthfully (module Worker, for any number of workers, rows, attempts    *)
(* and faults), a change to the members is written as it was previewed     *)
(* and, when everything offered is written, leaves nothing to do (modules  *)
(* Members, People and MemberImport, for any export and any people), the   *)
(* settings of the diagnostics are kept (module Logging), and a change to  *)
(* the program is numbered, tested and released in order (Workflow).       *)
(***************************************************************************)
EXTENDS Worker, People, MemberImport, Logging, Workflow, TLAPS

-----------------------------------------------------------------------------
(* The background worker.                                                  *)
-----------------------------------------------------------------------------
(***************************************************************************)
(* The strengthening: a worker that runs holds a row that was inserted,    *)
(* and once its handler has returned, that row's effect is committed.      *)
(***************************************************************************)
HoldsInsertedRow ==
  \A w \in Workers : Running(w) => item[w] \in Items /\ status[item[w]] # "absent"

RanHasEffect == \A w \in Workers : phase[w] = "ran" => effected[item[w]]

IInv == TypeOK /\ HoldsInsertedRow /\ RanHasEffect
               /\ OwnerRunsLatestAttempt /\ DeliveredHasEffect

LEMMA InitIInv == Init => IInv
BY NoneAssumption, MaxFaultsAssumption
   DEF Init, IInv, TypeOK, HoldsInsertedRow, RanHasEffect, OwnerRunsLatestAttempt,
       DeliveredHasEffect, Running, Statuses, Phases

(***************************************************************************)
(* The updates of a row and of a worker keep the types.                    *)
(***************************************************************************)
RowTypes == /\ status \in [Items -> Statuses] /\ due \in [Items -> BOOLEAN]
            /\ owner \in [Items -> Workers \cup {None}]
            /\ expired \in [Items -> BOOLEAN] /\ attempts \in [Items -> Nat]
WorkerTypes == /\ phase \in [Workers -> Phases]
               /\ item \in [Workers -> Items \cup {None}]
               /\ attempt \in [Workers -> Nat]

LEMMA LeaseTypes ==
  ASSUME RowTypes, NEW w \in Workers, NEW i \in Items, Lease(w, i) PROVE RowTypes'
BY DEF RowTypes, Lease, Statuses

LEMMA ReleaseTypes ==
  ASSUME RowTypes, NEW w \in Workers, item[w] \in Items,
         NEW s \in Statuses, NEW d \in BOOLEAN, Release(w, s, d)
  PROVE  RowTypes'
BY DEF RowTypes, Release

LEMMA ForgetTypes ==
  ASSUME WorkerTypes, NEW w \in Workers, Forget(w) PROVE WorkerTypes'
BY DEF WorkerTypes, Forget, Phases

\* Type correctness is preserved by every step.
LEMMA TypePreserved == IInv /\ [Next]_vars => TypeOK'
<1> SUFFICES ASSUME IInv, [Next]_vars PROVE TypeOK'
  OBVIOUS
<1> USE DEF IInv, TypeOK, Statuses, Phases, rowVars, workerVars
<1>1. ASSUME NEW i \in Items, Enqueue(i) \/ BecomesDue(i) PROVE TypeOK'
  BY <1>1 DEF Enqueue, BecomesDue
<1>1a. ASSUME NEW i \in Items, LeaseExpires(i) PROVE TypeOK'
  <2>1. faults' \in Nat
    <3>1. CASE HeldInMemory(i)
      BY <1>1a, <3>1 DEF LeaseExpires
    <3>2. CASE ~HeldInMemory(i)
      BY <1>1a, <3>2 DEF LeaseExpires
    <3> QED BY <3>1, <3>2
  <2> QED
    BY <1>1a, <2>1 DEF LeaseExpires
<1>2. ASSUME NEW w \in Workers, NEW i \in Items, Claim(w, i) \/ ClaimAnswerLost(w, i)
      PROVE TypeOK'
  <2>1. RowTypes' /\ effected' = effected
    BY <1>2, LeaseTypes DEF Claim, ClaimAnswerLost, RowTypes, Lease
  <2>2. CASE Claim(w, i)
    BY <2>1, <2>2 DEF Claim, RowTypes
  <2>3. CASE ClaimAnswerLost(w, i)
    BY <2>1, <2>3 DEF ClaimAnswerLost, RowTypes
  <2> QED BY <1>2, <2>2, <2>3
<1>3. ASSUME NEW w \in Workers, NoJob(w) \/ NoOutbox(w) \/ Crash(w) PROVE TypeOK'
  BY <1>3 DEF NoJob, NoOutbox, Crash, Forget
<1>4. ASSUME NEW w \in Workers, HandlerSucceeds(w) \/ HandlerThrows(w) PROVE TypeOK'
  <2>1. CASE HandlerSucceeds(w)
    BY <2>1 DEF HandlerSucceeds
  <2>2. CASE HandlerThrows(w)
    <3>1. PICK kept \in BOOLEAN, code \in {"threw", "unclear"} :
            /\ effected' = [effected EXCEPT ![item[w]] = @ \/ kept]
            /\ phase' = [phase EXCEPT ![w] = code]
      BY <2>2 DEF HandlerThrows
    <3>2. effected' \in [Items -> BOOLEAN]
      <4>1. (effected[item[w]] \/ kept) \in BOOLEAN
        BY Zenon
      <4> QED BY <3>1, <4>1
    <3> QED BY <2>2, <3>1, <3>2 DEF HandlerThrows
  <2> QED BY <1>4, <2>1, <2>2
<1>5. ASSUME NEW w \in Workers, CompleteSuccess(w) PROVE TypeOK'
  <2>1. item[w] \in Items
    BY <1>5 DEF CompleteSuccess, HoldsInsertedRow, Running
  <2>2. DoneStatus(item[w]) \in Statuses /\ due[item[w]] \in BOOLEAN
    BY <2>1 DEF DoneStatus
  <2>3. RowTypes'
    BY <1>5, <2>1, <2>2, ReleaseTypes DEF CompleteSuccess, RowTypes
  <2>4. WorkerTypes'
    BY <1>5, ForgetTypes DEF CompleteSuccess, WorkerTypes
  <2>5. effected' = effected /\ faults' \in Nat
    BY <1>5 DEF CompleteSuccess
  <2> QED
    BY <2>3, <2>4, <2>5 DEF RowTypes, WorkerTypes
<1>6. ASSUME NEW w \in Workers, CompleteFailure(w) PROVE TypeOK'
  <2>1. item[w] \in Items
    BY <1>6 DEF CompleteFailure, HoldsInsertedRow, Running
  <2>2. Verdict(w) \in Statuses
    BY DEF Verdict, DeadStatus, RetryStatus
  <2>3. (Verdict(w) # RetryStatus(item[w]) /\ due[item[w]]) \in BOOLEAN
    OBVIOUS
  <2>4. RowTypes'
    BY <1>6, <2>1, <2>2, <2>3, ReleaseTypes DEF CompleteFailure, RowTypes
  <2>5. WorkerTypes'
    BY <1>6, ForgetTypes DEF CompleteFailure, WorkerTypes
  <2>6. effected' = effected /\ faults' \in Nat
    BY <1>6 DEF CompleteFailure
  <2> QED
    BY <2>4, <2>5, <2>6 DEF RowTypes, WorkerTypes
<1>7. CASE UNCHANGED vars
  BY <1>7 DEF vars
<1> QED
  BY <1>1, <1>1a, <1>2, <1>3, <1>4, <1>5, <1>6, <1>7 DEF Next, WorkerStep

LEMMA IInvPreserved == IInv /\ [Next]_vars => IInv'
<1> SUFFICES ASSUME IInv, [Next]_vars PROVE IInv'
  OBVIOUS
<1>t. TypeOK'
  BY TypePreserved
<1> USE NoneAssumption
<1> DEFINE Goal == (HoldsInsertedRow /\ RanHasEffect /\ OwnerRunsLatestAttempt /\ DeliveredHasEffect)'
<1> USE DEF IInv, TypeOK, rowVars, workerVars, Running,
            HoldsInsertedRow, RanHasEffect, OwnerRunsLatestAttempt, DeliveredHasEffect
<1>1. ASSUME NEW i \in Items, Enqueue(i) \/ BecomesDue(i) \/ LeaseExpires(i) PROVE Goal
  BY <1>1 DEF Enqueue, BecomesDue, LeaseExpires
<1>2. ASSUME NEW w \in Workers, NEW i \in Items, Claim(w, i) PROVE Goal
  <2> USE <1>2 DEF Claim, Lease
  <2>1. phase[w] \in {"idle", "outbox"}
    OBVIOUS
  <2>2. HoldsInsertedRow' /\ RanHasEffect' /\ DeliveredHasEffect'
    OBVIOUS
  <2>3. ASSUME NEW v \in Workers, Running(v)', owner'[item'[v]] = v
        PROVE attempt'[v] = attempts'[item'[v]]
    <3>1. CASE v = w
      BY <3>1
    <3>2. CASE v # w
      BY <3>2, <2>3
    <3> QED BY <3>1, <3>2
  <2> QED BY <2>2, <2>3
<1>3. ASSUME NEW w \in Workers, NEW i \in Items, ClaimAnswerLost(w, i) PROVE Goal
  <2> USE <1>3 DEF ClaimAnswerLost, Lease
  <2>1. HoldsInsertedRow' /\ RanHasEffect' /\ DeliveredHasEffect'
    OBVIOUS
  <2>2. ASSUME NEW v \in Workers, Running(v)', owner'[item'[v]] = v
        PROVE attempt'[v] = attempts'[item'[v]]
    <3>1. v # w
      BY <2>2
    <3>2. item[v] # i
      BY <2>2, <3>1
    <3> QED BY <2>2, <3>1, <3>2
  <2> QED BY <2>1, <2>2
<1>4. ASSUME NEW w \in Workers, NoJob(w) \/ NoOutbox(w) \/ Crash(w) PROVE Goal
  BY <1>4 DEF NoJob, NoOutbox, Crash, Forget
<1>5. ASSUME NEW w \in Workers, HandlerSucceeds(w) \/ HandlerThrows(w) PROVE Goal
  BY <1>5 DEF HandlerSucceeds, HandlerThrows
<1>6. ASSUME NEW w \in Workers, CompleteSuccess(w) PROVE Goal
  <2> USE <1>6 DEF CompleteSuccess
  <2>1. item[w] \in Items /\ status[item[w]] # "absent" /\ effected[item[w]]
    OBVIOUS
  <2> USE <2>1 DEF Release, Forget, DoneStatus, OwnsLease
  <2>2. HoldsInsertedRow' /\ RanHasEffect' /\ DeliveredHasEffect'
    OBVIOUS
  <2>3. OwnerRunsLatestAttempt'
    OBVIOUS
  <2> QED BY <2>2, <2>3
<1>7. ASSUME NEW w \in Workers, CompleteFailure(w) PROVE Goal
  <2> USE <1>7 DEF CompleteFailure
  <2>1. item[w] \in Items /\ status[item[w]] # "absent"
    OBVIOUS
  <2>2. Verdict(w) \in {"unknown", "dead", "failed", "retrying"}
    BY DEF Verdict, DeadStatus, RetryStatus
  <2> USE <2>1, <2>2 DEF Release, Forget, OwnsLease
  <2>3. HoldsInsertedRow' /\ RanHasEffect' /\ DeliveredHasEffect'
    OBVIOUS
  <2>4. OwnerRunsLatestAttempt'
    OBVIOUS
  <2> QED BY <2>3, <2>4
<1>8. CASE UNCHANGED vars
  BY <1>8 DEF vars
<1> QED
  BY <1>t, <1>1, <1>2, <1>3, <1>4, <1>5, <1>6, <1>7, <1>8 DEF Next, WorkerStep

THEOREM IInvariant == Spec => []IInv
BY InitIInv, IInvPreserved, PTL DEF Spec

(***************************************************************************)
(* The worker id alone fences every settling UPDATE: whoever passes the    *)
(* owner check runs the row's latest attempt; and no row is recorded as    *)
(* success or sent unless its handler took effect.                         *)
(***************************************************************************)
THEOREM SettlesTruthfully == Spec => []SettledTruthfully
<1>1. IInv => SettledTruthfully BY DEF IInv, SettledTruthfully
<1>2. QED BY <1>1, IInvariant, PTL

-----------------------------------------------------------------------------
\* No step touches a settled row.
LEMMA StepFinal == IInv /\ [Next]_vars => SettledRowsKept
<1> SUFFICES ASSUME IInv, [Next]_vars, NEW j \in Items, Settled(j)
             PROVE  status'[j] = status[j] /\ attempts'[j] = attempts[j]
  BY DEF SettledRowsKept
<1> USE DEF IInv, TypeOK, Settled, rowVars, workerVars
<1>1. ASSUME NEW i \in Items, Enqueue(i) \/ BecomesDue(i) \/ LeaseExpires(i)
      PROVE  status'[j] = status[j] /\ attempts'[j] = attempts[j]
  BY <1>1 DEF Enqueue, BecomesDue, LeaseExpires
<1>2. ASSUME NEW w \in Workers, NEW i \in Items, Claim(w, i) \/ ClaimAnswerLost(w, i)
      PROVE  status'[j] = status[j] /\ attempts'[j] = attempts[j]
  <2>1. Claimable(i) /\ Lease(w, i)
    BY <1>2 DEF Claim, ClaimAnswerLost
  <2>2. i # j
    BY <2>1 DEF Claimable
  <2> QED BY <2>1, <2>2 DEF Lease
<1>3. ASSUME NEW w \in Workers,
             NoJob(w) \/ NoOutbox(w) \/ HandlerSucceeds(w) \/ HandlerThrows(w) \/ Crash(w)
      PROVE  status'[j] = status[j] /\ attempts'[j] = attempts[j]
  BY <1>3 DEF NoJob, NoOutbox, HandlerSucceeds, HandlerThrows, Crash
<1>4. ASSUME NEW w \in Workers, CompleteSuccess(w) \/ CompleteFailure(w)
      PROVE  status'[j] = status[j] /\ attempts'[j] = attempts[j]
  <2>1. item[w] \in Items
    BY <1>4 DEF CompleteSuccess, CompleteFailure, HoldsInsertedRow, Running
  <2>2. \/ UNCHANGED rowVars
        \/ OwnsLease(w) /\ \E s, d : Release(w, s, d)
    BY <1>4 DEF CompleteSuccess, CompleteFailure
  <2>3. CASE UNCHANGED rowVars
    BY <2>3
  <2>4. CASE OwnsLease(w) /\ \E s, d : Release(w, s, d)
    <3>1. item[w] # j
      BY <2>4 DEF OwnsLease
    <3> QED BY <2>1, <2>4, <3>1 DEF Release
  <2> QED BY <2>2, <2>3, <2>4
<1>5. CASE UNCHANGED vars
  BY <1>5 DEF vars
<1> QED
  BY <1>1, <1>2, <1>3, <1>4, <1>5 DEF Next, WorkerStep

(* A settled row never changes again, however late a worker comes back. *)
THEOREM SettledFinal == Spec => SettledIsFinal
BY StepFinal, IInvariant, PTL DEF Spec, SettledIsFinal
-----------------------------------------------------------------------------
(***************************************************************************)
(* Refinement: every step is a step of module Delivery or a stutter of it. *)
(***************************************************************************)
Outcome == [i \in Items |-> IF status[i] = "absent" THEN "absent"
                            ELSE IF status[i] \in {"success", "sent"} THEN "delivered"
                            ELSE IF Settled(i) THEN "given_up" ELSE "open"]

LEMMA SameOutcome ==
  ASSUME TypeOK, UNCHANGED status PROVE Outcome' = Outcome
BY DEF Outcome, Settled

LEMMA InitRefines == Init => Promise!Init
BY DEF Init, Promise!Init

LEMMA StepRefines == IInv /\ [Next]_vars => [Promise!Next]_(Promise!vars)
<1> SUFFICES ASSUME IInv, [Next]_vars
             PROVE  Promise!Next \/ UNCHANGED <<Outcome, effected>>
  BY DEF Promise!vars, Outcome
<1> USE DEF IInv, TypeOK, rowVars, workerVars
<1>1. ASSUME NEW i \in Items, Enqueue(i) PROVE Promise!Enqueue(i)
  <2>1. status[i] = "absent" /\ status' = [status EXCEPT ![i] = "pending"] /\ effected' = effected
    BY <1>1 DEF Enqueue
  <2>2. Outcome' = [Outcome EXCEPT ![i] = "open"]
    BY <2>1 DEF Outcome, Settled
  <2> QED
    BY <2>1, <2>2 DEF Promise!Enqueue, Outcome
<1>2. ASSUME NEW i \in Items, BecomesDue(i) \/ LeaseExpires(i)
      PROVE  UNCHANGED <<Outcome, effected>>
  BY <1>2, SameOutcome DEF BecomesDue, LeaseExpires
<1>3. ASSUME NEW w \in Workers, NEW i \in Items, Claim(w, i) \/ ClaimAnswerLost(w, i)
      PROVE  UNCHANGED <<Outcome, effected>>
  <2>1. Claimable(i) /\ Lease(w, i)
    BY <1>3 DEF Claim, ClaimAnswerLost
  <2>2. status[i] \in {"pending", "retrying", "failed", "leased"}
    BY <2>1 DEF Claimable
  <2> QED BY <2>1, <2>2 DEF Lease, Outcome, Settled
<1>4. ASSUME NEW w \in Workers, NoJob(w) \/ NoOutbox(w) \/ Crash(w)
      PROVE  UNCHANGED <<Outcome, effected>>
  BY <1>4, SameOutcome DEF NoJob, NoOutbox, Crash
<1>5. ASSUME NEW w \in Workers, HandlerSucceeds(w) \/ HandlerThrows(w)
      PROVE  Promise!Next \/ UNCHANGED <<Outcome, effected>>
  <2>1. item[w] \in Items /\ status[item[w]] # "absent"
    BY <1>5 DEF HandlerSucceeds, HandlerThrows, HoldsInsertedRow, Running
  <2>2. Outcome' = Outcome
    BY <1>5, SameOutcome DEF HandlerSucceeds, HandlerThrows
  <2>3. effected' = effected \/ effected' = [effected EXCEPT ![item[w]] = TRUE]
    <3>1. CASE HandlerSucceeds(w)
      BY <3>1 DEF HandlerSucceeds
    <3>2. CASE HandlerThrows(w)
      <4>1. PICK kept \in BOOLEAN :
              effected' = [effected EXCEPT ![item[w]] = effected[item[w]] \/ kept]
        BY <3>2 DEF HandlerThrows
      <4>2. CASE kept
        BY <4>1, <4>2
      <4>3. CASE ~kept
        BY <4>1, <4>3, <2>1
      <4> QED BY <4>2, <4>3
    <3> QED BY <1>5, <3>1, <3>2
  <2>4. CASE effected' = [effected EXCEPT ![item[w]] = TRUE]
    <3>1. Promise!TakeEffect(item[w])
      BY <2>1, <2>2, <2>4 DEF Promise!TakeEffect, Outcome, Settled
    <3> QED BY <2>1, <3>1 DEF Promise!Next
  <2> QED BY <2>2, <2>3, <2>4
<1>6. ASSUME NEW w \in Workers, CompleteSuccess(w) \/ CompleteFailure(w)
      PROVE  Promise!Next \/ UNCHANGED <<Outcome, effected>>
  <2>1. item[w] \in Items /\ status[item[w]] # "absent" /\ effected' = effected
    BY <1>6 DEF CompleteSuccess, CompleteFailure, HoldsInsertedRow, Running
  <2>i. PICK i \in Items : i = item[w]
    BY <2>1
  <2>2. \/ UNCHANGED rowVars
        \/ OwnsLease(w) /\ effected[item[w]] /\ Release(w, DoneStatus(item[w]), due[item[w]])
        \/ OwnsLease(w) /\ \E d : Release(w, Verdict(w), d)
    BY <1>6 DEF CompleteSuccess, CompleteFailure, RanHasEffect
  <2>3. CASE UNCHANGED rowVars
    BY <2>1, <2>3, SameOutcome
  <2>4. CASE OwnsLease(w) /\ effected[item[w]] /\ Release(w, DoneStatus(item[w]), due[item[w]])
    <3>1. status' = [status EXCEPT ![item[w]] = DoneStatus(item[w])] /\ status[item[w]] = "leased"
      BY <2>4 DEF Release, OwnsLease
    <3>2. DoneStatus(item[w]) \in {"sent", "success"}
      BY DEF DoneStatus
    <3>3. Outcome' = [Outcome EXCEPT ![item[w]] = "delivered"] /\ Outcome[item[w]] = "open"
      BY <2>1, <3>1, <3>2 DEF Outcome, Settled
    <3>4. Promise!Settle(i)
      BY <2>1, <2>i, <2>4, <3>3 DEF Promise!Settle, Outcome
    <3> QED BY <3>4 DEF Promise!Next
  <2>5. CASE OwnsLease(w) /\ \E d : Release(w, Verdict(w), d)
    <3>1. status' = [status EXCEPT ![item[w]] = Verdict(w)] /\ status[item[w]] = "leased"
      BY <2>5 DEF Release, OwnsLease
    <3>2. Verdict(w) \in {"unknown", "dead", "failed", "retrying"}
      BY DEF Verdict, DeadStatus, RetryStatus
    <3>3. Outcome[item[w]] = "open"
      BY <2>1, <3>1 DEF Outcome, Settled
    <3>4. CASE Verdict(w) \in {"unknown", "dead"}
      <4>1. Outcome' = [Outcome EXCEPT ![item[w]] = "given_up"]
        BY <2>1, <3>1, <3>4 DEF Outcome, Settled
      <4>2. Promise!Settle(i)
        BY <2>1, <2>i, <3>3, <4>1 DEF Promise!Settle, Outcome
      <4> QED BY <4>2 DEF Promise!Next
    <3>5. CASE Verdict(w) \in {"failed", "retrying"}
      BY <2>1, <3>1, <3>5 DEF Outcome, Settled
    <3> QED BY <3>2, <3>4, <3>5
  <2> QED BY <2>2, <2>3, <2>4, <2>5
<1>7. CASE UNCHANGED vars
  BY <1>7, SameOutcome DEF vars
<1> QED
  BY <1>1, <1>2, <1>3, <1>4, <1>5, <1>6, <1>7 DEF Next, WorkerStep, Promise!Next

(***************************************************************************)
(* The worker keeps the promise of module Delivery: settled at most once,  *)
(* delivered only after the handler took effect.                           *)
(***************************************************************************)
THEOREM ImplementsDelivery == Spec => Implements
BY InitRefines, StepRefines, IInvariant, PTL DEF Spec, Implements, Promise!Spec

-----------------------------------------------------------------------------
(* The comparison: an entry that can be acted on is known by its signature. *)

Acts(rows, people) == {e \in Entries(rows, people) : e.category \in Actionable}
RequestOf(e) == ActionRequest(e, Choosable(e))

LEMMA EntryFields ==
  ASSUME NEW category, NEW row, NEW id, NEW person, NEW login
  PROVE  LET e == Entry(category, row, id, person, login)
         IN e.category = category /\ e.row = row /\ e.id = id /\ e.person = person /\ e.login = login
  BY DEF Entry

\* An entry says "missing" exactly when no row of the export stands behind it.
LEMMA EntryOrigin ==
  ASSUME NEW rows, NEW people, NEW e \in Acts(rows, people)
  PROVE  /\ IF e.category = "missing" THEN e.row = NoRow ELSE e.row \in rows
         /\ e = Entry(e.category, e.row, e.id, e.person, e.login)
  <1>1. CASE \E row \in rows : e = RowEntry(row, rows, people)
    <2>1. PICK row \in rows : e = RowEntry(row, rows, people)  BY <1>1
    <2>2. PICK id, person, login : e = Entry(Category(row, rows, people), row, id, person, login)
      BY <2>1 DEF RowEntry
    <2>3. Category(row, rows, people) # "missing"  BY DEF Category
    <2> QED  BY <2>2, <2>3, EntryFields
  <1>2. CASE \E i \in Ids(people) \ Handled(rows, people) : e = PersonEntry(i, people)
    <2>1. PICK i \in Ids(people) : e = PersonEntry(i, people)  BY <1>2
    <2>2. PICK category : e = Entry(category, NoRow, i, people[i], 0) /\ category \in {"missing", "identical"}
      BY <2>1 DEF PersonEntry
    <2>3. e.category \in Actionable  BY DEF Acts
    <2>4. category = "missing"  BY <2>2, <2>3, EntryFields DEF Actionable
    <2> QED  BY <2>2, <2>4, EntryFields
  <1> QED  BY <1>1, <1>2 DEF Acts, Entries

LEMMA SignatureIdentifies ==
  ASSUME NEW rows, \A r1, r2 \in rows : r1.ext = r2.ext => r1 = r2,
         NEW before, NEW after, NEW m \in Acts(rows, before), NEW e \in Acts(rows, after), Signature(m) = Signature(e)
  PROVE  m = e
  <1>1. /\ m.category = e.category /\ m.id = e.id /\ m.person = e.person /\ m.row.ext = e.row.ext /\ m.login = e.login
    BY DEF Signature
  <1>2. m.row = e.row  BY <1>1, EntryOrigin
  <1> QED  BY <1>1, <1>2, EntryOrigin

-----------------------------------------------------------------------------
(* The pages.                                                              *)

PageFields == {"shown", "marks", "load", "notified", "busy", "preview", "todo", "touched"}

\* What a page that reconciles has selected stands in what it shows; an open preview lists it all, and what is still
\* to be sent was listed.
PageSound(q, g) ==
  /\ PageFields \subseteq DOMAIN g
  /\ Kind(q) = "reconcile" =>
       /\ g.marks \subseteq Acts(Export(q), g.shown)
       /\ g.preview.open => {RequestOf(m) : m \in g.marks} \subseteq g.preview.of
       /\ g.todo \subseteq g.preview.of
       /\ ~g.busy => g.todo = {}
       /\ \A r \in g.todo : r.action # "normalize"

CallFields == {"page", "request", "stage", "reply", "listening"}
CallSound(c) ==
  /\ CallFields \subseteq DOMAIN c
  /\ c.page \in PeoplePages
  /\ Kind(c.page) = "reconcile" => c.request.action # "normalize"

PagesInv ==
  /\ scene \in PeopleScenes
  /\ DOMAIN pages = PeoplePages
  /\ \A q \in PeoplePages : PageSound(q, pages[q])
CallsInv == \A c \in calls : CallSound(c)

LEMMA SelectionFits ==
  ASSUME PagesInv, NEW q \in PeoplePages, Kind(q) = "reconcile", NEW people
  PROVE  /\ StillSelected(q, pages[q], people) \subseteq pages[q].marks
         /\ StillSelected(q, pages[q], people) \subseteq Acts(Export(q), people)
         /\ pages[q].marks \subseteq StillSelected(q, pages[q], pages[q].shown)
  <1>1. pages[q].marks \subseteq Acts(Export(q), pages[q].shown)  BY DEF PagesInv, PageSound
  <1>2. \A r1, r2 \in Export(q) : r1.ext = r2.ext => r1 = r2
    BY PeopleAssumption DEF PagesInv, Export, PeoplePages
  <1>3. ASSUME NEW e \in StillSelected(q, pages[q], people)  PROVE e \in pages[q].marks /\ e \in Acts(Export(q), people)
    <2>1. e \in Acts(Export(q), people) /\ \E m \in pages[q].marks : Signature(m) = Signature(e)
      BY <1>3 DEF StillSelected, Acts
    <2>2. PICK m \in pages[q].marks : Signature(m) = Signature(e)  BY <2>1
    <2>3. m = e  BY <1>1, <1>2, <2>1, <2>2, SignatureIdentifies
    <2> QED  BY <2>1, <2>3
  <1>4. pages[q].marks \subseteq StillSelected(q, pages[q], pages[q].shown)
    BY <1>1 DEF StillSelected, Acts
  <1> QED  BY <1>3, <1>4

\* A step changes one page, and that one stays sound.
LEMMA OnePage ==
  ASSUME PagesInv, UNCHANGED scene, NEW q \in PeoplePages, NEW g, pages' = [pages EXCEPT ![q] = g], PageSound(q, g)
  PROVE  PagesInv'
  <1>1. DOMAIN pages' = PeoplePages /\ pages'[q] = g /\ \A p \in PeoplePages : p # q => pages'[p] = pages[p]
    BY DEF PagesInv
  <1>2. PeoplePages' = PeoplePages  BY DEF PeoplePages
  <1>3. \A p, h : PageSound(p, h) => PageSound(p, h)'  BY DEF PageSound, Kind, Export
  <1>4. \A p \in PeoplePages : PageSound(p, pages'[p])  BY <1>1 DEF PagesInv
  <1>5. \A p \in PeoplePages' : PageSound(p, pages[p])'
    <2> TAKE p \in PeoplePages'
    <2>1. PICK h : h = pages'[p]  OBVIOUS
    <2>2. PageSound(p, h)'  BY <1>2, <1>3, <1>4, <2>1
    <2> QED  BY <2>1, <2>2
  <1> QED  BY <1>1, <1>2, <1>5 DEF PagesInv


LEMMA EditKeeps == ASSUME PagesInv, NEW q \in PeoplePages, Edit(q)  PROVE PagesInv'
  <1>1. Kind(q) = "normalize" /\ UNCHANGED scene  BY DEF Edit
  <1>2. PICK edit : pages' = [pages EXCEPT ![q].marks = (edit.id :> [Draft(pages[q], edit.id) EXCEPT ![edit.field] = edit.value]) @@ pages[q].marks,
                                           ![q].touched = pages[q].touched \cup {<<edit.id, edit.field>>}]
    BY DEF Edit
  <1>3. PICK marks, touched : pages' = [pages EXCEPT ![q].marks = marks, ![q].touched = touched]  BY <1>2
  <1>4. DOMAIN pages = PeoplePages /\ PageSound(q, pages[q])  BY DEF PagesInv
  <1>5. PICK g : g = [pages[q] EXCEPT !.marks = marks, !.touched = touched]  OBVIOUS
  <1>6. pages' = [pages EXCEPT ![q] = g]  BY <1>3, <1>4, <1>5
  <1>7. PageSound(q, g)  BY <1>1, <1>4, <1>5 DEF PageSound
  <1> QED  BY <1>1, <1>6, <1>7, OnePage

LEMMA SelectKeeps == ASSUME PagesInv, NEW q \in PeoplePages, Select(q) \/ Deselect(q)  PROVE PagesInv'
  <1>1. UNCHANGED scene /\ ~pages[q].preview.open  BY DEF Select, Deselect, Closed, Idle
  <1>2. PICK marks : /\ pages' = [pages EXCEPT ![q].marks = marks]
                     /\ marks \subseteq pages[q].marks \cup Acts(Export(q), pages[q].shown)
    <2>1. CASE Select(q)
      <3>1. PICK e \in Acts(Export(q), pages[q].shown) : pages' = [pages EXCEPT ![q].marks = pages[q].marks \cup {e}]
        BY <2>1 DEF Select, Acts
      <3> QED  BY <3>1
    <2>2. CASE Deselect(q)
      <3>1. PICK e : pages' = [pages EXCEPT ![q].marks = pages[q].marks \ {e}]  BY <2>2 DEF Deselect
      <3> QED  BY <3>1
    <2> QED  BY <2>1, <2>2
  <1>3. PageSound(q, pages[q])  BY DEF PagesInv
  <1>4. PICK g : g = [pages[q] EXCEPT !.marks = marks]  OBVIOUS
  <1>5. pages' = [pages EXCEPT ![q] = g]  BY <1>2, <1>4
  <1>6. PageSound(q, g)  BY <1>1, <1>2, <1>3, <1>4 DEF PageSound, PageFields
  <1> QED  BY <1>1, <1>5, <1>6, OnePage

\* Only what is loaded or heard of changes.
LEMMA LoadChanges ==
  ASSUME NEW q, NEW g, PageSound(q, g), NEW load, NEW notified
  PROVE  /\ PageSound(q, [g EXCEPT !.load = load])
         /\ PageSound(q, [g EXCEPT !.notified = notified])
  BY DEF PageSound, PageFields

LEMMA AskedSound ==
  ASSUME NEW q, NEW g, PageSound(q, g), NEW preserve
  PROVE  PageSound(q, Asked(g, preserve))
  BY LoadChanges DEF Asked

LEMMA PreviewKeeps == ASSUME PagesInv, NEW q \in PeoplePages, OpenPreview(q) \/ ClosePreview(q)  PROVE PagesInv'
  <1>1. UNCHANGED scene /\ Idle(q)  BY DEF OpenPreview, ClosePreview, Closed
  <1>2. PageSound(q, pages[q])  BY DEF PagesInv
  <1>3. PICK preview : /\ pages' = [pages EXCEPT ![q].preview = preview]
                       /\ (Kind(q) = "reconcile" /\ preview.open) => {RequestOf(m) : m \in pages[q].marks} \subseteq preview.of
    <2>1. CASE OpenPreview(q)
      <3>1. pages' = [pages EXCEPT ![q].preview = [open |-> TRUE, of |-> Requests(q)]]  BY <2>1 DEF OpenPreview
      <3>2. Kind(q) = "reconcile" => {RequestOf(m) : m \in pages[q].marks} \subseteq Requests(q)
        BY SelectionFits DEF Requests, Reconciliations, RequestOf
      <3>3. PICK preview : preview = [open |-> TRUE, of |-> Requests(q)]  OBVIOUS
      <3>4. pages' = [pages EXCEPT ![q].preview = preview]  BY <3>1, <3>3
      <3>5. preview.of = Requests(q)  BY <3>3
      <3> QED  BY <3>2, <3>4, <3>5
    <2>2. CASE ClosePreview(q)
      <3>1. pages' = [pages EXCEPT ![q].preview = NotOpen]  BY <2>2 DEF ClosePreview
      <3>2. PICK preview : preview = NotOpen  OBVIOUS
      <3>3. pages' = [pages EXCEPT ![q].preview = preview]  BY <3>1, <3>2
      <3>4. ~preview.open  BY <3>2 DEF NotOpen
      <3> QED  BY <3>3, <3>4
    <2> QED  BY <2>1, <2>2
  <1>4. PICK g : g = [pages[q] EXCEPT !.preview = preview]  OBVIOUS
  <1>5. pages' = [pages EXCEPT ![q] = g]  BY <1>3, <1>4
  <1>6. PageSound(q, g)
    <2>1. "preview" \in DOMAIN pages[q]  BY <1>2 DEF PageSound, PageFields
    <2>2. g.preview = preview /\ g.marks = pages[q].marks /\ g.shown = pages[q].shown /\ g.todo = pages[q].todo
          /\ g.busy = pages[q].busy /\ DOMAIN g = DOMAIN pages[q]
      BY <1>4, <2>1
    <2>3. Kind(q) = "reconcile" => pages[q].todo = {}  BY <1>1, <1>2 DEF PageSound, Idle
    <2> QED  BY <1>2, <1>3, <2>2, <2>3 DEF PageSound
  <1> QED  BY <1>1, <1>5, <1>6, OnePage

LEMMA ReloadKeeps == ASSUME PagesInv, NEW q \in PeoplePages, Reload(q)  PROVE PagesInv'
  <1>1. UNCHANGED scene /\ PageSound(q, pages[q])  BY DEF Reload, PagesInv
  <1>2. CASE Kind(q) = "reconcile"
    <2>1. pages' = [pages EXCEPT ![q] = Asked(pages[q], TRUE)]  BY <1>2 DEF Reload
    <2> QED  BY <1>1, <2>1, AskedSound, OnePage
  <1>3. CASE Kind(q) # "reconcile"
    <2>1. PICK g : /\ g \in {[Asked(pages[q], FALSE) EXCEPT !.marks = pages[q].shown, !.touched = {}], Asked(pages[q], TRUE)}
                   /\ pages' = [pages EXCEPT ![q] = g]
      BY DEF Reload
    <2>2. DOMAIN g = DOMAIN pages[q]  BY <2>1 DEF Asked
    <2>3. PageSound(q, g)  BY <1>1, <1>3, <2>2 DEF PageSound
    <2> QED  BY <1>1, <2>1, <2>3, OnePage
  <1> QED  BY <1>2, <1>3

LEMMA SubmitKeeps == ASSUME PagesInv, NEW q \in PeoplePages, SubmitAll(q)  PROVE PagesInv'
  <1>1. UNCHANGED scene /\ PageSound(q, pages[q]) /\ pages[q].preview.open  BY DEF SubmitAll, PagesInv
  <1>2. PICK g : g = [pages[q] EXCEPT !.busy = TRUE, !.todo = Requests(q)]  OBVIOUS
  <1>3. pages' = [pages EXCEPT ![q] = g]  BY <1>2 DEF SubmitAll
  <1>4. Kind(q) = "reconcile" => Requests(q) \subseteq pages[q].preview.of
    <2>1. Kind(q) = "reconcile" => Requests(q) \subseteq {RequestOf(m) : m \in pages[q].marks}
      BY SelectionFits DEF Requests, Reconciliations, RequestOf
    <2> QED  BY <1>1, <2>1 DEF PageSound
  <1>5. PageSound(q, g)
    <2>1. {"busy", "todo"} \subseteq DOMAIN pages[q]  BY <1>1 DEF PageSound, PageFields
    <2>2. g.preview = pages[q].preview /\ g.marks = pages[q].marks /\ g.shown = pages[q].shown /\ g.todo = Requests(q)
          /\ g.busy = TRUE /\ DOMAIN g = DOMAIN pages[q]
      BY <1>2, <2>1
    <2>3. Kind(q) = "reconcile" => \A r \in Requests(q) : r.action # "normalize"
      BY DEF Requests, Reconciliations, ActionRequest, Request
    <2> QED  BY <1>1, <1>4, <2>2, <2>3 DEF PageSound
  <1> QED  BY <1>1, <1>3, <1>5, OnePage

\* The loop goes on or ends.
LEMMA ToldKeeps ==
  ASSUME PagesInv, NEW q \in PeoplePages, NEW r, Kind(q) = "reconcile" => r.action # "normalize",
         NEW reply, Told(q, r, reply), UNCHANGED scene
  PROVE  PagesInv'
  <1>1. PageSound(q, pages[q])  BY DEF PagesInv
  <1>2. \A h : PageSound(q, h) => PageSound(q, Ended(h)) /\ PageSound(q, Stopped(h))
    <2> TAKE h
    <2> HAVE PageSound(q, h)
    <2>1. PICK e : e = Ended(h)  OBVIOUS
    <2>2. /\ DOMAIN e = DOMAIN h /\ e.marks = h.marks /\ e.shown = h.shown /\ e.todo = {} /\ e.busy = FALSE
          /\ e.preview.open = FALSE
      BY <2>1 DEF Ended, NotOpen, PageSound, PageFields
    <2>3. PageSound(q, e)  BY <2>2 DEF PageSound
    <2> QED  BY <2>1, <2>3, AskedSound DEF Stopped
  <1>3. PICK g : g = Finished(pages[q], r)  OBVIOUS
  <1>4. PageSound(q, g)
    <2>1. /\ DOMAIN g = DOMAIN pages[q] /\ g.todo = pages[q].todo \ {r} /\ g.shown = pages[q].shown
          /\ g.preview = pages[q].preview /\ g.busy = pages[q].busy
          /\ r.action # "normalize" => g.marks \subseteq pages[q].marks
      BY <1>1, <1>3 DEF Finished, PageSound, PageFields
    <2> QED  BY <1>1, <2>1 DEF PageSound
  <1>5. PICK e : e = [Ended(g) EXCEPT !.marks = NoMarks(Kind(q), <<>>), !.touched = {}]  OBVIOUS
  <1>6. PageSound(q, e)
    <2>1. PICK d : d = Ended(g)  OBVIOUS
    <2>2. PageSound(q, d)  BY <1>2, <1>4, <2>1
    <2>3. e = [d EXCEPT !.marks = NoMarks(Kind(q), <<>>), !.touched = {}]  BY <1>5, <2>1
    <2>4. /\ DOMAIN e = DOMAIN d /\ e.todo = d.todo /\ e.shown = d.shown /\ e.preview = d.preview /\ e.busy = d.busy
          /\ Kind(q) = "reconcile" => e.marks = {}
      BY <2>2, <2>3 DEF PageSound, PageFields, NoMarks
    <2> QED  BY <2>2, <2>4 DEF PageSound
  <1>7. \E h \in {Stopped(pages[q]), g, Asked(e, FALSE)} : pages' = [pages EXCEPT ![q] = h]
    BY <1>3, <1>5 DEF Told
  <1> QED  BY <1>1, <1>2, <1>4, <1>6, <1>7, AskedSound, OnePage

LEMMA ArrivesKeeps == ASSUME PagesInv, NEW q \in PeoplePages, LoadArrives(q)  PROVE PagesInv'
  <1>1. PageSound(q, pages[q]) /\ UNCHANGED scene  BY DEF PagesInv, LoadArrives
  <1>2. PICK data, marks, touched :
          /\ pages' = [pages EXCEPT ![q] = [pages[q] EXCEPT !.shown = data, !.load = NoLoad, !.marks = marks, !.touched = touched]]
          /\ marks = NoMarks(Kind(q), data) \/ (data = pages[q].load.data /\ marks = Keep(q, pages[q]))
    BY DEF LoadArrives
  <1>3. PICK g : g = [pages[q] EXCEPT !.shown = data, !.load = NoLoad, !.marks = marks, !.touched = touched]  OBVIOUS
  <1>4. pages' = [pages EXCEPT ![q] = g]  BY <1>2, <1>3
  <1>5. /\ DOMAIN g = DOMAIN pages[q] /\ g.todo = pages[q].todo /\ g.shown = data /\ g.marks = marks
        /\ g.preview = pages[q].preview /\ g.busy = pages[q].busy
    BY <1>1, <1>3 DEF PageSound, PageFields
  <1>6. Kind(q) = "reconcile" => marks \subseteq pages[q].marks /\ marks \subseteq Acts(Export(q), data)
    BY <1>2, SelectionFits DEF Keep, NoMarks
  <1>7. PageSound(q, g)  BY <1>1, <1>5, <1>6 DEF PageSound
  <1> QED  BY <1>1, <1>4, <1>7, OnePage

LEMMA HeardKeeps == ASSUME PagesInv, NEW q \in PeoplePages, LoadFails(q) \/ Notified(q)  PROVE PagesInv'
  <1>1. PageSound(q, pages[q]) /\ UNCHANGED scene  BY DEF PagesInv, LoadFails, Notified
  <1>2. CASE LoadFails(q)
    <2>1. pages' = [pages EXCEPT ![q] = [pages[q] EXCEPT !.load = NoLoad]]  BY <1>2 DEF LoadFails
    <2>2. PageSound(q, [pages[q] EXCEPT !.load = NoLoad])  BY <1>1, LoadChanges
    <2> QED  BY <1>1, <2>1, <2>2, OnePage
  <1>3. CASE Notified(q)
    <2>1. PICK seen : seen = [pages[q] EXCEPT !.notified = FALSE]  OBVIOUS
    <2>2. PageSound(q, seen)  BY <1>1, <2>1, LoadChanges
    <2>3. \E h \in {seen, Asked(seen, FALSE)} : pages' = [pages EXCEPT ![q] = h]  BY <1>3, <2>1 DEF Notified
    <2> QED  BY <1>1, <2>2, <2>3, AskedSound, OnePage
  <1> QED  BY <1>2, <1>3

LEMMA InvalidateKeeps == ASSUME PagesInv, Invalidate  PROVE PagesInv'
  <1>1. UNCHANGED scene /\ pages' = [q \in PeoplePages |-> [pages[q] EXCEPT !.notified = TRUE]]
    BY DEF Invalidate, Announced
  <1>2. \A q \in PeoplePages : PageSound(q, pages'[q])  BY <1>1, LoadChanges DEF PagesInv
  <1>3. PeoplePages' = PeoplePages  BY <1>1 DEF PeoplePages
  <1>4. \A p, h : PageSound(p, h) => PageSound(p, h)'  BY <1>1 DEF PageSound, Kind, Export
  <1>5. \A p \in PeoplePages' : PageSound(p, pages[p])'
    <2> TAKE p \in PeoplePages'
    <2>1. PICK h : h = pages'[p]  OBVIOUS
    <2>2. PageSound(p, h)'  BY <1>2, <1>3, <1>4, <2>1
    <2> QED  BY <2>1, <2>2
  <1> QED  BY <1>1, <1>3, <1>5 DEF PagesInv

-----------------------------------------------------------------------------
LEMMA PagesStep == ASSUME PagesInv, CallsInv, [PeopleNext]_peopleVars  PROVE PagesInv'
  <1>1. ASSUME NEW q \in PeoplePages,
               \/ Edit(q) \/ Select(q) \/ Deselect(q) \/ OpenPreview(q) \/ ClosePreview(q) \/ Reload(q) \/ SubmitAll(q)
               \/ LoadArrives(q) \/ LoadFails(q) \/ Notified(q)
        PROVE  PagesInv'
    BY <1>1, EditKeeps, SelectKeeps, PreviewKeeps, ReloadKeeps, SubmitKeeps, ArrivesKeeps, HeardKeeps
  <1>2. ASSUME UNCHANGED <<scene, pages>>  PROVE PagesInv'
    <2>1. PeoplePages' = PeoplePages  BY <1>2 DEF PeoplePages
    <2>2. \A p, h : PageSound(p, h) => PageSound(p, h)'  BY <1>2 DEF PageSound, Kind, Export
    <2>3. \A p \in PeoplePages' : PageSound(p, pages[p])'
      <3> TAKE p \in PeoplePages'
      <3>1. PICK h : h = pages'[p]  OBVIOUS
      <3>2. PageSound(p, h)'  BY <1>2, <2>1, <2>2, <3>1 DEF PagesInv
      <3> QED  BY <3>1, <3>2
    <2> QED  BY <1>2, <2>1, <2>3 DEF PagesInv
  <1>3. ASSUME NEW c \in calls, Answer(c) \/ Lost(c)  PROVE PagesInv'
    <2>1. \E reply : Told(c.page, c.request, reply)  BY <1>3 DEF Answer, Lost
    <2>2. CallSound(c) /\ UNCHANGED scene  BY <1>3 DEF CallsInv, Answer, Lost
    <2> QED  BY <2>1, <2>2, ToldKeeps DEF CallSound
  <1>4. ASSUME NEW c \in calls, Arrive(c) \/ Transact(c) \/ Refresh(c) \/ Unheard(c)  PROVE PagesInv'
    BY <1>2, <1>4 DEF Arrive, Transact, Refresh, Unheard
  <1>5. ASSUME NEW q \in PeoplePages, Send(q)  PROVE PagesInv'  BY <1>2, <1>5 DEF Send
  <1>6. CASE UNCHANGED peopleVars  BY <1>2, <1>6 DEF peopleVars
  <1> QED  BY <1>1, <1>3, <1>4, <1>5, <1>6, InvalidateKeeps DEF PeopleNext

LEMMA CallsStep == ASSUME PagesInv, CallsInv, [PeopleNext]_peopleVars  PROVE CallsInv'
  <1>1. UNCHANGED scene  
    <2>1. ASSUME NEW q \in PeoplePages,
               \/ Edit(q) \/ Select(q) \/ Deselect(q) \/ OpenPreview(q) \/ ClosePreview(q) \/ Reload(q) \/ SubmitAll(q)
               \/ LoadArrives(q) \/ LoadFails(q) \/ Notified(q) \/ Send(q)
          PROVE  UNCHANGED scene
      BY <2>1 DEF Edit, Select, Deselect, OpenPreview, ClosePreview, Reload, SubmitAll, LoadArrives, LoadFails, Notified, Send
    <2>2. ASSUME NEW c \in calls, Arrive(c) \/ Transact(c) \/ Refresh(c) \/ Unheard(c) \/ Answer(c) \/ Lost(c)
          PROVE  UNCHANGED scene
      BY <2>2 DEF Arrive, Transact, Refresh, Unheard, Answer, Lost
    <2> QED  BY <2>1, <2>2 DEF PeopleNext, Invalidate, peopleVars
  <1>2. \A c : CallSound(c) => CallSound(c)'  BY <1>1 DEF CallSound, PeoplePages, Kind
  <1>3. \A c \in calls' : CallSound(c)
    <2>1. ASSUME NEW q \in PeoplePages, Send(q)  PROVE \A c \in calls' : CallSound(c)
      <3>1. PICK r \in pages[q].todo :
              calls' = calls \cup {[page |-> q, request |-> r, stage |-> "sent", reply |-> "none", listening |-> TRUE]}
        BY <2>1 DEF Send
      <3>2. Kind(q) = "reconcile" => r.action # "normalize"  BY <3>1 DEF PagesInv, PageSound
      <3>3. CallSound([page |-> q, request |-> r, stage |-> "sent", reply |-> "none", listening |-> TRUE])
        BY <3>2 DEF CallSound, CallFields
      <3> QED  BY <3>1, <3>3 DEF CallsInv
    <2>2. ASSUME NEW c \in calls, NEW stage, NEW reply
          PROVE  CallSound([c EXCEPT !.stage = stage, !.reply = reply]) /\ CallSound([c EXCEPT !.listening = FALSE])
      BY DEF CallsInv, CallSound, CallFields
    <2>3. ASSUME NEW c \in calls, Arrive(c) \/ Transact(c) \/ Refresh(c)  PROVE \A d \in calls' : CallSound(d)
      <3>1. PICK stage, reply : Replaced(c, stage, reply)  BY <2>3 DEF Arrive, Transact, Refresh
      <3>2. PICK d : d = [c EXCEPT !.stage = stage, !.reply = reply]  OBVIOUS
      <3>3. CallSound(d)  BY <2>2, <3>2
      <3> QED  BY <3>1, <3>2, <3>3 DEF Replaced, CallsInv
    <2>4. ASSUME NEW c \in calls, Answer(c) \/ Unheard(c) \/ Lost(c)  PROVE \A d \in calls' : CallSound(d)
      <3>1. calls' = calls \ {c} \/ calls' = (calls \ {c}) \cup {[c EXCEPT !.listening = FALSE]}
        BY <2>4 DEF Answer, Unheard, Lost
      <3> QED  BY <2>2, <3>1 DEF CallsInv
    <2>5. ASSUME NEW q \in PeoplePages,
               \/ Edit(q) \/ Select(q) \/ Deselect(q) \/ OpenPreview(q) \/ ClosePreview(q) \/ Reload(q) \/ SubmitAll(q)
               \/ LoadArrives(q) \/ LoadFails(q) \/ Notified(q)
          PROVE  calls' = calls
      BY <2>5 DEF Edit, Select, Deselect, OpenPreview, ClosePreview, Reload, SubmitAll, LoadArrives, LoadFails, Notified
    <2>6. ASSUME calls' = calls  PROVE \A c \in calls' : CallSound(c)  BY <2>6 DEF CallsInv
    <2> QED  BY <2>1, <2>3, <2>4, <2>5, <2>6 DEF PeopleNext, Invalidate, peopleVars
  <1> QED  BY <1>2, <1>3 DEF CallsInv

LEMMA PagesInitially == PeopleInit => PagesInv /\ CallsInv
  <1> SUFFICES ASSUME PeopleInit PROVE PagesInv /\ CallsInv  OBVIOUS
  <1>1. \A q \in PeoplePages : PageSound(q, FreshPage(Kind(q), scene.people))
    BY DEF PageSound, PageFields, FreshPage, NoMarks, NotOpen
  <1>2. DOMAIN pages = PeoplePages /\ \A q \in PeoplePages : pages[q] = FreshPage(Kind(q), scene.people)
    BY DEF PeopleInit
  <1>3. calls = {} /\ scene \in PeopleScenes  BY DEF PeopleInit
  <1> QED  BY <1>1, <1>2, <1>3 DEF PagesInv, CallsInv

\* Whatever an administrator ticks, whatever others write and however loads, answers and failures cross the preview:
\* a request of the page that compares members is sent only if the confirmed preview listed it, with the same person,
\* values and fingerprint.
THEOREM PreviewIsBinding == PeopleSpec => []WrittenAsPreviewed
  <1>1. PeopleInit => PagesInv /\ CallsInv  BY PagesInitially
  <1>2. PagesInv /\ CallsInv /\ [PeopleNext]_peopleVars => PagesInv' /\ CallsInv'  BY PagesStep, CallsStep
  <1>3. PagesInv => WrittenAsPreviewed  BY DEF PagesInv, PageSound, WrittenAsPreviewed
  <1> QED  BY <1>1, <1>2, <1>3, PTL DEF PeopleSpec


-----------------------------------------------------------------------------
(* A complete import.                                                      *)

RowsSound(rows) == \A r \in rows : r.ext # 0 /\ r.member # 0 /\ \A o \in rows : o.ext = r.ext => o = r

\* Ids are numbers from 1 on with a largest one, and nobody shares a CD-ID.
PeopleSound(people) ==
  /\ 0 \notin Ids(people) /\ Ids(people) \subseteq Nat
  /\ \E m \in Ids(people) : \A p \in Ids(people) : p <= m
  /\ \A p \in Ids(people) : PersonFields \subseteq DOMAIN people[p]
  /\ \A p, o \in Ids(people) : (people[p].ext # 0 /\ people[p].ext = people[o].ext) => p = o

LEMMA MatchedOne ==
  ASSUME NEW row, NEW people, Matches(row, people) # {}
  PROVE  Match(row, people) \in Matches(row, people) /\ Match(row, people) \in Ids(people)
  BY DEF Match, Matches, ByExternalId, ByIdentity

LEMMA RowEntryIs ==
  ASSUME NEW row, NEW rows, NEW people
  PROVE  LET e == RowEntry(row, rows, people)
         IN /\ e.category = Category(row, rows, people) /\ e.row = row
            /\ e.category # "conflict" => /\ e.id = Match(row, people)
                                          /\ e.person = IF e.id = 0 THEN Nobody ELSE people[e.id]
            /\ e.login = IF e.category = "new" THEN ProposedLogin(row, rows, people) ELSE 0
  BY DEF RowEntry, Entry

\* What stands behind an entry that can be acted on.
LEMMA MissingIs ==
  ASSUME NEW rows, NEW people, NEW e \in Acts(rows, people), e.category = "missing"
  PROVE  /\ e.id \in Ids(people) \ Handled(rows, people) /\ e = PersonEntry(e.id, people) /\ e.person = people[e.id]
         /\ people[e.id].active /\ ~Privileged(people[e.id])
  <1>1. \A row : RowEntry(row, rows, people).category # "missing"  BY RowEntryIs DEF Category
  <1>2. PICK i \in Ids(people) \ Handled(rows, people) : e = PersonEntry(i, people)  BY <1>1 DEF Acts, Entries
  <1>3. e.id = i /\ e.person = people[i]  BY <1>2 DEF PersonEntry, Entry
  <1>4. people[i].active /\ ~Privileged(people[i])  BY <1>2 DEF PersonEntry, Entry
  <1> QED  BY <1>2, <1>3, <1>4

LEMMA ActingRow ==
  ASSUME NEW rows, NEW people, 0 \notin Ids(people), NEW e \in Acts(rows, people), e.category # "missing"
  PROVE  /\ e.row \in rows /\ e = RowEntry(e.row, rows, people) /\ ~Conflicting(e.row, rows, people)
         /\ e.category = Category(e.row, rows, people)
         /\ e.category \in {"new", "unclear", "changed"}
         /\ e.category = "new" => Matches(e.row, people) = {} /\ e.id = 0 /\ e.login = ProposedLogin(e.row, rows, people)
         /\ e.category # "new" => /\ e.id \in Matches(e.row, people) /\ e.id \in Ids(people) /\ e.id = Match(e.row, people)
                                  /\ e.person = people[e.id] /\ e.login = 0
         /\ e.category = "unclear" => ByIdentity(e.row, people) # {}
         /\ e.category = "changed" => ByIdentity(e.row, people) = {}
  <1>1. \A i : PersonEntry(i, people).category \in {"missing", "identical"}  BY DEF PersonEntry, Entry
  <1>2. PICK row \in rows : e = RowEntry(row, rows, people)  BY <1>1 DEF Acts, Entries, Actionable
  <1>3. e.row = row /\ e.category = Category(row, rows, people)  BY <1>2, RowEntryIs
  <1>4. e.category \in {"new", "unclear", "changed"}  BY DEF Acts, Actionable
  <1>5. ~Conflicting(row, rows, people)  BY <1>3, <1>4 DEF Category
  <1>6. e.category = "new" => Matches(row, people) = {}  BY <1>3, <1>5 DEF Category
  <1>7. e.category = "unclear" => ByIdentity(row, people) # {}  BY <1>3, <1>5 DEF Category
  <1>8. e.category = "changed" => ByIdentity(row, people) = {} /\ Matches(row, people) # {}  BY <1>3, <1>5 DEF Category
  <1>9. e.category # "new" => Matches(row, people) # {}  BY <1>4, <1>7, <1>8 DEF Matches
  <1>10. /\ e.id = Match(row, people) /\ e.person = (IF e.id = 0 THEN Nobody ELSE people[e.id])
         /\ e.login = IF e.category = "new" THEN ProposedLogin(row, rows, people) ELSE 0
    BY <1>2, <1>4, RowEntryIs
  <1>11. e.category = "new" => e.id = 0  BY <1>6, <1>10 DEF Match
  <1>12. e.category # "new" => e.id \in Matches(row, people) /\ e.id \in Ids(people) /\ e.id # 0  BY <1>9, <1>10, MatchedOne
  <1> QED  BY <1>2, <1>3, <1>4, <1>5, <1>6, <1>7, <1>8, <1>10, <1>11, <1>12

\* Nobody whom one row acts on is meant by another.
LEMMA ActedOnce ==
  ASSUME NEW rows, RowsSound(rows), NEW people, 0 \notin Ids(people),
         NEW e \in Acts(rows, people), e.category \in {"unclear", "changed"}, NEW row \in rows, row # e.row
  PROVE  e.id \notin Matches(row, people)
  <1>1. /\ e.row \in rows /\ ~Conflicting(e.row, rows, people) /\ e.id \in Matches(e.row, people)
    BY ActingRow
  <1>2. row.ext # e.row.ext /\ row.ext # 0 /\ e.row.ext # 0  BY <1>1 DEF RowsSound
  <1>3. ASSUME e.id \in Matches(row, people)  PROVE FALSE
    <2>1. CASE e.id \in ByExternalId(row, people)
      <3>1. people[e.id].ext = row.ext  BY <2>1 DEF ByExternalId
      <3> QED  BY <1>1, <1>2, <3>1 DEF Matches, ByExternalId, ByIdentity
    <2>2. CASE e.id \in ByIdentity(row, people)
      <3>1. people[e.id].ext = 0 /\ people[e.id].who = row.who /\ row.who # 0  BY <2>2 DEF ByIdentity
      <3>2. e.id \in ByIdentity(e.row, people)  BY <1>1, <1>2, <3>1 DEF Matches, ByExternalId
      <3>3. ByExternalId(e.row, people) = {} /\ people[e.id].who = e.row.who  BY <3>2 DEF ByIdentity
      <3> QED  BY <1>1, <3>1, <3>3 DEF Conflicting
    <2> QED  BY <1>3, <2>1, <2>2 DEF Matches
  <1> QED  BY <1>3


LEMMA RequestIs ==
  ASSUME NEW rows, NEW people, 0 \notin Ids(people), NEW e \in Acts(rows, people), NEW r, r = RequestOf(e)
  PROVE  /\ e.category = "missing" => /\ r.action = "deactivate" /\ r.id = e.id /\ r.changes = [active |-> FALSE]
                                      /\ r.seen = e.person
         /\ e.category = "new" => /\ r.action = "create" /\ r.ext = e.row.ext /\ r.who = e.row.who
                                  /\ r.changes = Only(RowValues(e.row, e.login), Choosable(e))
         /\ e.category \in {"unclear", "changed"} =>
              /\ r.action = "update" /\ r.id = e.id /\ r.ext = e.row.ext /\ r.seen = e.person
              /\ r.changes = Only(RowValues(e.row, 0), Differences(e.row, e.person))
  BY DEF RequestOf, ActionRequest, Request, Choosable

\* An action that the comparison offers is accepted.
LEMMA OfferAccepted ==
  ASSUME NEW rows, RowsSound(rows), NEW people, PeopleSound(people), NEW e \in Acts(rows, people), NEW r, r = RequestOf(e),
         NEW principal
  PROVE  ~Conflict(people, r) /\ ~Refused(people, principal, r)
  <1>1. 0 \notin Ids(people)  BY DEF PeopleSound
  <1>2. CASE e.category = "missing"
    <2>1. /\ r.action = "deactivate" /\ r.id = e.id /\ r.changes = [active |-> FALSE] /\ r.seen = e.person
      BY <1>1, <1>2, RequestIs
    <2>2. e.id \in Ids(people) /\ e.person = people[e.id] /\ ~Privileged(people[e.id])  BY <1>2, MissingIs
    <2>3. ~Conflict(people, r)  BY <2>1, <2>2 DEF Conflict
    <2>4. ~Changes("login", r.changes)  BY <2>1 DEF Changes
    <2>5. ~people[r.id].admin  BY <2>1, <2>2 DEF Privileged
    <2>6. ~ChangesRefused(people, principal, r.id, r.changes)  BY <2>1, <2>2, <2>4, <2>5 DEF ChangesRefused
    <2> QED  BY <2>1, <2>3, <2>6 DEF Refused, ReconcileRefused, ValidRequest
  <1>3. CASE e.category = "new"
    <2>1. /\ r.action = "create" /\ r.ext = e.row.ext /\ r.changes = Only(RowValues(e.row, e.login), Choosable(e))
      BY <1>1, <1>3, RequestIs
    <2>2. e.row \in rows /\ Matches(e.row, people) = {} /\ e.login = ProposedLogin(e.row, rows, people)  BY <1>1, <1>3, ActingRow
    <2>3. \A i \in Ids(people) : people[i].ext # r.ext  BY <2>1, <2>2 DEF Matches, ByExternalId
    <2>4. /\ DOMAIN r.changes = Choosable(e) /\ {"active", "member"} \subseteq Choosable(e)
          /\ Choosable(e) = {f \in {"data", "member", "active", "login"} : f \in {"member", "active"} \/ RowValues(e.row, e.login)[f] # 0}
      BY <1>3, <2>1 DEF Only, Choosable
    <2>5. r.changes.active = TRUE /\ r.changes.member = e.row.member  BY <2>1, <2>4 DEF Only, RowValues
    <2>6. "login" \in DOMAIN r.changes => r.changes.login = e.login /\ e.login # 0
      BY <2>1, <2>4 DEF Only, RowValues
    <2>7. \A i \in Ids(people) : ~(Changes("login", r.changes) /\ people[i].login = r.changes.login)
      BY <2>2, <2>6 DEF Changes, ProposedLogin
    <2>8. r.changes.active  BY <2>5
    <2>9. ValidRequest(r)
      <3>1. r.ext # 0 /\ r.changes.member # 0  BY <2>1, <2>2, <2>5 DEF RowsSound
      <3> QED  BY <2>1, <2>4, <2>8, <3>1 DEF ValidRequest
    <2>10. ~ReconcileRefused(people, principal, r)  BY <2>1, <2>3, <2>7, <2>9 DEF ReconcileRefused
    <2> QED  BY <2>1, <2>10 DEF Conflict, Refused
  <1>4. CASE e.category \in {"unclear", "changed"}
    <2>1. /\ r.action = "update" /\ r.id = e.id /\ r.ext = e.row.ext /\ r.seen = e.person
          /\ r.changes = Only(RowValues(e.row, 0), Differences(e.row, e.person))
      BY <1>1, <1>4, RequestIs
    <2>2. /\ e.row \in rows /\ e.id \in Matches(e.row, people) /\ e.id \in Ids(people) /\ e.person = people[e.id]
      BY <1>1, <1>4, ActingRow
    <2>3. /\ DOMAIN r.changes \subseteq {"data", "active", "member"}
          /\ "active" \in DOMAIN r.changes => r.changes.active = TRUE
      BY <2>1 DEF Only, RowValues, Differences
    <2>4. ~Deactivates(r.changes) /\ ~Changes("login", r.changes)
      <3>1. "active" \in DOMAIN r.changes => r.changes.active  BY <2>3
      <3> QED  BY <2>3, <3>1 DEF Deactivates, Changes
    <2>5. ~ChangesRefused(people, principal, r.id, r.changes)  BY <2>1, <2>2, <2>4 DEF ChangesRefused
    <2>6. ValidRequest(r)
      <3>1. r.ext # 0  BY <2>1, <2>2 DEF RowsSound
      <3> QED  BY <2>1, <2>3, <2>4, <3>1 DEF ValidRequest
    <2>7. people[r.id].ext # r.ext => people[r.id].ext = 0 /\ \A i \in Ids(people) : people[i].ext # r.ext
      BY <2>1, <2>2 DEF Matches, ByExternalId, ByIdentity
    <2>8. ~ReconcileRefused(people, principal, r)  BY <2>1, <2>5, <2>6, <2>7 DEF ReconcileRefused
    <2>9. ~Conflict(people, r)  BY <2>1, <2>2 DEF Conflict
    <2> QED  BY <2>1, <2>8, <2>9 DEF Refused
  <1> QED  BY <1>2, <1>3, <1>4 DEF Acts, Actionable

\* The id of a new person is new.
LEMMA NewId ==
  ASSUME NEW people, PeopleSound(people)
  PROVE  /\ NextId(people) \notin Ids(people) /\ NextId(people) \in Nat \ {0}
         /\ \A p \in Ids(people) : p <= NextId(people)
  <1>1. PICK m \in Ids(people) : \A p \in Ids(people) : p <= m  BY DEF PeopleSound
  <1>2. PICK n : n = CHOOSE i \in Ids(people) : \A other \in Ids(people) : other <= i  OBVIOUS
  <1>3. n \in Ids(people) /\ \A other \in Ids(people) : other <= n  BY <1>1, <1>2
  <1>4. NextId(people) = 1 + n  BY <1>2 DEF NextId
  <1>5. n \in Nat /\ Ids(people) \subseteq Nat  BY <1>3 DEF PeopleSound
  <1> QED  BY <1>3, <1>4, <1>5

\* What a write of the import leaves: the people with the one it is about, who now has the row's CD-ID and values.
After(people, id, person, next) ==
  /\ Ids(next) = Ids(people) \cup {id} /\ next[id] = person
  /\ \A i \in Ids(people) : i # id => next[i] = people[i]

LEMMA UpdateLeaves ==
  ASSUME NEW rows, RowsSound(rows), NEW people, PeopleSound(people), NEW e \in Acts(rows, people),
         e.category \in {"unclear", "changed"}, NEW r, r = RequestOf(e), NEW next, next = Written(people, r)
  PROVE  /\ After(people, e.id, next[e.id], next) /\ e.id \in Ids(people)
         /\ PersonFields \subseteq DOMAIN next[e.id] /\ next[e.id].ext = e.row.ext /\ next[e.id].login = people[e.id].login
         /\ Differences(e.row, next[e.id]) = {}
  <1>1. 0 \notin Ids(people)  BY DEF PeopleSound
  <1>2. /\ r.action = "update" /\ r.id = e.id /\ r.ext = e.row.ext
        /\ r.changes = Only(RowValues(e.row, 0), Differences(e.row, e.person))
    BY <1>1, RequestIs
  <1>3. e.id \in Ids(people) /\ e.person = people[e.id]  BY <1>1, ActingRow
  <1>4. PICK over : over = Over(r.changes, people[e.id])  OBVIOUS
  <1>5. next = [[people EXCEPT ![e.id] = over] EXCEPT ![e.id].ext = e.row.ext]
    BY <1>2, <1>4 DEF Written, ApplyPersonChanges
  <1>6. /\ DOMAIN next = DOMAIN people /\ next[e.id] = [over EXCEPT !.ext = e.row.ext]
        /\ \A i \in DOMAIN people : i # e.id => next[i] = people[i]
    BY <1>3, <1>5 DEF Ids
  <1>7. PICK person : person = next[e.id]  OBVIOUS
  <1>8. PICK fields : fields = Differences(e.row, people[e.id])  OBVIOUS
  <1>9. fields \subseteq {"data", "active", "member"} /\ DOMAIN r.changes = fields
    BY <1>2, <1>3, <1>8 DEF Only, Differences
  <1>10. /\ PersonFields \subseteq DOMAIN people[e.id]
         /\ DOMAIN over = fields \cup DOMAIN people[e.id]
         /\ \A f \in DOMAIN over : over[f] = IF f \in fields THEN r.changes[f] ELSE people[e.id][f]
    BY <1>3, <1>4, <1>9 DEF PeopleSound, Over, Changes
  <1>11. /\ PersonFields \subseteq DOMAIN person /\ person.ext = e.row.ext
         /\ person.login = people[e.id].login /\ person.admin = people[e.id].admin /\ person.operator = people[e.id].operator
         /\ person.data = (IF "data" \in fields THEN r.changes.data ELSE people[e.id].data)
         /\ person.active = (IF "active" \in fields THEN r.changes.active ELSE people[e.id].active)
         /\ person.member = (IF "member" \in fields THEN r.changes.member ELSE people[e.id].member)
    BY <1>6, <1>7, <1>9, <1>10 DEF PersonFields
  <1>12. /\ "data" \in fields => r.changes.data = e.row.data
         /\ "active" \in fields => r.changes.active = TRUE
         /\ "member" \in fields => r.changes.member = e.row.member
    BY <1>2, <1>3, <1>8, <1>9 DEF Only, RowValues
  <1>13. Privileged(person) <=> Privileged(people[e.id])  BY <1>11 DEF Privileged
  <1>14. "data" \notin Differences(e.row, person)  BY <1>8, <1>11, <1>12 DEF Differences
  <1>15. "active" \notin Differences(e.row, person)
    <2>1. CASE "active" \in fields
      <3>1. person.active = TRUE  BY <2>1, <1>11, <1>12
      <3> QED  BY <3>1 DEF Differences
    <2>2. CASE "active" \notin fields
      <3>1. people[e.id].active  BY <2>2, <1>8 DEF Differences
      <3>2. person.active = people[e.id].active  BY <2>2, <1>11
      <3> QED  BY <3>1, <3>2 DEF Differences
    <2> QED  BY <2>1, <2>2
  <1>16. "member" \notin Differences(e.row, person)  BY <1>8, <1>11, <1>12, <1>13 DEF Differences
  <1>17. Differences(e.row, person) \subseteq {"data", "active", "member"}  BY DEF Differences
  <1> QED  BY <1>3, <1>6, <1>7, <1>11, <1>14, <1>15, <1>16, <1>17 DEF After, Ids


LEMMA CreateLeaves ==
  ASSUME NEW rows, RowsSound(rows), NEW people, PeopleSound(people), NEW e \in Acts(rows, people),
         e.category = "new", NEW r, r = RequestOf(e), NEW next, next = Written(people, r), NEW id, id = NextId(people)
  PROVE  /\ After(people, id, next[id], next)
         /\ PersonFields \subseteq DOMAIN next[id] /\ next[id].ext = e.row.ext /\ next[id].login \in {0, e.login}
         /\ Differences(e.row, next[id]) = {}
  <1>1. 0 \notin Ids(people)  BY DEF PeopleSound
  <1>2. /\ r.action = "create" /\ r.ext = e.row.ext /\ r.who = e.row.who
        /\ r.changes = Only(RowValues(e.row, e.login), Choosable(e))
    BY <1>1, RequestIs
  <1>3. PICK person : person = Created(r)  OBVIOUS
  <1>4. next = With(people, person)  BY <1>2, <1>3 DEF Written
  <1>5. /\ DOMAIN next = Ids(people) \cup {id} /\ next[id] = person
        /\ \A i \in Ids(people) : i # id => next[i] = people[i]
    BY <1>4 DEF With
  <1>6. PICK fields : fields = Choosable(e)  OBVIOUS
  <1>7. fields = {f \in {"data", "member", "active", "login"} : f \in {"member", "active"} \/ RowValues(e.row, e.login)[f] # 0}
    BY <1>6 DEF Choosable
  <1>8. DOMAIN r.changes = fields /\ \A f \in fields : r.changes[f] = RowValues(e.row, e.login)[f]
    BY <1>2, <1>6 DEF Only
  <1>9. PICK fresh : fresh = [who |-> r.who, ext |-> r.ext, login |-> 0, data |-> 0, member |-> 0,
                              active |-> TRUE, admin |-> FALSE, operator |-> FALSE]
    OBVIOUS
  <1>10. person = Over(r.changes, fresh)  BY <1>3, <1>9 DEF Created
  <1>11. /\ DOMAIN person = fields \cup DOMAIN fresh
         /\ \A f \in DOMAIN person : person[f] = IF f \in fields THEN r.changes[f] ELSE fresh[f]
    BY <1>8, <1>10 DEF Over, Changes
  <1>12. /\ DOMAIN fresh = PersonFields /\ fresh.ext = r.ext /\ fresh.login = 0 /\ fresh.data = 0 /\ fresh.active = TRUE
    BY <1>9 DEF PersonFields
  <1>13. PersonFields \subseteq DOMAIN person /\ person.ext = e.row.ext
    BY <1>2, <1>7, <1>11, <1>12 DEF PersonFields
  <1>14. person.login \in {0, e.login}
    BY <1>7, <1>8, <1>11, <1>12 DEF PersonFields, RowValues
  <1>15. person.active = TRUE /\ person.member = e.row.member
    BY <1>7, <1>8, <1>11, <1>12 DEF PersonFields, RowValues
  <1>16. e.row.data # 0 => person.data = e.row.data
    BY <1>7, <1>8, <1>11, <1>12 DEF PersonFields, RowValues
  <1>17. "active" \notin Differences(e.row, person)
    <2>1. person.active  BY <1>15
    <2> QED  BY <2>1 DEF Differences
  <1>18. "data" \notin Differences(e.row, person) /\ "member" \notin Differences(e.row, person)
    BY <1>15, <1>16 DEF Differences
  <1>19. Differences(e.row, person) \subseteq {"data", "active", "member"}  BY DEF Differences
  <1> QED  BY <1>5, <1>13, <1>14, <1>17, <1>18, <1>19 DEF After, Ids

LEMMA DeactivationLeaves ==
  ASSUME NEW rows, NEW people, PeopleSound(people), NEW e \in Acts(rows, people),
         e.category = "missing", NEW r, r = RequestOf(e), NEW next, next = Written(people, r)
  PROVE  /\ After(people, e.id, next[e.id], next) /\ e.id \in Ids(people)
         /\ PersonFields \subseteq DOMAIN next[e.id] /\ next[e.id].ext = people[e.id].ext /\ next[e.id].who = people[e.id].who
         /\ next[e.id].login = people[e.id].login /\ ~next[e.id].active
  <1>1. 0 \notin Ids(people)  BY DEF PeopleSound
  <1>2. r.action = "deactivate" /\ r.id = e.id /\ r.changes = [active |-> FALSE]  BY <1>1, RequestIs
  <1>3. e.id \in Ids(people)  BY MissingIs
  <1>4. PICK over : over = Over(r.changes, people[e.id])  OBVIOUS
  <1>5. next = [people EXCEPT ![e.id] = over]  BY <1>2, <1>4 DEF Written, ApplyPersonChanges
  <1>6. /\ DOMAIN next = DOMAIN people /\ next[e.id] = over
        /\ \A i \in DOMAIN people : i # e.id => next[i] = people[i]
    BY <1>3, <1>5 DEF Ids
  <1>7. DOMAIN r.changes = {"active"} /\ r.changes.active = FALSE  BY <1>2
  <1>8. /\ PersonFields \subseteq DOMAIN people[e.id]
        /\ DOMAIN over = {"active"} \cup DOMAIN people[e.id]
        /\ \A f \in DOMAIN over : over[f] = IF f = "active" THEN FALSE ELSE people[e.id][f]
    BY <1>3, <1>4, <1>7 DEF PeopleSound, Over, Changes
  <1>9. /\ PersonFields \subseteq DOMAIN over /\ over.ext = people[e.id].ext /\ over.who = people[e.id].who
        /\ over.login = people[e.id].login /\ over.active = FALSE
    BY <1>8 DEF PersonFields
  <1>10. ~next[e.id].active
    <2>1. next[e.id].active = FALSE  BY <1>6, <1>9
    <2> QED  BY <2>1
  <1> QED  BY <1>3, <1>6, <1>9, <1>10 DEF After, Ids

\* The write of an entry, whatever it does, has settled it.
Settles(e, people, id, next) ==
  /\ After(people, id, next[id], next) /\ PersonFields \subseteq DOMAIN next[id]
  /\ e.category # "new" => id = e.id /\ id \in Ids(people) /\ next[id].login = people[id].login
  /\ e.category = "new" => id = NextId(people) /\ next[id].login \in {0, e.login}
  /\ e.category # "missing" => next[id].ext = e.row.ext /\ Differences(e.row, next[id]) = {}
  /\ e.category = "missing" => /\ next[id].ext = people[id].ext /\ next[id].who = people[id].who
                               /\ ~next[id].active

LEMMA WriteSettles ==
  ASSUME NEW rows, RowsSound(rows), NEW people, PeopleSound(people), NEW e \in Acts(rows, people),
         NEW r, r = RequestOf(e), NEW next, next = Written(people, r)
  PROVE  \E id : Settles(e, people, id, next)
  <1>1. CASE e.category = "missing"
    <2>1. Settles(e, people, e.id, next)  BY <1>1, DeactivationLeaves DEF Settles
    <2> QED  BY <2>1
  <1>2. CASE e.category = "new"
    <2>1. Settles(e, people, NextId(people), next)  BY <1>2, CreateLeaves DEF Settles
    <2> QED  BY <2>1
  <1>3. CASE e.category \in {"unclear", "changed"}
    <2>1. Settles(e, people, e.id, next)  BY <1>3, UpdateLeaves DEF Settles
    <2> QED  BY <2>1
  <1> QED  BY <1>1, <1>2, <1>3 DEF Acts, Actionable


\* A CD-ID that somebody has is the one of the written person only.
LEMMA ExternalIdOnce ==
  ASSUME NEW rows, RowsSound(rows), NEW people, PeopleSound(people), NEW e \in Acts(rows, people),
         NEW id, NEW next, Settles(e, people, id, next)
  PROVE  /\ PeopleSound(next)
         /\ e.category # "missing" => ByExternalId(e.row, next) = {id}
  <1>1. 0 \notin Ids(people)  BY DEF PeopleSound
  <1>2. /\ Ids(next) = Ids(people) \cup {id}
        /\ \A i \in Ids(people) : i # id => next[i] = people[i]
    BY DEF Settles, After
  <1>3. ASSUME e.category # "missing", NEW i \in Ids(people), i # id  PROVE people[i].ext # e.row.ext
    <2>1. e.row \in rows /\ e.row.ext # 0  BY <1>1, <1>3, ActingRow DEF RowsSound
    <2>2. CASE e.category = "new"
      <3>1. Matches(e.row, people) = {}  BY <1>1, <2>2, ActingRow
      <3> QED  BY <1>3, <3>1 DEF Matches, ByExternalId
    <2>3. CASE e.category # "new"
      <3>1. e.id \in Matches(e.row, people) /\ e.id \in Ids(people) /\ id = e.id  BY <1>1, <1>3, <2>3, ActingRow DEF Settles
      <3>2. people[e.id].ext = e.row.ext \/ ByExternalId(e.row, people) = {}
        BY <3>1 DEF Matches, ByExternalId, ByIdentity
      <3> QED  BY <1>3, <2>1, <3>1, <3>2 DEF ByExternalId, PeopleSound
    <2> QED  BY <2>2, <2>3
  <1>4. e.category # "missing" => next[id].ext = e.row.ext  BY DEF Settles
  <1>5. e.category = "missing" => id \in Ids(people) /\ next[id].ext = people[id].ext  BY DEF Settles
  <1>6. e.category # "missing" => ByExternalId(e.row, next) = {id}
    BY <1>2, <1>3, <1>4 DEF ByExternalId
  <1>7. ASSUME NEW p \in Ids(next), NEW o \in Ids(next), next[p].ext # 0, next[p].ext = next[o].ext  PROVE p = o
    <2>1. CASE e.category = "missing"
      <3>1. p \in Ids(people) /\ o \in Ids(people) /\ next[p].ext = people[p].ext /\ next[o].ext = people[o].ext
        BY <1>2, <1>5, <2>1
      <3> QED  BY <1>7, <3>1 DEF PeopleSound
    <2>2. CASE e.category # "missing"
      <3>1. CASE p = id \/ o = id
        BY <1>4, <1>6, <1>7, <2>2, <3>1 DEF ByExternalId
      <3>2. CASE p # id /\ o # id
        BY <1>2, <1>7, <3>2 DEF PeopleSound
      <3> QED  BY <3>1, <3>2
    <2> QED  BY <2>1, <2>2
  <1>8. id \in Ids(people) \/ id = NextId(people)  BY DEF Settles
  <1>9. NextId(people) \in Nat \ {0} /\ \A p \in Ids(people) : p <= NextId(people)  BY NewId
  <1>10. 0 \notin Ids(next) /\ Ids(next) \subseteq Nat  BY <1>2, <1>8, <1>9 DEF PeopleSound
  <1>11. \E m \in Ids(next) : \A p \in Ids(next) : p <= m
    <2>1. CASE id \in Ids(people)
      BY <1>2, <2>1 DEF PeopleSound
    <2>2. CASE id = NextId(people)
      <3>1. id \in Ids(next) /\ \A p \in Ids(next) : p <= id  BY <1>2, <1>9, <2>2
      <3> QED  BY <3>1
    <2> QED  BY <1>8, <2>1, <2>2
  <1>12. \A p \in Ids(next) : PersonFields \subseteq DOMAIN next[p]
    BY <1>2 DEF Settles, PeopleSound
  <1> QED  BY <1>6, <1>7, <1>10, <1>11, <1>12 DEF PeopleSound

\* The other rows mean whom they meant.
LEMMA OtherRowsMatch ==
  ASSUME NEW rows, RowsSound(rows), NEW people, PeopleSound(people), NEW e \in Acts(rows, people),
         NEW id, NEW next, Settles(e, people, id, next), NEW row \in rows, row # e.row
  PROVE  /\ ByExternalId(row, next) = ByExternalId(row, people) /\ ByIdentity(row, next) = ByIdentity(row, people)
         /\ id \notin Matches(row, people)
  <1>1. 0 \notin Ids(people)  BY DEF PeopleSound
  <1>2. /\ Ids(next) = Ids(people) \cup {id}
        /\ \A i \in Ids(people) : i # id => next[i] = people[i]
    BY DEF Settles, After
  <1>3. id \notin Matches(row, people)
    <2>1. CASE e.category = "missing"
      BY <2>1, MissingIs DEF Settles, Handled
    <2>2. CASE e.category = "new"
      <3>1. id \notin Ids(people)  BY <2>2, NewId DEF Settles
      <3> QED  BY <3>1 DEF Matches, ByExternalId, ByIdentity
    <2>3. CASE e.category \in {"unclear", "changed"}
      BY <1>1, <2>3, ActedOnce DEF Settles
    <2> QED  BY <2>1, <2>2, <2>3 DEF Acts, Actionable
  <1>4. row.ext # 0  BY DEF RowsSound
  <1>5. CASE e.category = "missing"
    <2>1. id \in Ids(people) /\ next[id].ext = people[id].ext /\ next[id].who = people[id].who  BY <1>5 DEF Settles
    <2>2. ByExternalId(row, next) = ByExternalId(row, people)  BY <1>2, <2>1 DEF ByExternalId
    <2>3. ByIdentity(row, next) = ByIdentity(row, people)  BY <1>2, <2>1, <2>2 DEF ByIdentity
    <2> QED  BY <1>3, <2>2, <2>3
  <1>6. CASE e.category # "missing"
    <2>1. next[id].ext = e.row.ext  BY <1>6 DEF Settles
    <2>2. e.row \in rows  BY <1>1, <1>6, ActingRow
    <2>3. next[id].ext # row.ext /\ next[id].ext # 0  BY <2>1, <2>2 DEF RowsSound
    <2>4. id \notin ByExternalId(row, people) /\ id \notin ByIdentity(row, people)  BY <1>3 DEF Matches
    <2>5. ByExternalId(row, next) = ByExternalId(row, people)  BY <1>2, <2>3, <2>4 DEF ByExternalId
    <2>6. ByIdentity(row, next) = ByIdentity(row, people)
      <3>1. CASE ByExternalId(row, people) # {} \/ row.who = 0
        BY <2>5, <3>1 DEF ByIdentity
      <3>2. CASE ~(ByExternalId(row, people) # {} \/ row.who = 0)
        <4>1. /\ ByIdentity(row, people) = {i \in Ids(people) : people[i].ext = 0 /\ people[i].who = row.who}
              /\ ByIdentity(row, next) = {i \in Ids(next) : next[i].ext = 0 /\ next[i].who = row.who}
          BY <2>5, <3>2 DEF ByIdentity
        <4> QED  BY <1>2, <2>3, <2>4, <4>1
      <3> QED  BY <3>1, <3>2
    <2> QED  BY <1>3, <2>5, <2>6
  <1> QED  BY <1>5, <1>6

\* An address that another row has never becomes a login, so the proposal of a row does not depend on what the other
\* rows write.
LEMMA ProposalKept ==
  ASSUME NEW rows, RowsSound(rows), NEW people, PeopleSound(people), NEW e \in Acts(rows, people),
         NEW id, NEW next, Settles(e, people, id, next), NEW row \in rows, row # e.row
  PROVE  ProposedLogin(row, rows, next) = ProposedLogin(row, rows, people)
  <1>1. 0 \notin Ids(people)  BY DEF PeopleSound
  <1>2. /\ Ids(next) = Ids(people) \cup {id}
        /\ \A i \in Ids(people) : i # id => next[i] = people[i]
    BY DEF Settles, After
  <1>3. CASE row.email = 0 \/ \E other \in rows \ {row} : other.email = row.email
    BY <1>3 DEF ProposedLogin
  <1>4. CASE row.email # 0 /\ \A other \in rows \ {row} : other.email # row.email
    <2>1. CASE e.category # "new"
      <3>1. id \in Ids(people) /\ next[id].login = people[id].login  BY <2>1 DEF Settles
      <3>2. (\A i \in Ids(next) : next[i].login # row.email) <=> (\A i \in Ids(people) : people[i].login # row.email)
        BY <1>2, <3>1
      <3> QED  BY <1>4, <3>2 DEF ProposedLogin
    <2>2. CASE e.category = "new"
      <3>1. id \notin Ids(people) /\ next[id].login \in {0, e.login}  BY <2>2, NewId DEF Settles
      <3>2. e.row \in rows /\ e.login \in {0, e.row.email}  BY <1>1, <2>2, ActingRow DEF ProposedLogin
      <3>3. next[id].login # row.email  BY <1>4, <3>1, <3>2
      <3>4. (\A i \in Ids(next) : next[i].login # row.email) <=> (\A i \in Ids(people) : people[i].login # row.email)
        BY <1>2, <3>1, <3>3
      <3> QED  BY <1>4, <3>4 DEF ProposedLogin
    <2> QED  BY <2>1, <2>2
  <1> QED  BY <1>3, <1>4

LEMMA OtherRowsKept ==
  ASSUME NEW rows, RowsSound(rows), NEW people, PeopleSound(people), NEW e \in Acts(rows, people),
         NEW id, NEW next, Settles(e, people, id, next), NEW row \in rows, row # e.row
  PROVE  RowEntry(row, rows, next) = RowEntry(row, rows, people)
  <1>1. /\ Ids(next) = Ids(people) \cup {id}
        /\ \A i \in Ids(people) : i # id => next[i] = people[i]
    BY DEF Settles, After
  <1>2. /\ ByExternalId(row, next) = ByExternalId(row, people) /\ ByIdentity(row, next) = ByIdentity(row, people)
        /\ id \notin Matches(row, people)
    BY OtherRowsMatch
  <1>3. Matches(row, next) = Matches(row, people)  BY <1>2 DEF Matches
  <1>4. Match(row, next) = Match(row, people)  BY <1>3 DEF Match
  <1>5. Conflicting(row, rows, next) <=> Conflicting(row, rows, people)  BY <1>2 DEF Conflicting
  <1>6. Matches(row, people) # {} => next[Match(row, people)] = people[Match(row, people)]
    BY <1>1, <1>2, MatchedOne
  <1>7. Category(row, rows, next) = Category(row, rows, people)
    BY <1>2, <1>3, <1>4, <1>5, <1>6 DEF Category
  <1>8. ProposedLogin(row, rows, next) = ProposedLogin(row, rows, people)  BY ProposalKept
  <1>9. Match(row, people) # 0 => Matches(row, people) # {}  BY DEF Match
  <1> QED  BY <1>3, <1>4, <1>6, <1>7, <1>8, <1>9 DEF RowEntry

\* Who has been written needs nothing any more.
LEMMA WrittenIsDone ==
  ASSUME NEW rows, RowsSound(rows), NEW people, PeopleSound(people), NEW e \in Acts(rows, people),
         NEW id, NEW next, Settles(e, people, id, next)
  PROVE  /\ e.category # "missing" => /\ Matches(e.row, next) = {id} /\ RowEntry(e.row, rows, next) \notin Acts(rows, next)
                                      /\ Matches(e.row, people) \subseteq {id}
         /\ e.category = "missing" => PersonEntry(id, next) \notin Acts(rows, next)
  <1>1. 0 \notin Ids(people)  BY DEF PeopleSound
  <1>2. CASE e.category = "missing"
    <2>1. PersonEntry(id, next).category = "identical"  BY <1>2 DEF Settles, PersonEntry, Entry
    <2> QED  BY <1>2, <2>1 DEF Acts, Actionable
  <1>3. CASE e.category # "missing"
    <2>1. ByExternalId(e.row, next) = {id}  BY <1>3, ExternalIdOnce
    <2>2. ByIdentity(e.row, next) = {}  BY <2>1 DEF ByIdentity
    <2>3. Matches(e.row, next) = {id}  BY <2>1, <2>2 DEF Matches
    <2>4. Match(e.row, next) = id  BY <2>3, MatchedOne
    <2>5. ~Conflicting(e.row, rows, people)  BY <1>1, <1>3, ActingRow
    <2>6. ~Conflicting(e.row, rows, next)  BY <2>1, <2>2, <2>5 DEF Conflicting, Several
    <2>7. Differences(e.row, next[id]) = {}  BY <1>3 DEF Settles
    <2>8. Category(e.row, rows, next) = "identical"  BY <2>2, <2>3, <2>4, <2>6, <2>7 DEF Category
    <2>9. RowEntry(e.row, rows, next) \notin Acts(rows, next)  BY <2>8, RowEntryIs DEF Acts, Actionable
    <2>10. Matches(e.row, people) \subseteq {id}
      <3>1. CASE e.category = "new"
        BY <1>1, <3>1, ActingRow
      <3>2. CASE e.category # "new"
        <4>1. e.id \in Matches(e.row, people) /\ e.row \in rows /\ id = e.id  BY <1>1, <1>3, <3>2, ActingRow DEF Settles
        <4>2. CASE ByExternalId(e.row, people) = {}
          <5>1. e.id \in ByIdentity(e.row, people) /\ ~Several(ByIdentity(e.row, people))
            BY <2>5, <4>1, <4>2 DEF Matches, Conflicting
          <5> QED  BY <4>1, <4>2, <5>1 DEF Several, Matches
        <4>3. CASE ByExternalId(e.row, people) # {}
          <5>1. ByIdentity(e.row, people) = {}  BY <4>3 DEF ByIdentity
          <5>2. e.row.ext # 0  BY <4>1 DEF RowsSound
          <5> QED  BY <4>1, <5>1, <5>2 DEF Matches, ByExternalId, PeopleSound
        <4> QED  BY <4>2, <4>3
      <3> QED  BY <3>1, <3>2
    <2> QED  BY <1>3, <2>3, <2>9, <2>10
  <1> QED  BY <1>2, <1>3

\* Whom no row means stays unmeant, and is the same person unless it is the one who is deactivated.
LEMMA UnhandledKept ==
  ASSUME NEW rows, RowsSound(rows), NEW people, PeopleSound(people), NEW e \in Acts(rows, people),
         NEW id, NEW next, Settles(e, people, id, next)
  PROVE  /\ Ids(next) \ Handled(rows, next) = Ids(people) \ Handled(rows, people)
         /\ \A i \in Ids(people) \ Handled(rows, people) :
              /\ e.category # "missing" => i # id
              /\ i # id => PersonEntry(i, next) = PersonEntry(i, people)
  <1>1. 0 \notin Ids(people)  BY DEF PeopleSound
  <1>2. /\ Ids(next) = Ids(people) \cup {id}
        /\ \A i \in Ids(people) : i # id => next[i] = people[i]
    BY DEF Settles, After
  <1>3. \A row \in rows : row # e.row => Matches(row, next) = Matches(row, people) /\ id \notin Matches(row, people)
    BY OtherRowsMatch DEF Matches
  <1>4. \A i \in Ids(people) : i # id => PersonEntry(i, next) = PersonEntry(i, people)
    BY <1>2 DEF PersonEntry
  <1>5. CASE e.category = "missing"
    <2>1. e.row \notin rows  BY <1>5, EntryOrigin DEF RowsSound, NoRow
    <2>2. Handled(rows, next) = Handled(rows, people)  BY <1>3, <2>1 DEF Handled
    <2>3. Ids(next) = Ids(people)  BY <1>2, <1>5 DEF Settles
    <2> QED  BY <1>4, <1>5, <2>2, <2>3
  <1>6. CASE e.category # "missing"
    <2>1. e.row \in rows  BY <1>1, <1>6, ActingRow
    <2>2. Matches(e.row, next) = {id} /\ Matches(e.row, people) \subseteq {id}  BY <1>6, WrittenIsDone
    <2>3. \A i : i \in Handled(rows, next) <=> i = id \/ i \in Handled(rows, people)
      BY <1>3, <2>1, <2>2 DEF Handled
    <2>4. id \in Ids(people) => id \in Handled(rows, people)
      <3>1. CASE e.category = "new"
        BY <3>1, NewId DEF Settles
      <3>2. CASE e.category # "new"
        BY <1>1, <1>6, <2>1, <3>2, ActingRow DEF Settles, Handled
      <3> QED  BY <3>1, <3>2
    <2> QED  BY <1>2, <1>4, <1>6, <2>3, <2>4
  <1> QED  BY <1>5, <1>6


\* A write takes its entry off the list, and touches no other.
LEMMA OthersStay ==
  ASSUME NEW rows, RowsSound(rows), NEW people, PeopleSound(people), NEW e \in Acts(rows, people),
         NEW id, NEW next, Settles(e, people, id, next)
  PROVE  Acts(rows, next) = Acts(rows, people) \ {e}
  <1>1. 0 \notin Ids(people) /\ 0 \notin Ids(next)  BY ExternalIdOnce DEF PeopleSound
  <1>2. e.category = "missing" => e.row \notin rows /\ id = e.id
    BY EntryOrigin DEF RowsSound, NoRow, Settles
  <1>3. e.category # "missing" => e.row \in rows  BY EntryOrigin
  <1>4. \A row \in rows : row # e.row => RowEntry(row, rows, next) = RowEntry(row, rows, people)  BY OtherRowsKept
  <1>5. /\ Ids(next) \ Handled(rows, next) = Ids(people) \ Handled(rows, people)
        /\ \A i \in Ids(people) \ Handled(rows, people) :
             /\ e.category # "missing" => i # id
             /\ i # id => PersonEntry(i, next) = PersonEntry(i, people)
    BY UnhandledKept
  <1>6. ASSUME NEW x \in Acts(rows, next)  PROVE x \in Acts(rows, people) /\ x # e
    <2>1. CASE x.category = "missing"
      <3>1. x.id \in Ids(next) \ Handled(rows, next) /\ x = PersonEntry(x.id, next)  BY <2>1, MissingIs
      <3>2. CASE x.id = id
        BY <1>5, <3>1, <3>2, WrittenIsDone
      <3>3. CASE x.id # id
        <4>1. x = PersonEntry(x.id, people)  BY <1>5, <3>1, <3>3
        <4>2. x # e  BY <1>2, <2>1, <3>3
        <4> QED  BY <1>5, <1>6, <3>1, <4>1, <4>2 DEF Acts, Entries
      <3> QED  BY <3>2, <3>3
    <2>2. CASE x.category # "missing"
      <3>1. x.row \in rows /\ x = RowEntry(x.row, rows, next)  BY <1>1, <2>2, ActingRow
      <3>2. CASE x.row = e.row
        <4>1. e.category # "missing"  BY <1>2, <3>1, <3>2
        <4> QED  BY <1>6, <3>1, <3>2, <4>1, WrittenIsDone
      <3>3. CASE x.row # e.row
        <4>1. x = RowEntry(x.row, rows, people)  BY <1>4, <3>1, <3>3
        <4>2. x \in Acts(rows, people)  BY <1>6, <3>1, <4>1 DEF Acts, Entries
        <4> QED  BY <3>3, <4>2
      <3> QED  BY <3>2, <3>3
    <2> QED  BY <2>1, <2>2
  <1>7. ASSUME NEW x \in Acts(rows, people), x # e  PROVE x \in Acts(rows, next)
    <2>1. CASE x.category = "missing"
      <3>1. x.id \in Ids(people) \ Handled(rows, people) /\ x = PersonEntry(x.id, people)  BY <2>1, MissingIs
      <3>2. x.id # id
        <4>1. CASE e.category = "missing"
          <5>1. e = PersonEntry(e.id, people)  BY <4>1, MissingIs
          <5> QED  BY <1>2, <1>7, <3>1, <4>1, <5>1
        <4>2. CASE e.category # "missing"
          BY <1>5, <3>1, <4>2
        <4> QED  BY <4>1, <4>2
      <3>3. x = PersonEntry(x.id, next)  BY <1>5, <3>1, <3>2
      <3> QED  BY <1>5, <1>7, <3>1, <3>3 DEF Acts, Entries
    <2>2. CASE x.category # "missing"
      <3>1. x.row \in rows /\ x = RowEntry(x.row, rows, people)  BY <1>1, <2>2, ActingRow
      <3>2. x.row # e.row
        <4>1. CASE e.category = "missing"
          BY <1>2, <3>1, <4>1
        <4>2. CASE e.category # "missing"
          <5>1. e = RowEntry(e.row, rows, people)  BY <1>1, <4>2, ActingRow
          <5> QED  BY <1>7, <3>1, <5>1
        <4> QED  BY <4>1, <4>2
      <3>3. x = RowEntry(x.row, rows, next)  BY <1>4, <3>1, <3>2
      <3> QED  BY <1>7, <3>1, <3>3 DEF Acts, Entries
    <2> QED  BY <2>1, <2>2
  <1> QED  BY <1>6, <1>7

\* Two entries never send the same request.
LEMMA RequestsDiffer ==
  ASSUME NEW rows, RowsSound(rows), NEW people, 0 \notin Ids(people),
         NEW x \in Acts(rows, people), NEW y \in Acts(rows, people), RequestOf(x) = RequestOf(y)
  PROVE  x = y
  <1>1. PICK r : r = RequestOf(x) /\ r = RequestOf(y)  OBVIOUS
  <1>2. /\ x.category \in {"missing", "new", "unclear", "changed"} /\ y.category \in {"missing", "new", "unclear", "changed"}
    BY DEF Acts, Actionable
  <1>3. CASE x.category = "missing"
    <2>1. r.action = "deactivate" /\ r.id = x.id  BY <1>1, <1>3, RequestIs
    <2>2. y.category = "missing"
      <3>1. y.category = "new" => r.action = "create"  BY <1>1, RequestIs
      <3>2. y.category \in {"unclear", "changed"} => r.action = "update"  BY <1>1, RequestIs
      <3> QED  BY <1>2, <2>1, <3>1, <3>2
    <2>3. r.id = y.id  BY <1>1, <2>2, RequestIs
    <2> QED  BY <1>3, <2>1, <2>2, <2>3, MissingIs
  <1>4. CASE x.category # "missing"
    <2>1. r.action # "deactivate" /\ r.ext = x.row.ext
      <3>1. x.category = "new" => r.action = "create" /\ r.ext = x.row.ext  BY <1>1, RequestIs
      <3>2. x.category \in {"unclear", "changed"} => r.action = "update" /\ r.ext = x.row.ext  BY <1>1, RequestIs
      <3> QED  BY <1>2, <1>4, <3>1, <3>2
    <2>2. y.category # "missing"  BY <1>1, <2>1, RequestIs
    <2>3. r.ext = y.row.ext
      <3>1. y.category = "new" => r.ext = y.row.ext  BY <1>1, RequestIs
      <3>2. y.category \in {"unclear", "changed"} => r.ext = y.row.ext  BY <1>1, RequestIs
      <3> QED  BY <1>2, <2>2, <3>1, <3>2
    <2>4. /\ x.row \in rows /\ x = RowEntry(x.row, rows, people)
          /\ y.row \in rows /\ y = RowEntry(y.row, rows, people)
      BY <1>4, <2>2, ActingRow
    <2>5. x.row = y.row  BY <2>1, <2>3, <2>4 DEF RowsSound
    <2> QED  BY <2>4, <2>5
  <1> QED  BY <1>3, <1>4

\* What is still to be sent is exactly what comparing again would offer.
ImportInv ==
  /\ RowsSound(export) /\ PeopleSound(members)
  /\ refusals = 0
  /\ pending = Offered(Entries(export, members))

LEMMA OfferedIs ==
  ASSUME NEW rows, NEW people
  PROVE  Offered(Entries(rows, people)) = {RequestOf(e) : e \in Acts(rows, people)}
  BY DEF Offered, Acts, RequestOf

LEMMA ImportStep ==
  ASSUME ImportInv, ImportNext
  PROVE  ImportInv'
  <1>1. PICK r \in pending : Submit(r)  BY DEF ImportNext
  <1>2. PICK rows, people, next : rows = export /\ people = members /\ next = Written(people, r)  OBVIOUS
  <1>3. RowsSound(rows) /\ PeopleSound(people)  BY <1>2 DEF ImportInv
  <1>4. PICK e \in Acts(rows, people) : r = RequestOf(e)  BY <1>1, <1>2, OfferedIs DEF ImportInv
  <1>5. ~Conflict(people, r) /\ ~Refused(people, Importer, r)  BY <1>3, <1>4, OfferAccepted
  <1>6. refusals' = 0 /\ members' = next /\ export' = rows /\ pending' = pending \ {r}  BY <1>1, <1>2, <1>5 DEF Submit
  <1>7. PICK id : Settles(e, people, id, next)  BY <1>2, <1>3, <1>4, WriteSettles
  <1>8. PeopleSound(next)  BY <1>3, <1>7, ExternalIdOnce
  <1>9. Acts(rows, next) = Acts(rows, people) \ {e}  BY <1>3, <1>7, OthersStay
  <1>10. \A x \in Acts(rows, people) : RequestOf(x) = r => x = e
    BY <1>3, <1>4, RequestsDiffer DEF PeopleSound
  <1>11. {RequestOf(x) : x \in Acts(rows, next)} = {RequestOf(x) : x \in Acts(rows, people)} \ {r}
    BY <1>4, <1>9, <1>10
  <1>12. pending = {RequestOf(x) : x \in Acts(rows, people)}  BY <1>2, OfferedIs DEF ImportInv
  <1>13. pending' = Offered(Entries(rows, next))  BY <1>6, <1>11, <1>12, OfferedIs
  <1>14. RowsSound(export)'  BY <1>3, <1>6 DEF RowsSound
  <1>15. PeopleSound(members)'  BY <1>6, <1>8 DEF PeopleSound, Ids
  <1>16. Offered(Entries(export, members))' = Offered(Entries(rows, next))
    BY <1>6 DEF Offered, Entries, RowEntry, PersonEntry, Handled, Ids, Category, Conflicting, Matches, Match, ByExternalId, ByIdentity, ProposedLogin
  <1> QED  BY <1>6, <1>13, <1>14, <1>15, <1>16 DEF ImportInv

-----------------------------------------------------------------------------
(* The comparison.                                                         *)

LEMMA MeantByRow ==
  ASSUME NEW row, NEW rows, NEW people, RowEntry(row, rows, people).id # 0
  PROVE  RowEntry(row, rows, people).id \in Matches(row, people)
  <1>1. RowEntry(row, rows, people).id \in {0, Match(row, people)}  BY DEF RowEntry, Entry
  <1>2. Match(row, people) # 0 => Match(row, people) \in Matches(row, people)  BY DEF Match
  <1> QED  BY <1>1, <1>2

LEMMA OneActsOnOne ==
  ASSUME NEW rows, RowsSound(rows), NEW people, 0 \notin Ids(people),
         NEW e \in Acts(rows, people), e.id # 0, NEW x \in Entries(rows, people), x.id = e.id
  PROVE  x = e
  <1>1. \A i : PersonEntry(i, people).id = i  BY DEF PersonEntry, Entry
  <1>2. CASE \E row \in rows : x = RowEntry(row, rows, people)
    <2>1. PICK row \in rows : x = RowEntry(row, rows, people)  BY <1>2
    <2>2. e.id \in Matches(row, people)  BY <2>1, MeantByRow
    <2>3. e.category # "missing"  BY <2>2, MissingIs DEF Handled
    <2>4. e.category # "new"  BY ActingRow
    <2>5. e.category \in {"unclear", "changed"}  BY <2>3, <2>4 DEF Acts, Actionable
    <2>6. row = e.row  BY <2>2, <2>5, ActedOnce
    <2> QED  BY <2>1, <2>3, <2>6, ActingRow
  <1>3. CASE \E i \in Ids(people) \ Handled(rows, people) : x = PersonEntry(i, people)
    <2>1. x = PersonEntry(e.id, people) /\ e.id \notin Handled(rows, people)  BY <1>1, <1>3
    <2>2. e.category = "missing"
      <3> SUFFICES ASSUME e.category # "missing"  PROVE FALSE
        OBVIOUS
      <3>1. e.row \in rows /\ e.id \in Matches(e.row, people)  BY ActingRow
      <3> QED  BY <2>1, <3>1 DEF Handled
    <2> QED  BY <2>1, <2>2, MissingIs
  <1> QED  BY <1>2, <1>3 DEF Entries

LEMMA Compared ==
  ASSUME ImportInv
  PROVE  ComparisonSound
  <1>1. RowsSound(export) /\ 0 \notin Ids(members)  BY DEF ImportInv, PeopleSound
  <1>2. ASSUME NEW e \in Entries(export, members), e.category \in Actionable, e.id # 0
        PROVE  Of(Entries(export, members), e.id) = {e}
    <2>1. e \in Acts(export, members)  BY <1>2 DEF Acts
    <2>2. \A x \in Entries(export, members) : x.id = e.id => x = e  BY <1>1, <1>2, <2>1, OneActsOnOne
    <2> QED  BY <2>2, <1>2 DEF Of
  <1>3. ASSUME NEW e \in Entries(export, members), e.category = "missing", NEW row \in export
        PROVE  /\ row.ext # e.person.ext
               /\ ByExternalId(row, members) # {} \/ e.person.ext # 0 \/ row.who \notin {e.person.who} \ {0}
    <2>1. e \in Acts(export, members)  BY <1>3 DEF Acts, Actionable
    <2>2. e.id \in Ids(members) /\ e.id \notin Matches(row, members) /\ e.person = members[e.id]
      BY <1>3, <2>1, MissingIs DEF Handled
    <2>3. e.id \notin ByExternalId(row, members) /\ e.id \notin ByIdentity(row, members)  BY <2>2 DEF Matches
    <2> QED  BY <2>2, <2>3 DEF ByExternalId, ByIdentity
  <1>4. ASSUME NEW e \in Entries(export, members), e.category = "new", e.login # 0
        PROVE  /\ e.row \in export /\ e = RowEntry(e.row, export, members) /\ e.login = e.row.email
               /\ \A other \in export \ {e.row} : other.email # e.login
               /\ \A i \in Ids(members) : members[i].login # e.login
    <2>1. e \in Acts(export, members)  BY <1>4 DEF Acts, Actionable
    <2>2. e.row \in export /\ e = RowEntry(e.row, export, members) /\ e.login = ProposedLogin(e.row, export, members)
      BY <1>1, <1>4, <2>1, ActingRow
    <2> QED  BY <1>4, <2>2 DEF ProposedLogin
  <1>5. PICK entries : entries = Entries(export, members)  OBVIOUS
  <1>6. \A e \in {e \in entries : e.category \in Actionable /\ e.id # 0} : Of(entries, e.id) = {e}  BY <1>2, <1>5
  <1>7. \A e \in entries : e.category = "missing" =>
          \A row \in export : /\ row.ext # e.person.ext
                              /\ ByExternalId(row, members) # {} \/ e.person.ext # 0 \/ row.who \notin {e.person.who} \ {0}
    BY <1>3, <1>5
  <1>8. ASSUME NEW e \in entries, e.category = "new", e.login # 0
        PROVE  /\ \A other \in {o \in entries : o.category = "new" /\ o.login # 0} \ {e} : other.login # e.login
               /\ \A i \in Ids(members) : members[i].login # e.login
    <2>1. ASSUME NEW other \in entries, other.category = "new", other.login # 0, other # e  PROVE other.login # e.login
      <3>1. other.row \in export /\ other.login = other.row.email /\ other = RowEntry(other.row, export, members)
        BY <1>4, <1>5, <2>1
      <3>2. e = RowEntry(e.row, export, members) /\ \A o \in export \ {e.row} : o.email # e.login  BY <1>4, <1>5, <1>8
      <3>3. other.row # e.row  BY <2>1, <3>1, <3>2
      <3> QED  BY <3>1, <3>2, <3>3
    <2>2. \A i \in Ids(members) : members[i].login # e.login  BY <1>4, <1>5, <1>8
    <2> QED  BY <2>1, <2>2
  <1> QED  BY <1>5, <1>6, <1>7, <1>8 DEF ComparisonSound

\* However the rows and the people look, and in whatever order the actions are sent: nobody is acted on twice or while
\* another row may mean them, no two new members get one login, the service accepts every action, and when all are
\* written the same export offers nothing (compareClubDeskMembers, submitActions and reconcilePerson).
THEOREM ImportIsSound == ImportSpec => []ImportSound
  <1>1. ImportInit => ImportInv
    <2> SUFFICES ASSUME ImportInit  PROVE ImportInv
      OBVIOUS
    <2>1. PICK i \in Imports : /\ export = i.export /\ members = i.people
                               /\ pending = Offered(Entries(i.export, i.people)) /\ refusals = 0
      BY DEF ImportInit
    <2>2. RowsSound(i.export)  BY ImportsAssumption DEF RowsSound
    <2>3. PeopleSound(i.people)  BY ImportsAssumption DEF PeopleSound
    <2> QED  BY <2>1, <2>2, <2>3 DEF ImportInv
  <1>2. ImportInv /\ [ImportNext]_importVars => ImportInv'
    <2> SUFFICES ASSUME ImportInv, [ImportNext]_importVars  PROVE ImportInv'
      OBVIOUS
    <2>1. CASE ImportNext
      BY <2>1, ImportStep
    <2>2. CASE UNCHANGED importVars
      <3>1. export' = export /\ members' = members /\ pending' = pending /\ refusals' = refusals  BY <2>2 DEF importVars
      <3>2. RowsSound(export)'  BY <3>1 DEF RowsSound, ImportInv
      <3>3. PeopleSound(members)'  BY <3>1 DEF PeopleSound, Ids, ImportInv
      <3>4. Offered(Entries(export, members))' = Offered(Entries(export, members))
        BY <3>1 DEF Offered, Entries, RowEntry, PersonEntry, Handled, Ids, Category, Conflicting, Matches, Match, ByExternalId, ByIdentity, ProposedLogin
      <3> QED  BY <3>1, <3>2, <3>3, <3>4 DEF ImportInv
    <2> QED  BY <2>1, <2>2
  <1>3. ImportInv => ImportSound
    BY Compared DEF ImportSound, ImportSettles, ImportInv
  <1> QED  BY <1>1, <1>2, <1>3, PTL DEF ImportSpec

-----------------------------------------------------------------------------
(* The administration of the browser diagnostics.                          *)

Parts == {"settings", "targets"}
Snapshots == [settings : Modes, revision : Nat, targets : [Subjects -> Nat], targetsRevision : Nat]
Served == [kind : {"view"}, settings : Modes, revision : Nat, targets : [Subjects -> Nat], targetsRevision : Nat,
           sure : BOOLEAN]
Orders == [by : Consoles, what : {"settings", "set", "remove"}, value : Modes, who : Subjects \cup {CHOOSE x \in Subjects : TRUE},
           seen : Served, at : {"asked", "stored", "answered", "conflict", "failed"}, awaited : BOOLEAN, expected : Nat,
           revision : Nat, changed : BOOLEAN]
OrderTyped(o) == /\ o \in Orders /\ (o.what # "settings" => o.who \in Subjects)
                 /\ o.expected = IF o.what = "settings" THEN o.seen.revision ELSE o.seen.targetsRevision
Refreshes == [at : {"begun", "settings", "targets"}, view : Snapshots \cup {Nothing}, behind : BOOLEAN, late : BOOLEAN]
LoggingTyped ==
  /\ tables \in Snapshots /\ snapshot \in Snapshots /\ astray \in BOOLEAN
  /\ \A r \in refreshes : /\ r \in Refreshes /\ (r.at # "begun" => r.view \in Snapshots)
                          /\ (r.at = "begun" => ~r.behind)
  /\ consoles \in [Consoles -> [authorized : BOOLEAN, busy : BOOLEAN, data : Served \cup {Nothing}]]
  /\ \A l \in loads : l \in [by : Consoles, latest : BOOLEAN, answer : Served \cup {Nothing}]
  /\ \A o \in orders : OrderTyped(o)

\* A snapshot that is what the tables t hold, but for the writes H nobody has told it of.
Same(part, v, t) == IF part = "settings" THEN v.settings = t.settings /\ v.revision = t.revision
                    ELSE v.targets = t.targets /\ v.targetsRevision = t.targetsRevision
Lags(v, H, t) == \A part \in Parts : /\ (\A o \in H : Part(o) # part) => Same(part, v, t)
                                     /\ \A o \in H : Part(o) = part => Same(part, Applied(v, o), t)
OneEach(H) == \A o, q \in H : Part(o) = Part(q) => o = q

\* What somebody saw is not newer than the tables t, and is as new only if it is the same.
Older(v, t) == /\ v.revision <= t.revision /\ (v.revision = t.revision => v.settings = t.settings)
               /\ v.targetsRevision <= t.targetsRevision
TargetsSeen(v, t) == v.targetsRevision = t.targetsRevision => v.targets = t.targets
ShownTrue(v, t) == Older(v, t) /\ (v.sure => TargetsSeen(v, t))
True(o, t) == /\ o.what = "settings" => o.revision <= t.revision /\ (o.revision = t.revision => o.value = t.settings)
              /\ o.what # "settings" => o.revision <= t.targetsRevision

Waiting == {o \in orders : o.at = "stored"}
KeptLags == ~astray => Lags(snapshot, Waiting, tables) /\ OneEach(Waiting)
ReadsLag == ~astray => \A r \in refreshes : r.at # "begun" /\ ~r.late => Lags(r.view, Waiting, tables)
LateWhenTold == \A r \in refreshes : r.behind /\ ~r.late => Waiting # {}
ReadsCurrent == \A r \in refreshes : r.at # "begun" /\ ~r.behind => r.view = tables
WaitingTrue == \A o \in Waiting : True(o, tables)
KeptOlder == Older(snapshot, tables) /\ (~astray => TargetsSeen(snapshot, tables))
ReadsOlder == \A r \in refreshes : r.at # "begun" => Older(r.view, tables) /\ TargetsSeen(r.view, tables)
AnswersOlder == \A l \in loads : l.answer # Nothing => ShownTrue(l.answer, tables)
PagesOlder == \A p \in Consoles : consoles[p].data # Nothing => ShownTrue(consoles[p].data, tables)
OrdersOlder == \A o \in orders : ShownTrue(o.seen, tables)
SnapshotInv == KeptLags /\ ReadsLag /\ LateWhenTold /\ ReadsCurrent /\ WaitingTrue /\ KeptOlder /\ ReadsOlder
ConsolesInv == AnswersOlder /\ PagesOlder /\ OrdersOlder
LoggingInv == LoggingTyped /\ SnapshotInv /\ ConsolesInv

LEMMA AppliedSettings ==
  ASSUME NEW v \in Snapshots, NEW o, o.what = "settings"
  PROVE  /\ Applied(v, o).settings = o.value /\ Applied(v, o).revision = o.revision
         /\ Applied(v, o).targets = v.targets /\ Applied(v, o).targetsRevision = v.targetsRevision
BY DEF Applied, Snapshots

LEMMA AppliedSet ==
  ASSUME NEW v \in Snapshots, NEW o, o.what = "set"
  PROVE  /\ Applied(v, o).settings = v.settings /\ Applied(v, o).revision = v.revision
         /\ Applied(v, o).targets = [v.targets EXCEPT ![o.who] = o.revision] /\ Applied(v, o).targetsRevision = o.revision
BY DEF Applied, Snapshots

LEMMA AppliedRemove ==
  ASSUME NEW v \in Snapshots, NEW o, o.what = "remove", o.changed
  PROVE  /\ Applied(v, o).settings = v.settings /\ Applied(v, o).revision = v.revision
         /\ Applied(v, o).targets = [v.targets EXCEPT ![o.who] = 0] /\ Applied(v, o).targetsRevision = o.revision
BY DEF Applied, Snapshots

LEMMA AppliedNothing ==
  ASSUME NEW v \in Snapshots, NEW o, o.what = "remove", ~o.changed
  PROVE  /\ Applied(v, o).settings = v.settings /\ Applied(v, o).revision = v.revision
         /\ Applied(v, o).targets = v.targets /\ Applied(v, o).targetsRevision = o.revision
BY DEF Applied, Snapshots

LEMMA AppliedTyped ==
  ASSUME NEW v \in Snapshots, NEW o, OrderTyped(o)
  PROVE  Applied(v, o) \in Snapshots
<1>0. o.what \in {"settings", "set", "remove"} /\ o.changed \in BOOLEAN /\ o.value \in Modes /\ o.revision \in Nat
  BY DEF OrderTyped, Orders
<1>1. CASE o.what = "settings" BY <1>0, <1>1 DEF Applied, Snapshots
<1>2. CASE o.what = "set" BY <1>0, <1>2 DEF Applied, Snapshots, OrderTyped
<1>3. CASE o.what = "remove" /\ o.changed BY <1>0, <1>3 DEF Applied, Snapshots, OrderTyped
<1>4. CASE o.what = "remove" /\ ~o.changed BY <1>0, <1>4 DEF Applied, Snapshots, OrderTyped
<1>5. QED BY <1>0, <1>1, <1>2, <1>3, <1>4, Zenon

\* A write changes its own part, to the same whatever was there of it, and twice like once.
LEMMA AppliedOther ==
  ASSUME NEW v \in Snapshots, NEW o, o.what \in {"settings", "set", "remove"}, NEW part \in Parts, part # Part(o)
  PROVE  Same(part, Applied(v, o), v)
<1>1. CASE o.what = "settings" BY <1>1, AppliedSettings DEF Same, Part, Parts
<1>2. CASE o.what = "set" BY <1>2, AppliedSet DEF Same, Part, Parts
<1>3. CASE o.what = "remove" /\ o.changed BY <1>3, AppliedRemove DEF Same, Part, Parts
<1>4. CASE o.what = "remove" /\ ~o.changed BY <1>4, AppliedNothing DEF Same, Part, Parts
<1>5. QED BY <1>1, <1>2, <1>3, <1>4

LEMMA SameAfter ==
  ASSUME NEW v \in Snapshots, NEW w \in Snapshots, NEW o, o.what \in {"settings", "set", "remove"}
  PROVE  /\ o.what = "settings" => Same(Part(o), Applied(v, o), Applied(w, o))
         /\ o.what # "settings" /\ v.targets = w.targets => Same(Part(o), Applied(v, o), Applied(w, o))
<1>1. CASE o.what = "settings"
  <2>1. Applied(v, o).settings = o.value /\ Applied(v, o).revision = o.revision BY <1>1, AppliedSettings
  <2>2. Applied(w, o).settings = o.value /\ Applied(w, o).revision = o.revision BY <1>1, AppliedSettings
  <2>3. QED BY <1>1, <2>1, <2>2 DEF Same, Part
<1>2. CASE o.what = "set"
  <2>1. Applied(v, o).targets = [v.targets EXCEPT ![o.who] = o.revision] /\ Applied(v, o).targetsRevision = o.revision
    BY <1>2, AppliedSet
  <2>2. Applied(w, o).targets = [w.targets EXCEPT ![o.who] = o.revision] /\ Applied(w, o).targetsRevision = o.revision
    BY <1>2, AppliedSet
  <2>3. QED BY <1>2, <2>1, <2>2 DEF Same, Part
<1>3. CASE o.what = "remove" /\ o.changed
  <2>1. Applied(v, o).targets = [v.targets EXCEPT ![o.who] = 0] /\ Applied(v, o).targetsRevision = o.revision
    BY <1>3, AppliedRemove
  <2>2. Applied(w, o).targets = [w.targets EXCEPT ![o.who] = 0] /\ Applied(w, o).targetsRevision = o.revision
    BY <1>3, AppliedRemove
  <2>3. QED BY <1>3, <2>1, <2>2 DEF Same, Part
<1>4. CASE o.what = "remove" /\ ~o.changed
  <2>1. Applied(v, o).targets = v.targets /\ Applied(v, o).targetsRevision = o.revision BY <1>4, AppliedNothing
  <2>2. Applied(w, o).targets = w.targets /\ Applied(w, o).targetsRevision = o.revision BY <1>4, AppliedNothing
  <2>3. QED BY <1>4, <2>1, <2>2 DEF Same, Part
<1>5. QED BY <1>1, <1>2, <1>3, <1>4

LEMMA AppliedSame ==
  ASSUME NEW v \in Snapshots, NEW w \in Snapshots, NEW o, o.what \in {"settings", "set", "remove"}, Same(Part(o), v, w)
  PROVE  Same(Part(o), Applied(v, o), Applied(w, o))
<1>1. CASE o.what = "settings" BY <1>1, SameAfter
<1>2. CASE o.what # "settings"
  <2>1. v.targets = w.targets BY <1>2 DEF Same, Part
  <2>2. QED BY <1>2, <2>1, SameAfter
<1>3. QED BY <1>1, <1>2

LEMMA AppliedTwice ==
  ASSUME NEW v \in Snapshots, NEW o, OrderTyped(o)
  PROVE  Same(Part(o), Applied(Applied(v, o), o), Applied(v, o))
<1>0. /\ o.what \in {"settings", "set", "remove"} /\ Applied(v, o) \in Snapshots /\ v.targets \in [Subjects -> Nat]
      /\ o.what # "settings" => o.who \in Subjects
  BY AppliedTyped DEF OrderTyped, Orders, Snapshots
<1> DEFINE w == Applied(v, o)
<1>a. w \in Snapshots BY <1>0
<1>1. CASE o.what = "settings" BY <1>0, <1>a, <1>1, SameAfter
<1>2. CASE o.what = "set"
  <2>1. w.targets = [v.targets EXCEPT ![o.who] = o.revision] /\ w.targetsRevision = o.revision BY <1>2, AppliedSet
  <2> HIDE DEF w
  <2>2. Applied(w, o).targets = [w.targets EXCEPT ![o.who] = o.revision] /\ Applied(w, o).targetsRevision = o.revision
    BY <1>2, <1>a, AppliedSet
  <2>3. Applied(w, o).targets = w.targets BY <1>0, <1>2, <2>1, <2>2
  <2>4. Same(Part(o), Applied(w, o), w) BY <1>2, <2>1, <2>2, <2>3 DEF Same, Part
  <2>5. QED BY <2>4 DEF w
<1>3. CASE o.what = "remove" /\ o.changed
  <2>1. w.targets = [v.targets EXCEPT ![o.who] = 0] /\ w.targetsRevision = o.revision BY <1>3, AppliedRemove
  <2> HIDE DEF w
  <2>2. Applied(w, o).targets = [w.targets EXCEPT ![o.who] = 0] /\ Applied(w, o).targetsRevision = o.revision
    BY <1>3, <1>a, AppliedRemove
  <2>3. Applied(w, o).targets = w.targets BY <1>0, <1>3, <2>1, <2>2
  <2>4. Same(Part(o), Applied(w, o), w) BY <1>3, <2>1, <2>2, <2>3 DEF Same, Part
  <2>5. QED BY <2>4 DEF w
<1>4. CASE o.what = "remove" /\ ~o.changed
  <2>1. w.targets = v.targets /\ w.targetsRevision = o.revision BY <1>4, AppliedNothing
  <2> HIDE DEF w
  <2>2. Applied(w, o).targets = w.targets /\ Applied(w, o).targetsRevision = o.revision BY <1>4, <1>a, AppliedNothing
  <2>4. Same(Part(o), Applied(w, o), w) BY <1>4, <2>1, <2>2 DEF Same, Part
  <2>5. QED BY <2>4 DEF w
<1>5. QED BY <1>0, <1>1, <1>2, <1>3, <1>4

LEMMA SameAll ==
  ASSUME NEW v \in Snapshots, NEW w \in Snapshots, \A part \in Parts : Same(part, v, w)
  PROVE  v = w
<1>1. Same("settings", v, w) /\ Same("targets", v, w) BY DEF Parts
<1>2. QED BY <1>1 DEF Same, Snapshots

LEMMA SameRules == \A part, u, v, w : /\ Same(part, v, v)
                                      /\ Same(part, u, v) => Same(part, v, u)
                                      /\ Same(part, u, v) /\ Same(part, v, w) => Same(part, u, w)
BY DEF Same

LEMMA LagWrite ==
  ASSUME NEW v \in Snapshots, NEW t \in Snapshots, NEW H, NEW w, OrderTyped(w), \A o \in H : Part(o) # Part(w), Lags(v, H, t)
  PROVE  Lags(v, H \cup {w}, Applied(t, w))
<1>0. w.what \in {"settings", "set", "remove"} /\ Part(w) \in Parts BY DEF OrderTyped, Orders, Part, Parts
<1> SUFFICES ASSUME NEW part \in Parts
             PROVE  /\ (\A o \in H \cup {w} : Part(o) # part) => Same(part, v, Applied(t, w))
                    /\ \A o \in H \cup {w} : Part(o) = part => Same(part, Applied(v, o), Applied(t, w))
  BY DEF Lags
<1>1. CASE part = Part(w)
  <2>1. Same(part, v, t) BY <1>1 DEF Lags
  <2>2. Same(part, Applied(v, w), Applied(t, w)) BY <1>0, <1>1, <2>1, AppliedSame
  <2>3. QED BY <1>1, <2>2
<1>2. CASE part # Part(w)
  <2>1. Same(part, Applied(t, w), t) BY <1>0, <1>2, AppliedOther
  <2>2. Same(part, t, Applied(t, w)) BY <2>1, SameRules
  <2>3. ASSUME \A o \in H : Part(o) # part PROVE Same(part, v, Applied(t, w)) BY <2>2, <2>3, SameRules DEF Lags
  <2>4. ASSUME NEW o \in H, Part(o) = part PROVE Same(part, Applied(v, o), Applied(t, w)) BY <2>2, <2>4, SameRules DEF Lags
  <2>5. QED BY <1>2, <2>3, <2>4
<1>3. QED BY <1>1, <1>2

LEMMA LagTell ==
  ASSUME NEW v \in Snapshots, NEW t \in Snapshots, NEW H, NEW o \in H, \A q \in H : OrderTyped(q), OneEach(H), Lags(v, H, t)
  PROVE  Lags(Applied(v, o), H \ {o}, t)
<1>0. OrderTyped(o) /\ o.what \in {"settings", "set", "remove"} /\ Part(o) \in Parts BY DEF OrderTyped, Orders, Part, Parts
<1>a. Applied(v, o) \in Snapshots BY <1>0, AppliedTyped
<1> SUFFICES ASSUME NEW part \in Parts
             PROVE  /\ (\A q \in H \ {o} : Part(q) # part) => Same(part, Applied(v, o), t)
                    /\ \A q \in H \ {o} : Part(q) = part => Same(part, Applied(Applied(v, o), q), t)
  BY DEF Lags
<1>1. CASE part = Part(o)
  <2>1. Same(part, Applied(v, o), t) BY <1>1 DEF Lags
  <2>2. QED BY <1>1, <2>1 DEF OneEach
<1>2. CASE part # Part(o)
  <2>1. Same(part, Applied(v, o), v) BY <1>0, <1>2, AppliedOther
  <2>2. ASSUME \A q \in H \ {o} : Part(q) # part PROVE Same(part, Applied(v, o), t)
    <3>1. \A q \in H : Part(q) # part BY <1>2, <2>2
    <3>2. Same(part, v, t) BY <3>1 DEF Lags
    <3>3. QED BY <2>1, <3>2, SameRules
  <2>3. ASSUME NEW q \in H \ {o}, Part(q) = part PROVE Same(part, Applied(Applied(v, o), q), t)
    <3>1. q.what \in {"settings", "set", "remove"} BY DEF OrderTyped, Orders
    <3>2. Same(part, Applied(Applied(v, o), q), Applied(v, q)) BY <1>a, <2>1, <2>3, <3>1, AppliedSame
    <3>3. Same(part, Applied(v, q), t) BY <2>3 DEF Lags
    <3>4. QED BY <3>2, <3>3, SameRules
  <2>4. QED BY <2>2, <2>3
<1>3. QED BY <1>1, <1>2

\* The tables as they are lag behind nothing, and do so too when a write is told of.
LEMMA LagSelf ==
  ASSUME NEW v \in Snapshots, NEW t \in Snapshots, NEW H, \A q \in H : OrderTyped(q), Lags(v, H, t)
  PROVE  Lags(t, H, t)
<1> SUFFICES ASSUME NEW part \in Parts
             PROVE  /\ Same(part, t, t)
                    /\ \A o \in H : Part(o) = part => Same(part, Applied(t, o), t)
  BY DEF Lags
<1>1. ASSUME NEW o \in H, Part(o) = part PROVE Same(part, Applied(t, o), t)
  <2>0. OrderTyped(o) /\ o.what \in {"settings", "set", "remove"} BY DEF OrderTyped, Orders
  <2>1. Applied(v, o) \in Snapshots BY <2>0, AppliedTyped
  <2>2. Same(part, Applied(v, o), t) BY <1>1 DEF Lags
  <2>3. Same(part, Applied(Applied(v, o), o), Applied(t, o)) BY <1>1, <2>0, <2>1, <2>2, AppliedSame
  <2>4. Same(part, Applied(Applied(v, o), o), Applied(v, o)) BY <1>1, <2>0, AppliedTwice
  <2>5. Same(part, Applied(t, o), Applied(v, o)) BY <2>3, <2>4, SameRules
  <2>6. QED BY <2>2, <2>5, SameRules
<1>2. QED BY <1>1, SameRules

LEMMA LagFewer ==
  ASSUME NEW t, NEW H, NEW o, Lags(t, H, t)
  PROVE  Lags(t, H \ {o}, t)
BY SameRules DEF Lags

LEMMA LagReadTargets ==
  ASSUME NEW v \in Snapshots, NEW t \in Snapshots, NEW H, \A q \in H : OrderTyped(q), Lags(v, H, t)
  PROVE  Lags([v EXCEPT !.targets = t.targets], H, t)
<1> DEFINE w == [v EXCEPT !.targets = t.targets]
<1>1. w \in Snapshots /\ w.settings = v.settings /\ w.revision = v.revision /\ w.targets = t.targets
      /\ w.targetsRevision = v.targetsRevision
  BY DEF Snapshots
<1> HIDE DEF w
<1>2. \A part \in Parts : Same(part, v, t) => Same(part, w, t) BY <1>1 DEF Same, Parts
<1>3. ASSUME NEW part \in Parts, NEW o \in H, Part(o) = part PROVE Same(part, Applied(w, o), t)
  <2>0. OrderTyped(o) /\ o.what \in {"settings", "set", "remove"} BY DEF OrderTyped, Orders
  <2>1. Same(part, Applied(v, o), t) BY <1>3 DEF Lags
  <2>2. CASE o.what = "settings"
    <3>1. Applied(v, o).settings = o.value /\ Applied(v, o).revision = o.revision BY <2>2, AppliedSettings
    <3>2. Applied(w, o).settings = o.value /\ Applied(w, o).revision = o.revision BY <1>1, <2>2, AppliedSettings
    <3>3. QED BY <1>3, <2>1, <2>2, <3>1, <3>2 DEF Same, Part
  <2>3. CASE o.what = "set"
    <3>1. Applied(v, o).targets = [v.targets EXCEPT ![o.who] = o.revision] /\ Applied(v, o).targetsRevision = o.revision
      BY <2>3, AppliedSet
    <3>2. Applied(w, o).targets = [w.targets EXCEPT ![o.who] = o.revision] /\ Applied(w, o).targetsRevision = o.revision
      BY <1>1, <2>3, AppliedSet
    <3>3. t.targets = [v.targets EXCEPT ![o.who] = o.revision] /\ t.targetsRevision = o.revision
      BY <1>3, <2>1, <2>3, <3>1 DEF Same, Part
    <3>4. v.targets \in [Subjects -> Nat] /\ o.who \in Subjects BY <2>0, <2>3 DEF Snapshots, OrderTyped
    <3>5. [w.targets EXCEPT ![o.who] = o.revision] = t.targets BY <1>1, <3>3, <3>4
    <3>6. QED BY <1>3, <2>3, <3>2, <3>3, <3>5 DEF Same, Part
  <2>4. CASE o.what = "remove" /\ o.changed
    <3>1. Applied(v, o).targets = [v.targets EXCEPT ![o.who] = 0] /\ Applied(v, o).targetsRevision = o.revision
      BY <2>4, AppliedRemove
    <3>2. Applied(w, o).targets = [w.targets EXCEPT ![o.who] = 0] /\ Applied(w, o).targetsRevision = o.revision
      BY <1>1, <2>4, AppliedRemove
    <3>3. t.targets = [v.targets EXCEPT ![o.who] = 0] /\ t.targetsRevision = o.revision
      BY <1>3, <2>1, <2>4, <3>1 DEF Same, Part
    <3>4. v.targets \in [Subjects -> Nat] /\ o.who \in Subjects BY <2>0, <2>4 DEF Snapshots, OrderTyped
    <3>5. [w.targets EXCEPT ![o.who] = 0] = t.targets BY <1>1, <3>3, <3>4
    <3>6. QED BY <1>3, <2>4, <3>2, <3>3, <3>5 DEF Same, Part
  <2>5. CASE o.what = "remove" /\ ~o.changed
    <3>1. Applied(v, o).targets = v.targets /\ Applied(v, o).targetsRevision = o.revision BY <2>5, AppliedNothing
    <3>2. Applied(w, o).targets = w.targets /\ Applied(w, o).targetsRevision = o.revision BY <1>1, <2>5, AppliedNothing
    <3>3. QED BY <1>1, <1>3, <2>1, <2>5, <3>1, <3>2 DEF Same, Part
  <2>6. QED BY <2>0, <2>2, <2>3, <2>4, <2>5
<1>4. Lags(w, H, t) BY <1>2, <1>3 DEF Lags
<1>5. QED BY <1>4 DEF w

\* A write makes the next revision of its part, unless it removes what is not there.
LEMMA WrittenOrder ==
  ASSUME LoggingTyped, NEW o \in orders, Valid(o),
         NEW q, q = Result(o), NEW u, u = Applied(tables, q)
  PROVE  /\ OrderTyped(q) /\ q.at = "stored" /\ q.seen = o.seen /\ Part(q) = Part(o) /\ u \in Snapshots
         /\ \/ /\ o.what = "settings" /\ q.revision = tables.revision + 1 /\ u.revision = q.revision /\ u.settings = q.value
               /\ u.targets = tables.targets /\ u.targetsRevision = tables.targetsRevision
            \/ /\ o.what # "settings" /\ Alters(o) /\ q.revision = tables.targetsRevision + 1 /\ u.targetsRevision = q.revision
               /\ u.settings = tables.settings /\ u.revision = tables.revision
            \/ o.what # "settings" /\ ~Alters(o) /\ q.revision = tables.targetsRevision /\ u = tables
<1>1. OrderTyped(o) /\ o \in Orders /\ tables \in Snapshots /\ o.expected \in Nat BY DEF LoggingTyped, OrderTyped, Orders
<1>2. Alters(o) \in BOOLEAN BY DEF Alters
<1>a. /\ q.at = "stored" /\ q.changed = Alters(o) /\ q.revision = (IF Alters(o) THEN o.expected + 1 ELSE o.expected)
      /\ q.what = o.what /\ q.value = o.value /\ q.who = o.who /\ q.seen = o.seen /\ q.expected = o.expected
  BY <1>1 DEF Result, Orders
<1>3. q \in Orders
  <2>1. (IF Alters(o) THEN o.expected + 1 ELSE o.expected) \in Nat BY <1>1
  <2>2. QED BY <1>1, <1>2, <2>1 DEF Result, Orders
<1>4. OrderTyped(q) BY <1>1, <1>3, <1>a DEF OrderTyped
<1>5. Part(q) = Part(o) BY <1>a DEF Part
<1>6. u \in Snapshots BY <1>1, <1>4, AppliedTyped
<1>7. CASE o.what = "settings"
  <2>1. Alters(o) /\ o.expected = tables.revision BY <1>7 DEF Alters, Valid
  <2>2. QED BY <1>1, <1>4, <1>5, <1>6, <1>7, <1>a, <2>1, AppliedSettings
<1>8. CASE o.what = "set"
  <2>1. Alters(o) /\ o.expected = tables.targetsRevision BY <1>8 DEF Alters, Valid
  <2>2. u.settings = tables.settings /\ u.revision = tables.revision /\ u.targetsRevision = q.revision
    BY <1>1, <1>8, <1>a DEF Applied, Snapshots
  <2>3. Alters(o) /\ o.what # "settings" /\ q.revision = tables.targetsRevision + 1
    BY <1>8, <1>a, <2>1
  <2>4. QED BY <1>4, <1>5, <1>6, <1>a, <2>2, <2>3
<1>9. CASE o.what = "remove" /\ Alters(o)
  <2>1. o.expected = tables.targetsRevision BY <1>9 DEF Valid
  <2>2. u.settings = tables.settings /\ u.revision = tables.revision /\ u.targetsRevision = q.revision
    BY <1>1, <1>9, <1>a DEF Applied, Snapshots
  <2>3. Alters(o) /\ o.what # "settings" /\ q.revision = tables.targetsRevision + 1
    BY <1>9, <1>a, <2>1
  <2>4. QED BY <1>4, <1>5, <1>6, <1>a, <2>2, <2>3
<1>10. CASE o.what = "remove" /\ ~Alters(o)
  <2>1. o.expected = tables.targetsRevision BY <1>10 DEF Valid
  <2>2. /\ u.settings = tables.settings /\ u.revision = tables.revision
        /\ u.targets = tables.targets /\ u.targetsRevision = tables.targetsRevision
    BY <1>1, <1>10, <1>a, <2>1, AppliedNothing
  <2>3. u = tables BY <1>1, <1>6, <2>2 DEF Snapshots
  <2>4. o.what # "settings" /\ ~Alters(o) /\ q.revision = tables.targetsRevision BY <1>10, <1>a, <2>1
  <2>5. QED BY <1>4, <1>5, <1>6, <1>a, <2>3, <2>4
<1>11. QED BY <1>1, <1>7, <1>8, <1>9, <1>10 DEF Orders

\* What was seen before a write is not newer than what the write leaves.
LEMMA OlderStays ==
  ASSUME LoggingTyped, NEW o \in orders, Valid(o),
         NEW v, v.revision \in Nat, v.targetsRevision \in Nat, Older(v, tables)
  PROVE  /\ Older(v, Applied(tables, Result(o)))
         /\ TargetsSeen(v, tables) => TargetsSeen(v, Applied(tables, Result(o)))
<1> DEFINE q == Result(o)
           u == Applied(tables, q)
<1>1. tables.revision \in Nat /\ tables.targetsRevision \in Nat BY DEF LoggingTyped, Snapshots
<1>2. \/ /\ o.what = "settings" /\ q.revision = tables.revision + 1 /\ u.revision = q.revision /\ u.settings = q.value
         /\ u.targets = tables.targets /\ u.targetsRevision = tables.targetsRevision
      \/ /\ o.what # "settings" /\ Alters(o) /\ q.revision = tables.targetsRevision + 1 /\ u.targetsRevision = q.revision
         /\ u.settings = tables.settings /\ u.revision = tables.revision
      \/ o.what # "settings" /\ ~Alters(o) /\ q.revision = tables.targetsRevision /\ u = tables
  BY WrittenOrder
<1> HIDE DEF q, u
<1>3. Older(v, u) /\ (TargetsSeen(v, tables) => TargetsSeen(v, u)) BY <1>1, <1>2 DEF Older, TargetsSeen
<1>4. QED BY <1>3 DEF q, u

LEMMA TrueStays ==
  ASSUME LoggingTyped, NEW o \in orders, Valid(o), NEW w, OrderTyped(w), True(w, tables)
  PROVE  True(w, Applied(tables, Result(o)))
<1> DEFINE q == Result(o)
           u == Applied(tables, q)
<1>1. tables.revision \in Nat /\ tables.targetsRevision \in Nat /\ w.revision \in Nat
  BY DEF LoggingTyped, Snapshots, OrderTyped, Orders
<1>2. \/ /\ o.what = "settings" /\ q.revision = tables.revision + 1 /\ u.revision = q.revision /\ u.settings = q.value
         /\ u.targets = tables.targets /\ u.targetsRevision = tables.targetsRevision
      \/ /\ o.what # "settings" /\ Alters(o) /\ q.revision = tables.targetsRevision + 1 /\ u.targetsRevision = q.revision
         /\ u.settings = tables.settings /\ u.revision = tables.revision
      \/ o.what # "settings" /\ ~Alters(o) /\ q.revision = tables.targetsRevision /\ u = tables
  BY WrittenOrder
<1> HIDE DEF q, u
<1>3. True(w, u) BY <1>1, <1>2 DEF True
<1>4. QED BY <1>3 DEF q, u

LEMMA NewTrue ==
  ASSUME LoggingTyped, NEW o \in orders, Valid(o)
  PROVE  True(Result(o), Applied(tables, Result(o)))
<1> DEFINE q == Result(o)
           u == Applied(tables, q)
<1>1. tables.revision \in Nat /\ tables.targetsRevision \in Nat BY DEF LoggingTyped, Snapshots
<1>2. /\ OrderTyped(q)
      /\ \/ /\ o.what = "settings" /\ q.revision = tables.revision + 1 /\ u.revision = q.revision /\ u.settings = q.value
            /\ u.targets = tables.targets /\ u.targetsRevision = tables.targetsRevision
         \/ /\ o.what # "settings" /\ Alters(o) /\ q.revision = tables.targetsRevision + 1 /\ u.targetsRevision = q.revision
            /\ u.settings = tables.settings /\ u.revision = tables.revision
         \/ o.what # "settings" /\ ~Alters(o) /\ q.revision = tables.targetsRevision /\ u = tables
  BY WrittenOrder
<1>3. q.what = o.what BY DEF Result, LoggingTyped, OrderTyped, Orders
<1> HIDE DEF q, u
<1>4. True(q, u) BY <1>1, <1>2, <1>3 DEF True
<1>5. QED BY <1>4 DEF q, u

\* Steps that leave the tables, the snapshot and its reads alone, and no write more or less to be told of.
LEMMA SnapshotRests ==
  ASSUME SnapshotInv, UNCHANGED <<tables, snapshot, refreshes, astray>>, Waiting' = Waiting
  PROVE  SnapshotInv'
BY DEF SnapshotInv, KeptLags, ReadsLag, LateWhenTold, ReadsCurrent, WaitingTrue, KeptOlder, ReadsOlder

LEMMA Viewed ==
  ASSUME LoggingTyped, SnapshotInv
  PROVE  adminView \in Served /\ adminView # Nothing /\ ShownTrue(adminView, tables)
<1>1. adminView \in Served BY DEF LoggingTyped, Snapshots, Served, adminView
<1>2. adminView # Nothing BY <1>1 DEF Served, Nothing
<1>3. ShownTrue(adminView, tables)
  <2>1. /\ adminView.settings = snapshot.settings /\ adminView.revision = snapshot.revision /\ adminView.targets = snapshot.targets
        /\ adminView.targetsRevision = snapshot.targetsRevision /\ adminView.sure = ~astray
    BY DEF adminView
  <2>2. Older(snapshot, tables) /\ (~astray => TargetsSeen(snapshot, tables)) BY DEF SnapshotInv, KeptOlder
  <2>3. QED BY <2>1, <2>2 DEF ShownTrue, Older, TargetsSeen
<1>4. QED BY <1>1, <1>2, <1>3

-----------------------------------------------------------------------------
(* The pages.                                                              *)

Desks == [authorized : BOOLEAN, busy : BOOLEAN, data : Served \cup {Nothing}]
LoadsOfPages == [by : Consoles, latest : BOOLEAN, answer : Served \cup {Nothing}]
DeskSound(c, t) == c \in Desks /\ (c.data # Nothing => ShownTrue(c.data, t))
LoadSound(l, t) == l \in LoadsOfPages /\ (l.answer # Nothing => ShownTrue(l.answer, t))
OrderSound(o, t) == OrderTyped(o) /\ ShownTrue(o.seen, t)

LEMMA PagesAre ==
  ASSUME LoggingInv
  PROVE  /\ DOMAIN consoles = Consoles /\ consoles = [p \in Consoles |-> consoles[p]]
         /\ \A p \in Consoles : DeskSound(consoles[p], tables)
         /\ \A l \in loads : LoadSound(l, tables)
         /\ \A o \in orders : OrderSound(o, tables)
BY DEF LoggingInv, LoggingTyped, ConsolesInv, AnswersOlder, PagesOlder, OrdersOlder, DeskSound, LoadSound, OrderSound, Desks,
       LoadsOfPages

LEMMA PagesSound ==
  ASSUME DOMAIN consoles' = Consoles, consoles' = [p \in Consoles |-> consoles'[p]],
         \A p \in Consoles : DeskSound(consoles'[p], tables'),
         \A l \in loads' : LoadSound(l, tables'), \A o \in orders' : OrderSound(o, tables'),
         /\ tables' \in Snapshots /\ snapshot' \in Snapshots /\ astray' \in BOOLEAN
         /\ \A r \in refreshes' : /\ r \in Refreshes /\ (r.at # "begun" => r.view \in Snapshots)
                                  /\ (r.at = "begun" => ~r.behind)
  PROVE  LoggingTyped' /\ ConsolesInv'
<1>1. consoles' \in [Consoles -> Desks]
  BY DEF DeskSound
<1>2. /\ \A l \in loads' : l \in LoadsOfPages
      /\ \A o \in orders' : OrderTyped(o)
  BY DEF LoadSound, OrderSound
<1>3. LoggingTyped'
  BY <1>1, <1>2 DEF LoggingTyped, Desks, LoadsOfPages, OrderTyped, Orders, Served, Snapshots, Refreshes, Nothing
<1>4. ConsolesInv'
  BY DEF ConsolesInv, AnswersOlder, PagesOlder, OrdersOlder, DeskSound, LoadSound, OrderSound, ShownTrue, Older, TargetsSeen, Nothing
<1>5. QED BY <1>3, <1>4

\* A page does something of its own: the server is not concerned.
LEMMA PageStep ==
  ASSUME LoggingInv, UNCHANGED <<tables, snapshot, refreshes, astray>>, Waiting' = Waiting,
         DOMAIN consoles' = Consoles, consoles' = [p \in Consoles |-> consoles'[p]],
         \A p \in Consoles : DeskSound(consoles'[p], tables),
         \A l \in loads' : LoadSound(l, tables), \A o \in orders' : OrderSound(o, tables)
  PROVE  LoggingInv'
<1>1. SnapshotInv' BY SnapshotRests DEF LoggingInv
<1>2. /\ tables' \in Snapshots /\ snapshot' \in Snapshots /\ astray' \in BOOLEAN
      /\ \A r \in refreshes' : /\ r \in Refreshes /\ (r.at # "begun" => r.view \in Snapshots)
                               /\ (r.at = "begun" => ~r.behind)
  BY DEF LoggingInv, LoggingTyped
<1>3. LoggingTyped' /\ ConsolesInv' BY <1>2, PagesSound
<1>4. QED BY <1>1, <1>3 DEF LoggingInv

LEMMA BusyDesk ==
  ASSUME LoggingInv, NEW p \in Consoles, NEW b \in BOOLEAN, Busy(p, b)
  PROVE  /\ DOMAIN consoles' = Consoles /\ consoles' = [q \in Consoles |-> consoles'[q]]
         /\ \A q \in Consoles : DeskSound(consoles'[q], tables)
<1> DEFINE c == [consoles[p] EXCEPT !.busy = b]
<1>1. consoles' = [consoles EXCEPT ![p] = c] BY DEF Busy
<1>2. DeskSound(c, tables)
  <2>1. DeskSound(consoles[p], tables) BY PagesAre
  <2>2. c \in Desks /\ c.data = consoles[p].data BY <2>1 DEF DeskSound, Desks
  <2>3. QED BY <2>1, <2>2 DEF DeskSound
<1> HIDE DEF c
<1>3. QED BY <1>1, <1>2, PagesAre

LEMMA DeskChanges ==
  ASSUME LoggingInv, NEW p \in Consoles, NEW c, DeskSound(c, tables), consoles' = [consoles EXCEPT ![p] = c]
  PROVE  /\ DOMAIN consoles' = Consoles /\ consoles' = [q \in Consoles |-> consoles'[q]]
         /\ \A q \in Consoles : DeskSound(consoles'[q], tables)
BY PagesAre

LEMMA OutdatedSound ==
  ASSUME LoggingInv, NEW p \in Consoles
  PROVE  /\ \A l \in Outdated(p) : LoadSound(l, tables)
         /\ LoadSound([by |-> p, latest |-> TRUE, answer |-> Nothing], tables)
<1>1. ASSUME NEW l \in Outdated(p) PROVE LoadSound(l, tables)
  <2>1. PICK m \in loads : l = IF m.by = p THEN [m EXCEPT !.latest = FALSE] ELSE m BY DEF Outdated
  <2>2. LoadSound(m, tables) BY PagesAre
  <2>3. l \in LoadsOfPages /\ l.answer = m.answer BY <2>1, <2>2 DEF LoadSound, LoadsOfPages
  <2>4. QED BY <2>2, <2>3 DEF LoadSound
<1>2. LoadSound([by |-> p, latest |-> TRUE, answer |-> Nothing], tables) BY DEF LoadSound, LoadsOfPages
<1>3. QED BY <1>1, <1>2

LEMMA AuthStep == ASSUME LoggingInv, NEW p \in Consoles, NEW admin \in BOOLEAN, applyAuth(p, admin) PROVE LoggingInv'
<1>1. UNCHANGED <<tables, snapshot, refreshes, orders, astray>> BY DEF applyAuth
<1>2. Waiting' = Waiting BY <1>1 DEF Waiting
<1>3. DeskSound(consoles[p], tables) BY PagesAre
<1>4. PICK c : /\ consoles' = [consoles EXCEPT ![p] = c]
               /\ \/ c = [consoles[p] EXCEPT !.authorized = TRUE, !.busy = TRUE]
                  \/ c = [consoles[p] EXCEPT !.authorized = FALSE, !.data = Nothing]
  <2>1. CASE admin BY <2>1 DEF applyAuth
  <2>2. CASE ~admin BY <2>2 DEF applyAuth
  <2>3. QED BY <2>1, <2>2
<1>5. DeskSound(c, tables)
  <2>1. CASE c = [consoles[p] EXCEPT !.authorized = TRUE, !.busy = TRUE]
    <3>1. c \in Desks /\ c.data = consoles[p].data BY <1>3, <2>1 DEF DeskSound, Desks
    <3>2. QED BY <3>1, <1>3 DEF DeskSound
  <2>2. CASE c = [consoles[p] EXCEPT !.authorized = FALSE, !.data = Nothing]
    <3>1. c \in Desks /\ c.data = Nothing BY <1>3, <2>2 DEF DeskSound, Desks
    <3>2. QED BY <3>1 DEF DeskSound
  <2>3. QED BY <1>4, <2>1, <2>2
<1>6. \A l \in loads' : LoadSound(l, tables)
  <2>1. \A l \in loads' : l \in Outdated(p) \/ l = [by |-> p, latest |-> TRUE, answer |-> Nothing] BY DEF applyAuth
  <2>2. QED BY <2>1, OutdatedSound
<1>7. \A o \in orders' : OrderSound(o, tables) BY <1>1, PagesAre
<1>8. /\ DOMAIN consoles' = Consoles /\ consoles' = [q \in Consoles |-> consoles'[q]]
      /\ \A q \in Consoles : DeskSound(consoles'[q], tables)
  BY <1>4, <1>5, DeskChanges
<1>9. QED BY <1>1, <1>2, <1>6, <1>7, <1>8, PageStep

LEMMA LoadDataStep ==
  ASSUME LoggingInv, NEW p \in Consoles, loadData(p), UNCHANGED <<tables, snapshot, refreshes, astray>>,
         Waiting' = Waiting, \A o \in orders' : o \in orders
  PROVE  LoggingInv'
<1>1. Busy(p, TRUE) BY DEF loadData
<1>2. \A l \in loads' : LoadSound(l, tables)
  <2>1. \A l \in loads' : l \in Outdated(p) \/ l = [by |-> p, latest |-> TRUE, answer |-> Nothing] BY DEF loadData
  <2>2. QED BY <2>1, OutdatedSound
<1>3. \A o \in orders' : OrderSound(o, tables) BY PagesAre
<1>4. /\ DOMAIN consoles' = Consoles /\ consoles' = [q \in Consoles |-> consoles'[q]]
      /\ \A q \in Consoles : DeskSound(consoles'[q], tables)
  BY <1>1, BusyDesk
<1>5. QED BY <1>2, <1>3, <1>4, PageStep

LEMMA LoadAgainStep == ASSUME LoggingInv, NEW p \in Consoles, LoadAgain(p) PROVE LoggingInv'
<1>1. UNCHANGED <<tables, snapshot, refreshes, orders, astray>> /\ loadData(p) BY DEF LoadAgain
<1>2. QED BY <1>1, LoadDataStep DEF Waiting

LEMMA ServeViewStep == ASSUME LoggingInv, NEW l \in loads, ServeView(l) PROVE LoggingInv'
<1>1. UNCHANGED <<tables, snapshot, refreshes, consoles, orders, astray>> BY DEF ServeView
<1>2. adminView \in Served /\ ShownTrue(adminView, tables) BY Viewed DEF LoggingInv
<1>3. PICK m : m = [l EXCEPT !.answer = adminView] OBVIOUS
<1>4. LoadSound(l, tables) BY PagesAre
<1>5. LoadSound(m, tables)
  <2>1. m \in LoadsOfPages /\ m.answer = adminView BY <1>2, <1>3, <1>4 DEF LoadSound, LoadsOfPages
  <2>2. QED BY <2>1, <1>2 DEF LoadSound
<1>6. \A k \in loads' : LoadSound(k, tables) BY <1>3, <1>5, PagesAre DEF ServeView
<1>7. QED BY <1>1, <1>6, PageStep, PagesAre DEF Waiting

LEMMA RenderStep == ASSUME LoggingInv, NEW l \in loads, renderSnapshot(l) \/ ViewFails(l) PROVE LoggingInv'
<1>1. UNCHANGED <<tables, snapshot, refreshes, orders, astray>> /\ loads' = loads \ {l} BY DEF renderSnapshot, ViewFails
<1>2. LoadSound(l, tables) /\ l.by \in Consoles BY PagesAre DEF LoadSound, LoadsOfPages
<1>3. DeskSound(consoles[l.by], tables) BY <1>2, PagesAre
<1>4. /\ DOMAIN consoles' = Consoles /\ consoles' = [q \in Consoles |-> consoles'[q]]
      /\ \A q \in Consoles : DeskSound(consoles'[q], tables)
  <2>1. CASE UNCHANGED consoles BY <2>1, PagesAre
  <2>2. CASE l.answer # Nothing /\ consoles' = [consoles EXCEPT ![l.by].data = l.answer, ![l.by].busy = FALSE]
    <3>1. PICK c : c = [consoles[l.by] EXCEPT !.data = l.answer, !.busy = FALSE] OBVIOUS
    <3>2. c \in Desks /\ c.data = l.answer BY <1>2, <1>3, <3>1 DEF DeskSound, Desks, LoadSound, LoadsOfPages
    <3>3. DeskSound(c, tables) BY <3>2, <1>2, <2>2 DEF DeskSound, LoadSound
    <3>4. consoles' = [consoles EXCEPT ![l.by] = c] BY <2>2, <3>1, <1>2, PagesAre
    <3>5. QED BY <3>3, <3>4, <1>2, DeskChanges
  <2>3. CASE consoles' = [consoles EXCEPT ![l.by].busy = FALSE]
    <3>1. Busy(l.by, FALSE) BY <2>3 DEF Busy
    <3>2. QED BY <3>1, <1>2, BusyDesk
  <2>4. QED BY <2>1, <2>2, <2>3 DEF renderSnapshot, ViewFails
<1>5. QED BY <1>1, <1>4, PageStep, PagesAre DEF Waiting

LEMMA SaveStep == ASSUME LoggingInv, NEW p \in Consoles, Save(p) PROVE LoggingInv'
<1>1. UNCHANGED <<tables, snapshot, refreshes, loads, astray>> /\ Busy(p, TRUE) /\ consoles[p].data # Nothing BY DEF Save
<1>2. PICK o \in Possible(p) : orders' = orders \cup {o} BY DEF Save
<1>3. DeskSound(consoles[p], tables) BY PagesAre
<1> DEFINE seen == consoles[p].data
<1>4. seen \in Served /\ ShownTrue(seen, tables) BY <1>1, <1>3 DEF DeskSound, Desks
<1>5. PICK what \in {"settings", "set", "remove"}, value \in Modes, who \in Subjects \cup {CHOOSE x \in Subjects : TRUE} :
        o = Order(p, what, value, who) /\ (what # "settings" => who \in Subjects)
  <2>1. (CHOOSE m \in Modes : TRUE) \in Modes BY LoggingAssumption DEF LoggingAssumption
  <2>2. CASE o \in {Order(p, "settings", mode, CHOOSE x \in Subjects : TRUE) : mode \in Modes} BY <2>2
  <2>3. CASE o \in {Order(p, "set", CHOOSE m \in Modes : TRUE, who) : who \in Subjects} BY <2>1, <2>3
  <2>4. CASE o \in {Order(p, "remove", CHOOSE m \in Modes : TRUE, who) : who \in {x \in Subjects : consoles[p].data.targets[x] # 0}}
    BY <2>1, <2>4
  <2>5. QED BY <2>2, <2>3, <2>4 DEF Possible
<1> HIDE DEF seen
<1>6. o = [by |-> p, what |-> what, value |-> value, who |-> who, seen |-> seen, at |-> "asked", awaited |-> TRUE,
           expected |-> IF what = "settings" THEN seen.revision ELSE seen.targetsRevision, revision |-> 0, changed |-> FALSE]
  BY <1>5 DEF Order, seen
<1>7. seen.revision \in Nat /\ seen.targetsRevision \in Nat BY <1>4 DEF Served
<1>8. o \in Orders BY <1>4, <1>6, <1>7 DEF Orders
<1>9. OrderSound(o, tables) BY <1>4, <1>5, <1>6, <1>8 DEF OrderSound, OrderTyped
<1>10. \A q \in orders' : OrderSound(q, tables) BY <1>2, <1>9, PagesAre
<1>11. Waiting' = Waiting BY <1>2, <1>6 DEF Waiting
<1>12. \A l \in loads' : LoadSound(l, tables) BY <1>1, PagesAre
<1>13. /\ DOMAIN consoles' = Consoles /\ consoles' = [q \in Consoles |-> consoles'[q]]
       /\ \A q \in Consoles : DeskSound(consoles'[q], tables)
  BY <1>1, BusyDesk
<1>14. QED BY <1>1, <1>10, <1>11, <1>12, <1>13, PageStep

\* The same request a step further.
LEMMA MovedOn ==
  ASSUME NEW o, NEW t, OrderSound(o, t), NEW at \in {"asked", "stored", "answered", "conflict", "failed"}
  PROVE  /\ OrderSound([o EXCEPT !.at = at], t) /\ [o EXCEPT !.at = at].at = at
         /\ OrderSound([o EXCEPT !.awaited = FALSE], t)
<1>1. o \in Orders BY DEF OrderSound, OrderTyped
<1>2. PICK q : q = [o EXCEPT !.at = at] OBVIOUS
<1>3. /\ q \in Orders /\ q.at = at /\ q.what = o.what /\ q.who = o.who /\ q.seen = o.seen /\ q.expected = o.expected
  BY <1>1, <1>2 DEF Orders
<1>4. OrderSound(q, t) BY <1>3 DEF OrderSound, OrderTyped
<1>5. PICK w : w = [o EXCEPT !.awaited = FALSE] OBVIOUS
<1>6. /\ w \in Orders /\ w.what = o.what /\ w.who = o.who /\ w.seen = o.seen /\ w.expected = o.expected
  BY <1>1, <1>5 DEF Orders
<1>7. OrderSound(w, t) BY <1>6 DEF OrderSound, OrderTyped
<1>8. QED BY <1>2, <1>3, <1>4, <1>5, <1>7

LEMMA RejectStep == ASSUME LoggingInv, NEW o \in orders, Reject(o) PROVE LoggingInv'
<1>1. UNCHANGED <<tables, snapshot, refreshes, consoles, loads, astray>> /\ o.at = "asked" BY DEF Reject
<1>2. PICK at \in {"conflict", "failed"} : orders' = (orders \ {o}) \cup {[o EXCEPT !.at = at]} BY DEF Reject
<1>3. PICK q : q = [o EXCEPT !.at = at] OBVIOUS
<1>4. OrderSound(q, tables) /\ q.at = at BY <1>3, PagesAre, MovedOn
<1>5. \A x \in orders' : OrderSound(x, tables) BY <1>2, <1>3, <1>4, PagesAre
<1>6. Waiting' = Waiting BY <1>1, <1>2, <1>3, <1>4 DEF Waiting
<1>7. QED BY <1>1, <1>5, <1>6, PageStep, PagesAre

LEMMA AnsweredStep == ASSUME LoggingInv, NEW o \in orders, Answered(o) PROVE LoggingInv'
<1>1. UNCHANGED <<tables, snapshot, refreshes, astray>> /\ orders' = orders \ {o} /\ o.at # "stored" BY DEF Answered
<1>2. o.by \in Consoles BY PagesAre DEF OrderSound, OrderTyped, Orders
<1>3. Waiting' = Waiting BY <1>1 DEF Waiting
<1>4. \A x \in orders' : OrderSound(x, tables) BY <1>1, PagesAre
<1>5. CASE loadData(o.by) BY <1>1, <1>2, <1>3, <1>5, LoadDataStep
<1>6. CASE (Busy(o.by, FALSE) \/ UNCHANGED consoles) /\ UNCHANGED loads
  <2>1. /\ DOMAIN consoles' = Consoles /\ consoles' = [q \in Consoles |-> consoles'[q]]
        /\ \A q \in Consoles : DeskSound(consoles'[q], tables)
    BY <1>2, <1>6, BusyDesk, PagesAre
  <2>2. \A l \in loads' : LoadSound(l, tables) BY <1>6, PagesAre
  <2>3. QED BY <2>1, <2>2, <1>1, <1>3, <1>4, PageStep
<1>7. QED BY <1>5, <1>6 DEF Answered

\* A request nobody waits for any more counts as before.
LEMMA Unawaited ==
  ASSUME NEW o, OrderTyped(o), NEW v \in Snapshots
  PROVE  LET w == [o EXCEPT !.awaited = FALSE]
         IN Applied(v, w) = Applied(v, o) /\ Part(w) = Part(o) /\ (\A t : True(o, t) => True(w, t)) /\ w.at = o.at
<1>1. PICK w : w = [o EXCEPT !.awaited = FALSE] OBVIOUS
<1>2. /\ w.at = o.at /\ w.what = o.what /\ w.who = o.who /\ w.value = o.value /\ w.revision = o.revision
      /\ w.changed = o.changed
  BY <1>1 DEF OrderTyped, Orders
<1>3. Applied(v, w) = Applied(v, o) BY <1>2 DEF Applied
<1>4. Part(w) = Part(o) BY <1>2 DEF Part
<1>5. \A t : True(o, t) => True(w, t) BY <1>2 DEF True
<1>6. QED BY <1>1, <1>2, <1>3, <1>4, <1>5

LEMMA LagsUnawaited ==
  ASSUME NEW H, NEW o \in H, OrderTyped(o), NEW v \in Snapshots, NEW t, Lags(v, H, t)
  PROVE  Lags(v, (H \ {o}) \cup {[o EXCEPT !.awaited = FALSE]}, t)
<1>1. PICK w : w = [o EXCEPT !.awaited = FALSE] OBVIOUS
<1>2. Applied(v, w) = Applied(v, o) /\ Part(w) = Part(o) BY <1>1, Unawaited
<1>3. Lags(v, (H \ {o}) \cup {w}, t) BY <1>2 DEF Lags
<1>4. QED BY <1>1, <1>3

LEMMA GiveUpStep == ASSUME LoggingInv, NEW o \in orders, GiveUp(o) PROVE LoggingInv'
<1>1. UNCHANGED <<tables, snapshot, refreshes, loads, astray>> /\ Busy(o.by, FALSE) BY DEF GiveUp
<1>2. PICK w : w = [o EXCEPT !.awaited = FALSE] OBVIOUS
<1>3. orders' = (orders \ {o}) \cup {w} BY <1>2 DEF GiveUp
<1>4. OrderSound(o, tables) /\ OrderSound(w, tables) BY <1>2, PagesAre, MovedOn
<1>5. OrderTyped(o) /\ o.by \in Consoles BY <1>4 DEF OrderSound, OrderTyped, Orders
<1>6. \A x \in orders' : OrderSound(x, tables) BY <1>3, <1>4, PagesAre
<1>7. /\ DOMAIN consoles' = Consoles /\ consoles' = [q \in Consoles |-> consoles'[q]]
      /\ \A q \in Consoles : DeskSound(consoles'[q], tables)
  BY <1>1, <1>5, BusyDesk
<1>8. \A l \in loads' : LoadSound(l, tables) BY <1>1, PagesAre
<1>9. tables \in Snapshots /\ snapshot \in Snapshots BY DEF LoggingInv, LoggingTyped
<1>10. w.at = o.at /\ Part(w) = Part(o) /\ \A t : True(o, t) => True(w, t) BY <1>2, <1>5, <1>9, Unawaited
<1>11. CASE o.at # "stored"
  <2>1. Waiting' = Waiting BY <1>3, <1>10, <1>11 DEF Waiting
  <2>2. QED BY <2>1, <1>1, <1>6, <1>7, <1>8, PageStep
<1>12. CASE o.at = "stored"
  <2>1. Waiting' = (Waiting \ {o}) \cup {w} /\ o \in Waiting BY <1>3, <1>10, <1>12 DEF Waiting
  <2>2. \A v \in Snapshots : Lags(v, Waiting, tables) => Lags(v, Waiting', tables)
    BY <2>1, <1>2, <1>5, LagsUnawaited
  <2>3. OneEach(Waiting) => OneEach(Waiting') BY <2>1, <1>10 DEF OneEach
  <2>4. KeptLags' BY <2>2, <2>3, <1>1, <1>9 DEF KeptLags, LoggingInv, SnapshotInv
  <2>5. ReadsLag' BY <2>2, <1>1 DEF ReadsLag, LoggingInv, SnapshotInv, LoggingTyped
  <2>6. LateWhenTold' BY <2>1, <1>1 DEF LateWhenTold, LoggingInv, SnapshotInv
  <2>7. WaitingTrue' BY <2>1, <1>1, <1>10 DEF WaitingTrue, LoggingInv, SnapshotInv
  <2>8. ReadsCurrent' /\ KeptOlder' /\ ReadsOlder'
    BY <1>1 DEF ReadsCurrent, KeptOlder, ReadsOlder, LoggingInv, SnapshotInv
  <2>9. /\ tables' \in Snapshots /\ snapshot' \in Snapshots /\ astray' \in BOOLEAN
        /\ \A r \in refreshes' : /\ r \in Refreshes /\ (r.at # "begun" => r.view \in Snapshots)
                                 /\ (r.at = "begun" => ~r.behind)
    BY <1>1 DEF LoggingInv, LoggingTyped
  <2>10. LoggingTyped' /\ ConsolesInv' BY <2>9, <1>1, <1>6, <1>7, <1>8, PagesSound
  <2>11. QED BY <2>4, <2>5, <2>6, <2>7, <2>8, <2>10 DEF LoggingInv, SnapshotInv
<1>13. QED BY <1>11, <1>12

-----------------------------------------------------------------------------
(* The server.                                                             *)

RefreshSound(r) == /\ r \in Refreshes /\ (r.at # "begun" => r.view \in Snapshots)
                   /\ (r.at = "begun" => ~r.behind)

LEMMA BehindAre ==
  ASSUME LoggingTyped, NEW r \in Behind
  PROVE  /\ RefreshSound(r) /\ (r.at # "begun" => r.behind)
         /\ \E s \in refreshes : r.view = s.view /\ r.at = s.at /\ r.late = s.late
<1>1. PICK s \in refreshes : r = IF s.at # "begun" THEN [s EXCEPT !.behind = TRUE] ELSE s BY DEF Behind
<1>2. RefreshSound(s) BY DEF LoggingTyped, RefreshSound
<1>3. CASE s.at # "begun"
  <2>1. r = [s EXCEPT !.behind = TRUE] /\ s \in Refreshes BY <1>1, <1>2, <1>3 DEF RefreshSound
  <2>2. r \in Refreshes /\ r.behind = TRUE /\ r.view = s.view /\ r.at = s.at /\ r.late = s.late BY <2>1 DEF Refreshes
  <2>3. QED BY <2>2, <1>2, <1>3 DEF RefreshSound
<1>4. CASE s.at = "begun" BY <1>1, <1>2, <1>4
<1>5. QED BY <1>3, <1>4

LEMMA LateAre ==
  ASSUME NEW rs, \A r \in rs : RefreshSound(r), NEW r \in Late(rs)
  PROVE  /\ RefreshSound(r) /\ (r.behind => r.late)
         /\ \E s \in rs : r.view = s.view /\ r.at = s.at /\ r.behind = s.behind /\ (s.late => r.late)
<1>1. PICK s \in rs : r = IF s.behind THEN [s EXCEPT !.late = TRUE] ELSE s BY DEF Late
<1>2. RefreshSound(s) /\ s \in Refreshes BY DEF RefreshSound
<1>3. CASE s.behind
  <2>1. r \in Refreshes /\ r.late = TRUE /\ r.view = s.view /\ r.at = s.at /\ r.behind = s.behind
    BY <1>1, <1>2, <1>3 DEF Refreshes
  <2>2. QED BY <2>1, <1>2 DEF RefreshSound
<1>4. CASE ~s.behind BY <1>1, <1>2, <1>4
<1>5. QED BY <1>3, <1>4

\* What any write that is valid leaves true of what was seen before it.
LEMMA ToldStays ==
  ASSUME LoggingInv, NEW o \in orders, Valid(o), tables' = Applied(tables, Result(o))
  PROVE  /\ tables' \in Snapshots
         /\ \A c : DeskSound(c, tables) => DeskSound(c, tables')
         /\ \A l : LoadSound(l, tables) => LoadSound(l, tables')
         /\ \A x : OrderSound(x, tables) => OrderSound(x, tables')
         /\ Older(snapshot, tables') /\ (TargetsSeen(snapshot, tables) => TargetsSeen(snapshot, tables'))
         /\ \A r \in refreshes : r.at # "begun" => Older(r.view, tables') /\ TargetsSeen(r.view, tables')
         /\ \A x \in Waiting : True(x, tables')
<1>1. LoggingTyped /\ snapshot \in Snapshots BY DEF LoggingInv, LoggingTyped
<1>2. tables' \in Snapshots BY <1>1, WrittenOrder
<1>3. ASSUME NEW v, v.revision \in Nat, v.targetsRevision \in Nat, Older(v, tables)
      PROVE  Older(v, tables') /\ (TargetsSeen(v, tables) => TargetsSeen(v, tables'))
  BY <1>1, <1>3, OlderStays
<1>4. ASSUME NEW v \in Served, ShownTrue(v, tables) PROVE ShownTrue(v, tables')
  <2>1. v.revision \in Nat /\ v.targetsRevision \in Nat BY DEF Served
  <2>2. QED BY <2>1, <1>3, <1>4 DEF ShownTrue
<1>5. ASSUME NEW c, DeskSound(c, tables) PROVE DeskSound(c, tables')
  BY <1>4, <1>5 DEF DeskSound, Desks
<1>6. ASSUME NEW l, LoadSound(l, tables) PROVE LoadSound(l, tables')
  BY <1>4, <1>6 DEF LoadSound, LoadsOfPages
<1>7. ASSUME NEW x, OrderSound(x, tables) PROVE OrderSound(x, tables')
  BY <1>4, <1>7 DEF OrderSound, OrderTyped, Orders
<1>8. Older(snapshot, tables') /\ (TargetsSeen(snapshot, tables) => TargetsSeen(snapshot, tables'))
  <2>1. snapshot.revision \in Nat /\ snapshot.targetsRevision \in Nat BY <1>1 DEF Snapshots
  <2>2. Older(snapshot, tables) BY DEF LoggingInv, SnapshotInv, KeptOlder
  <2>3. QED BY <2>1, <2>2, <1>3
<1>9. ASSUME NEW r \in refreshes, r.at # "begun" PROVE Older(r.view, tables') /\ TargetsSeen(r.view, tables')
  <2>1. r.view \in Snapshots BY <1>1, <1>9 DEF LoggingTyped
  <2>2. r.view.revision \in Nat /\ r.view.targetsRevision \in Nat BY <2>1 DEF Snapshots
  <2>3. Older(r.view, tables) /\ TargetsSeen(r.view, tables) BY <1>9 DEF LoggingInv, SnapshotInv, ReadsOlder
  <2>4. QED BY <2>2, <2>3, <1>3
<1>10. ASSUME NEW x \in Waiting PROVE True(x, tables')
  <2>1. OrderTyped(x) BY <1>1 DEF LoggingTyped, Waiting
  <2>2. True(x, tables) BY DEF LoggingInv, SnapshotInv, WaitingTrue
  <2>3. QED BY <2>1, <2>2, <1>1, TrueStays
<1>11. QED BY <1>2, <1>5, <1>6, <1>7, <1>8, <1>9, <1>10

LEMMA WriteStep == ASSUME LoggingInv, NEW o \in orders, Write(o) PROVE LoggingInv'
<1> DEFINE q == Result(o)
<1>1. /\ Valid(o) /\ o.at = "asked" /\ tables' = Applied(tables, q) /\ orders' = (orders \ {o}) \cup {q}
      /\ refreshes' = (IF Alters(o) THEN Behind ELSE refreshes) /\ astray' = (astray \/ UnheardOf(Part(o)) # {})
      /\ UNCHANGED <<snapshot, consoles, loads>>
  BY DEF Write
<1>2. LoggingTyped /\ tables \in Snapshots /\ snapshot \in Snapshots /\ astray \in BOOLEAN BY DEF LoggingInv, LoggingTyped
<1>3. OrderTyped(q) /\ q.at = "stored" /\ q.seen = o.seen /\ Part(q) = Part(o) /\ (~Alters(o) => tables' = tables)
  BY <1>1, <1>2, WrittenOrder DEF Alters
<1>4. True(q, tables') BY <1>1, <1>2, NewTrue
<1>5. /\ tables' \in Snapshots
      /\ \A c : DeskSound(c, tables) => DeskSound(c, tables')
      /\ \A l : LoadSound(l, tables) => LoadSound(l, tables')
      /\ \A x : OrderSound(x, tables) => OrderSound(x, tables')
      /\ Older(snapshot, tables') /\ (TargetsSeen(snapshot, tables) => TargetsSeen(snapshot, tables'))
      /\ \A r \in refreshes : r.at # "begun" => Older(r.view, tables') /\ TargetsSeen(r.view, tables')
      /\ \A x \in Waiting : True(x, tables')
  BY <1>1, ToldStays
<1> HIDE DEF q
<1>6. Waiting' = Waiting \cup {q} BY <1>1, <1>3 DEF Waiting
<1>7. ASSUME NEW r \in refreshes'
      PROVE  /\ RefreshSound(r) /\ (r.at # "begun" /\ ~r.behind => ~Alters(o))
             /\ \E s \in refreshes : r.view = s.view /\ r.at = s.at /\ r.late = s.late /\ (~Alters(o) => r = s)
  <2>1. CASE Alters(o) BY <2>1, <1>1, <1>2, <1>7, BehindAre
  <2>2. CASE ~Alters(o) BY <2>2, <1>1, <1>2, <1>7 DEF LoggingTyped, RefreshSound
  <2>3. QED BY <2>1, <2>2
<1>8. ASSUME ~astray' PROVE ~astray /\ \A x \in Waiting : Part(x) # Part(q)
  BY <1>1, <1>2, <1>3, <1>8 DEF UnheardOf, Waiting
<1>9. ASSUME ~astray', NEW v \in Snapshots, Lags(v, Waiting, tables) PROVE Lags(v, Waiting', tables')
  BY <1>1, <1>2, <1>3, <1>6, <1>8, <1>9, LagWrite
<1>10. KeptLags'
  <2>1. ASSUME ~astray' PROVE Lags(snapshot', Waiting', tables') /\ OneEach(Waiting')
    <3>1. Lags(snapshot, Waiting, tables) /\ OneEach(Waiting) BY <1>8, <2>1 DEF LoggingInv, SnapshotInv, KeptLags
    <3>2. OneEach(Waiting') BY <3>1, <1>6, <1>8, <2>1 DEF OneEach
    <3>3. QED BY <3>1, <3>2, <1>1, <1>2, <1>9, <2>1
  <2>2. QED BY <2>1 DEF KeptLags
<1>11. ReadsLag'
  <2>1. ASSUME ~astray', NEW r \in refreshes', r.at # "begun", ~r.late PROVE Lags(r.view, Waiting', tables')
    <3>1. PICK s \in refreshes : r.view = s.view /\ r.at = s.at /\ r.late = s.late BY <1>7
    <3>2. s.view \in Snapshots BY <2>1, <3>1, <1>2 DEF LoggingTyped
    <3>3. Lags(s.view, Waiting, tables) BY <2>1, <3>1, <1>8 DEF LoggingInv, SnapshotInv, ReadsLag
    <3>4. QED BY <2>1, <3>1, <3>2, <3>3, <1>9
  <2>2. QED BY <2>1 DEF ReadsLag
<1>12. LateWhenTold' BY <1>6 DEF LateWhenTold
<1>13. ReadsCurrent'
  <2>1. ASSUME NEW r \in refreshes', r.at # "begun", ~r.behind PROVE r.view = tables'
    <3>1. ~Alters(o) BY <1>7, <2>1
    <3>2. r \in refreshes /\ tables' = tables BY <3>1, <1>3, <1>7
    <3>3. QED BY <2>1, <3>2 DEF LoggingInv, SnapshotInv, ReadsCurrent
  <2>2. QED BY <2>1 DEF ReadsCurrent
<1>14. WaitingTrue' BY <1>4, <1>5, <1>6 DEF WaitingTrue
<1>15. KeptOlder'
  <2>1. ~astray' => TargetsSeen(snapshot, tables') BY <1>5, <1>8 DEF LoggingInv, SnapshotInv, KeptOlder
  <2>2. QED BY <2>1, <1>1, <1>5 DEF KeptOlder
<1>16. ReadsOlder' BY <1>5, <1>7 DEF ReadsOlder
<1>17. \A x \in orders' : OrderSound(x, tables')
  <2>1. OrderSound(q, tables) BY <1>3, PagesAre DEF OrderSound
  <2>2. QED BY <2>1, <1>1, <1>5, PagesAre
<1>18. LoggingTyped' /\ ConsolesInv'
  <2>1. /\ DOMAIN consoles' = Consoles /\ consoles' = [p \in Consoles |-> consoles'[p]]
        /\ \A p \in Consoles : DeskSound(consoles'[p], tables')
        /\ \A l \in loads' : LoadSound(l, tables')
    BY <1>1, <1>5, PagesAre
  <2>2. /\ tables' \in Snapshots /\ snapshot' \in Snapshots /\ astray' \in BOOLEAN
        /\ \A r \in refreshes' : RefreshSound(r)
    BY <1>1, <1>2, <1>5, <1>7
  <2>3. QED BY <2>1, <2>2, <1>17, PagesSound DEF RefreshSound
<1>19. QED BY <1>10, <1>11, <1>12, <1>13, <1>14, <1>15, <1>16, <1>18 DEF LoggingInv, SnapshotInv

LEMMA OutcomeLostStep == ASSUME LoggingInv, NEW o \in orders, OutcomeLost(o) PROVE LoggingInv'
<1>1. /\ Valid(o) /\ o.at = "asked" /\ Alters(o) /\ tables' = Applied(tables, Result(o))
      /\ orders' = (orders \ {o}) \cup {[o EXCEPT !.at = "failed"]} /\ refreshes' = Late(Behind) /\ astray' = TRUE
      /\ UNCHANGED <<snapshot, consoles, loads>>
  BY DEF OutcomeLost
<1>2. LoggingTyped /\ snapshot \in Snapshots BY DEF LoggingInv, LoggingTyped
<1>3. /\ tables' \in Snapshots
      /\ \A c : DeskSound(c, tables) => DeskSound(c, tables')
      /\ \A l : LoadSound(l, tables) => LoadSound(l, tables')
      /\ \A x : OrderSound(x, tables) => OrderSound(x, tables')
      /\ Older(snapshot, tables')
      /\ \A r \in refreshes : r.at # "begun" => Older(r.view, tables') /\ TargetsSeen(r.view, tables')
      /\ \A x \in Waiting : True(x, tables')
  BY <1>1, ToldStays
<1>4. PICK w : w = [o EXCEPT !.at = "failed"] OBVIOUS
<1>5. OrderSound(w, tables) /\ w.at = "failed" BY <1>4, PagesAre, MovedOn
<1>6. Waiting' = Waiting BY <1>1, <1>4, <1>5 DEF Waiting
<1>7. ASSUME NEW r \in refreshes'
      PROVE  /\ RefreshSound(r) /\ (r.behind => r.late) /\ (r.at # "begun" => r.behind)
             /\ \E s \in refreshes : r.view = s.view /\ r.at = s.at
  <2>1. \A s \in Behind : RefreshSound(s) BY <1>2, BehindAre
  <2>2. r \in Late(Behind) BY <1>1, <1>7
  <2>3. RefreshSound(r) /\ (r.behind => r.late) BY <2>1, <2>2, LateAre
  <2>4. PICK s \in Behind : r.view = s.view /\ r.at = s.at /\ r.behind = s.behind BY <2>1, <2>2, LateAre
  <2>5. QED BY <2>3, <2>4, <1>2, BehindAre
<1>8. KeptLags' /\ ReadsLag' BY <1>1 DEF KeptLags, ReadsLag
<1>9. LateWhenTold' /\ ReadsCurrent' BY <1>7 DEF LateWhenTold, ReadsCurrent
<1>10. WaitingTrue' BY <1>3, <1>6 DEF WaitingTrue
<1>11. KeptOlder' BY <1>1, <1>3 DEF KeptOlder
<1>12. ReadsOlder' BY <1>3, <1>7 DEF ReadsOlder
<1>13. LoggingTyped' /\ ConsolesInv'
  <2>1. /\ DOMAIN consoles' = Consoles /\ consoles' = [p \in Consoles |-> consoles'[p]]
        /\ \A p \in Consoles : DeskSound(consoles'[p], tables')
        /\ \A l \in loads' : LoadSound(l, tables')
    BY <1>1, <1>3, PagesAre
  <2>2. \A x \in orders' : OrderSound(x, tables') BY <1>1, <1>3, <1>4, <1>5, PagesAre
  <2>3. /\ tables' \in Snapshots /\ snapshot' \in Snapshots /\ astray' \in BOOLEAN
        /\ \A r \in refreshes' : RefreshSound(r)
    BY <1>1, <1>2, <1>3, <1>7
  <2>4. QED BY <2>1, <2>2, <2>3, PagesSound DEF RefreshSound
<1>14. QED BY <1>8, <1>9, <1>10, <1>11, <1>12, <1>13 DEF LoggingInv, SnapshotInv

\* The server does something between the tables and its snapshot: the pages are not concerned.
LEMMA ServerStep ==
  ASSUME LoggingInv, UNCHANGED <<tables, consoles, loads>>, \A x \in orders' : OrderSound(x, tables),
         snapshot' \in Snapshots, astray' \in BOOLEAN, \A r \in refreshes' : RefreshSound(r), SnapshotInv'
  PROVE  LoggingInv'
<1>1. /\ DOMAIN consoles' = Consoles /\ consoles' = [p \in Consoles |-> consoles'[p]]
      /\ \A p \in Consoles : DeskSound(consoles'[p], tables')
      /\ \A l \in loads' : LoadSound(l, tables')
  BY PagesAre
<1>2. tables' \in Snapshots BY DEF LoggingInv, LoggingTyped
<1>3. /\ tables' \in Snapshots /\ snapshot' \in Snapshots /\ astray' \in BOOLEAN
      /\ \A r \in refreshes' : /\ r \in Refreshes /\ (r.at # "begun" => r.view \in Snapshots)
                               /\ (r.at = "begun" => ~r.behind)
  BY <1>2 DEF RefreshSound
<1>4. \A x \in orders' : OrderSound(x, tables') BY DEF OrderSound
<1>5. LoggingTyped' /\ ConsolesInv' BY <1>1, <1>3, <1>4, PagesSound
<1>6. QED BY <1>5 DEF LoggingInv

LEMMA TellStep == ASSUME LoggingInv, NEW o \in orders, Tell(o) PROVE LoggingInv'
<1>1. /\ o.at = "stored" /\ snapshot' = Applied(snapshot, o) /\ refreshes' = Late(refreshes)
      /\ orders' = (orders \ {o}) \cup {[o EXCEPT !.at = "answered"]} /\ UNCHANGED <<tables, consoles, loads, astray>>
  BY DEF Tell
<1>2. LoggingTyped /\ tables \in Snapshots /\ snapshot \in Snapshots /\ astray \in BOOLEAN
      /\ \A r \in refreshes : RefreshSound(r)
  BY DEF LoggingInv, LoggingTyped, RefreshSound
<1>3. PICK w : w = [o EXCEPT !.at = "answered"] OBVIOUS
<1>4. OrderSound(w, tables) /\ w.at = "answered" BY <1>3, PagesAre, MovedOn
<1>5. o \in Waiting /\ Waiting' = Waiting \ {o} BY <1>1, <1>3, <1>4 DEF Waiting
<1>6. OrderTyped(o) /\ o.what \in {"settings", "set", "remove"} /\ Part(o) \in Parts
      /\ \A q \in Waiting : OrderTyped(q)
  BY <1>2 DEF LoggingTyped, Waiting, OrderTyped, Orders, Part, Parts
<1>7. snapshot' \in Snapshots BY <1>1, <1>2, <1>6, AppliedTyped
<1>8. ASSUME NEW r \in refreshes'
      PROVE  /\ RefreshSound(r) /\ (r.behind => r.late)
             /\ \E s \in refreshes : r.view = s.view /\ r.at = s.at /\ r.behind = s.behind /\ (s.late => r.late)
  BY <1>1, <1>2, <1>8, LateAre
<1>9. KeptLags'
  <2>1. ASSUME ~astray PROVE Lags(snapshot', Waiting \ {o}, tables) /\ OneEach(Waiting \ {o})
    <3>1. Lags(snapshot, Waiting, tables) /\ OneEach(Waiting) BY <2>1 DEF LoggingInv, SnapshotInv, KeptLags
    <3>2. Lags(Applied(snapshot, o), Waiting \ {o}, tables) BY <1>2, <1>5, <1>6, <3>1, LagTell
    <3>3. QED BY <3>1, <3>2, <1>1 DEF OneEach
  <2>2. QED BY <2>1, <1>1, <1>5 DEF KeptLags
<1>10. ReadsCurrent'
  <2>1. ASSUME NEW r \in refreshes', r.at # "begun", ~r.behind PROVE r.view = tables
    BY <1>8, <2>1 DEF LoggingInv, SnapshotInv, ReadsCurrent
  <2>2. QED BY <2>1, <1>1 DEF ReadsCurrent
<1>11. ReadsLag'
  <2>1. ASSUME ~astray, NEW r \in refreshes', r.at # "begun", ~r.late PROVE Lags(r.view, Waiting \ {o}, tables)
    <3>1. ~r.behind BY <1>8, <2>1
    <3>2. r.view = tables BY <1>1, <1>10, <2>1, <3>1 DEF ReadsCurrent
    <3>3. Lags(snapshot, Waiting, tables) BY <2>1 DEF LoggingInv, SnapshotInv, KeptLags
    <3>4. Lags(tables, Waiting, tables) BY <1>2, <1>6, <3>3, LagSelf
    <3>5. Lags(tables, Waiting \ {o}, tables) BY <3>4, LagFewer
    <3>6. QED BY <3>2, <3>5
  <2>2. QED BY <2>1, <1>1, <1>5 DEF ReadsLag
<1>12. LateWhenTold' BY <1>8 DEF LateWhenTold
<1>13. WaitingTrue' BY <1>1, <1>5 DEF WaitingTrue, LoggingInv, SnapshotInv
<1>14. KeptOlder'
  <2>1. True(o, tables) /\ Older(snapshot, tables) /\ (~astray => TargetsSeen(snapshot, tables))
    BY <1>5 DEF LoggingInv, SnapshotInv, WaitingTrue, KeptOlder
  <2>2. Older(snapshot', tables)
    <3>1. CASE o.what = "settings" BY <1>1, <1>2, <2>1, <3>1, AppliedSettings DEF Older, True
    <3>2. CASE o.what = "set" BY <1>1, <1>2, <2>1, <3>2, AppliedSet DEF Older, True
    <3>3. CASE o.what = "remove" /\ o.changed BY <1>1, <1>2, <2>1, <3>3, AppliedRemove DEF Older, True
    <3>4. CASE o.what = "remove" /\ ~o.changed BY <1>1, <1>2, <2>1, <3>4, AppliedNothing DEF Older, True
    <3>5. QED BY <1>6, <3>1, <3>2, <3>3, <3>4
  <2>3. ASSUME ~astray PROVE TargetsSeen(snapshot', tables)
    <3>1. CASE Part(o) = "settings"
      <4>1. Same("targets", snapshot', snapshot) BY <1>1, <1>2, <1>6, <3>1, AppliedOther DEF Parts
      <4>2. QED BY <4>1, <2>1, <2>3 DEF TargetsSeen, Same
    <3>2. CASE Part(o) = "targets"
      <4>1. Lags(snapshot, Waiting, tables) BY <2>3 DEF LoggingInv, SnapshotInv, KeptLags
      <4>2. Same("targets", snapshot', tables) BY <4>1, <1>1, <1>5, <1>6, <3>2 DEF Lags
      <4>3. QED BY <4>2 DEF TargetsSeen, Same
    <3>3. QED BY <1>6, <3>1, <3>2 DEF Parts
  <2>4. QED BY <2>2, <2>3, <1>1 DEF KeptOlder
<1>15. ReadsOlder' BY <1>1, <1>8 DEF ReadsOlder, LoggingInv, SnapshotInv
<1>16. \A x \in orders' : OrderSound(x, tables) BY <1>1, <1>3, <1>4, PagesAre
<1>17. SnapshotInv' BY <1>9, <1>10, <1>11, <1>12, <1>13, <1>14, <1>15 DEF SnapshotInv
<1>18. QED BY <1>1, <1>2, <1>7, <1>8, <1>16, <1>17, ServerStep

\* One read of the snapshot comes, goes on, or ends.
LEMMA RefreshesStep ==
  ASSUME LoggingInv, UNCHANGED <<tables, snapshot, consoles, loads, orders, astray>>,
         \A r \in refreshes' :
           \/ r \in refreshes
           \/ /\ RefreshSound(r) /\ (r.behind /\ ~r.late => Waiting # {})
              /\ r.at # "begun" => /\ (~r.behind => r.view = tables) /\ Older(r.view, tables) /\ TargetsSeen(r.view, tables)
                                   /\ (~astray /\ ~r.late => Lags(r.view, Waiting, tables))
  PROVE  LoggingInv'
<1>1. Waiting' = Waiting BY DEF Waiting
<1>2. KeptLags' /\ WaitingTrue' /\ KeptOlder' BY <1>1 DEF KeptLags, WaitingTrue, KeptOlder, LoggingInv, SnapshotInv
<1>3. ReadsLag' BY <1>1 DEF ReadsLag, LoggingInv, SnapshotInv
<1>4. LateWhenTold' BY <1>1 DEF LateWhenTold, LoggingInv, SnapshotInv
<1>5. ReadsCurrent' /\ ReadsOlder' BY DEF ReadsCurrent, ReadsOlder, LoggingInv, SnapshotInv
<1>6. \A r \in refreshes' : RefreshSound(r) BY DEF LoggingInv, LoggingTyped, RefreshSound
<1>7. snapshot' \in Snapshots /\ astray' \in BOOLEAN BY DEF LoggingInv, LoggingTyped
<1>8. \A x \in orders' : OrderSound(x, tables) BY PagesAre
<1>9. SnapshotInv' BY <1>2, <1>3, <1>4, <1>5 DEF SnapshotInv
<1>10. QED BY <1>6, <1>7, <1>8, <1>9, ServerStep

LEMMA RefreshStep == ASSUME LoggingInv, refresh PROVE LoggingInv'
<1>1. RefreshSound(Begun) /\ Begun.at = "begun" /\ ~Begun.behind BY DEF RefreshSound, Refreshes, Begun
<1>2. QED BY <1>1, RefreshesStep DEF refresh

LEMMA ReadSettingsStep == ASSUME LoggingInv, NEW r \in refreshes, ReadSettings(r) PROVE LoggingInv'
<1>1. RefreshSound(r) /\ r.at = "begun" /\ ~r.behind BY DEF ReadSettings, LoggingInv, LoggingTyped, RefreshSound
<1>2. tables \in Snapshots /\ snapshot \in Snapshots BY DEF LoggingInv, LoggingTyped
<1>3. PICK q : q = [r EXCEPT !.at = "settings", !.view = tables] OBVIOUS
<1>4. q \in Refreshes /\ q.at = "settings" /\ q.view = tables /\ ~q.behind
  BY <1>1, <1>2, <1>3 DEF RefreshSound, Refreshes
<1>5. RefreshSound(q) BY <1>2, <1>4 DEF RefreshSound
<1>6. ~astray => Lags(tables, Waiting, tables)
  <2>1. \A x \in Waiting : OrderTyped(x) BY DEF Waiting, LoggingInv, LoggingTyped
  <2>2. QED BY <2>1, <1>2, LagSelf DEF LoggingInv, SnapshotInv, KeptLags
<1>7. Older(tables, tables) /\ TargetsSeen(tables, tables) BY <1>2 DEF Older, TargetsSeen, Snapshots
<1>8. QED BY <1>3, <1>4, <1>5, <1>6, <1>7, RefreshesStep DEF ReadSettings

LEMMA ReadTargetsStep == ASSUME LoggingInv, NEW r \in refreshes, ReadTargets(r) PROVE LoggingInv'
<1>1. RefreshSound(r) /\ r.at = "settings" /\ r.view \in Snapshots
  BY DEF ReadTargets, LoggingInv, LoggingTyped, RefreshSound
<1>2. tables \in Snapshots BY DEF LoggingInv, LoggingTyped
<1>3. PICK v : v = [r.view EXCEPT !.targets = tables.targets] OBVIOUS
<1>4. /\ v \in Snapshots /\ v.settings = r.view.settings /\ v.revision = r.view.revision
      /\ v.targets = tables.targets /\ v.targetsRevision = r.view.targetsRevision
  BY <1>1, <1>2, <1>3 DEF Snapshots
<1>5. PICK q : q = [r EXCEPT !.at = "targets", !.view = v] OBVIOUS
<1>6. q \in Refreshes /\ q.at = "targets" /\ q.view = v /\ q.behind = r.behind /\ q.late = r.late
  BY <1>1, <1>4, <1>5 DEF RefreshSound, Refreshes
<1>7. q = [r EXCEPT !.at = "targets", !.view.targets = tables.targets] BY <1>1, <1>3, <1>5 DEF RefreshSound, Refreshes
<1>8. RefreshSound(q) BY <1>4, <1>6 DEF RefreshSound
<1>9. ~r.behind => v = tables
  <2>1. ~r.behind => r.view = tables BY <1>1 DEF LoggingInv, SnapshotInv, ReadsCurrent
  <2>2. ~r.behind => v.settings = tables.settings /\ v.revision = tables.revision /\ v.targetsRevision = tables.targetsRevision
    BY <2>1, <1>4
  <2>3. QED BY <2>2, <1>2, <1>4 DEF Snapshots
<1>10. Older(v, tables) /\ TargetsSeen(v, tables)
  <2>1. Older(r.view, tables) BY <1>1 DEF LoggingInv, SnapshotInv, ReadsOlder
  <2>2. QED BY <2>1, <1>4 DEF Older, TargetsSeen
<1>11. ~astray /\ ~r.late => Lags(v, Waiting, tables)
  <2>1. \A x \in Waiting : OrderTyped(x) BY DEF Waiting, LoggingInv, LoggingTyped
  <2>2. ASSUME ~astray, ~r.late PROVE Lags(v, Waiting, tables)
    <3>1. Lags(r.view, Waiting, tables) BY <1>1, <2>2 DEF LoggingInv, SnapshotInv, ReadsLag
    <3>2. QED BY <2>1, <3>1, <1>1, <1>2, <1>3, LagReadTargets
  <2>3. QED BY <2>2
<1>12. q.behind /\ ~q.late => Waiting # {} BY <1>6 DEF LoggingInv, SnapshotInv, LateWhenTold
<1>13. refreshes' = (refreshes \ {r}) \cup {q} BY <1>7 DEF ReadTargets
<1>14. UNCHANGED <<tables, snapshot, consoles, loads, orders, astray>> BY DEF ReadTargets
<1>15. QED BY <1>6, <1>8, <1>9, <1>10, <1>11, <1>12, <1>13, <1>14, RefreshesStep

LEMMA RefreshFailsStep == ASSUME LoggingInv, NEW r \in refreshes, RefreshFails(r) PROVE LoggingInv'
BY RefreshesStep DEF RefreshFails

LEMMA InstallStep == ASSUME LoggingInv, NEW r \in refreshes, Install(r) PROVE LoggingInv'
<1>1. /\ r.at = "targets" /\ snapshot' = r.view /\ refreshes' = refreshes \ {r}
      /\ astray' = (IF r.behind \/ (\E o \in orders : o.at = "stored") THEN astray \/ r.late ELSE FALSE)
      /\ UNCHANGED <<tables, consoles, loads, orders>>
  BY DEF Install
<1>2. /\ tables \in Snapshots /\ r.view \in Snapshots /\ astray \in BOOLEAN /\ r.late \in BOOLEAN
      /\ \A x \in refreshes : RefreshSound(x)
  BY <1>1 DEF LoggingInv, LoggingTyped, RefreshSound, Refreshes
<1>3. Waiting' = Waiting BY <1>1 DEF Waiting
<1>4. Older(r.view, tables) /\ TargetsSeen(r.view, tables) BY <1>1 DEF LoggingInv, SnapshotInv, ReadsOlder
<1>5. ASSUME r.behind \/ \E o \in orders : o.at = "stored" PROVE KeptLags' /\ ReadsLag'
  <2>1. astray' = (astray \/ r.late) BY <1>1, <1>5
  <2>2. KeptLags'
    <3>1. ASSUME ~astray' PROVE Lags(r.view, Waiting, tables) /\ OneEach(Waiting)
      <4>1. ~astray /\ ~r.late BY <2>1, <3>1
      <4>2. QED BY <4>1, <1>1 DEF LoggingInv, SnapshotInv, ReadsLag, KeptLags
    <3>2. QED BY <3>1, <1>1, <1>3 DEF KeptLags
  <2>3. ReadsLag'
    <3>1. astray' = FALSE => astray = FALSE BY <2>1, <1>2
    <3>2. QED BY <3>1, <1>1, <1>2, <1>3 DEF ReadsLag, LoggingInv, SnapshotInv
  <2>4. QED BY <2>2, <2>3
<1>6. ASSUME ~r.behind, \A o \in orders : o.at # "stored" PROVE KeptLags' /\ ReadsLag'
  <2>1. astray' = FALSE /\ Waiting = {} BY <1>1, <1>6 DEF Waiting
  <2>2. r.view = tables BY <1>1, <1>6 DEF LoggingInv, SnapshotInv, ReadsCurrent
  <2>3. Lags(tables, {}, tables) BY SameRules DEF Lags
  <2>4. KeptLags' BY <2>1, <2>2, <2>3, <1>1, <1>3 DEF KeptLags, OneEach
  <2>5. ASSUME NEW x \in refreshes', x.at # "begun", ~x.late PROVE Lags(x.view, {}, tables)
    <3>1. x \in refreshes /\ ~x.behind BY <2>1, <2>5, <1>1 DEF LoggingInv, SnapshotInv, LateWhenTold
    <3>2. x.view = tables BY <2>5, <3>1 DEF LoggingInv, SnapshotInv, ReadsCurrent
    <3>3. QED BY <3>2, <2>3
  <2>6. ReadsLag' BY <2>1, <2>5, <1>1, <1>3 DEF ReadsLag
  <2>7. QED BY <2>4, <2>6
<1>7. KeptLags' /\ ReadsLag' BY <1>5, <1>6
<1>8. LateWhenTold' /\ ReadsCurrent' /\ WaitingTrue' /\ ReadsOlder'
  BY <1>1, <1>3 DEF LateWhenTold, ReadsCurrent, WaitingTrue, ReadsOlder, LoggingInv, SnapshotInv
<1>9. KeptOlder' BY <1>1, <1>4 DEF KeptOlder
<1>10. SnapshotInv' BY <1>7, <1>8, <1>9 DEF SnapshotInv
<1>11. snapshot' \in Snapshots /\ astray' \in BOOLEAN BY <1>1, <1>2
<1>12. \A x \in orders' : OrderSound(x, tables) BY <1>1, PagesAre
<1>13. \A x \in refreshes' : RefreshSound(x) BY <1>1, <1>2
<1>14. QED BY <1>1, <1>10, <1>11, <1>12, <1>13, ServerStep

-----------------------------------------------------------------------------
LEMMA LoggingStarts == LoggingInit => LoggingInv
<1> SUFFICES ASSUME LoggingInit PROVE LoggingInv
  OBVIOUS
<1>1. PICK mode \in Modes : tables = [settings |-> mode, revision |-> 0, targets |-> [x \in Subjects |-> 0], targetsRevision |-> 0]
  BY DEF LoggingInit
<1>2. snapshot = tables /\ refreshes = {} /\ orders = {} /\ astray = FALSE BY DEF LoggingInit
<1>3. tables \in Snapshots /\ Waiting = {} BY <1>1, <1>2 DEF Snapshots, Waiting
<1>4. /\ consoles \in [Consoles -> [authorized : BOOLEAN, busy : BOOLEAN, data : Served \cup {Nothing}]]
      /\ \A p \in Consoles : consoles[p].data = Nothing
  BY DEF LoggingInit
<1>5. \A l \in loads : l \in [by : Consoles, latest : BOOLEAN, answer : Served \cup {Nothing}] /\ l.answer = Nothing
  <2>1. ASSUME NEW p \in Consoles, NEW l, l = [by |-> p, latest |-> TRUE, answer |-> Nothing]
        PROVE  l \in [by : Consoles, latest : BOOLEAN, answer : Served \cup {Nothing}] /\ l.answer = Nothing
    BY <2>1
  <2>2. QED BY <2>1, Zenon DEF LoggingInit
<1>6. LoggingTyped BY <1>2, <1>3, <1>4, <1>5 DEF LoggingTyped
<1>7. ConsolesInv BY <1>2, <1>4, <1>5 DEF ConsolesInv, AnswersOlder, PagesOlder, OrdersOlder
<1>8. Lags(tables, {}, tables) BY SameRules DEF Lags
<1>9. Older(tables, tables) /\ TargetsSeen(tables, tables) BY <1>3 DEF Older, TargetsSeen, Snapshots
<1>10. KeptLags BY <1>2, <1>3, <1>8 DEF KeptLags, OneEach
<1>11. ReadsLag /\ LateWhenTold /\ ReadsCurrent /\ WaitingTrue /\ ReadsOlder
  BY <1>2, <1>3 DEF ReadsLag, LateWhenTold, ReadsCurrent, WaitingTrue, ReadsOlder
<1>12. KeptOlder BY <1>2, <1>9 DEF KeptOlder
<1>13. QED BY <1>6, <1>7, <1>10, <1>11, <1>12 DEF LoggingInv, SnapshotInv

LEMMA LoggingStep == ASSUME LoggingInv, [LoggingNext]_loggingVars PROVE LoggingInv'
<1>1. CASE UNCHANGED loggingVars
  <2>1. UNCHANGED <<tables, snapshot, refreshes, consoles, loads, orders, astray>> BY <1>1 DEF loggingVars
  <2>2. Waiting' = Waiting BY <2>1 DEF Waiting
  <2>3. QED BY <2>1, <2>2, PagesAre, PageStep
<1>2. CASE \E p \in Consoles : LoadAgain(p) \/ Save(p) \/ \E admin \in BOOLEAN : applyAuth(p, admin)
  BY <1>2, LoadAgainStep, SaveStep, AuthStep
<1>3. CASE \E l \in loads : ServeView(l) \/ renderSnapshot(l) \/ ViewFails(l) BY <1>3, ServeViewStep, RenderStep
<1>4. CASE \E o \in orders : Write(o) \/ OutcomeLost(o) \/ Reject(o) \/ Tell(o) \/ Answered(o) \/ GiveUp(o)
  BY <1>4, WriteStep, OutcomeLostStep, RejectStep, TellStep, AnsweredStep, GiveUpStep
<1>5. CASE refresh BY <1>5, RefreshStep
<1>6. CASE \E r \in refreshes : ReadSettings(r) \/ ReadTargets(r) \/ Install(r) \/ RefreshFails(r)
  BY <1>6, ReadSettingsStep, ReadTargetsStep, InstallStep, RefreshFailsStep
<1>7. QED BY <1>1, <1>2, <1>3, <1>4, <1>5, <1>6 DEF LoggingNext

LEMMA LoggingInvariant == LoggingSpec => []LoggingInv
<1>1. LoggingInv /\ [LoggingNext]_loggingVars => LoggingInv' BY LoggingStep
<1>2. QED BY <1>1, LoggingStarts, PTL DEF LoggingSpec

\* The snapshot diagnostics are served from is what the tables hold once every write is heard of, unless it went astray.
THEOREM SnapshotKeptAsStored == LoggingSpec => []KeptAsStored
<1>1. LoggingInv => KeptAsStored
  <2> SUFFICES ASSUME LoggingInv, ~astray, \A o \in orders : o.at # "stored" PROVE snapshot = tables
    BY DEF KeptAsStored
  <2>1. Waiting = {} BY DEF Waiting
  <2>2. \A part \in Parts : Same(part, snapshot, tables) BY <2>1 DEF LoggingInv, SnapshotInv, KeptLags, Lags
  <2>3. snapshot \in Snapshots /\ tables \in Snapshots BY DEF LoggingInv, LoggingTyped
  <2>4. QED BY <2>2, <2>3, SameAll
<1>2. QED BY <1>1, LoggingInvariant, PTL

\* The step that writes found the tables as the page had shown them.
LEMMA WriteSeen ==
  ASSUME LoggingInv, NEW o \in orders, Valid(o), tables' = Applied(tables, Result(o))
  PROVE  /\ tables'.settings # tables.settings \/ tables'.revision # tables.revision =>
              o.what = "settings" /\ o.seen.settings = tables.settings
         /\ tables'.targets # tables.targets =>
              o.what # "settings" /\ (o.seen.sure => o.seen.targets = tables.targets)
<1> DEFINE q == Result(o)
           u == Applied(tables, q)
<1>1. \/ /\ o.what = "settings" /\ u.targets = tables.targets
      \/ /\ o.what # "settings" /\ u.settings = tables.settings /\ u.revision = tables.revision
  BY WrittenOrder DEF LoggingInv
<1>2. ShownTrue(o.seen, tables) /\ OrderTyped(o) BY PagesAre DEF OrderSound
<1>3. o.what = "settings" => o.seen.settings = tables.settings BY <1>2 DEF Valid, OrderTyped, ShownTrue, Older
<1>4. o.what # "settings" => (o.seen.sure => o.seen.targets = tables.targets)
  BY <1>2 DEF Valid, OrderTyped, ShownTrue, TargetsSeen
<1>5. tables' = u OBVIOUS
<1> HIDE DEF u
<1>6. QED BY <1>1, <1>3, <1>4, <1>5

\* Nobody overwrites settings he was not shown, nor targets unless he was served from a snapshot gone astray.
THEOREM SavedWasSeen == LoggingSpec => SavedAsSeen
<1> DEFINE A == /\ tables'.settings # tables.settings \/ tables'.revision # tables.revision =>
                      \E o \in orders \ orders' : o.what = "settings" /\ o.seen.settings = tables.settings
                /\ tables'.targets # tables.targets =>
                      \E o \in orders \ orders' : o.what # "settings" /\ (o.seen.sure => o.seen.targets = tables.targets)
<1>1. ASSUME LoggingInv, LoggingNext PROVE tables' = tables \/ A
  <2>1. CASE \E p \in Consoles : LoadAgain(p) \/ Save(p) \/ \E admin \in BOOLEAN : applyAuth(p, admin)
    BY <2>1 DEF LoadAgain, Save, applyAuth
  <2>2. CASE \E l \in loads : ServeView(l) \/ renderSnapshot(l) \/ ViewFails(l)
    BY <2>2 DEF ServeView, renderSnapshot, ViewFails
  <2>3. ASSUME NEW o \in orders, Write(o) \/ OutcomeLost(o) PROVE A
    <3>1. Valid(o) /\ o.at = "asked" /\ tables' = Applied(tables, Result(o)) BY <2>3 DEF Write, OutcomeLost
    <3>2. PICK w : orders' = (orders \ {o}) \cup {w} /\ w.at # "asked"
      <4>1. OrderTyped(o) BY <1>1 DEF LoggingInv, LoggingTyped
      <4>2. Result(o).at = "stored" BY <4>1 DEF Result, OrderTyped, Orders
      <4>3. [o EXCEPT !.at = "failed"].at = "failed" BY <4>1 DEF OrderTyped, Orders
      <4>4. QED BY <4>2, <4>3, <2>3 DEF Write, OutcomeLost
    <3>3. o \in orders \ orders' BY <3>1, <3>2
    <3>4. QED BY <1>1, <3>1, <3>3, WriteSeen
  <2>4. ASSUME NEW o \in orders, Reject(o) \/ Tell(o) \/ Answered(o) \/ GiveUp(o) PROVE tables' = tables
    BY <2>4 DEF Reject, Tell, Answered, GiveUp
  <2>5. CASE refresh BY <2>5 DEF refresh
  <2>6. CASE \E r \in refreshes : ReadSettings(r) \/ ReadTargets(r) \/ Install(r) \/ RefreshFails(r)
    BY <2>6 DEF ReadSettings, ReadTargets, Install, RefreshFails
  <2> HIDE DEF A
  <2>7. QED BY <1>1, <2>1, <2>2, <2>3, <2>4, <2>5, <2>6 DEF LoggingNext
<1>2. tables' = tables => A OBVIOUS
<1>3. LoggingInv /\ LoggingNext => [A]_loggingVars BY <1>1, <1>2
<1>4. LoggingInv /\ [LoggingNext]_loggingVars => [A]_loggingVars BY <1>3
<1>5. LoggingSpec => [][A]_loggingVars BY <1>4, LoggingInvariant, PTL DEF LoggingSpec
<1>6. QED BY <1>5 DEF SavedAsSeen

\* Both at once: the policy follows what is stored, and what is stored follows what was shown.
THEOREM SettingsAreKept == LoggingSpec => SettingsKept
BY SnapshotKeptAsStored, SavedWasSeen, PTL DEF SettingsKept

-----------------------------------------------------------------------------
(* The development workflow: sides, tests and releases, each with its own  *)
(* invariant; that of the tests needs that of the sides, that of the       *)
(* releases needs that of the sides before and after the step.             *)
-----------------------------------------------------------------------------
Trees == [Groups -> Nat]
CommitRecords == [packages : [num : Nat, open : BOOLEAN], changelog : [final : Nat, open : Nat], tree : Trees]

SideType ==
    /\ story \in WorkflowScenes
    /\ sides \in Seq(Seq(CommitRecords))
    /\ spot \in 0..Len(sides)
    /\ tree \in Trees
    /\ index # <<>> => index[1] \in Trees
JobShape(j) ==
    j = [openNext |-> j.openNext, step |-> j.step, allowed |-> j.allowed, checked |-> j.checked, moved |-> j.moved,
         packages |-> j.packages, changelog |-> j.changelog]
Working ==
    /\ spot # 0 /\ Tip(spot) > 0 /\ merging = <<>>
    /\ JobShape(job[1])
    /\ job[1].step \in {"stage", "commit", "open"}
    /\ job[1].step \in {"stage", "commit"} =>
          /\ packages = Version(NextCommit) /\ changelog = Sections(NextCommit, 0)
          /\ job[1].packages = WorkVersion /\ job[1].changelog = OpenSection
    /\ job[1].step = "commit" => index # <<>>
    /\ job[1].step = "open" => packages = Version(Tip(spot)) /\ changelog = Sections(Tip(spot), 0)
SideInv ==
    /\ SideType /\ Numbered /\ OnTheWay
    /\ merging # <<>> => spot = 0
    /\ job # <<>> => Working

LEMMA TreeFacts == ASSUME SideType, NEW b \in 0..Len(sides) PROVE CommittedTree(b) \in Trees /\ HeadTree \in Trees /\ Fresh \in Trees
<1>1. Fresh \in Trees
  BY DEF Fresh, Trees
<1>2. ASSUME NEW a \in 0..Len(sides) PROVE CommittedTree(a) \in Trees
  <2>1. CASE a = 0 \/ Tip(a) = 0
    BY <2>1, <1>1 DEF CommittedTree
  <2>2. CASE a # 0 /\ Tip(a) # 0
    <3>1. sides[a] \in Seq(CommitRecords)
      BY <2>2 DEF SideType
    <3>2. Tip(a) \in 1..Len(sides[a])
      BY <3>1, <2>2 DEF Tip
    <3>3. sides[a][Tip(a)] \in CommitRecords
      BY <3>1, <3>2
    <3>. QED BY <3>3, <2>2 DEF CommittedTree, CommitRecords
  <2>. QED BY <2>1, <2>2
<1>. QED BY <1>1, <1>2 DEF HeadTree, SideType

LEMMA TipType == ASSUME SideType, NEW b \in 1..Len(sides) PROVE Tip(b) \in Nat /\ sides[b] \in Seq(CommitRecords)
<1>1. sides[b] \in Seq(CommitRecords)
  BY DEF SideType
<1>. QED BY <1>1 DEF Tip

\* A clean side branch is as its last commit left it.
LEMMA CleanFacts ==
  ASSUME SideType, Numbered, NEW b \in 1..Len(sides), Tip(b) > 0
  PROVE sides[b][Tip(b)].packages = Version(Tip(b)) /\ sides[b][Tip(b)].changelog = Sections(Tip(b), 0)
<1>1. Tip(b) \in DOMAIN sides[b] /\ b \in DOMAIN sides
  BY TipType DEF Tip, SideType
<1>. QED BY <1>1 DEF Numbered

LEMMA SideInit == WorkflowInit => SideInv
<1>. SUFFICES ASSUME WorkflowInit PROVE SideInv
  OBVIOUS
<1>1. SideType
  BY DEF WorkflowInit, SideType, Fresh, Trees
<1>2. Numbered
  BY DEF WorkflowInit, Numbered
<1>. QED BY <1>1, <1>2 DEF WorkflowInit, SideInv, OnTheWay

\* What leaves sides, spot, versions and job alone.
LEMMA SideKept ==
  ASSUME SideInv, SideType', UNCHANGED <<spot, sides, packages, changelog, job>>, UNCHANGED merging \/ spot = 0 \/ merging' = <<>>,
         job # <<>> => UNCHANGED index
  PROVE SideInv'
<1>1. Numbered' /\ OnTheWay'
  BY DEF SideInv, Numbered, OnTheWay, NoCommand, WorkVersion, OpenSection, NextCommit, Tip, Version, Sections
<1>2. (merging # <<>> => spot = 0)'
  BY DEF SideInv
<1>3. (job # <<>> => Working)'
  <2>. SUFFICES ASSUME job # <<>> PROVE Working'
    OBVIOUS
  <2>1. Working
    BY DEF SideInv
  <2>2. UNCHANGED <<Tip(spot), NextCommit, WorkVersion, OpenSection>>
    BY DEF Tip, NextCommit, WorkVersion, OpenSection
  <2>3. merging' = <<>>
    BY <2>1 DEF Working
  <2>. QED BY <2>1, <2>2, <2>3 DEF Working, Version, Sections
<1>. QED BY <1>1, <1>2, <1>3 DEF SideInv

\* What leaves the commits alone, on a side branch without a job.
LEMMA SideMoved ==
  ASSUME SideInv, SideType', UNCHANGED sides, job' = <<>>, (merging # <<>> => spot = 0)', OnTheWay'
  PROVE SideInv'
<1>1. Numbered'
  BY DEF SideInv, Numbered
<1>. QED BY <1>1 DEF SideInv

\* A commit that carries its number.
LEMMA SideCommitted ==
  ASSUME SideType, Numbered, spot # 0, Tip(spot) \in Nat, NEW files \in Trees,
         packages = Version(NextCommit), changelog = Sections(NextCommit, 0),
         sides' = [sides EXCEPT ![spot] = Record(files)], UNCHANGED <<spot, packages, changelog>>
  PROVE /\ sides' \in Seq(Seq(CommitRecords)) /\ Len(sides') = Len(sides)
        /\ Numbered'
        /\ Tip(spot)' = NextCommit
<1>. DEFINE c == [packages |-> packages, changelog |-> changelog, tree |-> files]
<1>1. spot \in 1..Len(sides) /\ sides[spot] \in Seq(CommitRecords)
  BY TipType DEF SideType
<1>2. c \in CommitRecords
  <2>1. NextCommit \in Nat
    BY DEF NextCommit
  <2>2. Version(NextCommit) \in [num : Nat, open : BOOLEAN] /\ Sections(NextCommit, 0) \in [final : Nat, open : Nat]
    BY <2>1 DEF Version, Sections
  <2>. QED BY <2>2 DEF CommitRecords
<1>3. Record(files) = Append(sides[spot], c)
  BY DEF Record
<1>. HIDE DEF c
<1>4. Record(files) \in Seq(CommitRecords) /\ Len(Record(files)) = Len(sides[spot]) + 1
  BY <1>1, <1>2, <1>3
<1>5. sides' \in Seq(Seq(CommitRecords)) /\ Len(sides') = Len(sides)
  BY <1>1, <1>4 DEF SideType
<1>6. sides'[spot] = Record(files)
  BY <1>1, <1>4 DEF SideType
<1>7. Tip(spot)' = NextCommit
  BY <1>6, <1>4 DEF Tip, NextCommit
<1>8. Numbered'
  <2>. SUFFICES ASSUME NEW b \in DOMAIN sides', NEW n \in DOMAIN sides'[b]
                PROVE sides'[b][n].packages = Version(n) /\ sides'[b][n].changelog = Sections(n, 0)
    BY DEF Numbered, Version, Sections
  <2>1. b \in DOMAIN sides
    BY <1>5 DEF SideType
  <2>2. CASE b # spot
    <3>1. sides'[b] = sides[b]
      BY <2>1, <2>2, <1>1 DEF SideType
    <3>. QED BY <3>1, <2>1 DEF Numbered
  <2>3. CASE b = spot
    <3>1. sides'[b] = Append(sides[spot], c)
      BY <2>3, <1>6, <1>3
    <3>2. n \in 1..(Len(sides[spot]) + 1)
      BY <3>1, <1>1, <1>2
    <3>3. CASE n = Len(sides[spot]) + 1
      <4>1. sides'[b][n] = c
        BY <3>1, <3>3, <1>1, <1>2
      <4>2. c.packages = packages /\ c.changelog = changelog
        BY DEF c
      <4>3. n = NextCommit
        BY <3>3 DEF NextCommit, Tip
      <4>. QED BY <4>1, <4>2, <4>3
    <3>4. CASE n \in 1..Len(sides[spot])
      <4>1. sides'[b][n] = sides[spot][n]
        BY <3>1, <3>4, <1>1, <1>2
      <4>2. n \in DOMAIN sides[spot] /\ spot \in DOMAIN sides
        BY <3>4, <1>1 DEF SideType
      <4>. QED BY <4>1, <4>2 DEF Numbered
    <3>. QED BY <3>2, <3>3, <3>4, <1>1
  <2>. QED BY <2>2, <2>3
<1>. QED BY <1>5, <1>7, <1>8

-----------------------------------------------------------------------------
LEMMA SideByDeveloper ==
  ASSUME SideInv, \/ Unstage \/ (\E g \in Groups, value \in story.values : EditFile(g, value))
                  \/ \E b \in 0..Len(sides) : Switch(b)
  PROVE SideInv'
<1>. USE DEF SideInv
<1>1. ASSUME Unstage PROVE SideInv'
  <2>1. SideType'
    BY <1>1 DEF Unstage, SideType
  <2>. QED BY <2>1, <1>1, SideKept DEF Unstage, NoCommand, mainVars
<1>2. ASSUME NEW g \in Groups, NEW value \in story.values, EditFile(g, value) PROVE SideInv'
  <2>1. value \in Nat
    BY <1>2, WorkflowScenesAssumption DEF SideType
  <2>2. tree' \in Trees
    BY <2>1, <1>2 DEF EditFile, SideType, Trees
  <2>3. SideType'
    BY <2>2, <1>2 DEF EditFile, SideType
  <2>. QED BY <2>3, <1>2, SideKept DEF EditFile, mainVars
<1>3. ASSUME NEW b \in 0..Len(sides), Switch(b) PROVE SideInv'
  <2>0. merging = <<>> /\ UNCHANGED <<merging, sides, index, story>> /\ job' = <<>>
    BY <1>3 DEF Switch, mainVars, NoCommand, assertClean
  <2>1. SideType'
    BY <2>0, <1>3, TreeFacts DEF Switch, CheckOut, SideType
  <2>2. OnTheWay'
    <3>1. CASE b = 0
      BY <3>1, <1>3 DEF Switch, CheckOut, OnTheWay
    <3>2. CASE b # 0
      <4>1. Tip(b) > 0 /\ b \in 1..Len(sides) /\ spot' = b
        BY <3>2, <1>3 DEF Switch, CheckOut
      <4>2. sides[b][Tip(b)].packages = Version(Tip(b)) /\ sides[b][Tip(b)].changelog = Sections(Tip(b), 0)
        BY <4>1, CleanFacts
      <4>3. packages' = Version(Tip(b)) /\ changelog' = Sections(Tip(b), 0)
        BY <4>2, <3>2, <1>3 DEF Switch, CheckOut
      <4>4. Tip(spot)' = Tip(b)
        BY <4>1, <2>0 DEF Tip
      <4>. QED BY <4>3, <4>4 DEF OnTheWay, Version, Sections
    <3>. QED BY <3>1, <3>2
  <2>. QED BY <2>0, <2>1, <2>2, SideMoved
<1>. QED BY <1>1, <1>2, <1>3

LEMMA SideStart == ASSUME SideInv, branchStart PROVE SideInv'
<1>. USE DEF SideInv
<1>. DEFINE b == Len(sides) + 1
<1>. DEFINE first == [packages |-> Version(1), changelog |-> Sections(1, 0), tree |-> Fresh]
<1>0. merging = <<>> /\ merging' = <<>> /\ job' = <<>> /\ spot' = b /\ UNCHANGED <<tree, story>>
  BY DEF branchStart, assertClean, mainVars, NoCommand
<1>1. first \in CommitRecords
  BY DEF CommitRecords, Version, Sections, Trees, Fresh
<1>. HIDE DEF first
<1>2. b \in Nat /\ Len(sides) \in Nat
  BY DEF SideType
<1>3. ASSUME sides' = Append(sides, <<first>>), packages' = [num |-> 1, open |-> TRUE], changelog' = Sections(1, 2), UNCHANGED index
      PROVE SideInv'
  <2>1. <<first>> \in Seq(CommitRecords)
    BY <1>1
  <2>2. sides' \in Seq(Seq(CommitRecords)) /\ Len(sides') = b /\ sides'[b] = <<first>> /\ \A a \in 1..Len(sides) : sides'[a] = sides[a]
    BY <2>1, <1>3 DEF SideType
  <2>3. SideType'
    BY <2>2, <1>0, <1>2, <1>3 DEF SideType
  <2>4. Numbered'
    <3>. SUFFICES ASSUME NEW a \in DOMAIN sides', NEW n \in DOMAIN sides'[a]
                  PROVE sides'[a][n].packages = Version(n) /\ sides'[a][n].changelog = Sections(n, 0)
      BY DEF Numbered, Version, Sections
    <3>1. CASE a = b
      <4>1. n = 1 /\ sides'[a][n] = first
        BY <3>1, <2>2
      <4>. QED BY <4>1 DEF first
    <3>2. CASE a # b
      <4>0. a \in 1..b /\ DOMAIN sides = 1..Len(sides)
        BY <2>2, <1>2 DEF SideType
      <4>1. a \in DOMAIN sides /\ sides'[a] = sides[a]
        BY <4>0, <3>2, <2>2, <1>2
      <4>. QED BY <4>1 DEF Numbered
    <3>. QED BY <3>1, <3>2
  <2>5. Tip(spot)' = 1
    BY <2>2, <1>0 DEF Tip
  <2>6. OnTheWay'
    BY <2>5, <1>3 DEF OnTheWay, WorkVersion, OpenSection, NextCommit, Sections
  <2>. QED BY <2>3, <2>4, <2>6, <1>0
<1>4. ASSUME sides' = Append(sides, <<>>), index' = <<Fresh>>
      PROVE SideInv'
  <2>1. <<>> \in Seq(CommitRecords)
    OBVIOUS
  <2>2. sides' \in Seq(Seq(CommitRecords)) /\ Len(sides') = b /\ sides'[b] = <<>> /\ \A a \in 1..Len(sides) : sides'[a] = sides[a]
    BY <2>1, <1>4 DEF SideType
  <2>3. SideType'
    <3>1. index'[1] \in Trees
      BY <1>4 DEF Trees, Fresh
    <3>. QED BY <3>1, <2>2, <1>0, <1>2 DEF SideType
  <2>4. Numbered'
    <3>. SUFFICES ASSUME NEW a \in DOMAIN sides', NEW n \in DOMAIN sides'[a]
                  PROVE sides'[a][n].packages = Version(n) /\ sides'[a][n].changelog = Sections(n, 0)
      BY DEF Numbered, Version, Sections
    <3>1. CASE a = b
      BY <3>1, <2>2
    <3>2. CASE a # b
      <4>0. a \in 1..b /\ DOMAIN sides = 1..Len(sides)
        BY <2>2, <1>2 DEF SideType
      <4>1. a \in DOMAIN sides /\ sides'[a] = sides[a]
        BY <4>0, <3>2, <2>2, <1>2
      <4>. QED BY <4>1 DEF Numbered
    <3>. QED BY <3>1, <3>2
  <2>5. Tip(spot)' = 0
    BY <2>2, <1>0 DEF Tip
  <2>. QED BY <2>3, <2>4, <2>5, <1>0 DEF OnTheWay
<1>. QED BY <1>3, <1>4 DEF branchStart, first

LEMMA SideCommands == ASSUME SideInv, workStart \/ branchFinalize \/ branchReopen PROVE SideInv'
<1>. USE DEF SideInv
<1>1. UNCHANGED <<spot, sides, tree, index, job, merging, story>> /\ job = <<>> /\ merging = <<>>
  BY DEF workStart, branchFinalize, branchReopen, mainVars, NoCommand, NumberedBranch
<1>2. SideType'
  BY <1>1 DEF SideType
<1>3. UNCHANGED <<Tip(spot), NextCommit, WorkVersion, OpenSection>>
  BY <1>1 DEF Tip, NextCommit, WorkVersion, OpenSection
<1>4. \/ packages' = WorkVersion /\ changelog' = OpenSection
      \/ packages' = Version(NextCommit) /\ changelog' = Sections(NextCommit, 0)
  BY DEF workStart, branchFinalize, branchReopen
<1>5. OnTheWay'
  BY <1>3, <1>4 DEF OnTheWay, Version, Sections
<1>. QED BY <1>1, <1>2, <1>5, SideMoved

LEMMA StagedType == ASSUME SideType, NEW allowed PROVE Staged(allowed) \in Trees
<1>1. tree \in Trees /\ HeadTree \in Trees
  BY TreeFacts DEF SideType
<1>. QED BY <1>1 DEF Trees, Staged

LEMMA SideBranchCommit == ASSUME SideInv, NEW allowed, branchCommit(allowed) PROVE SideInv'
<1>. USE DEF SideInv
<1>. DEFINE staged == Staged(allowed)
<1>1. staged \in Trees
  BY StagedType
<1>. HIDE DEF staged
<1>2. UNCHANGED <<spot, tree, job, merging, packages, changelog, story>> /\ job = <<>> /\ merging = <<>> /\ spot # 0 /\ Tip(spot) > 0
  BY DEF branchCommit, mainVars, NoCommand, NumberedBranch
<1>3. ASSUME sides' = [sides EXCEPT ![spot] = Record(staged)], UNCHANGED index PROVE SideInv'
  <2>0. Tip(spot) \in Nat
    BY <1>2, TipType DEF SideType
  <2>1. sides' \in Seq(Seq(CommitRecords)) /\ Len(sides') = Len(sides) /\ Numbered' /\ Tip(spot)' = NextCommit
    BY <1>1, <1>2, <1>3, <2>0, SideCommitted DEF branchCommit
  <2>2. SideType'
    BY <2>1, <1>2, <1>3 DEF SideType
  <2>3. OnTheWay'
    <3>1. packages' = Version(NextCommit) /\ changelog' = Sections(NextCommit, 0)
      BY <1>2 DEF branchCommit
    <3>. QED BY <3>1, <2>1 DEF OnTheWay, Version, Sections
  <2>. QED BY <2>1, <2>2, <2>3, <1>2
<1>4. ASSUME index' = <<staged>>, UNCHANGED sides PROVE SideInv'
  <2>1. SideType'
    BY <1>1, <1>2, <1>4 DEF SideType
  <2>. QED BY <2>1, <1>2, <1>4, SideKept
<1>. QED BY <1>3, <1>4 DEF branchCommit, staged

\* The job after staging.
StagedJob(j, moved) == [j EXCEPT !.step = "commit", !.moved = moved]

\* A step of next-task or finish-branch changes what it names, and nothing else of what was checked.
LEMMA JobSteps ==
  ASSUME NEW j, JobShape(j), NEW k, NEW moved, k = StagedJob(j, moved)
  PROVE /\ JobShape(k) /\ k.step = "commit" /\ k.moved = moved /\ k.openNext = j.openNext /\ k.allowed = j.allowed
        /\ k.checked = j.checked /\ k.packages = j.packages /\ k.changelog = j.changelog
<1>1. DOMAIN j = {"openNext", "step", "allowed", "checked", "moved", "packages", "changelog"}
  BY DEF JobShape
<1>2. /\ k.step = "commit" /\ k.moved = moved /\ k.openNext = j.openNext /\ k.allowed = j.allowed
      /\ k.checked = j.checked /\ k.packages = j.packages /\ k.changelog = j.changelog
  BY <1>1 DEF StagedJob
<1>3. k = [openNext |-> k.openNext, step |-> k.step, allowed |-> k.allowed, checked |-> k.checked, moved |-> k.moved,
           packages |-> k.packages, changelog |-> k.changelog]
  BY <1>1 DEF StagedJob
<1>. QED BY <1>2, <1>3 DEF JobShape

LEMMA JobOpens ==
  ASSUME NEW j, JobShape(j), NEW k, NEW step, k = [j EXCEPT !.step = step]
  PROVE JobShape(k) /\ k.step = step
<1>1. DOMAIN j = {"openNext", "step", "allowed", "checked", "moved", "packages", "changelog"}
  BY DEF JobShape
<1>2. k.step = step
  BY <1>1
<1>3. k = [openNext |-> k.openNext, step |-> k.step, allowed |-> k.allowed, checked |-> k.checked, moved |-> k.moved,
           packages |-> k.packages, changelog |-> k.changelog]
  BY <1>1
<1>. QED BY <1>2, <1>3 DEF JobShape

LEMMA SideJob ==
  ASSUME SideInv, (\E openNext, allowed : completeBranchWork(openNext, allowed)) \/ StageTask \/ CommitTask \/ Restore \/ OpenNext PROVE SideInv'
<1>. USE DEF SideInv
<1>1. ASSUME NEW openNext, NEW allowed, completeBranchWork(openNext, allowed) PROVE SideInv'
  <2>1. UNCHANGED <<spot, sides, tree, merging, story>> /\ merging = <<>> /\ spot # 0 /\ Tip(spot) > 0
    BY <1>1 DEF completeBranchWork, mainVars, NumberedBranch
  <2>2. index' = <<>>
    BY <1>1 DEF completeBranchWork
  <2>3. SideType'
    BY <2>1, <2>2 DEF SideType
  <2>4. UNCHANGED <<Tip(spot), NextCommit, WorkVersion, OpenSection>>
    BY <2>1 DEF Tip, NextCommit, WorkVersion, OpenSection
  <2>5. /\ job' # <<>> /\ job'[1].step = "stage" /\ job'[1].packages = packages /\ job'[1].changelog = changelog
        /\ JobShape(job'[1])
    BY <1>1 DEF completeBranchWork, CheckedJob, JobShape
  <2>6. packages' = Version(NextCommit) /\ changelog' = Sections(NextCommit, 0) /\ packages = WorkVersion /\ changelog = OpenSection
    BY <1>1 DEF completeBranchWork
  <2>7. Working'
    BY <2>1, <2>2, <2>4, <2>5, <2>6 DEF Working, Version, Sections
  <2>8. Numbered' /\ OnTheWay'
    BY <2>1, <2>5 DEF Numbered, OnTheWay, NoCommand
  <2>. QED BY <2>1, <2>3, <2>7, <2>8
<1>5. ASSUME StageTask PROVE SideInv'
  <2>0. Working /\ job # <<>> /\ job[1].step = "stage"
    BY <1>5 DEF StageTask
  <2>1. UNCHANGED <<spot, sides, tree, merging, packages, changelog, story>>
    BY <1>5 DEF StageTask, mainVars
  <2>2. index' # <<>> /\ index'[1] \in Trees
    BY <1>5, StagedType DEF StageTask
  <2>3. SideType'
    BY <2>1, <2>2 DEF SideType
  <2>4. UNCHANGED <<Tip(spot), NextCommit, WorkVersion, OpenSection>>
    BY <2>1 DEF Tip, NextCommit, WorkVersion, OpenSection
  <2>5. /\ job' # <<>> /\ job'[1].step = "commit" /\ JobShape(job'[1])
        /\ job'[1].packages = job[1].packages /\ job'[1].changelog = job[1].changelog
    <3>1. PICK j : j = job[1]
      OBVIOUS
    <3>2. PICK moved : moved = (tree # j.checked)
      OBVIOUS
    <3>3. PICK k : k = StagedJob(j, moved)
      OBVIOUS
    <3>4. job' = <<k>>
      BY <1>5, <3>1, <3>2, <3>3 DEF StageTask, StagedJob
    <3>5. JobShape(j)
      BY <2>0, <3>1 DEF Working
    <3>6. JobShape(k) /\ k.step = "commit" /\ k.packages = j.packages /\ k.changelog = j.changelog
      BY <3>3, <3>5, JobSteps
    <3>. QED BY <3>1, <3>4, <3>6
  <2>6. Working'
    BY <2>0, <2>1, <2>2, <2>4, <2>5 DEF Working, Version, Sections
  <2>7. Numbered' /\ OnTheWay'
    BY <2>1, <2>5 DEF Numbered, OnTheWay, NoCommand
  <2>. QED BY <2>0, <2>1, <2>3, <2>6, <2>7 DEF Working
<1>2. ASSUME CommitTask PROVE SideInv'
  <2>0. Working /\ job[1].step = "commit" /\ Tip(spot) \in Nat
    BY <1>2, TipType DEF CommitTask, SideType, Working
  <2>1. packages = Version(NextCommit) /\ changelog = Sections(NextCommit, 0) /\ index # <<>> /\ index[1] \in Trees /\ spot # 0
    BY <2>0 DEF Working, SideType
  <2>2. sides' \in Seq(Seq(CommitRecords)) /\ Len(sides') = Len(sides) /\ Numbered' /\ Tip(spot)' = NextCommit
    BY <1>2, <2>0, <2>1, SideCommitted DEF CommitTask
  <2>3. UNCHANGED <<spot, tree, merging, packages, changelog, story>> /\ index' = <<>>
    BY <1>2 DEF CommitTask, mainVars
  <2>4. SideType'
    BY <2>2, <2>3 DEF SideType
  <2>5. job' # <<>> /\ job'[1].step = "open" /\ JobShape(job'[1])
    <3>1. PICK j : j = job[1]
      OBVIOUS
    <3>2. PICK k : k = [j EXCEPT !.step = "open"]
      OBVIOUS
    <3>3. job' = <<k>>
      BY <1>2, <3>1, <3>2 DEF CommitTask
    <3>4. JobShape(j)
      BY <2>0, <3>1 DEF Working
    <3>5. JobShape(k) /\ k.step = "open"
      BY <3>2, <3>4, JobOpens
    <3>. QED BY <3>3, <3>5
  <2>6. Working'
    <3>1. packages' = Version(NextCommit) /\ changelog' = Sections(NextCommit, 0)
      BY <2>1, <2>3
    <3>2. (packages = Version(Tip(spot)) /\ changelog = Sections(Tip(spot), 0))'
      BY <3>1, <2>2 DEF Version, Sections
    <3>3. Tip(spot)' > 0 /\ merging' = <<>> /\ spot' # 0
      BY <2>0, <2>2, <2>3 DEF NextCommit, Working
    <3>. QED BY <3>2, <3>3, <2>5 DEF Working
  <2>. QED BY <2>2, <2>3, <2>4, <2>5, <2>6 DEF OnTheWay, NoCommand, Working
<1>3. ASSUME Restore PROVE SideInv'
  <2>0. Working /\ job[1].step \in {"stage", "commit"}
    BY <1>3 DEF Restore
  <2>1. UNCHANGED <<spot, sides, tree, merging, story>> /\ job' = <<>> /\ index' = <<>>
    BY <1>3 DEF Restore, mainVars
  <2>2. SideType'
    BY <2>1 DEF SideType
  <2>3. packages' = WorkVersion /\ changelog' = OpenSection
    BY <2>0, <1>3 DEF Restore, Working
  <2>4. UNCHANGED <<WorkVersion, OpenSection>>
    BY <2>1 DEF WorkVersion, OpenSection, Tip, NextCommit
  <2>5. OnTheWay'
    BY <2>3, <2>4 DEF OnTheWay
  <2>. QED BY <2>1, <2>2, <2>5, SideMoved
<1>4. ASSUME OpenNext PROVE SideInv'
  <2>0. Working /\ job[1].step = "open"
    BY <1>4 DEF OpenNext
  <2>1. UNCHANGED <<spot, sides, tree, merging, index, story>> /\ job' = <<>>
    BY <1>4 DEF OpenNext, mainVars
  <2>2. SideType'
    BY <2>1 DEF SideType
  <2>3. UNCHANGED <<Tip(spot), WorkVersion, OpenSection>>
    BY <2>1 DEF WorkVersion, OpenSection, Tip, NextCommit
  <2>4. \/ packages' = WorkVersion /\ changelog' = OpenSection
        \/ UNCHANGED <<packages, changelog>>
    BY <1>4 DEF OpenNext
  <2>5. packages = Version(Tip(spot)) /\ changelog = Sections(Tip(spot), 0)
    BY <2>0 DEF Working
  <2>6. OnTheWay'
    BY <2>3, <2>4, <2>5 DEF OnTheWay, Version, Sections
  <2>. QED BY <2>1, <2>2, <2>6, SideMoved
<1>. QED BY <1>1, <1>2, <1>3, <1>4, <1>5

LEMMA SideRelease == ASSUME SideInv, ReleaseStep PROVE SideInv'
<1>. USE DEF SideInv
<1>1. CASE pushBranch \/ pushMain \/ RivalRelease \/ TransferLogs \/ \E b, v : Confirm(b, v)
  <2>1. UNCHANGED <<sideVars, merging, story>>
    BY <1>1 DEF pushBranch, pushMain, RivalRelease, TransferLogs, Confirm
  <2>2. SideType'
    BY <2>1 DEF SideType, sideVars
  <2>. QED BY <2>1, <2>2, SideKept DEF sideVars
<1>2. CASE Pull \/ releaseCommit
  <2>1. UNCHANGED <<spot, sides, tree, index, job, story>> /\ spot = 0 /\ job = <<>>
    BY <1>2 DEF Pull, releaseCommit, NoCommand
  <2>2. SideType'
    BY <2>1 DEF SideType
  <2>3. OnTheWay'
    BY <2>1 DEF OnTheWay
  <2>. QED BY <2>1, <2>2, <2>3, SideMoved
<1>3. CASE releaseOpen
  <2>1. spot' = 0 /\ tree' = Fresh /\ UNCHANGED <<sides, index, job, story>> /\ job = <<>>
    BY <1>3 DEF releaseOpen, NoCommand
  <2>2. 0 \in 0..Len(sides)
    BY DEF SideType
  <2>3. SideType'
    BY <2>1, <2>2, TreeFacts DEF SideType
  <2>4. OnTheWay'
    BY <2>1 DEF OnTheWay
  <2>. QED BY <2>1, <2>3, <2>4, SideMoved
<1>. QED BY <1>1, <1>2, <1>3 DEF ReleaseStep

LEMMA SideNext == SideInv /\ [WorkflowNext]_workflowVars => SideInv'
<1>. SUFFICES ASSUME SideInv, [WorkflowNext]_workflowVars PROVE SideInv'
  OBVIOUS
<1>1. CASE BranchStep
  BY <1>1, SideByDeveloper, SideStart, SideCommands, SideBranchCommit, SideJob DEF BranchStep
<1>2. CASE TestStep \/ UNCHANGED workflowVars
  <2>1. UNCHANGED <<sideVars, merging, story>>
    BY <1>2 DEF TestStep, RunSuite, SuitePasses, SuiteFails, ProfileEnds, mainVars, workflowVars
  <2>2. SideType'
    BY <2>1 DEF SideType, SideInv, sideVars
  <2>. QED BY <2>1, <2>2, SideKept DEF sideVars
<1>3. CASE ReleaseStep
  BY <1>3, SideRelease
<1>. QED BY <1>1, <1>2, <1>3 DEF WorkflowNext

-----------------------------------------------------------------------------
\* An entry of the receipt that says success, or names a profile, has evidence with its fingerprint; the files of
\* a profile were still those when it ended, if HEAD is and nothing was edited.
ProfileSeen(suite, profile, print, known, head) ==
    \E e \in known : /\ e.suite = suite /\ e.profile = profile /\ e.start = print
                     /\ print.head = head => e.end = print \/ e.edited
EntrySound(suite, entry, known, head) ==
    \A print : entry.print = <<print>> =>
        /\ ~Browser(suite) /\ entry.success => \E e \in known : e.suite = suite /\ e.start = print /\ e.end = print
        /\ Browser(suite) /\ entry.success => browserProfilesForSuite(suite) \subseteq entry.profiles
        /\ \A p \in entry.profiles : ProfileSeen(suite, p, print, known, head)
ReceiptSound ==
    /\ DOMAIN receipt.suites = Suites
    /\ \A s \in Suites : EntrySound(s, receipt.suites[s], evidence, receipt.head)
\* A suite that runs started on this branch; its fingerprint is current unless a file or HEAD was changed.
RunSound(r) ==
    /\ r.suite \in Suites /\ (r.todo # {} => Browser(r.suite))
    /\ spot # 0 /\ \E n \in Nat : r.print.head = <<spot, n>> /\ n <= Tip(spot)
    /\ ~r.edited /\ r.print.head = Sha => r.print = suiteFingerprint(r.suite)
\* What next-task has checked was tested, and is what it stages unless a file was changed meanwhile.
JobSound(j) ==
    /\ j.step \in {"stage", "commit"} /\ j.openNext => TestedAs(Sha, HeadTree, j.checked)
    /\ j.step = "stage" => j.checked \in Trees /\ Changed(HeadTree, j.checked) \subseteq j.allowed
    /\ j.step = "commit" => index[1] = j.checked \/ j.moved
TestInv ==
    /\ ReceiptSound
    /\ suiteRun # <<>> => RunSound(suiteRun[1])
    /\ Tested
    /\ job # <<>> => JobSound(job[1])

LEMMA NothingSound ==
  ASSUME NEW head PROVE DOMAIN NoReceipt.suites = Suites /\ \A s \in Suites : EntrySound(s, NoReceipt.suites[s], evidence, head)
BY DEF NoReceipt, NoEntry, EntrySound

LEMMA KnownSound == ASSUME ReceiptSound PROVE DOMAIN Known = Suites /\ \A s \in Suites : EntrySound(s, Known[s], evidence, Sha)
<1>1. CASE receipt.head = Sha
  BY <1>1 DEF ReceiptSound, Known
<1>2. CASE receipt.head # Sha
  BY <1>2, NothingSound DEF Known
<1>. QED BY <1>1, <1>2

LEMMA EntryKept ==
  ASSUME NEW s, NEW entry, NEW head, NEW old, NEW new, old \subseteq new, EntrySound(s, entry, old, head)
  PROVE EntrySound(s, entry, new, head)
<1>1. ASSUME NEW p, NEW print, ProfileSeen(s, p, print, old, head) PROVE ProfileSeen(s, p, print, new, head)
  BY <1>1 DEF ProfileSeen
<1>. QED BY <1>1 DEF EntrySound

LEMMA Writing ==
  ASSUME ReceiptSound, NEW s \in Suites, NEW entry, evidence \subseteq evidence', EntrySound(s, entry, evidence', Sha),
         WriteReceipt(s, entry)
  PROVE ReceiptSound'
<1>1. DOMAIN Known = Suites /\ \A t \in Suites : EntrySound(t, Known[t], evidence, Sha)
  BY KnownSound
<1>2. receipt'.suites = [Known EXCEPT ![s] = entry] /\ receipt'.head = Sha
  BY DEF WriteReceipt
<1>3. DOMAIN receipt'.suites = Suites
  BY <1>1, <1>2
<1>4. ASSUME NEW t \in Suites PROVE EntrySound(t, receipt'.suites[t], evidence', receipt'.head)
  <2>1. CASE t = s
    <3>1. receipt'.suites[t] = entry
      BY <2>1, <1>1, <1>2
    <3>. QED BY <3>1, <2>1, <1>2
  <2>2. CASE t # s
    <3>1. receipt'.suites[t] = Known[t]
      BY <2>2, <1>1, <1>2
    <3>2. EntrySound(t, Known[t], evidence, Sha)
      BY <1>1
    <3>. QED BY <3>1, <3>2, <1>2, EntryKept
  <2>. QED BY <2>1, <2>2
<1>. QED BY <1>3, <1>4 DEF ReceiptSound

LEMMA ReceiptKept == ASSUME ReceiptSound, UNCHANGED receipt, evidence \subseteq evidence' PROVE ReceiptSound'
<1>1. ASSUME NEW t \in Suites PROVE EntrySound(t, receipt.suites[t], evidence', receipt.head)
  BY EntryKept DEF ReceiptSound
<1>. QED BY <1>1 DEF ReceiptSound

LEMMA TestedKept ==
  ASSUME NEW head, NEW from, NEW files, evidence \subseteq evidence', TestedAs(head, from, files)
  PROVE TestedAs(head, from, files)'
<1>1. ASSUME NEW s \in Suites, Passed(s, head, from, files) PROVE Passed(s, head, from, files)'
  BY <1>1 DEF Passed, SuitePrint
<1>2. {s \in Suites : Passed(s, head, from, files)} \subseteq {s \in Suites : Passed(s, head, from, files)'}
  BY <1>1
<1>3. ASSUME NEW s, NEW old, NEW new, old \subseteq new, suiteSatisfied(s, old) PROVE suiteSatisfied(s, new)
  BY <1>3 DEF suiteSatisfied
<1>4. ASSUME NEW s \in requiredSuites(Changed(from, files)) PROVE suiteSatisfied(s, {t \in Suites : Passed(t, head, from, files)'})
  BY <1>2, <1>3 DEF TestedAs
<1>. QED BY <1>4 DEF TestedAs, suiteSatisfied

\* The check of next-task: nothing is missing, so the files of the working tree were tested.
LEMMA Verified ==
  ASSUME ReceiptSound, missingSuites = {}
  PROVE TestedAs(Sha, HeadTree, tree)
<1>1. ASSUME NEW s \in completedSuites PROVE s \in {t \in Suites : Passed(t, Sha, HeadTree, tree)}
  <2>1. s \in Suites /\ Known[s].success /\ Known[s].print = <<suiteFingerprint(s)>>
    BY DEF completedSuites
  <2>2. EntrySound(s, Known[s], evidence, Sha)
    BY <2>1, KnownSound
  <2>3. suiteFingerprint(s) = SuitePrint(s, Sha, HeadTree, tree) /\ suiteFingerprint(s).head = Sha
    BY DEF suiteFingerprint, SuitePrint
  <2>4. CASE Browser(s)
    <3>1. \A p \in browserProfilesForSuite(s) : ProfileSeen(s, p, suiteFingerprint(s), evidence, Sha)
      BY <2>1, <2>2, <2>4 DEF EntrySound
    <3>. QED BY <2>1, <2>3, <2>4, <3>1 DEF ProfileSeen, Passed
  <2>5. CASE ~Browser(s)
    BY <2>1, <2>2, <2>3, <2>5 DEF EntrySound, Passed
  <2>. QED BY <2>4, <2>5
<1>2. ASSUME NEW s, suiteSatisfied(s, completedSuites) PROVE suiteSatisfied(s, {t \in Suites : Passed(t, Sha, HeadTree, tree)})
  BY <1>1, <1>2 DEF suiteSatisfied
<1>3. ASSUME NEW s \in requiredSuites(Changed(HeadTree, tree)) PROVE suiteSatisfied(s, completedSuites)
  BY <1>3 DEF missingSuites
<1>. QED BY <1>2, <1>3 DEF TestedAs

LEMMA TestInit == WorkflowInit => TestInv
<1>. SUFFICES ASSUME WorkflowInit PROVE TestInv
  OBVIOUS
<1>1. receipt = NoReceipt /\ tasks = {} /\ job = <<>> /\ suiteRun = <<>>
  BY DEF WorkflowInit
<1>. QED BY <1>1, NothingSound DEF TestInv, ReceiptSound, Tested

\* What keeps branch, commits and files keeps the head and what a running suite and a job rest on.
LEMMA PlaceStays ==
  ASSUME UNCHANGED <<spot, sides>>, spot # 0
  PROVE UNCHANGED <<Sha, HeadTree, Tip(spot)>>
BY DEF Sha, HeadTree, CommittedTree, Tip

LEMMA RunStays ==
  ASSUME NEW r, RunSound(r), UNCHANGED <<spot, sides, tree>>
  PROVE RunSound(r)'
<1>1. spot # 0
  BY DEF RunSound
<1>2. UNCHANGED <<Sha, HeadTree, Tip(spot)>>
  BY <1>1, PlaceStays
<1>3. suiteFingerprint(r.suite)' = suiteFingerprint(r.suite)
  BY <1>2 DEF suiteFingerprint, SuitePrint
<1>. QED BY <1>2, <1>3 DEF RunSound

\* A commit makes the fingerprint of a running suite that of an older HEAD.
LEMMA RunOutdated ==
  ASSUME NEW r, RunSound(r), spot' = spot, Tip(spot) \in Nat, Tip(spot)' = Tip(spot) + 1
  PROVE RunSound(r)'
<1>1. PICK n \in Nat : r.print.head = <<spot, n>> /\ n <= Tip(spot)
  BY DEF RunSound
<1>2. n <= Tip(spot)' /\ n # Tip(spot)'
  BY <1>1
<1>3. spot # 0 /\ Sha' = <<spot, Tip(spot)'>>
  BY DEF RunSound, Sha, Tip
<1>4. r.print.head # Sha'
  BY <1>1, <1>2, <1>3
<1>. QED BY <1>1, <1>2, <1>3, <1>4 DEF RunSound

LEMMA JobStays ==
  ASSUME NEW j, JobSound(j), UNCHANGED <<spot, sides, index>>, spot # 0, evidence \subseteq evidence'
  PROVE JobSound(j)'
<1>1. UNCHANGED <<Sha, HeadTree>>
  BY PlaceStays
<1>2. TestedAs(Sha, HeadTree, j.checked) => TestedAs(Sha, HeadTree, j.checked)'
  <2>1. PICK head, from : head = Sha /\ from = HeadTree
    OBVIOUS
  <2>2. TestedAs(head, from, j.checked) => TestedAs(head, from, j.checked)'
    BY TestedKept
  <2>. QED BY <1>1, <2>1, <2>2 DEF TestedAs, Passed
<1>. QED BY <1>1, <1>2 DEF JobSound

LEMMA TasksKept == ASSUME Tested, UNCHANGED tasks, evidence \subseteq evidence' PROVE Tested'
<1>1. ASSUME NEW task \in tasks PROVE TestedAs(task.head, task.from, task.checked)'
  BY TestedKept DEF Tested
<1>. QED BY <1>1 DEF Tested

LEMMA TestByRuns == ASSUME SideInv, TestInv, TestStep PROVE TestInv'
<1>. USE DEF TestInv
<1>1. ASSUME evidence \subseteq evidence', ReceiptSound', UNCHANGED <<sideVars, mainVars, tasks>>, (suiteRun # <<>> => RunSound(suiteRun[1]))'
      PROVE TestInv'
  <2>1. Tested'
    BY <1>1, TasksKept
  <2>2. job # <<>> => spot # 0
    BY DEF SideInv, Working
  <2>3. job # <<>> => JobSound(job[1])'
    <3>. SUFFICES ASSUME job # <<>> PROVE JobSound(job[1])'
      OBVIOUS
    <3>1. PICK j : j = job[1]
      OBVIOUS
    <3>2. JobSound(j)'
      BY <1>1, <2>2, <3>1, JobStays DEF sideVars
    <3>. QED BY <1>1, <3>1, <3>2 DEF JobSound, sideVars
  <2>. QED BY <1>1, <2>1, <2>3 DEF sideVars
<1>6. UNCHANGED <<spot, sides, tree>>
  BY DEF TestStep, RunSuite, SuitePasses, ProfileEnds, SuiteFails, sideVars
<1>2. ASSUME NEW suite \in Suites, NEW force \in BOOLEAN, RunSuite(suite, force) PROVE TestInv'
  <2>1. UNCHANGED <<sideVars, mainVars, tasks, evidence>>
    BY <1>2 DEF RunSuite
  <2>3. RunSound(suiteRun'[1])
    <3>1. PICK r : suiteRun' = <<r>> /\ r.suite = suite /\ r.print = suiteFingerprint(suite) /\ (r.todo # {} => Browser(suite))
      BY <1>2 DEF RunSuite
    <3>2. spot # 0 /\ spot \in 0..Len(sides) /\ SideType
      BY <1>2 DEF RunSuite, SideInv, SideType
    <3>3. Tip(spot) \in Nat
      BY <3>2, TipType DEF SideType
    <3>4. r.print.head = <<spot, Tip(spot)>>
      BY <3>1, <3>2 DEF suiteFingerprint, SuitePrint, Sha
    <3>5. RunSound(r)
      BY <3>1, <3>2, <3>3, <3>4 DEF RunSound
    <3>. QED BY <3>1, <3>5
  <2>4. RunSound(suiteRun[1])'
    <3>1. PICK r : r = suiteRun'[1]
      OBVIOUS
    <3>2. RunSound(r)'
      BY <1>6, <2>3, <3>1, RunStays
    <3>. QED BY <3>1, <3>2 DEF RunSound
  <2>2. ReceiptSound'
    <3>1. CASE Browser(suite)
      BY <3>1, <1>2, ReceiptKept DEF RunSuite
    <3>2. CASE ~Browser(suite)
      <4>. DEFINE entry == [success |-> FALSE, print |-> <<suiteFingerprint(suite)>>, profiles |-> {}]
      <4>1. EntrySound(suite, entry, evidence', Sha)
        BY <3>2 DEF EntrySound
      <4>2. WriteReceipt(suite, entry)
        BY <3>2, <1>2 DEF RunSuite
      <4>. HIDE DEF entry
      <4>. QED BY <4>1, <4>2, <2>1, Writing
    <3>. QED BY <3>1, <3>2
  <2>. QED BY <2>1, <2>2, <2>4, <1>1
<1>3. ASSUME SuitePasses PROVE TestInv'
  <2>. DEFINE suite == suiteRun[1].suite  print == suiteRun[1].print
              seen == Evidence("")
  <2>1. UNCHANGED <<sideVars, mainVars, tasks>> /\ suiteRun' = <<>> /\ suite \in Suites /\ ~Browser(suite)
    BY <1>3 DEF SuitePasses, RunSound
  <2>2. evidence' = evidence \cup {seen}
    BY <1>3 DEF SuitePasses
  <2>4. seen.suite = suite /\ seen.start = print /\ seen.end = suiteFingerprint(suite)
    BY DEF Evidence
  <2>. HIDE DEF seen
  <2>3. ReceiptSound'
    <3>1. CASE suiteFingerprint(suite) = print
      <4>. DEFINE entry == [success |-> TRUE, print |-> <<print>>, profiles |-> {}]
      <4>1. WriteReceipt(suite, entry)
        BY <3>1, <1>3 DEF SuitePasses
      <4>2. seen.suite = suite /\ seen.start = print /\ seen.end = print /\ seen \in evidence'
        BY <3>1, <2>2, <2>4
      <4>3. EntrySound(suite, entry, evidence', Sha)
        BY <2>1, <4>2 DEF EntrySound
      <4>. HIDE DEF entry, print, suite
      <4>. QED BY <4>1, <4>3, <2>1, <2>2, Writing
    <3>2. CASE suiteFingerprint(suite) # print
      BY <3>2, <1>3, <2>2, ReceiptKept DEF SuitePasses
    <3>. QED BY <3>1, <3>2
  <2>. QED BY <2>1, <2>2, <2>3, <1>1
<1>4. ASSUME NEW profile \in AllProfiles, NEW passes \in BOOLEAN, ProfileEnds(profile, passes) PROVE TestInv'
  <2>. DEFINE suite == suiteRun[1].suite  print == suiteRun[1].print
              seen == Evidence(profile)
              kept == IF Known[suite].print = <<print>> THEN Known[suite].profiles ELSE {}
              now == IF passes THEN kept \cup {profile} ELSE kept \ {profile}
              entry == [success |-> browserProfilesForSuite(suite) \subseteq now, print |-> <<print>>, profiles |-> now]
  <2>0. RunSound(suiteRun[1]) /\ suiteRun # <<>>
    BY <1>4 DEF ProfileEnds
  <2>1. UNCHANGED <<sideVars, mainVars, tasks>> /\ suite \in Suites /\ Browser(suite)
    BY <1>4 DEF ProfileEnds, RunSound
  <2>2. evidence' = IF passes THEN evidence \cup {seen} ELSE evidence
    BY <1>4 DEF ProfileEnds
  <2>3. (suiteRun # <<>> => RunSound(suiteRun[1]))'
    <3>. SUFFICES ASSUME suiteRun' # <<>> PROVE RunSound(suiteRun[1])'
      OBVIOUS
    <3>1. PICK r : suiteRun' = <<r>> /\ r.suite = suite /\ r.print = print /\ r.edited = suiteRun[1].edited
      BY <1>4 DEF ProfileEnds
    <3>2. RunSound(r)
      BY <2>0, <2>1, <3>1 DEF RunSound
    <3>3. RunSound(r)'
      BY <1>6, <3>2, RunStays
    <3>. QED BY <3>1, <3>3 DEF RunSound
  <2>4. WriteReceipt(suite, entry)
    BY <1>4 DEF ProfileEnds, RecordProfile
  <2>5. EntrySound(suite, Known[suite], evidence, Sha)
    BY <2>1, KnownSound
  <2>6. ASSUME NEW p \in kept PROVE ProfileSeen(suite, p, print, evidence', Sha)
    <3>1. ProfileSeen(suite, p, print, evidence, Sha)
      BY <2>5, <2>6 DEF EntrySound
    <3>. HIDE DEF seen
    <3>. QED BY <2>2, <3>1 DEF ProfileSeen
  <2>7. ASSUME passes PROVE ProfileSeen(suite, profile, print, evidence', Sha)
    <3>1. seen \in evidence'
      BY <2>2, <2>7
    <3>2. seen.suite = suite /\ seen.profile = profile /\ seen.start = print /\ seen.end = suiteFingerprint(suite)
          /\ seen.edited = suiteRun[1].edited
      BY DEF Evidence
    <3>3. print.head = Sha => seen.end = print \/ seen.edited
      BY <2>0, <3>2 DEF RunSound
    <3>. HIDE DEF seen, suite, print
    <3>. QED BY <3>1, <3>2, <3>3 DEF ProfileSeen
  <2>8. ASSUME NEW p \in now PROVE ProfileSeen(suite, p, print, evidence', Sha)
    BY <2>6, <2>7
  <2>9. entry.success => browserProfilesForSuite(suite) \subseteq now
    OBVIOUS
  <2>10. entry.profiles = now /\ \A q : entry.print = <<q>> => q = print
    OBVIOUS
  <2>. HIDE DEF entry, now, kept, print, suite
  <2>11. EntrySound(suite, entry, evidence', Sha)
    <3>. SUFFICES ASSUME NEW q, entry.print = <<q>>
                  PROVE /\ Browser(suite) /\ entry.success => browserProfilesForSuite(suite) \subseteq entry.profiles
                        /\ \A p \in entry.profiles : ProfileSeen(suite, p, q, evidence', Sha)
      BY <2>1 DEF EntrySound
    <3>1. q = print /\ entry.profiles = now
      BY <2>10
    <3>. QED BY <3>1, <2>8, <2>9
  <2>12. ReceiptSound' /\ evidence \subseteq evidence'
    BY <2>1, <2>2, <2>4, <2>11, Writing
  <2>. QED BY <2>1, <2>3, <2>12, <1>1
<1>5. ASSUME SuiteFails PROVE TestInv'
  BY <1>1, <1>5, ReceiptKept DEF SuiteFails
<1>. QED BY <1>2, <1>3, <1>4, <1>5 DEF TestStep

\* What neither tests nor commits.
LEMMA TestIdle ==
  ASSUME TestInv, UNCHANGED <<receipt, evidence, tasks>>,
         (suiteRun # <<>> => RunSound(suiteRun[1]))',
         job' = <<>> \/ (UNCHANGED <<job, spot, sides, index>> /\ spot # 0)
  PROVE TestInv'
<1>. USE DEF TestInv
<1>1. ReceiptSound' /\ Tested'
  BY ReceiptKept, TasksKept
<1>3. (job # <<>> => JobSound(job[1]))'
  <2>. SUFFICES ASSUME job # <<>>, UNCHANGED <<job, spot, sides, index>>, spot # 0 PROVE JobSound(job[1])'
    OBVIOUS
  <2>1. PICK j : j = job[1]
    OBVIOUS
  <2>2. JobSound(j)'
    BY <2>1, JobStays
  <2>. QED BY <2>1, <2>2 DEF JobSound
<1>. QED BY <1>1, <1>3

\* A suite that runs goes on while branch, commits and files stay, or a commit is made.
LEMMA RunGoesOn ==
  ASSUME TestInv, SideType, UNCHANGED suiteRun,
         suiteRun # <<>> => \/ UNCHANGED <<spot, sides, tree>>
                            \/ spot' = spot /\ Tip(spot)' = Tip(spot) + 1
  PROVE (suiteRun # <<>> => RunSound(suiteRun[1]))'
<1>. SUFFICES ASSUME suiteRun # <<>> PROVE RunSound(suiteRun[1])'
  OBVIOUS
<1>1. PICK r : r = suiteRun[1]
  OBVIOUS
<1>2. RunSound(r)
  BY <1>1 DEF TestInv
<1>3. Tip(spot) \in Nat
  BY <1>2, TipType DEF RunSound, SideType
<1>4. RunSound(r)'
  BY <1>2, <1>3, RunStays, RunOutdated
<1>. QED BY <1>1, <1>4 DEF RunSound

LEMMA TestByBranches == ASSUME SideInv, TestInv, BranchStep PROVE TestInv'
<1>0. /\ SideType
      /\ suiteRun # <<>> => spot # 0
      /\ job # <<>> => Working /\ spot # 0 /\ JobShape(job[1])
  BY DEF SideInv, TestInv, RunSound, Working
<1>1. CASE branchStart \/ workStart \/ branchFinalize \/ branchReopen \/ Unstage \/ \E b \in 0..Len(sides) : Switch(b)
  <2>1. job' = <<>> /\ UNCHANGED testVars
    BY <1>1 DEF branchStart, workStart, branchFinalize, branchReopen, Unstage, Switch, NoCommand
  <2>2. suiteRun # <<>> => UNCHANGED <<spot, sides, tree>>
    BY <1>0, <1>1 DEF branchStart, workStart, branchFinalize, branchReopen, Unstage, Switch
  <2>. QED BY <1>0, <2>1, <2>2, RunGoesOn, TestIdle DEF testVars
<1>2. CASE Restore \/ OpenNext
  <2>1. job' = <<>> /\ UNCHANGED <<testVars, spot, sides, tree>>
    BY <1>2 DEF Restore, OpenNext
  <2>. QED BY <1>0, <2>1, RunGoesOn, TestIdle DEF testVars
<1>6. ASSUME NEW allowed, branchCommit(allowed) PROVE TestInv'
  <2>1. job' = <<>> /\ UNCHANGED <<testVars, spot, tree>>
    BY <1>6 DEF branchCommit, NoCommand
  <2>2. UNCHANGED sides \/ Tip(spot)' = Tip(spot) + 1
    <3>. SUFFICES ASSUME sides' = [sides EXCEPT ![spot] = Record(Staged(allowed))] PROVE Tip(spot)' = Tip(spot) + 1
      BY <1>6 DEF branchCommit
    <3>1. spot # 0 /\ spot \in 1..Len(sides) /\ Tip(spot) \in Nat
      BY <1>0, <1>6, TipType DEF branchCommit, NumberedBranch, SideType
    <3>2. Staged(allowed) \in Trees
      BY <1>0, StagedType
    <3>3. Tip(spot)' = NextCommit
      BY <1>0, <1>6, <2>1, <3>1, <3>2, SideCommitted DEF branchCommit, SideInv
    <3>. QED BY <3>3 DEF NextCommit
  <2>. QED BY <1>0, <2>1, <2>2, RunGoesOn, TestIdle DEF testVars
<1>3. CASE \E g \in Groups, value \in story.values : EditFile(g, value)
  <2>1. UNCHANGED <<job, receipt, evidence, tasks, spot, sides, index>> /\ spot # 0
        /\ suiteRun' = IF suiteRun = <<>> THEN <<>> ELSE <<[suiteRun[1] EXCEPT !.edited = TRUE]>>
    BY <1>3 DEF EditFile, mainVars
  <2>2. ASSUME suiteRun # <<>> PROVE \E q : suiteRun' = <<q>> /\ RunSound(q)'
    <3>1. PICK r : r = suiteRun[1]
      OBVIOUS
    <3>2. RunSound(r)
      BY <2>2, <3>1 DEF TestInv
    <3>3. PICK q : q = [r EXCEPT !.edited = TRUE]
      OBVIOUS
    <3>4. suiteRun' = <<q>>
      BY <2>1, <2>2, <3>1, <3>3
    <3>5. q.suite = r.suite /\ q.todo = r.todo /\ q.print = r.print /\ q.edited
      BY <3>2, <3>3 DEF RunSound
    <3>6. UNCHANGED Tip(spot)
      BY <2>1 DEF Tip
    <3>7. RunSound(q)'
      BY <2>1, <3>2, <3>5, <3>6 DEF RunSound
    <3>. QED BY <3>4, <3>7
  <2>3. (suiteRun # <<>> => RunSound(suiteRun[1]))'
    BY <2>1, <2>2 DEF RunSound
  <2>. QED BY <2>1, <2>3, TestIdle
<1>4. ASSUME NEW openNext \in BOOLEAN, NEW allowed, completeBranchWork(openNext, allowed) PROVE TestInv'
  <2>1. UNCHANGED <<testVars, spot, sides, tree>> /\ spot # 0 /\ job' = <<CheckedJob(openNext, allowed)>>
    BY <1>4 DEF completeBranchWork, NumberedBranch
  <2>2. ReceiptSound' /\ Tested' /\ (suiteRun # <<>> => RunSound(suiteRun[1]))'
    BY <1>0, <2>1, ReceiptKept, TasksKept, RunGoesOn DEF testVars, TestInv
  <2>3. openNext => TestedAs(Sha, HeadTree, tree)'
    <3>1. openNext => TestedAs(Sha, HeadTree, tree)
      BY <1>4, Verified DEF completeBranchWork, TestInv
    <3>2. UNCHANGED <<Sha, HeadTree>>
      BY <2>1, PlaceStays
    <3>3. UNCHANGED evidence
      BY <2>1 DEF testVars
    <3>. QED BY <2>1, <3>1, <3>2, <3>3 DEF TestedAs, Passed
  <2>4. tree \in Trees /\ Changed(HeadTree, tree)' \subseteq allowed
    <3>1. tree \in Trees /\ Changed(HeadTree, tree) \subseteq allowed
      BY <1>0, <1>4 DEF completeBranchWork, SideType
    <3>2. UNCHANGED HeadTree
      BY <2>1, PlaceStays
    <3>. QED BY <2>1, <3>1, <3>2 DEF Changed
  <2>5. PICK j : /\ job' = <<j>> /\ j.step = "stage" /\ j.openNext = openNext /\ j.checked = tree /\ j.allowed = allowed
    BY <2>1 DEF CheckedJob
  <2>6. JobSound(j)'
    BY <2>1, <2>3, <2>4, <2>5 DEF JobSound, Changed, TestedAs, Passed
  <2>7. JobSound(job[1])'
    BY <2>5, <2>6 DEF JobSound
  <2>. QED BY <2>2, <2>7 DEF TestInv
<1>7. CASE StageTask
  <2>1. /\ UNCHANGED <<testVars, spot, sides, tree>> /\ job # <<>> /\ job[1].step = "stage"
        /\ index' = <<Staged(job[1].allowed)>>
        /\ job' = <<[job[1] EXCEPT !.step = "commit", !.moved = (tree # job[1].checked)]>>
    BY <1>7 DEF StageTask
  <2>2. ReceiptSound' /\ Tested' /\ (suiteRun # <<>> => RunSound(suiteRun[1]))'
    BY <1>0, <2>1, ReceiptKept, TasksKept, RunGoesOn DEF testVars, TestInv
  <2>3. PICK j : j = job[1]
    OBVIOUS
  <2>4. JobShape(j) /\ JobSound(j) /\ spot # 0
    BY <1>0, <2>1, <2>3 DEF TestInv
  <2>5. PICK moved : moved = (tree # j.checked)
    OBVIOUS
  <2>6. PICK k : k = StagedJob(j, moved)
    OBVIOUS
  <2>7. k.step = "commit" /\ k.moved = moved /\ k.openNext = j.openNext /\ k.checked = j.checked
    BY <2>4, <2>6, JobSteps
  <2>8. job' = <<k>>
    BY <2>1, <2>3, <2>5, <2>6 DEF StagedJob
  <2>9. j.openNext => TestedAs(Sha, HeadTree, j.checked)'
    <3>1. j.openNext => TestedAs(Sha, HeadTree, j.checked)
      BY <2>1, <2>3, <2>4 DEF JobSound
    <3>2. UNCHANGED <<Sha, HeadTree>>
      BY <2>1, <2>4, PlaceStays
    <3>3. UNCHANGED evidence
      BY <2>1 DEF testVars
    <3>. QED BY <3>1, <3>2, <3>3 DEF TestedAs, Passed
  <2>10. tree = j.checked => index'[1] = j.checked
    <3>1. Changed(HeadTree, j.checked) \subseteq j.allowed /\ j.checked \in Trees /\ HeadTree \in Trees
      BY <1>0, <2>1, <2>3, <2>4, TreeFacts DEF JobSound, SideType
    <3>2. \A g \in Groups : g \notin j.allowed => HeadTree[g] = j.checked[g]
      BY <3>1 DEF Changed
    <3>3. [g \in Groups |-> IF g \in j.allowed THEN j.checked[g] ELSE HeadTree[g]] = j.checked
      BY <3>1, <3>2 DEF Trees
    <3>. QED BY <2>1, <2>3, <3>3 DEF Staged
  <2>11. JobSound(k)'
    BY <2>5, <2>7, <2>9, <2>10 DEF JobSound
  <2>12. JobSound(job[1])'
    BY <2>8, <2>11 DEF JobSound
  <2>. QED BY <2>2, <2>12 DEF TestInv
<1>5. CASE CommitTask
  <2>1. UNCHANGED <<receipt, suiteRun, evidence, spot>> /\ job'= <<[job[1] EXCEPT !.step = "open"]>> /\ job # <<>> /\ job[1].step = "commit"
    BY <1>5 DEF CommitTask
  <2>2. PICK j : j = job[1]
    OBVIOUS
  <2>3. JobShape(j) /\ JobSound(j) /\ j.step = "commit"
    BY <1>0, <2>1, <2>2 DEF TestInv
  <2>4. ReceiptSound' /\ (suiteRun # <<>> => RunSound(suiteRun[1]))'
    <3>1. spot # 0 /\ spot \in 1..Len(sides) /\ Tip(spot) \in Nat /\ index[1] \in Trees
      BY <1>0, <2>1, TipType DEF SideType, Working
    <3>2. Tip(spot)' = NextCommit
      BY <1>0, <1>5, <2>1, <3>1, SideCommitted DEF CommitTask, SideInv, Working
    <3>. QED BY <1>0, <2>1, <3>2, ReceiptKept, RunGoesOn DEF TestInv, NextCommit
  <2>5. PICK k : k = [j EXCEPT !.step = "open"]
    OBVIOUS
  <2>6. JobSound(job[1])'
    <3>1. job' = <<k>>
      BY <2>1, <2>2, <2>5
    <3>2. k.step = "open"
      BY <2>3, <2>5, JobOpens
    <3>. QED BY <3>1, <3>2 DEF JobSound
  <2>7. Tested'
    <3>. DEFINE new == [head |-> Sha, from |-> HeadTree, checked |-> j.checked, to |-> index[1], moved |-> j.moved]
    <3>1. tasks' = IF j.openNext THEN tasks \cup {new} ELSE tasks
      BY <1>5, <2>2 DEF CommitTask
    <3>2. new.head = Sha /\ new.from = HeadTree /\ new.checked = j.checked /\ new.to = index[1] /\ new.moved = j.moved
      OBVIOUS
    <3>. HIDE DEF new
    <3>3. j.openNext => TestedAs(new.head, new.from, new.checked)
      BY <2>3, <3>2 DEF JobSound
    <3>4. new.to = new.checked \/ new.moved
      BY <2>3, <3>2 DEF JobSound
    <3>5. \A task \in tasks' : TestedAs(task.head, task.from, task.checked) /\ (task.to = task.checked \/ task.moved)
      BY <3>1, <3>3, <3>4 DEF TestInv, Tested
    <3>6. \A task \in tasks' : TestedAs(task.head, task.from, task.checked)'
      BY <2>1, <3>5, TestedKept
    <3>. QED BY <3>5, <3>6 DEF Tested
  <2>. QED BY <2>4, <2>6, <2>7 DEF TestInv
<1>. QED BY <1>1, <1>2, <1>3, <1>4, <1>5, <1>6, <1>7 DEF BranchStep

LEMMA TestByRelease == ASSUME SideInv, TestInv, ReleaseStep PROVE TestInv'
<1>1. UNCHANGED testVars /\ SideType
  BY DEF ReleaseStep, pushBranch, Pull, releaseOpen, TransferLogs, releaseCommit, pushMain, RivalRelease, Confirm, SideInv
<1>4. suiteRun # <<>> => spot # 0 /\ UNCHANGED <<spot, sides, tree>>
  <2>1. suiteRun # <<>> => spot # 0
    BY DEF TestInv, RunSound
  <2>. QED BY <2>1 DEF ReleaseStep, pushBranch, Pull, releaseOpen, TransferLogs, releaseCommit, pushMain, RivalRelease, Confirm, sideVars
<1>5. (suiteRun # <<>> => RunSound(suiteRun[1]))'
  BY <1>1, <1>4, RunGoesOn DEF testVars
<1>2. CASE job = <<>>
  <2>1. job' = <<>>
    BY <1>2 DEF ReleaseStep, pushBranch, Pull, releaseOpen, TransferLogs, releaseCommit, pushMain, RivalRelease, Confirm, sideVars
  <2>. QED BY <1>1, <1>5, <2>1, TestIdle DEF testVars
<1>3. CASE job # <<>>
  <2>1. UNCHANGED <<job, spot, sides, index>> /\ spot # 0
    BY <1>3 DEF ReleaseStep, pushBranch, Pull, releaseOpen, TransferLogs, releaseCommit, pushMain, RivalRelease, Confirm, sideVars, NoCommand, SideInv, Working
  <2>. QED BY <1>1, <1>5, <2>1, TestIdle DEF testVars
<1>. QED BY <1>2, <1>3

LEMMA TestNext == SideInv /\ TestInv /\ [WorkflowNext]_workflowVars => TestInv'
<1>. SUFFICES ASSUME SideInv, TestInv, [WorkflowNext]_workflowVars PROVE TestInv'
  OBVIOUS
<1>1. CASE UNCHANGED workflowVars
  <2>1. UNCHANGED <<testVars, job, spot, sides, tree, index>> /\ SideType /\ (job # <<>> => spot # 0)
    BY <1>1 DEF workflowVars, sideVars, mainVars, SideInv, Working
  <2>2. (suiteRun # <<>> => RunSound(suiteRun[1]))'
    BY <2>1, RunGoesOn DEF testVars
  <2>. QED BY <2>1, <2>2, TestIdle DEF testVars
<1>. QED BY <1>1, TestByRuns, TestByBranches, TestByRelease DEF WorkflowNext

-----------------------------------------------------------------------------
\* What is pushed of a branch, what the user confirmed and what is merged exists.
Mains == Seq([version : Nat, branch : Nat, tip : Nat])
ReleaseType ==
    /\ trunk \in Mains /\ trunk # <<>>
    /\ origin.main \in Mains /\ origin.main # <<>>
    /\ origin = [main |-> origin.main, sides |-> origin.sides]
    /\ DOMAIN origin.sides \subseteq 1..Len(sides)
    /\ \A b \in DOMAIN origin.sides : origin.sides[b] \in Nat /\ origin.sides[b] <= Tip(b)
    /\ stems \in Seq(Mains) /\ Len(stems) = Len(sides)
Agreed(c) == c.branch \in DOMAIN origin.sides /\ c.tip \in Nat \ {0} /\ c.version \in Nat
Merging(m) ==
    /\ confirmed # <<>> /\ confirmed[1].version > trunk[Len(trunk)].version
    /\ m.branch \in DOMAIN origin.sides /\ m.tip \in 1..origin.sides[m.branch] /\ stems[m.branch] = trunk
ReleaseInv ==
    /\ ReleaseType
    /\ InOrder(trunk) /\ InOrder(origin.main)
    /\ confirmed # <<>> => Agreed(confirmed[1])
    /\ merging # <<>> => Merging(merging[1])

LEMMA ReleaseInit == WorkflowInit => ReleaseInv
<1>. SUFFICES ASSUME WorkflowInit PROVE ReleaseInv
  OBVIOUS
<1>1. story.main \in Nat
  BY WorkflowScenesAssumption DEF WorkflowInit
<1>2. trunk = <<[version |-> story.main, branch |-> 0, tip |-> 0]>> /\ origin = [main |-> trunk, sides |-> <<>>]
  BY DEF WorkflowInit, FirstMain
<1>3. ReleaseType
  BY <1>1, <1>2 DEF ReleaseType, WorkflowInit, Mains
<1>4. InOrder(trunk)
  BY <1>1, <1>2 DEF InOrder
<1>. QED BY <1>2, <1>3, <1>4 DEF ReleaseInv, WorkflowInit

\* Order depends on what is pushed of the branches, and on where they came from.
LEMMA OrderKept ==
  ASSUME ReleaseType, NEW main \in Mains, InOrder(main),
         DOMAIN origin.sides \subseteq DOMAIN origin'.sides,
         \A b \in DOMAIN origin.sides : origin.sides[b] <= origin'.sides[b] /\ origin'.sides[b] \in Nat /\ origin'.sides[b] <= Tip(b)' /\ stems'[b] = stems[b]
  PROVE InOrder(main)'
<1>. SUFFICES ASSUME NEW i \in 1..Len(main)
              PROVE /\ i > 1 => main[i].version > main[i - 1].version
                    /\ main[i].branch # 0 =>
                         /\ main[i].branch \in DOMAIN origin'.sides
                         /\ main[i].tip \in 1..origin'.sides[main[i].branch] /\ origin'.sides[main[i].branch] <= Tip(main[i].branch)'
                         /\ Len(stems'[main[i].branch]) = i - 1 /\ FastForward(stems'[main[i].branch], main)
  BY DEF InOrder, FastForward
<1>1. i > 1 => main[i].version > main[i - 1].version
  BY DEF InOrder
<1>2. ASSUME main[i].branch # 0
      PROVE /\ main[i].branch \in DOMAIN origin'.sides
            /\ main[i].tip \in 1..origin'.sides[main[i].branch] /\ origin'.sides[main[i].branch] <= Tip(main[i].branch)'
            /\ Len(stems'[main[i].branch]) = i - 1 /\ FastForward(stems'[main[i].branch], main)
  <2>. DEFINE b == main[i].branch
  <2>1. /\ b \in DOMAIN origin.sides /\ main[i].tip \in 1..origin.sides[b]
        /\ Len(stems[b]) = i - 1 /\ FastForward(stems[b], main)
    BY <1>2 DEF InOrder
  <2>2. origin.sides[b] <= origin'.sides[b] /\ origin'.sides[b] \in Nat /\ origin.sides[b] \in Nat /\ origin'.sides[b] <= Tip(b)' /\ stems'[b] = stems[b]
    BY <2>1 DEF ReleaseType
  <2>. HIDE DEF b
  <2>3. b \in DOMAIN origin'.sides
    BY <2>1
  <2>4. main[i].tip \in 1..origin'.sides[b]
    <3>1. ASSUME NEW old \in Nat, NEW new \in Nat, old <= new PROVE 1..old \subseteq 1..new
      BY <3>1
    <3>2. origin.sides[b] <= origin'.sides[b] /\ origin'.sides[b] \in Nat /\ origin.sides[b] \in Nat
      BY <2>2
    <3>3. 1..origin.sides[b] \subseteq 1..origin'.sides[b]
      BY <3>1, <3>2
    <3>. QED BY <3>3, <2>1
  <2>. QED BY <2>1, <2>2, <2>3, <2>4 DEF b
<1>. QED BY <1>1, <1>2

LEMMA Appending ==
  ASSUME NEW S, NEW q \in Seq(S), NEW x \in S
  PROVE /\ Append(q, x) \in Seq(S) /\ Len(Append(q, x)) = Len(q) + 1 /\ Append(q, x)[Len(q) + 1] = x
        /\ \A n \in 1..Len(q) : Append(q, x)[n] = q[n]
OBVIOUS

\* Commits may be added, and branches started.
Growth ==
    /\ sides' \in Seq(Seq(CommitRecords)) /\ Len(sides) <= Len(sides')
    /\ stems' \in Seq(Mains) /\ Len(stems') = Len(sides')
    /\ \A b \in 1..Len(sides) : Tip(b) <= Tip(b)' /\ Tip(b)' \in Nat /\ stems'[b] = stems[b]

LEMMA ReleaseKept ==
  ASSUME ReleaseInv, SideType, UNCHANGED mainVars, Growth
  PROVE ReleaseInv'
<1>. USE DEF ReleaseInv
<1>1. UNCHANGED <<trunk, origin, confirmed, merging>>
  BY DEF mainVars
<1>2. ASSUME NEW b \in DOMAIN origin.sides
      PROVE b \in 1..Len(sides) /\ origin.sides[b] \in Nat /\ origin.sides[b] <= Tip(b)' /\ stems'[b] = stems[b]
  <2>1. b \in 1..Len(sides) /\ origin.sides[b] \in Nat /\ origin.sides[b] <= Tip(b)
    BY DEF ReleaseType
  <2>2. Tip(b) <= Tip(b)' /\ Tip(b)' \in Nat /\ Tip(b) \in Nat /\ stems'[b] = stems[b]
    BY <2>1, TipType DEF Growth
  <2>. QED BY <2>1, <2>2
<1>3. ReleaseType'
  <2>1. Len(sides) \in Nat /\ Len(sides') \in Nat
    BY DEF SideType, Growth
  <2>2. 1..Len(sides) \subseteq 1..Len(sides')
    BY <2>1 DEF Growth
  <2>3. DOMAIN origin'.sides \subseteq 1..Len(sides')
    BY <2>2, <1>1 DEF ReleaseType
  <2>4. \A b \in DOMAIN origin'.sides : origin'.sides[b] \in Nat /\ origin'.sides[b] <= Tip(b)'
    BY <1>1, <1>2
  <2>. QED BY <2>3, <2>4, <1>1 DEF ReleaseType, Growth
<1>5. InOrder(trunk)' /\ InOrder(origin.main)'
  <2>1. \A b \in DOMAIN origin.sides : origin.sides[b] <= origin'.sides[b] /\ origin'.sides[b] \in Nat /\ origin'.sides[b] <= Tip(b)' /\ stems'[b] = stems[b]
    <3>1. origin' = origin
      BY <1>1
    <3>2. \A b \in DOMAIN origin.sides : origin.sides[b] <= origin.sides[b]
      BY <1>2
    <3>. QED BY <3>1, <3>2, <1>2
  <2>2. DOMAIN origin.sides \subseteq DOMAIN origin'.sides
    BY <1>1
  <2>3. ASSUME NEW main \in Mains, InOrder(main) PROVE InOrder(main)'
    BY <2>1, <2>2, <2>3, OrderKept
  <2>4. PICK old, pushed : old = trunk /\ pushed = origin.main
    OBVIOUS
  <2>5. InOrder(old)' /\ InOrder(pushed)'
    BY <2>3, <2>4 DEF ReleaseType
  <2>6. old = trunk' /\ pushed = origin'.main
    BY <2>4, <1>1
  <2>. QED BY <2>5, <2>6 DEF InOrder
<1>6. (confirmed # <<>> => Agreed(confirmed[1]))'
  BY <1>1 DEF Agreed
<1>7. (merging # <<>> => Merging(merging[1]))'
  <2>. SUFFICES ASSUME merging # <<>> PROVE Merging(merging[1])'
    BY <1>1
  <2>1. Merging(merging[1])
    OBVIOUS
  <2>2. stems'[merging[1].branch] = stems[merging[1].branch]
    BY <2>1, <1>2 DEF Merging
  <2>. QED BY <2>1, <2>2, <1>1 DEF Merging
<1>. QED BY <1>3, <1>5, <1>6, <1>7

LEMMA SidesKept == ASSUME SideType, ReleaseType, UNCHANGED <<sides, stems>> PROVE Growth
<1>1. ASSUME NEW b \in 1..Len(sides) PROVE Tip(b) <= Tip(b)' /\ Tip(b)' \in Nat
  BY TipType DEF Tip
<1>2. sides \in Seq(Seq(CommitRecords)) /\ Len(sides) \in Nat
  BY DEF SideType
<1>. QED BY <1>1, <1>2 DEF Growth, ReleaseType

LEMMA SidesStarted == ASSUME SideType, ReleaseType, SideType', branchStart PROVE Growth
<1>1. PICK commits : sides' = Append(sides, commits) /\ stems' = Append(stems, trunk)
  BY DEF branchStart
<1>2. Len(sides') = Len(sides) + 1 /\ (\A b \in 1..Len(sides) : sides'[b] = sides[b]) /\ Len(sides) \in Nat
  BY <1>1 DEF SideType
<1>3. trunk \in Mains /\ stems \in Seq(Mains) /\ Len(stems) = Len(sides)
  BY DEF ReleaseType
<1>4. stems' \in Seq(Mains) /\ Len(stems') = Len(stems) + 1 /\ \A b \in 1..Len(stems) : stems'[b] = stems[b]
  BY <1>1, <1>3, Appending
<1>5. ASSUME NEW b \in 1..Len(sides) PROVE Tip(b) <= Tip(b)' /\ Tip(b)' \in Nat
  BY <1>2, TipType DEF Tip
<1>. QED BY <1>2, <1>3, <1>4, <1>5 DEF Growth, SideType

LEMMA SidesCommitted ==
  ASSUME SideType, SideType', ReleaseType, NEW files, sides' = [sides EXCEPT ![spot] = Record(files)], UNCHANGED stems, spot # 0
  PROVE Growth
<1>1. spot \in 1..Len(sides) /\ sides \in Seq(Seq(CommitRecords)) /\ sides' \in Seq(Seq(CommitRecords)) /\ Len(sides') = Len(sides) /\ Len(sides) \in Nat
  BY DEF SideType
<1>2. ASSUME NEW b \in 1..Len(sides) PROVE Tip(b) <= Tip(b)' /\ Tip(b)' \in Nat
  <2>1. sides[b] \in Seq(CommitRecords) /\ sides'[b] \in Seq(CommitRecords) /\ Tip(b) \in Nat
    BY <1>1, TipType
  <2>2. CASE b = spot
    <3>1. sides'[b] = Record(files)
      BY <2>2, <1>1
    <3>2. PICK c : sides'[b] = Append(sides[b], c)
      BY <3>1, <2>2 DEF Record
    <3>3. Len(sides'[b]) = Len(sides[b]) + 1
      BY <3>2, <2>1
    <3>. QED BY <3>3, <2>1 DEF Tip
  <2>3. CASE b # spot
    <3>1. sides'[b] = sides[b]
      BY <2>3, <1>1
    <3>. QED BY <3>1, <2>1 DEF Tip
  <2>. QED BY <2>2, <2>3
<1>. QED BY <1>1, <1>2 DEF Growth, ReleaseType

LEMMA ReleaseByBranches == ASSUME SideInv, SideInv', ReleaseInv, BranchStep PROVE ReleaseInv'
<1>1. SideType /\ SideType' /\ ReleaseType
  BY DEF SideInv, ReleaseInv
<1>2. CASE branchStart
  BY <1>1, <1>2, SidesStarted, ReleaseKept DEF branchStart
<1>3. CASE CommitTask
  BY <1>1, <1>3, SidesCommitted, ReleaseKept DEF CommitTask, SideInv, Working
<1>4. CASE \E allowed : branchCommit(allowed)
  <2>1. PICK allowed : branchCommit(allowed)
    BY <1>4
  <2>2. UNCHANGED <<mainVars, stems>> /\ spot # 0
    BY <2>1 DEF branchCommit, NumberedBranch
  <2>3. UNCHANGED sides \/ \E files : sides' = [sides EXCEPT ![spot] = Record(files)]
    BY <2>1 DEF branchCommit
  <2>. QED BY <1>1, <2>2, <2>3, SidesCommitted, SidesKept, ReleaseKept
<1>5. CASE \/ workStart \/ branchFinalize \/ branchReopen \/ Unstage \/ StageTask \/ Restore \/ OpenNext
           \/ (\E g, value : EditFile(g, value)) \/ (\E b : Switch(b)) \/ \E openNext, allowed : completeBranchWork(openNext, allowed)
  <2>1. UNCHANGED <<mainVars, sides, stems>>
    BY <1>5 DEF workStart, branchFinalize, branchReopen, Unstage, StageTask, Restore, OpenNext, EditFile, Switch, completeBranchWork
  <2>. QED BY <1>1, <2>1, SidesKept, ReleaseKept
<1>. QED BY <1>2, <1>3, <1>4, <1>5 DEF BranchStep

\* Steps that leave the branches, what is pushed of them and main alone.
LEMMA OrderStays ==
  ASSUME SideType, ReleaseType, NEW main \in Mains, InOrder(main), UNCHANGED <<sides, stems, origin.sides>>
  PROVE InOrder(main)'
<1>1. \A b \in DOMAIN origin.sides : b \in 1..Len(sides) /\ origin.sides[b] \in Nat /\ origin.sides[b] <= Tip(b) /\ Tip(b)' = Tip(b)
  BY DEF ReleaseType, Tip
<1>2. \A b \in DOMAIN origin.sides : origin.sides[b] <= origin'.sides[b] /\ origin'.sides[b] \in Nat /\ origin'.sides[b] <= Tip(b)' /\ stems'[b] = stems[b]
  BY <1>1
<1>. QED BY <1>2, OrderKept

LEMMA ReleasePushBranch == ASSUME SideInv, ReleaseInv, pushBranch PROVE ReleaseInv'
<1>. USE DEF ReleaseInv
<1>0. SideType /\ ReleaseType /\ UNCHANGED <<spot, sides, stems, trunk, confirmed, merging>> /\ merging = <<>> /\ spot \in 1..Len(sides)
  BY DEF SideInv, SideType, pushBranch, sideVars, NumberedBranch
<1>. DEFINE pushed == [b \in DOMAIN sides |-> IF b = spot THEN Tip(b) ELSE IF b \in DOMAIN origin.sides THEN origin.sides[b] ELSE 0]
<1>1. origin' = [main |-> origin.main, sides |-> pushed]
  <2>1. PICK m, p : origin = [main |-> m, sides |-> p] /\ m = origin.main
    BY <1>0 DEF ReleaseType
  <2>2. origin' = [origin EXCEPT !.sides = pushed]
    BY DEF pushBranch
  <2>. HIDE DEF pushed
  <2>. QED BY <2>1, <2>2
<1>2. DOMAIN pushed = 1..Len(sides) /\ DOMAIN sides = 1..Len(sides)
  BY <1>0 DEF SideType
<1>3. ASSUME NEW b \in 1..Len(sides) PROVE pushed[b] \in Nat /\ pushed[b] <= Tip(b) /\ Tip(b)' = Tip(b) /\ (b \in DOMAIN origin.sides => origin.sides[b] <= pushed[b])
  <2>1. Tip(b) \in Nat /\ Tip(b)' = Tip(b)
    BY <1>0, TipType DEF Tip
  <2>2. b \in DOMAIN origin.sides => origin.sides[b] \in Nat /\ origin.sides[b] <= Tip(b)
    BY <1>0 DEF ReleaseType
  <2>3. pushed[b] = IF b = spot THEN Tip(b) ELSE IF b \in DOMAIN origin.sides THEN origin.sides[b] ELSE 0
    BY <1>2
  <2>. HIDE DEF pushed
  <2>. QED BY <2>1, <2>2, <2>3
<1>. HIDE DEF pushed
<1>4. DOMAIN origin.sides \subseteq DOMAIN origin'.sides /\ origin'.sides = pushed /\ origin'.main = origin.main
  BY <1>0, <1>1, <1>2 DEF ReleaseType
<1>5. ReleaseType'
  BY <1>0, <1>1, <1>2, <1>3, <1>4 DEF ReleaseType
<1>6. \A b \in DOMAIN origin.sides : origin.sides[b] <= origin'.sides[b] /\ origin'.sides[b] \in Nat /\ origin'.sides[b] <= Tip(b)' /\ stems'[b] = stems[b]
  <2>. SUFFICES ASSUME NEW b \in DOMAIN origin.sides
                PROVE origin.sides[b] <= origin'.sides[b] /\ origin'.sides[b] \in Nat /\ origin'.sides[b] <= Tip(b)' /\ stems'[b] = stems[b]
    OBVIOUS
  <2>1. b \in 1..Len(sides)
    BY <1>0 DEF ReleaseType
  <2>2. pushed[b] \in Nat /\ pushed[b] <= Tip(b)' /\ origin.sides[b] <= pushed[b]
    BY <2>1, <1>3
  <2>. QED BY <2>2, <1>0, <1>4
<1>7. ASSUME NEW main \in Mains, InOrder(main) PROVE InOrder(main)'
  BY <1>4, <1>6, <1>7, OrderKept
<1>8. InOrder(trunk)' /\ InOrder(origin.main)'
  <2>1. PICK old, new : old = trunk /\ new = origin.main
    OBVIOUS
  <2>2. InOrder(old)' /\ InOrder(new)'
    BY <2>1, <1>7 DEF ReleaseType
  <2>. QED BY <2>1, <2>2, <1>0, <1>4 DEF InOrder
<1>9. (confirmed # <<>> => Agreed(confirmed[1]))'
  BY <1>0, <1>4 DEF Agreed
<1>. QED BY <1>0, <1>5, <1>8, <1>9

\* A release with a higher version that merges a pushed branch of this very main keeps the order.
LEMMA Growing ==
  ASSUME NEW m \in Mains, m # <<>>, InOrder(m), NEW r \in [version : Nat, branch : Nat, tip : Nat],
         r.version > m[Len(m)].version,
         r.branch # 0 => /\ r.branch \in DOMAIN origin.sides /\ r.tip \in 1..origin.sides[r.branch]
                         /\ origin.sides[r.branch] <= Tip(r.branch) /\ stems[r.branch] = m
  PROVE Append(m, r) \in Mains /\ Append(m, r) # <<>> /\ InOrder(Append(m, r))
<1>1. m \in Seq([version : Nat, branch : Nat, tip : Nat])
  BY DEF Mains
<1>2. Len(m) \in Nat /\ Len(m) > 0
  BY <1>1
<1>3. PICK new : new = Append(m, r)
  OBVIOUS
<1>4. new \in Mains /\ Len(new) = Len(m) + 1 /\ new[Len(m) + 1] = r /\ \A i \in 1..Len(m) : new[i] = m[i]
  BY <1>1, <1>3, Appending DEF Mains
<1>5. new # <<>>
  <2>1. Len(<<>>) = 0
    OBVIOUS
  <2>2. Len(new) > 0
    BY <1>2, <1>4
  <2>. QED BY <2>1, <2>2
<1>6. ASSUME NEW old, FastForward(old, m), Len(old) \in Nat PROVE FastForward(old, new)
  BY <1>2, <1>4, <1>6 DEF FastForward
<1>7. ASSUME NEW i \in 1..Len(new)
      PROVE /\ i > 1 => new[i].version > new[i - 1].version
            /\ new[i].branch # 0 =>
                 /\ new[i].branch \in DOMAIN origin.sides
                 /\ new[i].tip \in 1..origin.sides[new[i].branch] /\ origin.sides[new[i].branch] <= Tip(new[i].branch)
                 /\ Len(stems[new[i].branch]) = i - 1 /\ FastForward(stems[new[i].branch], new)
  <2>1. CASE i = Len(m) + 1
    <3>1. new[i] = r /\ (i > 1 => new[i - 1] = m[Len(m)]) /\ Len(m) = i - 1
      BY <2>1, <1>2, <1>4
    <3>2. FastForward(m, m)
      BY <1>2 DEF FastForward
    <3>3. FastForward(m, new)
      BY <3>2, <1>2, <1>6
    <3>. QED BY <3>1, <3>3
  <2>2. CASE i # Len(m) + 1
    <3>1. i \in 1..Len(m) /\ new[i] = m[i] /\ (i > 1 => new[i - 1] = m[i - 1])
      BY <2>2, <1>2, <1>4
    <3>2. i > 1 => m[i].version > m[i - 1].version
      BY <3>1 DEF InOrder
    <3>3. ASSUME m[i].branch # 0
          PROVE /\ m[i].branch \in DOMAIN origin.sides
                /\ m[i].tip \in 1..origin.sides[m[i].branch] /\ origin.sides[m[i].branch] <= Tip(m[i].branch)
                /\ Len(stems[m[i].branch]) = i - 1 /\ FastForward(stems[m[i].branch], m)
      BY <3>1, <3>3 DEF InOrder
    <3>4. i - 1 \in Nat
      BY <3>1
    <3>5. m[i].branch # 0 => FastForward(stems[m[i].branch], new)
      BY <3>3, <3>4, <1>6
    <3>. QED BY <3>1, <3>2, <3>3, <3>5
  <2>. QED BY <2>1, <2>2
<1>8. InOrder(new)
  BY <1>7 DEF InOrder
<1>. QED BY <1>3, <1>4, <1>5, <1>8

LEMMA LastElement == ASSUME NEW S, NEW q \in Seq(S), q # <<>> PROVE q[Len(q)] \in S
<1>1. Len(q) \in 1..Len(q)
  OBVIOUS
<1>. QED BY <1>1

LEMMA LastVersion == ASSUME NEW m \in Mains, m # <<>> PROVE m[Len(m)].version \in Nat
<1>1. m[Len(m)] \in [version : Nat, branch : Nat, tip : Nat]
  BY LastElement DEF Mains
<1>. QED BY <1>1

LEMMA ReleaseOnMain ==
  ASSUME SideInv, ReleaseInv, Pull \/ pushMain \/ TransferLogs \/ RivalRelease \/ (\E b \in DOMAIN sides, v \in Nat : Confirm(b, v))
  PROVE ReleaseInv'
<1>. USE DEF ReleaseInv
<1>0. SideType /\ ReleaseType /\ UNCHANGED <<sides, stems>>
  BY DEF SideInv, Pull, pushMain, TransferLogs, RivalRelease, Confirm, sideVars
<1>1. PICK m, p : origin = [main |-> m, sides |-> p] /\ m = origin.main /\ p = origin.sides
  BY <1>0 DEF ReleaseType
<1>2. ASSUME Pull PROVE ReleaseInv'
  <2>1. trunk' = origin.main /\ UNCHANGED <<origin, confirmed, merging>> /\ merging = <<>>
    BY <1>2 DEF Pull, assertClean
  <2>2. ReleaseType'
    BY <1>0, <2>1 DEF ReleaseType, Tip
  <2>3. InOrder(m)'
    BY <1>0, <1>1, <2>1, OrderStays DEF ReleaseType
  <2>4. InOrder(trunk)' /\ InOrder(origin.main)'
    BY <2>1, <2>3, <1>1 DEF InOrder
  <2>. QED BY <2>1, <2>2, <2>4 DEF Agreed
<1>3. ASSUME pushMain PROVE ReleaseInv'
  <2>1. origin' = [main |-> trunk, sides |-> origin.sides] /\ UNCHANGED <<trunk, confirmed, merging>>
    <3>1. origin' = [origin EXCEPT !.main = trunk] /\ UNCHANGED <<trunk, confirmed, merging>>
      BY <1>3 DEF pushMain
    <3>. QED BY <3>1, <1>1
  <2>2. ReleaseType'
    BY <1>0, <2>1 DEF ReleaseType, Tip
  <2>3. PICK t : t = trunk
    OBVIOUS
  <2>4. InOrder(t)'
    BY <1>0, <2>1, <2>3, OrderStays DEF ReleaseType
  <2>5. InOrder(trunk)' /\ InOrder(origin.main)'
    BY <2>1, <2>3, <2>4 DEF InOrder
  <2>6. UNCHANGED origin.sides
    BY <2>1
  <2>. QED BY <1>0, <2>1, <2>2, <2>5, <2>6 DEF Agreed, Merging
<1>4. ASSUME TransferLogs PROVE ReleaseInv'
  <2>1. UNCHANGED <<trunk, origin, confirmed, merging>>
    BY <1>4 DEF TransferLogs
  <2>2. ReleaseType'
    BY <1>0, <2>1 DEF ReleaseType, Tip
  <2>3. PICK t : t = trunk
    OBVIOUS
  <2>4. InOrder(t)' /\ InOrder(m)'
    BY <1>0, <1>1, <2>1, <2>3, OrderStays DEF ReleaseType
  <2>5. InOrder(trunk)' /\ InOrder(origin.main)'
    BY <1>1, <2>1, <2>3, <2>4 DEF InOrder
  <2>. QED BY <1>0, <2>1, <2>2, <2>5 DEF Agreed, Merging
<1>5. ASSUME RivalRelease PROVE ReleaseInv'
  <2>. DEFINE rival == [version |-> m[Len(m)].version + 1, branch |-> 0, tip |-> 0]
  <2>1. origin' = [main |-> Append(m, rival), sides |-> p] /\ UNCHANGED <<trunk, confirmed, merging>>
    <3>1. origin' = [origin EXCEPT !.main = Append(m, rival)] /\ UNCHANGED <<trunk, confirmed, merging>>
      BY <1>1, <1>5 DEF RivalRelease
    <3>. HIDE DEF rival
    <3>. QED BY <3>1, <1>1
  <2>2. m \in Mains /\ m # <<>> /\ InOrder(m)
    BY <1>0, <1>1 DEF ReleaseType
  <2>3. m[Len(m)].version \in Nat
    BY <2>2, LastVersion
  <2>4. rival \in [version : Nat, branch : Nat, tip : Nat] /\ rival.version > m[Len(m)].version /\ rival.branch = 0
    BY <2>3
  <2>. HIDE DEF rival
  <2>5. PICK new : new = Append(m, rival)
    OBVIOUS
  <2>6. new \in Mains /\ new # <<>> /\ InOrder(new)
    BY <2>2, <2>4, <2>5, Growing
  <2>7. origin' = [main |-> new, sides |-> p] /\ origin'.sides = origin.sides /\ origin'.main = new
    BY <2>1, <2>5, <1>1
  <2>8. ReleaseType'
    BY <1>0, <2>1, <2>6, <2>7, <1>1 DEF ReleaseType, Tip
  <2>9. PICK t : t = trunk
    OBVIOUS
  <2>10. InOrder(t)' /\ InOrder(new)'
    BY <1>0, <2>6, <2>7, <2>9, OrderStays DEF ReleaseType
  <2>11. InOrder(trunk)' /\ InOrder(origin.main)'
    BY <2>1, <2>7, <2>9, <2>10 DEF InOrder
  <2>. QED BY <1>0, <2>1, <2>7, <2>8, <2>11 DEF Agreed, Merging
<1>6. ASSUME NEW b \in DOMAIN sides, NEW v \in Nat, Confirm(b, v) PROVE ReleaseInv'
  <2>1. UNCHANGED <<trunk, origin, merging>> /\ merging = <<>>
    BY <1>6 DEF Confirm
  <2>2. confirmed' = <<[branch |-> b, tip |-> origin.sides[b], main |-> trunk, version |-> v]>> /\ b \in DOMAIN origin.sides /\ origin.sides[b] > 0
    BY <1>6 DEF Confirm
  <2>3. Agreed(confirmed[1])'
    BY <2>1, <2>2, <1>0 DEF Agreed, ReleaseType
  <2>4. ReleaseType'
    BY <1>0, <2>1 DEF ReleaseType, Tip
  <2>5. PICK t : t = trunk
    OBVIOUS
  <2>6. InOrder(t)' /\ InOrder(m)'
    BY <1>0, <1>1, <2>1, <2>5, OrderStays DEF ReleaseType
  <2>7. InOrder(trunk)' /\ InOrder(origin.main)'
    BY <1>1, <2>1, <2>5, <2>6 DEF InOrder
  <2>. QED BY <2>1, <2>3, <2>4, <2>7
<1>. QED BY <1>2, <1>3, <1>4, <1>5, <1>6

\* The merge is of the tip that was pushed, and of a branch that came from the main it is merged into.
LEMMA ReleaseOpened == ASSUME SideInv, ReleaseInv, releaseOpen PROVE ReleaseInv'
<1>. USE DEF ReleaseInv
<1>0. SideType /\ ReleaseType /\ UNCHANGED <<sides, stems, trunk, origin, confirmed>> /\ confirmed # <<>> /\ assertReleaseRefs(confirmed[1])
  BY DEF SideInv, releaseOpen
<1>1. PICK c : c = confirmed[1]
  OBVIOUS
<1>2. Agreed(c) /\ assertReleaseRefs(c)
  BY <1>0, <1>1
<1>3. ReleaseType'
  BY <1>0 DEF ReleaseType, Tip
<1>4. PICK t, m : t = trunk /\ m = origin.main
  OBVIOUS
<1>5. InOrder(t)' /\ InOrder(m)'
  BY <1>0, <1>4, OrderStays DEF ReleaseType
<1>6. InOrder(trunk)' /\ InOrder(origin.main)'
  BY <1>0, <1>4, <1>5 DEF InOrder
<1>7. Agreed(confirmed[1])'
  BY <1>0, <1>1, <1>2 DEF Agreed
<1>8. ASSUME merging' # <<>> PROVE Merging(merging[1])'
  <2>1. merging' = <<[branch |-> c.branch, tip |-> Tip(c.branch)]>> /\ stems[c.branch] = trunk
    BY <1>1, <1>8 DEF releaseOpen, Merges
  <2>2. PICK x : x = [branch |-> c.branch, tip |-> Tip(c.branch)]
    OBVIOUS
  <2>3. merging'[1] = x /\ x.branch = c.branch /\ x.tip = Tip(c.branch)
    BY <2>1, <2>2
  <2>4. Tip(c.branch) = c.tip /\ origin.sides[c.branch] = c.tip /\ trunk = c.main /\ c.version > c.main[Len(c.main)].version
    BY <1>2 DEF assertReleaseRefs
  <2>5. c.branch \in DOMAIN origin.sides /\ c.tip \in Nat \ {0}
    BY <1>2 DEF Agreed
  <2>6. c.tip \in 1..c.tip
    BY <2>5
  <2>7. x.tip \in 1..origin.sides[x.branch]
    BY <2>3, <2>4, <2>6
  <2>. QED BY <1>0, <1>1, <2>1, <2>3, <2>4, <2>5, <2>7 DEF Merging
<1>. QED BY <1>0, <1>3, <1>6, <1>7, <1>8

LEMMA ReleaseCommitted == ASSUME SideInv, ReleaseInv, releaseCommit PROVE ReleaseInv'
<1>. USE DEF ReleaseInv
<1>0. SideType /\ ReleaseType /\ UNCHANGED <<sides, stems, origin, confirmed>> /\ confirmed # <<>> /\ merging # <<>>
  BY DEF SideInv, releaseCommit
<1>1. PICK c : c = confirmed[1]
  OBVIOUS
<1>2. Agreed(c) /\ merging = <<[branch |-> c.branch, tip |-> c.tip]>> /\ trunk = c.main /\ Merging(merging[1])
  BY <1>0, <1>1 DEF releaseCommit
<1>3. PICK t, m : t = trunk /\ m = origin.main
  OBVIOUS
<1>4. CASE UNCHANGED <<trunk, merging>>
  <2>1. ReleaseType'
    BY <1>0, <1>4 DEF ReleaseType, Tip
  <2>2. InOrder(t)' /\ InOrder(m)'
    BY <1>0, <1>3, OrderStays DEF ReleaseType
  <2>3. InOrder(trunk)' /\ InOrder(origin.main)'
    BY <1>0, <1>3, <1>4, <2>2 DEF InOrder
  <2>. QED BY <1>0, <1>1, <1>2, <1>4, <2>1, <2>3 DEF Agreed, Merging
<1>5. CASE ~UNCHANGED <<trunk, merging>>
  <2>. DEFINE release == [version |-> c.version, branch |-> c.branch, tip |-> c.tip]
  <2>1. trunk' = Append(trunk, release) /\ merging' = <<>>
    BY <1>1, <1>5 DEF releaseCommit
  <2>2. /\ c.branch \in DOMAIN origin.sides /\ c.tip \in 1..origin.sides[c.branch]
        /\ stems[c.branch] = trunk /\ c.version > trunk[Len(trunk)].version /\ c.version \in Nat /\ c.tip \in Nat
    <3>1. PICK x : x = [branch |-> c.branch, tip |-> c.tip]
      OBVIOUS
    <3>2. merging[1] = x /\ x.branch = c.branch /\ x.tip = c.tip
      BY <1>2, <3>1
    <3>3. Merging(x)
      BY <1>2, <3>2
    <3>. QED BY <1>1, <1>2, <3>2, <3>3 DEF Merging, Agreed
  <2>3. c.branch \in 1..Len(sides) /\ origin.sides[c.branch] <= Tip(c.branch) /\ Len(sides) \in Nat
    BY <2>2, <1>0 DEF ReleaseType, SideType
  <2>4. /\ release \in [version : Nat, branch : Nat, tip : Nat]
        /\ release.version = c.version /\ release.branch = c.branch /\ release.tip = c.tip
    BY <2>2, <2>3
  <2>. HIDE DEF release
  <2>5. PICK new : new = Append(trunk, release)
    OBVIOUS
  <2>6. new \in Mains /\ new # <<>> /\ InOrder(new)
    <3>1. trunk \in Mains /\ trunk # <<>> /\ InOrder(trunk)
      BY <1>0 DEF ReleaseType
    <3>. QED BY <3>1, <2>2, <2>3, <2>4, <2>5, Growing
  <2>7. ReleaseType'
    BY <1>0, <2>1, <2>5, <2>6 DEF ReleaseType, Tip
  <2>8. InOrder(new)' /\ InOrder(m)'
    BY <1>0, <1>3, <2>6, OrderStays DEF ReleaseType
  <2>9. InOrder(trunk)' /\ InOrder(origin.main)'
    BY <1>0, <1>3, <2>1, <2>5, <2>8 DEF InOrder
  <2>10. Agreed(confirmed[1])'
    BY <1>0, <1>1, <1>2 DEF Agreed
  <2>. QED BY <2>1, <2>7, <2>9, <2>10
<1>. QED BY <1>4, <1>5

LEMMA ReleaseNext == SideInv /\ SideInv' /\ ReleaseInv /\ [WorkflowNext]_workflowVars => ReleaseInv'
<1>. SUFFICES ASSUME SideInv, SideInv', ReleaseInv, [WorkflowNext]_workflowVars PROVE ReleaseInv'
  OBVIOUS
<1>1. CASE UNCHANGED workflowVars \/ TestStep
  <2>1. UNCHANGED <<sides, stems, mainVars>>
    BY <1>1 DEF workflowVars, sideVars, TestStep, RunSuite, SuitePasses, SuiteFails, ProfileEnds
  <2>2. SideType /\ ReleaseType
    BY DEF SideInv, ReleaseInv
  <2>. QED BY <2>1, <2>2, SidesKept, ReleaseKept
<1>2. CASE BranchStep
  BY <1>2, ReleaseByBranches
<1>3. CASE ReleaseStep
  <2>1. ASSUME NEW b \in DOMAIN sides, NEW v \in 1..(trunk[Len(trunk)].version + 2), Confirm(b, v) PROVE ReleaseInv'
    <3>1. v \in Nat
      BY <2>1
    <3>. QED BY <3>1, <2>1, ReleaseOnMain
  <2>. QED BY <1>3, <2>1, ReleasePushBranch, ReleaseOnMain, ReleaseOpened, ReleaseCommitted DEF ReleaseStep
<1>. QED BY <1>1, <1>2, <1>3 DEF WorkflowNext

\* A side branch numbers its commits without a gap, next-task commits what was tested, and main takes what was
\* confirmed: whatever fails, is edited or is released meanwhile. As the property says, a browser profile counts
\* for the files its run started with, and files changed between next-task's check and its staging are committed
\* as they are then.
THEOREM WorkflowIsSound == WorkflowSpec => []WorkflowSound
<1>1. WorkflowInit => SideInv /\ TestInv /\ ReleaseInv
  BY SideInit, TestInit, ReleaseInit
<1>2. SideInv /\ TestInv /\ ReleaseInv /\ [WorkflowNext]_workflowVars => (SideInv /\ TestInv /\ ReleaseInv)'
  BY SideNext, TestNext, ReleaseNext
<1>3. SideInv /\ TestInv /\ ReleaseInv => WorkflowSound
  BY DEF WorkflowSound, SideInv, TestInv, ReleaseInv, ReleasesInOrder
<1>. QED BY <1>1, <1>2, <1>3, PTL DEF WorkflowSpec
=============================================================================
