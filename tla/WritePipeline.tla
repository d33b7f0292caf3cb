--------------------------- MODULE WritePipeline ---------------------------
(***************************************************************************)
(* One write from the browser to the database and back: the retained       *)
(* operationId (Frontend/JS/dataClient.js), the audited WebSocket handler  *)
(* (dataProvider.executeRequest), the serializable transaction with its    *)
(* idempotency row and its outbox row (postgresPlayService.execute,        *)
(* runtimeDatabase.withTransaction, opsRepository), the reload of the      *)
(* projection cache (postgresProjectionLoader) and the invalidation that   *)
(* the worker publishes (createPostgresComponents).                        *)
(*                                                                         *)
(* What a write does to its tables is one effect per operation; a snapshot *)
(* of the database is the set of operations it shows. A browser sends the  *)
(* same data under the same operationId, so IDEMPOTENCY_CONFLICT is not    *)
(* reached.                                                                *)
(***************************************************************************)
EXTENDS Naturals

CONSTANTS Handlers,      \* requests the server works on at the same time
          Intents,       \* what a user wants to have written, once
          MaxTries,      \* bound: operationIds a browser creates for one intent
          Retries,       \* retries of withTransaction (2 in execute)
          MaxFaults,     \* bound: crashes, lost connections and failed statements
          MaxLoadFaults, \* bound: failed loads of the projections
          None

ASSUME TriesAssumption == MaxTries \in Nat \ {0}
ASSUME RetriesAssumption == Retries \in Nat
ASSUME FaultsAssumption == MaxFaults \in Nat /\ MaxLoadFaults \in Nat
ASSUME HandlersAssumption == None \notin Handlers

VARIABLES applied,   \* database: how often the effect of an operation was committed
          receipts,  \* database: operations with a row in ops.idempotency_operations
          outbox,    \* database: operations whose invalidation is still to be sent
          pc, op, repeated, attempt, audit, error,  \* per handler
          server,    \* "loading", "loaded", "listening", or "failed" to load at all
          loader, newer, snapshot, cache,
          tries, awaits, done,  \* per intent: its operationId, its request, its success
          faults, loadFaults

db == <<applied, receipts, outbox>>
handler == <<pc, op, repeated, attempt, audit, error>>
loading == <<loader, newer, snapshot, cache>>
browser == <<tries, awaits, done>>
vars == <<db, handler, server, loading, browser, faults, loadFaults>>

Ops == Intents \X (1..MaxTries)
Committed == {o \in Ops : applied[o] > 0}

PCs == {"idle", "received", "running", "begun", "written", "committed",
        "waiting", "loaded", "thrown", "reply"}
InTransaction(h) == pc[h] \in {"begun", "written"}

\* A fresh server; the intents in givenUp will not be sent, and f faults are used up
\* (a larger instance starts from several such states).
Start(givenUp, f) ==
        /\ applied = [o \in Ops |-> 0] /\ receipts = {} /\ outbox = {}
        /\ pc = [h \in Handlers |-> "idle"]
        /\ op = [h \in Handlers |-> None]
        /\ repeated = [h \in Handlers |-> FALSE]
        /\ attempt = [h \in Handlers |-> 0]
        /\ audit = [h \in Handlers |-> "none"]
        /\ error = [h \in Handlers |-> "none"]
        /\ server = "loading" /\ loader = "requested" /\ newer = FALSE
        /\ snapshot = {} /\ cache = {}
        /\ tries = [i \in Intents |-> IF i \in givenUp THEN MaxTries + 1 ELSE 1]
        /\ awaits = [i \in Intents |-> None]
        /\ done = [i \in Intents |-> FALSE]
        /\ faults = f /\ loadFaults = 0
Init == Start({}, 0)

Goto(h, label) == pc' = [pc EXCEPT ![h] = label]
Fault == faults < MaxFaults /\ faults' = faults + 1

(***************************************************************************)
(* The browser. An operationId is kept until the outcome is certain.       *)
(***************************************************************************)
Send(i, h) ==
  /\ ~done[i] /\ awaits[i] = None /\ tries[i] <= MaxTries
  /\ pc[h] = "idle"
  /\ awaits' = [awaits EXCEPT ![i] = h]
  /\ op' = [op EXCEPT ![h] = <<i, tries[i]>>]
  /\ Goto(h, "received")
  /\ attempt' = [attempt EXCEPT ![h] = 0]
  /\ repeated' = [repeated EXCEPT ![h] = FALSE]
  /\ audit' = [audit EXCEPT ![h] = "none"]
  /\ error' = [error EXCEPT ![h] = "none"]
  /\ UNCHANGED <<db, server, loading, tries, done, faults, loadFaults>>

\* CONNECTION_LOST or REQUEST_TIMEOUT: the operationId is kept.
GiveUpWaiting(i) ==
  /\ awaits[i] # None
  /\ Fault
  /\ awaits' = [awaits EXCEPT ![i] = None]
  /\ UNCHANGED <<db, handler, server, loading, tries, done, loadFaults>>

\* releaseOperationId(key, error): only WRITE_OUTCOME_UNKNOWN keeps the id.
Released(h) == error[h] \notin {"none", "WRITE_OUTCOME_UNKNOWN"}

Reply(h) ==
  /\ pc[h] = "reply"
  /\ Goto(h, "idle")
  /\ LET answered == {i \in Intents : awaits[i] = h} IN
       /\ awaits' = [i \in Intents |-> IF i \in answered THEN None ELSE awaits[i]]
       /\ done' = [i \in Intents |-> done[i] \/ (i \in answered /\ error[h] = "none")]
       /\ tries' = [i \in Intents |-> IF i \in answered /\ Released(h) THEN tries[i] + 1 ELSE tries[i]]
  /\ UNCHANGED <<db, op, repeated, attempt, audit, error, server, loading, faults, loadFaults>>

(***************************************************************************)
(* The audited handler around the service call.                            *)
(***************************************************************************)
Throw(h, code) == /\ Goto(h, "thrown")
                  /\ error' = [error EXCEPT ![h] = code]

\* The gates before the audit row: unknown endpoint, authorisation, validation, rate limits.
StartAudit(h) ==
  /\ pc[h] = "received"
  /\ \/ Goto(h, "running") /\ audit' = [audit EXCEPT ![h] = "started"] /\ UNCHANGED <<error, faults>>
     \/ Goto(h, "reply") /\ error' = [error EXCEPT ![h] = "REJECTED"] /\ UNCHANGED <<audit, faults>>
     \/ Fault /\ Goto(h, "reply") /\ error' = [error EXCEPT ![h] = "INTERNAL_ERROR"] /\ UNCHANGED audit
  /\ UNCHANGED <<db, op, repeated, attempt, server, loading, browser, loadFaults>>

\* writeAudit(success); when that fails the catch block records "unknown".
AuditSuccess(h) ==
  /\ pc[h] = "loaded"
  /\ Goto(h, "reply")
  /\ \/ audit' = [audit EXCEPT ![h] = "success"] /\ UNCHANGED <<error, faults>>
     \/ /\ Fault
        /\ \/ audit' = [audit EXCEPT ![h] = "unknown"]
           \/ UNCHANGED audit
        /\ error' = [error EXCEPT ![h] = "WRITE_OUTCOME_UNKNOWN"]
  /\ UNCHANGED <<db, op, repeated, attempt, server, loading, browser, loadFaults>>

\* The service has thrown: none of its errors is called WRITE_OUTCOME_UNKNOWN.
AuditFailure(h) ==
  /\ pc[h] = "thrown"
  /\ Goto(h, "reply")
  /\ \/ audit' = [audit EXCEPT ![h] = "failed"] /\ UNCHANGED faults
     \/ Fault /\ UNCHANGED audit
  /\ UNCHANGED <<db, op, repeated, attempt, error, server, loading, browser, loadFaults>>

(***************************************************************************)
(* The loader: one load at a time; a request that arrives during a load    *)
(* makes it load once more before anybody is answered.                     *)
(***************************************************************************)
\* Mutant: a request that finds a load running is content with it.
MutRequestLoad == /\ newer' = FALSE
                  /\ loader' = IF loader = "idle" THEN "requested" ELSE loader
\* Mutant: a request that finds no load running does not start one.
MutRequestNothing == newer' = TRUE /\ UNCHANGED loader
RequestLoad == /\ newer' = TRUE
               /\ loader' = IF loader = "idle" THEN "requested" ELSE loader

StartLoad ==
  /\ loader = "requested"
  /\ loader' = "reading" /\ newer' = FALSE
  /\ UNCHANGED <<db, handler, server, snapshot, cache, browser, faults, loadFaults>>

\* The repeatable-read transaction takes its snapshot.
ReadSnapshot ==
  /\ loader = "reading"
  /\ loader' = "read" /\ snapshot' = Committed
  /\ UNCHANGED <<db, handler, server, newer, cache, browser, faults, loadFaults>>

\* Mutant: the requests are answered before the load that was asked for meanwhile.
MutApplyLoad ==
  /\ loader = "read"
  /\ cache' = snapshot
  /\ newer' = FALSE
  /\ loader' = IF newer THEN "reading" ELSE "idle"
  /\ pc' = [h \in Handlers |-> IF pc[h] = "waiting" THEN "loaded" ELSE pc[h]]
  /\ server' = IF server = "loading" THEN "loaded" ELSE server
  /\ UNCHANGED <<db, op, repeated, attempt, audit, error, snapshot, browser, faults, loadFaults>>

ApplyLoad ==
  /\ loader = "read"
  /\ cache' = snapshot
  /\ newer' = FALSE
  /\ IF newer
     THEN /\ loader' = "reading"
          /\ UNCHANGED <<pc, server>>
     ELSE /\ loader' = "idle"
          /\ pc' = [h \in Handlers |-> IF pc[h] = "waiting" THEN "loaded" ELSE pc[h]]
          /\ server' = IF server = "loading" THEN "loaded" ELSE server
  /\ UNCHANGED <<db, op, repeated, attempt, audit, error, snapshot, browser, faults, loadFaults>>


\* Mutant: a failed load leaves empty tables behind.
MutFailLoad ==
  /\ loader \in {"reading", "read"}
  /\ loadFaults < MaxLoadFaults /\ loadFaults' = loadFaults + 1
  /\ loader' = "idle" /\ newer' = FALSE /\ cache' = {}
  /\ pc' = [h \in Handlers |-> IF pc[h] = "waiting" THEN "thrown" ELSE pc[h]]
  /\ error' = [h \in Handlers |-> IF pc[h] = "waiting" THEN "INTERNAL_ERROR" ELSE error[h]]
  /\ server' = IF server = "loading" THEN "failed" ELSE server
  /\ UNCHANGED <<db, op, repeated, attempt, audit, snapshot, browser, faults>>

\* A failed load rejects every waiting request, those for a newer one included;
\* the cache keeps its last good state. A failed first load is not repeated.
FailLoad ==
  /\ loader \in {"reading", "read"}
  /\ loadFaults < MaxLoadFaults /\ loadFaults' = loadFaults + 1
  /\ loader' = "idle" /\ newer' = FALSE
  /\ pc' = [h \in Handlers |-> IF pc[h] = "waiting" THEN "thrown" ELSE pc[h]]
  /\ error' = [h \in Handlers |-> IF pc[h] = "waiting" THEN "INTERNAL_ERROR" ELSE error[h]]
  /\ server' = IF server = "loading" THEN "failed" ELSE server
  /\ UNCHANGED <<db, op, repeated, attempt, audit, snapshot, cache, browser, faults>>

\* LISTEN epiber_app_invalidate, after the first load.
StartListening ==
  /\ server = "loaded"
  /\ server' = "listening"
  /\ UNCHANGED <<db, handler, loading, browser, faults, loadFaults>>

\* The worker publishes the row and marks it sent; only a listening server reloads.
Deliver(o) ==
  /\ o \in outbox
  /\ outbox' = outbox \ {o}
  /\ IF server = "listening" THEN RequestLoad ELSE UNCHANGED <<loader, newer>>
  /\ UNCHANGED <<applied, receipts, handler, server, snapshot, cache, browser, faults, loadFaults>>

(***************************************************************************)
(* The transaction.                                                        *)
(***************************************************************************)
\* Before it, requireCurrentTables asks for a loaded cache (DATA_NOT_READY);
\* SELECT ... FOR UPDATE of the operation's row then fixes the snapshot.
Begin(h) ==
  /\ pc[h] = "running"
  /\ \/ /\ server \in {"loaded", "listening"}
        /\ Goto(h, "begun")
        /\ repeated' = [repeated EXCEPT ![h] = op[h] \in receipts]
        /\ UNCHANGED <<error, faults>>
     \/ /\ server \in {"loading", "failed"}
        /\ Throw(h, "DATA_NOT_READY") /\ UNCHANGED <<repeated, faults>>
     \/ Fault /\ Throw(h, "INTERNAL_ERROR") /\ UNCHANGED repeated
  /\ UNCHANGED <<db, op, attempt, audit, server, loading, browser, loadFaults>>

\* 40001 and 40P01 start the transaction again, at most Retries times.
Again(h) == IF attempt[h] < Retries
            THEN /\ Goto(h, "running") /\ UNCHANGED error
                 /\ attempt' = [attempt EXCEPT ![h] = @ + 1]
            ELSE Throw(h, "INTERNAL_ERROR") /\ UNCHANGED attempt

\* Another transaction has inserted the operation's row and not ended yet.
RowLocked(h) == \E g \in Handlers \ {h} : pc[g] = "written" /\ ~repeated[g] /\ op[g] = op[h]

\* Mutant: the row is written in a transaction of its own, so nothing waits for it.
MutRowTaken(h) == FALSE
\* The unique key (tenant_id, operation_id) is taken by a later commit.
RowTaken(h) == op[h] \in receipts

\* INSERT of the row and the callback's effect, with the rules' refusal (REJECTED);
\* a repeated operation only returns the stored response.
Write(h) ==
  /\ pc[h] = "begun"
  /\ \/ repeated[h] /\ Goto(h, "written") /\ UNCHANGED <<attempt, error, faults>>
     \/ /\ ~repeated[h] /\ ~RowLocked(h) /\ RowTaken(h)
        /\ \/ Throw(h, "WRITE_CONFLICT") /\ UNCHANGED attempt
           \/ Again(h)
        /\ UNCHANGED faults
     \/ /\ ~repeated[h] /\ ~RowLocked(h) /\ ~RowTaken(h)
        /\ \/ Goto(h, "written") /\ UNCHANGED <<attempt, error>>
           \/ Throw(h, "REJECTED") /\ UNCHANGED attempt
           \/ Again(h)
        /\ UNCHANGED faults
     \/ Fault /\ Throw(h, "INTERNAL_ERROR") /\ UNCHANGED attempt
  /\ UNCHANGED <<db, op, repeated, audit, server, loading, browser, loadFaults>>

\* The transactions of the handlers in hs become durable; repeated ones wrote nothing.
CommitAll(hs) ==
  LET os == {op[h] : h \in {g \in hs : ~repeated[g]}} IN
  /\ applied' = [o \in Ops |-> IF o \in os THEN applied[o] + 1 ELSE applied[o]]
  /\ receipts' = receipts \union os
  /\ outbox' = outbox \union os

Commit(h) ==
  /\ pc[h] = "written"
  /\ \/ CommitAll({h}) /\ Goto(h, "committed") /\ UNCHANGED <<attempt, error, faults>>
     \/ Again(h) /\ UNCHANGED <<db, faults>>
     \* DB_COMMIT_OUTCOME_UNKNOWN is no AppError: the browser is told INTERNAL_ERROR.
     \/ /\ Fault
        /\ CommitAll({h}) \/ UNCHANGED db
        /\ Throw(h, "INTERNAL_ERROR") /\ UNCHANGED attempt
  /\ UNCHANGED <<op, repeated, audit, server, loading, browser, loadFaults>>

\* await this.projectionLoader.refresh(command)
Refresh(h) ==
  /\ pc[h] = "committed"
  /\ Goto(h, "waiting")
  /\ RequestLoad
  /\ UNCHANGED <<db, op, repeated, attempt, audit, error, server, snapshot, cache, browser, faults, loadFaults>>

(***************************************************************************)
(* The server process dies and starts again. A COMMIT it had sent may      *)
(* still take place.                                                       *)
(***************************************************************************)
Crash ==
  /\ Fault
  /\ \E hs \in SUBSET {h \in Handlers : pc[h] = "written"} : CommitAll(hs)
  /\ pc' = [h \in Handlers |-> "idle"]
  /\ awaits' = [i \in Intents |-> None]
  /\ server' = "loading" /\ loader' = "requested" /\ newer' = FALSE
  /\ snapshot' = {} /\ cache' = {}
  /\ UNCHANGED <<op, repeated, attempt, audit, error, tries, done, loadFaults>>

HandlerStep(h) == \/ StartAudit(h) \/ Begin(h) \/ Write(h) \/ Commit(h) \/ Refresh(h)
                  \/ AuditSuccess(h) \/ AuditFailure(h) \/ Reply(h)
LoaderStep == StartLoad \/ ReadSnapshot \/ ApplyLoad \/ FailLoad \/ StartListening

Next == \/ \E i \in Intents, h \in Handlers : Send(i, h)
        \/ \E i \in Intents : GiveUpWaiting(i)
        \/ \E h \in Handlers : HandlerStep(h)
        \/ LoaderStep
        \/ \E o \in Ops : Deliver(o)
        \/ Crash

Fairness == /\ \A h \in Handlers : WF_vars(HandlerStep(h))
            /\ WF_vars(LoaderStep)
            /\ \A o \in Ops : WF_vars(Deliver(o))

Spec == Init /\ [][Next]_vars
FairSpec == Spec /\ Fairness

(***************************************************************************)
(* Properties.                                                             *)
(***************************************************************************)
Tables == SUBSET Ops
Audits == {"none", "started", "success", "failed", "unknown"}
Errors == {"none", "INTERNAL_ERROR", "DATA_NOT_READY", "REJECTED", "WRITE_CONFLICT",
           "WRITE_OUTCOME_UNKNOWN"}

DbTypes == applied \in [Ops -> Nat] /\ receipts \in Tables /\ outbox \in Tables
RequestTypes == /\ op \in [Handlers -> Ops \union {None}]
                /\ \A h \in Handlers : pc[h] # "idle" => op[h] \in Ops
HandlerTypes == /\ pc \in [Handlers -> PCs]
                /\ repeated \in [Handlers -> BOOLEAN]
                /\ attempt \in [Handlers -> 0..Retries]
                /\ audit \in [Handlers -> Audits] /\ error \in [Handlers -> Errors]
CacheTypes == /\ server \in {"loading", "loaded", "listening", "failed"}
              /\ loader \in {"idle", "requested", "reading", "read"} /\ newer \in BOOLEAN
              /\ snapshot \in Tables /\ cache \in Tables
BrowserTypes == /\ tries \in [Intents -> 1..(MaxTries + 1)]
                /\ awaits \in [Intents -> Handlers \union {None}]
                /\ done \in [Intents -> BOOLEAN]
                /\ \A i \in Intents : awaits[i] # None => tries[i] <= MaxTries
TypeOK == DbTypes /\ RequestTypes /\ HandlerTypes /\ CacheTypes /\ BrowserTypes

\* However often an operationId is sent, also twice at the same time or again after an
\* unknown COMMIT or a crash, its effect is committed at most once, and exactly the
\* operations with an idempotency row have taken effect (beginIdempotencyOn, execute).
AppliedOnce == \A o \in Ops : applied[o] = IF o \in receipts THEN 1 ELSE 0

\* When execute returns, the cache the next request reads already shows the write,
\* whatever loads were running when it was committed (refresh's generation loop).
ReadYourWrites == \A h \in Handlers : pc[h] = "loaded" => op[h] \in cache
OnceAndSeen == AppliedOnce /\ ReadYourWrites

\* A load never replaces the cache by an older snapshot while the server runs.
CacheNeverBack == [][server' # "loading" => cache \subseteq cache']_vars

\* A success shown to the user, and an audit row that says so, are true.
SuccessIsCommitted ==
  /\ \A i \in Intents : done[i] => <<i, tries[i]>> \in receipts
  /\ \A h \in Handlers : audit[h] = "success" => op[h] \in receipts

\* Every request the server has taken is answered: no load, lock or retry holds it forever.
\* A listening server whose loads succeed comes to show every write whose invalidation
\* is still in the outbox, also one whose request never got to its own refresh.
Answered == \A h \in Handlers : pc[h] # "idle" ~> pc[h] = "idle"
InvalidationReaches ==
  \A o \in Ops : (o \in outbox /\ server = "listening") ~>
                   (o \in cache \/ server # "listening" \/ loadFaults > 0)
Progresses == Answered /\ InvalidationReaches

(***************************************************************************)
(* The pipeline implements the abstract write path.                        *)
(***************************************************************************)
Promise == INSTANCE Writes WITH
             committed <- receipts,
             visible <- cache,
             confirmed <- {o \in Ops : done[o[1]] /\ tries[o[1]] = o[2]}
ImplementsWrites == Promise!Spec
=============================================================================
