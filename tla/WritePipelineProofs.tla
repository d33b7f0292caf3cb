------------------------ MODULE WritePipelineProofs ------------------------
(***************************************************************************)
(* What WritePipeline guarantees for any number of handlers, intents,      *)
(* operationIds, retries and faults; what Diagnostics guarantees for any   *)
(* sizes of queue and beacon, policies, answers and faults; and what       *)
(* CourtAutomation guarantees for any courts, fixtures and faults.         *)
(***************************************************************************)
EXTENDS WritePipeline, Diagnostics, CourtAutomation, SequenceTheorems, TLAPS

\* A transaction that has inserted its row is the only one to have done so, and nobody
\* has committed that row before.
Inserting(h) == pc[h] = "written" /\ ~repeated[h]
RowHeld == \A h \in Handlers : Inserting(h) =>
             /\ op[h] \notin receipts
             /\ \A g \in Handlers : Inserting(g) /\ op[g] = op[h] => g = h

\* A handler past its COMMIT, and one that repeats, works on a committed operation.
PastCommit(h) == \/ pc[h] \in {"committed", "waiting", "loaded"}
                 \/ pc[h] \in {"begun", "written"} /\ repeated[h]
CommittedBehind == \A h \in Handlers : PastCommit(h) => op[h] \in receipts

CacheSound == /\ snapshot \subseteq receipts
              /\ cache \subseteq receipts
              /\ loader = "read" => cache \subseteq snapshot

\* A waiting request is served by the load that runs, unless another one will follow.
Served == \A h \in Handlers : pc[h] = "waiting" =>
            /\ loader # "idle"
            /\ loader = "read" /\ ~newer => op[h] \in snapshot

Answer(h) == pc[h] = "loaded" \/ (pc[h] = "reply" /\ error[h] = "none")
AnswerShown == \A h \in Handlers : /\ Answer(h) => op[h] \in cache
                                   /\ pc[h] = "thrown" => error[h] # "none"

AwaitsOwn == \A i \in Intents :
               /\ awaits[i] # None => /\ pc[awaits[i]] # "idle" /\ ~done[i]
                                      /\ op[awaits[i]] = <<i, tries[i]>>
               /\ done[i] => <<i, tries[i]>> \in receipts

AuditTrue == \A h \in Handlers : audit[h] = "success" => op[h] \in receipts

IInv == /\ AppliedOnce /\ RowHeld /\ CommittedBehind /\ CacheSound
        /\ Served /\ AnswerShown /\ AwaitsOwn /\ AuditTrue


(***************************************************************************)
(* Type correctness.                                                       *)
(***************************************************************************)
LEMMA InitTyped == Init => TypeOK
<1> SUFFICES ASSUME Init PROVE TypeOK
  OBVIOUS
<1>1. DbTypes
  BY DEF Init, Start, DbTypes, Tables
<1>2. RequestTypes
  BY DEF Init, Start, RequestTypes
<1>3. HandlerTypes
  BY RetriesAssumption DEF Init, Start, HandlerTypes, PCs, Audits, Errors
<1>4. CacheTypes
  BY DEF Init, Start, CacheTypes, Tables
<1>5. BrowserTypes
  BY TriesAssumption DEF Init, Start, BrowserTypes
<1> QED BY <1>1, <1>2, <1>3, <1>4, <1>5 DEF TypeOK

LEMMA CommitAllTyped ==
  ASSUME TypeOK, NEW hs \in SUBSET Handlers, CommitAll(hs),
         \A h \in hs : op[h] \in Ops
  PROVE  /\ applied' \in [Ops -> Nat] /\ receipts' \in Tables /\ outbox' \in Tables
BY DEF TypeOK, DbTypes, HandlerTypes, CommitAll, Tables

LEMMA TypePreserved == TypeOK /\ [Next]_vars => TypeOK'
<1> SUFFICES ASSUME TypeOK, [Next]_vars PROVE TypeOK'
  OBVIOUS
<1> USE DEF Goto, Throw, Fault, TypeOK, DbTypes, RequestTypes, HandlerTypes, CacheTypes, BrowserTypes,
            Audits, Errors
<1>1. ASSUME NEW i \in Intents, NEW h \in Handlers, Send(i, h) PROVE TypeOK'
  <2>1. <<i, tries[i]>> \in Ops
    BY <1>1 DEF Send, Ops
  <2> QED BY <1>1, <2>1, RetriesAssumption
        DEF Send, PCs, db, loading
<1>2. ASSUME NEW i \in Intents, GiveUpWaiting(i) PROVE TypeOK'
  BY <1>2 DEF GiveUpWaiting, db, handler, loading
<1>3. ASSUME NEW h \in Handlers, Reply(h) PROVE TypeOK'
  <2>1. h # None
    BY HandlersAssumption
  <2>2. tries' \in [Intents -> 1..(MaxTries + 1)]
    BY <1>3, <2>1, TriesAssumption DEF Reply
  <2> QED BY <1>3, <2>1, <2>2 DEF Reply, PCs, db, loading
<1>4. ASSUME NEW h \in Handlers, StartAudit(h) PROVE TypeOK'
  BY <1>4 DEF StartAudit, PCs, db, loading, browser
<1>5. ASSUME NEW h \in Handlers, AuditSuccess(h) PROVE TypeOK'
  BY <1>5 DEF AuditSuccess, PCs, db, loading, browser
<1>6. ASSUME NEW h \in Handlers, AuditFailure(h) PROVE TypeOK'
  BY <1>6 DEF AuditFailure, PCs, db, loading, browser
<1>7. CASE StartLoad
  BY <1>7 DEF StartLoad, db, handler, browser
<1>8. CASE ReadSnapshot
  BY <1>8 DEF ReadSnapshot, db, handler, browser, Committed, Tables
<1>9. CASE ApplyLoad
  BY <1>9 DEF ApplyLoad, db, browser, PCs
<1>10. CASE FailLoad
  BY <1>10 DEF FailLoad, db, browser, PCs
<1>11. CASE StartListening
  BY <1>11 DEF StartListening, db, handler, loading, browser
<1>12. ASSUME NEW o \in Ops, Deliver(o) PROVE TypeOK'
  BY <1>12 DEF Deliver, RequestLoad, handler, browser, Tables
<1>13. ASSUME NEW h \in Handlers, Begin(h) PROVE TypeOK'
  <2>1. repeated' \in [Handlers -> BOOLEAN]
    <3>1. repeated' = repeated \/ repeated' = [repeated EXCEPT ![h] = op[h] \in receipts]
      BY <1>13, Zenon DEF Begin
    <3>2. (op[h] \in receipts) \in BOOLEAN
      OBVIOUS
    <3> QED BY <3>1, <3>2, Zenon
  <2>2. pc' \in [Handlers -> PCs] /\ error' \in [Handlers -> Errors] /\ RequestTypes'
    BY <1>13 DEF Begin, PCs
  <2> QED BY <1>13, <2>1, <2>2 DEF Begin, db, loading, browser
<1>14. ASSUME NEW h \in Handlers, Again(h)
       PROVE  /\ pc' \in [Handlers -> PCs]
              /\ pc'[h] # "idle" /\ \A g \in Handlers : g # h => pc'[g] = pc[g]
              /\ attempt' \in [Handlers -> 0..Retries]
              /\ error' \in [Handlers -> Errors]
  <2>1. CASE attempt[h] < Retries
    BY <1>14, <2>1, RetriesAssumption DEF Again, PCs
  <2>2. CASE ~(attempt[h] < Retries)
    BY <1>14, <2>2 DEF Again, PCs
  <2> QED BY <2>1, <2>2
<1>15. ASSUME NEW h \in Handlers, Write(h) PROVE TypeOK'
  <2>1. /\ pc' \in [Handlers -> PCs]
        /\ pc'[h] # "idle" /\ \A g \in Handlers : g # h => pc'[g] = pc[g]
        /\ attempt' \in [Handlers -> 0..Retries]
        /\ error' \in [Handlers -> Errors]
    <3>1. CASE Again(h)
      BY <3>1, <1>14
    <3>2. CASE ~Again(h)
      BY <1>15, <3>2 DEF Write, PCs
    <3> QED BY <3>1, <3>2
  <2> QED BY <1>15, <2>1 DEF Write, db, loading, browser
<1>16. ASSUME NEW h \in Handlers, Commit(h) PROVE TypeOK'
  <2>1. /\ pc' \in [Handlers -> PCs]
        /\ pc'[h] # "idle" /\ \A g \in Handlers : g # h => pc'[g] = pc[g]
        /\ attempt' \in [Handlers -> 0..Retries]
        /\ error' \in [Handlers -> Errors]
    <3>1. CASE Again(h)
      BY <3>1, <1>14
    <3>2. CASE ~Again(h)
      BY <1>16, <3>2 DEF Commit, PCs
    <3> QED BY <3>1, <3>2
  <2>2. /\ applied' \in [Ops -> Nat] /\ receipts' \in Tables /\ outbox' \in Tables
    <3>1. CASE CommitAll({h})
      BY <1>16, <3>1, CommitAllTyped DEF Commit
    <3>2. CASE ~CommitAll({h})
      BY <1>16, <3>2 DEF Commit, db
    <3> QED BY <3>1, <3>2
  <2> QED BY <1>16, <2>1, <2>2 DEF Commit, loading, browser
<1>17. ASSUME NEW h \in Handlers, Refresh(h) PROVE TypeOK'
  BY <1>17 DEF Refresh, RequestLoad, PCs, db, browser
<1>18. CASE Crash
  <2>1. PICK hs \in SUBSET {h \in Handlers : pc[h] = "written"} : CommitAll(hs)
    BY <1>18 DEF Crash
  <2>2. /\ applied' \in [Ops -> Nat] /\ receipts' \in Tables /\ outbox' \in Tables
    BY <2>1, CommitAllTyped
  <2> QED BY <1>18, <2>2 DEF Crash, PCs, Tables
<1>19. CASE UNCHANGED vars
  BY <1>19 DEF vars, db, handler, loading, browser
<1> QED
  BY <1>1, <1>2, <1>3, <1>4, <1>5, <1>6, <1>7, <1>8, <1>9, <1>10, <1>11, <1>12,
     <1>13, <1>15, <1>16, <1>17, <1>18, <1>19
     DEF Next, HandlerStep, LoaderStep

(***************************************************************************)
(* The inductive invariant.                                                *)
(***************************************************************************)
LEMMA InitIInv == Init => IInv
BY DEF Init, Start, IInv, AppliedOnce, RowHeld, Inserting, CommittedBehind, PastCommit, CacheSound,
       Served, AnswerShown, Answer, AwaitsOwn, AuditTrue

\* A commit applies operations whose row nobody has committed, each once.
LEMMA CommitAllOnce ==
  ASSUME TypeOK, IInv, NEW hs \in SUBSET Handlers, CommitAll(hs),
         \A h \in hs : pc[h] = "written"
  PROVE  /\ AppliedOnce'
         /\ receipts \subseteq receipts'
         /\ \A h \in hs : op[h] \in receipts'
         /\ \A g \in Handlers \ hs : Inserting(g) => op[g] \notin receipts'
<1> DEFINE os == {op[h] : h \in {g \in hs : ~repeated[g]}}
<1>1. \A h \in hs : op[h] \in Ops
  BY DEF TypeOK, RequestTypes
<1>2. /\ applied' = [o \in Ops |-> IF o \in os THEN applied[o] + 1 ELSE applied[o]]
      /\ receipts' = receipts \union os
  BY DEF CommitAll
<1>3. \A o \in os : o \notin receipts
  BY DEF IInv, RowHeld, Inserting
<1>4. AppliedOnce'
  BY <1>2, <1>3 DEF IInv, AppliedOnce, TypeOK, DbTypes
<1>5. \A h \in hs : op[h] \in receipts'
  BY <1>2 DEF IInv, CommittedBehind, PastCommit
<1>6. \A g \in Handlers \ hs : Inserting(g) => op[g] \notin receipts'
  <2> SUFFICES ASSUME NEW g \in Handlers, g \notin hs, Inserting(g)
               PROVE  op[g] \notin receipts \union os
    BY <1>2
  <2>1. op[g] \notin receipts
    BY DEF IInv, RowHeld
  <2>2. \A h \in hs : ~repeated[h] => op[h] # op[g]
    BY DEF IInv, RowHeld, Inserting
  <2> QED BY <2>1, <2>2
<1> QED BY <1>2, <1>4, <1>5, <1>6

LEMMA IInvPreserved == TypeOK /\ TypeOK' /\ IInv /\ [Next]_vars => IInv'
<1> SUFFICES ASSUME TypeOK, TypeOK', IInv, [Next]_vars PROVE IInv'
  OBVIOUS
<1> USE DEF Goto, Throw, Fault, TypeOK, HandlerTypes, RequestTypes, CacheTypes, BrowserTypes, DbTypes,
            Tables
<1> USE HandlersAssumption
<1>1. ASSUME NEW i \in Intents, NEW h \in Handlers, Send(i, h) PROVE IInv'
  BY <1>1 DEF Send, db, loading,
         IInv, AppliedOnce, RowHeld, Inserting, CommittedBehind, PastCommit, CacheSound,
         Served, AnswerShown, Answer, AwaitsOwn, AuditTrue
<1>2. ASSUME NEW i \in Intents, GiveUpWaiting(i) PROVE IInv'
  BY <1>2 DEF GiveUpWaiting, db, handler, loading,
         IInv, AppliedOnce, RowHeld, Inserting, CommittedBehind, PastCommit, CacheSound,
         Served, AnswerShown, Answer, AwaitsOwn, AuditTrue
<1>3. ASSUME NEW h \in Handlers, Reply(h) PROVE IInv'
  <2>1. receipts' = receipts /\ cache' = cache /\ op' = op
    BY <1>3 DEF Reply, db, loading
  <2>2. ASSUME NEW i \in Intents, awaits'[i] # None
        PROVE  awaits[i] # None /\ awaits[i] # h /\ awaits'[i] = awaits[i]
               /\ tries'[i] = tries[i] /\ done'[i] = done[i]
    BY <1>3, <2>2 DEF Reply
  <2>3. ASSUME NEW i \in Intents, done'[i]
        PROVE  tries'[i] = tries[i] /\ (done[i] \/ (awaits[i] = h /\ error[h] = "none"))
    BY <1>3, <2>3 DEF Reply, Released, IInv, AwaitsOwn
  <2>4. error[h] = "none" => op[h] \in receipts
    BY <1>3 DEF Reply, IInv, AnswerShown, Answer, CacheSound
  <2>5. AwaitsOwn'
    <3>1. ASSUME NEW i \in Intents, awaits'[i] # None
          PROVE  pc'[awaits'[i]] # "idle" /\ ~done'[i] /\ op'[awaits'[i]] = <<i, tries'[i]>>
      BY <1>3, <2>1, <2>2, <3>1 DEF Reply, IInv, AwaitsOwn
    <3>2. ASSUME NEW i \in Intents, done'[i] PROVE <<i, tries'[i]>> \in receipts'
      BY <2>1, <2>3, <2>4, <3>2 DEF IInv, AwaitsOwn
    <3> QED BY <3>1, <3>2 DEF AwaitsOwn
  <2> QED
    BY <1>3, <2>5 DEF Reply, db, loading, IInv, AppliedOnce, RowHeld, Inserting,
       CommittedBehind, PastCommit, CacheSound, Served, AnswerShown, Answer, AuditTrue
<1>4. ASSUME NEW h \in Handlers, StartAudit(h) PROVE IInv'
  BY <1>4 DEF StartAudit, db, loading, browser,
         IInv, AppliedOnce, RowHeld, Inserting, CommittedBehind, PastCommit, CacheSound,
         Served, AnswerShown, Answer, AwaitsOwn, AuditTrue
<1>5. ASSUME NEW h \in Handlers, AuditSuccess(h) PROVE IInv'
  BY <1>5 DEF AuditSuccess, db, loading, browser,
         IInv, AppliedOnce, RowHeld, Inserting, CommittedBehind, PastCommit, CacheSound,
         Served, AnswerShown, Answer, AwaitsOwn, AuditTrue
<1>6. ASSUME NEW h \in Handlers, AuditFailure(h) PROVE IInv'
  BY <1>6 DEF AuditFailure, db, loading, browser,
         IInv, AppliedOnce, RowHeld, Inserting, CommittedBehind, PastCommit, CacheSound,
         Served, AnswerShown, Answer, AwaitsOwn, AuditTrue
<1>7. CASE StartLoad
  BY <1>7 DEF StartLoad, db, handler, browser,
         IInv, AppliedOnce, RowHeld, Inserting, CommittedBehind, PastCommit, CacheSound,
         Served, AnswerShown, Answer, AwaitsOwn, AuditTrue
<1>8. CASE ReadSnapshot
  BY <1>8 DEF ReadSnapshot, db, handler, browser, Committed,
         IInv, AppliedOnce, RowHeld, Inserting, CommittedBehind, PastCommit, CacheSound,
         Served, AnswerShown, Answer, AwaitsOwn, AuditTrue
<1>9. CASE ApplyLoad
  BY <1>9 DEF ApplyLoad, db, browser,
         IInv, AppliedOnce, RowHeld, Inserting, CommittedBehind, PastCommit, CacheSound,
         Served, AnswerShown, Answer, AwaitsOwn, AuditTrue
<1>10. CASE FailLoad
  BY <1>10 DEF FailLoad, db, browser,
         IInv, AppliedOnce, RowHeld, Inserting, CommittedBehind, PastCommit, CacheSound,
         Served, AnswerShown, Answer, AwaitsOwn, AuditTrue
<1>11. CASE StartListening
  BY <1>11 DEF StartListening, db, handler, loading, browser,
         IInv, AppliedOnce, RowHeld, Inserting, CommittedBehind, PastCommit, CacheSound,
         Served, AnswerShown, Answer, AwaitsOwn, AuditTrue
<1>12. ASSUME NEW o \in Ops, Deliver(o) PROVE IInv'
  BY <1>12 DEF Deliver, RequestLoad, handler, browser,
         IInv, AppliedOnce, RowHeld, Inserting, CommittedBehind, PastCommit, CacheSound,
         Served, AnswerShown, Answer, AwaitsOwn, AuditTrue
<1>13. ASSUME NEW h \in Handlers, Begin(h) PROVE IInv'
  BY <1>13 DEF Begin, db, loading, browser,
         IInv, AppliedOnce, RowHeld, Inserting, CommittedBehind, PastCommit, CacheSound,
         Served, AnswerShown, Answer, AwaitsOwn, AuditTrue
<1>15. ASSUME NEW h \in Handlers, Write(h) PROVE IInv'
  BY <1>15 DEF Write, RowLocked, RowTaken, Again, db, loading, browser,
         IInv, AppliedOnce, RowHeld, Inserting, CommittedBehind, PastCommit, CacheSound,
         Served, AnswerShown, Answer, AwaitsOwn, AuditTrue
<1>16. ASSUME NEW h \in Handlers, Commit(h) PROVE IInv'
  <2>1. CASE CommitAll({h})
    <3>1. /\ AppliedOnce' /\ receipts \subseteq receipts' /\ op[h] \in receipts'
          /\ \A g \in Handlers \ {h} : Inserting(g) => op[g] \notin receipts'
      BY <1>16, <2>1, CommitAllOnce DEF Commit
    <3>2. /\ pc'[h] \in {"committed", "thrown", "running"}
          /\ pc'[h] = "thrown" => error'[h] # "none"
          /\ \A g \in Handlers \ {h} : pc'[g] = pc[g] /\ error'[g] = error[g]
      BY <1>16 DEF Commit, Again
    <3>3. op' = op /\ repeated' = repeated /\ audit' = audit
          /\ UNCHANGED loading /\ UNCHANGED browser
      BY <1>16 DEF Commit
    <3>4. RowHeld'
      BY <3>1, <3>2, <3>3 DEF IInv, RowHeld, Inserting
    <3>5. CommittedBehind' /\ CacheSound' /\ AuditTrue'
      BY <3>1, <3>2, <3>3 DEF IInv, CommittedBehind, PastCommit, CacheSound, AuditTrue, loading
    <3>6. Served' /\ AnswerShown'
      BY <3>1, <3>2, <3>3 DEF IInv, Served, AnswerShown, Answer, loading
    <3>7. AwaitsOwn'
      BY <3>1, <3>2, <3>3 DEF IInv, AwaitsOwn, browser
    <3> QED BY <3>1, <3>4, <3>5, <3>6, <3>7 DEF IInv
  <2>2. CASE ~CommitAll({h})
    <3>1. /\ pc'[h] \in {"thrown", "running"}
          /\ pc'[h] = "thrown" => error'[h] # "none"
          /\ \A g \in Handlers \ {h} : pc'[g] = pc[g] /\ error'[g] = error[g]
      BY <1>16, <2>2 DEF Commit, Again
    <3>2. UNCHANGED <<db, op, repeated, audit, loading, browser>>
      BY <1>16, <2>2 DEF Commit
    <3>3. AppliedOnce' /\ RowHeld' /\ CacheSound' /\ AuditTrue'
      BY <3>1, <3>2 DEF IInv, AppliedOnce, RowHeld, Inserting, CacheSound, AuditTrue, db, loading
    <3>4. CommittedBehind' /\ Served' /\ AnswerShown' /\ AwaitsOwn'
      BY <3>1, <3>2 DEF IInv, CommittedBehind, PastCommit, Served, AnswerShown, Answer, AwaitsOwn,
         db, loading, browser
    <3> QED BY <3>3, <3>4 DEF IInv
  <2> QED BY <2>1, <2>2
<1>17. ASSUME NEW h \in Handlers, Refresh(h) PROVE IInv'
  BY <1>17 DEF Refresh, RequestLoad, db, browser,
         IInv, AppliedOnce, RowHeld, Inserting, CommittedBehind, PastCommit, CacheSound,
         Served, AnswerShown, Answer, AwaitsOwn, AuditTrue
<1>18. CASE Crash
  <2>1. PICK hs \in SUBSET {h \in Handlers : pc[h] = "written"} : CommitAll(hs)
    BY <1>18 DEF Crash
  <2>2. AppliedOnce' /\ receipts \subseteq receipts'
    BY <2>1, CommitAllOnce
  <2>3. /\ pc' = [h \in Handlers |-> "idle"] /\ awaits' = [i \in Intents |-> None]
        /\ loader' = "requested" /\ snapshot' = {} /\ cache' = {}
        /\ UNCHANGED <<op, audit, tries, done>>
    BY <1>18 DEF Crash
  <2> QED
    BY <2>2, <2>3 DEF IInv, RowHeld, Inserting, CommittedBehind, PastCommit, CacheSound,
       Served, AnswerShown, Answer, AwaitsOwn, AuditTrue
<1>19. CASE UNCHANGED vars
  BY <1>19 DEF vars, db, handler, loading, browser,
         IInv, AppliedOnce, RowHeld, Inserting, CommittedBehind, PastCommit, CacheSound,
         Served, AnswerShown, Answer, AwaitsOwn, AuditTrue
<1> QED
  BY <1>1, <1>2, <1>3, <1>4, <1>5, <1>6, <1>7, <1>8, <1>9, <1>10, <1>11, <1>12,
     <1>13, <1>15, <1>16, <1>17, <1>18, <1>19
     DEF Next, HandlerStep, LoaderStep

\* Types hold in every reachable state, for any number of handlers and retries; in
\* particular withTransaction never retries more often than it was allowed to.
THEOREM Typed == Spec => []TypeOK
<1>1. Init => TypeOK
  BY InitTyped
<1>2. TypeOK /\ [Next]_vars => TypeOK'
  BY TypePreserved
<1> QED BY <1>1, <1>2, PTL DEF Spec

THEOREM Invariant == Spec => []IInv
<1>1. Init => IInv
  BY InitIInv
<1>2. TypeOK /\ TypeOK' /\ IInv /\ [Next]_vars => IInv'
  BY IInvPreserved
<1> QED BY <1>1, <1>2, Typed, PTL DEF Spec

\* However often an operationId is sent, its effect is committed once (execute), and
\* whoever gets the result of a write reads it from the cache (refresh).
THEOREM WrittenOnceAndSeen == Spec => []OnceAndSeen
<1>1. IInv => AppliedOnce
  BY DEF IInv
<1>2. IInv => ReadYourWrites
  BY DEF IInv, AnswerShown, Answer, ReadYourWrites
<1>3. IInv => OnceAndSeen
  BY <1>1, <1>2 DEF OnceAndSeen
<1> QED BY <1>3, Invariant, PTL

\* Success, to the user and in the audit, is only reported of committed operations.
THEOREM SuccessTrue == Spec => []SuccessIsCommitted
<1>1. IInv => SuccessIsCommitted
  BY DEF IInv, AwaitsOwn, AuditTrue, SuccessIsCommitted
<1> QED BY <1>1, Invariant, PTL

\* No load takes anything away from the cache of a running server (load, refresh).
THEOREM CacheOnlyGrows == Spec => CacheNeverBack
<1>1. TypeOK /\ IInv /\ [Next]_vars => [server' # "loading" => cache \subseteq cache']_vars
  <2> SUFFICES ASSUME IInv, [Next]_vars, server' # "loading" PROVE cache \subseteq cache'
    OBVIOUS
  <2>1. CASE ApplyLoad
    BY <2>1 DEF ApplyLoad, IInv, CacheSound
  <2>2. CASE Crash
    BY <2>2 DEF Crash
  <2>3. CASE ~ApplyLoad /\ ~Crash
    BY <2>3 DEF Next, HandlerStep, LoaderStep, Send, GiveUpWaiting, Reply, StartAudit,
       AuditSuccess, AuditFailure, StartLoad, ReadSnapshot, FailLoad, StartListening, Deliver,
       Begin, Write, Commit, Refresh, vars, loading
  <2> QED BY <2>1, <2>2, <2>3
<1> QED BY <1>1, Typed, Invariant, PTL DEF Spec, CacheNeverBack

(***************************************************************************)
(* The refinement of module Writes: a COMMIT with an effect is Take, an    *)
(* applied load is Publish, a successful reply is Confirm, a crash is      *)
(* Restart, everything else stutters.                                      *)
(***************************************************************************)
Confirmed == {o \in Ops : done[o[1]] /\ tries[o[1]] = o[2]}

LEMMA CommitIsTake ==
  ASSUME TypeOK, IInv, NEW h \in Handlers, Commit(h)
  PROVE  \/ receipts' = receipts
         \/ op[h] \in Ops \ receipts /\ receipts' = receipts \union {op[h]}
<1>1. CASE CommitAll({h})
  <2>1. CASE repeated[h]
    BY <1>1, <2>1 DEF CommitAll
  <2>2. CASE ~repeated[h]
    <3>1. receipts' = receipts \union {op[h]}
      BY <1>1, <2>2 DEF CommitAll
    <3>2. op[h] \in Ops /\ op[h] \notin receipts
      BY <2>2 DEF Commit, TypeOK, RequestTypes, IInv, RowHeld, Inserting
    <3> QED BY <3>1, <3>2
  <2> QED BY <2>1, <2>2
<1>2. CASE ~CommitAll({h})
  BY <1>2 DEF Commit, db
<1> QED BY <1>1, <1>2

LEMMA ReplyIsConfirm ==
  ASSUME TypeOK, IInv, NEW h \in Handlers, Reply(h)
  PROVE  \/ Confirmed' = Confirmed
         \/ op[h] \in receipts \intersect cache /\ Confirmed' = Confirmed \union {op[h]}
<1>1. CASE \E i \in Intents : awaits[i] = h /\ error[h] = "none"
  <2>1. PICK i \in Intents : awaits[i] = h /\ error[h] = "none"
    BY <1>1
  <2>2. op[h] \in Ops /\ op[h] = <<i, tries[i]>> /\ op[h] \in cache /\ op[h] \in receipts
    BY <2>1, HandlersAssumption
       DEF Reply, TypeOK, RequestTypes, IInv, AwaitsOwn, AnswerShown, Answer, CacheSound
  <2>3. \A j \in Intents : awaits[j] = h => j = i
    <3> SUFFICES ASSUME NEW j \in Intents, awaits[j] = h PROVE j = i
      OBVIOUS
    <3>1. op[awaits[j]] = <<j, tries[j]>>
      BY HandlersAssumption DEF IInv, AwaitsOwn
    <3> QED BY <2>2, <3>1
  <2>4. tries' = tries /\ \A j \in Intents : done'[j] = (done[j] \/ j = i)
    <3>1. tries' = [j \in Intents |-> tries[j]]
      BY <2>1, HandlersAssumption DEF Reply, Released
    <3>2. ASSUME NEW j \in Intents PROVE done'[j] = (done[j] \/ j = i)
      <4>1. done'[j] = (done[j] \/ (awaits[j] = h /\ error[h] = "none"))
        BY DEF Reply
      <4>2. awaits[j] = h /\ error[h] = "none" <=> j = i
        BY <2>1, <2>3
      <4> QED BY <4>1, <4>2, Zenon
    <3> QED BY <3>1, <3>2 DEF TypeOK, BrowserTypes
  <2>5. \A o \in Ops : o[1] \in Intents /\ o = <<o[1], o[2]>>
    BY DEF Ops
  <2>6. Confirmed' = Confirmed \union {op[h]}
    <3>1. ASSUME NEW o \in Ops
          PROVE  done'[o[1]] /\ tries'[o[1]] = o[2] <=>
                 (done[o[1]] /\ tries[o[1]] = o[2]) \/ o = op[h]
      <4>1. o[1] \in Intents /\ o = <<o[1], o[2]>>
        BY <2>5
      <4>2. o = op[h] <=> o[1] = i /\ tries[o[1]] = o[2]
        BY <2>2, <4>1
      <4>3. done'[o[1]] = (done[o[1]] \/ o[1] = i) /\ tries'[o[1]] = tries[o[1]]
        BY <2>4, <4>1
      <4> QED BY <4>2, <4>3, Zenon
    <3> QED BY <2>2, <3>1 DEF Confirmed
  <2> QED BY <2>2, <2>6
<1>2. CASE ~\E i \in Intents : awaits[i] = h /\ error[h] = "none"
  <2>1. \A i \in Intents : done'[i] = done[i] /\ (done[i] => tries'[i] = tries[i])
    <3> SUFFICES ASSUME NEW i \in Intents
                 PROVE  done'[i] = done[i] /\ (done[i] => tries'[i] = tries[i])
      OBVIOUS
    <3>1. done[i] \in BOOLEAN /\ (awaits[i] = h => ~done[i])
      BY HandlersAssumption DEF IInv, AwaitsOwn, TypeOK, BrowserTypes
    <3>2. done'[i] = (done[i] \/ (awaits[i] = h /\ error[h] = "none"))
      BY DEF Reply
    <3>3. done[i] => tries'[i] = tries[i]
      BY <3>1 DEF Reply
    <3> QED BY <1>2, <3>1, <3>2, <3>3, Zenon
  <2>2. \A o \in Ops : o[1] \in Intents
    BY DEF Ops
  <2> QED BY <2>1, <2>2 DEF Confirmed, Ops
<1> QED BY <1>1, <1>2

\* The write path keeps the promise stated in module Writes.
THEOREM KeepsPromise == Spec => ImplementsWrites
<1>1. Init => Promise!Init
  BY DEF Init, Start, Promise!Init, Ops
<1>2. TypeOK /\ TypeOK' /\ IInv /\ IInv' /\ [Next]_vars => [Promise!Next]_Promise!vars
  <2> SUFFICES ASSUME TypeOK, TypeOK', IInv, IInv', [Next]_vars
               PROVE  Promise!Next \/ UNCHANGED <<receipts, cache, Confirmed>>
    BY DEF Promise!vars, Confirmed
  <2>1. ASSUME NEW h \in Handlers, Commit(h)
        PROVE  Promise!Next \/ UNCHANGED <<receipts, cache, Confirmed>>
    <3>1. UNCHANGED <<cache, Confirmed>>
      BY <2>1 DEF Commit, loading, browser, Confirmed
    <3>2. CASE op[h] \in Ops \ receipts /\ receipts' = receipts \union {op[h]}
      BY <3>1, <3>2 DEF Promise!Next, Promise!Take, Confirmed
    <3> QED BY <2>1, <3>1, <3>2, CommitIsTake
  <2>2. ASSUME NEW h \in Handlers, Reply(h)
        PROVE  Promise!Next \/ UNCHANGED <<receipts, cache, Confirmed>>
    <3>1. UNCHANGED <<receipts, cache>>
      BY <2>2 DEF Reply, loading, db
    <3>2. CASE op[h] \in receipts \intersect cache /\ Confirmed' = Confirmed \union {op[h]}
      <4>1. op[h] \in Ops
        BY <3>2 DEF TypeOK, DbTypes, Tables
      <4> QED BY <3>1, <3>2, <4>1 DEF Promise!Next, Promise!Confirm, Confirmed
    <3> QED BY <2>2, <3>1, <3>2, ReplyIsConfirm
  <2>3. CASE ApplyLoad
    <3>1. cache' = snapshot /\ UNCHANGED <<receipts, Confirmed>>
      BY <2>3 DEF ApplyLoad, db, browser, Confirmed
    <3>2. cache \subseteq snapshot /\ snapshot \subseteq receipts /\ snapshot \in SUBSET Ops
      BY <2>3 DEF ApplyLoad, IInv, CacheSound, TypeOK, CacheTypes, Tables
    <3> QED BY <3>1, <3>2 DEF Promise!Next, Promise!Publish, Confirmed
  <2>4. CASE Crash
    <3>1. PICK hs \in SUBSET {h \in Handlers : pc[h] = "written"} : CommitAll(hs)
      BY <2>4 DEF Crash
    <3>2. receipts \subseteq receipts' /\ receipts' \subseteq Ops
      BY <3>1 DEF CommitAll, TypeOK, DbTypes, Tables
    <3>3. cache' = {} /\ Confirmed' = Confirmed
      BY <2>4 DEF Crash, Confirmed
    <3> DEFINE last == receipts' \ receipts
    <3>4. last \in SUBSET Ops /\ last \subseteq Ops \ receipts /\ receipts' = receipts \union last
      BY <3>2
    <3>5. Promise!Restart(last)
      BY <3>3, <3>4 DEF Promise!Restart, Confirmed
    <3> QED BY <3>4, <3>5 DEF Promise!Next
  <2>5. CASE /\ ~ApplyLoad /\ ~Crash
             /\ \A h \in Handlers : ~Commit(h) /\ ~Reply(h)
    <3>1. UNCHANGED <<receipts, cache, tries, done>>
      BY <2>5 DEF Next, HandlerStep, LoaderStep, Send, GiveUpWaiting, StartAudit, AuditSuccess,
         AuditFailure, StartLoad, ReadSnapshot, FailLoad, StartListening, Deliver, Begin, Write,
         Refresh, vars, loading, db, browser
    <3> QED BY <3>1 DEF Confirmed
  <2> QED BY <2>1, <2>2, <2>3, <2>4, <2>5
<1> QED BY <1>1, <1>2, Typed, Invariant, PTL DEF Spec, ImplementsWrites, Promise!Spec


(***************************************************************************)
(* The queue of the browser's diagnostics.                                 *)
(***************************************************************************)
Events == [id : Nat, severe : BOOLEAN, fine : BOOLEAN]
Batches == Seq(Events)
Policies == Rules \cup {NoRules}

QueueTyped ==
    /\ born \in Nat /\ transport \in Policies /\ served \in Policies
    /\ flushTimer \in BOOLEAN /\ here \in BOOLEAN /\ expiry \in BOOLEAN
    /\ pending \in Batches /\ Sent \in Batches /\ beacons \subseteq Batches
    /\ (flush # <<>> => flush = <<[events |-> Sent, answer |-> flush[1].answer]>>)
    /\ \A answer \in answers : answer.rules \in Policies

\* What is sent comes before what waits, each in the order of the events.
Lined(a, b) == \A x \in Ids(a), y \in Ids(b) : x < y
Queued == Len(pending) <= QueueSize /\ Rising(pending) /\ Rising(Sent) /\ Lined(Sent, pending)

\* No event is newer than the last one.
Known(events) == \A x \in Ids(events) : x <= born
Young == Known(pending) /\ Known(Sent) /\ \A b \in beacons : Known(b)
Fresh == \A x \in recorded : x \in Nat /\ x <= born

\* No event waits and is in a beacon, nor is it in two of them.
Apart == \A b \in beacons : /\ Ids(b) \cap Ids(pending) = {} /\ Ids(b) \cap Ids(Sent) = {}
                            /\ \A c \in beacons : b # c => Ids(b) \cap Ids(c) = {}

\* An event that may still be sent was logged only if the answer to that was lost.
Taken == flush # <<>> /\ flush[1].answer = "taken"
Resendable(events) == recorded \cap Ids(events) \subseteq unsure
Doubted == Resendable(pending) /\ (\A b \in beacons : Resendable(b)) /\ (~Taken => Resendable(Sent))

DiagInv == QueueTyped /\ Queued /\ Young /\ Fresh /\ Apart /\ Doubted /\ Moving /\ Accounted /\ LoggedOnce

LEMMA IdsOf ==
  ASSUME NEW q \in Batches
  PROVE  /\ Len(q) \in Nat /\ Ids(q) \subseteq Nat
         /\ \A i \in 1..Len(q) : q[i] \in Events /\ q[i].id \in Ids(q) /\ q[i].id \in Nat
         /\ q # <<>> => Len(q) > 0
<1>1. \A i \in 1..Len(q) : q[i] \in Events
  BY ElementOfSeq DEF Batches
<1>2. \A i \in 1..Len(q) : q[i].id \in Nat /\ q[i].id \in Ids(q)
  BY <1>1 DEF Events, Ids
<1>3. Len(q) \in Nat /\ (q # <<>> => Len(q) > 0)
  BY EmptySeq, LenProperties DEF Batches
<1> QED BY <1>1, <1>2, <1>3 DEF Ids

LEMMA PolicyTyped ==
  ASSUME NEW rules \in Policies
  PROVE rules.batch \in Nat \ {0}
<1>1. CASE rules \in Rules
  BY <1>1, RulesAssumption
<1>2. CASE rules = NoRules
  BY <1>2 DEF NoRules
<1> QED BY <1>1, <1>2 DEF Policies

LEMMA OnIs ==
  ASSUME NEW rules \in Policies
  PROVE rules.on \in BOOLEAN /\ rules.timed \in BOOLEAN
<1>1. CASE rules \in Rules
  BY <1>1, RulesAssumption
<1>2. CASE rules = NoRules
  BY <1>2 DEF NoRules
<1> QED BY <1>1, <1>2 DEF Policies

LEMMA FrontIs ==
  ASSUME NEW q \in Batches, NEW n \in Nat
  PROVE  /\ Leading(q, n) \in Batches /\ Len(Leading(q, n)) = Lesser(n, Len(q))
         /\ \A i \in 1..Lesser(n, Len(q)) : Leading(q, n)[i] = q[i]
<1>1. Len(q) \in Nat /\ \A i \in 1..Len(q) : q[i] \in Events
  BY IdsOf
<1>2. Lesser(n, Len(q)) \in Nat /\ Lesser(n, Len(q)) <= Len(q)
  BY <1>1 DEF Lesser
<1>3. \A i \in 1..Lesser(n, Len(q)) : q[i] \in Events
  BY <1>1, <1>2
<1>4. /\ SubSeq(q, 1, Lesser(n, Len(q))) \in Seq(Events)
      /\ Len(SubSeq(q, 1, Lesser(n, Len(q)))) = Lesser(n, Len(q))
      /\ \A i \in 1..Lesser(n, Len(q)) : SubSeq(q, 1, Lesser(n, Len(q)))[i] = q[i]
  <2> DEFINE m == Lesser(n, Len(q))
  <2>1. m \in Nat /\ \A i \in 1..m : q[i] \in Events
    BY <1>2, <1>3
  <2> HIDE DEF m
  <2>2. /\ SubSeq(q, 1, m) \in Seq(Events)
        /\ Len(SubSeq(q, 1, m)) = IF 1 <= m THEN m - 1 + 1 ELSE 0
        /\ \A i \in 1..(m - 1 + 1) : SubSeq(q, 1, m)[i] = q[1 + i - 1]
    BY <2>1, SubSeqProperties, 1 \in Int, m \in Int
  <2>3. /\ SubSeq(q, 1, m) \in Seq(Events) /\ Len(SubSeq(q, 1, m)) = m
        /\ \A i \in 1..m : SubSeq(q, 1, m)[i] = q[i]
    BY <2>1, <2>2
  <2> QED BY <2>3 DEF m
<1> QED BY <1>4 DEF Leading, Batches

LEMMA BeyondIs ==
  ASSUME NEW q \in Batches, NEW n \in Nat
  PROVE  /\ Beyond(q, n) \in Batches /\ Len(Beyond(q, n)) = Len(q) - Lesser(n, Len(q))
         /\ \A i \in 1..(Len(q) - Lesser(n, Len(q))) : Beyond(q, n)[i] = q[i + Lesser(n, Len(q))]
<1>1. Len(q) \in Nat /\ \A i \in 1..Len(q) : q[i] \in Events
  BY IdsOf
<1>2. Lesser(n, Len(q)) \in Nat /\ Lesser(n, Len(q)) <= Len(q)
  BY <1>1 DEF Lesser
<1> DEFINE m == Lesser(n, Len(q))
           l == Len(q)
<1>3. m \in Nat /\ l \in Nat /\ m <= l /\ \A i \in (m + 1)..l : q[i] \in Events
  BY <1>1, <1>2
<1> HIDE DEF m, l
<1>4. /\ SubSeq(q, m + 1, l) \in Seq(Events)
      /\ Len(SubSeq(q, m + 1, l)) = IF m + 1 <= l THEN l - (m + 1) + 1 ELSE 0
      /\ \A i \in 1..(l - (m + 1) + 1) : SubSeq(q, m + 1, l)[i] = q[m + 1 + i - 1]
  BY <1>3, SubSeqProperties, m + 1 \in Int, l \in Int
<1>5. /\ SubSeq(q, m + 1, l) \in Seq(Events) /\ Len(SubSeq(q, m + 1, l)) = l - m
      /\ \A i \in 1..(l - m) : SubSeq(q, m + 1, l)[i] = q[i + m]
  BY <1>3, <1>4
<1>6. Beyond(q, n) = SubSeq(q, m + 1, l)
  BY DEF Beyond, m, l
<1> QED BY <1>5, <1>6 DEF m, l, Batches

\* Cutting a queue in two.
LEMMA Splitting ==
  ASSUME NEW q \in Batches, NEW n \in Nat
  PROVE  /\ Leading(q, n) \in Batches /\ Beyond(q, n) \in Batches
         /\ Ids(Leading(q, n)) \cup Ids(Beyond(q, n)) = Ids(q)
         /\ Len(Beyond(q, n)) <= Len(q) /\ Len(Leading(q, n)) <= n
         /\ n > 0 /\ q # <<>> => Leading(q, n) # <<>>
<1> DEFINE f == Leading(q, n)
           b == Beyond(q, n)
           m == Lesser(n, Len(q))
<1>1. Len(q) \in Nat /\ m \in Nat /\ m <= Len(q) /\ m <= n
  BY IdsOf DEF Lesser
<1>2. f \in Batches /\ Len(f) = m /\ \A i \in 1..m : f[i] = q[i]
  BY FrontIs
<1>3. b \in Batches /\ Len(b) = Len(q) - m /\ \A i \in 1..(Len(q) - m) : b[i] = q[i + m]
  BY BeyondIs
<1> HIDE DEF f, b
<1>4. Ids(f) \subseteq Ids(q)
  BY <1>1, <1>2 DEF Ids
<1>5. Ids(b) \subseteq Ids(q)
  BY <1>1, <1>3 DEF Ids
<1>6. ASSUME NEW i \in 1..Len(q) PROVE q[i].id \in Ids(f) \cup Ids(b)
  <2>1. CASE i <= m
    BY <2>1, <1>1, <1>2 DEF Ids
  <2>2. CASE ~(i <= m)
    <3>1. i - m \in 1..(Len(q) - m) /\ (i - m) + m = i
      BY <2>2, <1>1
    <3> QED BY <3>1, <1>3 DEF Ids
  <2> QED BY <2>1, <2>2
<1>7. Ids(f) \cup Ids(b) = Ids(q)
  BY <1>4, <1>5, <1>6 DEF Ids
<1>8. n > 0 /\ q # <<>> => f # <<>>
  <2> SUFFICES ASSUME n > 0, q # <<>> PROVE f # <<>>
    OBVIOUS
  <2>1. m > 0
    BY IdsOf DEF Lesser
  <2> QED BY <2>1, <1>2
<1> QED BY <1>1, <1>2, <1>3, <1>7, <1>8 DEF f, b

LEMMA SplittingRises ==
  ASSUME NEW q \in Batches, NEW n \in Nat, Rising(q)
  PROVE  Rising(Leading(q, n)) /\ Rising(Beyond(q, n)) /\ Lined(Leading(q, n), Beyond(q, n))
<1> DEFINE f == Leading(q, n)
           b == Beyond(q, n)
           m == Lesser(n, Len(q))
<1>1. Len(q) \in Nat /\ m \in Nat /\ m <= Len(q) /\ m <= n
  BY IdsOf DEF Lesser
<1>2. f \in Batches /\ Len(f) = m /\ \A i \in 1..m : f[i] = q[i]
  BY FrontIs
<1>3. b \in Batches /\ Len(b) = Len(q) - m /\ \A i \in 1..(Len(q) - m) : b[i] = q[i + m]
  BY BeyondIs
<1> HIDE DEF f, b, m
<1>4. Rising(f)
  BY <1>1, <1>2 DEF Rising
<1>5. Rising(b)
  <2> SUFFICES ASSUME NEW i \in 1..Len(b), NEW j \in 1..Len(b), i < j PROVE b[i].id < b[j].id
    BY DEF Rising
  <2>1. i + m \in 1..Len(q) /\ j + m \in 1..Len(q) /\ i + m < j + m
    BY <1>1, <1>3
  <2>2. q[i + m].id < q[j + m].id
    BY <2>1 DEF Rising
  <2> QED BY <2>2, <1>3
<1>6. Lined(f, b)
  <2> SUFFICES ASSUME NEW i \in 1..Len(f), NEW j \in 1..Len(b) PROVE f[i].id < b[j].id
    BY DEF Lined, Ids
  <2>1. i \in 1..Len(q) /\ j + m \in 1..Len(q) /\ i < j + m
    BY <1>1, <1>2, <1>3
  <2>2. q[i].id < q[j + m].id
    BY <2>1 DEF Rising
  <2> QED BY <2>2, <1>2, <1>3
<1> QED BY <1>4, <1>5, <1>6 DEF f, b

LEMMA Joining ==
  ASSUME NEW a \in Batches, NEW b \in Batches
  PROVE  /\ a \o b \in Batches /\ Ids(a \o b) = Ids(a) \cup Ids(b)
         /\ Rising(a) /\ Rising(b) /\ Lined(a, b) => Rising(a \o b)
<1> DEFINE c == a \o b
<1>1. Len(a) \in Nat /\ Len(b) \in Nat /\ Ids(a) \subseteq Nat /\ Ids(b) \subseteq Nat
  BY IdsOf
<1>2. /\ c \in Batches /\ Len(c) = Len(a) + Len(b)
      /\ \A i \in 1..(Len(a) + Len(b)) : c[i] = IF i <= Len(a) THEN a[i] ELSE b[i - Len(a)]
  BY ConcatProperties DEF Batches
<1> HIDE DEF c
<1>3. ASSUME NEW i \in 1..Len(a) PROVE a[i].id \in Ids(c)
  BY <1>1, <1>2 DEF Ids
<1>4. ASSUME NEW i \in 1..Len(b) PROVE b[i].id \in Ids(c)
  <2>1. i + Len(a) \in 1..Len(c) /\ c[i + Len(a)] = b[i]
    BY <1>1, <1>2
  <2> QED BY <2>1 DEF Ids
<1>5. ASSUME NEW i \in 1..Len(c) PROVE c[i].id \in Ids(a) \cup Ids(b)
  <2>1. CASE i <= Len(a)
    BY <2>1, <1>1, <1>2 DEF Ids
  <2>2. CASE ~(i <= Len(a))
    <3>1. i - Len(a) \in 1..Len(b) /\ c[i] = b[i - Len(a)]
      BY <2>2, <1>1, <1>2
    <3> QED BY <3>1 DEF Ids
  <2> QED BY <2>1, <2>2
<1>6. Ids(c) = Ids(a) \cup Ids(b)
  BY <1>3, <1>4, <1>5 DEF Ids
<1>7. ASSUME Rising(a), Rising(b), Lined(a, b) PROVE Rising(c)
  <2> SUFFICES ASSUME NEW i \in 1..Len(c), NEW j \in 1..Len(c), i < j PROVE c[i].id < c[j].id
    BY DEF Rising
  <2>1. CASE j <= Len(a)
    BY <2>1, <1>1, <1>2, <1>7 DEF Rising
  <2>2. CASE i <= Len(a) /\ ~(j <= Len(a))
    <3>1. j - Len(a) \in 1..Len(b) /\ i \in 1..Len(a) /\ c[j] = b[j - Len(a)] /\ c[i] = a[i]
      BY <2>2, <1>1, <1>2
    <3>2. a[i].id \in Ids(a) /\ b[j - Len(a)].id \in Ids(b)
      BY <3>1 DEF Ids
    <3> QED BY <3>1, <3>2, <1>7 DEF Lined
  <2>3. CASE ~(i <= Len(a))
    <3>1. /\ i - Len(a) \in 1..Len(b) /\ j - Len(a) \in 1..Len(b) /\ i - Len(a) < j - Len(a)
          /\ c[j] = b[j - Len(a)] /\ c[i] = b[i - Len(a)]
      BY <2>3, <1>1, <1>2
    <3> QED BY <3>1, <1>7 DEF Rising
  <2> QED BY <2>1, <2>2, <2>3, <1>1, <1>2
<1> QED BY <1>2, <1>6, <1>7 DEF c

LEMMA Tailing ==
  ASSUME NEW q \in Batches, q # <<>>
  PROVE  /\ Tail(q) \in Batches /\ Ids(Tail(q)) \subseteq Ids(q) /\ Len(Tail(q)) = Len(q) - 1
         /\ Rising(q) => Rising(Tail(q))
<1> DEFINE t == Tail(q)
<1>1. t \in Batches /\ Len(t) = Len(q) - 1 /\ \A i \in 1..Len(t) : t[i] = q[i + 1]
  BY HeadTailProperties DEF Batches
<1>2. Len(q) \in Nat
  BY IdsOf
<1> HIDE DEF t
<1>3. Ids(t) \subseteq Ids(q)
  BY <1>1, <1>2 DEF Ids
<1>4. ASSUME Rising(q) PROVE Rising(t)
  <2> SUFFICES ASSUME NEW i \in 1..Len(t), NEW j \in 1..Len(t), i < j PROVE t[i].id < t[j].id
    BY DEF Rising
  <2>1. i + 1 \in 1..Len(q) /\ j + 1 \in 1..Len(q) /\ i + 1 < j + 1
    BY <1>1, <1>2
  <2>2. q[i + 1].id < q[j + 1].id
    BY <2>1, <1>4 DEF Rising
  <2> QED BY <2>2, <1>1
<1> QED BY <1>1, <1>3, <1>4 DEF t

LEMMA Growing ==
  ASSUME NEW q \in Batches, NEW e \in Events
  PROVE  /\ Append(q, e) \in Batches /\ Ids(Append(q, e)) = Ids(q) \cup {e.id} /\ Append(q, e) # <<>>
         /\ Len(Append(q, e)) = Len(q) + 1
         /\ Rising(q) /\ (\A x \in Ids(q) : x < e.id) => Rising(Append(q, e))
<1> DEFINE c == Append(q, e)
<1>1. /\ c \in Batches /\ c # <<>> /\ Len(c) = Len(q) + 1 /\ c[Len(q) + 1] = e
      /\ \A i \in 1..Len(q) : c[i] = q[i]
  BY AppendProperties DEF Batches
<1>2. Len(q) \in Nat
  BY IdsOf
<1> HIDE DEF c
<1>3. Ids(c) = Ids(q) \cup {e.id}
  <2>1. ASSUME NEW i \in 1..Len(c) PROVE c[i].id \in Ids(q) \cup {e.id}
    BY <1>1, <1>2 DEF Ids
  <2>2. ASSUME NEW i \in 1..Len(q) PROVE q[i].id \in Ids(c)
    BY <1>1, <1>2 DEF Ids
  <2>3. e.id \in Ids(c)
    <3>1. Len(q) + 1 \in 1..Len(c)
      BY <1>1, <1>2
    <3> QED BY <3>1, <1>1 DEF Ids
  <2> QED BY <2>1, <2>2, <2>3 DEF Ids
<1>4. ASSUME Rising(q), \A x \in Ids(q) : x < e.id PROVE Rising(c)
  <2> SUFFICES ASSUME NEW i \in 1..Len(c), NEW j \in 1..Len(c), i < j PROVE c[i].id < c[j].id
    BY DEF Rising
  <2>1. CASE j <= Len(q)
    BY <2>1, <1>1, <1>2, <1>4 DEF Rising
  <2>2. CASE ~(j <= Len(q))
    <3>1. j = Len(q) + 1 /\ i \in 1..Len(q)
      BY <2>2, <1>1, <1>2
    <3>2. q[i].id \in Ids(q)
      BY <3>1 DEF Ids
    <3> QED BY <3>1, <3>2, <1>1, <1>4
  <2> QED BY <2>1, <2>2
<1> QED BY <1>1, <1>3, <1>4 DEF c

\* The batch under way, when there is one.
LEMMA SendingIs ==
  ASSUME QueueTyped, flush # <<>>
  PROVE  flush[1].events = Sent /\ flush = <<[events |-> Sent, answer |-> flush[1].answer]>>
BY DEF QueueTyped, Sent

\* A flush of a queue that is in order.
LEMMA FlushIs ==
  ASSUME QueueTyped, NEW q \in Batches, Flush(q)
  PROVE  /\ pending' \in Batches /\ Sent' \in Batches /\ Len(pending') <= Len(q)
         /\ Ids(Sent') \cup Ids(pending') = Ids(Sent) \cup Ids(q) /\ Ids(pending') \subseteq Ids(q)
         /\ (flush' # <<>> => flush' = <<[events |-> Sent', answer |-> flush'[1].answer]>>)
         /\ (Taken' => flush' = flush)
         /\ (transport.on /\ pending' # <<>> => flush' # <<>>)
         /\ (Rising(q) /\ Rising(Sent) /\ Lined(Sent, q) => Rising(pending') /\ Rising(Sent') /\ Lined(Sent', pending'))
         /\ flushTimer' = FALSE
<1>1. flushTimer' = FALSE
  BY DEF Flush
<1>2. Len(q) \in Nat
  BY IdsOf
<1>3. CASE flush = <<>> /\ transport.on /\ q # <<>>
  <2> DEFINE f == Leading(q, transport.batch)
             b == Beyond(q, transport.batch)
  <2>1. transport.batch \in Nat
    BY PolicyTyped DEF QueueTyped
  <2>2. f \in Batches /\ b \in Batches /\ Ids(f) \cup Ids(b) = Ids(q) /\ Len(b) <= Len(q)
    BY <2>1, Splitting
  <2>3. Rising(q) => Rising(f) /\ Rising(b) /\ Lined(f, b)
    BY <2>1, SplittingRises
  <2>4. flush' = <<[events |-> f, answer |-> "none"]>> /\ pending' = b
    BY <1>3 DEF Flush
  <2> HIDE DEF f, b
  <2>5. Sent' = f /\ flush' # <<>> /\ flush'[1].answer = "none"
    BY <2>4 DEF Sent
  <2>6. Sent = <<>> /\ Ids(Sent) = {}
    BY <1>3 DEF Sent, Ids
  <2>7. ~Taken'
    BY <2>5 DEF Taken
  <2> QED BY <1>1, <2>2, <2>3, <2>4, <2>5, <2>6, <2>7
<1>4. CASE ~(flush = <<>> /\ transport.on /\ q # <<>>)
  <2>1. flush' = flush /\ pending' = q
    BY <1>4 DEF Flush
  <2>2. Sent' = Sent
    BY <2>1 DEF Sent
  <2>3. transport.on /\ pending' # <<>> => flush' # <<>>
    BY <1>4, <2>1
  <2> QED BY <1>1, <1>2, <2>1, <2>2, <2>3 DEF QueueTyped
<1> QED BY <1>3, <1>4

\* The part of the state that the functions of the page leave to the server, or the other way round.
Policied == transport' \in Policies /\ served' \in Policies /\ \A answer \in answers' : answer.rules \in Policies
Flags == flushTimer' \in BOOLEAN /\ here' \in BOOLEAN /\ expiry' \in BOOLEAN

LEMMA InitDiagInv == DiagnosticsInit => DiagInv
<1> SUFFICES ASSUME DiagnosticsInit PROVE DiagInv
  OBVIOUS
<1> USE DEF DiagnosticsInit
<1>1. Sent = <<>> /\ pending = <<>> /\ <<>> \in Batches /\ Ids(<<>>) = {} /\ Len(<<>>) = 0
  BY EmptySeq DEF Sent, Batches, Ids
<1>2. QueueTyped
  BY <1>1 DEF QueueTyped, Policies
<1>3. Rising(<<>>)
  BY DEF Rising
<1>4. Queued
  BY <1>1, <1>3, QueueAssumption DEF Queued, Lined
<1>5. Young /\ Fresh /\ Apart /\ Doubted /\ LoggedOnce
  BY <1>1 DEF Young, Fresh, Known, Apart, Doubted, Resendable, LoggedOnce
<1>6. Moving /\ Accounted
  BY DEF Moving, Accounted
<1> QED BY <1>2, <1>4, <1>5, <1>6 DEF DiagInv

\* A step that leaves the queue, the batch under way and what is logged alone.
LEMMA QuietStep ==
  ASSUME DiagInv, pending' = pending, flush' = flush, beacons' = beacons, born' = born, UNCHANGED logVars,
         dropped \subseteq dropped', Policied, Flags, Moving'
  PROVE  DiagInv'
<1>1. Sent' = Sent /\ Taken' = Taken
  BY DEF Sent, Taken
<1>2. QueueTyped'
  BY <1>1 DEF DiagInv, QueueTyped, Policied, Flags
<1>3. Queued' /\ Young' /\ Fresh' /\ Apart'
  BY <1>1 DEF logVars, Fresh, DiagInv, Queued, Young, Known, Apart
<1>4. Doubted' /\ LoggedOnce'
  BY <1>1 DEF DiagInv, Doubted, Resendable, LoggedOnce, logVars
<1>5. Accounted'
  BY <1>1 DEF DiagInv, Accounted, Beaconed, logVars
<1> QED BY <1>2, <1>3, <1>4, <1>5 DEF DiagInv

\* A step that rearranges what waits and what is under way.
Rearranged ==
    /\ pending' \in Batches /\ Sent' \in Batches
    /\ (flush' # <<>> => flush' = <<[events |-> Sent', answer |-> flush'[1].answer]>>)
    /\ Queued'
    /\ Ids(Sent') \cup Ids(pending') \subseteq Ids(Sent) \cup Ids(pending)
    /\ (Ids(Sent) \cup Ids(pending)) \ (Ids(Sent') \cup Ids(pending')) \subseteq dropped' \cup recorded
    /\ Resendable(pending') /\ (~Taken' => Resendable(Sent'))
LEMMA RearrangingStep ==
  ASSUME DiagInv, Rearranged, beacons' = beacons, born' = born, UNCHANGED logVars,
         dropped \subseteq dropped', Policied, Flags, Moving'
  PROVE  DiagInv'
<1>1. QueueTyped'
  BY DEF DiagInv, QueueTyped, Policied, Flags, Rearranged
<1>2. Queued'
  BY DEF Rearranged
<1>3. Young' /\ Fresh'
  BY DEF DiagInv, Young, Known, Rearranged, Fresh, logVars
<1>4. Apart'
  BY DEF DiagInv, Apart, Rearranged
<1>5. Doubted'
  BY DEF DiagInv, Doubted, Resendable, Rearranged, logVars
<1>6. LoggedOnce'
  BY DEF DiagInv, LoggedOnce, logVars
<1>7. Accounted'
  BY DEF DiagInv, Accounted, Beaconed, Rearranged, logVars
<1> QED BY <1>1, <1>2, <1>3, <1>4, <1>5, <1>6, <1>7 DEF DiagInv

LEMMA PolicedIs ==
  ASSUME DiagInv, NEW rules \in Policies, applyDiagnosticPolicy(rules), UNCHANGED <<served, flush, beacons, here, born, logVars>>,
         \A answer \in answers' : answer.rules \in Policies
  PROVE  DiagInv'
<1>1. Policied
  BY DEF DiagInv, QueueTyped, applyDiagnosticPolicy, Policied
<1>2. rules.on \in BOOLEAN /\ rules.timed \in BOOLEAN
  BY OnIs
<1>3. Sent' = Sent /\ Taken' = Taken /\ transport' = rules
  BY DEF Sent, Taken, applyDiagnosticPolicy
<1>4. CASE rules.on
  <2>1. pending' = pending /\ dropped' = dropped /\ flushTimer' = (flushTimer \/ pending # <<>>)
    BY <1>4 DEF applyDiagnosticPolicy
  <2>2. Flags
    BY <2>1, <1>2 DEF Flags, DiagInv, QueueTyped, applyDiagnosticPolicy
  <2>3. Moving'
    BY <2>1 DEF Moving
  <2> QED BY <1>1, <2>1, <2>2, <2>3, QuietStep
<1>5. CASE ~rules.on
  <2>1. pending' = <<>> /\ flushTimer' = FALSE /\ dropped' = dropped \cup (Ids(pending) \ recorded)
    BY <1>5 DEF applyDiagnosticPolicy
  <2>2. Flags
    BY <2>1, <1>2 DEF Flags, DiagInv, QueueTyped, applyDiagnosticPolicy
  <2>3. Moving'
    BY <2>1 DEF Moving
  <2>4. <<>> \in Batches /\ Ids(<<>>) = {} /\ Len(<<>>) = 0 /\ Rising(<<>>)
    BY EmptySeq DEF Batches, Ids, Rising
  <2>5. Queued'
    BY <2>1, <2>4, <1>3, QueueAssumption DEF DiagInv, Queued, Lined
  <2>6. Rearranged
    BY <2>1, <2>4, <2>5, <1>3 DEF Rearranged, DiagInv, QueueTyped, Doubted, Resendable, Taken
  <2> QED BY <1>1, <2>1, <2>2, <2>3, <2>6, RearrangingStep
<1> QED BY <1>4, <1>5

LEMMA TimerKeeps == ASSUME DiagInv, TimerFires PROVE DiagInv'
<1>1. QueueTyped /\ pending \in Batches /\ Flush(pending)
  BY DEF DiagInv, QueueTyped, TimerFires
<1>2. /\ pending' \in Batches /\ Sent' \in Batches /\ Len(pending') <= Len(pending)
      /\ Ids(Sent') \cup Ids(pending') = Ids(Sent) \cup Ids(pending) /\ Ids(pending') \subseteq Ids(pending)
      /\ (flush' # <<>> => flush' = <<[events |-> Sent', answer |-> flush'[1].answer]>>)
      /\ (Taken' => flush' = flush)
      /\ (transport.on /\ pending' # <<>> => flush' # <<>>)
      /\ (Rising(pending) /\ Rising(Sent) /\ Lined(Sent, pending) => Rising(pending') /\ Rising(Sent') /\ Lined(Sent', pending'))
      /\ flushTimer' = FALSE
  BY <1>1, FlushIs
<1>3. Queued'
  <2>1. Len(pending) \in Nat /\ Len(pending') \in Nat /\ QueueSize \in Nat
    BY <1>1, <1>2, IdsOf, QueueAssumption
  <2> QED BY <1>2, <2>1 DEF DiagInv, Queued
<1>4. Resendable(pending') /\ (~Taken' => Resendable(Sent'))
  <2>1. Resendable(pending')
    BY <1>2 DEF DiagInv, Doubted, Resendable
  <2>2. ASSUME ~Taken' PROVE Resendable(Sent')
    <3>1. ~Taken \/ flush' # flush
      BY <2>2 DEF Taken
    <3>2. flush' # flush => flush = <<>> /\ Ids(Sent) = {}
      BY <1>1 DEF Flush, Sent, Ids
    <3>3. ~Taken
      BY <3>1, <3>2 DEF Taken
    <3> QED BY <3>3, <1>2 DEF DiagInv, Doubted, Resendable
  <2> QED BY <2>1, <2>2
<1>5. Rearranged
  BY <1>2, <1>3, <1>4 DEF Rearranged
<1>6. Moving'
  BY <1>2 DEF Moving, TimerFires
<1>7. Policied /\ Flags
  BY <1>2 DEF Policied, Flags, TimerFires, DiagInv, QueueTyped
<1> QED BY <1>5, <1>6, <1>7, RearrangingStep DEF TimerFires, logVars

LEMMA EmitKeeps == ASSUME DiagInv, NEW severe \in BOOLEAN, NEW fine \in BOOLEAN, Emit(severe, fine) PROVE DiagInv'
<1> DEFINE e == [id |-> born + 1, severe |-> severe, fine |-> fine]
           kept == IF Len(pending) >= QueueSize THEN Tail(pending) ELSE pending
           q == Append(kept, e)
<1>1. /\ pending \in Batches /\ Sent \in Batches /\ born \in Nat /\ Len(pending) \in Nat /\ QueueSize \in Nat \ {0}
      /\ Len(pending) <= QueueSize /\ Rising(pending) /\ Rising(Sent) /\ Lined(Sent, pending)
      /\ Known(pending) /\ Known(Sent) /\ QueueTyped
  BY IdsOf, QueueAssumption DEF DiagInv, QueueTyped, Queued, Young
<1>2. /\ kept \in Batches /\ Ids(kept) \subseteq Ids(pending) /\ Len(kept) < QueueSize /\ Rising(kept)
  <2>1. CASE Len(pending) >= QueueSize
    <3>1. pending # <<>>
      BY <2>1, <1>1
    <3>2. kept = Tail(pending)
      BY <2>1
    <3>3. /\ Tail(pending) \in Batches /\ Ids(Tail(pending)) \subseteq Ids(pending) /\ Len(Tail(pending)) = Len(pending) - 1
          /\ Rising(pending) => Rising(Tail(pending))
      BY <3>1, <1>1, Tailing
    <3> QED BY <3>2, <3>3, <1>1
  <2>2. CASE ~(Len(pending) >= QueueSize)
    BY <2>2, <1>1
  <2> QED BY <2>1, <2>2
<1>3. e \in Events /\ e.id = born + 1
  BY <1>1 DEF Events
<1> HIDE DEF e, kept
<1>4. Ids(pending) \subseteq Nat /\ Ids(Sent) \subseteq Nat /\ Ids(kept) \subseteq Nat /\ Len(kept) \in Nat
  BY <1>1, <1>2, IdsOf
<1>5. \A x \in Ids(kept) : x < e.id
  BY <1>1, <1>2, <1>3, <1>4 DEF Known
<1>6. /\ q \in Batches /\ Ids(q) = Ids(kept) \cup {born + 1} /\ q # <<>> /\ Len(q) <= QueueSize /\ Rising(q)
  <2>1. /\ q \in Batches /\ Ids(q) = Ids(kept) \cup {e.id} /\ q # <<>> /\ Len(q) = Len(kept) + 1
        /\ Rising(kept) /\ (\A x \in Ids(kept) : x < e.id) => Rising(q)
    BY <1>2, <1>3, Growing
  <2>2. Len(q) <= QueueSize
    BY <2>1, <1>1, <1>2, <1>4
  <2> HIDE DEF q
  <2> QED BY <2>1, <2>2, <1>2, <1>3, <1>5
<1>7. Lined(Sent, q)
  <2> SUFFICES ASSUME NEW x \in Ids(Sent), NEW y \in Ids(q) PROVE x < y
    BY DEF Lined
  <2>1. CASE y \in Ids(kept)
    BY <2>1, <1>1, <1>2 DEF Lined
  <2>2. CASE y = born + 1
    BY <2>2, <1>1, <1>4 DEF Known
  <2> QED BY <2>1, <2>2, <1>6
<1> HIDE DEF q
<1>8. /\ born' = born + 1 /\ dropped' = dropped \cup (Ids(pending) \ Ids(q))
      /\ IF Len(q) >= transport.batch THEN Flush(q) ELSE pending' = q /\ flushTimer' = TRUE /\ UNCHANGED flush
      /\ UNCHANGED <<served, transport, beacons, answers, expiry, here, logVars>>
  BY DEF Emit, Enqueued, e, kept, q
<1>9. /\ pending' \in Batches /\ Sent' \in Batches /\ Len(pending') <= Len(q)
      /\ Ids(Sent') \cup Ids(pending') = Ids(Sent) \cup Ids(q) /\ Ids(pending') \subseteq Ids(q)
      /\ (flush' # <<>> => flush' = <<[events |-> Sent', answer |-> flush'[1].answer]>>)
      /\ (Taken' => flush' = flush)
      /\ (transport.on /\ pending' # <<>> => flushTimer' \/ flush' # <<>>)
      /\ Rising(pending') /\ Rising(Sent') /\ Lined(Sent', pending')
      /\ flushTimer' \in BOOLEAN
  <2>1. CASE Len(q) >= transport.batch
    <3>1. Flush(q)
      BY <2>1, <1>8
    <3> QED BY <3>1, <1>1, <1>6, <1>7, FlushIs
  <2>2. CASE ~(Len(q) >= transport.batch)
    <3>1. pending' = q /\ flushTimer' = TRUE /\ flush' = flush
      BY <2>2, <1>8
    <3>2. Sent' = Sent
      BY <3>1 DEF Sent
    <3>3. Len(q) \in Nat
      BY <1>6, IdsOf
    <3> QED BY <3>1, <3>2, <3>3, <1>1, <1>6, <1>7 DEF QueueTyped
  <2> QED BY <2>1, <2>2
<1>10. QueueTyped'
  BY <1>1, <1>8, <1>9 DEF QueueTyped
<1>11. Queued'
  <2>1. Len(q) \in Nat /\ Len(pending') \in Nat
    BY <1>6, <1>9, IdsOf
  <2> QED BY <2>1, <1>1, <1>6, <1>9 DEF Queued
<1>12. Young'
  <2>1. \A b \in beacons : b \in Batches /\ Ids(b) \subseteq Nat /\ Known(b)
    BY IdsOf DEF DiagInv, QueueTyped, Young
  <2>2. \A x \in Ids(Sent) \cup Ids(q) : x <= born + 1
    BY <1>1, <1>2, <1>4, <1>6 DEF Known
  <2>3. Known(pending)' /\ Known(Sent)'
    BY <2>2, <1>8, <1>9 DEF Known
  <2>4. \A b \in beacons' : \A x \in Ids(b) : x <= born'
    BY <2>1, <1>1, <1>8 DEF Known
  <2> QED BY <2>3, <2>4 DEF Young, Known
<1>13. Apart'
  <2>1. \A b \in beacons : Known(b) /\ Ids(b) \subseteq Nat
    BY IdsOf DEF DiagInv, QueueTyped, Young
  <2>2. \A b \in beacons : born + 1 \notin Ids(b)
    BY <2>1, <1>1 DEF Known
  <2> QED BY <2>2, <1>2, <1>6, <1>8, <1>9 DEF DiagInv, Apart
<1>14. Doubted'
  <2>1. born + 1 \notin recorded
    BY <1>1 DEF DiagInv, Fresh
  <2>2. Resendable(q)
    BY <2>1, <1>2, <1>6 DEF DiagInv, Doubted, Resendable
  <2>3. Resendable(pending') /\ recorded' = recorded /\ unsure' = unsure /\ beacons' = beacons
    BY <2>2, <1>8, <1>9 DEF Resendable, logVars
  <2>4. ASSUME ~Taken' PROVE Resendable(Sent')
    <3>1. CASE flush' = flush
      <4>1. ~Taken /\ Sent' = Sent
        BY <3>1, <2>4 DEF Taken, Sent
      <4> QED BY <4>1 DEF DiagInv, Doubted
    <3>2. CASE flush' # flush
      <4>1. flush = <<>>
        BY <3>2, <1>8 DEF Flush
      <4>2. Ids(Sent) = {}
        BY <4>1 DEF Sent, Ids
      <4> QED BY <4>2, <2>2, <1>9 DEF Resendable
    <3> QED BY <3>1, <3>2
  <2> QED BY <2>3, <2>4 DEF DiagInv, Doubted, Resendable
<1>15. Moving'
  BY <1>8, <1>9 DEF Moving
<1>16. Accounted' /\ LoggedOnce' /\ Fresh'
  <2>1. 1..born' = 1..born \cup {born + 1}
    BY <1>1, <1>8
  <2>2. Accounted'
    BY <2>1, <1>6, <1>8, <1>9 DEF DiagInv, Accounted, Beaconed, logVars
  <2>3. Fresh'
    BY <1>1, <1>8 DEF DiagInv, Fresh, logVars
  <2> QED BY <2>2, <2>3, <1>8 DEF DiagInv, LoggedOnce, logVars
<1> QED BY <1>10, <1>11, <1>12, <1>13, <1>14, <1>15, <1>16 DEF DiagInv

LEMMA AnswerKeeps == ASSUME DiagInv, AnswerBatch PROVE DiagInv'
<1> DEFINE back == flush[1].answer = "again"
           now == IF back THEN Refilled(Sent) ELSE pending
<1>1. /\ pending \in Batches /\ Sent \in Batches /\ QueueSize \in Nat \ {0} /\ QueueTyped
      /\ Len(pending) <= QueueSize /\ Rising(pending) /\ Rising(Sent) /\ Lined(Sent, pending)
  BY QueueAssumption DEF DiagInv, QueueTyped, Queued
<1>2. flush # <<>> /\ flush[1].events = Sent
  BY <1>1, SendingIs DEF AnswerBatch
<1>3. /\ pending' = now /\ flush' = <<>> /\ dropped' = dropped \cup ((Ids(Sent) \cup Ids(pending)) \ (Ids(now) \cup recorded))
      /\ flushTimer' = (flushTimer \/ (transport.on /\ now # <<>>))
      /\ UNCHANGED <<served, transport, beacons, answers, expiry, here, born, logVars, room>>
  BY <1>2 DEF AnswerBatch
<1>4. now \in Batches /\ Len(now) <= QueueSize /\ Rising(now) /\ Ids(now) \subseteq Ids(Sent) \cup Ids(pending)
  <2>1. CASE back
    <3>1. Sent \o pending \in Batches /\ Ids(Sent \o pending) = Ids(Sent) \cup Ids(pending) /\ Rising(Sent \o pending)
      BY <1>1, Joining
    <3>2. now = Leading(Sent \o pending, QueueSize)
      BY <2>1 DEF Refilled
    <3>3. /\ Leading(Sent \o pending, QueueSize) \in Batches /\ Len(Leading(Sent \o pending, QueueSize)) <= QueueSize
          /\ Ids(Leading(Sent \o pending, QueueSize)) \subseteq Ids(Sent \o pending)
      BY <3>1, <1>1, Splitting
    <3>4. Rising(Leading(Sent \o pending, QueueSize))
      BY <3>1, <1>1, SplittingRises
    <3> HIDE DEF now
    <3> QED BY <3>1, <3>2, <3>3, <3>4
  <2>2. CASE ~back
    BY <2>2, <1>1
  <2> QED BY <2>1, <2>2
<1>5. Resendable(now)
  <2>1. CASE back
    <3>1. ~Taken
      BY <2>1 DEF Taken
    <3> HIDE DEF now
    <3> QED BY <3>1, <1>4 DEF DiagInv, Doubted, Resendable
  <2>2. CASE ~back
    BY <2>2 DEF DiagInv, Doubted
  <2> QED BY <2>1, <2>2
<1> HIDE DEF now, back
<1>6. Sent' = <<>> /\ Ids(<<>>) = {} /\ Rising(<<>>) /\ <<>> \in Batches
  BY <1>3, EmptySeq DEF Sent, Ids, Rising, Batches
<1>7. Queued'
  BY <1>3, <1>4, <1>6 DEF Queued, Lined
<1>8. Rearranged
  BY <1>3, <1>4, <1>5, <1>6, <1>7 DEF Rearranged, Resendable
<1>9. Moving'
  BY <1>3 DEF Moving
<1>10. Policied /\ Flags
  <2>1. transport.on \in BOOLEAN
    BY <1>1, OnIs DEF QueueTyped
  <2> QED BY <1>1, <1>3, <2>1 DEF Policied, Flags, QueueTyped
<1> QED BY <1>3, <1>8, <1>9, <1>10, RearrangingStep

LEMMA FailKeeps == ASSUME DiagInv, FailBatch PROVE DiagInv'
<1>1. QueueTyped /\ flush # <<>>
  BY DEF DiagInv, FailBatch
<1>2. flush[1].events = Sent
  BY <1>1, SendingIs
<1>3. /\ flush' = <<[events |-> Sent, answer |-> "again"]>>
      /\ unsure' = (IF flush[1].answer = "taken" THEN unsure \cup Ids(Sent) ELSE unsure)
      /\ UNCHANGED <<served, transport, pending, flushTimer, beacons, answers, expiry, here, born, recorded, twice, dropped>>
  BY <1>2 DEF FailBatch
<1>4. Sent' = Sent /\ ~Taken' /\ flush' # <<>>
  BY <1>3 DEF Sent, Taken
<1>5. QueueTyped'
  BY <1>1, <1>3, <1>4 DEF QueueTyped
<1>6. Queued' /\ Young' /\ Fresh' /\ Apart'
  BY <1>3, <1>4 DEF DiagInv, Queued, Young, Known, Fresh, Apart
<1>7. Doubted' /\ LoggedOnce'
  <2>1. unsure \subseteq unsure'
    BY <1>3
  <2>2. Resendable(Sent)'
    <3>1. CASE flush[1].answer = "taken"
      BY <3>1, <1>3, <1>4 DEF Resendable
    <3>2. CASE flush[1].answer # "taken"
      <4>1. ~Taken
        BY <3>2 DEF Taken
      <4> QED BY <4>1, <1>3, <1>4 DEF DiagInv, Doubted, Resendable
    <3> QED BY <3>1, <3>2
  <2> QED BY <2>1, <2>2, <1>3, <1>4 DEF DiagInv, Doubted, Resendable, LoggedOnce
<1>8. Moving' /\ Accounted'
  BY <1>3, <1>4 DEF DiagInv, Moving, Accounted, Beaconed
<1> QED BY <1>5, <1>6, <1>7, <1>8 DEF DiagInv

\* What the server logs of a batch.
LEMMA LogIs ==
  ASSUME QueueTyped, NEW events \in Batches, NEW sample, Log(events, sample)
  PROVE  \E new \in SUBSET Ids(events) : recorded' = recorded \cup new /\ twice' = twice \cup (recorded \cap new)
<1> DEFINE new == IF served.on THEN Wanted(events, sample) ELSE {}
<1>1. new \subseteq Ids(events)
  <2>1. \A i \in Accepted(events) : i \in 1..Len(events)
    BY DEF Accepted
  <2> QED BY <2>1 DEF Wanted, Ids
<1>2. recorded' = recorded \cup new /\ twice' = twice \cup (recorded \cap new)
  BY DEF Log
<1> QED BY <1>1, <1>2

LEMMA TakeKeeps == ASSUME DiagInv, NEW sample, TakeBatch(sample) PROVE DiagInv'
<1>1. QueueTyped /\ flush # <<>> /\ flush[1].answer = "none"
  BY DEF DiagInv, TakeBatch
<1>2. flush[1].events = Sent /\ Sent \in Batches
  BY <1>1, SendingIs DEF QueueTyped
<1>3. PICK new \in SUBSET Ids(Sent) : recorded' = recorded \cup new /\ twice' = twice \cup (recorded \cap new)
  BY <1>1, <1>2, LogIs DEF TakeBatch
<1>4. /\ flush' = <<[events |-> Sent, answer |-> "taken"]>>
      /\ UNCHANGED <<served, transport, pending, flushTimer, beacons, answers, expiry, here, born, unsure, dropped, room>>
  BY <1>2 DEF TakeBatch
<1>5. Sent' = Sent /\ Taken' /\ flush' # <<>> /\ ~Taken
  BY <1>1, <1>4 DEF Sent, Taken
<1>6. QueueTyped'
  BY <1>1, <1>4, <1>5 DEF QueueTyped
<1>7. Queued' /\ Young' /\ Apart'
  BY <1>4, <1>5 DEF DiagInv, Queued, Young, Known, Apart
<1>8. Fresh'
  <2>1. \A x \in Ids(Sent) : x \in Nat /\ x <= born
    BY <1>2, IdsOf DEF DiagInv, Young, Known
  <2> QED BY <2>1, <1>3, <1>4 DEF DiagInv, Fresh
<1>9. Doubted' /\ LoggedOnce'
  <2>1. Ids(Sent) \cap Ids(pending) = {}
    <3>1. Ids(Sent) \subseteq Nat
      BY <1>2, IdsOf
    <3> QED BY <3>1 DEF DiagInv, Queued, Lined
  <2>2. \A b \in beacons : Ids(b) \cap Ids(Sent) = {}
    BY DEF DiagInv, Apart
  <2>3. Resendable(Sent)
    BY <1>5 DEF DiagInv, Doubted
  <2> QED BY <2>1, <2>2, <2>3, <1>3, <1>4, <1>5 DEF DiagInv, Doubted, Resendable, LoggedOnce
<1>10. Moving' /\ Accounted'
  BY <1>3, <1>4, <1>5 DEF DiagInv, Moving, Accounted, Beaconed
<1> QED BY <1>6, <1>7, <1>8, <1>9, <1>10 DEF DiagInv

\* A beacon leaves: what is in it is logged or given up.
LEMMA BeaconLeaves ==
  ASSUME DiagInv, NEW batch \in beacons, NEW new \in SUBSET Ids(batch),
         recorded' = recorded \cup new, twice' = twice \cup (recorded \cap new),
         dropped \subseteq dropped', Ids(batch) \subseteq recorded' \cup dropped', beacons' = beacons \ {batch},
         UNCHANGED <<served, transport, pending, flushTimer, flush, answers, expiry, here, born, unsure>>
  PROVE  DiagInv'
<1>1. QueueTyped /\ Sent' = Sent /\ Taken' = Taken
  BY DEF Sent, Taken, DiagInv
<1>2. QueueTyped'
  BY <1>1 DEF QueueTyped
<1>3. Queued' /\ Young' /\ Apart'
  BY <1>1 DEF DiagInv, Queued, Young, Known, Apart
<1>4. Fresh'
  <2>1. \A x \in Ids(batch) : x \in Nat /\ x <= born
    BY <1>1, IdsOf DEF DiagInv, Young, Known, QueueTyped
  <2> QED BY <2>1 DEF DiagInv, Fresh
<1>5. Doubted' /\ LoggedOnce'
  <2>1. Resendable(batch) /\ Ids(batch) \cap Ids(pending) = {} /\ Ids(batch) \cap Ids(Sent) = {}
    BY DEF DiagInv, Doubted, Apart
  <2>2. \A b \in beacons' : Ids(b) \cap Ids(batch) = {}
    BY DEF DiagInv, Apart
  <2> QED BY <2>1, <2>2, <1>1 DEF DiagInv, Doubted, Resendable, LoggedOnce
<1>6. Moving'
  BY DEF DiagInv, Moving
<1>7. Accounted'
  <2>1. Beaconed \subseteq Beaconed' \cup Ids(batch)
    BY DEF Beaconed
  <2> QED BY <2>1, <1>1 DEF DiagInv, Accounted
<1> QED BY <1>2, <1>3, <1>4, <1>5, <1>6, <1>7 DEF DiagInv

LEMMA BeaconKeeps ==
  ASSUME DiagInv, NEW batch \in beacons, LoseBeacon(batch) \/ \E sample \in SUBSET (1..BeaconSize) : TakeBeacon(batch, sample)
  PROVE  DiagInv'
<1>1. CASE LoseBeacon(batch)
  <2>1. recorded' = recorded \cup {} /\ twice' = twice \cup (recorded \cap {}) /\ {} \in SUBSET Ids(batch)
    BY <1>1 DEF LoseBeacon, logVars
  <2>2. dropped' = dropped \cup Ids(batch) /\ beacons' = beacons \ {batch}
        /\ UNCHANGED <<served, transport, pending, flushTimer, flush, answers, expiry, here, born, unsure>>
    BY <1>1 DEF LoseBeacon, logVars
  <2> QED BY <2>1, <2>2, BeaconLeaves
<1>2. ASSUME NEW sample, TakeBeacon(batch, sample) PROVE DiagInv'
  <2>1. QueueTyped /\ batch \in Batches
    BY DEF DiagInv, QueueTyped
  <2>2. PICK new \in SUBSET Ids(batch) : recorded' = recorded \cup new /\ twice' = twice \cup (recorded \cap new)
    BY <1>2, <2>1, LogIs DEF TakeBeacon
  <2>3. dropped' = dropped \cup (Ids(batch) \ recorded') /\ beacons' = beacons \ {batch}
        /\ UNCHANGED <<served, transport, pending, flushTimer, flush, answers, expiry, here, born, unsure>>
    BY <1>2 DEF TakeBeacon
  <2> QED BY <2>2, <2>3, BeaconLeaves
<1> QED BY <1>1, <1>2

LEMMA RulesKeep ==
  ASSUME DiagInv, (\E rules \in Policies : RulesChange(rules)) \/ PolicyAnswered
  PROVE  DiagInv'
<1>1. CASE \E rules \in Policies : RulesChange(rules)
  <2>1. Policied /\ Flags
    BY <1>1 DEF DiagInv, QueueTyped, RulesChange, Policied, Flags
  <2>2. Moving'
    BY <1>1 DEF DiagInv, Moving, RulesChange
  <2>3. UNCHANGED <<pending, flush, beacons, born, logVars, dropped>>
    BY <1>1 DEF RulesChange
  <2> QED BY <2>1, <2>2, <2>3, QuietStep
<1>2. CASE PolicyAnswered
  <2>1. \A answer \in answers' : answer.rules \in Policies
    <3>1. answers' = answers \cup {[ask |-> room.asks, rules |-> served]}
      BY <1>2 DEF PolicyAnswered
    <3> QED BY <3>1 DEF DiagInv, QueueTyped
  <2>2. Policied /\ Flags
    BY <1>2, <2>1 DEF DiagInv, QueueTyped, PolicyAnswered, Policied, Flags
  <2>3. Moving'
    BY <1>2 DEF DiagInv, Moving, PolicyAnswered
  <2>4. UNCHANGED <<pending, flush, beacons, born, logVars, dropped>>
    BY <1>2 DEF PolicyAnswered
  <2> QED BY <2>2, <2>3, <2>4, QuietStep
<1> QED BY <1>1, <1>2

LEMMA ArrivalKeeps ==
  ASSUME DiagInv, (\E answer \in answers : PolicyArrives(answer)) \/ PolicyExpires
  PROVE  DiagInv'
<1>1. CASE \E answer \in answers : PolicyArrives(answer)
  <2>1. PICK answer \in answers : PolicyArrives(answer)
    BY <1>1
  <2>2. answer.rules \in Policies /\ NoRules \in Policies
    BY DEF DiagInv, QueueTyped, Policies
  <2>3. UNCHANGED <<served, flush, beacons, here, born, logVars>> /\ \A a \in answers' : a.rules \in Policies
    BY <2>1 DEF PolicyArrives, DiagInv, QueueTyped
  <2>4. applyDiagnosticPolicy(answer.rules) \/ applyDiagnosticPolicy(NoRules)
    BY <2>1 DEF PolicyArrives
  <2> QED BY <2>2, <2>3, <2>4, PolicedIs
<1>2. CASE PolicyExpires
  <2>1. UNCHANGED <<served, flush, beacons, here, born, logVars>> /\ applyDiagnosticPolicy(NoRules) /\ NoRules \in Policies
    BY <1>2 DEF PolicyExpires, Policies
  <2>2. answers' = answers \/ answers' = answers \cup {[ask |-> room.asks, rules |-> served]}
    BY <1>2 DEF PolicyExpires
  <2>3. \A answer \in answers' : answer.rules \in Policies
    BY <2>2 DEF DiagInv, QueueTyped
  <2> QED BY <2>1, <2>3, PolicedIs
<1> QED BY <1>1, <1>2

LEMMA HandOverKeeps ==
  ASSUME DiagInv, HandOver, pending # <<>>, here' \in BOOLEAN, here' => here,
         UNCHANGED <<served, transport, answers, expiry, born, logVars, dropped>>
  PROVE  DiagInv'
<1> DEFINE f == Leading(pending, BeaconSize)
           b == Beyond(pending, BeaconSize)
<1>1. /\ QueueTyped /\ pending \in Batches /\ BeaconSize \in Nat \ {0} /\ Rising(pending) /\ Len(pending) <= QueueSize
      /\ Lined(Sent, pending) /\ Known(pending) /\ QueueSize \in Nat
  BY QueueAssumption DEF DiagInv, QueueTyped, Queued, Young
<1>2. f \in Batches /\ b \in Batches /\ Ids(f) \cup Ids(b) = Ids(pending) /\ Len(b) <= Len(pending)
  BY <1>1, Splitting
<1>3. Rising(b) /\ Lined(f, b)
  BY <1>1, SplittingRises
<1>4. pending' = b /\ beacons' = beacons \cup {f} /\ UNCHANGED <<flushTimer, flush>>
  BY DEF HandOver
<1> HIDE DEF f, b
<1>5. Ids(f) \cap Ids(b) = {}
  <2>1. Ids(f) \subseteq Nat
    BY <1>2, IdsOf
  <2> QED BY <2>1, <1>3 DEF Lined
<1>6. Ids(f) \cap Ids(Sent) = {}
  <2>1. Ids(f) \subseteq Nat
    BY <1>2, IdsOf
  <2> QED BY <2>1, <1>1, <1>2 DEF Lined
<1>7. Sent' = Sent /\ Taken' = Taken
  BY <1>4 DEF Sent, Taken
<1>8. QueueTyped'
  BY <1>1, <1>2, <1>4, <1>7 DEF QueueTyped
<1>9. Queued'
  <2>1. Len(b) \in Nat /\ Len(pending) \in Nat
    BY <1>1, <1>2, IdsOf
  <2> QED BY <2>1, <1>1, <1>2, <1>3, <1>4, <1>7 DEF DiagInv, Queued, Lined
<1>10. Young' /\ Fresh'
  BY <1>1, <1>2, <1>4, <1>7 DEF DiagInv, Young, Known, Fresh, logVars
<1>11. Apart'
  BY <1>2, <1>4, <1>5, <1>6, <1>7 DEF DiagInv, Apart
<1>12. Doubted' /\ LoggedOnce'
  BY <1>2, <1>4, <1>7 DEF DiagInv, Doubted, Resendable, LoggedOnce, logVars
<1>13. Moving'
  BY <1>4 DEF DiagInv, Moving
<1>14. Accounted'
  <2>1. Beaconed' = Beaconed \cup Ids(f)
    BY <1>4 DEF Beaconed
  <2> QED BY <2>1, <1>2, <1>4, <1>7 DEF DiagInv, Accounted, logVars
<1> QED BY <1>8, <1>9, <1>10, <1>11, <1>12, <1>13, <1>14 DEF DiagInv

LEMMA HideKeeps == ASSUME DiagInv, NEW stays \in BOOLEAN, HidePage(stays) PROVE DiagInv'
<1>1. here /\ here' = stays /\ UNCHANGED <<served, transport, answers, expiry, born, logVars, dropped>>
  BY DEF HidePage
<1>2. CASE transport.on /\ pending # <<>> /\ HandOver
  BY <1>1, <1>2, HandOverKeeps
<1>3. CASE UNCHANGED <<pending, beacons, flushTimer, flush>>
  <2>1. Policied /\ Flags
    BY <1>1, <1>3 DEF DiagInv, QueueTyped, Policied, Flags
  <2>2. Moving'
    BY <1>1, <1>3 DEF DiagInv, Moving
  <2> QED BY <1>1, <1>3, <2>1, <2>2, QuietStep
<1>4. CASE ~(transport.on /\ pending # <<>>)
  <2>1. Flush(pending) /\ UNCHANGED beacons
    BY <1>4 DEF HidePage
  <2>2. pending' = pending /\ flush' = flush /\ flushTimer' = FALSE
    BY <2>1, <1>4 DEF Flush
  <2>3. Policied /\ Flags
    BY <1>1, <2>2 DEF DiagInv, QueueTyped, Policied, Flags
  <2>4. Moving'
    BY <1>1, <1>4, <2>2 DEF Moving
  <2> QED BY <1>1, <2>1, <2>2, <2>3, <2>4, QuietStep
<1> QED BY <1>2, <1>3, <1>4 DEF HidePage

LEMMA DiagnosticsStep == ASSUME DiagInv, [DiagnosticsNext]_diagnosticsVars PROVE DiagInv'
<1>1. CASE UNCHANGED diagnosticsVars
  <2>1. UNCHANGED <<served, transport, pending, flushTimer, flush, beacons, answers, expiry, here, born, recorded, twice, unsure, dropped>>
    BY <1>1 DEF diagnosticsVars
  <2>2. Policied /\ Flags /\ Moving'
    BY <2>1 DEF DiagInv, QueueTyped, Policied, Flags, Moving
  <2> QED BY <2>1, <2>2, QuietStep DEF logVars
<1>2. CASE \E severe \in BOOLEAN, fine \in BOOLEAN : Emit(severe, fine)
  BY <1>2, EmitKeeps
<1>3. CASE TimerFires
  BY <1>3, TimerKeeps
<1>4. CASE AnswerBatch
  BY <1>4, AnswerKeeps
<1>5. CASE FailBatch
  BY <1>5, FailKeeps
<1>6. CASE \E sample \in SUBSET (1..QueueSize) : TakeBatch(sample)
  BY <1>6, TakeKeeps
<1>7. CASE \E batch \in beacons : LoseBeacon(batch) \/ \E sample \in SUBSET (1..BeaconSize) : TakeBeacon(batch, sample)
  BY <1>7, BeaconKeeps
<1>8. CASE (\E rules \in Policies : RulesChange(rules)) \/ PolicyAnswered
  BY <1>8, RulesKeep
<1>9. CASE (\E answer \in answers : PolicyArrives(answer)) \/ PolicyExpires
  BY <1>9, ArrivalKeeps
<1>10. CASE \E stays \in BOOLEAN : HidePage(stays)
  BY <1>10, HideKeeps
<1> QED BY <1>1, <1>2, <1>3, <1>4, <1>5, <1>6, <1>7, <1>8, <1>9, <1>10 DEF DiagnosticsNext, Policies

\* Whatever the answers, faults and policies: an event is logged again only if the answer to its first
\* logging was lost, and none disappears unnoticed.  What waits will be sent, in the order of the events.
\* (enqueueTransport, flushDiagnosticEvents, applyDiagnosticPolicy and pagehideFlush, with recordBatch)
THEOREM DiagnosticsAreSound == DiagnosticsSpec => []EventsSound
<1>1. DiagInv => EventsSound
  <2> SUFFICES ASSUME DiagInv PROVE LinedUp
    BY DEF DiagInv, EventsSound
  <2> QED BY Joining DEF DiagInv, QueueTyped, Queued, LinedUp
<1>2. DiagInv /\ [DiagnosticsNext]_diagnosticsVars => DiagInv'
  BY DiagnosticsStep
<1> QED BY <1>1, <1>2, InitDiagInv, PTL DEF DiagnosticsSpec

-----------------------------------------------------------------------------
(* CourtAutomation. What the tables hold.                                  *)
Marks == {"activated", "expired", "unscheduled", "finished"}
Choices == Fixtures \cup {Unassigned}
Moods == Marks \cup {"none", "pending"}
Reasons == Marks \cup {"none"}
CourtRow == [match : Choices, status : Moods, on : BOOLEAN, revision : Nat, serial : Nat]
CourtTable == [PlaysOn -> CourtRow]
PlannedMatch == [date : Nat, completed : BOOLEAN]
MatchTable == [Fixtures -> PlannedMatch]
Turns == {"keep", "on", "off"}
ChangeTypes == [step : {"none", "audit", "commit", "refresh", "done"}, at : Nat, on : Turns, status : Reasons]
CourtNumbers == Seq(PlaysOn)
RoundTypes == [running : BOOLEAN, again : BOOLEAN, left : CourtNumbers, table : MatchTable, rows : CourtTable,
               now : Nat \ {0}, next : Nat, change : ChangeTypes]
Overlays == [step : {"closed", "open", "sent", "saved", "failed"}, at : Nat, kind : {"none", "assign", "switch"},
             revision : Nat, offers : SUBSET Fixtures, match : Choices, on : Turns]
ReadTypes == [step : {"none", "asked"}, rows : {<<>>}] \cup [step : {"read"}, rows : CourtTable]
Verdicts == [PlaysOn -> [serial : Nat, starts : Nat]]

AutoTyped ==
  /\ plan \in MatchTable /\ known \in MatchTable /\ courtRows \in CourtTable /\ courtCache \in CourtTable
  /\ reads \in [Readers -> ReadTypes] /\ auto \in RoundTypes /\ timerAt \in Nat /\ today \in Nat \ {0}
  /\ desk \in Overlays /\ verdict \in Verdicts /\ astray \in BOOLEAN

\* Where the automation and the operator stand.
Placed ==
  /\ auto.now <= today
  /\ auto.change.step # "none" => auto.running /\ auto.change.at \in PlaysOn
  /\ auto.change.step = "done" => auto.again
  /\ reads["automation"].step # "none" => auto.change.step = "refresh"
  /\ reads["desk"].step # "none" => desk.step = "saved"
  /\ reads["desk"].step = "read" => reads["desk"].rows[desk.at].revision > desk.revision
  /\ desk.step # "closed" => desk.at \in PlaysOn
  /\ desk.step = "saved" => courtRows[desk.at].revision > desk.revision

\* What somebody has read of a court is what the court was at that revision.
IsCopy(rows) ==
  \A c \in PlaysOn : /\ rows[c].revision <= courtRows[c].revision
                     /\ rows[c].revision = courtRows[c].revision => rows[c] = courtRows[c]
Copies == /\ IsCopy(courtCache) /\ IsCopy(auto.rows)
          /\ \A k \in Readers : reads[k].step = "read" => IsCopy(reads[k].rows)

\* An assignment the automation has not judged yet is younger than the last it judged.
Serials ==
  \A c \in PlaysOn : /\ verdict[c].serial <= courtRows[c].serial
                     /\ courtRows[c].status = "pending" => verdict[c].serial < courtRows[c].serial
\* What the automation decides.
Verdict(change, row) ==
  /\ row.match # Unassigned
  /\ \/ change.status = "finished" /\ change.on = "off"
     \/ change.status = "activated" /\ change.on = "on" /\ row.status = "pending"
     \/ change.status \in {"expired", "unscheduled"} /\ change.on = "keep" /\ row.status \notin {"activated", "finished"}
Decided == auto.change.step # "none" => Verdict(auto.change, auto.rows[auto.change.at])

\* One change of the automation lies between the two, at most.
Behind(old, new) ==
  \/ old = new
  \/ /\ old.match = new.match /\ old.match # Unassigned
     /\ \/ new.status = "finished" /\ ~new.on
        \/ new.status # "pending" /\ old.status \notin {"activated", "finished"}
\* The operator's change of the court will be told.
Owed(c) == reads["desk"].step # "none" /\ c = desk.at
IsClose(rows, c) == Behind(rows[c], courtRows[c]) \/ (Owed(c) /\ rows[c].revision <= desk.revision)
CacheClose == ~astray => \A c \in PlaysOn : IsClose(courtCache, c) /\ auto.rows[c].revision <= courtCache[c].revision
ReadsClose ==
  ~astray => \A k \in Readers, c \in PlaysOn :
    reads[k].step = "read" => IsClose(reads[k].rows, c) \/ reads[k].rows[c].revision < courtCache[c].revision
RoundClose ==
  ~astray /\ auto.running /\ ~auto.again => auto.table = known /\ \A c \in PlaysOn : IsClose(auto.rows, c)

\* A court should be switched or judged, and when the automation will look again.
Due(row, match, now) == ~Idle(row, match) /\ ~Ahead(row, match, now) /\ (match.completed \/ row.status = "pending")
SoundFor(row, match, now, when) ==
  /\ Due(row, match, now) => when \in 1..(now + 1)
  /\ Ahead(row, match, now) => when \in 1..match.date
LooksInTime(c, when) == SoundFor(courtRows[c], MatchOf(known, courtRows[c]), today, when)
Under(c) == (\E i \in DOMAIN auto.left : auto.left[i] = c) \/ (auto.change.step # "none" /\ c = auto.change.at)
Calm == ~astray /\ reads["desk"].step = "none"
RoundSound ==
  Calm /\ auto.running /\ ~auto.again =>
    \/ auto.next \in 1..(auto.now + 1)
    \/ \A c \in PlaysOn : Under(c) \/ LooksInTime(c, auto.next)
Resting == Calm /\ ~auto.running => \A c \in PlaysOn : LooksInTime(c, timerAt)

AutoInv == /\ AutoTyped /\ Placed /\ Copies /\ Serials /\ JudgedForItself /\ Decided
           /\ CacheClose /\ ReadsClose /\ RoundClose /\ RoundSound /\ Resting

-----------------------------------------------------------------------------
\* A decision, seen from the court and the match.
LEMMA DecisionProperties ==
  ASSUME NEW c, NEW row, NEW match, NEW now, Decision(c, row, match, now) # NoChange
  PROVE  /\ Decision(c, row, match, now).step = "audit" /\ Decision(c, row, match, now).at = c
         /\ Verdict(Decision(c, row, match, now), row)
         /\ Decision(c, row, match, now).on \in Turns /\ Decision(c, row, match, now).status \in Marks
  BY DEF Decision, Verdict, Change, NoChange, Idle, Ahead, Turns, Marks

LEMMA DueProperties ==
  ASSUME NEW c, NEW row, NEW match \in PlannedMatch, NEW now \in Nat
  PROVE  Decision(c, row, match, now) # NoChange
           /\ (Decision(c, row, match, now).on # "keep" \/ row.status = "pending")
         <=> Due(row, match, now)
  BY DEF Decision, Change, NoChange, Idle, Ahead, Due, PlannedMatch

\* Without a decision nothing is due.
LEMMA NotDue ==
  ASSUME NEW c, NEW row, NEW match \in PlannedMatch, NEW now \in Nat, Decision(c, row, match, now) = NoChange
  PROVE  ~Due(row, match, now)
  BY DueProperties

\* Nothing is due, and no match awaited, of which a reader of the row before would not know.
LEMMA BehindDue ==
  ASSUME NEW c, NEW old, NEW new, NEW match \in PlannedMatch, NEW now \in Nat, Behind(old, new)
  PROVE  /\ Due(new, match, now) => Decision(c, old, match, now) # NoChange
         /\ Ahead(new, match, now) => Ahead(old, match, now)
<1>1. CASE old = new
  BY <1>1, DueProperties
<1>2. CASE old # new
  BY <1>2 DEF Behind, Decision, Change, NoChange, Idle, Ahead, Due, PlannedMatch
<1> QED BY <1>1, <1>2

LEMMA SoundPasses ==
  ASSUME NEW row, NEW match \in PlannedMatch, NEW now \in Nat, NEW later \in Nat, now <= later, NEW when \in Nat,
         SoundFor(row, match, now, when)
  PROVE  SoundFor(row, match, later, when)
  BY DEF SoundFor, Due, Ahead, PlannedMatch

LEMMA SoundEarlier ==
  ASSUME NEW row, NEW match \in PlannedMatch, NEW now \in Nat, NEW when \in Nat, NEW other \in Nat \ {0},
         SoundFor(row, match, now, when)
  PROVE  SoundFor(row, match, now, Earlier(when, other))
  BY DEF SoundFor, Due, Ahead, PlannedMatch, Earlier

LEMMA SoundSoon ==
  ASSUME NEW row, NEW match \in PlannedMatch, NEW now \in Nat, NEW when \in 1..(now + 1)
  PROVE  SoundFor(row, match, now, when)
  BY DEF SoundFor, Due, Ahead, PlannedMatch

LEMMA EarlierProperties ==
  ASSUME NEW a \in Nat, NEW b \in Nat \ {0}
  PROVE  Earlier(a, b) \in 1..b /\ (a # 0 => Earlier(a, b) <= a)
  BY DEF Earlier

LEMMA MatchOfType ==
  ASSUME NEW table \in MatchTable, NEW row \in CourtRow
  PROVE  MatchOf(table, row) \in PlannedMatch
<1>1. row.match \in Fixtures \cup {Unassigned}
  BY DEF CourtRow, Choices
<1> QED BY <1>1 DEF MatchOf, MatchTable, PlannedMatch

LEMMA SwitchedProperties ==
  ASSUME NEW row \in CourtRow, NEW on \in Turns
  PROVE  /\ Switched(row, on) \in CourtRow
         /\ Switched(row, on).match = row.match /\ Switched(row, on).status = row.status
         /\ Switched(row, on).revision = row.revision + 1 /\ Switched(row, on).serial = row.serial
         /\ on = "off" => Switched(row, on).on = FALSE
<1> DEFINE turn == IF on = "keep" THEN row.on ELSE on = "on"
<1>1. row.on \in BOOLEAN
  BY DEF CourtRow
<1>2. turn \in BOOLEAN
  BY <1>1, Zenon
<1>3. Switched(row, on) = [row EXCEPT !.on = turn, !.revision = @ + 1]
  BY DEF Switched
<1>4. on = "off" => turn = FALSE
  BY Zenon
<1> HIDE DEF turn
<1> DEFINE next == row.revision + 1
<1>5. next \in Nat /\ next = row.revision + 1
  BY DEF CourtRow
<1>6. Switched(row, on) = [row EXCEPT !.on = turn, !.revision = next]
  BY <1>3
<1> HIDE DEF next
<1>7. [row EXCEPT !.on = turn, !.revision = next] \in CourtRow
  BY <1>2, <1>5 DEF CourtRow
<1> QED BY <1>4, <1>5, <1>6, <1>7 DEF CourtRow

LEMMA AssignedProperties ==
  ASSUME NEW row \in CourtRow, NEW m \in Choices
  PROVE  /\ Assigned(row, m) \in CourtRow
         /\ Assigned(row, m).status \in {"none", "pending"}
         /\ Assigned(row, m).revision = row.revision + 1 /\ Assigned(row, m).serial = row.serial + 1
<1> DEFINE mark == IF m = Unassigned THEN "none" ELSE "pending"
<1>1. mark \in Moods /\ mark \in {"none", "pending"}
  BY DEF Moods
<1> DEFINE next == row.revision + 1
           later == row.serial + 1
<1>2. next \in Nat /\ next = row.revision + 1 /\ later \in Nat /\ later = row.serial + 1
  BY DEF CourtRow
<1>3. Assigned(row, m) = [row EXCEPT !.match = m, !.status = mark, !.serial = later, !.revision = next]
  BY DEF Assigned
<1> HIDE DEF mark, next, later
<1>4. [row EXCEPT !.match = m, !.status = mark, !.serial = later, !.revision = next] \in CourtRow
  BY <1>1, <1>2 DEF CourtRow
<1> QED BY <1>1, <1>2, <1>3, <1>4 DEF CourtRow
-----------------------------------------------------------------------------
LEMMA RoundProperties ==
  ASSUME NEW table \in MatchTable, NEW rows \in CourtTable, NEW now \in Nat \ {0}
  PROVE  /\ Round(table, rows, now) \in RoundTypes
         /\ \A c \in PlaysOn : \E i \in DOMAIN Round(table, rows, now).left : Round(table, rows, now).left[i] = c
<1>1. AllCourts \in CourtNumbers /\ DOMAIN AllCourts = PlaysOn
  BY AutomationAssumption DEF AllCourts, PlaysOn, CourtNumbers
<1>2. NoChange \in ChangeTypes
  BY DEF NoChange, ChangeTypes, Turns, Reasons
<1>3. Round(table, rows, now) \in RoundTypes
  BY <1>1, <1>2 DEF Round, RoundTypes
<1>4. Round(table, rows, now).left = AllCourts
  BY DEF Round
<1> QED BY <1>1, <1>3, <1>4 DEF AllCourts

\* A round in which a change has failed.
LEMMA TriedAgainProperties ==
  ASSUME AutoTyped
  PROVE  /\ TriedAgain \in RoundTypes
         /\ TriedAgain = [auto EXCEPT !.change = NoChange, !.next = TriedAgain.next]
         /\ TriedAgain.next \in 1..(auto.now + 1)
<1>1. auto \in RoundTypes
  BY DEF AutoTyped
<1>2. auto.next \in Nat /\ auto.now + 1 \in Nat \ {0}
  BY <1>1 DEF RoundTypes
<1> DEFINE soon == Earlier(auto.next, auto.now + 1)
<1>3. soon \in 1..(auto.now + 1)
  BY <1>2, EarlierProperties
<1>4. TriedAgain = [auto EXCEPT !.change = NoChange, !.next = soon]
  BY <1>1 DEF TriedAgain, RoundTypes
<1>5. NoChange \in ChangeTypes
  BY DEF NoChange, ChangeTypes, Turns, Reasons
<1>6. soon \in Nat
  BY <1>2, <1>3
<1> HIDE DEF soon
<1>7. [auto EXCEPT !.change = NoChange, !.next = soon] \in RoundTypes
  BY <1>1, <1>5, <1>6 DEF RoundTypes
<1>8. TriedAgain.next = soon
  BY <1>1, <1>4 DEF RoundTypes
<1> QED BY <1>3, <1>4, <1>7, <1>8

LEMMA ReconcileTyped ==
  ASSUME AutoTyped, NEW table \in MatchTable, NEW rows \in CourtTable, reconcile(table, rows)
  PROVE  auto' \in RoundTypes /\ timerAt' \in Nat
<1>1. auto \in RoundTypes /\ timerAt \in Nat /\ today \in Nat \ {0}
  BY DEF AutoTyped
<1>2. Round(table, rows, today) \in RoundTypes
  BY <1>1, RoundProperties
<1>3. CASE auto.running
  <2>1. auto' = [auto EXCEPT !.again = TRUE] /\ timerAt' = timerAt
    BY <1>3 DEF reconcile
  <2> QED BY <1>1, <2>1 DEF RoundTypes
<1>4. CASE ~auto.running
  BY <1>2, <1>4 DEF reconcile
<1> QED BY <1>3, <1>4

\* The automation's change of a court, and everything it depends on.
LEMMA ChangesProperties ==
  ASSUME AutoTyped, Placed, NEW c \in PlaysOn, auto.change.step # "none", c = auto.change.at, Changes(c)
  PROVE  /\ courtRows' \in CourtTable /\ verdict' \in Verdicts
         /\ courtRows[c].revision = auto.rows[c].revision
         /\ courtRows'[c].revision = courtRows[c].revision + 1
         /\ courtRows'[c].match = courtRows[c].match /\ courtRows'[c].serial = courtRows[c].serial
         /\ courtRows'[c].status = (IF courtRows[c].status = "none" THEN "none" ELSE auto.change.status)
         /\ auto.change.on = "off" => courtRows'[c].on = FALSE
         /\ verdict'[c] = Noted(c, auto.change.on)
         /\ \A d \in PlaysOn : d # c => courtRows'[d] = courtRows[d] /\ verdict'[d] = verdict[d]
<1>1. auto \in RoundTypes /\ courtRows \in CourtTable /\ verdict \in Verdicts
  BY DEF AutoTyped
<1>2. auto.change \in ChangeTypes /\ auto.rows \in CourtTable
  BY <1>1 DEF RoundTypes
<1>3. auto.change.on \in Turns /\ auto.change.status \in Moods
  BY <1>2 DEF ChangeTypes, Reasons, Moods
<1>4. courtRows[c] \in CourtRow /\ auto.rows[c] \in CourtRow
  BY <1>1, <1>2 DEF CourtTable
<1> DEFINE row == Switched(courtRows[c], auto.change.on)
           status == IF courtRows[c].status = "none" THEN "none" ELSE auto.change.status
           changed == [row EXCEPT !.status = status]
<1>5. row \in CourtRow /\ row.match = courtRows[c].match /\ row.status = courtRows[c].status
      /\ row.revision = courtRows[c].revision + 1 /\ row.serial = courtRows[c].serial
      /\ (auto.change.on = "off" => row.on = FALSE)
  BY <1>3, <1>4, SwitchedProperties
<1>6. status \in Moods
  BY <1>3 DEF Moods
<1>7. courtRows' = [courtRows EXCEPT ![c] = changed]
  BY <1>1, <1>5 DEF Changes, CourtTable, Marked
<1> HIDE DEF row, status
<1>8. changed \in CourtRow /\ changed.status = status /\ changed.match = row.match /\ changed.serial = row.serial
      /\ changed.revision = row.revision /\ changed.on = row.on
  BY <1>5, <1>6 DEF CourtRow
<1> HIDE DEF changed
<1>9. courtRows' \in CourtTable /\ courtRows'[c] = changed /\ \A d \in PlaysOn : d # c => courtRows'[d] = courtRows[d]
  BY <1>1, <1>7, <1>8 DEF CourtTable
<1>10. Noted(c, auto.change.on) \in [serial : Nat, starts : Nat]
  <2>1. auto.rows[c].serial \in Nat /\ verdict[c].starts \in Nat
    BY <1>1, <1>4 DEF CourtRow, Verdicts
  <2> QED BY <2>1 DEF Noted
<1>11. verdict' = [verdict EXCEPT ![c] = Noted(c, auto.change.on)]
  BY DEF Changes
<1>12. verdict' \in Verdicts /\ verdict'[c] = Noted(c, auto.change.on)
       /\ \A d \in PlaysOn : d # c => verdict'[d] = verdict[d]
  BY <1>1, <1>10, <1>11 DEF Verdicts
<1>13. courtRows[c].revision = auto.rows[c].revision
  BY DEF Changes, Outdated
<1> QED BY <1>5, <1>8, <1>9, <1>12, <1>13 DEF status
-----------------------------------------------------------------------------
LEMMA ReadProperties ==
  ASSUME AutoTyped, NEW k \in Readers
  PROVE  /\ reads[k].step = "read" => reads[k].rows \in CourtTable
         /\ [reads EXCEPT ![k] = NoRead] \in [Readers -> ReadTypes]
         /\ [reads EXCEPT ![k] = [NoRead EXCEPT !.step = "asked"]] \in [Readers -> ReadTypes]
         /\ [reads EXCEPT ![k] = [step |-> "read", rows |-> courtRows]] \in [Readers -> ReadTypes]
<1>1. reads \in [Readers -> ReadTypes] /\ courtRows \in CourtTable
  BY DEF AutoTyped
<1>2. NoRead \in ReadTypes /\ [NoRead EXCEPT !.step = "asked"] \in ReadTypes
      /\ [step |-> "read", rows |-> courtRows] \in ReadTypes
  BY <1>1 DEF NoRead, ReadTypes
<1>3. reads[k].step = "read" => reads[k].rows \in CourtTable
  BY <1>1 DEF ReadTypes
<1> QED BY <1>1, <1>2, <1>3

LEMMA ConsiderTyped ==
  ASSUME AutoTyped, Consider
  PROVE  auto' \in RoundTypes
<1>1. auto \in RoundTypes /\ auto.left # <<>>
  BY DEF AutoTyped, Consider
<1>2. auto.left \in Seq(PlaysOn) /\ auto.table \in MatchTable /\ auto.rows \in CourtTable /\ auto.now \in Nat \ {0}
      /\ auto.next \in Nat
  BY <1>1 DEF RoundTypes, CourtNumbers
<1>3. Head(auto.left) \in PlaysOn /\ Tail(auto.left) \in CourtNumbers
  BY <1>1, <1>2 DEF CourtNumbers
<1> DEFINE c == Head(auto.left)
           row == auto.rows[c]
           match == MatchOf(auto.table, row)
           decided == Decision(c, row, match, auto.now)
           soonest == IF Ahead(row, match, auto.now) THEN Earlier(auto.next, match.date) ELSE auto.next
           rest == Tail(auto.left)
<1>4. auto' = [auto EXCEPT !.left = rest, !.change = decided, !.next = soonest]
  BY DEF Consider
<1>5. row \in CourtRow
  BY <1>2, <1>3 DEF CourtTable
<1>6. match \in PlannedMatch
  BY <1>2, <1>5, MatchOfType
<1>7. c \in Nat
  BY <1>3 DEF PlaysOn
<1> HIDE DEF c, row, match, rest
<1>8. decided \in ChangeTypes
  <2>1. CASE decided = NoChange
    BY <2>1 DEF NoChange, ChangeTypes, Turns, Reasons
  <2>2. CASE decided # NoChange
    <3>1. decided.step = "audit" /\ decided.at = c /\ decided.on \in Turns /\ decided.status \in Reasons
      BY <2>2, DecisionProperties DEF Reasons
    <3>2. decided = [step |-> decided.step, at |-> decided.at, on |-> decided.on, status |-> decided.status]
      BY <2>2 DEF Decision, Change, NoChange
    <3> HIDE DEF decided
    <3> QED BY <1>7, <3>1, <3>2 DEF ChangeTypes
  <2> QED BY <2>1, <2>2
<1>9. soonest \in Nat
  <2>1. CASE Ahead(row, match, auto.now)
    <3>1. match.date \in Nat \ {0}
      BY <1>2, <1>6, <2>1 DEF Ahead, PlannedMatch
    <3>2. Earlier(auto.next, match.date) \in 1..match.date
      BY <1>2, <3>1, EarlierProperties
    <3> QED BY <2>1, <3>1, <3>2
  <2> QED BY <1>2, <2>1
<1> HIDE DEF decided, soonest
<1>10. rest \in CourtNumbers
  BY <1>3 DEF rest
<1> QED BY <1>1, <1>4, <1>8, <1>9, <1>10 DEF RoundTypes

LEMMA AutoStepTyped ==
  ASSUME AutoTyped, NEW s \in {"none", "audit", "commit", "refresh", "done"}
  PROVE  /\ [auto EXCEPT !.change.step = s] \in RoundTypes
         /\ [auto EXCEPT !.again = TRUE, !.change.step = s] \in RoundTypes
         /\ [auto EXCEPT !.change = NoChange] \in RoundTypes
         /\ [auto EXCEPT !.running = FALSE, !.again = FALSE] \in RoundTypes
<1>1. auto \in RoundTypes
  BY DEF AutoTyped
<1>2. auto.change \in ChangeTypes
  BY <1>1 DEF RoundTypes
<1>3. [auto.change EXCEPT !.step = s] \in ChangeTypes
  BY <1>2 DEF ChangeTypes
<1>4. [auto EXCEPT !.change.step = s] = [auto EXCEPT !.change = [auto.change EXCEPT !.step = s]]
  BY <1>1 DEF RoundTypes
<1>5. [auto EXCEPT !.again = TRUE, !.change.step = s]
        = [auto EXCEPT !.again = TRUE, !.change = [auto.change EXCEPT !.step = s]]
  BY <1>1 DEF RoundTypes
<1>6. NoChange \in ChangeTypes
  BY DEF NoChange, ChangeTypes, Turns, Reasons
<1> DEFINE step == [auto.change EXCEPT !.step = s]
<1> HIDE DEF step
<1>7. step \in ChangeTypes
  BY <1>3 DEF step
<1>8. [auto EXCEPT !.change = step] \in RoundTypes /\ [auto EXCEPT !.again = TRUE, !.change = step] \in RoundTypes
  BY <1>1, <1>7 DEF RoundTypes
<1>9. [auto EXCEPT !.change = NoChange] \in RoundTypes
      /\ [auto EXCEPT !.running = FALSE, !.again = FALSE] \in RoundTypes
  BY <1>1, <1>6 DEF RoundTypes
<1> QED BY <1>4, <1>5, <1>8, <1>9 DEF step

LEMMA DeskProperties ==
  ASSUME AutoTyped, NEW s \in {"closed", "open", "sent", "saved", "failed"}
  PROVE  /\ NoDesk \in Overlays
         /\ [desk EXCEPT !.step = s] \in Overlays
         /\ \A m \in Choices : [desk EXCEPT !.step = s, !.match = m] \in Overlays
         /\ \A n \in Nat, on \in Turns : [desk EXCEPT !.step = s, !.revision = n, !.on = on] \in Overlays
<1>1. desk \in Overlays
  BY DEF AutoTyped
<1>2. NoDesk \in Overlays
  BY DEF NoDesk, Overlays, Turns, Choices
<1> QED BY <1>1, <1>2 DEF Overlays
-----------------------------------------------------------------------------
LEMMA AutoTypedStep ==
  ASSUME AutoTyped, Placed, AutomationNext
  PROVE  AutoTyped'
<1>1. /\ plan \in MatchTable /\ known \in MatchTable /\ courtRows \in CourtTable /\ courtCache \in CourtTable
      /\ reads \in [Readers -> ReadTypes] /\ auto \in RoundTypes /\ timerAt \in Nat /\ today \in Nat \ {0}
      /\ desk \in Overlays /\ verdict \in Verdicts /\ astray \in BOOLEAN
  BY DEF AutoTyped
<1>2. TriedAgain \in RoundTypes
  BY TriedAgainProperties
<1>3. \A table \in MatchTable, rows \in CourtTable : reconcile(table, rows) => auto' \in RoundTypes /\ timerAt' \in Nat
  BY ReconcileTyped
<1>4. \A rows : Awake(rows) => astray' \in BOOLEAN
  BY <1>1 DEF Awake
<1>5. CASE Consider
  BY <1>1, <1>5, ConsiderTyped DEF Consider, AutoTyped
<1>6. CASE AuditStarts
  <2>1. auto' \in RoundTypes
    BY <1>2, <1>6, AutoStepTyped DEF AuditStarts
  <2> QED BY <1>1, <1>6, <2>1 DEF AuditStarts, AutoTyped
<1>7. CASE updateAutomation
  <2>1. auto' \in RoundTypes
    BY <1>2, <1>7, AutoStepTyped DEF updateAutomation
  <2>2. reads' \in [Readers -> ReadTypes]
    BY <1>1, <1>7, ReadProperties DEF updateAutomation, Readers
  <2>3. courtRows' \in CourtTable /\ verdict' \in Verdicts
    <3>1. auto.change.at \in PlaysOn /\ auto.change.step # "none"
      BY <1>7 DEF updateAutomation, Placed
    <3>2. CASE Changes(auto.change.at)
      BY <3>1, <3>2, ChangesProperties
    <3>3. CASE UNCHANGED <<courtRows, verdict>>
      BY <1>1, <3>3
    <3> QED BY <1>7, <3>2, <3>3 DEF updateAutomation
  <2> QED BY <1>1, <1>7, <2>1, <2>2, <2>3 DEF updateAutomation, AutoTyped
<1>8. CASE ChangeDone
  <2>1. auto' \in RoundTypes
    BY <1>2, <1>8, AutoStepTyped DEF ChangeDone
  <2> QED BY <1>1, <1>8, <2>1 DEF ChangeDone, AutoTyped
<1>9. CASE RoundEnds
  <2>1. auto' \in RoundTypes
    BY <1>9, AutoStepTyped DEF RoundEnds
  <2>2. timerAt' \in Nat
    <3>1. auto.next \in Nat
      BY <1>1 DEF RoundTypes
    <3> QED BY <1>1, <1>9, <3>1 DEF RoundEnds
  <2> QED BY <1>1, <1>9, <2>1, <2>2 DEF RoundEnds, AutoTyped
<1>10. CASE AutomationTimer
  <2>1. auto' \in RoundTypes /\ timerAt' \in Nat /\ astray' \in BOOLEAN
    BY <1>1, <1>3, <1>4, <1>10 DEF AutomationTimer
  <2> QED BY <1>1, <1>10, <2>1 DEF AutomationTimer, AutoTyped
<1>11. CASE MatchesRefreshed
  <2>1. auto' \in RoundTypes /\ timerAt' \in Nat /\ astray' \in BOOLEAN
    BY <1>1, <1>3, <1>4, <1>11 DEF MatchesRefreshed
  <2> QED BY <1>1, <1>11, <2>1 DEF MatchesRefreshed, AutoTyped
<1>12. CASE CourtsInvalidated
  <2>1. reads' \in [Readers -> ReadTypes]
    BY <1>12, ReadProperties DEF CourtsInvalidated, Readers
  <2> QED BY <1>1, <1>12, <2>1 DEF CourtsInvalidated, AutoTyped
<1>13. ASSUME NEW k \in Readers, RefreshReads(k)
       PROVE  AutoTyped'
  <2>1. reads' \in [Readers -> ReadTypes]
    BY <1>13, ReadProperties DEF RefreshReads
  <2> QED BY <1>1, <1>13, <2>1 DEF RefreshReads, AutoTyped
<1>14. ASSUME NEW k \in Readers, refresh(k)
       PROVE  AutoTyped'
  <2>1. reads[k].rows \in CourtTable /\ reads' \in [Readers -> ReadTypes]
    BY <1>14, ReadProperties DEF refresh
  <2>2. courtCache' \in CourtTable /\ courtCache' = reads[k].rows
    BY <1>14, <2>1 DEF refresh
  <2>3. astray' \in BOOLEAN
    BY <1>14 DEF refresh
  <2>4. auto' \in RoundTypes /\ timerAt' \in Nat
    BY <1>1, <1>3, <1>14, <2>1, AutoStepTyped DEF refresh
  <2>5. desk' \in Overlays
    BY <1>1, <1>14, DeskProperties DEF refresh
  <2> QED BY <1>1, <1>14, <2>1, <2>2, <2>3, <2>4, <2>5 DEF refresh, AutoTyped
<1>15. ASSUME NEW k \in Readers, RefreshFails(k)
       PROVE  AutoTyped'
  <2>1. reads' \in [Readers -> ReadTypes]
    BY <1>15, ReadProperties DEF RefreshFails
  <2>2. auto' \in RoundTypes /\ desk' \in Overlays
    BY <1>1, <1>2, <1>15, DeskProperties DEF RefreshFails
  <2>3. astray' \in BOOLEAN
    BY <1>15 DEF RefreshFails
  <2> QED BY <1>1, <1>15, <2>1, <2>2, <2>3 DEF RefreshFails, AutoTyped
<1>16. ASSUME NEW c \in PlaysOn, NEW kind \in {"assign", "switch"}, OpenOverlay(c, kind)
       PROVE  AutoTyped'
  <2>1. c \in Nat /\ courtCache[c].revision \in Nat
    BY <1>1 DEF PlaysOn, CourtTable, CourtRow
  <2> DEFINE offers == {m \in Fixtures : ~known[m].completed}
             on == IF kind = "assign" THEN "keep" ELSE IF courtCache[c].on THEN "off" ELSE "on"
  <2>2. offers \in SUBSET Fixtures /\ on \in Turns /\ Unassigned \in Choices
    BY DEF Turns, Choices
  <2>3. desk' = [step |-> "open", at |-> c, kind |-> kind, revision |-> courtCache[c].revision,
                 offers |-> offers, match |-> Unassigned, on |-> on]
    BY <1>16 DEF OpenOverlay
  <2> HIDE DEF offers, on
  <2>4. desk' \in Overlays
    BY <2>1, <2>2, <2>3 DEF Overlays
  <2> QED BY <1>1, <1>16, <2>4 DEF OpenOverlay, AutoTyped
<1>17. ASSUME NEW m \in Fixtures \cup {Unassigned}, Submit(m)
       PROVE  AutoTyped'
  <2>1. desk' \in Overlays
    BY <1>17, DeskProperties DEF Submit, Choices
  <2> QED BY <1>1, <1>17, <2>1 DEF Submit, AutoTyped
<1>18. CASE assignOrSetActive
  <2>1. desk' \in Overlays
    BY <1>18, DeskProperties DEF assignOrSetActive
  <2>2. reads' \in [Readers -> ReadTypes]
    BY <1>1, <1>18, ReadProperties DEF assignOrSetActive, Readers
  <2>3. Written => courtRows' \in CourtTable
    <3> SUFFICES ASSUME Written PROVE courtRows' \in CourtTable
      OBVIOUS
    <3>1. desk.at \in PlaysOn
      BY <1>18 DEF assignOrSetActive, Placed
    <3>2. courtRows[desk.at] \in CourtRow /\ desk.match \in Choices /\ desk.on \in Turns
      BY <1>1, <3>1 DEF CourtTable, Overlays
    <3> DEFINE row == IF desk.kind = "assign" THEN Assigned(courtRows[desk.at], desk.match)
                      ELSE Switched(courtRows[desk.at], desk.on)
    <3>3. row \in CourtRow
      BY <3>2, AssignedProperties, SwitchedProperties
    <3>4. courtRows' = [courtRows EXCEPT ![desk.at] = row]
      BY DEF Written
    <3> QED BY <1>1, <3>3, <3>4 DEF CourtTable
  <2>4. courtRows' \in CourtTable /\ astray' \in BOOLEAN
    BY <1>1, <1>18, <2>3 DEF assignOrSetActive
  <2> QED BY <1>1, <1>18, <2>1, <2>2, <2>4 DEF assignOrSetActive, AutoTyped
<1>19. CASE refreshCourtRevision
  <2>1. desk' \in Overlays
    <3>1. desk.at \in PlaysOn
      BY <1>19 DEF refreshCourtRevision, Placed
    <3>2. courtCache[desk.at].revision \in Nat /\ desk.on \in Turns
      BY <1>1, <3>1 DEF CourtTable, CourtRow, Overlays
    <3> DEFINE on == IF desk.on = "keep" THEN desk.on ELSE IF courtCache[desk.at].on THEN "off" ELSE "on"
    <3>3. on \in Turns
      BY <3>2 DEF Turns
    <3>4. \/ desk' = [desk EXCEPT !.step = "open", !.revision = courtCache[desk.at].revision, !.on = on]
          \/ desk' = NoDesk
      BY <1>1, <1>19 DEF refreshCourtRevision, Overlays
    <3> HIDE DEF on
    <3>5. [desk EXCEPT !.step = "open", !.revision = courtCache[desk.at].revision, !.on = on] \in Overlays
      BY <3>2, <3>3, DeskProperties
    <3> QED BY <3>4, <3>5, DeskProperties
  <2> QED BY <1>1, <1>19, <2>1 DEF refreshCourtRevision, AutoTyped
<1>20. ASSUME NEW m \in Fixtures, MatchChanges(m)
       PROVE  AutoTyped'
  <2>1. PICK date \in 0..LastTick, completed \in BOOLEAN :
          plan' = [plan EXCEPT ![m] = [date |-> date, completed |-> completed]]
    BY <1>20 DEF MatchChanges
  <2>2. [date |-> date, completed |-> completed] \in PlannedMatch
    BY AutomationAssumption DEF PlannedMatch
  <2>3. plan' \in MatchTable
    BY <1>1, <2>1, <2>2 DEF MatchTable
  <2> QED BY <1>1, <1>20, <2>3 DEF MatchChanges, AutoTyped
<1>21. CASE Passes
  BY <1>1, <1>21 DEF Passes, AutoTyped
<1>22. CASE Restarts
  <2>1. auto' \in RoundTypes
    BY <1>1, <1>22, RoundProperties DEF Restarts
  <2>2. reads' \in [Readers -> ReadTypes] /\ desk' \in Overlays
    BY <1>1, <1>22, DeskProperties DEF Restarts, NoRead, ReadTypes
  <2> QED BY <1>1, <1>22, <2>1, <2>2 DEF Restarts, AutoTyped
<1> QED BY <1>5, <1>6, <1>7, <1>8, <1>9, <1>10, <1>11, <1>12, <1>13, <1>14, <1>15, <1>16, <1>17, <1>18, <1>19,
          <1>20, <1>21, <1>22 DEF AutomationNext
-----------------------------------------------------------------------------
\* The automation goes on with its round, and no court and no cache changes.
AutoStill ==
  /\ UNCHANGED <<known, courtRows, courtCache, reads, today, desk, verdict, astray>>
  /\ auto'.rows = auto.rows /\ auto'.table = auto.table /\ auto'.now = auto.now
  /\ auto'.running => auto.running /\ auto'.again = auto.again
\* The operator does something that nobody sees yet.
DeskStill ==
  /\ UNCHANGED <<known, courtRows, courtCache, reads, auto, timerAt, today, verdict, astray>>
  /\ reads["desk"].step = "none" /\ desk'.step # "saved"
  /\ desk'.step # "closed" => desk'.at \in PlaysOn

LEMMA StillKeeps ==
  ASSUME AutoInv, AutoStill
  PROVE  Copies' /\ Serials' /\ JudgedForItself' /\ CacheClose' /\ ReadsClose' /\ RoundClose'
<1>1. Copies'
  BY DEF AutoInv, AutoStill, Copies, IsCopy
<1>2. Serials' /\ JudgedForItself'
  BY DEF AutoInv, AutoStill, Serials, JudgedForItself
<1>3. CacheClose'
  BY DEF AutoInv, AutoStill, CacheClose, IsClose, Owed
<1>4. ReadsClose'
  BY DEF AutoInv, AutoStill, ReadsClose, IsClose, Owed
<1>5. RoundClose'
  BY DEF AutoInv, AutoStill, RoundClose, IsClose, Owed
<1> QED BY <1>1, <1>2, <1>3, <1>4, <1>5

LEMMA DeskStillKeeps ==
  ASSUME AutoInv, AutoTyped', DeskStill
  PROVE  AutoInv'
<1>1. Placed'
  BY DEF AutoInv, DeskStill, Placed
<1>2. Copies' /\ Decided'
  BY DEF AutoInv, DeskStill, Copies, IsCopy, Decided
<1>3. Serials' /\ JudgedForItself'
  BY DEF AutoInv, DeskStill, Serials, JudgedForItself
<1>4. CacheClose' /\ ReadsClose' /\ RoundClose'
  BY DEF AutoInv, DeskStill, CacheClose, ReadsClose, RoundClose, IsClose, Owed
<1>5. RoundSound' /\ Resting'
  BY DEF AutoInv, DeskStill, RoundSound, Resting, Calm, LooksInTime, Under
<1> QED BY <1>1, <1>2, <1>3, <1>4, <1>5 DEF AutoInv

LEMMA ConsiderKeeps ==
  ASSUME AutoInv, AutoTyped', Consider
  PROVE  AutoInv'
<1>1. /\ auto \in RoundTypes /\ courtRows \in CourtTable /\ known \in MatchTable /\ today \in Nat \ {0}
      /\ auto.change.step = "none" /\ auto.left # <<>> /\ auto.running /\ auto.now <= today
  BY DEF AutoInv, AutoTyped, Placed, Consider
<1>2. /\ auto.left \in Seq(PlaysOn) /\ auto.table \in MatchTable /\ auto.rows \in CourtTable /\ auto.now \in Nat \ {0}
      /\ auto.next \in Nat /\ auto.now \in Nat /\ today \in Nat
  BY <1>1 DEF RoundTypes, CourtNumbers
<1> DEFINE c == Head(auto.left)
           row == auto.rows[c]
           match == MatchOf(auto.table, row)
           decided == Decision(c, row, match, auto.now)
           soonest == IF Ahead(row, match, auto.now) THEN Earlier(auto.next, match.date) ELSE auto.next
<1>3. auto' = [auto EXCEPT !.left = Tail(auto.left), !.change = decided, !.next = soonest]
  BY DEF Consider
<1>4. /\ auto'.left = Tail(auto.left) /\ auto'.change = decided /\ auto'.next = soonest /\ auto'.running = auto.running
      /\ auto'.again = auto.again /\ auto'.rows = auto.rows /\ auto'.table = auto.table /\ auto'.now = auto.now
  BY <1>1, <1>3 DEF RoundTypes
<1>5. c \in PlaysOn
  BY <1>1, <1>2
<1>6. row \in CourtRow
  BY <1>2, <1>5 DEF CourtTable
<1>7. match \in PlannedMatch
  BY <1>2, <1>6, MatchOfType
<1>8. decided # NoChange => decided.step = "audit" /\ decided.at = c /\ Verdict(decided, row)
  BY DecisionProperties
<1>9. decided = NoChange => decided.step = "none"
  BY DEF NoChange
<1> HIDE DEF c, row, match, decided, soonest
<1>10. AutoStill
  BY <1>1, <1>4 DEF Consider, AutoStill
<1>11. Placed'
  <2>1. UNCHANGED <<today, reads, desk, courtRows>> /\ Placed
    BY DEF Consider, AutoInv
  <2>2. reads["automation"].step = "none"
    BY <1>1, <2>1 DEF Placed, AutoInv, AutoTyped, ReadTypes, Readers
  <2>3. /\ auto'.change.step # "none" => auto'.change.step = "audit" /\ auto'.change.at = c
    BY <1>4, <1>8, <1>9
  <2> QED BY <1>1, <1>4, <1>5, <2>1, <2>2, <2>3 DEF Placed
<1>12. Decided'
  BY <1>4, <1>8, <1>9 DEF Decided, row
<1>13. Resting'
  BY <1>1, <1>4 DEF Resting
<1>14. RoundSound'
  <2> SUFFICES ASSUME Calm', auto'.running, ~auto'.again, ~(auto'.next \in 1..(auto'.now + 1))
               PROVE  \A d \in PlaysOn : Under(d)' \/ LooksInTime(d, auto.next)'
    BY <1>4 DEF RoundSound
  <2>1. /\ Calm /\ ~auto.again /\ UNCHANGED <<known, courtRows, today>>
        /\ ~(soonest \in 1..(auto.now + 1))
    BY <1>4, <1>10 DEF Calm, AutoStill
  <2>2. Ahead(row, match, auto.now) =>
          /\ match.date \in Nat \ {0} /\ soonest = Earlier(auto.next, match.date)
          /\ soonest \in 1..match.date /\ (auto.next # 0 => soonest <= auto.next)
    <3> SUFFICES ASSUME Ahead(row, match, auto.now)
                 PROVE  /\ match.date \in Nat \ {0} /\ soonest = Earlier(auto.next, match.date)
                        /\ soonest \in 1..match.date /\ (auto.next # 0 => soonest <= auto.next)
      OBVIOUS
    <3>1. match.date \in Nat \ {0}
      BY <1>2, <1>7 DEF Ahead, PlannedMatch
    <3>2. soonest = Earlier(auto.next, match.date)
      BY DEF soonest
    <3> QED BY <1>2, <3>1, <3>2, EarlierProperties
  <2>3. ~Ahead(row, match, auto.now) => soonest = auto.next
    BY DEF soonest
  <2>4. soonest \in Nat
    BY <1>2, <2>2, <2>3
  <2>5. ~(auto.next \in 1..(auto.now + 1))
    BY <1>2, <2>1, <2>2, <2>3, <2>4
  <2>6. \A d \in PlaysOn : Under(d) \/ LooksInTime(d, auto.next)
    BY <1>1, <2>1, <2>5 DEF RoundSound, AutoInv
  <2>7. auto.table = known /\ Behind(row, courtRows[c])
    BY <1>1, <1>5, <2>1 DEF AutoInv, RoundClose, Calm, IsClose, Owed, row
  <2> TAKE d \in PlaysOn
  <2> DEFINE own == courtRows[d]
             of == MatchOf(known, own)
  <2>8. own \in CourtRow
    BY <1>1 DEF CourtTable
  <2>9. of \in PlannedMatch
    BY <1>1, <2>8, MatchOfType
  <2>10. LooksInTime(d, auto.next)' <=> SoundFor(own, of, today, soonest)
    BY <1>4, <2>1 DEF LooksInTime
  <2>11. LooksInTime(d, auto.next) <=> SoundFor(own, of, today, auto.next)
    BY DEF LooksInTime
  <2>12. CASE d = c /\ decided # NoChange
    BY <1>4, <1>8, <2>12 DEF Under
  <2>13. CASE d = c /\ decided = NoChange
    <3>1. of = match
      BY <2>7, <2>13 DEF Behind, MatchOf, match
    <3>2. Decision(c, row, match, auto.now) = NoChange
      BY <2>13 DEF decided
    <3>3. Behind(row, own)
      BY <2>7, <2>13
    <3> HIDE DEF own, of
    <3>4. /\ ~Due(own, match, auto.now)
          /\ Ahead(own, match, auto.now) => Ahead(row, match, auto.now)
      BY <1>2, <1>7, <3>2, <3>3, BehindDue
    <3>5. SoundFor(own, match, auto.now, soonest)
      BY <2>2, <3>4 DEF SoundFor
    <3>6. SoundFor(own, match, today, soonest)
      BY <1>1, <1>2, <1>7, <2>4, <3>5, SoundPasses
    <3> QED BY <2>10, <3>1, <3>6
  <2>14. CASE d # c
    <3>1. Under(d) => Under(d)'
      <4>1. ASSUME NEW i \in DOMAIN auto.left, auto.left[i] = d
            PROVE  \E j \in DOMAIN auto'.left : auto'.left[j] = d
        <5>1. i \in 1..Len(auto.left) /\ i # 1
          BY <1>2, <2>14, <4>1 DEF c
        <5>2. i - 1 \in 1..Len(Tail(auto.left)) /\ Tail(auto.left)[i - 1] = auto.left[i]
          BY <1>1, <1>2, <5>1
        <5>3. i - 1 \in DOMAIN auto'.left /\ auto'.left[i - 1] = d
          BY <1>1, <1>2, <1>4, <4>1, <5>2
        <5> QED BY <5>3
      <4> QED BY <1>1, <4>1 DEF Under
    <3>2. CASE Under(d)
      BY <3>1, <3>2
    <3>3. CASE ~Under(d)
      <4>1. SoundFor(own, of, today, auto.next)
        BY <2>6, <2>11, <3>3
      <4> HIDE DEF own, of
      <4>2. SoundFor(own, of, today, soonest)
        BY <1>2, <2>2, <2>3, <2>9, <4>1, SoundEarlier
      <4> QED BY <2>10, <4>2
    <3> QED BY <3>2, <3>3
  <2> QED BY <2>12, <2>13, <2>14
<1> QED BY <1>10, <1>11, <1>12, <1>13, <1>14, StillKeeps DEF AutoInv
-----------------------------------------------------------------------------
LEMMA TriedAgainSound ==
  ASSUME AutoInv, auto' = TriedAgain, auto.change.step # "none"
  PROVE  /\ auto'.running /\ auto.running /\ auto'.again = auto.again /\ auto'.rows = auto.rows
         /\ auto'.table = auto.table /\ auto'.now = auto.now /\ auto'.change.step = "none" /\ auto.change.at \in PlaysOn
         /\ Decided' /\ RoundSound' /\ Resting'
<1>1. auto \in RoundTypes /\ auto.running /\ auto.change.at \in PlaysOn
  BY DEF AutoInv, AutoTyped, Placed
<1>2. TriedAgain = [auto EXCEPT !.change = NoChange, !.next = TriedAgain.next] /\ TriedAgain.next \in 1..(auto.now + 1)
  BY TriedAgainProperties DEF AutoInv
<1> DEFINE soon == TriedAgain.next
<1>3. auto' = [auto EXCEPT !.change = NoChange, !.next = soon]
  BY <1>2
<1> HIDE DEF soon
<1>4. /\ auto'.change = NoChange /\ auto'.next = soon /\ auto'.running = auto.running /\ auto'.again = auto.again
      /\ auto'.rows = auto.rows /\ auto'.table = auto.table /\ auto'.now = auto.now
  BY <1>1, <1>3 DEF RoundTypes
<1>5. auto'.change.step = "none"
  BY <1>4 DEF NoChange
<1>6. soon \in 1..(auto.now + 1)
  BY <1>2 DEF soon
<1>7. RoundSound'
  BY <1>4, <1>6 DEF RoundSound
<1>8. Resting' /\ Decided'
  BY <1>1, <1>4, <1>5 DEF Resting, Decided
<1> QED BY <1>1, <1>4, <1>5, <1>7, <1>8

LEMMA TriedAgainKeeps ==
  ASSUME AutoInv, AutoTyped', auto' = TriedAgain, auto.change.step # "none", auto.change.step # "refresh",
         UNCHANGED <<known, courtRows, courtCache, reads, today, desk, verdict, astray>>
  PROVE  AutoInv'
<1>1. /\ auto'.running /\ auto.running /\ auto'.again = auto.again /\ auto'.rows = auto.rows
      /\ auto'.table = auto.table /\ auto'.now = auto.now /\ auto'.change.step = "none"
      /\ Decided' /\ RoundSound' /\ Resting'
  BY TriedAgainSound
<1>2. AutoStill
  BY <1>1 DEF AutoStill
<1>3. Placed'
  BY <1>1 DEF Placed, AutoInv
<1> QED BY <1>1, <1>2, <1>3, StillKeeps DEF AutoInv

\* The automation goes on with its change.
LEMMA StepKeeps ==
  ASSUME AutoInv, AutoTyped', auto.change.step # "none", auto.change.step # "refresh",
         \/ auto' = [auto EXCEPT !.change.step = "commit"]
         \/ auto' = [auto EXCEPT !.change = NoChange] /\ auto.again,
         UNCHANGED <<known, courtRows, courtCache, reads, today, desk, verdict, astray>>
  PROVE  AutoInv'
<1>1. auto \in RoundTypes /\ auto.running /\ auto.change \in ChangeTypes
  BY DEF AutoInv, AutoTyped, Placed, RoundTypes
<1>2. /\ auto'.running = auto.running /\ auto'.again = auto.again /\ auto'.rows = auto.rows
      /\ auto'.table = auto.table /\ auto'.now = auto.now /\ auto'.left = auto.left /\ auto'.next = auto.next
      /\ \/ /\ auto'.change.step = "commit" /\ auto'.change.at = auto.change.at
            /\ auto'.change.on = auto.change.on /\ auto'.change.status = auto.change.status
         \/ auto'.change.step = "none" /\ auto.again
  <2>1. CASE auto' = [auto EXCEPT !.change.step = "commit"]
    <3> DEFINE step == [auto.change EXCEPT !.step = "commit"]
    <3>1. /\ step.step = "commit" /\ step.at = auto.change.at /\ step.on = auto.change.on
          /\ step.status = auto.change.status
      BY <1>1 DEF ChangeTypes
    <3>2. auto' = [auto EXCEPT !.change = step]
      BY <1>1, <2>1 DEF RoundTypes
    <3> HIDE DEF step
    <3> QED BY <1>1, <3>1, <3>2 DEF RoundTypes
  <2>2. CASE auto' = [auto EXCEPT !.change = NoChange] /\ auto.again
    <3>1. NoChange.step = "none"
      BY DEF NoChange
    <3> QED BY <1>1, <2>2, <3>1 DEF RoundTypes
  <2> QED BY <2>1, <2>2
<1>3. AutoStill
  BY <1>1, <1>2 DEF AutoStill
<1>4. Placed'
  BY <1>1, <1>2 DEF Placed, AutoInv
<1>5. Decided'
  BY <1>2 DEF Decided, Verdict, AutoInv
<1>6. Resting'
  BY <1>1, <1>2 DEF Resting
<1>7. RoundSound'
  <2> SUFFICES ASSUME Calm', auto'.running, ~auto'.again, ~(auto'.next \in 1..(auto'.now + 1))
               PROVE  \A d \in PlaysOn : Under(d)' \/ LooksInTime(d, auto.next)'
    BY <1>2 DEF RoundSound
  <2>1. \A d \in PlaysOn : Under(d) \/ LooksInTime(d, auto.next)
    BY <1>1, <1>2 DEF RoundSound, AutoInv, Calm
  <2>2. \A d \in PlaysOn : LooksInTime(d, auto.next)' = LooksInTime(d, auto.next)
    BY <1>2 DEF LooksInTime
  <2>3. \A d \in PlaysOn : Under(d) => Under(d)'
    BY <1>2 DEF Under
  <2> QED BY <2>1, <2>2, <2>3
<1> QED BY <1>3, <1>4, <1>5, <1>6, <1>7, StillKeeps DEF AutoInv

LEMMA RoundEndsKeeps ==
  ASSUME AutoInv, AutoTyped', RoundEnds
  PROVE  AutoInv'
<1>1. /\ auto \in RoundTypes /\ auto.running /\ auto.change.step = "none" /\ auto.left = <<>> /\ auto.now <= today
      /\ today \in Nat \ {0} /\ known \in MatchTable /\ courtRows \in CourtTable
  BY DEF AutoInv, AutoTyped, Placed, RoundEnds
<1>2. /\ auto'.running = FALSE /\ auto'.again = FALSE /\ auto'.rows = auto.rows /\ auto'.change = auto.change
      /\ auto'.table = auto.table /\ auto'.now = auto.now
  BY <1>1 DEF RoundTypes, RoundEnds
<1>3. AutoStill
  BY <1>2 DEF AutoStill, RoundEnds
<1>4. Placed' /\ Decided'
  BY <1>1, <1>2, <1>3 DEF Placed, AutoInv, AutoStill, Decided
<1>5. RoundSound'
  BY <1>2 DEF RoundSound
<1>6. Resting'
  <2> SUFFICES ASSUME Calm, NEW d \in PlaysOn
               PROVE  SoundFor(courtRows[d], MatchOf(known, courtRows[d]), today, timerAt')
    BY <1>3 DEF Resting, AutoStill, Calm, LooksInTime
  <2>1. MatchOf(known, courtRows[d]) \in PlannedMatch
    BY <1>1, MatchOfType DEF CourtTable
  <2>2. CASE auto.again
    <3>1. timerAt' \in 1..(today + 1)
      BY <1>1, <2>2 DEF RoundEnds
    <3> QED BY <1>1, <2>1, <3>1, SoundSoon
  <2>3. CASE ~auto.again
    <3>1. timerAt' = auto.next
      BY <2>3 DEF RoundEnds
    <3>2. CASE auto.next \in 1..(auto.now + 1)
      <4>1. auto.next \in 1..(today + 1)
        BY <1>1, <3>2 DEF RoundTypes
      <4> QED BY <1>1, <2>1, <3>1, <4>1, SoundSoon
    <3>3. CASE ~(auto.next \in 1..(auto.now + 1))
      <4>1. Under(d) \/ LooksInTime(d, auto.next)
        BY <1>1, <2>3, <3>3 DEF RoundSound, AutoInv
      <4>2. ~Under(d)
        BY <1>1 DEF Under
      <4> QED BY <3>1, <4>1, <4>2 DEF LooksInTime
    <3> QED BY <3>2, <3>3
  <2> QED BY <2>2, <2>3
<1> QED BY <1>3, <1>4, <1>5, <1>6, StillKeeps DEF AutoInv

LEMMA InnerKeeps ==
  ASSUME AutoInv, AutoTyped', AuditStarts \/ ChangeDone
  PROVE  AutoInv'
<1>1. UNCHANGED <<known, courtRows, courtCache, reads, today, desk, verdict, astray>>
  BY DEF AuditStarts, ChangeDone
<1>2. auto.change.step \in {"audit", "done"} /\ (auto.change.step = "done" => auto.again)
  BY DEF AuditStarts, ChangeDone, AutoInv, Placed
<1>3. \/ auto' = [auto EXCEPT !.change.step = "commit"]
      \/ auto' = [auto EXCEPT !.change = NoChange] /\ auto.again
      \/ auto' = TriedAgain
  BY <1>2 DEF AuditStarts, ChangeDone
<1> QED BY <1>1, <1>2, <1>3, StepKeeps, TriedAgainKeeps
-----------------------------------------------------------------------------
\* The automation writes a court while it goes on with its round; its own reading of the courts may begin.
AutoWrites ==
  /\ auto.change.step = "commit" /\ Changes(auto.change.at)
  /\ UNCHANGED <<known, courtCache, today, desk, astray>>
  /\ \A k \in Readers : k # "automation" => reads'[k] = reads[k]
  /\ reads'["automation"].step # "read"
  /\ auto'.rows = auto.rows /\ auto'.table = auto.table /\ auto'.now = auto.now
  /\ auto'.running = auto.running /\ auto'.again = auto.again

LEMMA AutoWritesProperties ==
  ASSUME AutoInv, AutoWrites, NEW c, c = auto.change.at
  PROVE  /\ c \in PlaysOn /\ auto.rows[c] = courtRows[c] /\ Behind(courtRows[c], courtRows'[c])
         /\ courtRows'[c].revision = courtRows[c].revision + 1 /\ courtRows[c].revision \in Nat
         /\ \A d \in PlaysOn : d # c => courtRows'[d] = courtRows[d] /\ verdict'[d] = verdict[d]
         /\ courtRows'[c].status # "pending" /\ courtRows'[c].serial = courtRows[c].serial
         /\ verdict'[c] = Noted(c, auto.change.on)
<1>1. c \in PlaysOn /\ auto.change.step # "none" /\ AutoTyped /\ Placed /\ Changes(c)
  BY DEF AutoInv, AutoWrites, Placed
<1>2. /\ courtRows[c].revision = auto.rows[c].revision
      /\ courtRows'[c].revision = courtRows[c].revision + 1
      /\ courtRows'[c].match = courtRows[c].match /\ courtRows'[c].serial = courtRows[c].serial
      /\ courtRows'[c].status = (IF courtRows[c].status = "none" THEN "none" ELSE auto.change.status)
      /\ auto.change.on = "off" => courtRows'[c].on = FALSE
      /\ verdict'[c] = Noted(c, auto.change.on)
      /\ \A d \in PlaysOn : d # c => courtRows'[d] = courtRows[d] /\ verdict'[d] = verdict[d]
  BY <1>1, ChangesProperties
<1>3. auto.rows[c] = courtRows[c]
  BY <1>1, <1>2 DEF AutoInv, Copies, IsCopy
<1>4. courtRows[c].revision \in Nat
  BY <1>1 DEF AutoTyped, CourtTable, CourtRow
<1>5. Verdict(auto.change, courtRows[c])
  BY <1>1, <1>3 DEF Decided, AutoInv
<1>6. Behind(courtRows[c], courtRows'[c]) /\ courtRows'[c].status # "pending"
  BY <1>2, <1>5 DEF Behind, Verdict
<1> QED BY <1>1, <1>2, <1>3, <1>4, <1>6

LEMMA AutoWritesKeeps ==
  ASSUME AutoInv, AutoWrites
  PROVE  Copies' /\ Serials' /\ JudgedForItself' /\ CacheClose' /\ ReadsClose' /\ RoundClose'
<1> DEFINE c == auto.change.at
<1>1. /\ c \in PlaysOn /\ auto.rows[c] = courtRows[c] /\ Behind(courtRows[c], courtRows'[c])
      /\ courtRows'[c].revision = courtRows[c].revision + 1 /\ courtRows[c].revision \in Nat
      /\ \A d \in PlaysOn : d # c => courtRows'[d] = courtRows[d] /\ verdict'[d] = verdict[d]
      /\ courtRows'[c].status # "pending" /\ courtRows'[c].serial = courtRows[c].serial
      /\ verdict'[c] = Noted(c, auto.change.on)
  BY AutoWritesProperties
<1>2. /\ UNCHANGED <<known, courtCache, today, desk, astray>>
      /\ \A k \in Readers : k # "automation" => reads'[k] = reads[k]
      /\ reads'["automation"].step # "read"
      /\ auto'.rows = auto.rows /\ auto'.table = auto.table
      /\ auto'.running = auto.running /\ auto'.again = auto.again
      /\ auto.change.step = "commit"
  BY DEF AutoWrites
<1>3. /\ courtCache \in CourtTable /\ auto.rows \in CourtTable /\ courtRows \in CourtTable
      /\ \A k \in Readers : reads[k].step = "read" => reads[k].rows \in CourtTable
      /\ verdict \in Verdicts
  BY ReadProperties DEF AutoInv, AutoTyped, RoundTypes
<1>4. verdict[c].serial \in Nat /\ verdict[c].starts \in Nat /\ courtRows[c].serial \in Nat
  BY <1>1, <1>3 DEF Verdicts, CourtTable, CourtRow
<1>5. \A rows \in CourtTable : rows[c].revision \in Nat
  BY <1>1 DEF CourtTable, CourtRow
<1>6. Decided /\ auto.change.step # "none"
  BY <1>2 DEF AutoInv
<1> HIDE DEF c
<1>7. ASSUME NEW rows \in CourtTable, IsCopy(rows)
      PROVE  IsCopy(rows)'
  <2>1. rows[c].revision <= courtRows[c].revision /\ rows[c].revision \in Nat
    BY <1>1, <1>5, <1>7 DEF IsCopy
  <2>2. rows[c].revision < courtRows'[c].revision
    BY <1>1, <2>1
  <2> SUFFICES ASSUME NEW d \in PlaysOn
               PROVE  /\ rows[d].revision <= courtRows'[d].revision
                      /\ rows[d].revision = courtRows'[d].revision => rows[d] = courtRows'[d]
    BY DEF IsCopy
  <2>3. CASE d = c
    BY <1>1, <2>1, <2>2, <2>3
  <2>4. CASE d # c
    BY <1>1, <1>7, <2>4 DEF IsCopy
  <2> QED BY <2>3, <2>4
<1>8. Copies'
  <2>1. IsCopy(courtCache)' /\ IsCopy(auto.rows)'
    <3>1. IsCopy(courtCache) /\ IsCopy(auto.rows)
      BY DEF AutoInv, Copies
    <3>2. courtCache' = courtCache /\ auto'.rows = auto.rows
      BY <1>2
    <3> QED BY <1>3, <1>7, <3>1, <3>2 DEF IsCopy
  <2>2. ASSUME NEW k \in Readers, reads'[k].step = "read"
        PROVE  IsCopy(reads[k].rows)'
    <3>1. reads'[k] = reads[k]
      BY <1>2, <2>2
    <3>2. reads[k].rows \in CourtTable /\ IsCopy(reads[k].rows)
      BY <1>3, <2>2, <3>1 DEF AutoInv, Copies
    <3> QED BY <1>7, <3>1, <3>2 DEF IsCopy
  <2> QED BY <2>1, <2>2 DEF Copies
<1>9. Serials' /\ JudgedForItself'
  <2>1. Noted(c, auto.change.on).serial = courtRows[c].serial
    BY <1>1 DEF Noted
  <2>2. Noted(c, auto.change.on).starts <= 1 /\ Noted(c, auto.change.on).starts \in Nat
    <3>1. verdict[c].starts <= 1
      BY <1>1 DEF AutoInv, JudgedForItself
    <3>2. CASE auto.change.on = "on"
      <4>1. courtRows[c].status = "pending"
        BY <1>1, <1>6, <3>2 DEF Decided, Verdict, c
      <4>2. verdict[c].serial # courtRows[c].serial
        BY <1>1, <1>4, <4>1 DEF AutoInv, Serials
      <4> QED BY <1>1, <3>2, <4>2 DEF Noted
    <3>3. CASE auto.change.on # "on"
      BY <1>1, <1>4, <3>1, <3>3 DEF Noted
    <3> QED BY <3>2, <3>3
  <2>3. Serials'
    BY <1>1, <1>4, <2>1 DEF AutoInv, Serials
  <2>4. JudgedForItself'
    BY <1>1, <1>4, <2>1, <2>2 DEF AutoInv, JudgedForItself
  <2> QED BY <2>3, <2>4
<1>10. \A d \in PlaysOn : Owed(d)' = Owed(d)
  BY <1>2 DEF Owed, Readers
<1>11. ASSUME ~astray
       PROVE  courtCache[c] = courtRows[c]
  <2>1. auto.rows[c].revision <= courtCache[c].revision
    BY <1>1, <1>11 DEF AutoInv, CacheClose
  <2>2. courtCache[c].revision <= courtRows[c].revision /\ courtCache[c].revision \in Nat
    BY <1>1, <1>3, <1>5 DEF AutoInv, Copies, IsCopy
  <2> QED BY <1>1, <2>1, <2>2 DEF AutoInv, Copies, IsCopy
<1>12. ASSUME NEW rows \in CourtTable, NEW d \in PlaysOn, d # c, IsClose(rows, d)
       PROVE  IsClose(rows, d)'
  BY <1>1, <1>2, <1>10, <1>12 DEF IsClose
<1>13. CacheClose'
  <2> SUFFICES ASSUME ~astray, NEW d \in PlaysOn
               PROVE  IsClose(courtCache, d)' /\ auto.rows[d].revision <= courtCache[d].revision
    BY <1>2 DEF CacheClose
  <2>1. IsClose(courtCache, d) /\ auto.rows[d].revision <= courtCache[d].revision
    BY DEF AutoInv, CacheClose
  <2>2. CASE d = c
    BY <1>1, <1>2, <1>11, <2>1, <2>2 DEF IsClose
  <2>3. CASE d # c
    BY <1>2, <1>3, <1>12, <2>1, <2>3 DEF IsClose
  <2> QED BY <2>1, <2>2, <2>3
<1>14. ReadsClose'
  <2> SUFFICES ASSUME ~astray, NEW k \in Readers, NEW d \in PlaysOn, reads'[k].step = "read"
               PROVE  IsClose(reads[k].rows, d)' \/ reads[k].rows[d].revision < courtCache[d].revision
    <3>1. \A k \in Readers : reads'[k].step = "read" => reads'[k] = reads[k]
      BY <1>2
    <3> QED BY <1>2, <3>1 DEF ReadsClose
  <2>1. reads'[k] = reads[k]
    BY <1>2
  <2>2. /\ IsClose(reads[k].rows, d) \/ reads[k].rows[d].revision < courtCache[d].revision
        /\ reads[k].rows \in CourtTable /\ IsCopy(reads[k].rows)
    BY <1>3, <2>1 DEF AutoInv, ReadsClose, Copies
  <2> DEFINE rows == reads[k].rows
  <2>3. rows'[d] = rows[d]
    BY <2>1
  <2>4. CASE d # c
    BY <1>12, <2>1, <2>2, <2>4 DEF IsClose
  <2>5. CASE d = c
    <3>1. CASE rows[c] = courtRows[c]
      BY <1>1, <2>1, <2>5, <3>1 DEF IsClose
    <3>2. CASE rows[c] # courtRows[c]
      <4>1. rows[c].revision < courtRows[c].revision
        BY <1>1, <1>5, <2>2, <3>2 DEF IsCopy
      <4> QED BY <1>11, <2>5, <4>1
    <3> QED BY <3>1, <3>2
  <2> QED BY <2>4, <2>5
<1>15. RoundClose'
  <2> SUFFICES ASSUME ~astray, auto.running, ~auto.again
               PROVE  auto.table = known /\ \A d \in PlaysOn : IsClose(auto.rows, d)'
    BY <1>2 DEF RoundClose
  <2>1. auto.table = known /\ \A d \in PlaysOn : IsClose(auto.rows, d)
    BY DEF AutoInv, RoundClose
  <2>2. ASSUME NEW d \in PlaysOn
        PROVE  IsClose(auto.rows, d)'
    <3>1. CASE d = c
      BY <1>1, <1>2, <3>1 DEF IsClose
    <3>2. CASE d # c
      BY <1>2, <1>3, <1>12, <2>1, <3>2 DEF IsClose
    <3> QED BY <3>1, <3>2
  <2> QED BY <2>1, <2>2
<1> QED BY <1>8, <1>9, <1>13, <1>14, <1>15
-----------------------------------------------------------------------------
LEMMA UpdateKeeps ==
  ASSUME AutoInv, AutoTyped', updateAutomation
  PROVE  AutoInv'
<1> DEFINE c == auto.change.at
<1>1. /\ auto \in RoundTypes /\ auto.change \in ChangeTypes /\ auto.change.step = "commit" /\ auto.running
      /\ c \in PlaysOn /\ reads \in [Readers -> ReadTypes] /\ reads["automation"].step # "read"
      /\ courtRows \in CourtTable /\ "automation" \in Readers /\ "desk" \in Readers /\ desk \in Overlays
  BY DEF AutoInv, AutoTyped, Placed, RoundTypes, updateAutomation, Readers
<1>2. UNCHANGED <<known, courtCache, today, desk, astray, timerAt>>
  BY DEF updateAutomation
<1>3. ASSUME Changes(c), auto' = [auto EXCEPT !.change.step = "refresh"],
             reads' = [reads EXCEPT !["automation"] = [NoRead EXCEPT !.step = "asked"]]
      PROVE  AutoInv'
  <2> DEFINE step == [auto.change EXCEPT !.step = "refresh"]
  <2>1. /\ step.step = "refresh" /\ step.at = auto.change.at /\ step.on = auto.change.on
        /\ step.status = auto.change.status
    BY <1>1 DEF ChangeTypes
  <2>2. auto' = [auto EXCEPT !.change = step]
    BY <1>1, <1>3 DEF RoundTypes
  <2> HIDE DEF step
  <2>3. /\ auto'.rows = auto.rows /\ auto'.table = auto.table /\ auto'.now = auto.now
        /\ auto'.running = auto.running /\ auto'.again = auto.again /\ auto'.left = auto.left /\ auto'.next = auto.next
        /\ auto'.change = step
    BY <1>1, <2>2 DEF RoundTypes
  <2>4. reads'["automation"].step = "asked" /\ \A k \in Readers : k # "automation" => reads'[k] = reads[k]
    BY <1>1, <1>3 DEF NoRead
  <2>5. AutoWrites
    BY <1>1, <1>2, <1>3, <2>3, <2>4 DEF AutoWrites
  <2>6. /\ c \in PlaysOn /\ courtRows'[c].revision = courtRows[c].revision + 1 /\ courtRows[c].revision \in Nat
        /\ \A d \in PlaysOn : d # c => courtRows'[d] = courtRows[d]
    BY <2>5, AutoWritesProperties
  <2>7. Placed'
    <3>1. reads'["desk"] = reads["desk"] /\ Placed
      BY <1>1, <2>4 DEF AutoInv
    <3>2. desk.step = "saved" => courtRows'[desk.at].revision > desk.revision
      <4>1. desk.step = "saved" => desk.at \in PlaysOn /\ courtRows[desk.at].revision > desk.revision
        BY <3>1 DEF Placed
      <4>2. desk.revision \in Nat
        BY <1>1 DEF Overlays
      <4> QED BY <2>6, <4>1, <4>2
    <3> QED BY <1>1, <1>2, <2>1, <2>3, <3>1, <3>2 DEF Placed
  <2>8. Decided'
    BY <1>1, <2>1, <2>3 DEF Decided, Verdict, AutoInv
  <2>9. Resting'
    BY <1>1, <2>3 DEF Resting
  <2>10. RoundSound'
    <3> SUFFICES ASSUME Calm', ~auto.again, ~(auto.next \in 1..(auto.now + 1)), NEW d \in PlaysOn
                 PROVE  Under(d)' \/ LooksInTime(d, auto.next)'
      BY <2>3 DEF RoundSound
    <3>1. Calm
      BY <1>1, <1>2, <2>4 DEF Calm
    <3>2. Under(d) \/ LooksInTime(d, auto.next)
      BY <1>1, <3>1 DEF RoundSound, AutoInv
    <3>3. Under(d) => Under(d)'
      BY <1>1, <2>1, <2>3 DEF Under
    <3>4. d = c => Under(d)
      BY <1>1 DEF Under
    <3>5. d # c => LooksInTime(d, auto.next)' = LooksInTime(d, auto.next)
      BY <1>2, <2>3, <2>6 DEF LooksInTime
    <3> QED BY <3>2, <3>3, <3>4, <3>5
  <2> QED BY <2>5, <2>7, <2>8, <2>9, <2>10, AutoWritesKeeps DEF AutoInv
<1>4. ASSUME Changes(c), auto' = TriedAgain, UNCHANGED reads
      PROVE  AutoInv'
  <2>1. /\ auto'.running /\ auto.running /\ auto'.again = auto.again /\ auto'.rows = auto.rows
        /\ auto'.table = auto.table /\ auto'.now = auto.now /\ auto'.change.step = "none"
        /\ Decided' /\ RoundSound' /\ Resting'
    BY <1>1, <1>4, TriedAgainSound
  <2>2. AutoWrites
    BY <1>1, <1>2, <1>4, <2>1 DEF AutoWrites
  <2>3. /\ c \in PlaysOn /\ courtRows'[c].revision = courtRows[c].revision + 1 /\ courtRows[c].revision \in Nat
        /\ \A d \in PlaysOn : d # c => courtRows'[d] = courtRows[d]
    BY <2>2, AutoWritesProperties
  <2>4. Placed'
    <3>1. desk.step = "saved" => courtRows'[desk.at].revision > desk.revision
      <4>1. desk.step = "saved" => desk.at \in PlaysOn /\ courtRows[desk.at].revision > desk.revision
        BY DEF Placed, AutoInv
      <4>2. desk.revision \in Nat
        BY <1>1 DEF Overlays
      <4> QED BY <2>3, <4>1, <4>2
    <3>2. Placed
      BY DEF AutoInv
    <3> QED BY <1>1, <1>2, <1>4, <2>1, <3>1, <3>2 DEF Placed
  <2> QED BY <2>1, <2>2, <2>4, AutoWritesKeeps DEF AutoInv
<1>5. ASSUME auto' = TriedAgain, UNCHANGED <<courtRows, verdict, reads>>
      PROVE  AutoInv'
  BY <1>1, <1>2, <1>5, TriedAgainKeeps
<1> QED BY <1>3, <1>4, <1>5 DEF updateAutomation

-----------------------------------------------------------------------------
\* The courts are about to be read, or are read.
LEMMA ReadingKeeps ==
  ASSUME AutoInv, AutoTyped', NEW k \in Readers,
         \/ reads' = [reads EXCEPT ![k] = [NoRead EXCEPT !.step = "asked"]] /\ k = "invalidation"
         \/ reads' = [reads EXCEPT ![k] = [step |-> "read", rows |-> courtRows]] /\ reads[k].step = "asked",
         UNCHANGED <<known, courtRows, courtCache, auto, timerAt, today, desk, verdict, astray>>
  PROVE  AutoInv'
<1>1. reads \in [Readers -> ReadTypes] /\ "desk" \in Readers /\ "automation" \in Readers
  BY DEF AutoInv, AutoTyped, Readers
<1>2. /\ \A j \in Readers : j # k => reads'[j] = reads[j]
      /\ \/ reads'[k].step = "asked" /\ k # "desk" /\ k # "automation"
         \/ reads'[k].step = "read" /\ reads'[k].rows = courtRows /\ reads[k].step = "asked"
  BY <1>1 DEF NoRead
<1>3. \A j \in {"desk", "automation"} : (reads'[j].step # "none") = (reads[j].step # "none")
  BY <1>1, <1>2
<1>4. Placed'
  BY <1>1, <1>2, <1>3 DEF AutoInv, Placed
<1>5. IsCopy(courtRows)
  BY DEF IsCopy, AutoInv, AutoTyped, CourtTable, CourtRow
<1>6. Copies'
  BY <1>2, <1>5 DEF AutoInv, Copies, IsCopy
<1>7. Serials' /\ JudgedForItself' /\ Decided'
  BY DEF AutoInv, Serials, JudgedForItself, Decided
<1>9. \A c \in PlaysOn : Owed(c)' = Owed(c)
  BY <1>3 DEF Owed
<1>10. CacheClose' /\ RoundClose'
  BY <1>9 DEF AutoInv, CacheClose, RoundClose, IsClose
<1>11. ReadsClose'
  <2> SUFFICES ASSUME ~astray, NEW j \in Readers, NEW c \in PlaysOn, reads'[j].step = "read"
               PROVE  IsClose(reads[j].rows, c)' \/ reads'[j].rows[c].revision < courtCache[c].revision
    BY DEF ReadsClose
  <2>1. CASE j = k
    BY <1>2, <2>1 DEF IsClose, Behind
  <2>2. CASE j # k
    BY <1>2, <1>9, <2>2 DEF IsClose, AutoInv, ReadsClose
  <2> QED BY <2>1, <2>2
<1>12. Calm' = Calm
  BY <1>3 DEF Calm
<1>13. RoundSound' /\ Resting'
  BY <1>12 DEF AutoInv, RoundSound, Resting, LooksInTime, Under
<1> QED BY <1>4, <1>6, <1>7, <1>10, <1>11, <1>13 DEF AutoInv
-----------------------------------------------------------------------------
\* The automation is woken and looks again, now or after its round.
LEMMA WakeKeeps ==
  ASSUME AutoInv, NEW table \in MatchTable, NEW rows \in CourtTable, reconcile(table, rows),
         known' = table, courtCache' = rows, UNCHANGED <<courtRows, today>>,
         ~astray' => \A c \in PlaysOn : IsClose(rows, c)',
         ~astray' /\ auto.running => ~astray /\ \A c \in PlaysOn : courtCache[c].revision <= rows[c].revision
  PROVE  /\ CacheClose' /\ RoundClose' /\ RoundSound' /\ Resting' /\ Decided'
         /\ auto'.now <= today /\ auto'.running
         /\ auto'.rows = auto.rows \/ auto'.rows = rows
         /\ \/ auto'.change = auto.change /\ auto'.again
            \/ auto'.change.step = "none" /\ ~auto.running
<1>1. /\ auto \in RoundTypes /\ today \in Nat \ {0} /\ auto.rows \in CourtTable /\ courtCache \in CourtTable
      /\ auto.now <= today
  BY DEF AutoInv, AutoTyped, Placed, RoundTypes
<1>2. CASE auto.running
  <2>1. auto' = [auto EXCEPT !.again = TRUE]
    BY <1>2 DEF reconcile
  <2>2. /\ auto'.running /\ auto'.again /\ auto'.rows = auto.rows /\ auto'.table = auto.table /\ auto'.now = auto.now
        /\ auto'.change = auto.change
    BY <1>1, <1>2, <2>1 DEF RoundTypes
  <2>3. CacheClose'
    <3> SUFFICES ASSUME ~astray', NEW c \in PlaysOn
                 PROVE  auto.rows[c].revision <= rows[c].revision
      BY <2>2 DEF CacheClose
    <3>1. auto.rows[c].revision <= courtCache[c].revision /\ courtCache[c].revision <= rows[c].revision
      BY <1>2 DEF AutoInv, CacheClose
    <3>2. auto.rows[c].revision \in Nat /\ courtCache[c].revision \in Nat /\ rows[c].revision \in Nat
      BY <1>1 DEF CourtTable, CourtRow
    <3> QED BY <3>1, <3>2
  <2>4. RoundClose' /\ RoundSound' /\ Resting'
    BY <2>2 DEF RoundClose, RoundSound, Resting
  <2>5. Decided'
    BY <2>2 DEF AutoInv, Decided
  <2> QED BY <1>1, <2>2, <2>3, <2>4, <2>5
<1>3. CASE ~auto.running
  <2>1. auto' = Round(table, rows, today)
    BY <1>3 DEF reconcile
  <2>2. /\ auto'.running /\ auto'.rows = rows /\ auto'.table = table /\ auto'.now = today
        /\ auto'.change.step = "none"
    BY <2>1 DEF Round, NoChange
  <2>3. \A c \in PlaysOn : Under(c)'
    <3>1. \A c \in PlaysOn : \E i \in DOMAIN Round(table, rows, today).left : Round(table, rows, today).left[i] = c
      BY <1>1, RoundProperties
    <3> QED BY <2>1, <3>1 DEF Under
  <2>4. CacheClose'
    <3> SUFFICES ASSUME ~astray', NEW c \in PlaysOn
                 PROVE  rows[c].revision <= rows[c].revision
      BY <2>2 DEF CacheClose
    <3> QED BY DEF CourtTable, CourtRow
  <2>5. RoundClose'
    BY <2>2 DEF RoundClose, IsClose
  <2>6. RoundSound' /\ Resting' /\ Decided'
    BY <2>2, <2>3 DEF RoundSound, Resting, Decided
  <2> QED BY <1>1, <1>3, <2>2, <2>4, <2>5, <2>6
<1> QED BY <1>2, <1>3

\* The timer, and the matches loaded again.
LEMMA LooksKeeps ==
  ASSUME AutoInv, AutoTyped', NEW table \in MatchTable, known' = table, reconcile(table, courtCache), Awake(courtCache),
         UNCHANGED <<courtRows, courtCache, reads, today, desk, verdict>>
  PROVE  AutoInv'
<1>1. courtCache \in CourtTable /\ reads \in [Readers -> ReadTypes]
  BY DEF AutoInv, AutoTyped
<1>2. \A c \in PlaysOn : Owed(c)' = Owed(c)
  BY DEF Owed
<1>3. ~astray' => ~astray \/ courtCache = courtRows
  BY DEF Awake
<1>4. ~astray' /\ auto.running => ~astray
  BY DEF Awake
<1>5. ASSUME ~astray'
      PROVE  \A c \in PlaysOn : IsClose(courtCache, c)'
  <2>1. CASE ~astray
    BY <1>2, <2>1 DEF AutoInv, CacheClose, IsClose
  <2>2. CASE courtCache = courtRows
    BY <2>2 DEF IsClose, Behind
  <2> QED BY <1>3, <1>5, <2>1, <2>2
<1>6. \A c \in PlaysOn : courtCache[c].revision <= courtCache[c].revision
  BY <1>1 DEF CourtTable, CourtRow
<1>7. /\ CacheClose' /\ RoundClose' /\ RoundSound' /\ Resting' /\ Decided'
      /\ auto'.now <= today /\ auto'.running
      /\ auto'.rows = auto.rows \/ auto'.rows = courtCache
      /\ \/ auto'.change = auto.change /\ auto'.again
         \/ auto'.change.step = "none" /\ ~auto.running
  BY <1>1, <1>4, <1>5, <1>6, WakeKeeps
<1>8. ReadsClose'
  <2> SUFFICES ASSUME ~astray', NEW k \in Readers, NEW c \in PlaysOn, reads[k].step = "read"
               PROVE  IsClose(reads[k].rows, c)' \/ reads[k].rows[c].revision < courtCache[c].revision
    BY DEF ReadsClose
  <2>1. CASE ~astray
    BY <1>2, <2>1 DEF AutoInv, ReadsClose, IsClose
  <2>2. CASE courtCache = courtRows
    <3>1. IsCopy(reads[k].rows) /\ reads[k].rows \in CourtTable
      BY ReadProperties DEF AutoInv, Copies
    <3>2. reads[k].rows[c].revision \in Nat /\ courtCache[c].revision \in Nat
      BY <1>1, <3>1 DEF CourtTable, CourtRow
    <3>3. CASE reads[k].rows[c] = courtRows[c]
      BY <3>3 DEF IsClose, Behind
    <3>4. CASE reads[k].rows[c] # courtRows[c]
      BY <2>2, <3>1, <3>2, <3>4 DEF IsCopy
    <3> QED BY <3>3, <3>4
  <2> QED BY <1>3, <2>1, <2>2
<1>9. Placed'
  BY <1>7 DEF AutoInv, Placed
<1>10. Copies'
  BY <1>7 DEF AutoInv, Copies, IsCopy
<1>11. Serials' /\ JudgedForItself'
  BY DEF AutoInv, Serials, JudgedForItself
<1> QED BY <1>7, <1>8, <1>9, <1>10, <1>11 DEF AutoInv
-----------------------------------------------------------------------------
\* What was read is installed: what it says of the courts and of the other readers.
LEMMA InstallProperties ==
  ASSUME AutoInv, NEW k \in Readers, NEW rows, rows = reads[k].rows, reads[k].step = "read",
         reads' = [reads EXCEPT ![k] = NoRead], courtCache' = rows, UNCHANGED courtRows,
         k = "desk" \/ UNCHANGED desk
  PROVE  /\ rows \in CourtTable
         /\ IsCopy(rows) /\ \A j \in Readers : j # k => reads'[j] = reads[j]
         /\ reads'[k].step = "none"
         /\ ~Older(rows) => \A c \in PlaysOn : courtCache[c].revision <= rows[c].revision
         /\ ~Older(rows) /\ ~astray => \A c \in PlaysOn : IsClose(rows, c)'
         /\ ~Older(rows) /\ ~astray => 
              \A j \in Readers, c \in PlaysOn :
                reads'[j].step = "read" => IsClose(reads[j].rows, c)' \/ reads'[j].rows[c].revision < rows[c].revision
<1>1. /\ reads \in [Readers -> ReadTypes] /\ courtCache \in CourtTable /\ rows \in CourtTable /\ Placed
      /\ "desk" \in Readers /\ desk \in Overlays
  BY ReadProperties DEF AutoInv, AutoTyped, Readers
<1>2. IsCopy(rows)
  BY DEF AutoInv, Copies
<1>3. reads'[k].step = "none" /\ \A j \in Readers : j # k => reads'[j] = reads[j]
  BY <1>1 DEF NoRead
<1>4. \A c \in PlaysOn : rows[c].revision \in Nat /\ courtCache[c].revision \in Nat
  BY <1>1 DEF CourtTable, CourtRow
<1>5. ASSUME ~Older(rows)
      PROVE  \A c \in PlaysOn : courtCache[c].revision <= rows[c].revision
  BY <1>4, <1>5 DEF Older
<1>6. ASSUME ~Older(rows), ~astray, NEW c \in PlaysOn
      PROVE  /\ IsClose(rows, c)
             /\ k = "desk" => Behind(rows[c], courtRows[c]) /\ (c = desk.at => rows[c].revision > desk.revision)
  <2>1. IsClose(rows, c)
    BY <1>4, <1>5, <1>6 DEF AutoInv, ReadsClose
  <2>2. k = "desk" /\ c = desk.at => rows[c].revision > desk.revision
    BY <1>1 DEF Placed
  <2>3. desk.revision \in Nat
    BY <1>1 DEF Overlays
  <2> QED BY <1>4, <2>1, <2>2, <2>3 DEF IsClose, Owed
<1>7. k # "desk" => \A c \in PlaysOn : Owed(c)' = Owed(c)
  BY <1>1, <1>3 DEF Owed
<1>8. ASSUME ~Older(rows), ~astray, NEW c \in PlaysOn
      PROVE  IsClose(rows, c)'
  BY <1>6, <1>7, <1>8 DEF IsClose
<1>9. ASSUME ~Older(rows), ~astray, NEW j \in Readers, NEW c \in PlaysOn, reads'[j].step = "read"
      PROVE  IsClose(reads[j].rows, c)' \/ reads'[j].rows[c].revision < rows[c].revision
  <2>1. reads'[j] = reads[j] /\ reads[j].rows \in CourtTable
    BY <1>3, <1>9, ReadProperties DEF AutoInv
  <2>2. reads[j].rows[c].revision \in Nat
    BY <2>1 DEF CourtTable, CourtRow
  <2>3. IsClose(reads[j].rows, c) \/ reads[j].rows[c].revision < courtCache[c].revision
    BY <1>9, <2>1 DEF AutoInv, ReadsClose
  <2>4. CASE reads[j].rows[c].revision < courtCache[c].revision
    BY <1>4, <1>5, <1>9, <2>1, <2>2, <2>4
  <2>5. CASE Behind(reads[j].rows[c], courtRows[c])
    BY <2>1, <2>5 DEF IsClose
  <2>6. CASE Owed(c) /\ reads[j].rows[c].revision <= desk.revision
    <3>1. CASE k # "desk"
      BY <1>7, <2>1, <2>6, <3>1 DEF IsClose
    <3>2. CASE k = "desk"
      <4>1. rows[c].revision > desk.revision /\ desk.revision \in Nat
        BY <1>1, <1>6, <1>9, <2>6, <3>2 DEF Owed, Overlays
      <4> QED BY <1>4, <2>1, <2>2, <2>6, <4>1
    <3> QED BY <3>1, <3>2
  <2> QED BY <2>3, <2>4, <2>5, <2>6 DEF IsClose
<1> QED BY <1>1, <1>2, <1>3, <1>5, <1>8, <1>9

LEMMA RefreshKeeps ==
  ASSUME AutoInv, AutoTyped', NEW k \in Readers, refresh(k)
  PROVE  AutoInv'
<1>1. PICK rows : rows = reads[k].rows
  OBVIOUS
<1>2. /\ reads[k].step = "read" /\ reads' = [reads EXCEPT ![k] = NoRead] /\ courtCache' = rows
      /\ UNCHANGED <<known, courtRows, today, verdict>>
      /\ k = "desk" \/ UNCHANGED desk
  BY <1>1 DEF refresh
<1>3. /\ rows \in CourtTable
      /\ IsCopy(rows) /\ \A j \in Readers : j # k => reads'[j] = reads[j]
      /\ reads'[k].step = "none"
      /\ ~Older(rows) => \A c \in PlaysOn : courtCache[c].revision <= rows[c].revision
      /\ ~Older(rows) /\ ~astray => \A c \in PlaysOn : IsClose(rows, c)'
      /\ ~Older(rows) /\ ~astray => 
           \A j \in Readers, c \in PlaysOn :
             reads'[j].step = "read" => IsClose(reads[j].rows, c)' \/ reads'[j].rows[c].revision < rows[c].revision
  BY <1>1, <1>2, InstallProperties
<1>4. /\ auto \in RoundTypes /\ courtCache \in CourtTable /\ known \in MatchTable /\ Placed
      /\ "desk" \in Readers /\ "automation" \in Readers /\ auto.change \in ChangeTypes
      /\ \A c \in PlaysOn : rows[c].revision \in Nat /\ courtCache[c].revision \in Nat /\ auto.rows[c].revision \in Nat
      /\ \A j \in Readers : reads[j].step = "read" => reads[j].rows \in CourtTable
  BY <1>3, ReadProperties DEF AutoInv, AutoTyped, Readers, RoundTypes, CourtTable, CourtRow
<1>5. Serials' /\ JudgedForItself'
  BY <1>2 DEF AutoInv, Serials, JudgedForItself
<1>6. ASSUME auto'.rows = auto.rows \/ auto'.rows = rows
      PROVE  Copies'
  BY <1>2, <1>3, <1>6 DEF AutoInv, Copies, IsCopy
<1>7. ASSUME ~astray' => ~astray /\ ~Older(rows)
      PROVE  ReadsClose'
  BY <1>2, <1>3, <1>7 DEF ReadsClose
<1>8. ASSUME k # "desk", astray' = (astray \/ Older(rows)), auto'.rows = auto.rows, auto'.table = auto.table
      PROVE  /\ CacheClose' /\ ReadsClose' /\ Copies'
             /\ \A c \in PlaysOn : Owed(c)' = Owed(c)
             /\ Calm' => Calm
  <2>1. reads'["desk"] = reads["desk"] /\ desk' = desk
    BY <1>2, <1>3, <1>4, <1>8
  <2>2. \A c \in PlaysOn : Owed(c)' = Owed(c)
    BY <2>1 DEF Owed
  <2>3. CacheClose'
    <3> SUFFICES ASSUME ~astray, ~Older(rows), NEW c \in PlaysOn
                 PROVE  IsClose(rows, c)' /\ auto.rows[c].revision <= rows[c].revision
      BY <1>2, <1>8 DEF CacheClose, IsClose
    <3>1. auto.rows[c].revision <= courtCache[c].revision
      BY DEF AutoInv, CacheClose
    <3> QED BY <1>3, <1>4, <3>1
  <2> QED BY <1>6, <1>7, <1>8, <2>1, <2>2, <2>3 DEF Calm
<1>9. CASE k = "invalidation"
  <2>1. UNCHANGED <<auto, timerAt, desk>> /\ astray' = (astray \/ Older(rows))
    BY <1>1, <1>9 DEF refresh
  <2>2. /\ CacheClose' /\ ReadsClose' /\ Copies' /\ (\A c \in PlaysOn : Owed(c)' = Owed(c)) /\ (Calm' => Calm)
    BY <1>8, <1>9, <2>1
  <2>3. Placed'
    BY <1>2, <1>3, <1>4, <1>9, <2>1 DEF Placed
  <2>4. Decided'
    BY <2>1 DEF AutoInv, Decided
  <2>5. RoundClose'
    BY <1>2, <2>1, <2>2 DEF AutoInv, RoundClose, IsClose
  <2>6. RoundSound' /\ Resting'
    BY <1>2, <2>1, <2>2 DEF AutoInv, RoundSound, Resting, LooksInTime, Under
  <2> QED BY <1>5, <2>2, <2>3, <2>4, <2>5, <2>6 DEF AutoInv
<1>10. CASE k = "automation"
  <2>1. /\ auto' = [auto EXCEPT !.again = TRUE, !.change.step = "done"] /\ UNCHANGED <<timerAt, desk>>
        /\ astray' = (astray \/ Older(rows))
    BY <1>1, <1>10 DEF refresh
  <2>2. auto.change.step = "refresh" /\ auto.running
    BY <1>2, <1>4, <1>10 DEF Placed
  <2> DEFINE step == [auto.change EXCEPT !.step = "done"]
  <2>3. /\ step.step = "done" /\ step.at = auto.change.at /\ step.on = auto.change.on
        /\ step.status = auto.change.status
    BY <1>4 DEF ChangeTypes
  <2>4. auto' = [auto EXCEPT !.again = TRUE, !.change = step]
    BY <1>4, <2>1 DEF RoundTypes
  <2> HIDE DEF step
  <2>5. /\ auto'.rows = auto.rows /\ auto'.table = auto.table /\ auto'.now = auto.now
        /\ auto'.running /\ auto'.again /\ auto'.change = step
    BY <1>4, <2>2, <2>4 DEF RoundTypes
  <2>6. CacheClose' /\ ReadsClose' /\ Copies'
    BY <1>8, <1>10, <2>1, <2>5
  <2>7. Placed'
    BY <1>2, <1>3, <1>4, <1>10, <2>1, <2>2, <2>3, <2>5 DEF Placed
  <2>8. Decided'
    BY <2>2, <2>3, <2>5 DEF AutoInv, Decided, Verdict
  <2>9. RoundClose' /\ RoundSound' /\ Resting'
    BY <2>5 DEF RoundClose, RoundSound, Resting
  <2> QED BY <1>5, <2>6, <2>7, <2>8, <2>9 DEF AutoInv
<1>11. CASE k = "desk"
  <2>1. /\ reconcile(known, rows) /\ desk' = NoDesk
        /\ astray' = (Older(rows) \/ (astray /\ (auto.running \/ rows # courtRows)))
    BY <1>1, <1>11 DEF refresh
  <2>2. \A c \in PlaysOn : Owed(c)' = FALSE
    BY <1>3, <1>11 DEF Owed
  <2>3. ~astray' => ~Older(rows) /\ (~astray \/ rows = courtRows)
    BY <2>1
  <2>4. ASSUME ~astray'
        PROVE  \A c \in PlaysOn : IsClose(rows, c)'
    <3>1. CASE ~astray
      BY <1>3, <2>3, <2>4, <3>1
    <3>2. CASE rows = courtRows
      BY <1>2, <3>2 DEF IsClose, Behind
    <3> QED BY <2>3, <2>4, <3>1, <3>2
  <2>5. ~astray' /\ auto.running => ~astray /\ \A c \in PlaysOn : courtCache[c].revision <= rows[c].revision
    BY <1>3, <2>1
  <2>6. /\ CacheClose' /\ RoundClose' /\ RoundSound' /\ Resting' /\ Decided'
        /\ auto'.now <= today /\ auto'.running
        /\ auto'.rows = auto.rows \/ auto'.rows = rows
        /\ \/ auto'.change = auto.change /\ auto'.again
           \/ auto'.change.step = "none" /\ ~auto.running
    BY <1>2, <1>3, <1>4, <2>1, <2>4, <2>5, WakeKeeps
  <2>7. ReadsClose'
    <3> SUFFICES ASSUME ~astray', NEW j \in Readers, NEW c \in PlaysOn, reads'[j].step = "read"
                 PROVE  IsClose(reads[j].rows, c)' \/ reads'[j].rows[c].revision < rows[c].revision
      BY <1>2 DEF ReadsClose
    <3>1. CASE ~astray
      BY <1>3, <2>3, <3>1
    <3>2. CASE rows = courtRows
      <4>1. reads'[j] = reads[j] /\ IsCopy(reads[j].rows) /\ reads[j].rows \in CourtTable
        BY <1>3, <1>4 DEF AutoInv, Copies
      <4>2. reads[j].rows[c].revision \in Nat
        BY <4>1 DEF CourtTable, CourtRow
      <4>3. CASE reads[j].rows[c] = courtRows[c]
        BY <1>2, <4>1, <4>3 DEF IsClose, Behind
      <4>4. CASE reads[j].rows[c] # courtRows[c]
        BY <1>4, <3>2, <4>1, <4>2, <4>4 DEF IsCopy
      <4> QED BY <4>3, <4>4
    <3> QED BY <2>3, <3>1, <3>2
  <2>8. Placed'
    <3>1. desk'.step = "closed"
      BY <2>1 DEF NoDesk
    <3>2. reads'["automation"] = reads["automation"] /\ reads'["desk"].step = "none"
      BY <1>3, <1>4, <1>11
    <3>3. today' = today
      BY <1>2
    <3> QED BY <1>4, <2>6, <3>1, <3>2, <3>3 DEF Placed
  <2> QED BY <1>5, <1>6, <2>6, <2>7, <2>8 DEF AutoInv
<1> QED BY <1>9, <1>10, <1>11 DEF Readers
-----------------------------------------------------------------------------
LEMMA RefreshFailsKeeps ==
  ASSUME AutoInv, AutoTyped', NEW k \in Readers, RefreshFails(k)
  PROVE  AutoInv'
<1>1. /\ reads[k].step = "asked" /\ reads' = [reads EXCEPT ![k] = NoRead]
      /\ UNCHANGED <<known, courtRows, courtCache, timerAt, today, verdict>>
      /\ auto' = (IF k = "automation" THEN TriedAgain ELSE auto)
      /\ desk' = (IF k = "desk" THEN [desk EXCEPT !.step = "failed"] ELSE desk)
      /\ astray' = (astray \/ k = "desk")
  BY DEF RefreshFails
<1>2. /\ reads \in [Readers -> ReadTypes] /\ desk \in Overlays /\ Placed /\ "desk" \in Readers /\ "automation" \in Readers
  BY DEF AutoInv, AutoTyped, Readers
<1>3. reads'[k].step = "none" /\ \A j \in Readers : j # k => reads'[j] = reads[j]
  BY <1>1, <1>2 DEF NoRead
<1>4. k = "automation" => auto.change.step = "refresh"
  BY <1>1, <1>2 DEF Placed
<1>5. /\ auto'.rows = auto.rows /\ auto'.table = auto.table /\ auto'.now = auto.now
      /\ auto'.running = auto.running /\ auto'.again = auto.again
      /\ k = "automation" => auto'.change.step = "none" /\ Decided' /\ RoundSound' /\ Resting'
      /\ k # "automation" => auto' = auto
  BY <1>1, <1>4, TriedAgainSound
<1>6. Serials' /\ JudgedForItself'
  BY <1>1 DEF AutoInv, Serials, JudgedForItself
<1>7. Copies'
  BY <1>1, <1>3, <1>5 DEF AutoInv, Copies, IsCopy
<1>8. k # "desk" => \A c \in PlaysOn : Owed(c)' = Owed(c)
  BY <1>1, <1>2, <1>3 DEF Owed
<1>9. CacheClose' /\ RoundClose'
  BY <1>1, <1>5, <1>8 DEF AutoInv, CacheClose, RoundClose, IsClose
<1>10. ReadsClose'
  <2> SUFFICES ASSUME ~astray', NEW j \in Readers, NEW c \in PlaysOn, reads'[j].step = "read"
               PROVE  IsClose(reads[j].rows, c)' \/ reads'[j].rows[c].revision < courtCache[c].revision
    BY <1>1 DEF ReadsClose
  <2>1. reads'[j] = reads[j] /\ ~astray /\ k # "desk"
    BY <1>1, <1>3
  <2>2. IsClose(reads[j].rows, c) \/ reads[j].rows[c].revision < courtCache[c].revision
    BY <2>1 DEF AutoInv, ReadsClose
  <2> QED BY <1>1, <1>8, <2>1, <2>2 DEF IsClose
<1>11. Placed'
  <2>1. k = "desk" => desk.step = "saved" /\ desk'.step = "failed" /\ desk'.at = desk.at
    BY <1>1, <1>2 DEF Placed, Overlays
  <2>2. k # "desk" => desk' = desk /\ reads'["desk"] = reads["desk"]
    BY <1>1, <1>2, <1>3
  <2>3. k # "automation" => reads'["automation"] = reads["automation"]
    BY <1>2, <1>3
  <2>4. k = "desk" => reads'["desk"].step = "none"
    BY <1>3
  <2>5. k = "automation" => reads'["automation"].step = "none"
    BY <1>3
  <2>6. auto'.change.step # "none" => auto' = auto
    BY <1>5
  <2>7. today' = today /\ courtRows' = courtRows
    BY <1>1
  <2> QED BY <1>2, <1>5, <2>1, <2>2, <2>3, <2>4, <2>5, <2>6, <2>7 DEF Placed
<1>12. Decided' /\ RoundSound' /\ Resting'
  <2>1. CASE k = "automation"
    BY <1>5, <2>1
  <2>2. CASE k # "automation"
    <3>1. auto' = auto /\ (Calm' => Calm)
      BY <1>1, <1>2, <1>3, <1>5, <2>2 DEF Calm
    <3> QED BY <1>1, <3>1 DEF AutoInv, Decided, RoundSound, Resting, LooksInTime, Under
  <2> QED BY <2>1, <2>2
<1> QED BY <1>6, <1>7, <1>9, <1>10, <1>11, <1>12 DEF AutoInv

LEMMA RestartsKeeps ==
  ASSUME AutoInv, AutoTyped', Restarts
  PROVE  AutoInv'
<1>1. /\ known' = plan /\ courtCache' = courtRows /\ reads' = [k \in Readers |-> NoRead]
      /\ auto' = Round(plan, courtRows, today) /\ UNCHANGED <<plan, courtRows, today, verdict>>
      /\ desk' = (IF desk.step \in {"sent", "saved"} THEN [desk EXCEPT !.step = "failed"] ELSE desk)
  BY DEF Restarts
<1>2. \A k \in Readers : reads'[k].step = "none"
  BY <1>1 DEF NoRead
<1>3. /\ auto'.running /\ auto'.rows = courtRows /\ auto'.table = plan /\ auto'.now = today
      /\ auto'.change.step = "none"
  BY <1>1 DEF Round, NoChange
<1>4. plan \in MatchTable /\ courtRows \in CourtTable /\ today \in Nat \ {0} /\ desk \in Overlays /\ Placed
  BY DEF AutoInv, AutoTyped
<1>5. \A c \in PlaysOn : Under(c)'
  <2>1. \A c \in PlaysOn : \E i \in DOMAIN Round(plan, courtRows, today).left : Round(plan, courtRows, today).left[i] = c
    BY <1>4, RoundProperties
  <2> QED BY <1>1, <2>1 DEF Under
<1>6. IsCopy(courtRows)
  BY <1>4 DEF IsCopy, CourtTable, CourtRow
<1>7. Copies'
  BY <1>1, <1>2, <1>3, <1>6 DEF Copies, IsCopy
<1>8. Serials' /\ JudgedForItself'
  BY <1>1 DEF AutoInv, Serials, JudgedForItself
<1>9. CacheClose'
  BY <1>1, <1>3, <1>4 DEF CacheClose, IsClose, Behind, CourtTable, CourtRow
<1>10. ReadsClose'
  BY <1>2 DEF ReadsClose
<1>11. RoundClose'
  BY <1>1, <1>3 DEF RoundClose, IsClose, Behind
<1>12. RoundSound' /\ Resting' /\ Decided'
  BY <1>3, <1>5 DEF RoundSound, Resting, Decided
<1>13. Placed'
  <2>1. desk'.step # "saved" /\ (desk'.step # "closed" => desk'.at = desk.at /\ desk.step # "closed")
    BY <1>1, <1>4 DEF Overlays
  <2>2. reads'["automation"].step = "none" /\ reads'["desk"].step = "none"
    BY <1>2 DEF Readers
  <2>3. today' = today /\ today <= today
    BY <1>1, <1>4
  <2> QED BY <1>3, <1>4, <2>1, <2>2, <2>3 DEF Placed
<1> QED BY <1>7, <1>8, <1>9, <1>10, <1>11, <1>12, <1>13 DEF AutoInv

\* The operator's change of a court.
LEMMA WrittenProperties ==
  ASSUME AutoInv, desk.step = "sent", Written, courtRows[desk.at].revision = desk.revision
  PROVE  /\ desk.at \in PlaysOn /\ courtRows' \in CourtTable
         /\ courtRows'[desk.at].revision = courtRows[desk.at].revision + 1
         /\ courtRows'[desk.at].serial >= courtRows[desk.at].serial
         /\ courtRows'[desk.at].serial = courtRows[desk.at].serial =>
              courtRows'[desk.at].status = courtRows[desk.at].status
         /\ courtRows'[desk.at].serial # courtRows[desk.at].serial => courtRows'[desk.at].status \in {"none", "pending"}
         /\ \A d \in PlaysOn : d # desk.at => courtRows'[d] = courtRows[d]
<1>1. desk.at \in PlaysOn /\ courtRows \in CourtTable /\ desk \in Overlays
  BY DEF AutoInv, AutoTyped, Placed
<1>2. courtRows[desk.at] \in CourtRow /\ desk.match \in Choices /\ desk.on \in Turns
  BY <1>1 DEF CourtTable, Overlays
<1> DEFINE row == IF desk.kind = "assign" THEN Assigned(courtRows[desk.at], desk.match)
                  ELSE Switched(courtRows[desk.at], desk.on)
<1>3. /\ row \in CourtRow /\ row.revision = courtRows[desk.at].revision + 1
      /\ \/ row.serial = courtRows[desk.at].serial /\ row.status = courtRows[desk.at].status
         \/ row.serial = courtRows[desk.at].serial + 1 /\ row.status \in {"none", "pending"}
  BY <1>2, AssignedProperties, SwitchedProperties
<1>4. courtRows' = [courtRows EXCEPT ![desk.at] = row]
  BY DEF Written
<1> HIDE DEF row
<1>5. /\ courtRows'[desk.at] = row /\ courtRows' \in CourtTable
      /\ \A d \in PlaysOn : d # desk.at => courtRows'[d] = courtRows[d]
  BY <1>1, <1>3, <1>4 DEF CourtTable
<1>6. courtRows[desk.at].serial \in Nat
  BY <1>2 DEF CourtRow
<1> QED BY <1>1, <1>3, <1>5, <1>6

LEMMA WrittenKeeps ==
  ASSUME AutoInv, AutoTyped', desk.step = "sent", Written, courtRows[desk.at].revision = desk.revision,
         UNCHANGED <<known, courtCache, auto, timerAt, today, verdict>>,
         \/ /\ desk' = [desk EXCEPT !.step = "saved"] /\ UNCHANGED astray
            /\ reads' = [reads EXCEPT !["desk"] = [NoRead EXCEPT !.step = "asked"]]
         \/ desk' = [desk EXCEPT !.step = "failed"] /\ astray' = TRUE /\ UNCHANGED reads
  PROVE  AutoInv'
<1>1. /\ desk.at \in PlaysOn /\ courtRows' \in CourtTable
      /\ courtRows'[desk.at].revision = courtRows[desk.at].revision + 1
      /\ courtRows'[desk.at].serial >= courtRows[desk.at].serial
      /\ courtRows'[desk.at].serial = courtRows[desk.at].serial =>
           courtRows'[desk.at].status = courtRows[desk.at].status
      /\ courtRows'[desk.at].serial # courtRows[desk.at].serial => courtRows'[desk.at].status \in {"none", "pending"}
      /\ \A d \in PlaysOn : d # desk.at => courtRows'[d] = courtRows[d]
  BY WrittenProperties
<1>2. /\ courtRows \in CourtTable /\ courtCache \in CourtTable /\ auto.rows \in CourtTable /\ desk \in Overlays
      /\ reads \in [Readers -> ReadTypes] /\ "desk" \in Readers /\ "automation" \in Readers /\ verdict \in Verdicts
      /\ \A k \in Readers : reads[k].step = "read" => reads[k].rows \in CourtTable
      /\ Placed
  BY ReadProperties DEF AutoInv, AutoTyped, RoundTypes, Readers
<1>3. \A rows \in CourtTable, c \in PlaysOn : rows[c].revision \in Nat
  BY DEF CourtTable, CourtRow
<1>4. /\ reads["desk"].step = "none" /\ desk'.at = desk.at /\ desk'.revision = desk.revision
      /\ desk'.step \in {"saved", "failed"} /\ desk.revision \in Nat
  BY <1>2 DEF Placed, Overlays, ReadTypes
<1>5. /\ \A k \in Readers : k # "desk" => reads'[k] = reads[k]
      /\ reads'["desk"].step \in {"none", "asked"}
      /\ ~astray' => reads'["desk"].step = "asked" /\ desk'.step = "saved" /\ ~astray
      /\ reads'["desk"].step = "asked" => desk'.step = "saved"
  BY <1>2, <1>4 DEF NoRead, Overlays
<1>6. ASSUME NEW rows \in CourtTable, IsCopy(rows)
      PROVE  /\ IsCopy(rows)' /\ rows[desk.at].revision <= desk.revision
  <2>1. rows[desk.at].revision <= courtRows[desk.at].revision
    BY <1>1, <1>6 DEF IsCopy
  <2> SUFFICES ASSUME NEW d \in PlaysOn
               PROVE  /\ rows[d].revision <= courtRows'[d].revision
                      /\ rows[d].revision = courtRows'[d].revision => rows[d] = courtRows'[d]
    BY <2>1 DEF IsCopy
  <2>2. rows[d].revision \in Nat /\ courtRows[d].revision \in Nat
    BY <1>2, <1>3
  <2>3. CASE d = desk.at
    BY <1>1, <2>1, <2>2, <2>3
  <2>4. CASE d # desk.at
    BY <1>1, <1>6, <2>4 DEF IsCopy
  <2> QED BY <2>3, <2>4
<1>7. Copies'
  <2>1. IsCopy(courtCache) /\ IsCopy(auto.rows)
    BY DEF AutoInv, Copies
  <2>2. IsCopy(courtCache)' /\ IsCopy(auto.rows)'
    BY <1>2, <1>6, <2>1 DEF IsCopy
  <2>3. ASSUME NEW k \in Readers, reads'[k].step = "read"
        PROVE  IsCopy(reads[k].rows)'
    <3>1. reads'[k] = reads[k] /\ reads[k].rows \in CourtTable /\ IsCopy(reads[k].rows)
      BY <1>2, <1>5, <2>3 DEF AutoInv, Copies
    <3> QED BY <1>6, <3>1 DEF IsCopy
  <2> QED BY <2>2, <2>3 DEF Copies
<1>8. Serials' /\ JudgedForItself'
  <2>1. \A c \in PlaysOn : courtRows[c].serial \in Nat /\ courtRows'[c].serial \in Nat /\ verdict[c].serial \in Nat
    BY <1>1, <1>2 DEF CourtTable, CourtRow, Verdicts
  <2>2. Serials'
    BY <1>1, <2>1 DEF AutoInv, Serials
  <2>3. JudgedForItself'
    BY <1>1, <2>1 DEF AutoInv, JudgedForItself
  <2> QED BY <2>2, <2>3
<1>9. ASSUME ~astray', NEW rows \in CourtTable, IsCopy(rows), NEW c \in PlaysOn, IsClose(rows, c)
      PROVE  IsClose(rows, c)'
  <2>1. CASE c = desk.at
    BY <1>4, <1>5, <1>6, <1>9, <2>1 DEF IsClose, Owed
  <2>2. CASE c # desk.at
    BY <1>1, <1>4, <1>9, <2>2 DEF IsClose, Owed
  <2> QED BY <2>1, <2>2
<1>10. CacheClose'
  <2> SUFFICES ASSUME ~astray', NEW c \in PlaysOn
               PROVE  IsClose(courtCache, c)' /\ auto.rows[c].revision <= courtCache[c].revision
    BY DEF CacheClose
  <2>1. IsClose(courtCache, c) /\ auto.rows[c].revision <= courtCache[c].revision /\ IsCopy(courtCache)
    BY <1>5 DEF AutoInv, CacheClose, Copies
  <2> QED BY <1>2, <1>9, <2>1 DEF IsClose
<1>11. ReadsClose'
  <2> SUFFICES ASSUME ~astray', NEW k \in Readers, NEW c \in PlaysOn, reads'[k].step = "read"
               PROVE  IsClose(reads[k].rows, c)' \/ reads[k].rows[c].revision < courtCache[c].revision
    BY <1>5 DEF ReadsClose
  <2>1. reads'[k] = reads[k] /\ reads[k].rows \in CourtTable /\ IsCopy(reads[k].rows)
    BY <1>2, <1>5 DEF AutoInv, Copies
  <2>2. IsClose(reads[k].rows, c) \/ reads[k].rows[c].revision < courtCache[c].revision
    BY <1>5, <2>1 DEF AutoInv, ReadsClose
  <2> QED BY <1>9, <2>1, <2>2 DEF IsClose
<1>12. RoundClose'
  <2> SUFFICES ASSUME ~astray', auto.running, ~auto.again
               PROVE  auto.table = known /\ \A c \in PlaysOn : IsClose(auto.rows, c)'
    BY DEF RoundClose
  <2>1. auto.table = known /\ IsCopy(auto.rows) /\ \A c \in PlaysOn : IsClose(auto.rows, c)
    BY <1>5 DEF AutoInv, RoundClose, Copies
  <2> QED BY <1>2, <1>9, <2>1 DEF IsClose
<1>13. ~Calm'
  BY <1>5 DEF Calm
<1>14. RoundSound' /\ Resting' /\ Decided'
  BY <1>13 DEF RoundSound, Resting, AutoInv, Decided
<1>15. Placed'
  <2>1. courtRows'[desk.at].revision > desk.revision
    BY <1>1, <1>4
  <2>2. reads'["automation"] = reads["automation"]
    BY <1>2, <1>5
  <2>3. auto' = auto /\ today' = today
    OBVIOUS
  <2> QED BY <1>1, <1>2, <1>4, <1>5, <2>1, <2>2, <2>3 DEF Placed
<1> QED BY <1>7, <1>8, <1>10, <1>11, <1>12, <1>14, <1>15 DEF AutoInv
-----------------------------------------------------------------------------
LEMMA OperatorKeeps ==
  ASSUME AutoInv, AutoTyped',
         \/ \E c \in PlaysOn, kind \in {"assign", "switch"} : OpenOverlay(c, kind)
         \/ \E m \in Fixtures \cup {Unassigned} : Submit(m)
         \/ assignOrSetActive \/ refreshCourtRevision
  PROVE  AutoInv'
<1>1. Placed /\ desk \in Overlays /\ reads \in [Readers -> ReadTypes] /\ "desk" \in Readers
  BY DEF AutoInv, AutoTyped, Readers
<1>2. desk.step # "saved" => reads["desk"].step = "none"
  BY <1>1 DEF Placed, ReadTypes
<1>3. NoDesk.step = "closed"
  BY DEF NoDesk
<1>4. ASSUME NEW c \in PlaysOn, NEW kind \in {"assign", "switch"}, OpenOverlay(c, kind)
      PROVE  AutoInv'
  <2>1. /\ UNCHANGED <<known, courtRows, courtCache, reads, auto, timerAt, today, verdict, astray>>
        /\ desk = NoDesk /\ desk'.step = "open" /\ desk'.at = c
    BY <1>4 DEF OpenOverlay
  <2>2. DeskStill
    BY <1>2, <1>3, <2>1 DEF DeskStill
  <2> QED BY <2>2, DeskStillKeeps
<1>5. ASSUME NEW m \in Fixtures \cup {Unassigned}, Submit(m)
      PROVE  AutoInv'
  <2>1. /\ UNCHANGED <<known, courtRows, courtCache, reads, auto, timerAt, today, verdict, astray>>
        /\ desk.step = "open" /\ desk'.step = "sent" /\ desk'.at = desk.at
    BY <1>1, <1>5 DEF Submit, Overlays
  <2>2. DeskStill
    BY <1>1, <1>2, <2>1 DEF DeskStill, Placed
  <2> QED BY <2>2, DeskStillKeeps
<1>6. CASE refreshCourtRevision
  <2>1. /\ UNCHANGED <<known, courtRows, courtCache, reads, auto, timerAt, today, verdict, astray>>
        /\ desk.step = "failed"
        /\ \/ desk'.step = "open" /\ desk'.at = desk.at
           \/ desk'.step = "closed"
    BY <1>1, <1>3, <1>6 DEF refreshCourtRevision, Overlays
  <2>2. DeskStill
    BY <1>1, <1>2, <2>1 DEF DeskStill, Placed
  <2> QED BY <2>2, DeskStillKeeps
<1>7. CASE assignOrSetActive
  <2>1. desk.step = "sent" /\ UNCHANGED <<known, courtCache, auto, timerAt, today, verdict>>
    BY <1>7 DEF assignOrSetActive
  <2>2. ASSUME desk' = [desk EXCEPT !.step = "failed"], UNCHANGED <<courtRows, reads, astray>>
        PROVE  AutoInv'
    <3>1. desk'.step = "failed" /\ desk'.at = desk.at
      BY <1>1, <2>2 DEF Overlays
    <3>2. DeskStill
      BY <1>1, <1>2, <2>1, <2>2, <3>1 DEF DeskStill, Placed
    <3> QED BY <3>2, DeskStillKeeps
  <2>3. ASSUME courtRows[desk.at].revision = desk.revision, Written,
               \/ /\ desk' = [desk EXCEPT !.step = "saved"] /\ UNCHANGED astray
                  /\ reads' = [reads EXCEPT !["desk"] = [NoRead EXCEPT !.step = "asked"]]
               \/ desk' = [desk EXCEPT !.step = "failed"] /\ astray' = TRUE /\ UNCHANGED reads
        PROVE  AutoInv'
    BY <2>1, <2>3, WrittenKeeps
  <2> QED BY <1>7, <2>2, <2>3 DEF assignOrSetActive
<1> QED BY <1>4, <1>5, <1>6, <1>7

LEMMA WorldKeeps ==
  ASSUME AutoInv, AutoTyped', (\E m \in Fixtures : MatchChanges(m)) \/ Passes
  PROVE  AutoInv'
<1>1. UNCHANGED <<known, courtRows, courtCache, reads, auto, timerAt, desk, verdict, astray>>
  BY DEF MatchChanges, Passes
<1>2. today \in Nat /\ today' \in Nat /\ today <= today' /\ known \in MatchTable /\ courtRows \in CourtTable
      /\ timerAt \in Nat /\ auto \in RoundTypes
  BY DEF AutoInv, AutoTyped, MatchChanges, Passes
<1>3. Placed'
  <2>1. auto.now <= today'
    BY <1>2 DEF AutoInv, Placed, RoundTypes
  <2> QED BY <1>1, <2>1 DEF AutoInv, Placed
<1>4. Copies' /\ Decided'
  BY <1>1 DEF AutoInv, Copies, IsCopy, Decided
<1>5. Serials' /\ JudgedForItself'
  BY <1>1 DEF AutoInv, Serials, JudgedForItself
<1>6. CacheClose' /\ ReadsClose' /\ RoundClose'
  BY <1>1 DEF AutoInv, CacheClose, ReadsClose, RoundClose, IsClose, Owed
<1>7. ASSUME NEW c \in PlaysOn, NEW when \in Nat, LooksInTime(c, when)
      PROVE  LooksInTime(c, when)'
  <2>1. MatchOf(known, courtRows[c]) \in PlannedMatch
    BY <1>2, MatchOfType DEF CourtTable
  <2>2. SoundFor(courtRows[c], MatchOf(known, courtRows[c]), today', when)
    BY <1>2, <1>7, <2>1, SoundPasses DEF LooksInTime
  <2> QED BY <1>1, <2>2 DEF LooksInTime
<1>8. Calm' = Calm /\ \A c \in PlaysOn : Under(c)' = Under(c)
  BY <1>1 DEF Calm, Under
<1>9. Resting'
  <2> SUFFICES ASSUME Calm, ~auto.running, NEW c \in PlaysOn
               PROVE  LooksInTime(c, timerAt)'
    BY <1>1, <1>8 DEF Resting
  <2>1. LooksInTime(c, timerAt)
    BY DEF AutoInv, Resting
  <2> QED BY <1>1, <1>2, <1>7, <2>1 DEF LooksInTime
<1>10. RoundSound'
  <2> SUFFICES ASSUME Calm, auto.running, ~auto.again, ~(auto.next \in 1..(auto.now + 1)), NEW c \in PlaysOn
               PROVE  Under(c) \/ LooksInTime(c, auto.next)'
    BY <1>1, <1>8 DEF RoundSound
  <2>1. Under(c) \/ LooksInTime(c, auto.next)
    BY DEF AutoInv, RoundSound
  <2>2. auto.next \in Nat
    BY <1>2 DEF RoundTypes
  <2> QED BY <1>1, <1>7, <2>1, <2>2 DEF LooksInTime
<1> QED BY <1>3, <1>4, <1>5, <1>6, <1>9, <1>10 DEF AutoInv

LEMMA AutoInvInit == AutomationInit => AutoInv
<1> SUFFICES ASSUME AutomationInit PROVE AutoInv
  OBVIOUS
<1>1. PICK s \in AutoScenes : plan = s.plan
  BY DEF AutomationInit
<1>2. plan \in MatchTable /\ known = plan
  BY <1>1, AutomationAssumption DEF AutomationInit, MatchTable, PlannedMatch
<1>3. courtRows \in CourtTable /\ courtCache = courtRows
  BY DEF AutomationInit, CourtTable, CourtRow, Choices, Moods
<1>4. reads \in [Readers -> ReadTypes] /\ \A k \in Readers : reads[k].step = "none"
  BY DEF AutomationInit, NoRead, ReadTypes
<1>5. auto = Round(plan, courtRows, 1) /\ today = 1 /\ timerAt = 0 /\ astray = FALSE
  BY DEF AutomationInit
<1>6. auto \in RoundTypes
  BY <1>2, <1>3, <1>5, RoundProperties
<1>7. desk \in Overlays /\ desk.step = "closed"
  BY DEF AutomationInit, NoDesk, Overlays, Turns, Choices
<1>8. verdict \in Verdicts
  BY DEF AutomationInit, Verdicts
<1>9. AutoTyped
  <2>1. timerAt \in Nat /\ today \in Nat \ {0}
    BY <1>5
  <2>3. astray \in BOOLEAN
    BY <1>5, Zenon
  <2>2. known \in MatchTable /\ courtCache \in CourtTable
    BY <1>2, <1>3
  <2> QED BY <1>2, <1>3, <1>4, <1>6, <1>7, <1>8, <2>1, <2>2, <2>3 DEF AutoTyped
<1>10. /\ auto.running /\ auto.rows = courtRows /\ auto.table = plan /\ auto.now = today
       /\ auto.change.step = "none"
  BY <1>5 DEF Round, NoChange
<1>11. Placed
  BY <1>4, <1>5, <1>7, <1>10 DEF Placed, Readers
<1>12. Copies
  BY <1>3, <1>4, <1>10 DEF Copies, IsCopy, CourtTable, CourtRow
<1>13. Serials /\ JudgedForItself
  BY DEF AutomationInit, Serials, JudgedForItself
<1>14. Decided /\ Resting
  BY <1>10 DEF Decided, Resting
<1>15. CacheClose
  BY <1>3, <1>10 DEF CacheClose, IsClose, Behind, CourtTable, CourtRow
<1>16. ReadsClose
  BY <1>4 DEF ReadsClose
<1>17. RoundClose
  BY <1>2, <1>10 DEF RoundClose, IsClose, Behind
<1>18. RoundSound
  <2>1. \A c \in PlaysOn : \E i \in DOMAIN Round(plan, courtRows, 1).left : Round(plan, courtRows, 1).left[i] = c
    BY <1>2, <1>3, RoundProperties
  <2> QED BY <1>5, <2>1 DEF RoundSound, Under
<1> QED BY <1>9, <1>11, <1>12, <1>13, <1>14, <1>15, <1>16, <1>17, <1>18 DEF AutoInv

LEMMA AutoInvStep == AutoInv /\ [AutomationNext]_autoVars => AutoInv'
<1> SUFFICES ASSUME AutoInv, [AutomationNext]_autoVars PROVE AutoInv'
  OBVIOUS
<1>1. CASE UNCHANGED autoVars
  BY <1>1 DEF autoVars, AutoInv, AutoTyped, Placed, Copies, IsCopy, Serials, JudgedForItself, Decided, CacheClose,
              ReadsClose, RoundClose, RoundSound, Resting, IsClose, Owed, Calm, Under, LooksInTime
<1>2. CASE AutomationNext
  <2>1. AutoTyped'
    BY <1>2, AutoTypedStep DEF AutoInv
  <2>2. CASE Consider
    BY <2>1, <2>2, ConsiderKeeps
  <2>3. CASE AuditStarts \/ ChangeDone
    BY <2>1, <2>3, InnerKeeps
  <2>4. CASE updateAutomation
    BY <2>1, <2>4, UpdateKeeps
  <2>5. CASE RoundEnds
    BY <2>1, <2>5, RoundEndsKeeps
  <2>6. CASE AutomationTimer \/ MatchesRefreshed
    <3>1. PICK table \in MatchTable : known' = table /\ reconcile(table, courtCache)
      BY <2>6 DEF AutomationTimer, MatchesRefreshed, AutoInv, AutoTyped
    <3>2. Awake(courtCache) /\ UNCHANGED <<courtRows, courtCache, reads, today, desk, verdict>>
      BY <2>6 DEF AutomationTimer, MatchesRefreshed
    <3> QED BY <2>1, <3>1, <3>2, LooksKeeps
  <2>7. CASE CourtsInvalidated
    BY <2>1, <2>7, ReadingKeeps DEF CourtsInvalidated, Readers
  <2>8. ASSUME NEW k \in Readers, RefreshReads(k)
        PROVE  AutoInv'
    BY <2>1, <2>8, ReadingKeeps DEF RefreshReads
  <2>9. ASSUME NEW k \in Readers, refresh(k) \/ RefreshFails(k)
        PROVE  AutoInv'
    BY <2>1, <2>9, RefreshKeeps, RefreshFailsKeeps
  <2>10. CASE \/ \E c \in PlaysOn, kind \in {"assign", "switch"} : OpenOverlay(c, kind)
              \/ \E m \in Fixtures \cup {Unassigned} : Submit(m)
              \/ assignOrSetActive \/ refreshCourtRevision
    BY <2>1, <2>10, OperatorKeeps
  <2>11. CASE (\E m \in Fixtures : MatchChanges(m)) \/ Passes
    BY <2>1, <2>11, WorldKeeps
  <2>12. CASE Restarts
    BY <2>1, <2>12, RestartsKeeps
  <2> QED BY <1>2, <2>2, <2>3, <2>4, <2>5, <2>6, <2>7, <2>8, <2>9, <2>10, <2>11, <2>12 DEF AutomationNext
<1> QED BY <1>1, <1>2

LEMMA AutoInvImplies == AutoInv => CourtsFollow
<1> SUFFICES ASSUME AutoInv PROVE CourtsFollow
  OBVIOUS
<1>1. JudgedForItself
  BY DEF AutoInv
<1>2. NoneForgotten
  <2> SUFFICES ASSUME UpToDate, ~auto.running, NEW c \in PlaysOn
               PROVE  /\ Wants(c) => timerAt \in 1..(today + 1)
                      /\ Awaits(c) => timerAt \in 1..MatchOf(plan, courtRows[c]).date
    BY DEF NoneForgotten
  <2>1. known = plan /\ Calm
    BY DEF UpToDate, Calm
  <2>2. LooksInTime(c, timerAt)
    BY <2>1 DEF AutoInv, Resting
  <2>3. MatchOf(plan, courtRows[c]) \in PlannedMatch /\ today \in Nat
    BY MatchOfType DEF AutoInv, AutoTyped, CourtTable
  <2>4. Wants(c) <=> Due(courtRows[c], MatchOf(plan, courtRows[c]), today)
    BY <2>3, DueProperties DEF Wants
  <2> QED BY <2>1, <2>2, <2>4 DEF LooksInTime, SoundFor, Awaits
<1> QED BY <1>1, <1>2 DEF CourtsFollow

\* Whatever the order of rounds, wakes, refreshes and failures, no court is forgotten and every
\* assignment is judged for itself (postgresCourtAutomation.js, reconcile and schedule).
THEOREM CourtsAreFollowed == AutomationSpec => []CourtsFollow
<1>1. AutomationInit => AutoInv
  BY AutoInvInit
<1>2. AutoInv /\ [AutomationNext]_autoVars => AutoInv'
  BY AutoInvStep
<1>3. AutoInv => CourtsFollow
  BY AutoInvImplies
<1> QED BY <1>1, <1>2, <1>3, PTL DEF AutomationSpec
================================================================================
