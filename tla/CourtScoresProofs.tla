------------------------- MODULE CourtScoresProofs -------------------------
(***************************************************************************)
(* Proofs about module CourtScores, for any number of courts, scores and   *)
(* requests, and any number of faults and outages; and about module        *)
(* Scoreboard, for any number of changes, losses and restarts.             *)
(***************************************************************************)
EXTENDS CourtScores, Scoreboard, TLAPS, SequenceTheorems

(***************************************************************************)
(* The strengthening.                                                      *)
(***************************************************************************)
\* An invalidation has no transaction, and an activation says which activity it wants.
BegunTasks ==
  \A h \in Handlers : step[h] = "begun" =>
    /\ task[h].kind \in {"assign", "activate", "automation"}
    /\ task[h].kind = "activate" => task[h].value \in BOOLEAN

\* Only the first score after a restart passes by the log.
SuppressOnce == \A c \in Courts : suppress[c] => startup[c] = None

\* The copy a poll works on shows nothing that may not be shown.
CopyLogged == pc \notin {"idle", "fetching"} =>
                \A c \in Courts : merged[c] \in {Zero, startup[c]} \union logged[c]

AppendedLogged == pc = "appended" /\ NextCourt \in Courts
                    => answer[NextCourt] \in logged[NextCourt]

Types == TypeOK /\ BegunTasks
Shows == SuppressOnce /\ CopyLogged /\ AppendedLogged /\ LoggedBeforeShown
IInv == Types /\ OnePollAhead /\ Shows

LEMMA InitIInv == Init => IInv
<1> SUFFICES ASSUME Init PROVE IInv
  OBVIOUS
<1> USE DEF Init
<1>1. Types
  BY ScoresAssumption
     DEF Types, TypeOK, BegunTasks, DbTypes, RequestTypes, DisplayTypes, PollTypes,
         Flags, Rows, CourtRows
<1>2. OnePollAhead
  BY DEF OnePollAhead, Running
<1>3. Shows
  BY DEF Shows, SuppressOnce, CopyLogged, AppendedLogged, LoggedBeforeShown
<1> QED BY <1>1, <1>2, <1>3 DEF IInv

(***************************************************************************)
(* Types.                                                                  *)
(***************************************************************************)
LEMMA FollowTypes ==
  ASSUME TypeOK, NEW now \in Flags, Follow(now, FALSE)
  PROVE  DisplayTypes' /\ armed' \in BOOLEAN /\ cancelled' \in BOOLEAN
<1> USE DEF TypeOK, DisplayTypes, PollTypes, Flags, Follow
<1>1. on' \in Flags /\ epoch' \in [Courts -> Nat]
  OBVIOUS
<1>2. waiting' \in Flags /\ suppress' \in Flags
  BY Zenon
<1>3. baseline' \in [Courts -> Scores \union {None}] /\ startup' = startup /\ shown' = shown
  OBVIOUS
<1>4. armed' \in BOOLEAN /\ cancelled' \in BOOLEAN
  BY Zenon DEF Running
<1> QED BY <1>1, <1>2, <1>3, <1>4

LEMMA ResetTypes ==
  ASSUME TypeOK, NEW c \in Courts, ResetScore(c)
  PROVE  DisplayTypes' /\ armed' \in BOOLEAN /\ cancelled' \in BOOLEAN
BY ScoresAssumption DEF TypeOK, DisplayTypes, PollTypes, Flags, ResetScore

LEMMA ChangeTypes ==
  ASSUME Types, NEW h \in Handlers, step[h] = "begun", ChangeCourt(task[h])
  PROVE  active' \in Flags /\ awaiting' \in Flags /\ revision' \in [Courts -> Nat]
<1> DEFINE t == task[h]
<1>1. /\ t \in Tasks /\ t.court \in Courts /\ t.value \in BOOLEAN \union {None}
      /\ t.kind \in {"assign", "activate", "automation"}
      /\ t.kind = "activate" => t.value \in BOOLEAN
  BY DEF Types, TypeOK, RequestTypes, BegunTasks, Tasks
<1>2. active \in Flags /\ awaiting \in Flags /\ revision \in [Courts -> Nat]
  BY DEF Types, TypeOK, DbTypes
<1>3. revision' \in [Courts -> Nat]
  BY <1>1, <1>2 DEF ChangeCourt
<1>4. Activity(t) \in BOOLEAN
  BY <1>1, <1>2 DEF Activity, Flags
<1>5. active' \in Flags
  BY <1>1, <1>2, <1>4 DEF ChangeCourt, Flags
<1>6. awaiting' \in Flags
  <2>1. CASE t.kind = "assign"
    BY <1>1, <1>2, <2>1 DEF ChangeCourt, Flags
  <2>2. CASE t.kind = "activate"
    BY <1>1, <1>2, <2>2 DEF ChangeCourt, Flags
  <2>3. CASE t.kind = "automation"
    BY <1>1, <1>2, <2>3 DEF ChangeCourt, Flags
  <2> QED BY <1>1, <2>1, <2>2, <2>3
<1> QED BY <1>3, <1>5, <1>6

\* Requests, automation, invalidations and a restart.
LEMMA RequestTypesPreserved ==
  ASSUME Types, NEW h \in Handlers,
         \/ \E c \in Courts, kind \in Kinds : Request(h, c, kind)
         \/ HandlerStep(h)
  PROVE  Types'
<1> USE DEF Types, TypeOK, BegunTasks
<1>1. ASSUME NEW c \in Courts, NEW kind \in Kinds, Request(h, c, kind) PROVE Types'
  <2> USE <1>1 DEF Request
  <2>1. PICK value \in BOOLEAN \union {None} :
           /\ kind = "activate" => value = ~cache.active[c]
           /\ task' = [task EXCEPT ![h] = [court |-> c, kind |-> kind, value |-> value,
                                           expected |-> cache.revision[c]]]
    OBVIOUS
  <2>2. cache.active[c] \in BOOLEAN /\ cache.revision[c] \in Nat
    BY DEF RequestTypes, Rows
  <2>3. [court |-> c, kind |-> kind, value |-> value, expected |-> cache.revision[c]] \in Tasks
    BY <2>2 DEF Tasks
  <2>4. RequestTypes'
    BY <2>1, <2>3 DEF RequestTypes
  <2>5. BegunTasks'
    <3>1. kind = "activate" => value \in BOOLEAN
      BY <2>1, <2>2
    <3>2. kind # "invalidation" => kind \in {"assign", "activate", "automation"}
      BY DEF Kinds
    <3> QED BY <2>1, <3>1, <3>2 DEF RequestTypes
  <2> QED BY <2>4, <2>5 DEF db, display, poll, fetch, DbTypes, DisplayTypes, PollTypes
<1>2. ASSUME Commit(h) PROVE Types'
  <2> USE <1>2 DEF Commit
  <2>1. DbTypes'
    <3>1. CASE ChangeCourt(task[h])
      BY <3>1, ChangeTypes DEF DbTypes
    <3>2. CASE UNCHANGED <<active, awaiting, revision>>
      BY <3>2 DEF DbTypes
    <3> QED BY <3>1, <3>2
  <2>2. step' \in {[step EXCEPT ![h] = s] : s \in {"committed", "idle"}}
    OBVIOUS
  <2>3. RequestTypes' /\ BegunTasks'
    BY <2>2 DEF RequestTypes
  <2> QED BY <2>1, <2>3 DEF display, poll, fetch, DisplayTypes, PollTypes
<1>3. ASSUME ReadRows(h) PROVE Types'
  <2> USE <1>3 DEF ReadRows
  <2>1. CourtRows \in Rows
    BY DEF CourtRows, Rows, DbTypes, Flags
  <2>2. step' \in {[step EXCEPT ![h] = s] : s \in {"read", "idle"}}
        /\ rows' \in [Handlers -> Rows]
    BY <2>1 DEF RequestTypes
  <2>3. RequestTypes' /\ BegunTasks'
    BY <2>2 DEF RequestTypes
  <2> QED BY <2>3 DEF db, display, poll, fetch, DbTypes, DisplayTypes, PollTypes
<1>4. ASSUME ApplyRows(h) PROVE Types'
  <2> USE <1>4 DEF ApplyRows
  <2>1. task[h] \in Tasks /\ rows[h] \in Rows
    BY DEF RequestTypes
  <2>2. RequestTypes' /\ BegunTasks'
    BY <2>1 DEF RequestTypes
  <2>3. DisplayTypes' /\ armed' \in BOOLEAN /\ cancelled' \in BOOLEAN
    <3>1. CASE task[h].kind = "assign"
      BY <2>1, <3>1, ResetTypes DEF Tasks
    <3>2. CASE task[h].kind \in {"activate", "automation"}
      <4>1. rows[h].active \in Flags /\ Follow(rows[h].active, FALSE)
        BY <2>1, <3>2 DEF Rows, Flags
      <4> QED BY <4>1, FollowTypes
    <3>3. CASE task[h].kind = "invalidation"
      BY <3>3 DEF display, DisplayTypes, PollTypes
    <3> QED BY <2>1, <3>1, <3>2, <3>3 DEF Tasks, Kinds
  <2> QED BY <2>2, <2>3 DEF db, poll, fetch, DbTypes, PollTypes
<1> QED BY <1>1, <1>2, <1>3, <1>4 DEF HandlerStep

LEMMA ScheduleTypes ==
  ASSUME armed \in BOOLEAN, Schedule PROVE armed' \in BOOLEAN
BY Zenon DEF Schedule

\* The poll.
LEMMA PollTypesPreserved == ASSUME Types, PollStep PROVE Types'
<1> USE DEF Types, TypeOK, BegunTasks
<1>1. ASSUME StartPoll \/ Answer PROVE Types'
  <2>1. CASE StartPoll
    BY <2>1 DEF StartPoll, db, requests, display, DbTypes, RequestTypes, DisplayTypes, PollTypes
  <2>2. CASE Answer
    BY <2>2 DEF Answer, db, requests, display, DbTypes, RequestTypes, DisplayTypes, PollTypes
  <2> QED BY <1>1, <2>1, <2>2
<1>2. ASSUME FetchFails PROVE Types'
  <2>1. armed' \in BOOLEAN
    BY <1>2, ScheduleTypes DEF FetchFails, PollTypes
  <2> QED BY <1>2, <2>1 DEF FetchFails, db, requests, display, fetch, DbTypes, RequestTypes,
                            DisplayTypes, PollTypes
<1>3. ASSUME NEW c \in Courts, Look(c) PROVE Types'
  <2>1. DisplayTypes'
    <3>1. waiting' \in Flags /\ suppress' \in Flags
      BY <1>3 DEF Look, DisplayTypes, Flags
    <3>2. baseline' \in [Courts -> Scores \union {None}]
      BY <1>3 DEF Look, DisplayTypes, PollTypes
    <3>3. startup' \in [Courts -> Scores \union {None}]
      BY <1>3 DEF Look, DisplayTypes, PollTypes
    <3> QED BY <1>3, <3>1, <3>2, <3>3 DEF Look, DisplayTypes
  <2>2. PollTypes'
    <3>1. merged' \in [Courts -> Scores]
      BY <1>3 DEF Look, PollTypes
    <3>2. changed' \in BOOLEAN
      BY <1>3, Zenon DEF Look, PollTypes
    <3>3. left' \subseteq Courts /\ pc' \in {"accepting", "baselining", "appending"}
          /\ (pc' # "accepting" => left' # {})
      BY <1>3 DEF Look, PollTypes, Busy
    <3> QED BY <1>3, <3>1, <3>2, <3>3 DEF Look, PollTypes, fetch
  <2> QED BY <1>3, <2>1, <2>2 DEF Look, db, requests, DbTypes, RequestTypes
<1>4. ASSUME AcceptBaseline PROVE Types'
  <2>1. DbTypes'
    BY <1>4 DEF AcceptBaseline, DbTypes, Flags
  <2>2. armed' \in BOOLEAN
    BY <1>4, ScheduleTypes DEF AcceptBaseline, PollTypes
  <2>3. PollTypes'
    BY <1>4, <2>2 DEF AcceptBaseline, Resume, PollTypes, fetch
  <2> QED BY <1>4, <2>1, <2>3 DEF AcceptBaseline, requests, display, RequestTypes, DisplayTypes
<1>5. ASSUME AppendScore PROVE Types'
  <2>1. DbTypes'
    BY <1>5 DEF AppendScore, DbTypes, PollTypes
  <2>2. PollTypes'
    BY <1>5 DEF AppendScore, PollTypes, fetch
  <2> QED BY <1>5, <2>1, <2>2 DEF AppendScore, requests, display, RequestTypes, DisplayTypes
<1>6. ASSUME AppendAnswered PROVE Types'
  <2>1. PollTypes'
    BY <1>6 DEF AppendAnswered, Resume, PollTypes, fetch
  <2> QED BY <1>6, <2>1 DEF AppendAnswered, db, requests, display, DbTypes, RequestTypes, DisplayTypes
<1>7. ASSUME EndPoll PROVE Types'
  <2>1. armed' \in BOOLEAN
    BY <1>7, ScheduleTypes DEF EndPoll, PollTypes
  <2>2. shown' \in [Courts -> Scores]
    BY <1>7 DEF EndPoll, PollTypes, DisplayTypes
  <2> QED BY <1>7, <2>1, <2>2 DEF EndPoll, db, requests, fetch, DbTypes, RequestTypes,
                                  DisplayTypes, PollTypes
<1> QED BY <1>1, <1>2, <1>3, <1>4, <1>5, <1>6, <1>7 DEF PollStep

LEMMA RestartTypesPreserved ==
  ASSUME Types, Restart \/ (\E c \in Courts : SourceChanges(c)) PROVE Types'
<1> USE DEF Types, TypeOK, BegunTasks
<1>1. ASSUME NEW c \in Courts, SourceChanges(c) PROVE Types'
  BY <1>1 DEF SourceChanges, db, requests, display, poll, fetch, DbTypes, RequestTypes,
              DisplayTypes, PollTypes
<1>2. ASSUME Restart PROVE Types'
  <2>1. RequestTypes' /\ BegunTasks'
    BY <1>2 DEF Restart, RequestTypes, CourtRows, Rows, DbTypes, Flags
  <2>2. DisplayTypes'
    BY <1>2, ScoresAssumption DEF Restart, DisplayTypes, DbTypes, Flags
  <2>3. PollTypes'
    <3>1. armed' \in BOOLEAN
      BY <1>2, Zenon DEF Restart
    <3> QED BY <1>2, <3>1 DEF Restart, PollTypes, fetch
  <2> QED BY <1>2, <2>1, <2>2, <2>3 DEF Restart, db, DbTypes
<1> QED BY <1>1, <1>2

LEMMA TypesPreserved == ASSUME Types, [Next]_vars PROVE Types'
<1>1. CASE UNCHANGED vars
  BY <1>1 DEF vars, db, requests, display, poll, fetch, Types, TypeOK, BegunTasks, DbTypes,
              RequestTypes, DisplayTypes, PollTypes
<1> QED BY <1>1, RequestTypesPreserved, PollTypesPreserved, RestartTypesPreserved DEF Next

(***************************************************************************)
(* One poll ahead.                                                         *)
(***************************************************************************)
\* Whoever ends a poll arms the next one exactly if nobody else has.
LEMMA EndOfPoll ==
  ASSUME OnePollAhead, pc # "idle", Schedule, pc' = "idle", on' = on
  PROVE  OnePollAhead'
BY Zenon DEF OnePollAhead, Schedule, Running

LEMMA OnePollPreserved == ASSUME IInv, [Next]_vars PROVE OnePollAhead'
<1> USE DEF IInv, OnePollAhead, Running
<1>1. CASE UNCHANGED <<on, armed, pc, cancelled>>
  BY <1>1
<1>2. ASSUME NEW h \in Handlers, HandlerStep(h) PROVE OnePollAhead'
  <2>1. CASE Commit(h) \/ ReadRows(h)
    BY <2>1, <1>1 DEF Commit, ReadRows, display, poll
  <2>2. CASE ApplyRows(h)
    <3>1. pc' = pc
      BY <2>2 DEF ApplyRows, poll
    <3>2. CASE UNCHANGED <<on, armed, cancelled>>
      BY <3>1, <3>2
    <3>3. CASE Follow(rows[h].active, FALSE)
      BY <3>1, <3>3, Zenon DEF Follow
    <3> QED BY <2>2, <3>2, <3>3 DEF ApplyRows, ResetScore, display, Types, TypeOK, RequestTypes,
                                    Tasks, Kinds
  <2> QED BY <1>2, <2>1, <2>2 DEF HandlerStep
<1>3. ASSUME PollStep PROVE OnePollAhead'
  <2>1. CASE StartPoll
    BY <2>1 DEF StartPoll, display
  <2>2. CASE FetchFails
    BY <2>2, EndOfPoll DEF FetchFails, display
  <2>3. CASE EndPoll
    BY <2>3, EndOfPoll DEF EndPoll, Busy
  <2>4. ASSUME NEW c \in Courts, Look(c) PROVE OnePollAhead'
    BY <2>4 DEF Look, Busy
  <2>5. CASE AcceptBaseline
    <3>1. CASE Resume(NextCourt) /\ UNCHANGED armed
      BY <2>5, <3>1 DEF AcceptBaseline, Resume, display
    <3>2. CASE pc' = "idle" /\ Schedule
      BY <2>5, <3>2, EndOfPoll DEF AcceptBaseline, display
    <3> QED BY <2>5, <3>1, <3>2 DEF AcceptBaseline
  <2>6. CASE Answer \/ AppendScore \/ AppendAnswered
    BY <2>6 DEF Answer, AppendScore, AppendAnswered, Resume, display
  <2> QED BY <1>3, <2>1, <2>2, <2>3, <2>4, <2>5, <2>6 DEF PollStep
<1>4. ASSUME Restart PROVE OnePollAhead'
  BY <1>4 DEF Restart
<1>5. ASSUME NEW h \in Handlers, NEW c \in Courts, NEW kind \in Kinds, Request(h, c, kind)
      PROVE OnePollAhead'
  BY <1>5, <1>1 DEF Request, display, poll
<1>6. ASSUME NEW c \in Courts, SourceChanges(c) PROVE OnePollAhead'
  BY <1>6, <1>1 DEF SourceChanges, display, poll
<1> QED BY <1>1, <1>2, <1>3, <1>4, <1>5, <1>6 DEF Next, vars, display, poll

(***************************************************************************)
(* Logged before shown.                                                    *)
(***************************************************************************)
\* Nothing that Shows speaks of changes, except that courts are put back to zero.
LEMMA ShowsKept ==
  ASSUME Shows, UNCHANGED <<pc, startup, merged, logged, answer, left>>,
         \A c \in Courts : suppress'[c] => suppress[c],
         \A c \in Courts : shown'[c] \in {shown[c], Zero}
  PROVE  Shows'
<1> USE DEF Shows
<1>1. SuppressOnce'
  BY DEF SuppressOnce
<1>2. CopyLogged' /\ AppendedLogged'
  BY DEF CopyLogged, AppendedLogged, NextCourt
<1>3. LoggedBeforeShown'
  BY DEF LoggedBeforeShown
<1> QED BY <1>1, <1>2, <1>3

LEMMA ShowsKeptByRequests ==
  ASSUME IInv, NEW h \in Handlers,
         \/ \E c \in Courts, kind \in Kinds : Request(h, c, kind)
         \/ HandlerStep(h)
  PROVE  Shows'
<1> USE DEF IInv
<1>1. CASE UNCHANGED <<pc, startup, merged, logged, answer, left, suppress, shown>>
  BY <1>1, ShowsKept
<1>2. ASSUME NEW c \in Courts, NEW kind \in Kinds, Request(h, c, kind) PROVE Shows'
  BY <1>2, <1>1 DEF Request, db, display, poll, fetch
<1>3. CASE Commit(h) \/ ReadRows(h)
  BY <1>3, <1>1 DEF Commit, ReadRows, db, display, poll, fetch
<1>4. CASE ApplyRows(h)
  <2>1. UNCHANGED <<pc, merged, logged, answer, left>>
    BY <1>4 DEF ApplyRows, db, poll, fetch
  <2>2. task[h].kind \in Kinds /\ task[h].court \in Courts
    BY <1>4 DEF ApplyRows, Types, TypeOK, RequestTypes, Tasks
  <2>3. CASE ResetScore(task[h].court)
    BY <2>1, <2>2, <2>3, ShowsKept DEF ResetScore, Types, TypeOK, DisplayTypes, Flags
  <2>4. CASE Follow(rows[h].active, FALSE)
    BY <2>1, <2>4, ShowsKept DEF Follow
  <2>5. CASE UNCHANGED display
    BY <2>1, <2>5, <1>1 DEF display
  <2> QED BY <1>4, <2>2, <2>3, <2>4, <2>5 DEF ApplyRows, Kinds
<1> QED BY <1>2, <1>3, <1>4 DEF HandlerStep

LEMMA ShowsKeptByLook == ASSUME IInv, NEW c \in Courts, Look(c) PROVE Shows'
<1> USE DEF IInv, Shows, Look
<1>0. UNCHANGED <<shown, logged, answer>> /\ pc = "accepting"
      /\ pc' \in {"accepting", "baselining", "appending"}
  BY DEF db, fetch, Busy
<1>1. /\ suppress \in Flags /\ suppress' \in Flags
      /\ startup \in [Courts -> Scores \union {None}] /\ shown \in [Courts -> Scores]
      /\ merged \in [Courts -> Scores] /\ None \notin Scores
  <2>1. suppress' \in Flags
    BY DEF Types, TypeOK, DisplayTypes, Flags
  <2> QED BY <2>1, ScoresAssumption DEF Types, TypeOK, DisplayTypes, PollTypes
<1>2. CASE UNCHANGED <<merged, startup>> /\ (UNCHANGED suppress \/ suppress' = [suppress EXCEPT ![c] = FALSE])
  <2>1. SuppressOnce'
    BY <1>1, <1>2 DEF SuppressOnce, Flags
  <2>2. CopyLogged' /\ AppendedLogged' /\ LoggedBeforeShown'
    BY <1>0, <1>2 DEF CopyLogged, AppendedLogged, LoggedBeforeShown
  <2> QED BY <2>1, <2>2
<1>3. CASE /\ suppress' = [suppress EXCEPT ![c] = FALSE]
           /\ ~(merged[c] # answer[c] /\ ~suppress[c])
           /\ merged' = [merged EXCEPT ![c] = answer[c]]
           /\ startup' = IF suppress[c] THEN [startup EXCEPT ![c] = answer[c]] ELSE startup
  <2>1. SuppressOnce'
    BY <1>1, <1>3 DEF SuppressOnce, Flags
  <2>2. \A d \in Courts : startup[d] # None => startup'[d] = startup[d]
    BY <1>1, <1>3 DEF SuppressOnce
  <2>3. LoggedBeforeShown'
    BY <1>0, <1>1, <2>2 DEF LoggedBeforeShown
  <2>4. CopyLogged'
    <3>1. SUFFICES ASSUME NEW d \in Courts
                   PROVE merged'[d] \in {Zero, startup'[d]} \union logged[d]
      BY <1>0 DEF CopyLogged
    <3>2. merged[d] \in {Zero, startup'[d]} \union logged[d]
      BY <1>0, <1>1, <2>2 DEF CopyLogged
    <3>3. CASE d # c \/ merged[c] = answer[c]
      BY <1>1, <1>3, <3>2, <3>3
    <3>4. CASE d = c /\ suppress[c]
      BY <1>1, <1>3, <3>4
    <3> QED BY <1>3, <3>3, <3>4
  <2> QED BY <1>0, <2>1, <2>3, <2>4 DEF AppendedLogged
<1> QED BY <1>2, <1>3

LEMMA ShowsKeptByPoll == ASSUME IInv, PollStep PROVE Shows'
<1> USE DEF IInv, Shows
<1>1. CASE StartPoll \/ FetchFails
  <2>1. UNCHANGED <<suppress, startup, shown, logged>> /\ pc' \in {"idle", "fetching"}
    BY <1>1 DEF StartPoll, FetchFails, db, display
  <2> QED BY <2>1 DEF SuppressOnce, CopyLogged, AppendedLogged, LoggedBeforeShown
<1>2. CASE Answer
  <2>1. UNCHANGED <<suppress, startup, shown, logged>> /\ pc' = "accepting" /\ merged' = shown
    BY <1>2 DEF Answer, db, display
  <2> QED BY <2>1 DEF SuppressOnce, CopyLogged, AppendedLogged, LoggedBeforeShown
<1>3. CASE AcceptBaseline
  <2>1. UNCHANGED <<suppress, startup, shown, logged, merged>> /\ pc = "baselining"
        /\ pc' \in {"idle", "accepting"}
    BY <1>3 DEF AcceptBaseline, Resume, display
  <2> QED BY <2>1 DEF SuppressOnce, CopyLogged, AppendedLogged, LoggedBeforeShown
<1>4. CASE AppendScore
  <2>1. /\ UNCHANGED <<suppress, startup, shown, merged, answer, left>>
        /\ pc = "appending" /\ pc' \in {"appended", "refused"}
    BY <1>4 DEF AppendScore, display, fetch
  <2>2. \A c \in Courts : logged[c] \subseteq logged'[c]
    BY <1>4 DEF AppendScore, Types, TypeOK, DbTypes
  <2>3. AppendedLogged'
    <3> SUFFICES ASSUME pc' = "appended", NextCourt \in Courts
                 PROVE answer[NextCourt] \in logged'[NextCourt]
      BY <2>1 DEF AppendedLogged, NextCourt
    <3>1. logged' = [logged EXCEPT ![NextCourt] = @ \union {answer[NextCourt]}]
      BY <1>4 DEF AppendScore
    <3> QED BY <3>1 DEF Types, TypeOK, DbTypes
  <2> QED BY <2>1, <2>2, <2>3 DEF SuppressOnce, CopyLogged, LoggedBeforeShown
<1>5. CASE AppendAnswered
  <2>1. UNCHANGED <<suppress, startup, shown, logged>> /\ pc' = "accepting"
    BY <1>5 DEF AppendAnswered, Resume, db, display
  <2>2. CopyLogged'
    <3>1. CASE pc = "appended"
      BY <1>5, <2>1, <3>1 DEF AppendAnswered, CopyLogged, AppendedLogged, Types, TypeOK, PollTypes
    <3>2. CASE pc # "appended"
      BY <1>5, <2>1, <3>2 DEF AppendAnswered, CopyLogged
    <3> QED BY <3>1, <3>2
  <2> QED BY <2>1, <2>2 DEF SuppressOnce, AppendedLogged, LoggedBeforeShown
<1>6. CASE EndPoll
  <2>1. UNCHANGED <<suppress, startup, logged>> /\ pc = "accepting" /\ pc' = "idle"
        /\ shown' \in {shown, merged}
    BY <1>6 DEF EndPoll, db, Busy
  <2> QED BY <2>1 DEF SuppressOnce, CopyLogged, AppendedLogged, LoggedBeforeShown
<1> QED BY <1>1, <1>2, <1>3, <1>4, <1>5, <1>6, ShowsKeptByLook DEF PollStep

LEMMA ShowsPreserved == ASSUME IInv, [Next]_vars PROVE Shows'
<1> USE DEF IInv
<1>1. CASE UNCHANGED <<pc, startup, merged, logged, answer, left, suppress, shown>>
  BY <1>1, ShowsKept
<1>2. ASSUME NEW c \in Courts, SourceChanges(c) PROVE Shows'
  BY <1>2, <1>1 DEF SourceChanges, db, display, poll, fetch
<1>3. ASSUME Restart PROVE Shows'
  <2>1. /\ pc' = "idle" /\ \A c \in Courts : startup'[c] = None /\ shown'[c] = Zero
    BY <1>3 DEF Restart
  <2> QED BY <2>1 DEF Shows, SuppressOnce, CopyLogged, AppendedLogged, LoggedBeforeShown
<1> QED BY <1>1, <1>2, <1>3, ShowsKeptByRequests, ShowsKeptByPoll
        DEF Next, vars, db, display, poll, fetch

(***************************************************************************)
(* Poller and database, when requests come one at a time and nothing fails. *)
(***************************************************************************)
OneAtATime == \A g, h \in Handlers : g = h

\* A request has changed court c, and the poller has not heard of it.
Behind(h, c) == /\ step[h] \in {"committed", "read"} /\ task[h].court = c
                /\ task[h].kind \in {"assign", "activate", "automation"}

\* The rows a request has read, and the cache between two requests, are those of the database.
CacheAgrees ==
  /\ \A h \in Handlers : step[h] = "read" => rows[h] = CourtRows
  /\ (\A h \in Handlers : step[h] \in {"idle", "begun"}) => cache = CourtRows
  /\ \A h \in Handlers : step[h] = "begun" /\ task[h].kind = "activate" => task[h].value = ~active[task[h].court]
  /\ \A h \in Handlers : step[h] = "begun" /\ task[h].kind = "assign" => task[h].value = None

OnAgrees ==
  \A c \in Courts : on[c] # active[c] =>
    \E h \in Handlers : Behind(h, c) /\ task[h].kind # "assign"

\* A court the database waits for is one the poller waits for, or will when it hears of the request.
BaselineAgrees ==
  \A c \in Courts : active[c] /\ awaiting[c] /\ ~(pc = "baselining" /\ NextCourt = c) =>
    \/ waiting[c] /\ baseline[c] = None
    \/ \E h \in Handlers : Behind(h, c) /\ (task[h].kind = "assign" \/ ~on[c])

Agrees == faults \in Nat /\ (faults = 0 => CacheAgrees /\ OnAgrees /\ BaselineAgrees)

LEMMA InitAgrees == Init => Agrees
BY DEF Init, Agrees, CacheAgrees, OnAgrees, BaselineAgrees, CourtRows

\* A step that changes neither the database nor the requests nor what the poller waits for.
LEMMA AgreesKept ==
  ASSUME CacheAgrees, OnAgrees, BaselineAgrees,
         UNCHANGED <<active, awaiting, revision, cache, task, step, rows, on, waiting, baseline>>,
         pc # "baselining" \/ UNCHANGED <<pc, left>>
  PROVE  CacheAgrees' /\ OnAgrees' /\ BaselineAgrees'
<1>1. CacheAgrees' /\ OnAgrees'
  BY DEF CacheAgrees, OnAgrees, CourtRows, Behind
<1>2. BaselineAgrees'
  <2>1. \A h \in Handlers, c \in Courts : Behind(h, c)' <=> Behind(h, c)
    BY DEF Behind
  <2>2. CASE pc # "baselining"
    BY <2>1, <2>2 DEF BaselineAgrees
  <2>3. CASE UNCHANGED <<pc, left>>
    <3>1. NextCourt' = NextCourt
      BY <2>3 DEF NextCourt
    <3> QED BY <2>1, <2>3, <3>1 DEF BaselineAgrees
  <2> QED BY <2>2, <2>3
<1> QED BY <1>1, <1>2

LEMMA RequestAgrees ==
  ASSUME IInv, OneAtATime, CacheAgrees, OnAgrees, BaselineAgrees,
         NEW h \in Handlers, NEW c \in Courts, NEW kind \in Kinds, Request(h, c, kind)
  PROVE  CacheAgrees' /\ OnAgrees' /\ BaselineAgrees'
<1>1. PICK value \in BOOLEAN \union {None} :
        /\ kind = "activate" => value = ~cache.active[c]
        /\ kind \in {"assign", "invalidation"} => value = None
        /\ task' = [task EXCEPT ![h] = [court |-> c, kind |-> kind, value |-> value, expected |-> cache.revision[c]]]
  BY DEF Request
<1>2. /\ step[h] = "idle" /\ step' = [step EXCEPT ![h] = IF kind = "invalidation" THEN "committed" ELSE "begun"]
      /\ UNCHANGED <<active, awaiting, revision, cache, rows, on, waiting, baseline, pc, left>>
  BY DEF Request, db, display, poll
<1>3. /\ step'[h] \in {"committed", "begun"} /\ task'[h].value = value /\ task'[h].kind = kind /\ task'[h].court = c
      /\ \A g \in Handlers : g = h
  BY <1>1, <1>2 DEF IInv, Types, TypeOK, RequestTypes, OneAtATime
<1>4. cache = CourtRows /\ cache.active = active
  BY <1>2, <1>3 DEF CacheAgrees, CourtRows
<1>5. CacheAgrees'
  BY <1>1, <1>2, <1>3, <1>4 DEF CacheAgrees, CourtRows
<1>6. \A d \in Courts : ~Behind(h, d)
  BY <1>2 DEF Behind
<1>7. OnAgrees'
  BY <1>2, <1>3, <1>6 DEF OnAgrees
<1>8. BaselineAgrees'
  <2>1. NextCourt' = NextCourt
    BY <1>2 DEF NextCourt
  <2> QED BY <1>2, <1>3, <1>6, <2>1 DEF BaselineAgrees
<1> QED BY <1>5, <1>7, <1>8

LEMMA CommitAgrees ==
  ASSUME IInv, OneAtATime, CacheAgrees, OnAgrees, BaselineAgrees, NEW h \in Handlers, Commit(h), ~Fault
  PROVE  CacheAgrees' /\ OnAgrees' /\ BaselineAgrees'
<1> DEFINE t == task[h]
<1>1. /\ step[h] = "begun" /\ UNCHANGED <<cache, task, rows, on, waiting, baseline, pc, left>>
      /\ \/ ChangeCourt(t) /\ step' = [step EXCEPT ![h] = "committed"]
         \/ step' = [step EXCEPT ![h] = "idle"] /\ UNCHANGED <<active, awaiting, revision>>
  BY DEF Commit, display, poll
<1>2. /\ t.kind \in {"assign", "activate", "automation"} /\ t.court \in Courts /\ \A g \in Handlers : g = h
      /\ t.value \in BOOLEAN \union {None}
      /\ active \in Flags /\ awaiting \in Flags /\ step \in [Handlers -> {"idle", "begun", "committed", "read"}]
  BY <1>1 DEF IInv, Types, TypeOK, RequestTypes, DbTypes, BegunTasks, OneAtATime, Tasks
<1>3. cache = CourtRows /\ (t.kind = "activate" => t.value = ~active[t.court]) /\ (t.kind = "assign" => t.value = None)
  BY <1>1, <1>2 DEF CacheAgrees
<1>4. \A d \in Courts : ~Behind(h, d)
  BY <1>1 DEF Behind
<1>5. /\ \A c \in Courts : on[c] = active[c]
      /\ \A c \in Courts : active[c] /\ awaiting[c] /\ ~(pc = "baselining" /\ NextCourt = c) => waiting[c] /\ baseline[c] = None
  BY <1>2, <1>4 DEF OnAgrees, BaselineAgrees
<1>6. NextCourt' = NextCourt /\ pc' = pc
  BY <1>1 DEF NextCourt
<1>7. CASE step' = [step EXCEPT ![h] = "idle"] /\ UNCHANGED <<active, awaiting, revision>>
  <2>1. step'[h] = "idle" /\ CourtRows' = CourtRows
    BY <1>2, <1>7 DEF CourtRows
  <2>2. CacheAgrees'
    BY <1>1, <1>2, <1>3, <2>1 DEF CacheAgrees
  <2>3. OnAgrees'
    BY <1>1, <1>5, <1>7 DEF OnAgrees
  <2>4. BaselineAgrees'
    BY <1>1, <1>5, <1>6, <1>7 DEF BaselineAgrees
  <2> QED BY <2>2, <2>3, <2>4
<1>8. CASE ChangeCourt(t) /\ step' = [step EXCEPT ![h] = "committed"]
  <2>1. step'[h] = "committed" /\ task' = task /\ Behind(h, t.court)'
    BY <1>1, <1>2, <1>8 DEF Behind
  <2>2. CacheAgrees'
    BY <1>2, <2>1 DEF CacheAgrees
  <2>3. /\ \A c \in Courts \ {t.court} : active'[c] = active[c] /\ awaiting'[c] = awaiting[c]
        /\ active'[t.court] = Activity(t)
        /\ t.kind = "activate" => awaiting'[t.court] = t.value
        /\ t.kind = "automation" => awaiting'[t.court] = (awaiting[t.court] \/ (Activity(t) = TRUE /\ ~active[t.court]))
    BY <1>2, <1>8 DEF ChangeCourt, Flags
  <2>4. OnAgrees'
    <3>1. t.kind = "assign" => active'[t.court] = active[t.court]
      BY <1>3, <2>3 DEF Activity
    <3> QED BY <1>1, <1>2, <1>5, <2>1, <2>3, <3>1 DEF OnAgrees
  <2>5. ASSUME NEW c \in Courts, active'[c], awaiting'[c], ~(pc = "baselining" /\ NextCourt = c)
        PROVE  \/ waiting[c] /\ baseline[c] = None
               \/ Behind(h, c)' /\ (t.kind = "assign" \/ ~on[c])
    <3>1. CASE c # t.court
      BY <1>5, <2>3, <2>5, <3>1
    <3>2. CASE c = t.court /\ t.kind = "assign"
      BY <2>1, <3>2
    <3>3. CASE c = t.court /\ t.kind = "activate"
      <4>1. ~active[c]
        BY <1>2, <1>3, <2>3, <2>5, <3>3
      <4> QED BY <1>5, <2>1, <3>3, <4>1
    <3>4. CASE c = t.court /\ t.kind = "automation"
      <4>1. CASE ~active[c]
        BY <1>5, <2>1, <3>4, <4>1
      <4>2. CASE active[c]
        BY <1>5, <2>3, <2>5, <3>4, <4>2
      <4> QED BY <4>1, <4>2
    <3> QED BY <1>2, <3>1, <3>2, <3>3, <3>4
  <2>6. BaselineAgrees'
    BY <1>1, <1>6, <2>1, <2>5 DEF BaselineAgrees
  <2> QED BY <2>2, <2>4, <2>6
<1> QED BY <1>1, <1>7, <1>8

LEMMA ReadAgrees ==
  ASSUME IInv, OneAtATime, CacheAgrees, OnAgrees, BaselineAgrees, NEW h \in Handlers, ReadRows(h), ~Fault
  PROVE  CacheAgrees' /\ OnAgrees' /\ BaselineAgrees'
<1>1. /\ step[h] = "committed" /\ step' = [step EXCEPT ![h] = "read"] /\ rows' = [rows EXCEPT ![h] = CourtRows]
      /\ UNCHANGED <<active, awaiting, revision, cache, task, on, waiting, baseline, pc, left>>
  BY DEF ReadRows, db, display, poll
<1>2. step'[h] = "read" /\ rows'[h] = CourtRows /\ CourtRows' = CourtRows /\ \A g \in Handlers : g = h
  BY <1>1 DEF IInv, Types, TypeOK, RequestTypes, OneAtATime, CourtRows
<1>3. CacheAgrees'
  BY <1>2 DEF CacheAgrees
<1>4. \A c \in Courts : (Behind(h, c)' <=> Behind(h, c)) /\ NextCourt' = NextCourt
  BY <1>1, <1>2 DEF Behind, NextCourt
<1>5. OnAgrees'
  BY <1>1, <1>2, <1>4 DEF OnAgrees
<1>6. BaselineAgrees'
  BY <1>1, <1>2, <1>4 DEF BaselineAgrees
<1> QED BY <1>3, <1>5, <1>6

LEMMA ApplyAgrees ==
  ASSUME IInv, OneAtATime, CacheAgrees, OnAgrees, BaselineAgrees, NEW h \in Handlers, ApplyRows(h)
  PROVE  CacheAgrees' /\ OnAgrees' /\ BaselineAgrees'
<1> DEFINE t == task[h]
<1>1. /\ step[h] = "read" /\ step' = [step EXCEPT ![h] = "idle"] /\ cache' = rows[h]
      /\ UNCHANGED <<active, awaiting, revision, task, rows, pc, left>>
      /\ \/ t.kind = "assign" /\ ResetScore(t.court)
         \/ t.kind \in {"activate", "automation"} /\ Follow(rows[h].active, FALSE)
         \/ t.kind = "invalidation" /\ UNCHANGED display
  <2>1. t.kind \in Kinds /\ t \in Tasks
    BY DEF ApplyRows, IInv, Types, TypeOK, RequestTypes, Tasks
  <2> QED BY <2>1 DEF ApplyRows, db, poll, display, Kinds
<1>2. /\ step'[h] = "idle" /\ CourtRows' = CourtRows /\ rows[h] = CourtRows /\ rows[h].active = active
      /\ t.court \in Courts /\ \A g \in Handlers : g = h
      /\ on \in Flags /\ waiting \in Flags /\ active \in Flags
  BY <1>1 DEF IInv, Types, TypeOK, RequestTypes, DisplayTypes, DbTypes, OneAtATime, CourtRows, CacheAgrees, Tasks
<1>3. CacheAgrees'
  BY <1>1, <1>2 DEF CacheAgrees
<1>4. NextCourt' = NextCourt
  BY <1>1 DEF NextCourt
<1>5. \A c \in Courts : ~Behind(h, c)'
  BY <1>2 DEF Behind
<1>6. CASE t.kind = "assign" /\ ResetScore(t.court)
  <2>1. /\ on' = on /\ waiting'[t.court] = on[t.court] /\ baseline'[t.court] = None
        /\ \A c \in Courts \ {t.court} : waiting'[c] = waiting[c] /\ baseline'[c] = baseline[c]
    BY <1>2, <1>6 DEF ResetScore, IInv, Types, TypeOK, DisplayTypes, Flags
  <2>2. \A c \in Courts : on[c] = active[c]
    BY <1>2, <1>6 DEF OnAgrees
  <2>3. \A c \in Courts \ {t.court} : ~Behind(h, c)
    BY DEF Behind
  <2>4. OnAgrees'
    BY <1>1, <2>1, <2>2 DEF OnAgrees
  <2>5. BaselineAgrees'
    BY <1>1, <1>2, <1>4, <2>1, <2>2, <2>3 DEF BaselineAgrees
  <2> QED BY <1>3, <2>4, <2>5
<1>7. CASE t.kind \in {"activate", "automation"} /\ Follow(rows[h].active, FALSE)
  <2>1. /\ on' = active
        /\ \A c \in Courts : active[c] # on[c] => baseline'[c] = None /\ waiting'[c] = active[c]
        /\ \A c \in Courts : active[c] = on[c] => baseline'[c] = baseline[c] /\ waiting'[c] = waiting[c]
    <3>1. Follow(active, FALSE)
      BY <1>2, <1>7
    <3>2. on' = active
      BY <3>1 DEF Follow
    <3>3. /\ baseline' = [c \in Courts |-> IF c \in {d \in Courts : active[d] # on[d]} THEN None ELSE baseline[c]]
          /\ waiting' = [c \in Courts |-> IF c \in {d \in Courts : active[d] # on[d]} THEN active[c] /\ ~FALSE ELSE waiting[c]]
      BY <3>1, Zenon DEF Follow
    <3>4. \A c \in Courts : /\ baseline'[c] = IF active[c] # on[c] THEN None ELSE baseline[c]
                            /\ waiting'[c] = IF active[c] # on[c] THEN active[c] ELSE waiting[c]
      <4>1. TAKE c \in Courts
      <4>2. c \in {d \in Courts : active[d] # on[d]} <=> active[c] # on[c]
        OBVIOUS
      <4>3. /\ baseline'[c] = IF c \in {d \in Courts : active[d] # on[d]} THEN None ELSE baseline[c]
            /\ waiting'[c] = IF c \in {d \in Courts : active[d] # on[d]} THEN active[c] /\ ~FALSE ELSE waiting[c]
        BY <3>3, Zenon
      <4>4. (active[c] /\ ~FALSE) = active[c]
        <5>1. active[c] \in BOOLEAN
          BY <1>2 DEF Flags
        <5>2. CASE active[c] = TRUE
          BY <5>2
        <5>3. CASE active[c] = FALSE
          BY <5>3
        <5> QED BY <5>1, <5>2, <5>3
      <4>5. CASE active[c] # on[c]
        BY <4>2, <4>3, <4>5, <4>4, Zenon
      <4>6. CASE active[c] = on[c]
        BY <4>2, <4>3, <4>6, Zenon
      <4> QED BY <4>5, <4>6, Zenon
    <3> QED BY <3>2, <3>4, Zenon
  <2>2. OnAgrees'
    BY <1>1, <2>1 DEF OnAgrees
  <2>3. ASSUME NEW c \in Courts, active[c], awaiting[c], ~(pc = "baselining" /\ NextCourt = c)
        PROVE  waiting'[c] /\ baseline'[c] = None
    <3>1. CASE active[c] # on[c]
      BY <2>1, <2>3, <3>1
    <3>2. CASE active[c] = on[c]
      BY <1>2, <1>7, <2>1, <2>3, <3>2 DEF BaselineAgrees
    <3> QED BY <3>1, <3>2
  <2>4. BaselineAgrees'
    BY <1>1, <1>4, <2>3 DEF BaselineAgrees
  <2> QED BY <1>3, <2>2, <2>4
<1>8. CASE t.kind = "invalidation" /\ UNCHANGED display
  <2>1. UNCHANGED <<on, waiting, baseline>>
    BY <1>8 DEF display
  <2>2. \A c \in Courts : ~Behind(h, c)
    BY <1>8 DEF Behind
  <2>3. OnAgrees'
    BY <1>1, <1>2, <2>1, <2>2 DEF OnAgrees
  <2>4. BaselineAgrees'
    BY <1>1, <1>2, <1>4, <2>1, <2>2 DEF BaselineAgrees
  <2> QED BY <1>3, <2>3, <2>4
<1> QED BY <1>1, <1>6, <1>7, <1>8

LEMMA LookAgrees ==
  ASSUME IInv, CacheAgrees, OnAgrees, BaselineAgrees, NEW c \in Courts, Look(c)
  PROVE  CacheAgrees' /\ OnAgrees' /\ BaselineAgrees'
<1>1. /\ pc = "accepting" /\ c = NextCourt /\ UNCHANGED <<active, awaiting, revision, cache, task, step, rows, on>>
      /\ \/ UNCHANGED <<waiting, baseline>>
         \/ UNCHANGED <<waiting, left>> /\ baseline' = [baseline EXCEPT ![c] = answer[c]] /\ pc' = "baselining"
         \/ /\ waiting[c] => baseline[c] # None
            /\ waiting' = [waiting EXCEPT ![c] = FALSE]
            /\ baseline' = IF waiting[c] THEN [baseline EXCEPT ![c] = None] ELSE baseline
  BY DEF Look, Busy, db, requests
<1>2. CacheAgrees' /\ OnAgrees' /\ \A h \in Handlers, d \in Courts : Behind(h, d)' <=> Behind(h, d)
  BY <1>1 DEF CacheAgrees, OnAgrees, CourtRows, Behind
<1>3. \A d \in Courts \ {c} : waiting'[d] = waiting[d] /\ baseline'[d] = baseline[d]
  BY <1>1 DEF IInv, Types, TypeOK, DisplayTypes, Flags
<1>4. CASE UNCHANGED <<waiting, baseline>>
  BY <1>1, <1>2, <1>4 DEF BaselineAgrees
<1>5. CASE UNCHANGED <<waiting, left>> /\ pc' = "baselining"
  <2>1. NextCourt' = c
    BY <1>1, <1>5 DEF NextCourt
  <2> QED BY <1>1, <1>2, <1>3, <1>5, <2>1 DEF BaselineAgrees
<1>6. CASE waiting[c] => baseline[c] # None
  BY <1>1, <1>2, <1>3, <1>6 DEF BaselineAgrees
<1> QED BY <1>1, <1>2, <1>4, <1>5, <1>6

LEMMA AcceptAgrees ==
  ASSUME IInv, CacheAgrees, OnAgrees, BaselineAgrees, AcceptBaseline, ~Fault
  PROVE  CacheAgrees' /\ OnAgrees' /\ BaselineAgrees'
<1>1. /\ pc = "baselining" /\ pc' # "baselining"
      /\ UNCHANGED <<active, revision, cache, task, step, rows, on, waiting, baseline>>
      /\ \/ awaiting' = [awaiting EXCEPT ![NextCourt] = FALSE]
         \/ ~active[NextCourt] /\ UNCHANGED awaiting
  BY DEF AcceptBaseline, requests, display, Resume
<1>2. CacheAgrees' /\ OnAgrees' /\ \A h \in Handlers, d \in Courts : Behind(h, d)' <=> Behind(h, d)
  BY <1>1 DEF CacheAgrees, OnAgrees, CourtRows, Behind
<1>3. awaiting \in Flags
  BY DEF IInv, Types, TypeOK, DbTypes
<1>4. \A c \in Courts : active[c] /\ awaiting'[c] => NextCourt # c /\ awaiting[c]
  BY <1>1, <1>3 DEF Flags
<1>5. BaselineAgrees'
  BY <1>1, <1>2, <1>4 DEF BaselineAgrees
<1> QED BY <1>2, <1>5

LEMMA AgreesPreserved == ASSUME IInv, Agrees, OneAtATime, [Next]_vars PROVE Agrees'
<1>1. faults' \in Nat /\ (faults' = 0 => faults = 0 /\ ~Fault)
  <2>1. faults \in Nat /\ (faults' = faults \/ faults' = faults + 1)
    BY DEF Agrees, Fault, Next, vars, HandlerStep, PollStep, Request, Commit, ReadRows, ApplyRows, StartPoll, Answer,
           FetchFails, Look, AcceptBaseline, AppendScore, AppendAnswered, EndPoll, SourceChanges, Restart
  <2> QED BY <2>1 DEF Fault
<1> SUFFICES ASSUME faults' = 0 PROVE CacheAgrees' /\ OnAgrees' /\ BaselineAgrees'
  BY <1>1 DEF Agrees
<1>2. CacheAgrees /\ OnAgrees /\ BaselineAgrees /\ ~Fault
  BY <1>1 DEF Agrees
<1>3. ASSUME NEW h \in Handlers, HandlerStep(h) PROVE CacheAgrees' /\ OnAgrees' /\ BaselineAgrees'
  BY <1>2, <1>3, CommitAgrees, ReadAgrees, ApplyAgrees DEF HandlerStep
<1>4. ASSUME NEW h \in Handlers, NEW c \in Courts, NEW kind \in Kinds, Request(h, c, kind)
      PROVE CacheAgrees' /\ OnAgrees' /\ BaselineAgrees'
  BY <1>2, <1>4, RequestAgrees
<1>5. CASE PollStep
  <2>1. CASE StartPoll \/ Answer \/ FetchFails \/ AppendScore \/ AppendAnswered \/ EndPoll
    <3>1. /\ UNCHANGED <<active, awaiting, revision, cache, task, step, rows, on, waiting, baseline>>
          /\ pc # "baselining"
      BY <2>1 DEF StartPoll, Answer, FetchFails, AppendScore, AppendAnswered, EndPoll, Busy, db, requests, display
    <3> QED BY <1>2, <3>1, AgreesKept
  <2> QED BY <1>2, <1>5, <2>1, LookAgrees, AcceptAgrees DEF PollStep
<1>6. ASSUME NEW c \in Courts, SourceChanges(c) PROVE CacheAgrees' /\ OnAgrees' /\ BaselineAgrees'
  BY <1>2, <1>6, AgreesKept DEF SourceChanges, db, requests, display, poll
<1>7. CASE Restart
  BY <1>2, <1>7 DEF Restart
<1>8. CASE UNCHANGED vars
  BY <1>2, <1>8, AgreesKept DEF vars, db, requests, display, poll
<1> QED BY <1>3, <1>4, <1>5, <1>6, <1>7, <1>8 DEF Next

(***************************************************************************)
(* The page that shows the courts. What its invariant says is about every  *)
(* message on its way: that the last one of a topic tells the truth.       *)
(***************************************************************************)
\* What may be on the wire.
ScoreEvents == [type : {"score"}, value : Nat, rev : Nat]
CourtEvents == [type : {"court"}, value : Nat]
TableEvents == [type : {"table"}, table : Tables, rev : Nat]
Snapshots == [type : {"snapshot"}, players : Nat, matches : Nat, court : Nat, score : Nat, rev : Nat,
              revisions : [Tables -> Nat]]
Messages == ScoreEvents \cup CourtEvents \cup TableEvents \cup Snapshots \cup [type : {"error", "malformed"}]

ServerTypes ==
  /\ people \in Nat /\ store \in [players : Nat, matches : Nat] /\ tableRev \in [Tables -> Nat]
  /\ court \in Nat /\ score \in Nat /\ pollRev \in Nat
PageTypes ==
  /\ linked \in BOOLEAN /\ drawn \in BOOLEAN /\ synced \in BOOLEAN /\ failed \in BOOLEAN
  /\ timer \in BOOLEAN /\ retry \in BOOLEAN /\ flying \in BOOLEAN /\ queued \in BOOLEAN /\ superseded \in BOOLEAN
  /\ courtMoved \in BOOLEAN /\ scoreMoved \in BOOLEAN
  /\ lastCourt \in CourtEvents \cup {Missing} /\ lastScore \in ScoreEvents \cup {Missing} /\ seen \in Nat
  /\ required \in [Tables -> Nat]
  /\ board \in [players : Nat, matches : Nat, court : Nat, score : Nat]
LinkTypes ==
  /\ wire \in Seq(Messages) /\ heard \in 0..4
  /\ ask \in {"none", "waiting", "sent", "reading", "answered"} /\ read \in Nat
BoardTypes == ServerTypes /\ PageTypes /\ LinkTypes

\* One request is under way at most, and an answer is that of the newest generation unless another snapshot
\* is queued. Who says that it is synchronised has displayed something and asks for nothing.
Asking ==
  /\ timer => ~flying
  /\ flying <=> ask # "none"
  /\ failed => ~flying /\ ~timer /\ ~retry /\ ~synced
  /\ synced => linked /\ drawn /\ ~flying /\ ~timer
  /\ linked /\ flying /\ superseded => queued
  /\ flying /\ queued => superseded
\* A page without a connection hears nothing, and there is one answer to a request.
NoAnswer(w) == \A n \in DOMAIN w : w[n].type \notin Answers
OneAnswer(w) == \A n, k \in DOMAIN w : w[n].type \in Answers /\ w[k].type \in Answers => k = n
Linking ==
  /\ ~linked => wire = <<>> /\ heard = 0 /\ ask \in {"none", "waiting"}
  /\ OneAnswer(wire) /\ (ask # "answered" => NoAnswer(wire))

\* m is the last of its type, none is left, and another comes after the nth.
NoneIn(w, type) == \A n \in DOMAIN w : w[n].type # type
LastIn(w, m) == \E n \in DOMAIN w : w[n] = m /\ \A k \in DOMAIN w : k > n => w[k].type # m.type
FollowedIn(w, n, type) == \E k \in DOMAIN w : k > n /\ w[k].type = type

Says(m, type) == IF type = "score" THEN ScoreEvent(m.score, m.rev) ELSE CourtEvent(m.court)
SnapshotsTell(w, e) ==
  \A n \in DOMAIN w : w[n].type = "snapshot" => Says(w[n], e.type) = e \/ FollowedIn(w, n, e.type)

\* The last score on the wire is the one there is, or the page has it; and a snapshot with another one is
\* followed by a score.
ScoresTold ==
  heard >= 1 =>
    LET e == ScoreEvent(score, pollRev)
    IN /\ SnapshotsTell(wire, e)
       /\ LastIn(wire, e) \/ (NoneIn(wire, "score") /\ lastScore = e /\ (drawn => board.score = score))
\* The same for the courts.
CourtsTold ==
  heard >= 2 =>
    LET e == CourtEvent(court)
    IN /\ SnapshotsTell(wire, e)
       /\ LastIn(wire, e) \/ (NoneIn(wire, "court") /\ lastCourt = e /\ (drawn => board.court = court))
\* Scores come in the order of their revisions, and none of them is older than what the page has seen.
Carriers == {"score", "snapshot"}
Ordered(w) == \A k, n \in DOMAIN w : k < n /\ w[k].type \in Carriers /\ w[n].type \in Carriers => w[k].rev <= w[n].rev
Within(w, low, high) == \A n \in DOMAIN w : w[n].type \in Carriers => low <= w[n].rev /\ w[n].rev <= high
ScoresInOrder ==
  linked =>
    /\ seen <= pollRev + 1 /\ Ordered(wire) /\ Within(wire, seen - 1, pollRev)
    /\ lastScore # Missing => lastScore.rev <= pollRev /\ Within(wire, lastScore.rev, pollRev)

\* As long as no event tells of a table, a page that says it is synchronised displays the table as the server
\* has it, and so does a snapshot that will be displayed.
Untold(w, t) == \E n \in DOMAIN w : w[n].type = "table" /\ w[n].table = t
Counts == flying /\ ~superseded
MatchesTold ==
  heard >= 3 /\ ~Untold(wire, "matches") =>
    /\ synced => board.matches = store.matches
    /\ Counts => \A n \in DOMAIN wire : wire[n].type = "snapshot" => wire[n].matches = store.matches
PlayersTold ==
  /\ store.players <= people
  /\ heard = 4 /\ ~Untold(wire, "players") /\ store.players = people =>
       /\ synced => board.players = people
       /\ Counts => /\ ask = "reading" => read = people
                    /\ \A n \in DOMAIN wire : wire[n].type = "snapshot" => wire[n].players = people
BoardIInv ==
  /\ BoardTypes /\ Asking /\ KeepsTrying /\ Linking
  /\ ScoresTold /\ CourtsTold /\ ScoresInOrder /\ MatchesTold /\ PlayersTold

-----------------------------------------------------------------------------
LEMMA Appended ==
  ASSUME NEW w \in Seq(Messages), NEW e \in Messages
  PROVE  LET v == Append(w, e) IN
         /\ v \in Seq(Messages) /\ Len(w) \in Nat /\ DOMAIN w = 1..Len(w) /\ DOMAIN v = 1..(Len(w) + 1)
         /\ v[Len(w) + 1] = e /\ \A n \in DOMAIN w : v[n] = w[n]
  OBVIOUS

LEMMA Taken ==
  ASSUME NEW w \in Seq(Messages), w # <<>>
  PROVE  LET v == Tail(w) IN
         /\ v \in Seq(Messages) /\ Len(w) \in Nat /\ Len(w) > 0
         /\ DOMAIN w = 1..Len(w) /\ DOMAIN v = 1..(Len(w) - 1)
         /\ Head(w) = w[1] /\ Head(w) \in Messages /\ \A n \in DOMAIN v : v[n] = w[n + 1]
  OBVIOUS

LEMMA AppendedLast ==
  ASSUME NEW w \in Seq(Messages), NEW e \in Messages
  PROVE  /\ LastIn(Append(w, e), e)
         /\ \A m : e.type # m.type /\ LastIn(w, m) => LastIn(Append(w, e), m)
         /\ \A type : e.type # type /\ NoneIn(w, type) => NoneIn(Append(w, e), type)
         /\ \A n \in DOMAIN w : FollowedIn(Append(w, e), n, e.type)
         /\ \A n \in DOMAIN w : \A type : FollowedIn(w, n, type) => FollowedIn(Append(w, e), n, type)
  <1> DEFINE v == Append(w, e)
  <1>1. /\ Len(w) \in Nat /\ DOMAIN w = 1..Len(w) /\ DOMAIN v = 1..(Len(w) + 1)
        /\ v[Len(w) + 1] = e /\ \A n \in DOMAIN w : v[n] = w[n]
    BY Appended
  <1> HIDE DEF v
  <1>2. LastIn(v, e)
    BY <1>1 DEF LastIn
  <1>3. ASSUME NEW m, e.type # m.type, LastIn(w, m) PROVE LastIn(v, m)
    BY <1>1, <1>3 DEF LastIn
  <1>4. ASSUME NEW type, e.type # type, NoneIn(w, type) PROVE NoneIn(v, type)
    BY <1>1, <1>4 DEF NoneIn
  <1>5. \A n \in DOMAIN w : FollowedIn(v, n, e.type)
    BY <1>1 DEF FollowedIn
  <1>6. ASSUME NEW n \in DOMAIN w, NEW type, FollowedIn(w, n, type) PROVE FollowedIn(v, n, type)
    BY <1>1, <1>6 DEF FollowedIn
  <1> QED BY <1>2, <1>3, <1>4, <1>5, <1>6 DEF v

LEMMA TakenLast ==
  ASSUME NEW w \in Seq(Messages), w # <<>>
  PROVE  /\ \A m : LastIn(w, m) => LastIn(Tail(w), m) \/ (NoneIn(Tail(w), m.type) /\ Head(w) = m)
         /\ \A type : NoneIn(w, type) => NoneIn(Tail(w), type) /\ Head(w).type # type
         /\ \A n \in DOMAIN Tail(w) : \A type : FollowedIn(w, n + 1, type) => FollowedIn(Tail(w), n, type)
         /\ \A type : FollowedIn(w, 1, type) => ~NoneIn(Tail(w), type)
  <1> DEFINE v == Tail(w)
             h == Head(w)
  <1>1. /\ Len(w) \in Nat /\ Len(w) > 0 /\ DOMAIN w = 1..Len(w) /\ DOMAIN v = 1..(Len(w) - 1)
        /\ h = w[1] /\ \A n \in DOMAIN v : v[n] = w[n + 1]
    BY Taken
  <1> HIDE DEF v, h
  <1>2. ASSUME NEW m, LastIn(w, m) PROVE LastIn(v, m) \/ (NoneIn(v, m.type) /\ h = m)
    <2>1. PICK n \in DOMAIN w : w[n] = m /\ \A k \in DOMAIN w : k > n => w[k].type # m.type
      BY <1>2 DEF LastIn
    <2>2. CASE n = 1
      BY <1>1, <2>1, <2>2 DEF NoneIn
    <2>3. CASE n # 1
      <3>1. n - 1 \in DOMAIN v /\ v[n - 1] = m /\ \A k \in DOMAIN v : k > n - 1 => v[k].type # m.type
        BY <1>1, <2>1, <2>3
      <3> QED BY <3>1 DEF LastIn
    <2> QED BY <2>2, <2>3
  <1>3. ASSUME NEW type, NoneIn(w, type) PROVE NoneIn(v, type) /\ h.type # type
    BY <1>1, <1>3 DEF NoneIn
  <1>4. ASSUME NEW n \in DOMAIN v, NEW type, FollowedIn(w, n + 1, type) PROVE FollowedIn(v, n, type)
    <2>1. PICK k \in DOMAIN w : k > n + 1 /\ w[k].type = type
      BY <1>4 DEF FollowedIn
    <2>2. k - 1 \in DOMAIN v /\ k - 1 > n /\ v[k - 1].type = type
      BY <1>1, <2>1
    <2> QED BY <2>2 DEF FollowedIn
  <1>5. ASSUME NEW type, FollowedIn(w, 1, type) PROVE ~NoneIn(v, type)
    <2>1. PICK k \in DOMAIN w : k > 1 /\ w[k].type = type
      BY <1>5 DEF FollowedIn
    <2>2. k - 1 \in DOMAIN v /\ v[k - 1].type = type
      BY <1>1, <2>1
    <2> QED BY <2>2 DEF NoneIn
  <1> QED BY <1>2, <1>3, <1>4, <1>5 DEF v, h

-----------------------------------------------------------------------------
LEMMA EventsAreMessages ==
  /\ \A value, rev \in Nat : ScoreEvent(value, rev) \in Messages /\ CourtEvent(value) \in Messages
  /\ \A t \in Tables, rev \in Nat : TableEvent(t, rev) \in Messages
  BY DEF Messages, ScoreEvents, CourtEvents, TableEvents, ScoreEvent, CourtEvent, TableEvent

LEMMA SnapshotIsMessage == ASSUME BoardTypes PROVE Snapshot \in Messages
  BY DEF BoardTypes, ServerTypes, LinkTypes, Messages, Snapshots, Snapshot

LEMMA Sent ==
  ASSUME BoardTypes, NEW topic, NEW e \in Messages
  PROVE  /\ Hears(topic) => Published(topic, e) = <<e>> /\ wire \o Published(topic, e) = Append(wire, e)
         /\ ~Hears(topic) => Published(topic, e) = <<>> /\ wire \o Published(topic, e) = wire
  <1>1. wire \in Seq(Messages) /\ <<e>> \in Seq(Messages)
    BY DEF BoardTypes, LinkTypes
  <1>2. wire \o <<e>> = Append(wire, e) /\ wire \o <<>> = wire
    BY <1>1, AppendIsConcat, ConcatEmptySeq
  <1> QED BY <1>2 DEF Published

LEMMA Heard ==
  ASSUME BoardTypes
  PROVE  /\ Hears("scores") <=> heard >= 1
         /\ Hears("courts") <=> heard >= 2
         /\ Hears("matches") <=> heard >= 3
         /\ Hears("players") <=> heard = 4
  BY DEF BoardTypes, LinkTypes, Hears, Topics

LEMMA PlayersSent ==
  ASSUME BoardTypes, Reload("players")
  PROVE  \E rev \in Nat :
           wire' = IF heard = 4 THEN Append(wire, TableEvent("players", rev)) ELSE wire
  <1> DEFINE rev == tableRev["players"] + 1
             e == TableEvent("players", rev)
  <1>1. rev \in Nat /\ e \in Messages
    BY EventsAreMessages DEF BoardTypes, ServerTypes, Tables
  <1>2. wire' = (wire \o Published("players", e)) \o <<>>
    BY DEF Reload
  <1>3. wire \o Published("players", e) = IF heard = 4 THEN Append(wire, e) ELSE wire
    BY <1>1, Sent, Heard
  <1>4. wire' = IF heard = 4 THEN Append(wire, e) ELSE wire
    BY <1>1, <1>2, <1>3, Appended, ConcatEmptySeq DEF BoardTypes, LinkTypes
  <1> QED BY <1>1, <1>4

LEMMA MatchesSent ==
  ASSUME BoardTypes, Reload("matches")
  PROVE  \E rev \in Nat :
           LET w == IF heard >= 3 THEN Append(wire, TableEvent("matches", rev)) ELSE wire
           IN wire' = IF heard >= 1 THEN Append(w, ScoreEvent(score + 1, pollRev)) ELSE w
  <1> DEFINE rev == tableRev["matches"] + 1
             e == TableEvent("matches", rev)
             f == ScoreEvent(score + 1, pollRev)
             w == IF heard >= 3 THEN Append(wire, e) ELSE wire
  <1>1. rev \in Nat /\ e \in Messages /\ f \in Messages
    BY EventsAreMessages DEF BoardTypes, ServerTypes, Tables
  <1>2. wire' = (wire \o Published("matches", e)) \o Published("scores", f)
    BY DEF Reload
  <1>3. wire \o Published("matches", e) = w
    BY <1>1, Sent, Heard
  <1>4. w \in Seq(Messages)
    BY <1>1, Appended DEF BoardTypes, LinkTypes
  <1>5. Published("scores", f) = IF heard >= 1 THEN <<f>> ELSE <<>>
    BY <1>1, Sent, Heard
  <1> HIDE DEF w, f
  <1>6. wire' = IF heard >= 1 THEN Append(w, f) ELSE w
    BY <1>1, <1>2, <1>3, <1>4, <1>5, AppendIsConcat, ConcatEmptySeq
  <1> QED BY <1>1, <1>6 DEF w, f

LEMMA CourtSent ==
  ASSUME BoardTypes, CourtChange
  PROVE  wire' = IF heard >= 2 THEN Append(wire, CourtEvent(court + 1)) ELSE wire
  <1>1. CourtEvent(court + 1) \in Messages
    BY EventsAreMessages DEF BoardTypes, ServerTypes
  <1> QED BY <1>1, Sent, Heard DEF CourtChange

LEMMA ScoreSent ==
  ASSUME BoardTypes, ScoreChange
  PROVE  wire' = IF heard >= 1 THEN Append(wire, ScoreEvent(score + 1, pollRev + 1)) ELSE wire
  <1>1. ScoreEvent(score + 1, pollRev + 1) \in Messages
    BY EventsAreMessages DEF BoardTypes, ServerTypes
  <1> QED BY <1>1, Sent, Heard DEF ScoreChange

LEMMA StateSent ==
  ASSUME BoardTypes, Subscribed
  PROVE  \E e \in Messages :
           /\ wire' = Append(wire, e) /\ heard' = heard + 1 /\ heard' \in 1..4
           /\ heard' = 1 => e = ScoreEvent(score, pollRev)
           /\ heard' = 2 => e = CourtEvent(court)
           /\ heard' = 3 => e.type = "table" /\ e.table = "matches"
           /\ heard' = 4 => e.type = "table" /\ e.table = "players"
  <1> DEFINE topic == Topics[heard']
             e == CASE topic = "scores" -> ScoreEvent(score, pollRev)
                    [] topic = "courts" -> CourtEvent(court)
                    [] OTHER -> TableEvent(topic, tableRev[topic])
  <1>1. wire' = Append(wire, e) /\ heard' = heard + 1 /\ heard' \in 1..4
    BY DEF Subscribed, Topics, BoardTypes, LinkTypes
  <1>2. /\ heard' = 1 => topic = "scores"
        /\ heard' = 2 => topic = "courts"
        /\ heard' = 3 => topic = "matches"
        /\ heard' = 4 => topic = "players"
    BY DEF Topics
  <1> HIDE DEF topic
  <1>3. /\ heard' = 1 => e = ScoreEvent(score, pollRev)
        /\ heard' = 2 => e = CourtEvent(court)
        /\ heard' = 3 => e = TableEvent("matches", tableRev["matches"])
        /\ heard' = 4 => e = TableEvent("players", tableRev["players"])
    BY <1>2
  <1> HIDE DEF e
  <1>4. e \in Messages
    BY <1>1, <1>3, EventsAreMessages DEF BoardTypes, ServerTypes, Tables
  <1> QED BY <1>1, <1>3, <1>4 DEF TableEvent

LEMMA WireTypes ==
  ASSUME BoardTypes, ScoreboardNext
  PROVE  wire' \in Seq(Messages)
  <1>0. wire \in Seq(Messages)
    BY DEF BoardTypes, LinkTypes
  <1>1. CASE Reload("players")
    <2>1. PICK rev \in Nat : wire' = IF heard = 4 THEN Append(wire, TableEvent("players", rev)) ELSE wire
      BY <1>1, PlayersSent
    <2>2. TableEvent("players", rev) \in Messages
      BY EventsAreMessages DEF Tables
    <2> QED BY <1>0, <2>1, <2>2, Appended
  <1>2. CASE Reload("matches")
    <2>1. PICK rev \in Nat :
            LET w == IF heard >= 3 THEN Append(wire, TableEvent("matches", rev)) ELSE wire
            IN wire' = IF heard >= 1 THEN Append(w, ScoreEvent(score + 1, pollRev)) ELSE w
      BY <1>2, MatchesSent
    <2>2. TableEvent("matches", rev) \in Messages /\ ScoreEvent(score + 1, pollRev) \in Messages
      BY EventsAreMessages DEF Tables, BoardTypes, ServerTypes
    <2> QED BY <1>0, <2>1, <2>2, Appended
  <1>3. CASE CourtChange
    <2>1. CourtEvent(court + 1) \in Messages
      BY EventsAreMessages DEF BoardTypes, ServerTypes
    <2> QED BY <1>0, <1>3, <2>1, CourtSent, Appended
  <1>4. CASE ScoreChange
    <2>1. ScoreEvent(score + 1, pollRev + 1) \in Messages
      BY EventsAreMessages DEF BoardTypes, ServerTypes
    <2> QED BY <1>0, <1>4, <2>1, ScoreSent, Appended
  <1>5. CASE Subscribed
    BY <1>0, <1>5, StateSent, Appended
  <1>6. CASE AnswerSnapshot
    <2>1. \A type \in {"error", "malformed"} : [type |-> type] \in Messages
      BY DEF Messages
    <2> QED BY <1>0, <1>6, <2>1, SnapshotIsMessage, Appended DEF AnswerSnapshot
  <1>7. CASE Hear \/ Answered
    BY <1>0, <1>7, Taken DEF Hear, Answered
  <1>8. CASE Disconnect \/ ServerRestarts
    <2>1. wire' = <<>>
      BY <1>8 DEF Disconnect, ServerRestarts, Cut
    <2> QED BY <2>1
  <1> QED BY <1>0, <1>1, <1>2, <1>3, <1>4, <1>5, <1>6, <1>7, <1>8
      DEF ScoreboardNext, Tables, PeopleChange, ReadPlayers, drainSnapshots, RetryDue, refreshAfterResume,
          SendRequest, StillDown, GivenUp, Connect

LEMMA LinkTypesPreserved == ASSUME BoardTypes, ScoreboardNext PROVE LinkTypes'
  <1>1. wire' \in Seq(Messages)
    BY WireTypes
  <1>2. heard' \in 0..4
    <2>1. CASE Subscribed
      BY <2>1 DEF BoardTypes, LinkTypes, Subscribed, Topics
    <2>2. CASE Disconnect \/ ServerRestarts
      BY <2>2 DEF Disconnect, ServerRestarts, Cut
    <2>3. CASE heard' = heard
      BY <2>3 DEF BoardTypes, LinkTypes
    <2> QED
    BY <2>1, <2>2, <2>3 DEF ScoreboardNext, PeopleChange, Reload, CourtChange, ScoreChange, ReadPlayers,
                                 AnswerSnapshot, drainSnapshots, RetryDue, refreshAfterResume, SendRequest,
           Hear, Answered, StillDown, GivenUp, Connect
  <1>3. ask' \in {"none", "waiting", "sent", "reading", "answered"}
    <2>1. ASSUME NEW m, Settled(m) PROVE ask' \in {"none", "waiting"}
      BY <2>1 DEF Settled, Rendered, Outrun, Begin, Caught
    <2> QED
    BY <2>1 DEF BoardTypes, LinkTypes, ScoreboardNext, PeopleChange, Reload, CourtChange, ScoreChange, Subscribed,
           ReadPlayers, AnswerSnapshot, drainSnapshots, Begin, RetryDue, refreshAfterResume, SendRequest,
           Hear, Answered, Disconnect, ServerRestarts, Cut, StillDown, GivenUp, Connect
  <1>4. read' \in Nat
    BY DEF BoardTypes, LinkTypes, ServerTypes, ScoreboardNext, PeopleChange, Reload, CourtChange, ScoreChange,
           Subscribed, ReadPlayers,
                                 AnswerSnapshot, drainSnapshots, RetryDue, refreshAfterResume, SendRequest,
           Hear, Answered, Disconnect, ServerRestarts, Cut, StillDown, GivenUp, Connect
  <1> QED BY <1>1, <1>2, <1>3, <1>4 DEF LinkTypes

LEMMA ServerTypesPreserved == ASSUME BoardTypes, ScoreboardNext PROVE ServerTypes'
  <1> USE DEF BoardTypes, ServerTypes, serverVars
  <1>1. ASSUME NEW t \in Tables, Reload(t) PROVE ServerTypes'
    BY <1>1 DEF Reload
  <1>2. CASE ServerRestarts
    BY <1>2 DEF ServerRestarts
  <1>3. CASE PeopleChange
    BY <1>3 DEF PeopleChange
  <1>4. CASE CourtChange \/ ScoreChange
    BY <1>4 DEF CourtChange, ScoreChange
  <1>5. CASE Subscribed \/ ReadPlayers \/ AnswerSnapshot \/ drainSnapshots \/ RetryDue
    BY <1>5 DEF Subscribed, ReadPlayers, AnswerSnapshot, drainSnapshots, RetryDue
  <1>6. CASE refreshAfterResume \/ SendRequest \/ Hear \/ Answered
    BY <1>6 DEF refreshAfterResume, SendRequest, Hear, Answered
  <1>7. CASE Disconnect \/ StillDown \/ GivenUp \/ Connect
    BY <1>7 DEF Disconnect, StillDown, GivenUp, Connect
  <1> QED BY <1>1, <1>2, <1>3, <1>4, <1>5, <1>6, <1>7 DEF ScoreboardNext

LEMMA PageTypesPreserved == ASSUME BoardTypes, ScoreboardNext PROVE PageTypes'
  <1> USE DEF BoardTypes, PageTypes
  <1>1. ASSUME queueSnapshot, UNCHANGED <<linked, drawn, failed, courtMoved, scoreMoved, lastCourt, lastScore, seen,
                                          required, board>>
        PROVE  PageTypes'
    <2>1. CASE failed
      BY <1>1, <2>1 DEF queueSnapshot, timers
    <2>2. CASE ~failed
      <3>1. timer' \in BOOLEAN /\ retry' \in BOOLEAN /\ flying' \in BOOLEAN
        BY <1>1, <2>2 DEF queueSnapshot
      <3>2. queued' \in BOOLEAN /\ superseded' \in BOOLEAN /\ synced' \in BOOLEAN
        BY <1>1, <2>2 DEF queueSnapshot
      <3> QED BY <1>1, <3>1, <3>2
    <2> QED BY <2>1, <2>2
  <1>2. CASE Hear
    <2> DEFINE m == Head(wire)
    <2>0. m \in Messages /\ UNCHANGED <<linked, drawn, failed>>
      BY <1>2, Taken DEF Hear, LinkTypes
    <2>1. CASE m.type = "score" /\ handleScoreEvent(m) /\ UNCHANGED <<timers, synced, required>>
      <3>1. m \in ScoreEvents
        BY <2>0, <2>1 DEF Messages, CourtEvents, TableEvents, Snapshots, ScoreEvents
      <3> HIDE DEF m
      <3>2. m.value \in Nat /\ m.rev \in Nat
        BY <3>1 DEF ScoreEvents
      <3>3. CASE UNCHANGED <<events, board>>
        BY <2>0, <2>1, <3>3 DEF timers, events
      <3>4. CASE /\ scoreMoved' = TRUE /\ lastScore' = m /\ UNCHANGED <<courtMoved, lastCourt>>
                 /\ seen' = IF drawn THEN m.rev + 1 ELSE seen
                 /\ board' = IF drawn THEN [board EXCEPT !.score = m.value] ELSE board
        <4>1. board' \in [players : Nat, matches : Nat, court : Nat, score : Nat] /\ seen' \in Nat
          BY <3>2, <3>4
        <4> QED BY <2>0, <2>1, <3>1, <3>4, <4>1 DEF timers
      <3> QED BY <2>1, <3>3, <3>4 DEF handleScoreEvent
    <2>2. CASE m.type = "court" /\ handleScoreboardStateEvent(m) /\ UNCHANGED <<timers, synced, required>>
      <3>1. m \in CourtEvents
        BY <2>0, <2>2 DEF Messages, CourtEvents, TableEvents, Snapshots, ScoreEvents
      <3> HIDE DEF m
      <3>2. m.value \in Nat
        BY <3>1 DEF CourtEvents
      <3>3. board' \in [players : Nat, matches : Nat, court : Nat, score : Nat]
        BY <2>2, <3>2 DEF handleScoreboardStateEvent
      <3> QED BY <2>0, <2>2, <3>1, <3>3 DEF handleScoreboardStateEvent, timers
    <2>3. CASE m.type = "table" /\ handleTableInvalidation(m) /\ UNCHANGED <<events, board>>
      <3>1. m \in TableEvents
        BY <2>0, <2>3 DEF Messages, CourtEvents, TableEvents, Snapshots, ScoreEvents
      <3> HIDE DEF m
      <3>2. required' \in [Tables -> Nat]
        BY <2>3, <3>1 DEF handleTableInvalidation, TableEvents
      <3>3. synced' \in BOOLEAN /\ timer' \in BOOLEAN /\ retry' \in BOOLEAN /\ flying' \in BOOLEAN
            /\ queued' \in BOOLEAN /\ superseded' \in BOOLEAN
        BY <2>3 DEF handleTableInvalidation, queueSnapshot, timers
      <3> QED BY <2>0, <2>3, <3>2, <3>3 DEF events
    <2> QED BY <1>2, <2>1, <2>2, <2>3 DEF Hear
  <1>3. ASSUME NEW m \in Messages, Settled(m), UNCHANGED linked PROVE PageTypes'
    <2>1. CASE Rendered(m)
      <3>1. m \in Snapshots
        BY <2>1 DEF Rendered, Messages, CourtEvents, TableEvents, Snapshots, ScoreEvents
      <3> DEFINE scores == selectScoreData(m)
      <3>2. scores.value \in Nat /\ scores.rev \in Nat
        BY <3>1 DEF selectScoreData, Snapshots, ScoreEvents
      <3>3. CourtShown(m) \in Nat
        BY <3>1 DEF CourtShown, Snapshots, CourtEvents
      <3> HIDE DEF scores
      <3>4. renderSnapshot(m)
              <=> /\ board' = [players |-> m.players, matches |-> m.matches, court |-> CourtShown(m),
                               score |-> IF ScoreApplies(scores.rev) THEN scores.value ELSE board.score]
                  /\ seen' = IF ScoreApplies(scores.rev) THEN scores.rev + 1 ELSE seen
                  /\ drawn' = TRUE /\ synced' = linked
        BY DEF renderSnapshot, scores
      <3>5. board.score \in Nat /\ (IF ScoreApplies(scores.rev) THEN scores.value ELSE board.score) \in Nat
        BY <3>2
      <3>6. board' \in [players : Nat, matches : Nat, court : Nat, score : Nat]
        BY <2>1, <3>1, <3>3, <3>4, <3>5 DEF Rendered, Snapshots
      <3>7. seen' \in Nat /\ drawn' \in BOOLEAN /\ synced' \in BOOLEAN
        BY <2>1, <3>2, <3>4 DEF Rendered
      <3> QED BY <1>3, <2>1, <3>6, <3>7 DEF Rendered
    <2>2. CASE Outrun(m)
      BY <1>3, <2>2 DEF Outrun, Begin
    <2>3. CASE Caught(m)
      BY <1>3, <2>3 DEF Caught, events
    <2> QED BY <1>3, <2>1, <2>2, <2>3 DEF Settled
  <1>4. CASE Answered
    <2>1. Head(wire) \in Messages
      BY <1>4, Taken DEF Answered, LinkTypes
    <2> QED BY <1>3, <1>4, <2>1 DEF Answered
  <1>5. CASE GivenUp
    <2>1. [type |-> "error"] \in Messages
      BY DEF Messages
    <2> QED BY <1>3, <1>5, <2>1 DEF GivenUp
  <1>6. CASE Connect
    <2>1. required' \in [Tables -> Nat]
      BY <1>6 DEF Connect
    <2>2. queueSnapshot
      BY <1>6 DEF Connect
    <2>3. synced' \in BOOLEAN /\ timer' \in BOOLEAN /\ retry' \in BOOLEAN /\ flying' \in BOOLEAN
          /\ queued' \in BOOLEAN /\ superseded' \in BOOLEAN
      BY <2>2 DEF queueSnapshot, timers
    <2> QED BY <1>6, <2>1, <2>3 DEF Connect
  <1>7. CASE RetryDue \/ refreshAfterResume
    BY <1>1, <1>7 DEF RetryDue, refreshAfterResume, events
  <1>8. CASE drainSnapshots
    BY <1>8 DEF drainSnapshots, Begin
  <1>9. CASE Disconnect \/ ServerRestarts \/ StillDown
    BY <1>9 DEF Disconnect, ServerRestarts, Cut, StillDown, NotLinked, events
  <1>10. CASE UNCHANGED <<linked, pageVars>>
    BY <1>10 DEF pageVars, timers, events
  <1> QED BY <1>2, <1>4, <1>5, <1>6, <1>7, <1>8, <1>9, <1>10
      DEF ScoreboardNext, PeopleChange, Reload, CourtChange, ScoreChange, Subscribed,
          ReadPlayers, AnswerSnapshot, SendRequest

LEMMA BoardTypesPreserved == ASSUME BoardTypes, ScoreboardNext PROVE BoardTypes'
  BY ServerTypesPreserved, PageTypesPreserved, LinkTypesPreserved DEF BoardTypes

-----------------------------------------------------------------------------
LEMMA AskingPreserved ==
  ASSUME BoardTypes, Asking, Linking, KeepsTrying, ScoreboardNext
  PROVE  Asking' /\ KeepsTrying'
  <1> USE DEF BoardTypes, PageTypes, LinkTypes, Asking, KeepsTrying
  <1>1. ASSUME queueSnapshot, UNCHANGED <<linked, drawn, failed, ask>> PROVE Asking' /\ KeepsTrying'
    BY <1>1 DEF queueSnapshot, timers
  <1>2. CASE Hear
    <2>1. UNCHANGED <<linked, drawn, failed, ask>>
      BY <1>2 DEF Hear
    <2>2. CASE UNCHANGED <<timers, synced>>
      BY <2>1, <2>2 DEF timers
    <2>3. CASE queueSnapshot
      BY <1>1, <2>1, <2>3
    <2> QED BY <1>2, <2>2, <2>3 DEF Hear, handleTableInvalidation
  <1>3. ASSUME NEW m, Settled(m), UNCHANGED linked, ask \in {"answered", "waiting"}, ask = "waiting" => ~linked
        PROVE  Asking' /\ KeepsTrying'
    <2>1. CASE Rendered(m)
      <3>1. drawn' = TRUE /\ synced' = linked
        BY <2>1 DEF Rendered, renderSnapshot
      <3> QED BY <1>3, <2>1, <3>1 DEF Rendered
    <2>2. CASE Outrun(m)
      BY <1>3, <2>2 DEF Outrun, Begin
    <2>3. CASE Caught(m)
      BY <1>3, <2>3 DEF Caught, events
    <2> QED BY <1>3, <2>1, <2>2, <2>3 DEF Settled
  <1>4. CASE Answered
    BY <1>3, <1>4 DEF Answered
  <1>5. CASE GivenUp
    BY <1>3, <1>5 DEF GivenUp
  <1>6. CASE Connect
    BY <1>6 DEF Connect, queueSnapshot, timers, Linking
  <1>7. CASE RetryDue \/ refreshAfterResume
    BY <1>1, <1>7 DEF RetryDue, refreshAfterResume
  <1>8. CASE drainSnapshots
    BY <1>8 DEF drainSnapshots, Begin
  <1>9. CASE Disconnect \/ ServerRestarts \/ StillDown
    BY <1>9 DEF Disconnect, ServerRestarts, Cut, StillDown, NotLinked
  <1>10. CASE UNCHANGED <<linked, pageVars>> /\ (ask' # "none" <=> ask # "none")
    BY <1>10 DEF pageVars, timers
  <1> QED BY <1>2, <1>4, <1>5, <1>6, <1>7, <1>8, <1>9, <1>10
      DEF ScoreboardNext, PeopleChange, Reload, CourtChange, ScoreChange, Subscribed,
          ReadPlayers, AnswerSnapshot, SendRequest

LEMMA AppendedAnswers ==
  ASSUME NEW w \in Seq(Messages), NEW e \in Messages
  PROVE  /\ e.type \notin Answers /\ OneAnswer(w) => OneAnswer(Append(w, e))
         /\ e.type \notin Answers /\ NoAnswer(w) => NoAnswer(Append(w, e))
         /\ NoAnswer(w) => OneAnswer(Append(w, e))
  <1> DEFINE v == Append(w, e)
  <1>1. /\ Len(w) \in Nat /\ DOMAIN w = 1..Len(w) /\ DOMAIN v = 1..(Len(w) + 1)
        /\ v[Len(w) + 1] = e /\ \A n \in DOMAIN w : v[n] = w[n]
    BY Appended
  <1> HIDE DEF v
  <1>2. /\ e.type \notin Answers /\ OneAnswer(w) => OneAnswer(v)
        /\ e.type \notin Answers /\ NoAnswer(w) => NoAnswer(v)
        /\ NoAnswer(w) => OneAnswer(v)
    BY <1>1 DEF OneAnswer, NoAnswer
  <1> QED BY <1>2 DEF v

LEMMA TakenAnswers ==
  ASSUME NEW w \in Seq(Messages), w # <<>>
  PROVE  /\ OneAnswer(w) => OneAnswer(Tail(w)) /\ (Head(w).type \in Answers => NoAnswer(Tail(w)))
         /\ NoAnswer(w) => NoAnswer(Tail(w))
  <1> DEFINE v == Tail(w)
             h == Head(w)
  <1>1. /\ Len(w) \in Nat /\ Len(w) > 0 /\ DOMAIN w = 1..Len(w) /\ DOMAIN v = 1..(Len(w) - 1)
        /\ h = w[1] /\ \A n \in DOMAIN v : v[n] = w[n + 1] /\ n + 1 \in DOMAIN w
    BY Taken
  <1> HIDE DEF v, h
  <1>2. OneAnswer(w) => OneAnswer(v)
    BY <1>1 DEF OneAnswer
  <1>3. OneAnswer(w) /\ h.type \in Answers => NoAnswer(v)
    <2> SUFFICES ASSUME OneAnswer(w), h.type \in Answers, NEW n \in DOMAIN v, v[n].type \in Answers PROVE FALSE
      BY DEF NoAnswer
    <2>1. 1 \in DOMAIN w /\ n + 1 \in DOMAIN w /\ w[1].type \in Answers /\ w[n + 1].type \in Answers
      BY <1>1
    <2>2. n + 1 = 1
      BY <2>1 DEF OneAnswer
    <2> QED BY <1>1, <2>2
  <1>4. NoAnswer(w) => NoAnswer(v)
    BY <1>1 DEF NoAnswer
  <1> QED BY <1>2, <1>3, <1>4 DEF v, h

LEMMA EventsAreNoAnswers ==
  /\ \A value, rev : ScoreEvent(value, rev).type = "score"
  /\ \A value : CourtEvent(value).type = "court"
  /\ \A t, rev : TableEvent(t, rev).type = "table" /\ TableEvent(t, rev).table = t
  /\ Answers \cap {"score", "court", "table"} = {}
  BY DEF ScoreEvent, CourtEvent, TableEvent, Answers

LEMMA LinkingPreserved ==
  ASSUME BoardTypes, Asking, Linking, ScoreboardNext
  PROVE  Linking'
  <1> USE EventsAreNoAnswers DEF Linking
  <1>0. wire \in Seq(Messages) /\ heard \in 0..4
    BY DEF BoardTypes, LinkTypes
  <1>1. SUFFICES /\ ~linked' => wire' = <<>> /\ heard' = 0 /\ ask' \in {"none", "waiting"}
                 /\ OneAnswer(wire') /\ (ask' # "answered" => NoAnswer(wire'))
    BY DEF OneAnswer, NoAnswer
  <1>2. CASE Reload("players")
    <2>1. PICK rev \in Nat : wire' = IF heard = 4 THEN Append(wire, TableEvent("players", rev)) ELSE wire
      BY <1>2, PlayersSent
    <2>2. TableEvent("players", rev) \in Messages
      BY EventsAreMessages DEF Tables
    <2>3. OneAnswer(wire') /\ (ask # "answered" => NoAnswer(wire'))
      BY <1>0, <2>1, <2>2, AppendedAnswers
    <2>4. UNCHANGED <<linked, heard, ask>>
      BY <1>2 DEF Reload
    <2> QED BY <2>1, <2>3, <2>4
  <1>3. CASE Reload("matches")
    <2>1. PICK rev \in Nat :
            LET w == IF heard >= 3 THEN Append(wire, TableEvent("matches", rev)) ELSE wire
            IN wire' = IF heard >= 1 THEN Append(w, ScoreEvent(score + 1, pollRev)) ELSE w
      BY <1>3, MatchesSent
    <2> DEFINE w == IF heard >= 3 THEN Append(wire, TableEvent("matches", rev)) ELSE wire
    <2>2. TableEvent("matches", rev) \in Messages /\ ScoreEvent(score + 1, pollRev) \in Messages
      BY EventsAreMessages DEF Tables, BoardTypes, ServerTypes
    <2>3. w \in Seq(Messages) /\ OneAnswer(w) /\ (ask # "answered" => NoAnswer(w))
      BY <1>0, <2>2, Appended, AppendedAnswers
    <2>4. wire' = IF heard >= 1 THEN Append(w, ScoreEvent(score + 1, pollRev)) ELSE w
      BY <2>1
    <2>5. heard = 0 => w = wire
      OBVIOUS
    <2> HIDE DEF w
    <2>6. OneAnswer(wire') /\ (ask # "answered" => NoAnswer(wire'))
      BY <2>2, <2>3, <2>4, AppendedAnswers
    <2>7. UNCHANGED <<linked, heard, ask>>
      BY <1>3 DEF Reload
    <2> QED BY <1>0, <2>4, <2>5, <2>6, <2>7
  <1>4. CASE CourtChange
    <2>1. CourtEvent(court + 1) \in Messages /\ CourtEvent(court + 1).type \notin Answers
      BY EventsAreMessages DEF BoardTypes, ServerTypes
    <2>2. wire' = wire \/ wire' = Append(wire, CourtEvent(court + 1))
      BY <1>0, <1>4, CourtSent
    <2>3. heard = 0 => wire' = wire
      BY <1>4, CourtSent
    <2>4. OneAnswer(wire') /\ (ask # "answered" => NoAnswer(wire'))
      BY <1>0, <2>1, <2>2, AppendedAnswers
    <2>5. UNCHANGED <<linked, heard, ask>>
      BY <1>4 DEF CourtChange
    <2> QED BY <2>3, <2>4, <2>5
  <1>5. CASE ScoreChange
    <2>1. /\ ScoreEvent(score + 1, pollRev + 1) \in Messages
          /\ ScoreEvent(score + 1, pollRev + 1).type \notin Answers
      BY EventsAreMessages DEF BoardTypes, ServerTypes
    <2>2. wire' = wire \/ wire' = Append(wire, ScoreEvent(score + 1, pollRev + 1))
      BY <1>0, <1>5, ScoreSent
    <2>3. heard = 0 => wire' = wire
      BY <1>5, ScoreSent
    <2>4. OneAnswer(wire') /\ (ask # "answered" => NoAnswer(wire'))
      BY <1>0, <2>1, <2>2, AppendedAnswers
    <2>5. UNCHANGED <<linked, heard, ask>>
      BY <1>5 DEF ScoreChange
    <2> QED BY <2>3, <2>4, <2>5
  <1>6. CASE Subscribed
    <2>1. PICK e \in Messages :
           /\ wire' = Append(wire, e) /\ heard' = heard + 1 /\ heard' \in 1..4
           /\ heard' = 1 => e = ScoreEvent(score, pollRev)
           /\ heard' = 2 => e = CourtEvent(court)
           /\ heard' = 3 => e.type = "table" /\ e.table = "matches"
           /\ heard' = 4 => e.type = "table" /\ e.table = "players"
      BY <1>6, StateSent
    <2>2. e.type \in {"score", "court", "table"}
      BY <2>1
    <2> QED BY <1>0, <1>6, <2>1, <2>2, AppendedAnswers DEF Subscribed
  <1>7. CASE AnswerSnapshot
    <2>1. \A type \in {"error", "malformed"} : [type |-> type] \in Messages
      BY DEF Messages
    <2>2. ask = "reading" /\ ask' = "answered" /\ UNCHANGED linked
          /\ \E e \in Messages : wire' = Append(wire, e)
      BY <1>7, <2>1, SnapshotIsMessage DEF AnswerSnapshot
    <2> QED BY <1>0, <2>2, AppendedAnswers
  <1>8. CASE Hear
    <2>1. UNCHANGED <<linked, heard, ask>> /\ wire' = Tail(wire) /\ wire # <<>>
      BY <1>8 DEF Hear
    <2> QED BY <1>0, <2>1, TakenAnswers
  <1>9. CASE Answered
    <2>1. UNCHANGED <<linked, heard>> /\ wire' = Tail(wire) /\ wire # <<>> /\ Head(wire).type \in Answers
      BY <1>9 DEF Answered
    <2> QED BY <1>0, <2>1, TakenAnswers
  <1>10. CASE Disconnect \/ ServerRestarts
    <2>1. linked' = FALSE /\ wire' = <<>> /\ heard' = 0 /\ ask' \in {"none", "waiting"}
      BY <1>10 DEF Disconnect, ServerRestarts, Cut
    <2>2. OneAnswer(<<>>) /\ NoAnswer(<<>>)
      BY DEF OneAnswer, NoAnswer
    <2> QED BY <2>1, <2>2
  <1>11. CASE GivenUp
    <2>1. ask' \in {"none", "waiting"}
      BY <1>11 DEF GivenUp, Settled, Rendered, Outrun, Begin, Caught
    <2> QED BY <1>11, <2>1 DEF GivenUp
  <1>12. CASE \/ PeopleChange \/ ReadPlayers \/ drainSnapshots \/ RetryDue \/ refreshAfterResume
              \/ SendRequest \/ StillDown \/ Connect
    <2>1. wire' = wire /\ heard' = heard
      BY <1>12 DEF PeopleChange, ReadPlayers, drainSnapshots, RetryDue, refreshAfterResume, SendRequest,
                   StillDown, Connect
    <2>2. ask' = ask \/ (ask # "answered" /\ (linked' \/ ask' \in {"none", "waiting"}))
      <3>1. CASE drainSnapshots
        BY <1>12, <3>1 DEF drainSnapshots, Begin, Asking
      <3> QED BY <1>12, <3>1 DEF PeopleChange, ReadPlayers, RetryDue, refreshAfterResume, SendRequest, StillDown, Connect
    <2>3. linked' \/ linked' = linked
      BY <1>12 DEF PeopleChange, ReadPlayers, drainSnapshots, RetryDue, refreshAfterResume, SendRequest,
                   StillDown, Connect
    <2> QED BY <2>1, <2>2, <2>3
  <1> QED BY <1>2, <1>3, <1>4, <1>5, <1>6, <1>7, <1>8, <1>9, <1>10, <1>11, <1>12
      DEF ScoreboardNext, Tables

-----------------------------------------------------------------------------
LEMMA AppendedTold ==
  ASSUME NEW w \in Seq(Messages), NEW f \in Messages
  PROVE  /\ f.type # "snapshot" => SnapshotsTell(Append(w, f), f)
         /\ \A e : SnapshotsTell(w, e) /\ f.type # e.type /\ (f.type = "snapshot" => Says(f, e.type) = e)
                     => SnapshotsTell(Append(w, f), e)
  <1> DEFINE v == Append(w, f)
  <1>1. /\ Len(w) \in Nat /\ DOMAIN w = 1..Len(w) /\ DOMAIN v = 1..(Len(w) + 1)
        /\ v[Len(w) + 1] = f /\ \A n \in DOMAIN w : v[n] = w[n]
    BY Appended
  <1>2. /\ \A n \in DOMAIN w : FollowedIn(v, n, f.type)
        /\ \A n \in DOMAIN w : \A type : FollowedIn(w, n, type) => FollowedIn(v, n, type)
    BY AppendedLast
  <1> HIDE DEF v
  <1>3. f.type # "snapshot" => SnapshotsTell(v, f)
    BY <1>1, <1>2 DEF SnapshotsTell
  <1>4. ASSUME NEW e, SnapshotsTell(w, e), f.type # e.type, f.type = "snapshot" => Says(f, e.type) = e
        PROVE  SnapshotsTell(v, e)
    <2> SUFFICES ASSUME NEW n \in DOMAIN v, v[n].type = "snapshot"
                 PROVE  Says(v[n], e.type) = e \/ FollowedIn(v, n, e.type)
      BY DEF SnapshotsTell
    <2>1. CASE n \in DOMAIN w
      BY <1>1, <1>2, <1>4, <2>1 DEF SnapshotsTell
    <2>2. CASE n = Len(w) + 1
      BY <1>1, <1>4, <2>2
    <2> QED BY <1>1, <2>1, <2>2
  <1> QED BY <1>3, <1>4 DEF v

LEMMA TakenTold ==
  ASSUME NEW w \in Seq(Messages), w # <<>>
  PROVE  \A e : SnapshotsTell(w, e) => /\ SnapshotsTell(Tail(w), e)
                                       /\ Head(w).type = "snapshot" /\ NoneIn(w, e.type) => Says(Head(w), e.type) = e
  <1> SUFFICES ASSUME NEW e, SnapshotsTell(w, e)
               PROVE  /\ SnapshotsTell(Tail(w), e)
                      /\ Head(w).type = "snapshot" /\ NoneIn(w, e.type) => Says(Head(w), e.type) = e
    OBVIOUS
  <1> DEFINE v == Tail(w)
             h == Head(w)
  <1>1. /\ Len(w) \in Nat /\ Len(w) > 0 /\ DOMAIN w = 1..Len(w) /\ DOMAIN v = 1..(Len(w) - 1)
        /\ h = w[1] /\ \A n \in DOMAIN v : v[n] = w[n + 1] /\ n + 1 \in DOMAIN w
    BY Taken
  <1>2. \A n \in DOMAIN v : \A type : FollowedIn(w, n + 1, type) => FollowedIn(v, n, type)
    BY TakenLast
  <1> HIDE DEF v, h
  <1>3. SnapshotsTell(v, e)
    BY <1>1, <1>2 DEF SnapshotsTell
  <1>4. h.type = "snapshot" /\ NoneIn(w, e.type) => Says(h, e.type) = e
    BY <1>1 DEF SnapshotsTell, NoneIn, FollowedIn
  <1> QED BY <1>3, <1>4 DEF v, h

LEMMA ScoresKept ==
  ASSUME BoardTypes, ScoresTold, NEW f \in Messages, wire' = Append(wire, f), f.type # "score",
         f.type = "snapshot" => Says(f, "score") = ScoreEvent(score, pollRev),
         UNCHANGED <<score, pollRev, lastScore, drawn, board>>, heard' >= 1 => heard >= 1
  PROVE  ScoresTold'
  <1> DEFINE e == ScoreEvent(score, pollRev)
  <1>1. e.type = "score"
    BY EventsAreNoAnswers
  <1>2. e' = e
    BY DEF ScoreEvent
  <1> HIDE DEF e
  <1>3. ScoresTold = (heard >= 1 =>
          /\ SnapshotsTell(wire, e)
          /\ LastIn(wire, e) \/ (NoneIn(wire, "score") /\ lastScore = e /\ (drawn => board.score = score)))
    BY DEF ScoresTold, e
  <1>4. ScoresTold' = (heard' >= 1 =>
          /\ SnapshotsTell(wire', e')
          /\ LastIn(wire', e') \/ (NoneIn(wire', "score") /\ lastScore' = e' /\ (drawn' => board'.score = score')))
    BY DEF ScoresTold, e, SnapshotsTell, LastIn, NoneIn, FollowedIn
  <1>5. wire \in Seq(Messages)
    BY DEF BoardTypes, LinkTypes
  <1>6. SnapshotsTell(wire, e) => SnapshotsTell(wire', e)
    BY <1>1, <1>5, AppendedTold DEF e
  <1>7. /\ LastIn(wire, e) => LastIn(wire', e)
        /\ NoneIn(wire, "score") => NoneIn(wire', "score")
    BY <1>1, <1>5, AppendedLast
  <1> QED BY <1>2, <1>3, <1>4, <1>6, <1>7

\* A message with the present score, appended to whatever there is, leaves nothing untold.
LEMMA ScoresAdded ==
  ASSUME NEW w \in Seq(Messages), ScoreEvent(score', pollRev') \in Messages,
         wire' = Append(w, ScoreEvent(score', pollRev'))
  PROVE  ScoresTold'
  <1> DEFINE e == ScoreEvent(score', pollRev')
  <1>1. e.type = "score"
    BY EventsAreNoAnswers
  <1>2. SnapshotsTell(wire', e) /\ LastIn(wire', e)
    BY <1>1, AppendedTold, AppendedLast
  <1> QED BY <1>2 DEF ScoresTold, SnapshotsTell, LastIn, NoneIn, FollowedIn, ScoreEvent

LEMMA ScoresHeard ==
  ASSUME BoardTypes, Linking, ScoresTold, ScoresInOrder, Hear
  PROVE  ScoresTold'
  <1> DEFINE e == ScoreEvent(score, pollRev)
             m == Head(wire)
             arrived == lastScore = e /\ (drawn => board.score = score)
  <1>0. wire \in Seq(Messages) /\ wire # <<>> /\ wire' = Tail(wire) /\ m \in Messages /\ linked
        /\ UNCHANGED <<score, pollRev, drawn, heard>>
    BY Taken DEF BoardTypes, LinkTypes, Hear, Linking, serverVars
  <1>1. e.type = "score" /\ e' = e
    BY <1>0, EventsAreNoAnswers DEF ScoreEvent
  <1>2. SUFFICES ASSUME heard >= 1
                 PROVE  SnapshotsTell(Tail(wire), e) /\ (LastIn(Tail(wire), e) \/ (NoneIn(Tail(wire), "score") /\ arrived'))
    BY <1>0, <1>1 DEF ScoresTold, SnapshotsTell, LastIn, NoneIn, FollowedIn
  <1>3. SnapshotsTell(wire, e) /\ (LastIn(wire, e) \/ (NoneIn(wire, "score") /\ arrived))
    BY <1>2 DEF ScoresTold
  <1>4. SnapshotsTell(Tail(wire), e)
    BY <1>0, <1>3, TakenTold
  <1>5. CASE m.type = "score" /\ handleScoreEvent(m)
    <2>1. ~NoneIn(wire, "score")
      BY <1>0, <1>5, TakenLast
    <2>2. LastIn(Tail(wire), e) \/ (NoneIn(Tail(wire), "score") /\ m = e)
      BY <1>0, <1>1, <1>3, <2>1, TakenLast
    <2>3. m = e => arrived'
      <3> SUFFICES ASSUME m = e PROVE arrived'
        OBVIOUS
      <3>1. m.rev = pollRev /\ m.value = score
        BY DEF ScoreEvent
      <3>2. ~((lastScore # Missing /\ m.rev < lastScore.rev) \/ ~ScoreApplies(m.rev))
        BY <1>0, <3>1 DEF ScoresInOrder, ScoreApplies, BoardTypes, ServerTypes, PageTypes, ScoreEvents
      <3> HIDE DEF m, e
      <3>3. lastScore' = m /\ board' = IF drawn THEN [board EXCEPT !.score = m.value] ELSE board
        BY <1>5, <3>2 DEF handleScoreEvent
      <3>4. drawn => board'.score = score
        BY <3>1, <3>3 DEF BoardTypes, PageTypes
      <3> QED BY <1>0, <1>1, <3>3, <3>4
    <2> QED BY <1>4, <2>2, <2>3
  <1>6. CASE UNCHANGED lastScore /\ (drawn => board'.score = board.score) /\ m.type # "score"
    <2>1. arrived => arrived'
      BY <1>0, <1>1, <1>6
    <2>2. LastIn(wire, e) => LastIn(Tail(wire), e)
      BY <1>0, <1>1, <1>6, TakenLast
    <2>3. NoneIn(wire, "score") => NoneIn(Tail(wire), "score")
      BY <1>0, TakenLast
    <2> QED BY <1>3, <1>4, <2>1, <2>2, <2>3
  <1>7. CASE m.type = "court" /\ handleScoreboardStateEvent(m)
    <2>1. UNCHANGED lastScore /\ (drawn => board'.score = board.score)
      BY <1>7 DEF handleScoreboardStateEvent, BoardTypes, PageTypes
    <2> QED BY <1>6, <1>7, <2>1
  <1>8. CASE m.type = "table" /\ UNCHANGED <<events, board>>
    BY <1>6, <1>8 DEF events
  <1> QED BY <1>5, <1>7, <1>8 DEF Hear

LEMMA ScoresAnswered ==
  ASSUME BoardTypes, Linking, ScoresTold, ScoresInOrder, Answered
  PROVE  ScoresTold'
  <1> DEFINE e == ScoreEvent(score, pollRev)
             m == Head(wire)
             arrived == lastScore = e /\ (drawn => board.score = score)
  <1>0. wire \in Seq(Messages) /\ wire # <<>> /\ wire' = Tail(wire) /\ m \in Messages /\ linked
        /\ UNCHANGED <<score, pollRev, heard>> /\ m.type \in Answers /\ Settled(m)
    BY Taken DEF BoardTypes, LinkTypes, Answered, Linking, serverVars
  <1>1. e.type = "score" /\ e' = e /\ m.type # "score"
    BY <1>0, EventsAreNoAnswers DEF ScoreEvent
  <1>2. SUFFICES ASSUME heard >= 1
                 PROVE  SnapshotsTell(Tail(wire), e) /\ (LastIn(Tail(wire), e) \/ (NoneIn(Tail(wire), "score") /\ arrived'))
    BY <1>0, <1>1 DEF ScoresTold, SnapshotsTell, LastIn, NoneIn, FollowedIn
  <1>3. SnapshotsTell(wire, e) /\ (LastIn(wire, e) \/ (NoneIn(wire, "score") /\ arrived))
    BY <1>2 DEF ScoresTold
  <1>4. SnapshotsTell(Tail(wire), e)
    BY <1>0, <1>3, TakenTold
  <1>5. LastIn(wire, e) => LastIn(Tail(wire), e)
    BY <1>0, <1>1, TakenLast
  <1>6. NoneIn(wire, "score") => NoneIn(Tail(wire), "score")
    BY <1>0, TakenLast
  <1>7. ASSUME NoneIn(wire, "score"), arrived PROVE arrived'
    <2>1. CASE Rendered(m)
      <3> DEFINE scores == selectScoreData(m)
      <3>1. m.type = "snapshot" /\ renderSnapshot(m) /\ UNCHANGED lastScore
        BY <2>1 DEF Rendered
      <3>2. Says(m, "score") = e
        BY <1>0, <1>1, <1>3, <1>7, <3>1, TakenTold
      <3>3. m.score = score /\ m.rev = pollRev
        BY <3>2 DEF Says, ScoreEvent
      <3>4. lastScore.value = score /\ lastScore.rev = pollRev
        BY <1>7 DEF ScoreEvent
      <3>5. scores.value = score /\ scores.rev = pollRev
        BY <3>3, <3>4 DEF selectScoreData
      <3>6. ScoreApplies(pollRev)
        BY <1>0 DEF ScoresInOrder, ScoreApplies
      <3>7. board'.score = IF ScoreApplies(scores.rev) THEN scores.value ELSE board.score
        BY <3>1 DEF renderSnapshot
      <3> HIDE DEF scores, e
      <3> QED BY <1>0, <1>1, <1>7, <3>1, <3>5, <3>6, <3>7
    <2>2. CASE Outrun(m) \/ Caught(m)
      <3>1. UNCHANGED <<drawn, lastScore, board>>
        BY <2>2 DEF Outrun, Caught, events
      <3> HIDE DEF e
      <3> QED BY <1>0, <1>1, <1>7, <3>1
    <2> QED BY <1>0, <2>1, <2>2 DEF Settled
  <1> QED BY <1>3, <1>4, <1>5, <1>6, <1>7

LEMMA ScoresToldPreserved ==
  ASSUME BoardTypes, Linking, ScoresTold, ScoresInOrder, ScoreboardNext
  PROVE  ScoresTold'
  <1>0. wire \in Seq(Messages) /\ heard \in 0..4
    BY DEF BoardTypes, LinkTypes
  <1>1. CASE Reload("players")
    <2>1. PICK rev \in Nat : wire' = IF heard = 4 THEN Append(wire, TableEvent("players", rev)) ELSE wire
      BY <1>1, PlayersSent
    <2>2. TableEvent("players", rev) \in Messages /\ TableEvent("players", rev).type = "table"
      BY EventsAreMessages, EventsAreNoAnswers DEF Tables
    <2>3. UNCHANGED <<score, pollRev, lastScore, drawn, board, heard>>
      BY <1>1 DEF Reload, pageVars, events
    <2>4. CASE wire' = wire
      BY <2>3, <2>4 DEF ScoresTold, SnapshotsTell, LastIn, NoneIn, FollowedIn, ScoreEvent
    <2>5. CASE wire' = Append(wire, TableEvent("players", rev))
      BY <2>2, <2>3, <2>5, ScoresKept
    <2> QED BY <2>1, <2>4, <2>5
  <1>2. CASE Reload("matches")
    <2>1. PICK rev \in Nat :
            LET w == IF heard >= 3 THEN Append(wire, TableEvent("matches", rev)) ELSE wire
            IN wire' = IF heard >= 1 THEN Append(w, ScoreEvent(score + 1, pollRev)) ELSE w
      BY <1>2, MatchesSent
    <2> DEFINE w == IF heard >= 3 THEN Append(wire, TableEvent("matches", rev)) ELSE wire
    <2>2. TableEvent("matches", rev) \in Messages /\ ScoreEvent(score + 1, pollRev) \in Messages
      BY EventsAreMessages DEF Tables, BoardTypes, ServerTypes
    <2>3. w \in Seq(Messages) /\ (heard >= 1 => wire' = Append(w, ScoreEvent(score + 1, pollRev)))
      BY <1>0, <2>1, <2>2, Appended
    <2>4. score' = score + 1 /\ pollRev' = pollRev /\ heard' = heard
      BY <1>2 DEF Reload
    <2> HIDE DEF w
    <2>5. CASE heard >= 1
      BY <2>2, <2>3, <2>4, <2>5, ScoresAdded
    <2> QED BY <2>4, <2>5 DEF ScoresTold
  <1>3. CASE CourtChange
    <2>1. CourtEvent(court + 1) \in Messages /\ CourtEvent(court + 1).type = "court"
      BY EventsAreMessages, EventsAreNoAnswers DEF BoardTypes, ServerTypes
    <2>2. UNCHANGED <<score, pollRev, lastScore, drawn, board, heard>>
      BY <1>3 DEF CourtChange, pageVars, events
    <2>3. wire' = wire \/ wire' = Append(wire, CourtEvent(court + 1))
      BY <1>3, CourtSent
    <2>4. CASE wire' = wire
      BY <2>2, <2>4 DEF ScoresTold, SnapshotsTell, LastIn, NoneIn, FollowedIn, ScoreEvent
    <2>5. CASE wire' = Append(wire, CourtEvent(court + 1))
      BY <2>1, <2>2, <2>5, ScoresKept
    <2> QED BY <2>3, <2>4, <2>5
  <1>4. CASE ScoreChange
    <2>1. ScoreEvent(score + 1, pollRev + 1) \in Messages
      BY EventsAreMessages DEF BoardTypes, ServerTypes
    <2>2. score' = score + 1 /\ pollRev' = pollRev + 1 /\ heard' = heard
      BY <1>4 DEF ScoreChange
    <2>3. CASE heard >= 1
      BY <1>0, <1>4, <2>1, <2>2, <2>3, ScoreSent, ScoresAdded
    <2> QED BY <2>2, <2>3 DEF ScoresTold
  <1>5. CASE Subscribed
    <2>1. PICK e \in Messages :
           /\ wire' = Append(wire, e) /\ heard' = heard + 1 /\ heard' \in 1..4
           /\ heard' = 1 => e = ScoreEvent(score, pollRev)
           /\ heard' = 2 => e = CourtEvent(court)
           /\ heard' = 3 => e.type = "table" /\ e.table = "matches"
           /\ heard' = 4 => e.type = "table" /\ e.table = "players"
      BY <1>5, StateSent
    <2>2. UNCHANGED <<score, pollRev, lastScore, drawn, board>>
      BY <1>5 DEF Subscribed, serverVars, pageVars, events
    <2>3. CASE heard' = 1
      BY <1>0, <2>1, <2>2, <2>3, ScoresAdded
    <2>4. CASE heard' # 1
      <3>1. e.type \in {"court", "table"} /\ heard >= 1
        <4>1. heard' \in {2, 3, 4} /\ heard >= 1
          BY <1>0, <2>1, <2>4
        <4>2. heard' = 2 => e.type = "court"
          BY <2>1, EventsAreNoAnswers
        <4> QED BY <2>1, <4>1, <4>2
      <3> QED BY <2>1, <2>2, <3>1, ScoresKept
    <2> QED BY <2>3, <2>4
  <1>6. CASE AnswerSnapshot
    <2>1. UNCHANGED <<score, pollRev, lastScore, drawn, board, heard>>
      BY <1>6 DEF AnswerSnapshot, serverVars, pageVars, events
    <2>2. CASE wire' = Append(wire, Snapshot)
      <3>1. Snapshot.type = "snapshot" /\ Says(Snapshot, "score") = ScoreEvent(score, pollRev)
        BY DEF Snapshot, Says
      <3> QED BY <2>1, <2>2, <3>1, SnapshotIsMessage, ScoresKept
    <2>3. ASSUME NEW type \in {"error", "malformed"}, wire' = Append(wire, [type |-> type]) PROVE ScoresTold'
      <3>1. [type |-> type] \in Messages
        BY DEF Messages
      <3> QED BY <2>1, <2>3, <3>1, ScoresKept
    <2> QED BY <1>6, <2>2, <2>3 DEF AnswerSnapshot
  <1>7. CASE Hear
    BY <1>7, ScoresHeard
  <1>8. CASE Answered
    BY <1>8, ScoresAnswered
  <1>9. CASE Disconnect \/ ServerRestarts
    BY <1>9 DEF Disconnect, ServerRestarts, Cut, ScoresTold
  <1>10. CASE StillDown \/ GivenUp \/ Connect
    BY <1>10 DEF StillDown, GivenUp, Connect, Linking, ScoresTold
  <1>11. CASE PeopleChange \/ ReadPlayers \/ drainSnapshots \/ RetryDue \/ refreshAfterResume \/ SendRequest
    <2>1. UNCHANGED <<wire, heard, score, pollRev, lastScore, drawn, board>>
      BY <1>11 DEF PeopleChange, ReadPlayers, drainSnapshots, RetryDue, refreshAfterResume, SendRequest,
                   serverVars, pageVars, events
    <2> QED BY <2>1 DEF ScoresTold, SnapshotsTell, LastIn, NoneIn, FollowedIn, ScoreEvent
  <1> QED BY <1>1, <1>2, <1>3, <1>4, <1>5, <1>6, <1>7, <1>8, <1>9, <1>10, <1>11 DEF ScoreboardNext, Tables

-----------------------------------------------------------------------------
LEMMA CourtsKept ==
  ASSUME BoardTypes, CourtsTold, NEW f \in Messages, wire' = Append(wire, f), f.type # "court",
         f.type = "snapshot" => Says(f, "court") = CourtEvent(court),
         UNCHANGED <<court, lastCourt, drawn, board>>, heard' >= 2 => heard >= 2
  PROVE  CourtsTold'
  <1> DEFINE e == CourtEvent(court)
  <1>1. e.type = "court"
    BY EventsAreNoAnswers
  <1>2. e' = e
    BY DEF CourtEvent
  <1> HIDE DEF e
  <1>3. CourtsTold = (heard >= 2 =>
          /\ SnapshotsTell(wire, e)
          /\ LastIn(wire, e) \/ (NoneIn(wire, "court") /\ lastCourt = e /\ (drawn => board.court = court)))
    BY DEF CourtsTold, e
  <1>4. CourtsTold' = (heard' >= 2 =>
          /\ SnapshotsTell(wire', e')
          /\ LastIn(wire', e') \/ (NoneIn(wire', "court") /\ lastCourt' = e' /\ (drawn' => board'.court = court')))
    BY DEF CourtsTold, e, SnapshotsTell, LastIn, NoneIn, FollowedIn
  <1>5. wire \in Seq(Messages)
    BY DEF BoardTypes, LinkTypes
  <1>6. SnapshotsTell(wire, e) => SnapshotsTell(wire', e)
    BY <1>1, <1>5, AppendedTold DEF e
  <1>7. /\ LastIn(wire, e) => LastIn(wire', e)
        /\ NoneIn(wire, "court") => NoneIn(wire', "court")
    BY <1>1, <1>5, AppendedLast
  <1> QED BY <1>2, <1>3, <1>4, <1>6, <1>7

LEMMA CourtsAdded ==
  ASSUME NEW w \in Seq(Messages), CourtEvent(court') \in Messages, wire' = Append(w, CourtEvent(court'))
  PROVE  CourtsTold'
  <1> DEFINE e == CourtEvent(court')
  <1>1. e.type = "court"
    BY EventsAreNoAnswers
  <1>2. SnapshotsTell(wire', e) /\ LastIn(wire', e)
    BY <1>1, AppendedTold, AppendedLast
  <1> QED BY <1>2 DEF CourtsTold, SnapshotsTell, LastIn, NoneIn, FollowedIn, CourtEvent

LEMMA CourtsReceived ==
  ASSUME BoardTypes, Linking, CourtsTold, Hear \/ Answered
  PROVE  CourtsTold'
  <1> DEFINE e == CourtEvent(court)
             m == Head(wire)
             arrived == lastCourt = e /\ (drawn => board.court = court)
  <1>0. wire \in Seq(Messages) /\ wire # <<>> /\ wire' = Tail(wire) /\ m \in Messages /\ UNCHANGED <<court, heard>>
    BY Taken DEF BoardTypes, LinkTypes, Hear, Answered, serverVars
  <1>1. e.type = "court" /\ e' = e
    BY <1>0, EventsAreNoAnswers DEF CourtEvent
  <1>2. SUFFICES ASSUME heard >= 2
                 PROVE  SnapshotsTell(Tail(wire), e) /\ (LastIn(Tail(wire), e) \/ (NoneIn(Tail(wire), "court") /\ arrived'))
    BY <1>0, <1>1 DEF CourtsTold, SnapshotsTell, LastIn, NoneIn, FollowedIn
  <1>3. SnapshotsTell(wire, e) /\ (LastIn(wire, e) \/ (NoneIn(wire, "court") /\ arrived))
    BY <1>2 DEF CourtsTold
  <1>4. SnapshotsTell(Tail(wire), e)
    BY <1>0, <1>3, TakenTold
  <1>5. CASE m.type = "court" /\ handleScoreboardStateEvent(m) /\ UNCHANGED drawn
    <2>1. ~NoneIn(wire, "court")
      BY <1>0, <1>5, TakenLast
    <2>2. LastIn(Tail(wire), e) \/ (NoneIn(Tail(wire), "court") /\ m = e)
      BY <1>0, <1>1, <1>3, <2>1, TakenLast
    <2>3. m = e => arrived'
      <3> SUFFICES ASSUME m = e PROVE arrived'
        OBVIOUS
      <3>1. m.value = court
        BY DEF CourtEvent
      <3> HIDE DEF m, e
      <3>2. lastCourt' = m /\ board' = IF drawn THEN [board EXCEPT !.court = m.value] ELSE board
        BY <1>5 DEF handleScoreboardStateEvent
      <3>3. drawn => board'.court = court
        BY <3>1, <3>2 DEF BoardTypes, PageTypes
      <3> QED BY <1>0, <1>1, <1>5, <3>2, <3>3
    <2> QED BY <1>4, <2>2, <2>3
  <1>6. ASSUME m.type # "court", NoneIn(wire, "court") /\ arrived => arrived'
        PROVE  LastIn(Tail(wire), e) \/ (NoneIn(Tail(wire), "court") /\ arrived')
    <2>1. LastIn(wire, e) => LastIn(Tail(wire), e)
      BY <1>0, <1>1, <1>6, TakenLast
    <2>2. NoneIn(wire, "court") => NoneIn(Tail(wire), "court")
      BY <1>0, TakenLast
    <2> QED BY <1>3, <1>6, <2>1, <2>2
  <1>7. CASE m.type # "court" /\ UNCHANGED <<lastCourt, drawn>> /\ (drawn => board'.court = board.court)
    <2>1. arrived => arrived'
      BY <1>0, <1>1, <1>7
    <2> QED BY <1>4, <1>6, <1>7, <2>1
  <1>8. CASE Rendered(m)
    <2>1. m.type = "snapshot" /\ renderSnapshot(m) /\ UNCHANGED lastCourt
      BY <1>8 DEF Rendered
    <2>2. ASSUME NoneIn(wire, "court"), arrived PROVE arrived'
      <3>1. Says(m, "court") = e
        BY <1>0, <1>1, <1>3, <2>1, <2>2, TakenTold
      <3>2. m.court = court
        BY <3>1 DEF Says, CourtEvent
      <3>3. CourtShown(m) = court
        BY <2>2, <3>2 DEF CourtShown, CourtEvent
      <3>4. board'.court = CourtShown(m)
        BY <2>1 DEF renderSnapshot
      <3> HIDE DEF e
      <3> QED BY <1>0, <1>1, <2>1, <2>2, <3>3, <3>4
    <2> QED BY <1>4, <1>6, <2>1, <2>2
  <1>9. CASE Answered
    <2>1. m.type # "court" /\ (Rendered(m) \/ Outrun(m) \/ Caught(m))
      BY <1>9, EventsAreNoAnswers DEF Answered, Settled
    <2>2. CASE Outrun(m) \/ Caught(m)
      <3>1. UNCHANGED <<lastCourt, drawn, board>>
        BY <2>2 DEF Outrun, Caught, events
      <3> QED BY <1>7, <2>1, <3>1
    <2> QED BY <1>8, <2>1, <2>2
  <1>10. CASE Hear
    <2>1. CASE m.type = "score" /\ handleScoreEvent(m)
      <3>1. UNCHANGED <<lastCourt, drawn>>
        BY <1>10, <2>1 DEF Hear, handleScoreEvent, events
      <3>2. drawn => board'.court = board.court
        BY <2>1 DEF handleScoreEvent, events, BoardTypes, PageTypes
      <3> QED BY <1>7, <2>1, <3>1, <3>2
    <2>2. CASE m.type = "table" /\ UNCHANGED <<events, board>>
      BY <1>7, <1>10, <2>2 DEF events, Hear
    <2>3. CASE m.type = "court" /\ handleScoreboardStateEvent(m)
      BY <1>5, <1>10, <2>3 DEF Hear
    <2> QED BY <1>10, <2>1, <2>2, <2>3 DEF Hear
  <1> QED BY <1>9, <1>10

LEMMA CourtsToldPreserved ==
  ASSUME BoardTypes, Linking, CourtsTold, ScoreboardNext
  PROVE  CourtsTold'
  <1>0. wire \in Seq(Messages) /\ heard \in 0..4
    BY DEF BoardTypes, LinkTypes
  <1>1. ASSUME UNCHANGED <<wire, heard, court, lastCourt, drawn, board>> PROVE CourtsTold'
    BY <1>1 DEF CourtsTold, SnapshotsTell, LastIn, NoneIn, FollowedIn, CourtEvent
  <1>2. CASE Reload("players")
    <2>1. PICK rev \in Nat : wire' = IF heard = 4 THEN Append(wire, TableEvent("players", rev)) ELSE wire
      BY <1>2, PlayersSent
    <2>2. TableEvent("players", rev) \in Messages /\ TableEvent("players", rev).type = "table"
      BY EventsAreMessages, EventsAreNoAnswers DEF Tables
    <2>3. UNCHANGED <<court, lastCourt, drawn, board, heard>>
      BY <1>2 DEF Reload, pageVars, events
    <2>4. CASE wire' = wire
      BY <1>1, <2>3, <2>4
    <2>5. CASE wire' = Append(wire, TableEvent("players", rev))
      BY <2>2, <2>3, <2>5, CourtsKept
    <2> QED BY <2>1, <2>4, <2>5
  <1>3. CASE Reload("matches")
    <2>1. PICK rev \in Nat :
            LET w == IF heard >= 3 THEN Append(wire, TableEvent("matches", rev)) ELSE wire
            IN wire' = IF heard >= 1 THEN Append(w, ScoreEvent(score + 1, pollRev)) ELSE w
      BY <1>3, MatchesSent
    <2> DEFINE e == TableEvent("matches", rev)
               f == ScoreEvent(score + 1, pollRev)
    <2>2. e \in Messages /\ f \in Messages /\ e.type = "table" /\ f.type = "score"
      BY EventsAreMessages, EventsAreNoAnswers DEF Tables, BoardTypes, ServerTypes
    <2>3. UNCHANGED <<court, lastCourt, drawn, board, heard>>
      BY <1>3 DEF Reload, pageVars, events
    <2> HIDE DEF e, f
    <2>4. wire' = wire \/ wire' = Append(wire, e) \/ wire' = Append(wire, f) \/ wire' = Append(Append(wire, e), f)
      BY <2>1 DEF e, f
    <2>5. CASE wire' = wire
      BY <1>1, <2>3, <2>5
    <2>6. CASE wire' = Append(wire, e) \/ wire' = Append(wire, f)
      BY <2>2, <2>3, <2>6, CourtsKept
    <2>7. CASE wire' = Append(Append(wire, e), f)
      <3> DEFINE c == CourtEvent(court)
                 w == Append(wire, e)
      <3>1. c.type = "court" /\ c' = c
        BY <2>3, EventsAreNoAnswers DEF CourtEvent
      <3>2. w \in Seq(Messages)
        BY <1>0, <2>2, Appended
      <3> HIDE DEF c
      <3>3. /\ SnapshotsTell(wire, c) => SnapshotsTell(w, c)
            /\ LastIn(wire, c) => LastIn(w, c)
            /\ NoneIn(wire, "court") => NoneIn(w, "court")
        BY <1>0, <2>2, <3>1, AppendedTold, AppendedLast
      <3> HIDE DEF w
      <3>4. /\ SnapshotsTell(w, c) => SnapshotsTell(Append(w, f), c)
            /\ LastIn(w, c) => LastIn(Append(w, f), c)
            /\ NoneIn(w, "court") => NoneIn(Append(w, f), "court")
        BY <2>2, <3>1, <3>2, AppendedTold, AppendedLast
      <3>5. CourtsTold => (heard >= 2 =>
              /\ SnapshotsTell(wire, c)
              /\ LastIn(wire, c) \/ (NoneIn(wire, "court") /\ lastCourt = c /\ (drawn => board.court = court)))
        BY DEF CourtsTold, c
      <3>6. wire' = Append(w, f)
        BY <2>7 DEF w
      <3>7. heard >= 2 =>
              /\ SnapshotsTell(wire', c)
              /\ LastIn(wire', c) \/ (NoneIn(wire', "court") /\ lastCourt = c /\ (drawn => board.court = court))
        BY <3>3, <3>4, <3>5, <3>6
      <3> QED BY <2>3, <3>1, <3>7 DEF CourtsTold, SnapshotsTell, LastIn, NoneIn, FollowedIn, c
    <2> QED BY <2>4, <2>5, <2>6, <2>7
  <1>4. CASE CourtChange
    <2>1. CourtEvent(court + 1) \in Messages
      BY EventsAreMessages DEF BoardTypes, ServerTypes
    <2>2. court' = court + 1 /\ heard' = heard
      BY <1>4 DEF CourtChange
    <2>3. CASE heard >= 2
      BY <1>0, <1>4, <2>1, <2>2, <2>3, CourtSent, CourtsAdded
    <2> QED BY <2>2, <2>3 DEF CourtsTold
  <1>5. CASE ScoreChange
    <2>1. /\ ScoreEvent(score + 1, pollRev + 1) \in Messages
          /\ ScoreEvent(score + 1, pollRev + 1).type = "score"
      BY EventsAreMessages, EventsAreNoAnswers DEF BoardTypes, ServerTypes
    <2>2. UNCHANGED <<court, lastCourt, drawn, board, heard>>
      BY <1>5 DEF ScoreChange, pageVars, events
    <2>3. wire' = wire \/ wire' = Append(wire, ScoreEvent(score + 1, pollRev + 1))
      BY <1>5, ScoreSent
    <2>4. CASE wire' = wire
      BY <1>1, <2>2, <2>4
    <2>5. CASE wire' = Append(wire, ScoreEvent(score + 1, pollRev + 1))
      BY <2>1, <2>2, <2>5, CourtsKept
    <2> QED BY <2>3, <2>4, <2>5
  <1>6. CASE Subscribed
    <2>1. PICK e \in Messages :
           /\ wire' = Append(wire, e) /\ heard' = heard + 1 /\ heard' \in 1..4
           /\ heard' = 1 => e = ScoreEvent(score, pollRev)
           /\ heard' = 2 => e = CourtEvent(court)
           /\ heard' = 3 => e.type = "table" /\ e.table = "matches"
           /\ heard' = 4 => e.type = "table" /\ e.table = "players"
      BY <1>6, StateSent
    <2>2. UNCHANGED <<court, lastCourt, drawn, board>>
      BY <1>6 DEF Subscribed, serverVars, pageVars, events
    <2>3. CASE heard' = 1
      BY <2>3 DEF CourtsTold
    <2>4. CASE heard' = 2
      BY <1>0, <2>1, <2>2, <2>4, CourtsAdded
    <2>5. CASE heard' \in {3, 4}
      BY <1>0, <2>1, <2>2, <2>5, CourtsKept
    <2> QED BY <2>1, <2>3, <2>4, <2>5
  <1>7. CASE AnswerSnapshot
    <2>1. UNCHANGED <<court, lastCourt, drawn, board, heard>>
      BY <1>7 DEF AnswerSnapshot, serverVars, pageVars, events
    <2>2. CASE wire' = Append(wire, Snapshot)
      <3>1. Snapshot.type = "snapshot" /\ Says(Snapshot, "court") = CourtEvent(court)
        BY DEF Snapshot, Says
      <3> QED BY <2>1, <2>2, <3>1, SnapshotIsMessage, CourtsKept
    <2>3. ASSUME NEW type \in {"error", "malformed"}, wire' = Append(wire, [type |-> type]) PROVE CourtsTold'
      <3>1. [type |-> type] \in Messages
        BY DEF Messages
      <3> QED BY <2>1, <2>3, <3>1, CourtsKept
    <2> QED BY <1>7, <2>2, <2>3 DEF AnswerSnapshot
  <1>8. CASE Hear \/ Answered
    BY <1>8, CourtsReceived
  <1>9. CASE Disconnect \/ ServerRestarts
    BY <1>9 DEF Disconnect, ServerRestarts, Cut, CourtsTold
  <1>10. CASE StillDown \/ GivenUp \/ Connect
    BY <1>10 DEF StillDown, GivenUp, Connect, Linking, CourtsTold
  <1>11. CASE PeopleChange \/ ReadPlayers \/ drainSnapshots \/ RetryDue \/ refreshAfterResume \/ SendRequest
    BY <1>1, <1>11 DEF PeopleChange, ReadPlayers, drainSnapshots, RetryDue, refreshAfterResume, SendRequest,
                   serverVars, pageVars, events
  <1> QED BY <1>2, <1>3, <1>4, <1>5, <1>6, <1>7, <1>8, <1>9, <1>10, <1>11 DEF ScoreboardNext, Tables

-----------------------------------------------------------------------------
LEMMA CarriersHaveRevisions ==
  \A m \in Messages : m.type \in Carriers => m.rev \in Nat
  BY DEF Messages, Carriers, ScoreEvents, CourtEvents, TableEvents, Snapshots

LEMMA AppendedOrder ==
  ASSUME NEW w \in Seq(Messages), NEW f \in Messages, NEW high \in Nat, NEW highest \in Nat, high <= highest,
         f.type \in Carriers => f.rev = highest
  PROVE  /\ \A low \in Int : low <= highest /\ Within(w, low, high) => Within(Append(w, f), low, highest)
         /\ \A low \in Int : Ordered(w) /\ Within(w, low, high) => Ordered(Append(w, f))
  <1> DEFINE v == Append(w, f)
  <1>1. /\ Len(w) \in Nat /\ DOMAIN w = 1..Len(w) /\ DOMAIN v = 1..(Len(w) + 1)
        /\ v[Len(w) + 1] = f /\ \A n \in DOMAIN w : v[n] = w[n] /\ w[n] \in Messages
    BY Appended
  <1> HIDE DEF v
  <1>2. \A low \in Int : low <= highest /\ Within(w, low, high) => Within(v, low, highest)
    BY <1>1, CarriersHaveRevisions DEF Within
  <1>3. ASSUME NEW low \in Int, Ordered(w), Within(w, low, high) PROVE Ordered(v)
    <2> SUFFICES ASSUME NEW k \in DOMAIN v, NEW n \in DOMAIN v, k < n, v[k].type \in Carriers, v[n].type \in Carriers
                 PROVE  v[k].rev <= v[n].rev
      BY DEF Ordered
    <2>1. k \in DOMAIN w /\ v[k] = w[k] /\ w[k].rev <= high /\ w[k].rev \in Nat
      BY <1>1, <1>3, CarriersHaveRevisions DEF Within
    <2>2. CASE n \in DOMAIN w
      BY <1>1, <1>3, <2>1, <2>2 DEF Ordered
    <2>3. CASE n = Len(w) + 1
      BY <1>1, <2>1, <2>3
    <2> QED BY <1>1, <2>2, <2>3
  <1> QED BY <1>2, <1>3 DEF v

LEMMA TakenOrder ==
  ASSUME NEW w \in Seq(Messages), w # <<>>, Ordered(w), NEW high \in Nat
  PROVE  /\ Ordered(Tail(w))
         /\ \A low \in Int : Within(w, low, high) =>
              /\ Within(Tail(w), low, high)
              /\ Head(w).type \in Carriers =>
                   low <= Head(w).rev /\ Head(w).rev <= high /\ Within(Tail(w), Head(w).rev, high)
  <1> DEFINE v == Tail(w)
             h == Head(w)
  <1>1. /\ Len(w) \in Nat /\ Len(w) > 0 /\ DOMAIN w = 1..Len(w) /\ DOMAIN v = 1..(Len(w) - 1)
        /\ h = w[1] /\ \A n \in DOMAIN v : v[n] = w[n + 1] /\ n + 1 \in DOMAIN w
    BY Taken
  <1> HIDE DEF v, h
  <1>2. Ordered(v)
    BY <1>1 DEF Ordered
  <1>3. ASSUME NEW low \in Int, Within(w, low, high)
        PROVE  /\ Within(v, low, high)
               /\ h.type \in Carriers => low <= h.rev /\ h.rev <= high /\ Within(v, h.rev, high)
    <2>1. Within(v, low, high) /\ (h.type \in Carriers => low <= h.rev /\ h.rev <= high)
      BY <1>1, <1>3 DEF Within
    <2>2. ASSUME h.type \in Carriers, NEW n \in DOMAIN v, v[n].type \in Carriers PROVE h.rev <= v[n].rev
      BY <1>1, <2>2 DEF Ordered
    <2> QED BY <2>1, <2>2 DEF Within
  <1> QED BY <1>2, <1>3 DEF v, h

LEMMA OneBelow ==
  \A p, q, n \in Nat : p <= q /\ n <= p + 1 => n - 1 \in Int /\ n - 1 <= p /\ n <= q + 1
  OBVIOUS

LEMMA OrderKept ==
  ASSUME BoardTypes, ScoresInOrder, pollRev' \in Nat, pollRev <= pollRev',
         wire' = wire \/ \E f \in Messages : wire' = Append(wire, f) /\ (f.type \in Carriers => f.rev = pollRev'),
         UNCHANGED <<seen, lastScore>>, linked' => linked
  PROVE  ScoresInOrder'
  <1> SUFFICES ASSUME linked'
               PROVE  /\ seen <= pollRev' + 1 /\ Ordered(wire') /\ Within(wire', seen - 1, pollRev')
                      /\ lastScore # Missing => lastScore.rev <= pollRev' /\ Within(wire', lastScore.rev, pollRev')
    BY DEF ScoresInOrder, Ordered, Within
  <1>1. /\ seen <= pollRev + 1 /\ Ordered(wire) /\ Within(wire, seen - 1, pollRev)
        /\ lastScore # Missing => lastScore.rev <= pollRev /\ Within(wire, lastScore.rev, pollRev)
    BY DEF ScoresInOrder
  <1>2. wire \in Seq(Messages) /\ seen \in Nat /\ pollRev \in Nat /\ (lastScore # Missing => lastScore.rev \in Nat)
    BY DEF BoardTypes, LinkTypes, PageTypes, ServerTypes, ScoreEvents
  <1>3. ASSUME NEW low \in Int, low <= pollRev, Within(wire, low, pollRev)
        PROVE  Within(wire', low, pollRev') /\ Ordered(wire')
    <2>1. CASE wire' = wire
      <3>1. \A n \in DOMAIN wire : wire[n] \in Messages
        BY <1>2
      <3> QED BY <1>1, <1>2, <1>3, <2>1, <3>1, CarriersHaveRevisions DEF Within
    <2>2. ASSUME NEW f \in Messages, wire' = Append(wire, f), f.type \in Carriers => f.rev = pollRev'
          PROVE  Within(wire', low, pollRev') /\ Ordered(wire')
      BY <1>1, <1>2, <1>3, <2>2, AppendedOrder
    <2> QED BY <2>1, <2>2
  <1>4. seen - 1 \in Int /\ seen - 1 <= pollRev /\ seen <= pollRev' + 1
    BY <1>1, <1>2, OneBelow
  <1>5. Ordered(wire') /\ Within(wire', seen - 1, pollRev')
    BY <1>1, <1>3, <1>4
  <1>6. ASSUME lastScore # Missing PROVE lastScore.rev <= pollRev' /\ Within(wire', lastScore.rev, pollRev')
    <2>1. lastScore.rev \in Int /\ lastScore.rev <= pollRev /\ lastScore.rev <= pollRev'
      BY <1>1, <1>2, <1>6
    <2> QED BY <1>1, <1>3, <1>6, <2>1
  <1> QED BY <1>4, <1>5, <1>6

LEMMA OrderReceived ==
  ASSUME BoardTypes, Linking, ScoresInOrder, Hear \/ Answered
  PROVE  ScoresInOrder'
  <1> DEFINE m == Head(wire)
  <1>0. wire \in Seq(Messages) /\ wire # <<>> /\ wire' = Tail(wire) /\ m \in Messages /\ linked /\ UNCHANGED <<pollRev, linked>>
    BY Taken DEF BoardTypes, LinkTypes, Hear, Answered, Linking, serverVars
  <1>1. /\ seen <= pollRev + 1 /\ Ordered(wire) /\ Within(wire, seen - 1, pollRev)
        /\ lastScore # Missing => lastScore.rev <= pollRev /\ Within(wire, lastScore.rev, pollRev)
    BY <1>0 DEF ScoresInOrder
  <1>2. seen \in Nat /\ seen - 1 \in Int /\ pollRev \in Nat /\ (lastScore # Missing => lastScore.rev \in Nat)
    BY DEF BoardTypes, PageTypes, ServerTypes, ScoreEvents
  <1>3. /\ Ordered(wire') /\ Within(wire', seen - 1, pollRev)
        /\ lastScore # Missing => Within(wire', lastScore.rev, pollRev)
    BY <1>0, <1>1, <1>2, TakenOrder
  <1>4. m.type \in Carriers => m.rev \in Nat /\ m.rev <= pollRev /\ Within(wire', m.rev, pollRev)
    BY <1>0, <1>1, <1>2, TakenOrder, CarriersHaveRevisions
  <1>5. SUFFICES /\ seen' <= pollRev + 1 /\ Within(wire', seen' - 1, pollRev)
                 /\ lastScore' # Missing => lastScore'.rev <= pollRev /\ Within(wire', lastScore'.rev, pollRev)
    BY <1>0, <1>3 DEF ScoresInOrder, Ordered, Within
  <1>6. CASE UNCHANGED <<seen, lastScore>>
    BY <1>1, <1>3, <1>6
  <1>7. CASE m.type = "score" /\ handleScoreEvent(m)
    <2>1. m.rev \in Nat /\ m.rev <= pollRev /\ Within(wire', m.rev, pollRev)
      BY <1>4, <1>7 DEF Carriers
    <2> HIDE DEF m
    <2>2. CASE UNCHANGED <<events, board>>
      BY <1>6, <2>2 DEF events
    <2>3. CASE lastScore' = m /\ seen' = IF drawn THEN m.rev + 1 ELSE seen
      <3>1. (m.rev + 1) - 1 = m.rev /\ m.rev + 1 <= pollRev + 1
        BY <1>2, <2>1
      <3> QED BY <1>1, <1>3, <2>1, <2>3, <3>1
    <2> QED BY <1>7, <2>2, <2>3 DEF handleScoreEvent
  <1>8. CASE Rendered(m)
    <2> DEFINE scores == selectScoreData(m)
    <2>1. m.type = "snapshot" /\ renderSnapshot(m) /\ UNCHANGED lastScore
      BY <1>8 DEF Rendered
    <2>2. m.rev \in Nat /\ m.rev <= pollRev /\ Within(wire', m.rev, pollRev)
      BY <1>4, <2>1 DEF Carriers
    <2>3. scores.rev \in Nat /\ scores.rev <= pollRev /\ Within(wire', scores.rev, pollRev)
      <3>1. CASE scores = lastScore /\ lastScore # Missing
        BY <1>1, <1>2, <1>3, <3>1
      <3>2. CASE scores = [value |-> m.score, rev |-> m.rev]
        BY <2>2, <3>2
      <3> QED BY <3>1, <3>2 DEF selectScoreData
    <2>4. seen' = IF ScoreApplies(scores.rev) THEN scores.rev + 1 ELSE seen
      BY <2>1 DEF renderSnapshot
    <2> HIDE DEF scores
    <2>5. (scores.rev + 1) - 1 = scores.rev /\ scores.rev + 1 <= pollRev + 1
      BY <1>2, <2>3
    <2>6. seen' <= pollRev + 1 /\ Within(wire', seen' - 1, pollRev)
      BY <1>1, <1>3, <2>3, <2>4, <2>5
    <2> QED BY <1>1, <1>3, <2>1, <2>6
  <1>9. CASE Outrun(m) \/ Caught(m)
    BY <1>6, <1>9 DEF Outrun, Caught, events
  <1>10. CASE Hear
    BY <1>6, <1>7, <1>10 DEF Hear, handleScoreboardStateEvent, events
  <1> QED BY <1>8, <1>9, <1>10 DEF Answered, Settled

LEMMA ScoresInOrderPreserved ==
  ASSUME BoardTypes, Linking, ScoresInOrder, ScoreboardNext
  PROVE  ScoresInOrder'
  <1>0. wire \in Seq(Messages) /\ heard \in 0..4 /\ pollRev \in Nat
    BY DEF BoardTypes, LinkTypes, ServerTypes
  <1>1. CASE Reload("players")
    <2>1. PICK rev \in Nat : wire' = IF heard = 4 THEN Append(wire, TableEvent("players", rev)) ELSE wire
      BY <1>1, PlayersSent
    <2>2. TableEvent("players", rev) \in Messages /\ TableEvent("players", rev).type \notin Carriers
      BY EventsAreMessages, EventsAreNoAnswers DEF Tables, Carriers
    <2>3. UNCHANGED <<pollRev, seen, lastScore, linked>>
      BY <1>1 DEF Reload, pageVars, events
    <2> QED BY <1>0, <2>1, <2>2, <2>3, OrderKept
  <1>2. CASE Reload("matches")
    <2>1. PICK rev \in Nat :
            LET w == IF heard >= 3 THEN Append(wire, TableEvent("matches", rev)) ELSE wire
            IN wire' = IF heard >= 1 THEN Append(w, ScoreEvent(score + 1, pollRev)) ELSE w
      BY <1>2, MatchesSent
    <2> DEFINE e == TableEvent("matches", rev)
               f == ScoreEvent(score + 1, pollRev)
               w == Append(wire, e)
    <2>2. e \in Messages /\ f \in Messages /\ e.type \notin Carriers /\ f.rev = pollRev
      BY EventsAreMessages, EventsAreNoAnswers DEF Tables, BoardTypes, ServerTypes, Carriers, ScoreEvent
    <2>3. UNCHANGED <<pollRev, seen, lastScore, linked>>
      BY <1>2 DEF Reload, pageVars, events
    <2>4. wire' = wire \/ wire' = Append(wire, e) \/ wire' = Append(wire, f) \/ wire' = Append(w, f)
      BY <2>1
    <2> HIDE DEF e, f
    <2>5. CASE wire' = wire \/ wire' = Append(wire, e) \/ wire' = Append(wire, f)
      BY <1>0, <2>2, <2>3, <2>5, OrderKept
    <2>6. CASE wire' = Append(w, f)
      <3> SUFFICES ASSUME linked
                   PROVE  /\ Ordered(Append(w, f)) /\ Within(Append(w, f), seen - 1, pollRev)
                          /\ lastScore # Missing => Within(Append(w, f), lastScore.rev, pollRev)
        BY <2>3, <2>6 DEF ScoresInOrder, Ordered, Within
      <3>1. /\ seen <= pollRev + 1 /\ Ordered(wire) /\ Within(wire, seen - 1, pollRev)
            /\ lastScore # Missing => lastScore.rev <= pollRev /\ Within(wire, lastScore.rev, pollRev)
        BY DEF ScoresInOrder
      <3>2. seen - 1 \in Int /\ seen - 1 <= pollRev /\ (lastScore # Missing => lastScore.rev \in Int)
        BY <1>0, <3>1 DEF BoardTypes, PageTypes, ScoreEvents
      <3>3. /\ w \in Seq(Messages) /\ Ordered(w) /\ Within(w, seen - 1, pollRev)
            /\ lastScore # Missing => Within(w, lastScore.rev, pollRev)
        BY <1>0, <2>2, <3>1, <3>2, Appended, AppendedOrder
      <3> HIDE DEF w
      <3> QED BY <1>0, <2>2, <3>1, <3>2, <3>3, AppendedOrder
    <2> QED BY <2>4, <2>5, <2>6
  <1>3. CASE CourtChange
    <2>1. CourtEvent(court + 1) \in Messages /\ CourtEvent(court + 1).type \notin Carriers
      BY EventsAreMessages, EventsAreNoAnswers DEF BoardTypes, ServerTypes, Carriers
    <2>2. UNCHANGED <<pollRev, seen, lastScore, linked>>
      BY <1>3 DEF CourtChange, pageVars, events
    <2>3. wire' = wire \/ wire' = Append(wire, CourtEvent(court + 1))
      BY <1>3, CourtSent
    <2> QED BY <1>0, <2>1, <2>2, <2>3, OrderKept
  <1>4. CASE ScoreChange
    <2>1. /\ ScoreEvent(score + 1, pollRev + 1) \in Messages
          /\ ScoreEvent(score + 1, pollRev + 1).rev = pollRev + 1
      BY EventsAreMessages DEF BoardTypes, ServerTypes, ScoreEvent
    <2>2. pollRev' = pollRev + 1 /\ UNCHANGED <<seen, lastScore, linked>>
      BY <1>4 DEF ScoreChange, pageVars, events
    <2>3. wire' = wire \/ wire' = Append(wire, ScoreEvent(score + 1, pollRev + 1))
      BY <1>4, ScoreSent
    <2>4. pollRev' \in Nat /\ pollRev <= pollRev'
      BY <1>0, <2>2
    <2> QED BY <2>1, <2>2, <2>3, <2>4, OrderKept
  <1>5. CASE Subscribed
    <2>1. PICK e \in Messages :
           /\ wire' = Append(wire, e) /\ heard' = heard + 1 /\ heard' \in 1..4
           /\ heard' = 1 => e = ScoreEvent(score, pollRev)
           /\ heard' = 2 => e = CourtEvent(court)
           /\ heard' = 3 => e.type = "table" /\ e.table = "matches"
           /\ heard' = 4 => e.type = "table" /\ e.table = "players"
      BY <1>5, StateSent
    <2>2. UNCHANGED <<pollRev, seen, lastScore, linked>>
      BY <1>5 DEF Subscribed, serverVars, pageVars, events
    <2>3. heard' = 1 => e.rev = pollRev
      BY <2>1 DEF ScoreEvent
    <2>4. heard' = 2 => e.type = "court"
      BY <2>1, EventsAreNoAnswers
    <2>5. heard' \in {1, 2, 3, 4}
      BY <2>1
    <2>6. e.type \in Carriers => e.rev = pollRev
      BY <2>1, <2>3, <2>4, <2>5 DEF Carriers
    <2> QED BY <1>0, <2>1, <2>2, <2>6, OrderKept
  <1>6. CASE AnswerSnapshot
    <2>1. UNCHANGED <<pollRev, seen, lastScore, linked>>
      BY <1>6 DEF AnswerSnapshot, serverVars, pageVars, events
    <2>2. Snapshot \in Messages /\ Snapshot.rev = pollRev
      BY SnapshotIsMessage DEF Snapshot
    <2>3. \A type \in {"error", "malformed"} : [type |-> type] \in Messages /\ [type |-> type].type \notin Carriers
      BY DEF Messages, Carriers
    <2>4. \E f \in Messages : wire' = Append(wire, f) /\ (f.type \in Carriers => f.rev = pollRev)
      BY <1>6, <2>2, <2>3 DEF AnswerSnapshot
    <2> QED BY <1>0, <2>1, <2>4, OrderKept
  <1>7. CASE Hear \/ Answered
    BY <1>7, OrderReceived
  <1>8. CASE Disconnect \/ ServerRestarts
    BY <1>8 DEF Disconnect, ServerRestarts, Cut, ScoresInOrder
  <1>9. CASE StillDown \/ GivenUp
    BY <1>9 DEF StillDown, GivenUp, ScoresInOrder
  <1>10. CASE Connect
    <2>1. seen' = 0 /\ lastScore' = Missing /\ wire' = <<>> /\ pollRev' = pollRev
      BY <1>10 DEF Connect, Linking, serverVars
    <2> QED BY <1>0, <2>1 DEF ScoresInOrder, Ordered, Within
  <1>11. CASE PeopleChange \/ ReadPlayers \/ drainSnapshots \/ RetryDue \/ refreshAfterResume \/ SendRequest
    <2>1. UNCHANGED <<wire, pollRev, seen, lastScore, linked>>
      BY <1>11 DEF PeopleChange, ReadPlayers, drainSnapshots, RetryDue, refreshAfterResume, SendRequest,
                   serverVars, pageVars, events
    <2> QED BY <1>0, <2>1, OrderKept
  <1> QED BY <1>1, <1>2, <1>3, <1>4, <1>5, <1>6, <1>7, <1>8, <1>9, <1>10, <1>11 DEF ScoreboardNext, Tables

-----------------------------------------------------------------------------
\* Events were appended: what was untold still is, and there is no other snapshot.
Grown(w, v) ==
  /\ \A t : Untold(w, t) => Untold(v, t)
  /\ \A n \in DOMAIN v : v[n].type = "snapshot" => n \in DOMAIN w /\ v[n] = w[n]

LEMMA EventAppended ==
  ASSUME NEW w \in Seq(Messages), NEW e \in Messages
  PROVE  /\ \A t : Untold(w, t) \/ (e.type = "table" /\ e.table = t) => Untold(Append(w, e), t)
         /\ \A n \in DOMAIN Append(w, e) : (n \in DOMAIN w /\ Append(w, e)[n] = w[n]) \/ Append(w, e)[n] = e
         /\ e.type # "snapshot" => Grown(w, Append(w, e))
  <1> DEFINE v == Append(w, e)
  <1>1. /\ Len(w) \in Nat /\ DOMAIN w = 1..Len(w) /\ DOMAIN v = 1..(Len(w) + 1)
        /\ v[Len(w) + 1] = e /\ \A n \in DOMAIN w : v[n] = w[n]
    BY Appended
  <1> HIDE DEF v
  <1>2. \A t : Untold(w, t) \/ (e.type = "table" /\ e.table = t) => Untold(v, t)
    BY <1>1 DEF Untold
  <1>3. \A n \in DOMAIN v : (n \in DOMAIN w /\ v[n] = w[n]) \/ v[n] = e
    BY <1>1
  <1>4. e.type # "snapshot" => Grown(w, v)
    BY <1>2, <1>3 DEF Grown
  <1> QED BY <1>2, <1>3, <1>4 DEF v

LEMMA EventTaken ==
  ASSUME NEW w \in Seq(Messages), w # <<>>
  PROVE  /\ \A t : Untold(w, t) => Untold(Tail(w), t) \/ (Head(w).type = "table" /\ Head(w).table = t)
         /\ \A n \in DOMAIN Tail(w) : n + 1 \in DOMAIN w /\ Tail(w)[n] = w[n + 1]
  <1> DEFINE v == Tail(w)
             h == Head(w)
  <1>1. /\ Len(w) \in Nat /\ Len(w) > 0 /\ DOMAIN w = 1..Len(w) /\ DOMAIN v = 1..(Len(w) - 1)
        /\ h = w[1] /\ \A n \in DOMAIN v : v[n] = w[n + 1] /\ n + 1 \in DOMAIN w
    BY Taken
  <1> HIDE DEF v, h
  <1>2. ASSUME NEW t, Untold(w, t) PROVE Untold(v, t) \/ (h.type = "table" /\ h.table = t)
    <2>1. PICK n \in DOMAIN w : w[n].type = "table" /\ w[n].table = t
      BY <1>2 DEF Untold
    <2>2. CASE n = 1
      BY <1>1, <2>1, <2>2
    <2>3. CASE n # 1
      <3>1. n - 1 \in DOMAIN v /\ v[n - 1] = w[n]
        BY <1>1, <2>3
      <3> QED BY <2>1, <3>1 DEF Untold
    <2> QED BY <2>2, <2>3
  <1> QED BY <1>1, <1>2 DEF v, h

LEMMA EventsSent ==
  ASSUME BoardTypes, (\E t \in Tables : Reload(t)) \/ CourtChange \/ ScoreChange \/ Subscribed
  PROVE  /\ Grown(wire, wire')
         /\ heard' = 3 /\ heard < 3 => Untold(wire', "matches")
         /\ heard' = 4 /\ heard < 4 => Untold(wire', "players")
         /\ heard' \in 0..4 /\ heard' >= heard /\ heard' <= heard + 1
  <1>0. wire \in Seq(Messages) /\ heard \in 0..4 /\ Grown(wire, wire)
    BY DEF BoardTypes, LinkTypes, Grown
  <1>1. CASE Reload("players")
    <2>1. PICK rev \in Nat : wire' = IF heard = 4 THEN Append(wire, TableEvent("players", rev)) ELSE wire
      BY <1>1, PlayersSent
    <2> DEFINE e == TableEvent("players", rev)
    <2>2. e \in Messages /\ e.type = "table" /\ e.table = "players"
      BY EventsAreMessages, EventsAreNoAnswers DEF Tables
    <2>3. heard' = heard
      BY <1>1 DEF Reload
    <2> HIDE DEF e
    <2>5. wire' = IF heard = 4 THEN Append(wire, e) ELSE wire
      BY <2>1 DEF e
    <2> QED BY <1>0, <2>2, <2>3, <2>5, EventAppended
  <1>2. CASE Reload("matches")
    <2>1. PICK rev \in Nat :
            LET w == IF heard >= 3 THEN Append(wire, TableEvent("matches", rev)) ELSE wire
            IN wire' = IF heard >= 1 THEN Append(w, ScoreEvent(score + 1, pollRev)) ELSE w
      BY <1>2, MatchesSent
    <2> DEFINE e == TableEvent("matches", rev)
               f == ScoreEvent(score + 1, pollRev)
               w == IF heard >= 3 THEN Append(wire, e) ELSE wire
    <2>2. e \in Messages /\ f \in Messages /\ e.type = "table" /\ e.table = "matches" /\ f.type = "score"
      BY EventsAreMessages, EventsAreNoAnswers DEF Tables, BoardTypes, ServerTypes
    <2>3. heard' = heard
      BY <1>2 DEF Reload
    <2>5. wire' = IF heard >= 1 THEN Append(w, f) ELSE w
      BY <2>1
    <2> HIDE DEF e, f
    <2>6. w \in Seq(Messages) /\ Grown(wire, w) /\ (heard >= 3 => Untold(w, "matches"))
      BY <1>0, <2>2, EventAppended, Appended
    <2> HIDE DEF w
    <2>7. Grown(w, wire')
      BY <2>2, <2>5, <2>6, EventAppended DEF Grown
    <2>8. Grown(wire, wire')
      BY <2>6, <2>7 DEF Grown
    <2> QED BY <1>0, <2>3, <2>8
  <1>3. CASE CourtChange
    <2>1. CourtEvent(court + 1) \in Messages /\ CourtEvent(court + 1).type = "court"
      BY EventsAreMessages, EventsAreNoAnswers DEF BoardTypes, ServerTypes
    <2>2. wire' = wire \/ wire' = Append(wire, CourtEvent(court + 1))
      BY <1>3, CourtSent
    <2>3. heard' = heard
      BY <1>3 DEF CourtChange
    <2>4. Grown(wire, wire')
      <3>1. ASSUME NEW e \in Messages, e.type # "snapshot", wire' = Append(wire, e) PROVE Grown(wire, wire')
        BY <1>0, <3>1, EventAppended
      <3>2. CASE wire' = wire
        BY <1>0, <3>2
      <3> QED BY <2>1, <2>2, <3>1, <3>2
    <2> QED BY <1>0, <2>3, <2>4
  <1>4. CASE ScoreChange
    <2>1. /\ ScoreEvent(score + 1, pollRev + 1) \in Messages
          /\ ScoreEvent(score + 1, pollRev + 1).type = "score"
      BY EventsAreMessages, EventsAreNoAnswers DEF BoardTypes, ServerTypes
    <2>2. wire' = wire \/ wire' = Append(wire, ScoreEvent(score + 1, pollRev + 1))
      BY <1>4, ScoreSent
    <2>3. heard' = heard
      BY <1>4 DEF ScoreChange
    <2>4. Grown(wire, wire')
      <3>1. ASSUME NEW e \in Messages, e.type # "snapshot", wire' = Append(wire, e) PROVE Grown(wire, wire')
        BY <1>0, <3>1, EventAppended
      <3>2. CASE wire' = wire
        BY <1>0, <3>2
      <3> QED BY <2>1, <2>2, <3>1, <3>2
    <2> QED BY <1>0, <2>3, <2>4
  <1>5. CASE Subscribed
    <2>1. PICK e \in Messages :
           /\ wire' = Append(wire, e) /\ heard' = heard + 1 /\ heard' \in 1..4
           /\ heard' = 1 => e = ScoreEvent(score, pollRev)
           /\ heard' = 2 => e = CourtEvent(court)
           /\ heard' = 3 => e.type = "table" /\ e.table = "matches"
           /\ heard' = 4 => e.type = "table" /\ e.table = "players"
      BY <1>5, StateSent
    <2>4. heard' \in {1, 2, 3, 4}
      BY <2>1
    <2>5. (heard' = 1 => e.type = "score") /\ (heard' = 2 => e.type = "court")
      BY <2>1, EventsAreNoAnswers
    <2>6. e.type # "snapshot"
      BY <2>1, <2>4, <2>5
    <2>7. /\ Grown(wire, wire')
          /\ heard' = 3 => Untold(wire', "matches")
          /\ heard' = 4 => Untold(wire', "players")
      BY <1>0, <2>1, <2>6, EventAppended
    <2> QED BY <1>0, <2>1, <2>7
  <1> QED BY <1>1, <1>2, <1>3, <1>4, <1>5 DEF Tables

LEMMA ReloadsSent ==
  ASSUME BoardTypes
  PROVE  /\ Reload("matches") /\ heard >= 3 => Untold(wire', "matches")
         /\ Reload("players") /\ heard = 4 => Untold(wire', "players")
  <1>0. wire \in Seq(Messages) /\ heard \in 0..4
    BY DEF BoardTypes, LinkTypes
  <1>1. ASSUME Reload("players"), heard = 4 PROVE Untold(wire', "players")
    <2>1. PICK rev \in Nat : wire' = Append(wire, TableEvent("players", rev))
      BY <1>1, PlayersSent
    <2>2. TableEvent("players", rev) \in Messages
      BY EventsAreMessages DEF Tables
    <2> QED BY <1>0, <2>1, <2>2, EventAppended, EventsAreNoAnswers
  <1>2. ASSUME Reload("matches"), heard >= 3 PROVE Untold(wire', "matches")
    <2>1. PICK rev \in Nat :
            LET w == IF heard >= 3 THEN Append(wire, TableEvent("matches", rev)) ELSE wire
            IN wire' = IF heard >= 1 THEN Append(w, ScoreEvent(score + 1, pollRev)) ELSE w
      BY <1>2, MatchesSent
    <2> DEFINE e == TableEvent("matches", rev)
               f == ScoreEvent(score + 1, pollRev)
               w == Append(wire, e)
    <2>2. e \in Messages /\ f \in Messages /\ e.type = "table" /\ e.table = "matches"
      BY EventsAreMessages, EventsAreNoAnswers DEF Tables, BoardTypes, ServerTypes
    <2>3. wire' = Append(w, f)
      BY <1>0, <1>2, <2>1
    <2> HIDE DEF e, f
    <2>4. w \in Seq(Messages) /\ Untold(w, "matches")
      BY <1>0, <2>2, EventAppended, Appended
    <2> HIDE DEF w
    <2> QED BY <2>2, <2>3, <2>4, EventAppended
  <1> QED BY <1>1, <1>2

\* A page that says nothing and waits for no answer that could be displayed claims nothing of the tables.
LEMMA NothingClaimed ==
  ASSUME ~synced', ~Counts' \/ (NoAnswer(wire') /\ ask' # "reading"), store'.players <= people'
  PROVE  MatchesTold' /\ PlayersTold'
  BY DEF MatchesTold, PlayersTold, NoAnswer, Answers, Counts, Untold

LEMMA MatchesKept ==
  ASSUME MatchesTold, heard' >= 3 => heard >= 3, Grown(wire, wire'),
         store'.matches = store.matches, UNCHANGED <<synced, board, flying, superseded>>
  PROVE  MatchesTold'
  BY DEF MatchesTold, Counts, Grown, Untold

LEMMA PlayersKept ==
  ASSUME PlayersTold, heard' = 4 => heard = 4, Grown(wire, wire'), ask' = "reading" => ask = "reading" /\ read' = read,
         store'.players = store.players, UNCHANGED <<people, synced, board, flying, superseded>>
  PROVE  PlayersTold'
  BY DEF PlayersTold, Counts, Grown, Untold

LEMMA TablesHeard ==
  ASSUME BoardTypes, Asking, MatchesTold, PlayersTold, Hear
  PROVE  MatchesTold' /\ PlayersTold'
  <1> DEFINE m == Head(wire)
  <1>0. wire \in Seq(Messages) /\ wire # <<>> /\ wire' = Tail(wire) /\ UNCHANGED <<people, store, heard, ask, read>>
    BY DEF BoardTypes, LinkTypes, Hear, serverVars
  <1>1. CASE m.type = "table" /\ queueSnapshot
    <2>1. ~synced' /\ ~Counts'
      BY <1>1 DEF queueSnapshot, timers, Counts, Asking, BoardTypes, PageTypes
    <2>2. store'.players <= people'
      BY <1>0 DEF PlayersTold
    <2> QED BY <2>1, <2>2, NothingClaimed
  <1>2. CASE /\ m.type # "table" /\ UNCHANGED <<timers, synced>>
             /\ board'.matches = board.matches /\ board'.players = board.players
    <2>1. UNCHANGED <<synced, flying, superseded>>
      BY <1>2 DEF timers
    <2>2. /\ \A t : Untold(wire, t) => Untold(wire', t)
          /\ \A n \in DOMAIN wire' : n + 1 \in DOMAIN wire /\ wire'[n] = wire[n + 1]
      BY <1>0, <1>2, EventTaken
    <2>3. MatchesTold'
      BY <1>0, <1>2, <2>1, <2>2 DEF MatchesTold, Counts, Untold
    <2>4. PlayersTold'
      BY <1>0, <1>2, <2>1, <2>2 DEF PlayersTold, Counts, Untold
    <2> QED BY <2>3, <2>4
  <1>3. CASE m.type = "score" /\ handleScoreEvent(m) /\ UNCHANGED <<timers, synced>>
    <2>1. board'.matches = board.matches /\ board'.players = board.players
      BY <1>3 DEF handleScoreEvent, events, BoardTypes, PageTypes
    <2> QED BY <1>2, <1>3, <2>1
  <1>4. CASE m.type = "court" /\ handleScoreboardStateEvent(m) /\ UNCHANGED <<timers, synced>>
    <2>1. board'.matches = board.matches /\ board'.players = board.players
      BY <1>4 DEF handleScoreboardStateEvent, BoardTypes, PageTypes
    <2> QED BY <1>2, <1>4, <2>1
  <1> QED BY <1>1, <1>3, <1>4 DEF Hear, handleTableInvalidation

LEMMA TablesAnswered ==
  ASSUME BoardTypes, Asking, Linking, MatchesTold, PlayersTold, Answered
  PROVE  MatchesTold' /\ PlayersTold'
  <1> DEFINE m == Head(wire)
  <1>0. wire \in Seq(Messages) /\ wire # <<>> /\ wire' = Tail(wire) /\ UNCHANGED <<people, store, heard, read>>
        /\ m.type \in Answers /\ ask = "answered" /\ Settled(m)
    BY DEF BoardTypes, LinkTypes, Answered, serverVars
  <1>1. NoAnswer(wire')
    BY <1>0, TakenAnswers DEF Linking
  <1>2. flying /\ ~synced /\ store'.players <= people'
    BY <1>0 DEF Asking, PlayersTold, BoardTypes, PageTypes
  <1>3. CASE Rendered(m)
    <2>1. m.type = "snapshot" /\ ~superseded /\ renderSnapshot(m) /\ flying' = FALSE
      BY <1>3 DEF Rendered
    <2>2. board'.matches = m.matches /\ board'.players = m.players
      BY <2>1 DEF renderSnapshot
    <2>3. \A t : Untold(wire, t) => Untold(wire', t)
      BY <1>0, <2>1, EventTaken
    <2>4. 1 \in DOMAIN wire /\ wire[1] = m
      BY <1>0, Taken
    <2>5. heard >= 3 /\ ~Untold(wire', "matches") => m.matches = store.matches
      BY <1>2, <2>1, <2>3, <2>4 DEF MatchesTold, Counts
    <2>6. heard = 4 /\ ~Untold(wire', "players") /\ store.players = people => m.players = people
      BY <1>2, <2>1, <2>3, <2>4 DEF PlayersTold, Counts
    <2>7. MatchesTold'
      BY <1>0, <2>1, <2>2, <2>5 DEF MatchesTold, Counts, Untold
    <2>8. PlayersTold'
      BY <1>0, <1>2, <2>1, <2>2, <2>6 DEF PlayersTold, Counts, Untold
    <2> QED BY <2>7, <2>8
  <1>4. CASE Outrun(m)
    <2>1. synced' = synced /\ ask' \in {"none", "waiting"}
      BY <1>4 DEF Outrun, Begin
    <2> QED BY <1>1, <1>2, <2>1, NothingClaimed
  <1>5. CASE Caught(m)
    <2>1. synced' = FALSE /\ flying' = FALSE
      BY <1>5 DEF Caught
    <2> QED BY <1>2, <2>1, NothingClaimed DEF Counts
  <1> QED BY <1>0, <1>3, <1>4, <1>5 DEF Settled

LEMMA TablesToldPreserved ==
  ASSUME BoardTypes, Asking, Linking, MatchesTold, PlayersTold, ScoreboardNext
  PROVE  MatchesTold' /\ PlayersTold'
  <1>0. wire \in Seq(Messages) /\ heard \in 0..4 /\ people \in Nat /\ store.players \in Nat /\ store.players <= people
    BY DEF BoardTypes, LinkTypes, ServerTypes, PlayersTold
  <1>1. Grown(wire, wire)
    BY DEF Grown
  <1>2. CASE PeopleChange
    <2>1. UNCHANGED <<wire, heard, store, synced, board, flying, superseded>> /\ people' = people + 1
      BY <1>2 DEF PeopleChange, pageVars, timers
    <2>2. MatchesTold'
      BY <1>1, <2>1, MatchesKept
    <2>3. store'.players <= people' /\ store'.players # people'
      BY <1>0, <2>1
    <2> QED BY <2>2, <2>3 DEF PlayersTold
  <1>3. CASE Reload("players")
    <2>1. UNCHANGED <<people, heard, ask, read, synced, board, flying, superseded>> /\ store' = [store EXCEPT !.players = people]
      BY <1>3 DEF Reload, pageVars, timers
    <2>2. Grown(wire, wire') /\ (heard = 4 => Untold(wire', "players"))
      BY <1>3, EventsSent, ReloadsSent DEF Tables
    <2>3. store'.matches = store.matches /\ store'.players = people
      BY <2>1 DEF BoardTypes, ServerTypes
    <2>4. MatchesTold'
      BY <2>1, <2>2, <2>3, MatchesKept
    <2>5. PlayersTold'
      BY <1>0, <2>1, <2>2, <2>3 DEF PlayersTold, Untold
    <2> QED BY <2>4, <2>5
  <1>4. CASE Reload("matches")
    <2>1. UNCHANGED <<people, heard, ask, read, synced, board, flying, superseded>> /\ store'.players = store.players
      BY <1>4 DEF Reload, pageVars, timers, BoardTypes, ServerTypes
    <2>2. Grown(wire, wire') /\ (heard >= 3 => Untold(wire', "matches"))
      BY <1>4, EventsSent, ReloadsSent DEF Tables
    <2>3. MatchesTold'
      BY <2>1, <2>2 DEF MatchesTold, Untold
    <2>4. PlayersTold'
      BY <2>1, <2>2, PlayersKept
    <2> QED BY <2>3, <2>4
  <1>5. CASE CourtChange \/ ScoreChange
    <2>1. UNCHANGED <<people, store, heard, ask, read, synced, board, flying, superseded>>
      BY <1>5 DEF CourtChange, ScoreChange, pageVars, timers
    <2>2. Grown(wire, wire')
      BY <1>5, EventsSent
    <2> QED BY <2>1, <2>2, MatchesKept, PlayersKept
  <1>6. CASE Subscribed
    <2>1. UNCHANGED <<people, store, ask, read, synced, board, flying, superseded>>
      BY <1>6 DEF Subscribed, serverVars, pageVars, timers
    <2>2. /\ Grown(wire, wire')
          /\ heard' = 3 /\ heard < 3 => Untold(wire', "matches")
          /\ heard' = 4 /\ heard < 4 => Untold(wire', "players")
          /\ heard' \in 0..4 /\ heard' >= heard /\ heard' <= heard + 1
      BY <1>6, EventsSent
    <2>3. MatchesTold'
      <3>1. CASE heard >= 3
        BY <2>1, <2>2, <3>1, MatchesKept
      <3>2. CASE heard < 3
        <4>1. heard' >= 3 => heard' = 3
          BY <1>0, <2>2, <3>2
        <4> QED BY <2>2, <3>2, <4>1 DEF MatchesTold, Untold
      <3> QED BY <1>0, <3>1, <3>2
    <2>4. PlayersTold'
      <3>1. CASE heard = 4
        BY <2>1, <2>2, <3>1, PlayersKept
      <3>2. CASE heard < 4
        BY <1>0, <2>1, <2>2, <3>2 DEF PlayersTold, Untold
      <3> QED BY <1>0, <3>1, <3>2
    <2> QED BY <2>3, <2>4
  <1>7. CASE ReadPlayers
    <2>1. UNCHANGED <<wire, heard, people, store, synced, board, flying, superseded>> /\ ask = "sent" /\ read' = people
      BY <1>7 DEF ReadPlayers, serverVars, pageVars, timers
    <2>2. ~synced /\ NoAnswer(wire)
      BY <2>1 DEF Asking, Linking
    <2>3. MatchesTold'
      BY <1>1, <2>1, MatchesKept
    <2>4. PlayersTold'
      BY <1>0, <2>1, <2>2 DEF PlayersTold, NoAnswer, Answers, Untold, Counts
    <2> QED BY <2>3, <2>4
  <1>8. CASE AnswerSnapshot
    <2>1. UNCHANGED <<heard, people, store, read, synced, board, flying, superseded>> /\ ask = "reading" /\ ask' = "answered"
      BY <1>8 DEF AnswerSnapshot, serverVars, pageVars, timers
    <2>2. ~synced /\ NoAnswer(wire)
      BY <2>1 DEF Asking, Linking
    <2>3. CASE wire' = Append(wire, Snapshot)
      <3>1. Snapshot.matches = store.matches /\ Snapshot.players = read
        BY DEF Snapshot
      <3>2. /\ \A t : Untold(wire, t) => Untold(wire', t)
            /\ \A n \in DOMAIN wire' : (n \in DOMAIN wire /\ wire'[n] = wire[n]) \/ wire'[n] = Snapshot
        BY <1>0, <2>3, SnapshotIsMessage, EventAppended
      <3>3. \A n \in DOMAIN wire' : wire'[n].type = "snapshot" => wire'[n].matches = store.matches /\ wire'[n].players = read
        BY <2>2, <3>1, <3>2 DEF NoAnswer, Answers
      <3>4. MatchesTold'
        BY <2>1, <2>2, <3>2, <3>3 DEF MatchesTold, Untold, Counts
      <3>5. PlayersTold'
        BY <2>1, <2>2, <3>2, <3>3 DEF PlayersTold, Untold, Counts
      <3> QED BY <3>4, <3>5
    <2>4. ASSUME NEW type \in {"error", "malformed"}, wire' = Append(wire, [type |-> type])
          PROVE  MatchesTold' /\ PlayersTold'
      <3>1. [type |-> type] \in Messages /\ [type |-> type].type # "snapshot"
        BY DEF Messages
      <3>2. Grown(wire, wire')
        BY <1>0, <2>4, <3>1, EventAppended
      <3> QED BY <2>1, <3>2, MatchesKept, PlayersKept
    <2> QED BY <1>8, <2>3, <2>4 DEF AnswerSnapshot
  <1>9. CASE drainSnapshots
    <2>1. timer /\ ask' = "waiting" /\ UNCHANGED <<wire, people, store, synced>>
      BY <1>9 DEF drainSnapshots, Begin, serverVars
    <2>2. ~synced /\ ask = "none"
      BY <2>1 DEF Asking
    <2>3. NoAnswer(wire')
      BY <2>1, <2>2 DEF Linking
    <2> QED BY <1>0, <2>1, <2>2, <2>3, NothingClaimed
  <1>10. CASE RetryDue \/ refreshAfterResume
    <2>1. queueSnapshot /\ UNCHANGED <<people, store, failed>>
      BY <1>10 DEF RetryDue, refreshAfterResume, serverVars
    <2>2. ~synced' /\ ~Counts'
      BY <2>1 DEF queueSnapshot, timers, Counts, Asking, BoardTypes, PageTypes
    <2> QED BY <1>0, <2>1, <2>2, NothingClaimed
  <1>11. CASE SendRequest
    <2>1. UNCHANGED <<wire, heard, people, store, synced, board, flying, superseded>> /\ ask' = "sent"
      BY <1>11 DEF SendRequest, serverVars, pageVars, timers
    <2> QED BY <1>1, <2>1, MatchesKept, PlayersKept
  <1>12. CASE Hear
    BY <1>12, TablesHeard
  <1>13. CASE Answered
    BY <1>13, TablesAnswered
  <1>14. CASE Disconnect \/ ServerRestarts
    <2>1. heard' = 0 /\ store'.players <= people'
      BY <1>0, <1>14 DEF Disconnect, ServerRestarts, Cut, serverVars, BoardTypes, ServerTypes
    <2> QED BY <2>1 DEF MatchesTold, PlayersTold
  <1>15. CASE StillDown \/ GivenUp \/ Connect
    <2>1. heard' = 0 /\ store'.players <= people'
      BY <1>0, <1>15 DEF StillDown, GivenUp, Connect, Linking, serverVars
    <2> QED BY <2>1 DEF MatchesTold, PlayersTold
  <1> QED BY <1>2, <1>3, <1>4, <1>5, <1>6, <1>7, <1>8, <1>9, <1>10, <1>11, <1>12, <1>13, <1>14, <1>15
      DEF ScoreboardNext, Tables

-----------------------------------------------------------------------------
LEMMA InitBoardIInv == ScoreboardInit => BoardIInv
  <1> SUFFICES ASSUME ScoreboardInit PROVE BoardIInv
    OBVIOUS
  <1>1. BoardTypes
    <2>1. ServerTypes
      BY DEF ScoreboardInit, ServerTypes
    <2>2. /\ linked \in BOOLEAN /\ drawn \in BOOLEAN /\ synced \in BOOLEAN /\ failed \in BOOLEAN
          /\ timer \in BOOLEAN /\ retry \in BOOLEAN /\ flying \in BOOLEAN /\ queued \in BOOLEAN
          /\ superseded \in BOOLEAN /\ courtMoved \in BOOLEAN /\ scoreMoved \in BOOLEAN
      BY Zenon DEF ScoreboardInit
    <2>3. /\ lastCourt \in CourtEvents \cup {Missing} /\ lastScore \in ScoreEvents \cup {Missing} /\ seen \in Nat
          /\ required \in [Tables -> Nat]
          /\ board \in [players : Nat, matches : Nat, court : Nat, score : Nat]
      BY DEF ScoreboardInit
    <2>4. PageTypes
      BY <2>2, <2>3, Zenon DEF PageTypes
    <2>5. LinkTypes
      <3>1. <<>> \in Seq(Messages)
        OBVIOUS
      <3> QED BY <3>1 DEF ScoreboardInit, LinkTypes
    <2> QED BY <2>1, <2>4, <2>5 DEF BoardTypes
  <1>2. Asking /\ KeepsTrying
    <2>1. ~linked /\ ~synced /\ ~failed /\ ~timer /\ ~flying /\ ask = "none"
      BY Zenon DEF ScoreboardInit
    <2> QED BY <2>1 DEF Asking, KeepsTrying
  <1>3. linked = FALSE /\ heard = 0 /\ store.players <= people
    BY DEF ScoreboardInit
  <1>4. ScoresTold /\ CourtsTold /\ ScoresInOrder /\ MatchesTold /\ PlayersTold
    BY <1>3 DEF ScoresTold, CourtsTold, ScoresInOrder, MatchesTold, PlayersTold
  <1>5. Linking
    BY DEF ScoreboardInit, Linking, OneAnswer, NoAnswer
  <1> QED BY <1>1, <1>2, <1>4, <1>5 DEF BoardIInv

LEMMA BoardIInvPreserved == BoardIInv /\ [ScoreboardNext]_boardVars => BoardIInv'
  <1> SUFFICES ASSUME BoardIInv, [ScoreboardNext]_boardVars PROVE BoardIInv'
    OBVIOUS
  <1>1. CASE ScoreboardNext
    BY <1>1, BoardTypesPreserved, AskingPreserved, LinkingPreserved, ScoresToldPreserved, CourtsToldPreserved,
       ScoresInOrderPreserved, TablesToldPreserved DEF BoardIInv
  <1>2. CASE UNCHANGED boardVars
    <2>1. BoardTypes'
      BY <1>2 DEF BoardIInv, boardVars, serverVars, pageVars, timers, events,
                  BoardTypes, ServerTypes, PageTypes, LinkTypes
    <2>2. Asking' /\ KeepsTrying' /\ Linking'
      BY <1>2 DEF BoardIInv, boardVars, serverVars, pageVars, timers, events, Asking, KeepsTrying, Linking,
                  OneAnswer, NoAnswer
    <2>3. UNCHANGED <<wire, heard, score, pollRev, court, lastScore, lastCourt, drawn, board, linked, seen,
                      store, people, synced, flying, superseded, ask, read>>
      BY <1>2 DEF boardVars, serverVars, pageVars, timers, events
    <2>4. ScoresTold' /\ CourtsTold'
      BY <2>3 DEF BoardIInv, ScoresTold, CourtsTold, SnapshotsTell, LastIn, NoneIn, FollowedIn, ScoreEvent, CourtEvent
    <2>5. ScoresInOrder'
      BY <2>3 DEF BoardIInv, ScoresInOrder, Ordered, Within
    <2>6. MatchesTold' /\ PlayersTold'
      BY <2>3 DEF BoardIInv, MatchesTold, PlayersTold, Counts, Untold
    <2> QED BY <2>1, <2>2, <2>4, <2>5, <2>6 DEF BoardIInv
  <1> QED BY <1>1, <1>2

LEMMA BoardIInvSound == BoardIInv => BoardSound
  <1> SUFFICES ASSUME BoardIInv, SaysSynced, heard = Len(Topics), wire = <<>>, store.players = people
               PROVE  board = Truth
    BY DEF BoardSound, SyncedIsTrue, BoardIInv
  <1>1. heard = 4 /\ synced /\ drawn
    BY DEF BoardIInv, Asking, SaysSynced, Topics
  <1>2. \A m : ~LastIn(wire, m)
    BY DEF LastIn
  <1>3. \A t : ~Untold(wire, t)
    BY DEF Untold
  <1>4. board.score = score /\ board.court = court
    BY <1>1, <1>2 DEF BoardIInv, ScoresTold, CourtsTold
  <1>5. board.matches = store.matches /\ board.players = people
    BY <1>1, <1>3 DEF BoardIInv, MatchesTold, PlayersTold
  <1>6. board \in [players : Nat, matches : Nat, court : Nat, score : Nat]
    BY DEF BoardIInv, BoardTypes, PageTypes
  <1> QED BY <1>4, <1>5, <1>6 DEF Truth

(***************************************************************************)
(* The theorems.                                                           *)
(***************************************************************************)
LEMMA Inductive == Spec => []IInv
<1>1. IInv /\ [Next]_vars => IInv'
  BY TypesPreserved, OnePollPreserved, ShowsPreserved DEF IInv
<1> QED BY InitIInv, <1>1, PTL DEF Spec

\* The variables of the poller, its poll, the requests and the database keep their types.
THEOREM Typed == Spec => []TypeOK
<1>1. IInv => TypeOK
  BY DEF IInv, Types
<1> QED BY <1>1, Inductive, PTL

\* Stopping and starting the poller in the middle of a poll (updatePollingState) never
\* leaves two polls ahead, and none only when no court is active; acceptCourtScores shows
\* no score it has not logged, whatever is lost or restarted.
THEOREM PollsOnceAndLogs == Spec => []PollsSoundly
<1>1. IInv => PollsSoundly
  BY DEF IInv, Shows, PollsSoundly
<1> QED BY <1>1, Inductive, PTL

\* When requests come one at a time and nothing fails, the poller follows the courts the database calls
\* active once the request is done, and the database waits for no baseline the poller does not know of
\* (updatePollingState and resetScore after courtService.refresh).
THEOREM PollerFollows == ASSUME OneAtATime PROVE Spec => []PollerAgrees
<1>1. IInv /\ Agrees => PollerAgrees
  <2> SUFFICES ASSUME IInv, Agrees, Quiet, faults = 0
               PROVE  /\ on = active
                      /\ \A c \in Courts : active[c] /\ awaiting[c] /\ pc # "baselining"
                                             => waiting[c] /\ baseline[c] = None
    BY DEF PollerAgrees
  <2>1. OnAgrees /\ BaselineAgrees /\ \A h \in Handlers, c \in Courts : ~Behind(h, c)
    BY DEF Agrees, Quiet, Behind
  <2>2. on \in [Courts -> BOOLEAN] /\ active \in [Courts -> BOOLEAN] /\ \A c \in Courts : on[c] = active[c]
    BY <2>1 DEF OnAgrees, IInv, Types, TypeOK, DisplayTypes, DbTypes, Flags
  <2>3. on = active
    BY <2>2
  <2> QED BY <2>1, <2>3 DEF BaselineAgrees
<1>2. IInv /\ Agrees /\ [Next]_vars => Agrees'
  BY AgreesPreserved
<1> QED BY <1>1, <1>2, InitAgrees, Inductive, PTL DEF Spec

\* The page that shows the courts: while it says that it is synchronised and nothing is on its way to it, it
\* displays what there is, and otherwise it is about to ask again; for any number of changes of courts, scores,
\* matches and players, lost connections, restarts of the server, failed answers and resumptions.
THEOREM DisplaysWhatThereIs == ScoreboardSpec => []BoardSound
  BY InitBoardIInv, BoardIInvPreserved, BoardIInvSound, PTL DEF ScoreboardSpec
=============================================================================
