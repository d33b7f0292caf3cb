---------------------------- MODULE CourtScores ----------------------------
(***************************************************************************)
(* The live scores of the courts: the poller that reads an external score  *)
(* source (Backend/courtPoller.js), the court rows and the log of scores   *)
(* in the database (postgresCourtService.js, venueRepository.js), and the  *)
(* requests that assign and activate courts (dataProvider.js,              *)
(* postgresCourtAutomation.js).                                            *)
(*                                                                         *)
(* The poller keeps its own copy of what is active and of which court      *)
(* still needs a baseline; database and poller are changed one after the   *)
(* other, with other requests and polls in between. A score is one value.  *)
(***************************************************************************)
EXTENDS Naturals

CONSTANTS Courts,      \* numbers; an answer of the source is worked through in their order
          Scores,      \* the scores of a match
          Zero,        \* the score of a court that has been reset
          Handlers,    \* requests, automation and invalidations under way at a time
          MaxOps,      \* bound: changes of courts, and refreshes an invalidation asks for
          MaxFaults,   \* bound: failed statements, unknown commits, crashes
          MaxOutages,  \* bound: failed fetches
          None

ASSUME CourtsAssumption == Courts \subseteq Nat
ASSUME ScoresAssumption == Zero \in Scores /\ None \notin Scores
ASSUME BoundsAssumption == MaxOps \in Nat /\ MaxFaults \in Nat /\ MaxOutages \in Nat

VARIABLES active, awaiting, revision, logged,          \* database, per court
          cache,                                       \* of the court service
          task, step, rows,                            \* per handler
          on, epoch, waiting, baseline, suppress, shown, startup,  \* poller, per court
          armed, pc, cancelled, onAtStart, epochAtStart,  \* its timer and its poll
          answer, left, merged, changed,
          source, ops, faults, outages

db == <<active, awaiting, revision, logged>>
requests == <<cache, task, step, rows>>
display == <<on, epoch, waiting, baseline, suppress, shown, startup>>
fetch == <<onAtStart, epochAtStart, answer>>
poll == <<pc, fetch, left, merged, changed>>
vars == <<db, requests, display, armed, cancelled, poll, source, ops, faults, outages>>

Kinds == {"assign", "activate", "automation", "invalidation"}
Rows == [active : [Courts -> BOOLEAN], revision : [Courts -> Nat]]
CourtRows == [active |-> active, revision |-> revision]
Fault == faults < MaxFaults /\ faults' = faults + 1

Init == /\ active = [c \in Courts |-> FALSE] /\ awaiting = [c \in Courts |-> FALSE]
        /\ revision = [c \in Courts |-> 1] /\ logged = [c \in Courts |-> {}]
        /\ cache = CourtRows
        /\ task = [h \in Handlers |-> None] /\ step = [h \in Handlers |-> "idle"]
        /\ rows = [h \in Handlers |-> CourtRows]
        /\ on = [c \in Courts |-> FALSE] /\ epoch = [c \in Courts |-> 0]
        /\ waiting = [c \in Courts |-> FALSE] /\ baseline = [c \in Courts |-> None]
        /\ suppress = [c \in Courts |-> FALSE] /\ shown = [c \in Courts |-> Zero]
        /\ startup = [c \in Courts |-> None]
        /\ armed = FALSE /\ pc = "idle" /\ cancelled = FALSE
        /\ onAtStart = on /\ epochAtStart = epoch
        /\ answer = shown /\ left = {} /\ merged = shown /\ changed = FALSE
        /\ source = [c \in Courts |-> Zero]
        /\ ops = 0 /\ faults = 0 /\ outages = 0

Running == \E c \in Courts : on[c]

\* The poller works through an answer without an await: nothing else runs meanwhile.
Busy == pc = "accepting"

(***************************************************************************)
(* What requests do to the poller.                                         *)
(***************************************************************************)
\* setCourtActive and updatePollingState
Follow(now, initial) ==
  LET turned == {c \in Courts : now[c] # on[c]}
      run == \E c \in Courts : now[c]
  IN /\ on' = now
     /\ epoch' = [c \in Courts |-> IF c \in turned THEN epoch[c] + 1 ELSE epoch[c]]
     /\ baseline' = [c \in Courts |-> IF c \in turned THEN None ELSE baseline[c]]
     /\ waiting' = [c \in Courts |-> IF c \in turned THEN now[c] /\ ~initial ELSE waiting[c]]
     /\ suppress' = [c \in Courts |-> IF c \in turned THEN now[c] /\ initial ELSE suppress[c]]
     /\ armed' = IF run = Running THEN armed ELSE run
     /\ cancelled' = (cancelled \/ (run # Running /\ pc # "idle"))
     /\ UNCHANGED <<shown, startup>>

\* Mutant: the poller goes on with the source's score instead of waiting for a new one.
MutResetScore(c) ==
  /\ epoch' = [epoch EXCEPT ![c] = @ + 1]
  /\ baseline' = [baseline EXCEPT ![c] = None]
  /\ suppress' = [suppress EXCEPT ![c] = FALSE]
  /\ shown' = [shown EXCEPT ![c] = Zero]
  /\ UNCHANGED <<on, waiting, startup, armed, cancelled>>
ResetScore(c) ==
  /\ epoch' = [epoch EXCEPT ![c] = @ + 1]
  /\ baseline' = [baseline EXCEPT ![c] = None]
  /\ waiting' = [waiting EXCEPT ![c] = on[c]]
  /\ suppress' = [suppress EXCEPT ![c] = FALSE]
  /\ shown' = [shown EXCEPT ![c] = Zero]
  /\ UNCHANGED <<on, startup, armed, cancelled>>

(***************************************************************************)
(* Requests: transaction, refresh of the cache, then the poller. A client  *)
(* sends the revision it has seen and toggles what it has seen.            *)
(***************************************************************************)
Request(h, c, kind) ==
  /\ step[h] = "idle" /\ ~Busy
  /\ ops < MaxOps /\ ops' = ops + 1
  /\ \E value \in BOOLEAN \union {None} :
       /\ kind = "activate" => value = ~cache.active[c]
       /\ kind \in {"assign", "invalidation"} => value = None
       /\ task' = [task EXCEPT ![h] = [court |-> c, kind |-> kind, value |-> value,
                                       expected |-> cache.revision[c]]]
  /\ step' = [step EXCEPT ![h] = IF kind = "invalidation" THEN "committed" ELSE "begun"]
  /\ UNCHANGED <<db, cache, rows, display, armed, cancelled, poll, source, faults, outages>>

\* replaceCourtAssignment, setCourtActive, updateCourtAutomation (where None is NULL).
Activity(t) == IF t.value = None THEN active[t.court] ELSE t.value

ChangeCourt(t) ==
  LET c == t.court IN
  /\ revision' = [revision EXCEPT ![c] = @ + 1]
  /\ active' = [active EXCEPT ![c] = Activity(t)]
  /\ awaiting' = [awaiting EXCEPT ![c] =
                    CASE t.kind = "assign" -> active[c]
                      [] t.kind = "activate" -> t.value
                      [] t.kind = "automation" -> @ \/ (Activity(t) = TRUE /\ ~active[c])]

Commit(h) ==
  LET t == task[h] IN
  /\ step[h] = "begun" /\ ~Busy
  /\ \/ /\ revision[t.court] = t.expected
        /\ ChangeCourt(t)
        /\ \/ step' = [step EXCEPT ![h] = "committed"] /\ UNCHANGED faults
           \/ Fault /\ step' = [step EXCEPT ![h] = "idle"]
     \/ /\ (revision[t.court] # t.expected /\ UNCHANGED faults) \/ Fault
        /\ step' = [step EXCEPT ![h] = "idle"]
        /\ UNCHANGED <<active, awaiting, revision>>
  /\ UNCHANGED <<logged, cache, task, rows, display, armed, cancelled, poll, source, ops, outages>>

\* courtService.refresh: the query, and the cache that it replaces later.
ReadRows(h) ==
  /\ step[h] = "committed" /\ ~Busy
  /\ \/ step' = [step EXCEPT ![h] = "read"] /\ rows' = [rows EXCEPT ![h] = CourtRows] /\ UNCHANGED faults
     \/ Fault /\ step' = [step EXCEPT ![h] = "idle"] /\ UNCHANGED rows
  /\ UNCHANGED <<db, cache, task, display, armed, cancelled, poll, source, ops, outages>>

ApplyRows(h) ==
  LET t == task[h] IN
  /\ step[h] = "read" /\ ~Busy
  /\ step' = [step EXCEPT ![h] = "idle"]
  /\ cache' = rows[h]
  /\ CASE t.kind = "assign" -> ResetScore(t.court)
       [] t.kind \in {"activate", "automation"} -> Follow(rows[h].active, FALSE)
       [] t.kind = "invalidation" -> UNCHANGED <<display, armed, cancelled>>
  /\ UNCHANGED <<db, task, rows, poll, source, ops, faults, outages>>

(***************************************************************************)
(* The poll.                                                               *)
(***************************************************************************)
StartPoll ==
  /\ armed /\ pc = "idle"
  /\ armed' = FALSE /\ cancelled' = FALSE
  /\ pc' = "fetching" /\ onAtStart' = on /\ epochAtStart' = epoch
  /\ UNCHANGED <<db, requests, display, answer, left, merged, changed, source, ops, faults, outages>>

Answer ==
  /\ pc = "fetching" /\ ~cancelled
  /\ pc' = "accepting" /\ answer' = source /\ left' = Courts
  /\ merged' = shown /\ changed' = FALSE
  /\ UNCHANGED <<db, requests, display, armed, cancelled, onAtStart, epochAtStart, source, ops, faults, outages>>

\* schedule(myGeneration, ...): a poll of an older generation arms nothing.
\* Mutant: a poll that was stopped meanwhile is scheduled again.
MutSchedule == armed' = TRUE
Schedule == armed' = (armed \/ (~cancelled /\ Running))

\* An aborted fetch, or an outage of the source.
FetchFails ==
  /\ pc = "fetching"
  /\ \/ cancelled /\ UNCHANGED outages
     \/ ~cancelled /\ outages < MaxOutages /\ outages' = outages + 1
  /\ pc' = "idle" /\ Schedule
  /\ UNCHANGED <<db, requests, display, cancelled, fetch, left, merged, changed, source, ops, faults>>

NextCourt == CHOOSE c \in left : \A d \in left : c <= d
Current(c) == onAtStart[c] /\ on[c] /\ epochAtStart[c] = epoch[c]

\* One court of acceptCourtScores, as far as the next await.
Look(c) ==
  /\ Busy /\ left # {} /\ c = NextCourt
  /\ \/ /\ ~Current(c) \/ (waiting[c] /\ baseline[c] = answer[c])
        /\ left' = left \ {c}
        /\ UNCHANGED <<pc, merged, changed, waiting, baseline, suppress, startup>>
     \/ /\ Current(c) /\ waiting[c] /\ baseline[c] = None
        /\ baseline' = [baseline EXCEPT ![c] = answer[c]]
        /\ pc' = "baselining"
        /\ UNCHANGED <<left, merged, changed, waiting, suppress, startup>>
     \/ /\ Current(c) /\ (waiting[c] => baseline[c] \notin {None, answer[c]})
        /\ waiting' = [waiting EXCEPT ![c] = FALSE]
        /\ baseline' = IF waiting[c] THEN [baseline EXCEPT ![c] = None] ELSE baseline
        /\ suppress' = [suppress EXCEPT ![c] = FALSE]
        /\ IF merged[c] # answer[c] /\ ~suppress[c]
           THEN /\ pc' = "appending"
                /\ UNCHANGED <<left, merged, changed, startup>>
           ELSE /\ left' = left \ {c}
                /\ merged' = [merged EXCEPT ![c] = answer[c]]
                /\ changed' = (changed \/ merged[c] # answer[c])
                /\ startup' = IF suppress[c] THEN [startup EXCEPT ![c] = answer[c]] ELSE startup
                /\ UNCHANGED pc
  /\ UNCHANGED <<db, requests, on, epoch, shown, armed, cancelled, fetch, source, ops, faults, outages>>

Resume(c) == left' = left \ {c} /\ pc' = "accepting"

\* acceptScoreBaseline; when it throws, the whole poll has failed.
AcceptBaseline ==
  LET c == NextCourt IN
  /\ pc = "baselining"
  /\ \/ /\ active[c]
        /\ awaiting' = [awaiting EXCEPT ![c] = FALSE]
        /\ Resume(c)
        /\ UNCHANGED <<armed, faults>>
     \/ /\ (~active[c] /\ UNCHANGED faults) \/ Fault
        /\ pc' = "idle" /\ Schedule
        /\ UNCHANGED <<awaiting, left>>
  /\ UNCHANGED <<active, revision, logged, requests, display, cancelled, fetch, merged, changed, source, ops, outages>>

\* appendScoreEvent: the transaction, and later its answer.
AppendScore ==
  LET c == NextCourt IN
  /\ pc = "appending"
  /\ \/ /\ active[c] /\ ~awaiting[c]
        /\ logged' = [logged EXCEPT ![c] = @ \union {answer[c]}]
        /\ \/ pc' = "appended" /\ UNCHANGED faults
           \/ Fault /\ pc' = "refused"
     \/ /\ ((~active[c] \/ awaiting[c]) /\ UNCHANGED faults) \/ Fault
        /\ pc' = "refused"
        /\ UNCHANGED logged
  /\ UNCHANGED <<active, awaiting, revision, requests, display, armed, cancelled, fetch, left, merged, changed, source, ops, outages>>

\* Mutant: the score is shown although it could not be logged.
MutAppendAnswered ==
  LET c == NextCourt IN
  /\ pc \in {"appended", "refused"}
  /\ Resume(c)
  /\ merged' = [merged EXCEPT ![c] = answer[c]] /\ changed' = TRUE
  /\ UNCHANGED <<db, requests, display, armed, cancelled, fetch, source, ops, faults, outages>>
\* Mutant: a logged score is not marked as a change.
MutAppendUnmarked ==
  LET c == NextCourt IN
  /\ pc \in {"appended", "refused"}
  /\ Resume(c)
  /\ IF pc = "appended" THEN merged' = [merged EXCEPT ![c] = answer[c]] ELSE UNCHANGED merged
  /\ UNCHANGED <<db, requests, display, armed, cancelled, fetch, changed, source, ops, faults, outages>>
AppendAnswered ==
  LET c == NextCourt IN
  /\ pc \in {"appended", "refused"}
  /\ Resume(c)
  /\ IF pc = "appended"
     THEN merged' = [merged EXCEPT ![c] = answer[c]] /\ changed' = TRUE
     ELSE UNCHANGED <<merged, changed>>
  /\ UNCHANGED <<db, requests, display, armed, cancelled, fetch, source, ops, faults, outages>>

\* lastCourts = [...]: all courts of the copy taken before the awaits.
EndPoll ==
  /\ Busy /\ left = {}
  /\ pc' = "idle" /\ Schedule
  /\ shown' = IF changed THEN merged ELSE shown
  /\ UNCHANGED <<db, requests, on, epoch, waiting, baseline, suppress, startup, cancelled, fetch,
                 left, merged, changed, source, ops, faults, outages>>

PollStep == StartPoll \/ Answer \/ FetchFails \/ (\E c \in Courts : Look(c))
            \/ AcceptBaseline \/ AppendScore \/ AppendAnswered \/ EndPoll

(***************************************************************************)
(* The source, and a restart of the server: courts that the database calls *)
(* active show the first answer at once and without a log entry.           *)
(***************************************************************************)
SourceChanges(c) ==
  /\ ~Busy
  /\ \E s \in Scores \ {source[c]} : source' = [source EXCEPT ![c] = s]
  /\ UNCHANGED <<db, requests, display, armed, cancelled, poll, ops, faults, outages>>

Restart ==
  /\ Fault
  /\ cache' = CourtRows /\ step' = [h \in Handlers |-> "idle"]
  /\ on' = active /\ suppress' = active
  /\ epoch' = [c \in Courts |-> IF active[c] THEN 1 ELSE 0]
  /\ waiting' = [c \in Courts |-> FALSE]
  /\ baseline' = [c \in Courts |-> None] /\ startup' = [c \in Courts |-> None]
  /\ shown' = [c \in Courts |-> Zero]
  /\ armed' = (\E c \in Courts : active[c]) /\ pc' = "idle" /\ cancelled' = FALSE
  /\ UNCHANGED <<db, task, rows, fetch, left, merged, changed, source, ops, outages>>

HandlerStep(h) == Commit(h) \/ ReadRows(h) \/ ApplyRows(h)

Next == \/ \E h \in Handlers, c \in Courts, kind \in Kinds : Request(h, c, kind)
        \/ \E h \in Handlers : HandlerStep(h)
        \/ PollStep
        \/ \E c \in Courts : SourceChanges(c)
        \/ Restart

\* Strong fairness for a request: it is kept waiting by Busy again and again.
Fairness == WF_vars(PollStep) /\ \A h \in Handlers : SF_vars(HandlerStep(h))
Spec == Init /\ [][Next]_vars
FairSpec == Spec /\ Fairness

(***************************************************************************)
(* Properties.                                                             *)
(***************************************************************************)
Tasks == [court : Courts, kind : Kinds, value : BOOLEAN \union {None}, expected : Nat]
Flags == [Courts -> BOOLEAN]
DbTypes == /\ active \in Flags /\ awaiting \in Flags
           /\ revision \in [Courts -> Nat] /\ logged \in [Courts -> SUBSET Scores]
RequestTypes == /\ cache \in Rows /\ rows \in [Handlers -> Rows]
                /\ step \in [Handlers -> {"idle", "begun", "committed", "read"}]
                /\ task \in [Handlers -> Tasks \union {None}]
                /\ \A h \in Handlers : step[h] # "idle" => task[h] \in Tasks
DisplayTypes == /\ on \in Flags /\ waiting \in Flags /\ suppress \in Flags
                /\ epoch \in [Courts -> Nat]
                /\ baseline \in [Courts -> Scores \union {None}]
                /\ startup \in [Courts -> Scores \union {None}]
                /\ shown \in [Courts -> Scores]
PollTypes == /\ pc \in {"idle", "fetching", "accepting", "baselining", "appending", "appended", "refused"}
             /\ armed \in BOOLEAN /\ cancelled \in BOOLEAN /\ changed \in BOOLEAN
             /\ onAtStart \in Flags /\ epochAtStart \in [Courts -> Nat]
             /\ answer \in [Courts -> Scores] /\ merged \in [Courts -> Scores]
             /\ source \in [Courts -> Scores]
             /\ left \subseteq Courts
             /\ pc \in {"baselining", "appending", "appended", "refused"} => left # {}
TypeOK == DbTypes /\ RequestTypes /\ DisplayTypes /\ PollTypes

\* While a court is active there is one next poll, armed or under way, and never two:
\* stopping and starting the poller in the middle of a poll leaves neither none nor two
\* (schedule, updatePollingState and the generation).
OnePollAhead == LET flying == pc # "idle" /\ ~cancelled
                IN /\ Running <=> (armed \/ flying)
                   /\ ~(armed /\ flying)

\* What spectators see is zero, a score in the log, or the first score after a restart
\* (acceptCourtScores logs before it shows, also when the log refuses).
LoggedBeforeShown ==
  \A c \in Courts : shown[c] \in {Zero, startup[c]} \union logged[c]
PollsSoundly == OnePollAhead /\ LoggedBeforeShown

\* Without faults: when no request is under way, the poller follows the courts the database calls active,
\* and knows of every baseline the database still waits for: otherwise the database
\* refuses every score (COURT_AWAITING_BASELINE) and nothing ever changes that.
Quiet == \A h \in Handlers : step[h] = "idle"
PollerAgrees ==
  Quiet /\ faults = 0 =>
    /\ on = active
    /\ \A c \in Courts : active[c] /\ awaiting[c] /\ pc # "baselining" => waiting[c] /\ baseline[c] = None

\* Without faults: a score that the source keeps is shown in the end, once the court's
\* baseline is passed.
ChangeIsShown ==
  \A c \in Courts, s \in Scores :
    <>[](faults = 0 /\ on[c] /\ ~waiting[c] /\ source[c] = s) => <>[](shown[c] = s)
=============================================================================
