---------------------------- MODULE CourtAutomation ----------------------------
(***************************************************************************)
(* The courts follow their matches: the automation of the server           *)
(* (Backend/postgresCourtAutomation.js) turns a court on when the match    *)
(* assigned to it is due and off when the match has a result, from cached  *)
(* courts and cached matches, while an operator assigns and switches       *)
(* courts from his own, older view (navigatorList.js). It looks again when *)
(* it is woken by a change of either or by its one timer. A tick is the    *)
(* time after which it tries again what has failed (five seconds).         *)
(***************************************************************************)
EXTENDS Integers, FiniteSets, Sequences

CONSTANTS CourtCount,   \* courts are numbered
          Fixtures,     \* matches that can be assigned
          AutoScenes,   \* [plan, bounds]: date and result of each match at first, and the bounds: overlays an
                        \* operator opens, changes of matches, faults
          Grace,        \* ticks after its date during which a match still starts
          LastTick,     \* bound: the last tick
          Unassigned

ASSUME AutomationAssumption ==
  /\ CourtCount \in Nat /\ Grace \in Nat /\ LastTick \in Nat /\ Unassigned \notin Fixtures
  /\ \A s \in AutoScenes : s.plan \in [Fixtures -> [date : Nat, completed : BOOLEAN]]

VARIABLES
  plan,       \* play.matches: [date, completed]; without an appointment the date is 0
  known,      \* the matches in the server's cached table
  courtRows,  \* per court [match, status, on, revision, serial]: the court and its assignment, which has a serial
  courtCache, \* the cache of the court service
  reads,      \* refreshes of it under way, for the operator, the automation and an invalidation
  auto,       \* the automation: its round, what it read for it, and the change it is making
  timerAt,    \* its timer, 0 without one
  today,
  desk,       \* the overlay of the operator
  verdict,    \* history: per court the assignment the automation changed last, and how often it turned it on
  astray,     \* history: it has not been woken by an operator's change, or an older read was installed last
  quota       \* what the bounds leave

autoVars == <<plan, known, courtRows, courtCache, reads, auto, timerAt, today, desk, verdict, astray, quota>>

-----------------------------------------------------------------------------
PlaysOn == 1..CourtCount
AllCourts == [i \in PlaysOn |-> i]
Readers == {"desk", "automation", "invalidation"}
NoRead == [step |-> "none", rows |-> <<>>]
NoChange == [step |-> "none", at |-> 0, on |-> "keep", status |-> "none"]
Round(table, rows, now) == [running |-> TRUE, again |-> FALSE, left |-> AllCourts, table |-> table, rows |-> rows,
                            now |-> now, next |-> 0, change |-> NoChange]
NoDesk == [step |-> "closed", at |-> 0, kind |-> "none", revision |-> 0, offers |-> {}, match |-> Unassigned,
           on |-> "keep"]

Use(what) == quota[what] > 0 /\ quota' = [quota EXCEPT ![what] = @ - 1]
Earlier(a, b) == IF a = 0 \/ b < a THEN b ELSE a

(***************************************************************************)
(* The rows of a court.                                                    *)
(***************************************************************************)
\* replaceCourtAssignment: every match is assigned as pending; the court stays as active as it is.
Assigned(row, match) ==
  [row EXCEPT !.match = match, !.status = IF match = Unassigned THEN "none" ELSE "pending",
              !.serial = @ + 1, !.revision = @ + 1]
\* setCourtActive and updateCourtAutomation, which leaves the activity alone when it is NULL.
Switched(row, on) == [row EXCEPT !.on = IF on = "keep" THEN @ ELSE on = "on", !.revision = @ + 1]
\* updateCourtAutomation also marks the assignment, if there is one.
Marked(row, on, status) == [Switched(row, on) EXCEPT !.status = IF @ = "none" THEN @ ELSE status]

(***************************************************************************)
(* What the automation makes of one court.                                 *)
(***************************************************************************)
Change(c, on, status) == [step |-> "audit", at |-> c, on |-> on, status |-> status]
Idle(row, match) ==
  \/ row.match = Unassigned
  \/ match.completed /\ row.status = "finished" /\ ~row.on
  \/ ~match.completed /\ row.status \in {"activated", "finished"}
Ahead(row, match, now) == ~Idle(row, match) /\ ~match.completed /\ match.date > now
Decision(c, row, match, now) ==
  IF Idle(row, match) \/ Ahead(row, match, now) THEN NoChange
  ELSE IF match.completed THEN Change(c, "off", "finished")
  ELSE IF match.date = 0 THEN IF row.status = "unscheduled" THEN NoChange ELSE Change(c, "keep", "unscheduled")
  ELSE IF now - match.date > Grace THEN IF row.status = "expired" THEN NoChange ELSE Change(c, "keep", "expired")
  ELSE IF row.status = "pending" THEN Change(c, "on", "activated") ELSE NoChange
MatchOf(table, row) == IF row.match = Unassigned THEN [date |-> 0, completed |-> FALSE] ELSE table[row.match]

(***************************************************************************)
(* reconcile: a round over all courts, on copies; while one is under way   *)
(* another is only noted.                                                  *)
(***************************************************************************)
reconcile(table, rows) ==
  IF auto.running THEN auto' = [auto EXCEPT !.again = TRUE] /\ UNCHANGED timerAt
  ELSE /\ auto' = Round(table, rows, today)
       /\ timerAt' = 0
\* A round that begins with the courts as they are puts it right.
Awake(rows) == astray' = (astray /\ (auto.running \/ rows # courtRows))

Consider ==
  /\ auto.running /\ auto.change.step = "none" /\ auto.left # <<>>
  /\ LET c == Head(auto.left)
         row == auto.rows[c]
         match == MatchOf(auto.table, row)
     IN auto' = [auto EXCEPT !.left = Tail(@), !.change = Decision(c, row, match, auto.now),
                             !.next = IF Ahead(row, match, auto.now) THEN Earlier(@, match.date) ELSE @]
  /\ UNCHANGED <<plan, known, courtRows, courtCache, reads, timerAt, today, desk, verdict, astray, quota>>

\* A change that fails is tried again after a tick, in another round.
TriedAgain == [auto EXCEPT !.change = NoChange, !.next = Earlier(@, auto.now + 1)]

\* The first audit entry; without it nothing is changed.
AuditStarts ==
  /\ auto.change.step = "audit"
  /\ \/ auto' = [auto EXCEPT !.change.step = "commit"] /\ UNCHANGED quota
     \/ auto' = TriedAgain /\ Use("faults")
  /\ UNCHANGED <<plan, known, courtRows, courtCache, reads, timerAt, today, desk, verdict, astray>>

Outdated(c) == courtRows[c].revision # auto.rows[c].revision
Noted(c, on) == [serial |-> auto.rows[c].serial,
                 starts |-> (IF verdict[c].serial = auto.rows[c].serial THEN verdict[c].starts ELSE 0)
                              + (IF on = "on" THEN 1 ELSE 0)]
\* Mutant: the automation does not compare the revision it decided on.
MutChanges(c) ==
  /\ courtRows' = [courtRows EXCEPT ![c] = Marked(@, auto.change.on, auto.change.status)]
  /\ verdict' = [verdict EXCEPT ![c] = Noted(c, auto.change.on)]
Changes(c) ==
  /\ ~Outdated(c)
  /\ courtRows' = [courtRows EXCEPT ![c] = Marked(@, auto.change.on, auto.change.status)]
  /\ verdict' = [verdict EXCEPT ![c] = Noted(c, auto.change.on)]

\* The transaction refuses an outdated revision, fails, or has an unknown outcome.
updateAutomation ==
  /\ auto.change.step = "commit"
  /\ LET c == auto.change.at IN
     \/ /\ Changes(c)
        /\ auto' = [auto EXCEPT !.change.step = "refresh"]
        /\ reads' = [reads EXCEPT !["automation"] = [NoRead EXCEPT !.step = "asked"]]
        /\ UNCHANGED quota
     \/ Outdated(c) /\ auto' = TriedAgain /\ UNCHANGED <<courtRows, verdict, reads, quota>>
     \/ /\ (Changes(c) \/ UNCHANGED <<courtRows, verdict>>)
        /\ auto' = TriedAgain /\ Use("faults") /\ UNCHANGED reads
  /\ UNCHANGED <<plan, known, courtCache, timerAt, today, desk, astray>>

\* The poller is told, and the second audit entry written.
ChangeDone ==
  /\ auto.change.step = "done"
  /\ \/ auto' = [auto EXCEPT !.change = NoChange] /\ UNCHANGED quota
     \/ auto' = TriedAgain /\ Use("faults")
  /\ UNCHANGED <<plan, known, courtRows, courtCache, reads, timerAt, today, desk, verdict, astray>>

\* Mutant: what woke the automation during its round is forgotten.
MutRoundEnds ==
  /\ auto.running /\ auto.change.step = "none" /\ auto.left = <<>>
  /\ auto' = [auto EXCEPT !.running = FALSE, !.again = FALSE]
  /\ timerAt' = auto.next
  /\ UNCHANGED <<plan, known, courtRows, courtCache, reads, today, desk, verdict, astray, quota>>
RoundEnds ==
  /\ auto.running /\ auto.change.step = "none" /\ auto.left = <<>>
  /\ auto' = [auto EXCEPT !.running = FALSE, !.again = FALSE]
  /\ timerAt' = IF auto.again THEN today ELSE auto.next
  /\ UNCHANGED <<plan, known, courtRows, courtCache, reads, today, desk, verdict, astray, quota>>

AutomationTimer ==
  /\ timerAt # 0 /\ timerAt <= today
  /\ reconcile(known, courtCache) /\ Awake(courtCache)
  /\ UNCHANGED <<plan, known, courtRows, courtCache, reads, today, desk, verdict, quota>>

(***************************************************************************)
(* The caches.                                                             *)
(***************************************************************************)
\* The projection of the matches is loaded again.
MatchesRefreshed ==
  /\ known # plan
  /\ known' = plan
  /\ reconcile(plan, courtCache) /\ Awake(courtCache)
  /\ UNCHANGED <<plan, courtRows, courtCache, reads, today, desk, verdict, quota>>

\* An invalidation makes the court service read the courts again, and tells nobody.
CourtsInvalidated ==
  /\ courtCache # courtRows /\ reads["invalidation"].step = "none"
  /\ reads' = [reads EXCEPT !["invalidation"] = [NoRead EXCEPT !.step = "asked"]]
  /\ UNCHANGED <<plan, known, courtRows, courtCache, auto, timerAt, today, desk, verdict, astray, quota>>

RefreshReads(k) ==
  /\ reads[k].step = "asked"
  /\ reads' = [reads EXCEPT ![k] = [step |-> "read", rows |-> courtRows]]
  /\ UNCHANGED <<plan, known, courtRows, courtCache, auto, timerAt, today, desk, verdict, astray, quota>>

Older(rows) == \E c \in PlaysOn : rows[c].revision < courtCache[c].revision
\* Whoever has written a court tells that it has changed, when it has read the courts again.
refresh(k) ==
  LET rows == reads[k].rows IN
  /\ reads[k].step = "read"
  /\ reads' = [reads EXCEPT ![k] = NoRead]
  /\ courtCache' = rows
  /\ \/ /\ k = "desk" /\ reconcile(known, rows) /\ desk' = NoDesk
        /\ astray' = (Older(rows) \/ (astray /\ (auto.running \/ rows # courtRows)))
     \/ /\ k = "automation" /\ auto' = [auto EXCEPT !.again = TRUE, !.change.step = "done"]
        /\ astray' = (astray \/ Older(rows)) /\ UNCHANGED <<timerAt, desk>>
     \/ /\ k = "invalidation" /\ UNCHANGED <<auto, timerAt, desk>>
        /\ astray' = (astray \/ Older(rows))
  /\ UNCHANGED <<plan, known, courtRows, today, verdict, quota>>

\* The courts cannot be read: whoever waits for them fails, although what he wrote is there.
RefreshFails(k) ==
  /\ reads[k].step = "asked" /\ Use("faults")
  /\ reads' = [reads EXCEPT ![k] = NoRead]
  /\ auto' = IF k = "automation" THEN TriedAgain ELSE auto
  /\ desk' = IF k = "desk" THEN [desk EXCEPT !.step = "failed"] ELSE desk
  /\ astray' = (astray \/ k = "desk")
  /\ UNCHANGED <<plan, known, courtRows, courtCache, timerAt, today, verdict>>

(***************************************************************************)
(* The operator: an overlay with the matches and the revisions of one      *)
(* moment, and after an error with a newer revision, if it can be read.    *)
(***************************************************************************)
OpenOverlay(c, kind) ==
  /\ desk = NoDesk /\ Use("opens")
  /\ desk' = [step |-> "open", at |-> c, kind |-> kind, revision |-> courtCache[c].revision,
              offers |-> {m \in Fixtures : ~known[m].completed}, match |-> Unassigned,
              on |-> IF kind = "assign" THEN "keep" ELSE IF courtCache[c].on THEN "off" ELSE "on"]
  /\ UNCHANGED <<plan, known, courtRows, courtCache, reads, auto, timerAt, today, verdict, astray>>

Submit(m) ==
  /\ desk.step = "open" /\ m \in desk.offers \cup {Unassigned} /\ (desk.kind = "switch" => m = Unassigned)
  /\ desk' = [desk EXCEPT !.step = "sent", !.match = m]
  /\ UNCHANGED <<plan, known, courtRows, courtCache, reads, auto, timerAt, today, verdict, astray, quota>>

Written == courtRows' = [courtRows EXCEPT ![desk.at] = IF desk.kind = "assign" THEN Assigned(@, desk.match)
                                               ELSE Switched(@, desk.on)]
assignOrSetActive ==
  /\ desk.step = "sent"
  /\ \/ /\ courtRows[desk.at].revision = desk.revision /\ Written
        /\ desk' = [desk EXCEPT !.step = "saved"]
        /\ reads' = [reads EXCEPT !["desk"] = [NoRead EXCEPT !.step = "asked"]]
        /\ UNCHANGED <<astray, quota>>
     \/ /\ courtRows[desk.at].revision # desk.revision
        /\ desk' = [desk EXCEPT !.step = "failed"]
        /\ UNCHANGED <<courtRows, reads, astray, quota>>
     \/ /\ Use("faults") /\ desk' = [desk EXCEPT !.step = "failed"] /\ UNCHANGED reads
        /\ \/ courtRows[desk.at].revision = desk.revision /\ Written /\ astray' = TRUE
           \/ UNCHANGED <<courtRows, astray>>
  /\ UNCHANGED <<plan, known, courtCache, auto, timerAt, today, verdict>>

refreshCourtRevision ==
  /\ desk.step = "failed"
  /\ \/ desk' = [desk EXCEPT !.step = "open", !.revision = courtCache[desk.at].revision,
                             !.on = IF @ = "keep" THEN @ ELSE IF courtCache[desk.at].on THEN "off" ELSE "on"]
     \/ desk' = NoDesk
  /\ UNCHANGED <<plan, known, courtRows, courtCache, reads, auto, timerAt, today, verdict, astray, quota>>

(***************************************************************************)
(* The world.                                                              *)
(***************************************************************************)
\* An appointment is made, moved or cleared, a result entered or removed.
MatchChanges(m) ==
  /\ Use("plans")
  /\ \E date \in 0..LastTick, completed \in BOOLEAN :
       /\ [date |-> date, completed |-> completed] # plan[m]
       /\ plan' = [plan EXCEPT ![m] = [date |-> date, completed |-> completed]]
  /\ UNCHANGED <<known, courtRows, courtCache, reads, auto, timerAt, today, desk, verdict, astray>>

Passes ==
  /\ today < LastTick /\ today' = today + 1
  /\ UNCHANGED <<plan, known, courtRows, courtCache, reads, auto, timerAt, desk, verdict, astray, quota>>

\* A new process reads everything and looks at once.
Restarts ==
  /\ Use("faults")
  /\ known' = plan /\ courtCache' = courtRows /\ reads' = [k \in Readers |-> NoRead]
  /\ auto' = Round(plan, courtRows, today)
  /\ timerAt' = 0 /\ astray' = FALSE
  /\ desk' = IF desk.step \in {"sent", "saved"} THEN [desk EXCEPT !.step = "failed"] ELSE desk
  /\ UNCHANGED <<plan, courtRows, today, verdict>>

AutomationInit ==
  /\ \E s \in AutoScenes : plan = s.plan /\ quota = s.bounds
  /\ known = plan
  /\ courtRows = [c \in PlaysOn |-> [match |-> Unassigned, status |-> "none", on |-> FALSE, revision |-> 1,
                                      serial |-> 0]]
  /\ courtCache = courtRows /\ reads = [k \in Readers |-> NoRead]
  /\ auto = Round(plan, courtRows, 1)
  /\ timerAt = 0 /\ today = 1 /\ desk = NoDesk
  /\ verdict = [c \in PlaysOn |-> [serial |-> 0, starts |-> 0]]
  /\ astray = FALSE

AutomationNext ==
  \/ Consider \/ AuditStarts \/ updateAutomation \/ ChangeDone \/ RoundEnds \/ AutomationTimer
  \/ MatchesRefreshed \/ CourtsInvalidated
  \/ \E k \in Readers : RefreshReads(k) \/ refresh(k) \/ RefreshFails(k)
  \/ \E c \in PlaysOn, kind \in {"assign", "switch"} : OpenOverlay(c, kind)
  \/ \E m \in Fixtures \cup {Unassigned} : Submit(m)
  \/ assignOrSetActive \/ refreshCourtRevision
  \/ \E m \in Fixtures : MatchChanges(m)
  \/ Passes \/ Restarts

AutomationSpec == AutomationInit /\ [][AutomationNext]_autoVars

-----------------------------------------------------------------------------
\* What one court still needs, from the rows and the table as they are: to be switched, or its assignment judged.
Wants(c) ==
  LET decision == Decision(c, courtRows[c], MatchOf(plan, courtRows[c]), today)
  IN decision # NoChange /\ (decision.on # "keep" \/ courtRows[c].status = "pending")
Awaits(c) == Ahead(courtRows[c], MatchOf(plan, courtRows[c]), today)
UpToDate == ~astray /\ known = plan /\ courtCache = courtRows /\ reads["desk"].step = "none"

(***************************************************************************)
(* No court is forgotten: whatever the order of rounds, wakes, refreshes   *)
(* and failures, as soon as the caches are current a court that should be  *)
(* turned on or off, or whose appointment has passed, is being looked at   *)
(* or will be within a tick, and one whose match is still to come will be  *)
(* looked at by then. And every assignment is judged for itself: the mark  *)
(* on it was set for it and not for the one before, and the automation     *)
(* turns it on at most once, whatever the operator does afterwards.        *)
(* The first half does not speak of a server that is `astray`: a change    *)
(* of an operator has been committed but its outcome or the read after it  *)
(* failed, so that the automation was not woken (an invalidation installs  *)
(* the courts without waking it, postgresCourtService.js:48-53), or an     *)
(* older read of the courts was installed after a newer one.               *)
(***************************************************************************)
NoneForgotten ==
  UpToDate /\ ~auto.running =>
    \A c \in PlaysOn : /\ Wants(c) => timerAt \in 1..(today + 1)
                       /\ Awaits(c) => timerAt \in 1..MatchOf(plan, courtRows[c]).date
JudgedForItself ==
  \A c \in PlaysOn : /\ courtRows[c].status \notin {"none", "pending"} => verdict[c].serial = courtRows[c].serial
                     /\ verdict[c].starts <= 1
CourtsFollow == NoneForgotten /\ JudgedForItself
================================================================================
