----------------------------- MODULE Tournament ------------------------------
(***************************************************************************)
(* The matches of one competition other than a ranking: knock-out brackets *)
(* and groups.  Appointments, results, corrections and their withdrawal    *)
(* (Backend/postgresPlayService.js), what the profile offers               *)
(* (Backend/dataProvider.js, Frontend/JS/modals.js), and the page with the *)
(* bracket and the group tables (bewerbsRaster.js, RoundRobin.js).         *)
(*                                                                         *)
(* A write is one serializable transaction, hence one step on `rows`.  The *)
(* profile and the comparison of fingerprints read `cache`, the projection *)
(* in memory, which follows some time later.  A dialog keeps what it was   *)
(* opened with.  Of the times only what decides is kept: whether the       *)
(* appointment is ahead, four hours ago at most, or longer.  Doubles and   *)
(* byes are left out; operationIds and lost answers are in WritePipeline.  *)
(***************************************************************************)
EXTENDS Results

CONSTANTS Users, Admins, Players, Open, None,
          Format,        \* the match type
          Brackets,      \* the competitions looked at, see CompetitionInit
          MaxLoads       \* bound: loads of the page

\* Matches have two sides and no result yet.  A match feeds one place of another match, no place is fed twice
\* (play.match_progressions), and nobody sits there yet; in a bracket the fed match is the only one at the
\* place that follows.  Nobody is drawn twice: those who can come to one side of a match cannot come to the other.
ASSUME BracketsAssumption ==
  \A b \in Brackets :
    LET matches == DOMAIN b.seats
    IN /\ b.size \in Nat /\ b.writes \in Nat /\ b.watched \in BOOLEAN /\ b.users \subseteq Users
       /\ b.seats \in [matches -> [{1, 2} -> Players \cup {Open}]]
       /\ \A m \in matches : b.at[m].round \in 0..b.size
       /\ b.moments \subseteq {"ahead", "lately", "long"}
       /\ b.drawn \in [matches -> [{1, 2} -> SUBSET Players]]
       /\ \A m \in matches : /\ \A side \in {1, 2} : b.seats[m][side] \in b.drawn[m][side] \cup {Open}
                             /\ b.drawn[m][1] \cap b.drawn[m][2] = {}
       /\ DOMAIN b.feeds \subseteq matches
       /\ \A m \in DOMAIN b.feeds :
            LET t == b.feeds[m]
                next == Successor(b.at[m].round, b.at[m].slot)
            IN /\ t.match \in matches \ {m} /\ t.side \in {1, 2} /\ b.seats[t.match][t.side] = Open
               /\ b.drawn[m][1] \cup b.drawn[m][2] \subseteq b.drawn[t.match][t.side]
               /\ b.at[m].round < b.size
               /\ {f \in matches : b.at[f] = [round |-> next.round, slot |-> next.slot]} = {t.match}
       /\ \A m, n \in DOMAIN b.feeds :
            b.feeds[m].match = b.feeds[n].match /\ b.feeds[m].side = b.feeds[n].side => m = n
       /\ \A c \in b.completions : c.kind \in {"regular", "retirement", "walkover"} /\ c.losingSide \in 0..2

VARIABLES competition,   \* the competition looked at (never changes)
          rows,          \* play.matches with participants and current result
          elapsed,       \* of each match with an appointment: "ahead", "lately" (within four hours) or "long" ago
          cache,         \* the projection of `rows` in memory
          dialogs,       \* the open dialog of each user, or None
          informed,      \* matches whose missing follow-up administrators were told of
          page,          \* the page: its view, what it shows, its loads
          writes,        \* committed transactions, see competition.writes
          blind,         \* history: something was written from a dialog that was out of date
          displaced      \* history: a place was changed under an appointment or a result

tournamentVars == <<competition, rows, elapsed, cache, dialogs, informed, page, writes, blind, displaced>>

(***************************************************************************)
(* A competition: where each match stands ([round, slot], round 0 in a     *)
(* group), who plays, 2^size places, which match feeds which place         *)
(* (play.match_progressions), who can come to which place by the draw      *)
(* (drawn), the completions and moments of appointments that are tried.    *)
(***************************************************************************)
InGroups == competition.size = 0
Linked(m) == m \in DOMAIN competition.feeds
Target(m) == competition.feeds[m]       \* [match, side]

Undecided == [kind |-> "none", losingSide |-> 0, sets |-> <<>>, winner |-> 0, end |-> "none"]
Completed(row) == row.result.kind # "none"
Winner(row) == row.seats[row.result.winner]
Empty(seats) == [seats |-> seats, dated |-> FALSE, result |-> Undecided, recent |-> FALSE]

\* The matches at the place koRoundSuccessor names, {} for a final.
FollowUps(m) ==
  LET at == competition.at[m]
      next == Successor(at.round, at.slot)
  IN IF InGroups \/ at.round = competition.size THEN {}
     ELSE {f \in DOMAIN rows : competition.at[f] = [round |-> next.round, slot |-> next.slot]}

\* What a dialog keeps of a match (matchCompletionFingerprint): not the appointment.
Fingerprint(row) == <<row.seats, row.result>>

-----------------------------------------------------------------------------
(***************************************************************************)
(* What the profile of a player offers, from the cache.                    *)
(***************************************************************************)

CorrectionBlocked(ms, m) ==
  \E f \in FollowUps(m) : /\ Cardinality(FollowUps(m)) = 1
                          /\ Completed(ms[f]) \/ ms[f].dated

Seated(row) == row.seats[1] # Open /\ row.seats[2] # Open
Concerned(user, row) == user \in Admins \/ user \in {row.seats[1], row.seats[2]}

CanSetResult(ms, user, m) ==
  /\ Seated(ms[m]) /\ Concerned(user, ms[m])
  /\ Completed(ms[m]) => /\ ~CorrectionBlocked(ms, m)
                         /\ user \in Admins \/ ms[m].recent
CanSetAppointment(ms, user, m) == Seated(ms[m]) /\ ~Completed(ms[m]) /\ Concerned(user, ms[m])
CanClearAppointment(ms, user, m) == CanSetAppointment(ms, user, m) /\ ms[m].dated
CanAdminClear(ms, user, m) ==
  Seated(ms[m]) /\ user \in Admins /\ Completed(ms[m]) /\ ~CorrectionBlocked(ms, m)
CanAdminSetMatchEnd(ms, user, m) ==
  Seated(ms[m]) /\ user \in Admins /\ Completed(ms[m]) /\ ms[m].result.end # "none"

Offered(ms, user, m) ==
  {action \in {"result", "appoint", "cancel", "clear", "end"} :
     CASE action = "result"  -> CanSetResult(ms, user, m)
       [] action = "appoint" -> CanSetAppointment(ms, user, m)
       [] action = "cancel"  -> CanClearAppointment(ms, user, m)
       [] action = "clear"   -> CanAdminClear(ms, user, m)
       [] action = "end"     -> CanAdminSetMatchEnd(ms, user, m)}

\* A first regular result needs an appointment.
OffersRegular(row) == Completed(row) \/ row.dated

\* The dialog: what it keeps of the match, and whether it sends start and end with a result (`times`).
DialogOf(ms, action, m) ==
  [action |-> action, match |-> m, seen |-> Fingerprint(ms[m]), regular |-> OffersRegular(ms[m]),
   times |-> ~Completed(ms[m]),
   current |-> cache = rows]              \* history: nothing changed since

OpenDialog(user) ==
  /\ dialogs[user] = None
  /\ \E m \in DOMAIN rows : \E action \in Offered(cache, user, m) :
       dialogs' = [dialogs EXCEPT ![user] = DialogOf(cache, action, m)]
  /\ UNCHANGED <<competition, rows, elapsed, cache, informed, page, writes, blind, displaced>>

CloseDialog(user) ==
  /\ dialogs[user] # None
  /\ dialogs' = [dialogs EXCEPT ![user] = None]
  /\ UNCHANGED <<competition, rows, elapsed, cache, informed, page, writes, blind, displaced>>

-----------------------------------------------------------------------------
(***************************************************************************)
(* The transactions.                                                       *)
(***************************************************************************)
Current(dialog) == Fingerprint(cache[dialog.match]) = dialog.seen

Commit(user, after) ==
  /\ writes < competition.writes
  /\ writes' = writes + 1
  /\ rows' = after
  /\ blind' = (blind \/ ~dialogs[user].current)
  /\ displaced' = (displaced \/ \E m \in DOMAIN rows :
                     /\ rows[m].seats # after[m].seats
                     /\ rows[m].dated \/ Completed(rows[m]))
  /\ dialogs' = [u \in Users |-> IF u = user \/ dialogs[u] = None THEN None
                                 ELSE [dialogs[u] EXCEPT !.current = FALSE]]
  /\ UNCHANGED <<competition, cache, page>>

\* Mutant: a winner who is already seated is not replaced.
MutSeatedNext(ms, m, person) ==
  IF Linked(m) /\ ms[Target(m).match].seats[Target(m).side] = Open
    THEN [ms EXCEPT ![Target(m).match].seats[Target(m).side] = person] ELSE ms

\* The place that the match feeds is given to `person`.
SeatedNext(ms, m, person) ==
  IF Linked(m) THEN [ms EXCEPT ![Target(m).match].seats[Target(m).side] = person] ELSE ms

\* Mutant: a second result is refused.
MutMayEnter(user, row) == Concerned(user, row) /\ ~Completed(row)

\* Everybody, administrators too, corrects within an hour of the entry only.
MayEnter(user, row) == Concerned(user, row) /\ (Completed(row) => row.recent)

\* The dialog of an open match sends start and end (`times`); they replace the appointment.
AppointmentKept(times, completion, row) == completion.kind = "regular" => row.dated \/ times

EndOf(completion) == IF completion.kind = "walkover" THEN "none" ELSE "entered"
\* The constraints of match_participants: a place of a person has a person, no person twice.
Consistent(ms) ==
  \A m \in DOMAIN ms : Seated(ms[m]) => ms[m].seats[1] # ms[m].seats[2]

MissingFollowUp(m) == ~Linked(m) /\ ~InGroups /\ competition.at[m].round < competition.size

\* A play may not end before it began and, unconfirmed, not last longer than four hours. The dialog of an open
\* match asks for its times until they pass; without them the play lasts from the appointment until now.
DurationAllowed(times, completion, row, since) ==
  completion.kind # "walkover" /\ row.dated /\ ~times => since = "lately"

Entered(ms, m, completion) ==
  LET result == [kind |-> completion.kind, losingSide |-> completion.losingSide, sets |-> completion.sets,
                 winner |-> ValidateCompletion(completion, Format).winnerSide, end |-> EndOf(completion)]
      entered == [ms EXCEPT ![m] = [@ EXCEPT !.result = result, !.recent = TRUE]]
  IN SeatedNext(entered, m, entered[m].seats[result.winner])

\* Every check of the transaction; the last two are constraints of the database.
Accepts(dialog, user, completion) ==
  LET m == dialog.match
      verdict == ValidateCompletion(completion, Format)
  IN /\ Current(dialog)
     /\ MayEnter(user, rows[m])
     /\ AppointmentKept(dialog.times, completion, rows[m])
     /\ verdict.valid
     /\ DurationAllowed(dialog.times, completion, rows[m], elapsed[m])
     /\ Linked(m) => rows[m].seats[verdict.winnerSide] # Open
     /\ Consistent(Entered(rows, m, completion))

EnterResult(dialog, user, completion) ==
  LET m == dialog.match
  IN /\ Accepts(dialog, user, completion)
     /\ Commit(user, Entered(rows, m, completion))
     /\ informed' = IF MissingFollowUp(m) THEN informed \cup {m} ELSE informed
     /\ UNCHANGED elapsed

SetAppointment(dialog, user) ==
  LET m == dialog.match
  IN /\ Concerned(user, rows[m]) /\ ~Completed(rows[m])
     /\ Commit(user, [rows EXCEPT ![m].dated = dialog.action = "appoint"])
     /\ \E since \in competition.moments : elapsed' = [elapsed EXCEPT ![m] = since]
     /\ UNCHANGED informed

ClearResult(dialog, user) ==
  LET m == dialog.match
      cleared == [rows EXCEPT ![m] = [@ EXCEPT !.result = Undecided, !.recent = FALSE]]
  IN /\ user \in Admins /\ Current(dialog) /\ Completed(rows[m])
     /\ Commit(user, SeatedNext(cleared, m, Open))
     /\ UNCHANGED <<informed, elapsed>>

SetMatchEnd(dialog, user) ==
  LET m == dialog.match
  IN /\ user \in Admins /\ Current(dialog) /\ Completed(rows[m])
     /\ Commit(user, [rows EXCEPT ![m].result.end = "set"])
     /\ UNCHANGED <<informed, elapsed>>

Submit(user) ==
  /\ dialogs[user] # None
  /\ LET dialog == dialogs[user]
     IN \/ /\ dialog.action = "result"
           /\ \E completion \in competition.completions :
                /\ completion.kind = "regular" => dialog.regular
                /\ EnterResult(dialog, user, completion)
        \/ dialog.action \in {"appoint", "cancel"} /\ SetAppointment(dialog, user)
        \/ dialog.action = "clear" /\ ClearResult(dialog, user)
        \/ dialog.action = "end" /\ SetMatchEnd(dialog, user)

\* The hour after a result was entered is over.
HourPasses(m) ==
  /\ Completed(rows[m]) /\ rows[m].recent /\ Completed(cache[m])
  /\ rows' = [rows EXCEPT ![m].recent = FALSE]
  /\ cache' = [cache EXCEPT ![m].recent = FALSE]
  /\ UNCHANGED <<competition, elapsed, dialogs, informed, page, writes, blind, displaced>>

\* The appointment comes, and goes by.
AppointmentPasses(m) ==
  /\ rows[m].dated /\ elapsed[m] # "long"
  /\ elapsed' = [elapsed EXCEPT ![m] = IF @ = "ahead" THEN "lately" ELSE "long"]
  /\ UNCHANGED <<competition, rows, cache, dialogs, informed, page, writes, blind, displaced>>

-----------------------------------------------------------------------------
(***************************************************************************)
(* The page: the bracket, and in a competition with groups the tables.     *)
(***************************************************************************)
Loading(p, view, id) == [p EXCEPT !.loads = @ \cup {[view |-> view, id |-> id, data |-> None]}, !.last = id,
                                  !.generation = IF view = "group" THEN id ELSE @]

\* An invalidation loads the present view; the group view is emptied first.
Reload(p) == LET q == Loading(p, p.view, p.last + 1)
             IN IF p.view = "group" THEN [q EXCEPT !.shown = None] ELSE q

Refresh ==
  /\ cache # rows
  /\ cache' = rows
  /\ page' = IF competition.watched THEN Reload(page) ELSE page
  /\ UNCHANGED <<competition, rows, elapsed, dialogs, informed, writes, blind, displaced>>

Switch ==
  /\ competition.watched /\ page.last < MaxLoads
  /\ page' = IF page.view = "bracket" THEN Reload([page EXCEPT !.view = "group"])
             ELSE Reload([page EXCEPT !.view = "bracket", !.generation = 0])
  /\ UNCHANGED <<competition, rows, elapsed, cache, dialogs, informed, writes, blind, displaced>>

ReadMatches(load) ==
  /\ load.data = None
  /\ page' = [page EXCEPT !.loads = (@ \ {load}) \cup {[load EXCEPT !.data = cache]}]
  /\ UNCHANGED <<competition, rows, elapsed, cache, dialogs, informed, writes, blind, displaced>>

\* Mutant: what was read is shown if the view is still the same.
MutUpToDate(load) == load.view = page.view
\* The group tables show only the newest load, the bracket shows every one.
UpToDate(load) == IF load.view = "group" THEN load.id = page.generation ELSE load.view = page.view

Winners(ms) == [m \in DOMAIN ms |-> IF ~Completed(ms[m]) THEN Open
                                    ELSE ms[m].seats[GroupWinner(ms[m].result)]]
Pairings(ms) ==
  [m \in DOMAIN ms |-> [top |-> ms[m].seats[1], bottom |-> ms[m].seats[2], dated |-> ms[m].dated,
     winner |-> IF ~Completed(ms[m]) THEN Open ELSE ms[m].seats[BracketWinner(ms[m].result)]]]

Show(load) ==
  /\ load.data # None
  /\ page' = [page EXCEPT !.loads = @ \ {load},
                          !.shown = IF ~UpToDate(load) THEN @
                                    ELSE IF load.view = "group" THEN Winners(load.data)
                                    ELSE Pairings(load.data)]
  /\ UNCHANGED <<competition, rows, elapsed, cache, dialogs, informed, writes, blind, displaced>>

\* Both attempts of a read failed: an emptied group view stays empty.
LoadFails(load) ==
  /\ load.data = None /\ ~page.failed
  /\ page' = [page EXCEPT !.loads = @ \ {load}, !.failed = TRUE]
  /\ UNCHANGED <<competition, rows, elapsed, cache, dialogs, informed, writes, blind, displaced>>

-----------------------------------------------------------------------------
TournamentInit ==
  /\ competition \in Brackets
  /\ rows = [m \in DOMAIN competition.seats |-> Empty(competition.seats[m])]
  /\ cache = rows
  /\ elapsed = [m \in DOMAIN rows |-> "ahead"]
  /\ dialogs = [u \in Users |-> None]
  /\ page = [view |-> "bracket", shown |-> Pairings(rows), loads |-> {}, last |-> 0, generation |-> 0,
             failed |-> FALSE]
  /\ informed = {} /\ writes = 0 /\ blind = FALSE /\ displaced = FALSE

TournamentNext ==
  \/ \E u \in competition.users : OpenDialog(u) \/ CloseDialog(u) \/ Submit(u)
  \/ \E m \in DOMAIN rows : HourPasses(m) \/ AppointmentPasses(m)
  \/ Refresh
  \/ Switch
  \/ \E load \in page.loads : ReadMatches(load) \/ Show(load) \/ LoadFails(load)

TournamentSpec == TournamentInit /\ [][TournamentNext]_tournamentVars

-----------------------------------------------------------------------------
(***************************************************************************)
(* As long as every dialog that wrote was up to date: the winner of every  *)
(* decided match sits at the place it feeds, no place is taken by anybody  *)
(* else, and where no place is fed administrators were told, unless it was *)
(* a final or a group match.  (Progression and correction,                 *)
(* postgresPlayService.js:380; the protection in the profile,              *)
(* dataProvider.js:489.)                                                   *)
(***************************************************************************)
WinnersGoOn ==
  ~blind => \A m \in DOMAIN rows :
    /\ Linked(m) => rows[Target(m).match].seats[Target(m).side]
                      = (IF Completed(rows[m]) THEN Winner(rows[m]) ELSE Open)
    /\ Completed(rows[m]) /\ ~Linked(m) /\ ~InGroups /\ m \notin informed
         => competition.at[m].round = competition.size

(***************************************************************************)
(* As long as every dialog that wrote was up to date, nobody is put into   *)
(* or taken out of a match that is dated or already has a result: the      *)
(* protection the profile offers (dataProvider.js:534) is enough for one   *)
(* user after the other.                                                   *)
(***************************************************************************)
NobodyDisplaced == ~blind => ~displaced
BracketKept == WinnersGoOn /\ NobodyDisplaced

(***************************************************************************)
(* What a current profile offers the server accepts (dataProvider.js:700   *)
(* against postgresPlayService.js:331), its database's constraints         *)
(* included: a dialog opened now, and sent before anybody else writes,     *)
(* with valid times and a valid result of a kind it lets choose, is never  *)
(* refused. There are three exceptions, all of corrections: administrators *)
(* are offered them for ever, and they are accepted for one hour; a        *)
(* walkover or a retirement without appointment is offered to be corrected *)
(* into a regular result; and the dialog of a correction sends no times,   *)
(* so that it is accepted only during the four hours after the             *)
(* appointment.                                                            *)
(***************************************************************************)
OfferedIsAccepted ==
  cache = rows =>
    \A user \in competition.users, m \in DOMAIN rows, completion \in competition.completions :
      /\ CanSetResult(cache, user, m) /\ ValidateCompletion(completion, Format).valid
      /\ completion.kind = "regular" => OffersRegular(cache[m])
      => \/ Accepts(DialogOf(cache, "result", m), user, completion)
         \/ /\ Completed(rows[m])
            /\ \/ user \in Admins /\ ~rows[m].recent
               \/ completion.kind = "regular" /\ ~rows[m].dated
               \/ completion.kind # "walkover" /\ rows[m].dated /\ elapsed[m] # "lately"

(***************************************************************************)
(* When everything has arrived, the group view shows the winners of the    *)
(* present results, however many loads crossed each other                  *)
(* (renderGeneration, RoundRobin.js:476); only a load that failed twice    *)
(* leaves it empty.  The bracket has no such guard.                        *)
(***************************************************************************)
GroupCurrent ==
  page.view = "group" /\ cache = rows /\ ~page.failed
    /\ (\A load \in page.loads : load.view # "group" \/ load.id # page.generation)
    => page.shown = Winners(rows)
=============================================================================
