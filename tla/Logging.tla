-------------------------------- MODULE Logging --------------------------------
(***************************************************************************)
(* The administration of the browser diagnostics: who may switch them on,  *)
(* how far they go, and for whom they go further for a while               *)
(* (adminLogging.js, frontendLoggingService.js,                            *)
(* postgresFrontendLoggingService.js, identityRepository.js).              *)
(*                                                                         *)
(* The server answers from a snapshot it keeps in memory.  A write changes *)
(* the database first and that snapshot afterwards; a change of somebody's *)
(* identity data makes the server read the snapshot anew, in two queries.  *)
(* The settings are one value here, a target is the revision that set it,  *)
(* and targets do not run out.                                             *)
(***************************************************************************)
EXTENDS Naturals, FiniteSets

CONSTANTS Consoles,          \* the open administration pages
          Subjects,           \* people a target may be set for
          Departed,          \* those of them who are not active any more
          Modes,             \* values of the settings
          LoggingScenes      \* bounds: saves, faults, refreshes, news, reloads

VARIABLES tables,            \* the settings and targets of the database, with their revisions
          snapshot,          \* the snapshot the service keeps of them
          refreshes,         \* refresh() under way
          consoles,          \* what each page has in memory
          loads, orders,     \* requests of the pages under way
          allowance,         \* bounds
          astray             \* history: the snapshot may miss a write until it is read anew

LoggingAssumption == Departed \subseteq Subjects /\ Modes # {}
ASSUME LoggingAssumption

loggingVars == <<tables, snapshot, refreshes, consoles, loads, orders, allowance, astray>>

Nothing == [kind |-> "nothing"]
Grant(what) == allowance[what] > 0 /\ allowance' = [allowance EXCEPT ![what] = @ - 1]
Targets == [Subjects -> Nat]                    \* 0: none

-----------------------------------------------------------------------------
\* The page.
adminView == [kind |-> "view", settings |-> snapshot.settings, revision |-> snapshot.revision, targets |-> snapshot.targets,
              targetsRevision |-> snapshot.targetsRevision, sure |-> ~astray]
Outdated(p) == {IF l.by = p THEN [l EXCEPT !.latest = FALSE] ELSE l : l \in loads}
Busy(p, b) == consoles' = [consoles EXCEPT ![p].busy = b]
loadData(p) == /\ Busy(p, TRUE)
               /\ loads' = Outdated(p) \cup {[by |-> p, latest |-> TRUE, answer |-> Nothing]}

\* News of the session: it is an administrator's, or it is not or cannot be told.
applyAuth(p, admin) ==
  /\ admin # consoles[p].authorized /\ Grant("news")
  /\ IF admin
     THEN /\ consoles' = [consoles EXCEPT ![p].authorized = TRUE, ![p].busy = TRUE]
          /\ loads' = Outdated(p) \cup {[by |-> p, latest |-> TRUE, answer |-> Nothing]}
     ELSE /\ consoles' = [consoles EXCEPT ![p].authorized = FALSE, ![p].data = Nothing]
          /\ loads' = Outdated(p)
  /\ UNCHANGED <<tables, snapshot, refreshes, orders, astray>>

LoadAgain(p) == /\ consoles[p].authorized /\ ~consoles[p].busy /\ Grant("reloads") /\ loadData(p)
                /\ UNCHANGED <<tables, snapshot, refreshes, orders, astray>>

ServeView(l) == /\ l.answer = Nothing /\ loads' = (loads \ {l}) \cup {[l EXCEPT !.answer = adminView]}
                /\ UNCHANGED <<tables, snapshot, refreshes, consoles, orders, allowance, astray>>

renderSnapshot(l) ==
  /\ l.answer # Nothing /\ loads' = loads \ {l}
  /\ consoles' = IF l.latest THEN [consoles EXCEPT ![l.by].data = l.answer, ![l.by].busy = FALSE] ELSE consoles
  /\ UNCHANGED <<tables, snapshot, refreshes, orders, allowance, astray>>

ViewFails(l) == /\ Grant("faults") /\ loads' = loads \ {l}
                /\ consoles' = IF l.latest THEN [consoles EXCEPT ![l.by].busy = FALSE] ELSE consoles
                /\ UNCHANGED <<tables, snapshot, refreshes, orders, astray>>

\* Saving the settings, setting or removing a target: with the revision of what the page shows.
Order(p, what, value, who) ==
  LET seen == consoles[p].data
  IN [by |-> p, what |-> what, value |-> value, who |-> who, seen |-> seen, at |-> "asked", awaited |-> TRUE,
      expected |-> IF what = "settings" THEN seen.revision ELSE seen.targetsRevision,
      revision |-> 0, changed |-> FALSE]
Possible(p) == {Order(p, "settings", mode, CHOOSE x \in Subjects : TRUE) : mode \in Modes}
               \cup {Order(p, "set", CHOOSE m \in Modes : TRUE, who) : who \in Subjects}
               \cup {Order(p, "remove", CHOOSE m \in Modes : TRUE, who) :
                       who \in {x \in Subjects : consoles[p].data.targets[x] # 0}}
Save(p) ==
  /\ consoles[p].authorized /\ ~consoles[p].busy /\ consoles[p].data # Nothing /\ Grant("saves")
  /\ \E o \in Possible(p) : o \notin orders /\ orders' = orders \cup {o}
  /\ Busy(p, TRUE)
  /\ UNCHANGED <<tables, snapshot, refreshes, loads, astray>>

-----------------------------------------------------------------------------
\* The database.  A transaction locks the row that carries both revisions.
Part(o) == IF o.what = "settings" THEN "settings" ELSE "targets"
Valid(o) == o.expected = IF o.what = "settings" THEN tables.revision ELSE tables.targetsRevision
Found(o) == o.what = "set" => o.who \notin Departed
Alters(o) == o.what = "remove" => tables.targets[o.who] # 0
Result(o) == [o EXCEPT !.at = "stored", !.changed = Alters(o), !.revision = IF Alters(o) THEN o.expected + 1 ELSE o.expected]

\* What a write makes of the tables, and of the snapshot once the service hears of it.
Applied(v, o) ==
  CASE o.what = "settings" -> [v EXCEPT !.settings = o.value, !.revision = o.revision]
    [] o.what = "set" -> [v EXCEPT !.targets[o.who] = o.revision, !.targetsRevision = o.revision]
    [] o.what = "remove" /\ o.changed -> [v EXCEPT !.targets[o.who] = 0, !.targetsRevision = o.revision]
    [] o.what = "remove" /\ ~o.changed -> [v EXCEPT !.targetsRevision = o.revision]

\* A snapshot being read now is older than this write; it is late once the service has heard of the write.
Behind == {IF r.at # "begun" THEN [r EXCEPT !.behind = TRUE] ELSE r : r \in refreshes}
Late(rs) == {IF r.behind THEN [r EXCEPT !.late = TRUE] ELSE r : r \in rs}
UnheardOf(part) == {o \in orders : o.at = "stored" /\ Part(o) = part}
MutWrite(o) ==
  /\ o.at = "asked" /\ Found(o)
  /\ tables' = Applied(tables, Result(o)) /\ orders' = (orders \ {o}) \cup {Result(o)}
  /\ refreshes' = IF Alters(o) THEN Behind ELSE refreshes
  /\ astray' = (astray \/ UnheardOf(Part(o)) # {})
  /\ UNCHANGED <<snapshot, consoles, loads, allowance>>
Write(o) ==
  /\ o.at = "asked" /\ Valid(o) /\ Found(o)
  /\ tables' = Applied(tables, Result(o)) /\ orders' = (orders \ {o}) \cup {Result(o)}
  /\ refreshes' = IF Alters(o) THEN Behind ELSE refreshes
  /\ astray' = (astray \/ UnheardOf(Part(o)) # {})
  /\ UNCHANGED <<snapshot, consoles, loads, allowance>>

\* The transaction commits and its outcome gets lost: the snapshot is not told.
OutcomeLost(o) ==
  /\ o.at = "asked" /\ Valid(o) /\ Found(o) /\ Alters(o) /\ Grant("faults")
  /\ tables' = Applied(tables, Result(o)) /\ orders' = (orders \ {o}) \cup {[o EXCEPT !.at = "failed"]}
  /\ refreshes' = Late(Behind) /\ astray' = TRUE
  /\ UNCHANGED <<snapshot, consoles, loads>>

Reject(o) ==
  /\ o.at = "asked"
  /\ \/ ~Valid(o) /\ orders' = (orders \ {o}) \cup {[o EXCEPT !.at = "conflict"]} /\ UNCHANGED allowance
     \/ Valid(o) /\ ~Found(o) /\ orders' = (orders \ {o}) \cup {[o EXCEPT !.at = "failed"]} /\ UNCHANGED allowance
     \/ Grant("faults") /\ orders' = (orders \ {o}) \cup {[o EXCEPT !.at = "failed"]}
  /\ UNCHANGED <<tables, snapshot, refreshes, consoles, loads, astray>>

-----------------------------------------------------------------------------
\* The service hears of the commit and changes its snapshot by that write alone.
MutTell(o) ==
  /\ o.at = "stored" /\ refreshes' = Late(refreshes)
  /\ orders' = (orders \ {o}) \cup {[o EXCEPT !.at = "answered"]}
  /\ UNCHANGED <<tables, snapshot, consoles, loads, allowance, astray>>
Tell(o) ==
  /\ o.at = "stored" /\ snapshot' = Applied(snapshot, o) /\ refreshes' = Late(refreshes)
  /\ orders' = (orders \ {o}) \cup {[o EXCEPT !.at = "answered"]}
  /\ UNCHANGED <<tables, consoles, loads, allowance, astray>>

\* A change of identity data: the settings with both revisions, then the targets.
Begun == [at |-> "begun", view |-> Nothing, behind |-> FALSE, late |-> FALSE]
refresh == /\ Grant("refreshes") /\ Begun \notin refreshes /\ refreshes' = refreshes \cup {Begun}
           /\ UNCHANGED <<tables, snapshot, consoles, loads, orders, astray>>
ReadSettings(r) == /\ r.at = "begun"
                   /\ refreshes' = (refreshes \ {r}) \cup {[r EXCEPT !.at = "settings", !.view = tables]}
                   /\ UNCHANGED <<tables, snapshot, consoles, loads, orders, allowance, astray>>
ReadTargets(r) == /\ r.at = "settings"
                  /\ refreshes' = (refreshes \ {r}) \cup {[r EXCEPT !.at = "targets", !.view.targets = tables.targets]}
                  /\ UNCHANGED <<tables, snapshot, consoles, loads, orders, allowance, astray>>
Install(r) == /\ r.at = "targets" /\ snapshot' = r.view /\ refreshes' = refreshes \ {r}
              /\ astray' = IF r.behind \/ \E o \in orders : o.at = "stored" THEN astray \/ r.late ELSE FALSE
              /\ UNCHANGED <<tables, consoles, loads, orders, allowance>>
RefreshFails(r) == /\ Grant("faults") /\ refreshes' = refreshes \ {r}
                   /\ UNCHANGED <<tables, snapshot, consoles, loads, orders, astray>>

-----------------------------------------------------------------------------
\* The answer.  After a write, and after a conflict, the page loads again if it still may.
Answered(o) ==
  /\ o.at \in {"answered", "conflict", "failed"} /\ orders' = orders \ {o}
  /\ IF o.awaited /\ o.at # "failed" /\ consoles[o.by].authorized THEN loadData(o.by)
     ELSE (IF o.awaited THEN Busy(o.by, FALSE) ELSE UNCHANGED consoles) /\ UNCHANGED loads
  /\ UNCHANGED <<tables, snapshot, refreshes, allowance, astray>>

\* The page waits thirty seconds; the request goes on without it.
GiveUp(o) == /\ o.awaited /\ Grant("faults") /\ Busy(o.by, FALSE)
             /\ orders' = (orders \ {o}) \cup {[o EXCEPT !.awaited = FALSE]}
             /\ UNCHANGED <<tables, snapshot, refreshes, loads, astray>>

-----------------------------------------------------------------------------
LoggingInit ==
  /\ allowance \in LoggingScenes
  /\ \E mode \in Modes : tables = [settings |-> mode, revision |-> 0, targets |-> [x \in Subjects |-> 0], targetsRevision |-> 0]
  /\ snapshot = tables /\ refreshes = {} /\ orders = {} /\ astray = FALSE
  /\ consoles = [p \in Consoles |-> [authorized |-> TRUE, busy |-> TRUE, data |-> Nothing]]
  /\ loads = {[by |-> p, latest |-> TRUE, answer |-> Nothing] : p \in Consoles}

LoggingNext ==
  \/ \E p \in Consoles : LoadAgain(p) \/ Save(p) \/ \E admin \in BOOLEAN : applyAuth(p, admin)
  \/ \E l \in loads : ServeView(l) \/ renderSnapshot(l) \/ ViewFails(l)
  \/ \E o \in orders : Write(o) \/ OutcomeLost(o) \/ Reject(o) \/ Tell(o) \/ Answered(o) \/ GiveUp(o)
  \/ refresh
  \/ \E r \in refreshes : ReadSettings(r) \/ ReadTargets(r) \/ Install(r) \/ RefreshFails(r)

LoggingSpec == LoggingInit /\ [][LoggingNext]_loggingVars

-----------------------------------------------------------------------------
\* The snapshot the collector and every page are served from is what the tables hold, up to writes the service has
\* not heard of yet, unless a write's outcome got lost, two writes were unheard at once, or a snapshot that was read
\* before a write replaced the one the service had changed by it.
KeptAsStored == ~astray /\ (\A o \in orders : o.at # "stored") => snapshot = tables

\* What an administrator overwrites is what his page showed when he submitted, however many pages, refreshes and late
\* answers there are: the settings always, the targets unless the snapshot he was served from had gone astray.
SavedAsSeen ==
  [][/\ tables'.settings # tables.settings \/ tables'.revision # tables.revision =>
          \E o \in orders \ orders' : o.what = "settings" /\ o.seen.settings = tables.settings
     /\ tables'.targets # tables.targets =>
          \E o \in orders \ orders' : o.what # "settings" /\ (o.seen.sure => o.seen.targets = tables.targets)]_loggingVars

\* What the administrators save is neither lost to the policy nor written over what they were not shown.
SettingsKept == []KeptAsStored /\ SavedAsSeen
================================================================================
