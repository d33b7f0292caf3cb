------------------------------ MODULE Scoreboard ------------------------------
(***************************************************************************)
(* The page that shows the courts and the matches (scoreboardPolling.js),  *)
(* and what the server sends it (dataProvider.js): one snapshot of         *)
(* everything, and events that bring a court or a score themselves or only *)
(* say that a table has changed.                                           *)
(*                                                                         *)
(* What there is to see is a number that every change raises. Revisions    *)
(* are numbers too, but begin anew when the server does. The players of a  *)
(* snapshot are read from the database, all else from the server's memory. *)
(***************************************************************************)
EXTENDS Naturals, Sequences

CONSTANTS BoardScenes,  \* bounds: changes, faults, losses, restarts, resumes
          Missing

VARIABLES people,                      \* the players in the database
          store, tableRev,             \* the projection, and the revisions of its tables
          court, score, pollRev,       \* assignment and activity; displayed scores, their revision
          wire, heard,                 \* messages to the page; how many topics it is subscribed to
          ask, read,                   \* the page's request, and the players read for it
          linked,                      \* the page is connected
          drawn, synced, failed,       \* hasRenderedSnapshot, scoreboardSynchronized, initializationFailed
          timer, retry,                \* the two timers
          flying, queued, superseded,  \* snapshotInFlight, snapshotQueued; a newer generation than the request's
          courtMoved, scoreMoved,      \* an event since the request began
          lastCourt, lastScore, seen,  \* latest events, latestScoreRevision + 1
          required,                    \* requiredRevisions
          board,                       \* what is displayed
          budget

serverVars == <<people, store, tableRev, court, score, pollRev>>
timers == <<timer, retry, flying, queued, superseded>>
events == <<courtMoved, scoreMoved, lastCourt, lastScore, seen>>
pageVars == <<drawn, synced, failed, timers, events, required, board>>
boardVars == <<serverVars, wire, heard, ask, read, linked, pageVars, budget>>

Tables == {"matches", "players"}
Topics == <<"scores", "courts", "matches", "players">>
Spend(kind) == budget[kind] > 0 /\ budget' = [budget EXCEPT ![kind] = @ - 1]

-----------------------------------------------------------------------------
(* The server.                                                             *)
Hears(topic) == \E n \in 1..heard : Topics[n] = topic
Published(topic, message) == IF Hears(topic) THEN <<message>> ELSE <<>>
TableEvent(t, rev) == [type |-> "table", table |-> t, rev |-> rev]
Answers == {"snapshot", "error", "malformed"}
ScoreEvent(value, rev) == [type |-> "score", value |-> value, rev |-> rev]
CourtEvent(value) == [type |-> "court", value |-> value]

PeopleChange ==
  /\ Spend("changes") /\ people' = people + 1
  /\ UNCHANGED <<store, tableRev, court, score, pollRev, wire, heard, ask, read, linked, pageVars>>

\* dataStore.set after an invalidation, and its listener: an event for the table, and a match changes
\* what is displayed as its score.
Reload(t) ==
  /\ IF t = "players" THEN people # store.players /\ store' = [store EXCEPT !.players = people] /\ UNCHANGED <<score, budget>>
     ELSE Spend("changes") /\ store' = [store EXCEPT !.matches = @ + 1] /\ score' = score + 1
  /\ tableRev' = [tableRev EXCEPT ![t] = @ + 1]
  /\ wire' = wire \o Published(t, TableEvent(t, tableRev[t] + 1))
                  \o (IF t = "matches" THEN Published("scores", ScoreEvent(score + 1, pollRev)) ELSE <<>>)
  /\ UNCHANGED <<people, court, pollRev, heard, ask, read, linked, pageVars>>

CourtChange ==
  /\ Spend("changes") /\ court' = court + 1
  /\ wire' = wire \o Published("courts", CourtEvent(court + 1))
  /\ UNCHANGED <<people, store, tableRev, score, pollRev, heard, ask, read, linked, pageVars>>

ScoreChange ==
  /\ Spend("changes") /\ score' = score + 1 /\ pollRev' = pollRev + 1
  /\ wire' = wire \o Published("scores", ScoreEvent(score + 1, pollRev + 1))
  /\ UNCHANGED <<people, store, tableRev, court, heard, ask, read, linked, pageVars>>

\* One topic of the page's subscription: it is added, then its present state is sent.
Subscribed ==
  /\ linked /\ heard < Len(Topics) /\ heard' = heard + 1
  /\ LET topic == Topics[heard'] IN
     wire' = Append(wire, CASE topic = "scores" -> ScoreEvent(score, pollRev)
                            [] topic = "courts" -> CourtEvent(court)
                            [] OTHER -> TableEvent(topic, tableRev[topic]))
  /\ UNCHANGED <<serverVars, ask, read, linked, pageVars, budget>>

\* scoreboardSnapshot: the players come from the database, everything else is read after them.
ReadPlayers ==
  /\ ask = "sent" /\ ask' = "reading" /\ read' = people
  /\ UNCHANGED <<serverVars, wire, heard, linked, pageVars, budget>>

Snapshot == [type |-> "snapshot", players |-> read, matches |-> store.matches, court |-> court,
             score |-> score, rev |-> pollRev, revisions |-> tableRev]
AnswerSnapshot ==
  /\ ask = "reading" /\ ask' = "answered"
  /\ \/ wire' = Append(wire, Snapshot) /\ UNCHANGED budget
     \/ Spend("faults") /\ \E type \in {"error", "malformed"} : wire' = Append(wire, [type |-> type])
  /\ UNCHANGED <<serverVars, heard, read, linked, pageVars>>

-----------------------------------------------------------------------------
(* The page: when it asks.                                                 *)

\* Mutant: the snapshot that is on its way is displayed all the same.
MutQueueSnapshot ==
  IF failed THEN UNCHANGED <<timers, synced>>
  ELSE /\ retry' = FALSE /\ queued' = TRUE /\ synced' = FALSE
       /\ timer' = (timer \/ ~flying)
       /\ UNCHANGED <<flying, superseded>>

\* queueSnapshot
queueSnapshot ==
  IF failed THEN UNCHANGED <<timers, synced>>
  ELSE /\ retry' = FALSE /\ superseded' = TRUE /\ queued' = TRUE /\ synced' = FALSE
       /\ timer' = (timer \/ ~flying)
       /\ UNCHANGED flying

\* drainSnapshots, as far as its request; and again with a snapshot that was queued meanwhile.
Begin == /\ flying' = TRUE /\ queued' = FALSE /\ superseded' = FALSE
         /\ courtMoved' = FALSE /\ scoreMoved' = FALSE /\ ask' = "waiting"
drainSnapshots ==
  /\ timer /\ timer' = FALSE
  /\ Begin
  /\ UNCHANGED <<serverVars, wire, heard, read, linked, drawn, synced, failed, retry,
                 lastCourt, lastScore, seen, required, board, budget>>

RetryDue ==
  /\ retry /\ queueSnapshot
  /\ UNCHANGED <<serverVars, wire, heard, ask, read, linked, drawn, failed, events, required, board, budget>>

\* refreshAfterResume
refreshAfterResume ==
  /\ Spend("resumes") /\ queueSnapshot
  /\ UNCHANGED <<serverVars, wire, heard, ask, read, linked, drawn, failed, events, required, board>>

\* request: sent once there is a connection.
SendRequest ==
  /\ ask = "waiting" /\ linked /\ ask' = "sent"
  /\ UNCHANGED <<serverVars, wire, heard, read, linked, pageVars, budget>>

-----------------------------------------------------------------------------
(* The page: what comes.                                                   *)

\* applyScoreData; seen is one more than the revision, and zero after a resynchronisation.
ScoreApplies(rev) == rev + 1 >= seen

handleScoreEvent(m) ==
  IF (lastScore # Missing /\ m.rev < lastScore.rev) \/ ~ScoreApplies(m.rev)
  THEN UNCHANGED <<events, board>>
  ELSE /\ scoreMoved' = TRUE /\ lastScore' = m
       /\ seen' = IF drawn THEN m.rev + 1 ELSE seen
       /\ board' = IF drawn THEN [board EXCEPT !.score = m.value] ELSE board
       /\ UNCHANGED <<courtMoved, lastCourt>>

handleScoreboardStateEvent(m) ==
  /\ courtMoved' = TRUE /\ lastCourt' = m
  /\ board' = IF drawn THEN [board EXCEPT !.court = m.value] ELSE board
  /\ UNCHANGED <<scoreMoved, lastScore, seen>>

handleTableInvalidation(m) ==
  /\ required' = [required EXCEPT ![m.table] = IF m.rev > @ THEN m.rev ELSE @]
  /\ queueSnapshot

Hear ==
  /\ wire # <<>> /\ wire' = Tail(wire)
  /\ LET m == Head(wire) IN
     \/ m.type = "score" /\ handleScoreEvent(m) /\ UNCHANGED <<timers, synced, required>>
     \/ m.type = "court" /\ handleScoreboardStateEvent(m) /\ UNCHANGED <<timers, synced, required>>
     \/ m.type = "table" /\ handleTableInvalidation(m) /\ UNCHANGED <<events, board>>
  /\ UNCHANGED <<serverVars, heard, ask, read, linked, drawn, failed, budget>>

CourtShown(m) == IF courtMoved /\ lastCourt # Missing THEN lastCourt.value ELSE m.court

\* renderSnapshot: an event that came after the request began, or has the newer score, wins.
selectScoreData(m) ==
  IF /\ lastScore # Missing
     /\ scoreMoved \/ lastScore.rev > m.rev \/ ~ScoreApplies(m.rev)
  THEN lastScore ELSE [value |-> m.score, rev |-> m.rev]
renderSnapshot(m) ==
  LET scores == selectScoreData(m)
  IN /\ board' = [players |-> m.players, matches |-> m.matches,
                  court |-> CourtShown(m),
                  score |-> IF ScoreApplies(scores.rev) THEN scores.value ELSE board.score]
     /\ seen' = IF ScoreApplies(scores.rev) THEN scores.rev + 1 ELSE seen
     /\ drawn' = TRUE /\ synced' = linked

OldSnapshot(m) == \E t \in Tables : m.revisions[t] < required[t]
Rendered(m) ==
  /\ m.type = "snapshot" /\ ~superseded /\ ~OldSnapshot(m)
  /\ renderSnapshot(m)
  /\ flying' = FALSE /\ ask' = "none"
  /\ UNCHANGED <<failed, timer, retry, queued, superseded, courtMoved, scoreMoved, lastCourt, lastScore, required>>

\* The answer is not that of the newest generation: the loop goes on if a snapshot is queued.
Outrun(m) ==
  /\ superseded /\ (m.type \in {"snapshot", "malformed"} \/ queued)
  /\ IF queued /\ ~failed THEN Begin
     ELSE flying' = FALSE /\ ask' = "none" /\ UNCHANGED <<queued, superseded, courtMoved, scoreMoved>>
  /\ UNCHANGED <<drawn, synced, failed, timer, retry, lastCourt, lastScore, seen, required, board>>

\* The catch of drainSnapshots, failInitialization and scheduleSnapshotRetry.
Caught(m) ==
  /\ \/ m.type = "error" /\ ~(superseded /\ queued)
     \/ m.type = "malformed" /\ ~superseded
     \/ m.type = "snapshot" /\ ~superseded /\ OldSnapshot(m)
  /\ LET terminal == ~drawn /\ m.type = "malformed" IN
     /\ failed' = (failed \/ terminal)
     /\ timer' = (timer /\ ~terminal)
     /\ retry' = IF terminal THEN FALSE ELSE retry \/ (linked /\ ~failed)
  /\ synced' = FALSE /\ flying' = FALSE /\ ask' = "none"
  /\ UNCHANGED <<drawn, queued, superseded, events, required, board>>

Settled(m) == Rendered(m) \/ Outrun(m) \/ Caught(m)
Answered ==
  /\ ask = "answered"
  /\ wire # <<>> /\ wire' = Tail(wire)
  /\ Head(wire).type \in Answers /\ Settled(Head(wire))
  /\ UNCHANGED <<serverVars, heard, read, linked, budget>>

-----------------------------------------------------------------------------
(* The connection.                                                         *)
NotLinked == synced' = FALSE /\ retry' = FALSE /\ superseded' = (superseded \/ flying)

\* handleConnectionState; an unanswered request is sent again with the next connection.
Cut == /\ linked' = FALSE /\ wire' = <<>> /\ heard' = 0
       /\ ask' = IF ask = "none" THEN "none" ELSE "waiting"
       /\ NotLinked
       /\ UNCHANGED <<read, drawn, failed, timer, flying, queued, events, required, board>>
Disconnect ==
  /\ linked /\ Spend("losses") /\ Cut
  /\ UNCHANGED serverVars
ServerRestarts ==
  /\ Spend("restarts") /\ Cut
  /\ store' = [store EXCEPT !.players = people]
  /\ tableRev' = [t \in Tables |-> 1] /\ pollRev' = 0 /\ score' = score + 1
  /\ UNCHANGED <<people, court>>

\* The client reports its state also while it stays disconnected.
StillDown ==
  /\ ~linked /\ flying /\ ~superseded
  /\ NotLinked
  /\ UNCHANGED <<serverVars, wire, heard, ask, read, linked, drawn, failed, timer, flying, queued, events, required, board, budget>>

\* A request that waits for a connection in vain, or has been tried often enough.
GivenUp ==
  /\ ask = "waiting" /\ ~linked
  /\ Settled([type |-> "error"])
  /\ UNCHANGED <<serverVars, wire, heard, read, linked, budget>>

\* handleConnectionState and handleResync.
Connect ==
  /\ ~linked /\ linked' = TRUE
  /\ required' = [t \in Tables |-> 0]
  /\ lastCourt' = Missing /\ lastScore' = Missing /\ seen' = 0
  /\ courtMoved' = TRUE /\ scoreMoved' = TRUE
  /\ queueSnapshot
  /\ UNCHANGED <<serverVars, wire, heard, ask, read, drawn, failed, board, budget>>

-----------------------------------------------------------------------------
ScoreboardInit ==
  /\ people = 1 /\ store = [players |-> 1, matches |-> 1] /\ tableRev = [t \in Tables |-> 1]
  /\ court = 1 /\ score = 1 /\ pollRev = 0
  /\ wire = <<>> /\ heard = 0 /\ ask = "none" /\ read = 0
  /\ linked = FALSE /\ drawn = FALSE /\ synced = FALSE /\ failed = FALSE
  /\ timer = FALSE /\ retry = FALSE /\ flying = FALSE /\ queued = FALSE /\ superseded = FALSE
  /\ courtMoved = FALSE /\ scoreMoved = FALSE /\ lastCourt = Missing /\ lastScore = Missing /\ seen = 0
  /\ required = [t \in Tables |-> 0]
  /\ board = [players |-> 0, matches |-> 0, court |-> 0, score |-> 0]
  /\ budget \in BoardScenes

ScoreboardNext ==
  \/ PeopleChange \/ (\E t \in Tables : Reload(t)) \/ CourtChange \/ ScoreChange
  \/ Subscribed \/ ReadPlayers \/ AnswerSnapshot
  \/ drainSnapshots \/ RetryDue \/ refreshAfterResume \/ SendRequest
  \/ Hear \/ Answered
  \/ Disconnect \/ ServerRestarts \/ StillDown \/ GivenUp \/ Connect

ScoreboardSpec == ScoreboardInit /\ [][ScoreboardNext]_boardVars

-----------------------------------------------------------------------------
\* updateStatus
SaysSynced == linked /\ synced
Truth == [players |-> people, matches |-> store.matches, court |-> court, score |-> score]

\* While the page says that it is synchronised and nothing is on its way to it, it displays what there is.
SyncedIsTrue ==
  SaysSynced /\ heard = Len(Topics) /\ wire = <<>> /\ store.players = people => board = Truth

\* A page that does not say so is still about to ask, whatever was lost or refused, unless it has given up
\* before it ever displayed anything.
KeepsTrying == linked /\ ~synced /\ ~failed => timer \/ retry \/ flying

BoardSound == SyncedIsTrue /\ KeepsTrying
===============================================================================
