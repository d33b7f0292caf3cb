# ePiber: verification project

ePiber runs a tennis club: a ranking list and tournaments, court assignments with live scores on
scoreboards, hall times, messages, favourites, and monitors in the club house. The part with its own logic
is a Node.js server (`src/Backend`), a background worker (`src/Backend/worker.js`), PostgreSQL, and
browser pages that talk to the server over one WebSocket (`src/Frontend/JS/dataClient.js`) and, for logins, over HTTP.
This directory holds TLA+ modules of its concurrent and long-lived parts, the TLC configurations
that check them, and TLAPS proofs.

All paths are relative to the repository (`src/`); `PS` stands for `src/Backend/postgresPlayService.js`.

1. [The system](#1-the-system) - 2. [Modules](#2-modules) - 3. [Runs](#3-runs) -
4. [What the code does not keep](#4-what-the-code-does-not-keep) - 5. [Proofs](#5-proofs) -
6. [What is not modelled](#6-what-is-not-modelled)

## 1. The system

| component | state | operations | modules |
|---|---|---|---|
| Background worker (`workerService.js`, `workerRepository.js`, `workerHandlers.js`) | rows of `ops.jobs` and `ops.outbox`: status, lease, attempts; one claimed row per process | enqueue, claim, run handler, complete, retry, give up | `Worker`, `Delivery` |
| Ranking (`PS`, `matchRules.js`, `rankingEntryRestriction.js`, `rangliste.js`) | entries and matches of the list, results with remembered ranks; the cached projection; the page with its answers, marks, offers and timer | challenge, result, correction, clearing, deletion, withdrawal; draw, hear, sign in and out | `Ranking`, `RankingPage` |
| Write path (`dataClient.js`, `dataProvider.js`, `runtimeDatabase.js`, `opsRepository.js`, `postgresProjectionLoader.js`) | retained operationIds, request, audit row, transaction, idempotency row, outbox row, cache, running load | send, give up, audit, begin, write, commit, retry, refresh, reply, crash, invalidation | `WritePipeline`, `Writes` |
| Court scores (`courtPoller.js`, `postgresCourtService.js`, `venueRepository.js`) | per court: active, awaiting baseline, revision, log; the service's cache; the poller's copy, timer and poll | assign, activate, automation, invalidation, poll, baseline, log, restart | `CourtScores` |
| Court automation (`postgresCourtAutomation.js`, `navigatorList.js`) | assignments with their marks, cached courts and matches, the round, its timer, the operator's overlay | round, switch, mark, refresh, wake, assign, restart | `CourtAutomation` |
| Scoreboards (`scoreboardPolling.js`, `dataProvider.js`, `scoreboardDisplay.js`, `dataStore.js`) | the server's projection and scores with their revisions; per page: request, timers, generation, latest events, required revisions, what is displayed | change, reload, publish, subscribe, ask, answer, render, retry, lose the connection | `Scoreboard` |
| Monitors (`postgresMonitorBroker.js`, `monitorPolling.js`, `navigatorList.js`, `navigatorScroll.js`) | device row, broker's memory, scroll queue, the page's job and frame, the operator's status | pair, register, navigate, scroll, acknowledge, time out, revoke, refresh | `Monitors` |
| Hall times (`postgresHallTimeService.js`, `hallTimeService.js`, two pages) | grids, slots with their queues, memberships, revisions, previews | book, leave, promote, save, distribute, expire, read | `Halls` |
| Browser data client (`dataClient.js`) and sockets (`dataProvider.js`) | state, socket generation, timers, waiting read, reload marker; per socket handshake and subscriptions | connect, back off, resume, restart, subscribe, publish, reload | `Connection` |
| Logins (`authClient.js`, `server.js`, `postgresAuthService.js`, `identityRepository.js`) | accounts, passwords, sessions, authorisations, queue per account, cookie, pages | login, logout, change, set up, set, authorise, refresh | `Sessions` |
| Tournaments (`PS`, `matchResultRules.js`, `bewerbsRaster.js`, `RoundRobin.js`, `modals.js`) | matches, bracket links, dialogs, group page | appointment, result, correction, clearing, load | `Results`, `Scores`, `Tournament` |
| Entries (`postgresCompetitionService.js`, `entryList.js`) | entry, operations, projection, list on each page | press, begin, commit, load | `Entries` |
| People (`PS`, `memberReconciliation.js`, `memberImport.js`, `mitgliederAbgleichen.js`, `personenNormalisieren.js`) | people, roles, drafts, selections, previews | normalise, reconcile, compare, import | `Members`, `MemberImport`, `People` |
| Messages (`postgresMessagingService.js`, `messagingRepository.js`, `navbar.js`, `modals.js`, `bewerbeList.js`) | receipts, revisions, badge, list; comments, reactions, feed, retained payloads | acknowledge, announce, load; comment, edit, delete, moderate, react | `Inbox`, `History` |
| Administration of the diagnostics (`adminLogging.js`, `postgresFrontendLoggingService.js`) | settings and targets with their revisions, the service's snapshot, the pages | load, save, set and remove a target, refresh, conflict | `Logging` |
| Diagnostics of a page (`diagnostics.js`, `frontendLoggingService.js`) | queue, batch under way, timers, policy; what was logged | emit, flush, answer, beacon, policy | `Diagnostics` |
| Development workflow (`version-workflow.mjs`, `verification-state.mjs`) | branches, versions, changelog, index, receipt, releases | start, edit, run suites, next task, finish, push, release | `Workflow` |
| Favourites and start page (`postgresPreferenceService.js`, `favorites.js`, `startPreference.js`) | one document per account with its revision; the copy, queue and load of each tab | toggle, reorder, save, load, tell the other tab | `Preferences` |

`PROJECT.json` lists every component, also those that are left out, with the reason.

**How they interact.** A browser sends a write over the WebSocket; `dataProvider.executeRequest` records an audit row,
calls the service, records the end of the audit and answers. A service writes in one serializable transaction: the
idempotency row, the effect, an outbox row with the invalidation; after the commit it reloads the projection cache and only
then returns. The worker claims the outbox row and publishes it with `pg_notify`; every listening server reloads
its projections and tells its subscribers, whose pages read again. Checks before a transaction read the cache, not the tables.
Messages and hall times publish directly after their commit. The court poller is told by requests and the
automation which courts are active. Logins use HTTP and a cookie that all pages of a browser share; a login restarts their connections. The court automation reads the cached courts and matches and is woken by
operators' requests and by loads of the projection. The pages' diagnostics and their administration use HTTP beside the write path. The development workflow shares nothing with the running system.

**What is hard.** State read from a cache and used after an `await` or inside a later transaction; commits whose answer
is lost; repetitions under an operationId while the first request still runs; loads that overtake one another and the
events that caused them; leases that expire under a slow worker; polls and sockets that are replaced in the middle of
their handshake; several copies of one fact (poller and database, page and projection, two tabs); long sequences of rank
changes that are never renumbered and may be reversed later. `PROJECT.json` lists these hazards at their lines.

## 2. Modules

State and actions carry the code's names where TLA+ allows it; `map` in `PROJECT.json` gives the lines
of each definition. Definitions called `Mut...` are variants of the next definition with a plausible mistake; each
property is known to fail on one of them. No specification uses them. A transaction is
one step where it is serializable or locks its row first; everything the code reads before or after it is a step of its own.

* **`Worker`** implements **`Delivery`**. Any number of processes; the database clock is two bits per row (`due`, `expired`).
  `phase` is a worker's place in its chain of awaits: `Claim`, `NoJob`, `NoOutbox`, `HandlerSucceeds`, `HandlerThrows`,
  `CompleteSuccess`, `CompleteFailure` with the owner check `OwnsLease`. Answers can be lost, processes die and return under the same id.
* **`Ranking`**. `Targets` is `rankingTargets` (newcomer, returner, ranked player), `ReverseRanking` is
  `reverseRankingEffect`. `RequestChallenge` and `RequestWithdraw` read `cache` and leave a member of `pending`. Time is a number of ticks.
  `disturbed` records that an administrator's plan, or a reversal on ranks that have changed since,
  has replaced the automatic ranks: after that the code promises nothing about gaps (section 4).
  **`RankingPage`** adds the page of the list to it: one drawing (`reading`) waits for four answers, of which each is of its own moment of the cached tables;
  `queued` asks for one more, `timer` is `restrictionExpiryTimer`, `missed` records a failed drawing or a mark that ended while it was drawn.
* **`WritePipeline`** implements **`Writes`**. One handler per request; `pc` is the place in `executeRequest` and `execute`.
  `RowLocked` waits for a concurrent insert, `RowTaken` is the unique key, `Again` the retry of `withTransaction`. The loader
  runs one load at a time, repeated until nobody asked meanwhile, whole or not at all. `Crash` restarts the server at any moment.
* **`CourtScores`**. Requests commit, read rows and apply them in three steps; `armed` is the poller's timer, `pc` its
  one poll, `cancelled` says the poll's generation is over. While the poll works without awaiting (`Busy`) nothing else runs, as in the event loop.
* **`CourtAutomation`**. `auto` is the round with the courts it has left, the copies it read and the change it is making; `reads` are the refreshes of the court
  cache for the operator, the automation and an invalidation; `verdict` remembers for which assignment a mark was set, `astray` that a committed change woke nobody.
* **`Scoreboard`**. The page with courts and matches and what the server sends it. What is displayed of a court, the scores or a table is a number
  that every change raises; `wire` is the socket, in order; `ask` follows one snapshot through the server, whose players come from the database
  before the rest is read. `superseded` says that a newer generation than the request's has begun, `queued`, `timer`, `retry` and `flying` are the page's own flags.
  An assignment that also changes how its court's score is shown is followed by the poller's reset, a `ScoreChange`.
* **`Monitors`**. One device, its sockets in order, the broker's `mem`, `queue` and `inflight`, the page's `job`, `shown`, `chain`,
  acknowledgements with the moment at which the server sees them, and the operator's buttons. What runs from one await to the next is one action. `refusals` are the acknowledgements whose UPDATE failed, of which `MaxRefusals` may happen.
* **`Halls`**. Grids whose row lock makes each request one step; a slot's `queue` holds who is confirmed, who waits and who of them was entered before whom (`queued_at`); the
  preview and application of a fair distribution (`Plan`); the worker's expiry; the pages of a player and of an administrator with their revisions.
* **`Connection`**. The page's record carries the data client's variables; `SetState`, `Connect`, `Cleanup`, `BackOff`,
  `Ask`, `Restart`, `Resume` are the client's functions, including the exceptions `setState` throws and what they skip.
  `Becomes` opens, closes and uses sockets as the change of the page says. Per socket: two message queues, handshake, subscription, silence.
* **`Sessions`**. `pc` is a request's place in the HTTP handler and the service; the queue per account lets one login or change
  run at a time; the order in which sessions were last seen decides which are dropped beyond the limit; `grants` counts authorisations to set a password.
* **`Results`** is the pure algorithm of accepted scores, winners and columns; **`Scores`** plays matches game by game and compares.
  **`Tournament`** has the serializable writes (`EnterResult`, `ClearResult`, `SetAppointment`, `SetMatchEnd`), the projection, dialogs opened earlier, and
  the page with its loads. `elapsed` says of each appointment whether it is ahead, four hours ago at most or longer, which decides what a dialog of a result sends and the server accepts;
  `drawn` says who can come to which side. **`Entries`** has presses, the table of operations and the list on several pages.
* **`Members`** is the service's change of one person and the comparison of an export; **`MemberImport`** a whole import done
  alone; **`People`** the two pages with drafts, previews and loads, several administrators at once.
* **`Inbox`** (badge, summary, list), **`History`** (feed, comments, reactions, retained payloads), **`Preferences`** (two tabs, queue of
  changes, revision) are what a person has for himself. In `History` a request ends in one of five ways: answered, refused by its transaction, lost with or without effect (`Lost`: the page keeps
  id and payload), refused before it is sent or executed (`Declined`) or failing after its commit (`FailsAfterCommit`); the last two make the page give both up.
* **`Logging`**: the tables, the snapshot, refreshes in two queries, orders and loads of several pages. **`Diagnostics`**: one page's `pending` queue, the batch in `flush`, `beacons`, and policies on their way.
* **`Workflow`**. Files are groups that the policy of the suites tells apart; `job` is next-task or finish-branch between its check, staging, commit and next section; `receipt` is what the scripts know,
  `evidence` and `tasks` are histories of what really passed on which files and of what was checked and committed.

`MC...` modules give values, scenes and symmetries. `MCCompetition`, `MCCourtScores` (poller, scoreboard, automation), `MCPeople` (import, pages, administration of the diagnostics, workflow) and `MCPersonal` (inbox, history, preferences, diagnostics) compose modules that share no
state; there one initial choice says which part moves, so that the run is the sum and not the product of its parts. `...Proofs` modules hold the theorems.

Compositions: `WritePipeline` contains the worker only through the promise of `Delivery` (an outbox row is delivered
in the end, perhaps late); `Ranking`, `Tournament`, `Entries` and `People` contain the write path through
the promise of `Writes` (a commit is atomic, the cache is an earlier state of the tables); `CourtScores` has its own commits
and refreshes because its cache is not the projection's. A page's reconnection is in `Connection` alone;
the other pages lose, delay and repeat single requests and answers. So is the wait for the connection before a request is sent (`dataClient.js:594`): elsewhere a request is
sent where it is made, in `Preferences` in particular in the step that checks the identity (`favorites.js:173`), although the cookie that decides could change during the wait.

## 3. Runs

`CHECK_DEADLOCK FALSE` everywhere: the bounds on requests, faults and time let each instance come to rest.

| run | instance | shows |
|---|---|---|
| `worker` | 2 workers, a job, an outbox row, a row without handler, 2 attempts, 1 fault | only the owner of the lease runs the latest attempt; what is settled as delivered has had its effect; every row is settled; `Delivery` is implemented |
| `ranking` | 3 players, 2 challenges, 3 ticks, scenes with lists of two and three, plans, claims; three scenes of the page: a player, a newcomer, somebody who signs in and out | ranks 1..n and results reversible (`RanksKept`); only winners overtake; entry boundary and its deadline kept; the page comes to offer what is accepted (`OffersSettle`) |
| `write_pipeline` | 2 handlers; one user with 1 fault, or two users without; 1 retry, 1 failed load | once only, read your writes, cache never goes back, `Writes` is implemented, every request answered and invalidations reach the cache |
| `court_scores` | 1 court, 1 request at a time, 3 changes of source or requests, 1 fault, 1 outage; or one page with 2 changes, or one change and a refused answer, a lost connection, a restart or a resumption; or two courts, one match and its appointment with two overlays, a change of the match, or a fault | one poll ahead, logged before shown (`PollsSoundly`); without faults poller and database agree and a lasting score is shown; a page that says it is synchronised displays what there is; no court is forgotten and each assignment judged for itself (`CourtsFollow`) |
| `monitors` | 3 commands, 2 sockets, 2 disturbances and 2 refused acknowledgements, in four scenes | the registered connection is the page's, scrolls arrive in order, the frame stays until its replacement is accepted (`NavigationSound`); everything settles but a scroll refused twice (`Settles`) |
| `halls` | 2 grids, 2 slots, 3 people, 2 writes, 1 tick, six scenes | no overbooking, only members hold places, nobody overtaken in the waiting list, applied as previewed, the page catches up |
| `connection` | 3 sockets, 1 write, 2 disturbances of any kind | no socket forgotten, "connected" is true, no reload loop, the page recovers and catches up |
| `sessions` | 2 browsers, 2 accounts, 3 requests, at most 2 sessions, seven scenes | session limit, old passwords dead, one password per authorisation, no login overwritten, pages settle |
| `competition` | six formats to 10 points; three brackets with 2 to 4 writes, appointments ahead, lately and long ago; three scenes of entries | scores agree with the game, winners go on and nobody is displaced, what is offered is accepted, entries announced once, page and lists current |
| `people` | exports of at most 2 rows against 3 people; two scenes of pages (the one with both pages imports one row); two pages of the diagnostics' administration in four scenes; six scenes of the workflow with up to 3 commits, 2 releases, 2 edits, 2 suites, a fault, a rival | an import is sound and settles; what is written was previewed; settings neither lost nor overwritten unseen (`SettingsKept`); commits numbered, tested as checked, releases rising (`WorkflowSound`) |
| `personal` | five inboxes, seven histories with at most 3 presses for one comment, seven documents, four days of diagnostics | badge, list and history settle (`PagesSettle`); commented once; nothing overwritten unseen and tabs settle (`PreferencesKept`); no event lost unnoticed or logged again for nothing (`EventsSound`) |
| `ranking_correctionwindowfixed` | as `ranking` | **violation**: each correction starts the sixty minutes again |

**Why the bounds suffice.** Two workers and one early expiry give every overlap of an old and a new lease; two attempts give one retry and one
exhausted row. Three players make every kind of target reachable, two matches let one result be corrected under another. Two requests give a
repetition that overlaps its original, a write that joins another's load, and a lock. One court and one request suffice to stop and start the
poller in the middle of a poll; theorems cover more courts and requests. A scoreboard needs one change while a snapshot is read and one while it is on its way; its theorem covers any number. Two sockets of a monitor are one reconnection with a late server;
three of a page are a current one, one closing and one that replaces both. Two grids tell a grid's revision from the largest. Three requests are a login, a change
of the password and a refresh at the same time. Brackets of three rounds have a winner who has gone on twice.
A comment needs three presses to be said twice: one whose answer is lost, one refused before it is executed, and one more. Two commands and two refused acknowledgements block a queue of scrolls.
The page of the ranking needs two writes, one while it draws and one after. `Connection` has two disturbances: three reads that time out on one live connection are beyond it. The number of faults is finite
in each instance; liveness means nothing under endless faults.

**Fairness.** `Worker`: each worker keeps stepping, due dates and leases pass. `WritePipeline`: each handler, the loader and the delivery
of outbox rows keep stepping; a lock is held only by a handler that steps. `CourtScores`: weak fairness of the poll, strong
fairness of a request's steps, because the synchronous parts of a poll interrupt it again and again and the event loop still reaches it. `Monitors`: the
server or the page steps as long as either can without a disturbance. `Halls`, `Connection`: weak fairness of the steps that cost no
disturbance, and of the server's start. `Sessions`: each request's and each page's own steps. Nothing is assumed about users, the score source, faults or time.


## 4. What the code does not keep

Where a document, comment or test says more than the code does, the model follows the code. One divergence has a run of its own
(`CorrectionWindowFixed`: `PS:339`, `:355`; `RANGLISTE.txt:291-294`); the others were met while modelling and are listed here. Where a property excludes such a case, it does so by a history variable; the variable and what it excludes are named with the property and here:
`disturbed` (Ranking), `astray` (court automation, administration of the diagnostics), `missed` and `faulted` (Connection), `blind` (Tournaments), `crossed` and `excused` (Messages), `misled` and `stumbled` (Preferences).

**Ranking.** Two requests checked against the same cache give one player two open challenges (`PS:139`; `RANGLISTE.txt:48-53`);
`withdrawFromRanking` looks for open challenges only in the cache, before its transaction (`PS:474`); the fingerprint of a write is compared with the cache, not with
the locked row (`PS:335`; `ARCHITEKTUR.txt:483`); a deleted challenge stays reachable (`PS:459`); a returner whose
old rank lies behind the list's end has no legal opponent (`PS:118`; `RANGLISTE.txt:244-247`). A result may be corrected or withdrawn although a later one has
changed the same ranks, which `RANGLISTE.txt:279-282` says is locked and `PS:289-301` does not lock: the remembered ranks are written back over the newer ones. `disturbed` excludes it.
**Page of the ranking.** Dates that are past by the browser's clock when the timer is set are dropped (`rangliste.js:33-44`); a returning player's claim ends without a timer; a first drawing that fails is not
repeated, and one with a missing answer sets no timer for a repetition; the page hides inactive opponents, the server's check does not look at it.

**Write path.** The browser drops the operationId of a committed write whose COMMIT answer or refresh was lost (`PS:48`; `dataClient.js:170-178`;
`ARCHITEKTUR.txt:910`); its audit row says `failed` (`dataProvider.js:2044`; `ARCHITEKTUR.txt:394-395`); a load for an
invalidation that fails is not retried (`postgresProjectionLoader.js:58`), nor is a failed first load (`server.js:743`); constant
writes can starve a refresh (`postgresProjectionLoader.js:35`); an invalidation between first load and LISTEN is lost (`server.js:743-751`).

**Court scores.** A court reset while the score log is written gets its old score back (`courtPoller.js:209`; `ARCHITEKTUR.txt:951-953`); a baseline
lost in a fault leaves a court whose scores are refused until its next assignment (`courtPoller.js:166`; `ARCHITEKTUR.txt:953-954`); two
handlers refresh out of order (`postgresCourtService.js:50`); a lost answer of the log logs twice (`courtPoller.js:182`); a repeated assignment
skips the reset (`dataProvider.js:1755`). Hence `PollerAgrees` and `ChangeIsShown` speak of one request at a time without faults.

**Court automation.** A mark `expired` or `unscheduled` is never taken back, so a match whose appointment is moved or made afterwards is not started (the former `courtAutomation.js` and its test did it). A refresh for an
invalidation installs the courts without waking the automation (`postgresCourtService.js:48-53`): an assignment that is committed while its outcome is lost or the read after it fails wakes nobody, and an older read that is
installed last can put the automation to sleep. Both are `astray`, which lasts until a round begins with the courts as they are. After a lost outcome of a mark the mark can stay wrong when the appointment is moved before the next round. Its own
REVISION_CONFLICT refreshes nothing, so it tries again every five seconds with an audit entry each; `automaticActivationLabel` expects another format of dates than `projectCourt` delivers; after a lost outcome the operator's second press carries the old
operationId with a new revision and is refused IDEMPOTENCY_CONFLICT once.

**Scoreboards.** Nothing was found that contradicts a document. Two defences are never needed, because a socket keeps its order: `BoardSound` holds too when
old revisions of scores are accepted, and when a snapshot is preferred to an event that came after its request.

**Monitors.** A handshake that outlives its socket registers after its successor and closes it with 4009 (`dataProvider.js:2130`;
`WEBSOCKET-CLOSE-CODES.txt:95`); after MONITOR_OFFLINE the retained operationId makes later presses "known" and never executed; scroll
statuses are never published (`ENDPOINTS.txt:155`); `failPending` does not end navigations (`ARCHITEKTUR.txt:932-934`); the queue of at most fifty scrolls
is not enforced (`ARCHITEKTUR.txt:927`); a stale refresh or two concurrent navigations leave the broker's target behind the row's, whose acknowledgements are then refused.
`clearDevice` forgets the numbers of the scrolls already applied but not the promise chain of those still to be done (`monitorPolling.js:97-112`): a monitor that
is forgotten and enrolled again while such a scroll waits moves its new page out of order. The attempt to prove the order of scrolls without the restriction
failed there (three commands, two connections, beyond the run); the property holds as long as the page keeps its device.
When the UPDATE fails for both attempts a page makes at acknowledging a scroll (`monitorPolling.js:191-201`), the first has already cleared the scroll's timer (`postgresMonitorBroker.js:244`) and nothing clears `scrollInFlight` (`:246`):
that scroll and all that follow wait (`:217`) until the connection is replaced. `Settles` says it of no other scroll (`Abandoned`).

**Hall times.** Administrators' pages carry the largest revision of all grids, so a change of another grid lets a stale write pass (`postgresHallTimeService.js:105`;
`hallzeitenVerwalten.txt:16`); the answer to an own booking has no generation guard (`hallzeiten.js:478`); saving a grid may remove a confirmed member or raise
the capacity without promoting anybody (LF-72, `FACHKONZEPT.txt:440`); constraints on past dates or former members make later saves fail; only administrators
may book for others though the documents allow group members; the worker's expiry changes the revision without an event; the administrator's
page drops events while it is busy; cleanup and save lock in opposite orders, which the database resolves as a deadlock.

**Connection.** An `online` event within half a second of a focus is dropped (`dataClient.js:217`; `WEBSOCKET-CLOSE-CODES.txt:196-197`); a database error in the handshake closes with the terminal
4406 and the page stays stopped; a snapshot that cannot be read ends the batch of subscriptions (`dataProvider.js:2151`); an event of a private topic is dropped when its
principal cannot be read; a failed `/version` is cached as "unknown". `Recovers` excludes the first and the third by their history variables `missed` and `faulted`.

**Sessions.** The socket can keep an earlier principal after a refresh that was superseded (`authClient.js:173`, `:320-322`; `ARCHITEKTUR.txt:382-383`);
`changePassword` does not raise `refreshGeneration`; a rolling cookie of a revoked token arriving late logs out; a change of the password can
commit and revoke every session while creating the new one fails, and `sessionInvalidated` is never set (`postgresAuthService.js:201`; `ENDPOINTS.txt:349-351`).

**Tournaments.** Corrections and clearing are refused only when the next match has a result, not when it has been played on (`PS:380`; `ENDPOINTS.txt:994-1002`); a match tie-break
that is level at or beyond its target is refused; the dialog refuses a retirement at 6-6 that the server accepts; the bracket shows who leads and retires as winner; corrections are
offered to administrators for ever and refused after sixty minutes; a walkover or retirement without an appointment is offered to be corrected to a regular result and refused; the dialog of a correction sends neither
times nor a confirmation of the duration (`modals.js:3036`, `1103-1104`), so the appointment counts as the start and now as the end: before the appointment it is refused MATCH_DURATION_INVALID, four hours after it
MATCH_DURATION_CONFIRMATION_REQUIRED (`PS:347-352`). These are the exceptions of `OfferedIsAccepted`;
the bracket page's loads have no generation; group tables mix groups. **Entries.** The server never checks the entry period (`DATENBANK.txt:471-472`); an operationId kept after a lost
answer makes the next press answer an old success; a crash between begin and commit leaves `started`; the list's loads have no generation.

**People.** Drafts of fields survive a reload and are written with the new fingerprint (`personenNormalisieren.js:105`; `personenNormalisieren.txt:107-108`); two administrators can
deactivate each other (`PS:536`; LF-25 in `FACHKONZEPT.txt:318`); `ROLE_PROTECTED` is read from the cache; the page locks `role` where the service wants `member`;
a repeated request is answered `PERSON_CONFLICT` because its fingerprint is checked before its operationId.

**Messages.** New messages are never published to `messages:<id>` (`ENDPOINTS.txt:1349-1351`); own activities are shown unread but not counted; an event during a
list's load is dropped (`modals.js:2028`); a page and its summary are two queries; the announced revision is read after the commit, so overlapping writes publish the same
(`seiten/bewerbe.txt:28-30`); an event for an entry that is not loaded hides other entries' answers; every comment counts as edited; a comment put under
review between check and transaction takes a reaction. An error that is not uncertain gives up id and payload (`bewerbeList.js:64`, `244-248`) whatever became of an earlier attempt: after a lost answer of a committed comment a press that is
refused OFFLINE (`dataClient.js:331-335`, `573`) or cannot be sent (`:364`), or meets TOO_MANY_REQUESTS, WRITE_RATE_LIMIT or a failing audit (`dataProvider.js:1969`, `2009`, `2017`), makes the next press say it again; so does an error after the
commit. `CommentedOnce` counts no comment whose id was given up so (`doubtful`). The history page keeps one revision for all entries: appending a page raises it, and an event for an entry already shown is dropped (`bewerbeList.js:926`, `1039`);
so are other entries' answers, and answers that were read in two queries with a write in between. The inbox drops an event while a list loads, gives pages the revision of the last one, and ends the waiting of a new profile with the load of the old one.
These, with failed requests, are `crossed` and `excused`; `BadgeTrue` keeps its first half without exception.

**Preferences.** A start page queued behind another change is sent without an identity check (`startPreference.js:92`), and its answer, written to the account of whoever was logged in, is
shown as the first person's when he is back (`startPreference.js:105`): `misled` marks it, and nothing is said of that tab's later writes; favourites leave out hall grids the person may not see and the next save
removes them (`dataProvider.js:1462`); an answer to a save does not raise the load generation, so an earlier load can overwrite it (`stumbled`, as is a lost answer); a failed load leaves the page not ready until the next notification.

**Administration of the diagnostics.** The three writes queue no invalidation, so a refresh that read before a write and is installed after it leaves the snapshot stale until the next change of an identity (`adminLogging.txt`: an active
target works at once, a parallel write reloads the view); so do a write whose outcome is lost and two writes that are unheard at once. All three are `astray`. A view served then shows targets that may not be the stored ones, and its writer may replace them
(`sure`); the settings' revision protects them always. People added after the start are never offered; both retention times are not written by the UPDATE.

**Diagnostics.** An event the server refuses makes it answer 400 after it has logged those before it, and the rest of the batch is given up; events are ascribed to whoever is logged in when they are sent; a failing flush fills the queue again after the policy was turned
off; beyond the limit an arriving event drops the oldest, a returning batch the newest; answers with the policy can overtake each other until the next refresh.

**Workflow.** A profile of the browser is recorded with the fingerprint of the run's start (`verification-state.mjs:330`, `355`; the check at `:363` takes nothing back), so an edit that is taken back makes a profile count for files it never ran on, though
`DokuVersGit.txt:70-77` binds the receipt to the tested inputs; files edited between next-task's check (`version-workflow.mjs:577`) and its staging (`:612`, `stageAllowed` at `:465`) are committed untested. These are the two exceptions of `WorkflowSound`; an edit
taken back while docs or build runs is not noticed either, since only start and end are compared. A build receipt stands for docs although its fingerprint leaves the documents out; finish-branch asks for no verification; a branch-commit that git refuses
leaves the index staged, which next-task, finish-branch and branch-commit itself then refuse, while next-task restores; a kill between the writing of changelog and versions, or a refused initial commit, leaves a branch no command accepts;
release-commit does not compare its version with release-open's (the model gives both what the user confirmed); a branch that did not start from main's last release always conflicts on the version line; `--all-changed` is accepted by more commands than the document says.

## 5. Proofs

For all values of the constants, from the named assumptions of the modules (`...Assumption`), which TLC evaluates in every run. Each inductive
invariant was checked by TLC on the run's instance before it was proved.

| module | theorems | the inductive invariant says |
|---|---|---|
| `AdministrationProofs` | `SettlesTruthfully`, `SettledFinal`, `ImplementsDelivery` (`Worker`) | with the types: a running worker holds a row that has been inserted, and a worker whose handler has returned has had its effect committed |
| | `PreviewIsBinding` (`People`), `ImportIsSound` (`MemberImport`) | a page's selection stands in what it shows, and an open preview and what is still to be sent are in the confirmed preview; what is pending of an import is exactly what comparing the same export again would offer |
| | `SettingsAreKept` (`Logging`) | unless it is astray, the snapshot is the tables but for the writes still unheard, and so is what a refresh under way will install; a view that is sure shows what the revisions it carries stand for |
| | `WorkflowIsSound` (`Workflow`) | versions and changelog stand where the command under way has left them; what the receipt holds, and what a run will add to it, is in the evidence; a staged or checked job is of the present head; a confirmed release is of a branch from this main |
| `WritePipelineProofs` | `Typed`, `WrittenOnceAndSeen`, `SuccessTrue`, `CacheOnlyGrows`, `KeepsPromise` (`WritePipeline`) | commits of an operation equal its receipt; each handler's place fits what its transaction has seen; what is waited for is in the running load's snapshot or a newer load is requested |
| | `CourtsAreFollowed` (`CourtAutomation`) | copies of the round, the reads and the cache are no newer than the rows; what a court needs is in the round's remaining courts, will be looked at again, or its timer is set; a mark's serial is that of the assignment it was set for |
| | `DiagnosticsAreSound` (`Diagnostics`) | what is under way, waiting and handed over is in the order of the events and disjoint, and with what was logged and given up it is all there is; a page that may send has a timer or a batch under way |
| `CourtScoresProofs` | `Typed`, `PollsOnceAndLogs`, `PollerFollows` (`CourtScores`) | the poll's copy holds only logged or suppressed scores at every await; for `PollerFollows` (one request at a time): until the first fault, cache, poller and baselines agree with the rows as far as the request's step has come |
| | `DisplaysWhatThereIs` (`Scoreboard`) | for each topic: the last event on the wire tells the truth, or none is there and the page has it; revisions on the wire ascend; while no news of a table is on the wire, a synchronised page and a snapshot that will be displayed have the table as it is; one request, whose answer counts unless it was superseded |
| `PlayersProofs` | `RankingInvariant`, `RanksAreKept`, `OrderIsKept`, `BoundaryIsKept` (`Ranking`) | ranks of the list are exactly 1..n; the changes of every open match and of every result move an interval of ranks by one and restore it when reversed |
| | `PreferencesAreKept` (`Preferences`) | what a tab, an answer or a request knows of a document is older than the document or is the document; while a tab is behind, something is under way that will tell it |
| | `SaidOnce` (`History`) | a comment whose id was not given up is in the history only while its payload is retained under its id or its draft is over, and once |
| `MonitorsProofs` | `NavigationIsSound` | the registered connection is the page's newest, or its close is still to be seen; a number that moved the frame is remembered for its connection, or nothing of that connection can come any more; one acknowledgement at a time is awaited, for the phase the navigation is in, and "loaded" is answered only when the command was confirmed |
| `SessionsProofs` | `SessionsInvariant`, `SessionsStaySound`, `RefreshIsCurrent` | queues hold exactly the waiting requests and only the first runs; a running login knows the password that counts; `newer` is a strict total order of the live sessions; uses plus open authorisations never exceed the grants; pages and requests name each other |
| `ParticipationProofs` | `EverythingAgreesOnScores` (`Scores`) | every set of the score is one the rules can have reached, the last alone may be unfinished, and who has won so far is counted |
| | `BracketIsKept`, `WhatIsOfferedIsAccepted`, `GroupIsCurrent` (`Tournament`) | a dialog that is up to date is for a seated match, and its clearing is not blocked; places that are fed hold the comer; a seat holds only somebody drawn for it; the newest load's data has the cache's winners |
| | `EntriesAreAnnouncedOnce`, `ListsAreCurrent` (`Entries`) | an operation not begun has changed nothing and one press at most serves an id; a projection that lags has a load ahead |
| | `PlacesAreKept` (`Halls`) | every queue is in an order, so somebody is its first; a person is confirmed or waits, not both; a grid still to be created has no entries |
| `ConnectionProofs` | `SocketsStaySound`, `ReloadsOnce` | the current socket is of the newest generation; what is open is current; the marker stands after a reload; connected means greeted with nothing waiting |

*Ranking.* `RanksAreKept` rests on lemmas about functions whose values are an interval: shifting a range by one and putting one player
into the gap keeps them an interval. Reversal restores the ranks because each result remembers the ranks before it.
*Scoreboards.* What must be true of the page is proved as a fact about the wire: every change appends an event (`ScoresAdded`, `CourtsAdded`, `EventsSent`), every step of the page takes the first message and keeps the fact for the rest (`TakenTold`, `TakenOrder`), so with an empty wire it is a fact about the page.
*Sessions.* The session limit needs that the sessions kept are the newest ones of a finite ordered set (`FewNewest`); that an old password is dead needs
that nobody but the head of the queue runs (`OneRuns`). *Competition.* That nobody is displaced follows because the place a winner is put into is
either open or holds the one he replaces (`SeatGiven`, `CommitKeeps`); that nobody comes to play against himself is `SeatsDrawn`; `BracketsAssumption` says what the schema's
`UNIQUE(target_match_id, target_side_no)` and `CHECK(source <> target)` guarantee (`db/migrations/000003_play.sql:197-209`).
*Scores.* The game is a state machine, point by point, so the agreement of the readers is an induction over its steps: the score as it stands is always one that has not ended, and the step that ends it is judged by each reader.
*Workflow.* The invariant has three parts, each kept by every command: where versions and changelog stand (`SideNext`), what the receipt may claim (`TestNext`: an entry is in the evidence, `EntryKept`, and what the check accepts was tested,
`Verified`), and what is on main (`ReleaseNext`).
*Import.* Each write settles its entry (`WriteSettles`): the other rows mean whom they meant (`OtherRowsMatch`), a proposed login stays free (`ProposalKept`), who is
unmeant stays so (`UnhandledKept`), so the list loses one entry and no other (`OthersStay`) and the next request is accepted (`OfferAccepted`). `ImportsAssumption` says what
`parseClubDeskCsv` and the tables guarantee: CD-IDs once in the export and once among people, a class of membership in each row. *Pages.* Entries with one signature are one entry (`SignatureIdentifies`),
so a selection that survives a load is what the preview showed. *Connection.* Every function of the data client keeps "current is newest" and leaves `connected` whenever it gives the socket up; the one step that could
reload twice is guarded by the marker, which only a welcome on the current socket removes. *Monitors.* The queue of scrolls, the connection's wire and the page's chain are in order of
numbers only within one connection, so the invariant speaks of each connection, and of a chain left over from an earlier one.
*Hall times.* Each action is shown to leave every date with a queue that is `Sound`: in order, within its room, of members only, nobody of it overtaken. That the
first who waits exists (`FirstWaits`) is the least element of a finite order; who moves up takes the place that was given up (`NoMore`); a plan gives each date at most
as many as the grid has places (`PlanSound`). `ScenesAssumption` says that the tables keep these rules at first.

**Only model-checked.** Liveness (`EverySettled`, `Progresses`, `ChangeIsShown`, `Settles`, `CatchesUp`, `Recovers`, `Sessions!PagesSettle`) needs fairness and
ENABLED, which the prover does not handle. `OffersSettle` is about the page of the ranking, whose candidates the module sorts with `SetToSortSeq` and whose answers are of four moments; `MCPersonal!PagesSettle` (badge, list,
history) is about pages the module reads with sorted sequences too. Both are properties of quiet states after many steps; their invariants have not been worked out for all values.

## 6. What is not modelled

* Text: set grammar, names (a reconciliation's required last name, `memberReconciliation.js:66`, among them), CSV syntax, wording of messages; sizes of delays, rate limits (that a request may be refused for one is in `History`), capacities of buffers except the
  diagnostics' queue. An answer of the login whose body cannot be read (`authClient.js:87`) is not told from a failed request; no property depends on it.
* IDEMPOTENCY_CONFLICT (another payload under a used operationId): the browser derives both from the same form. The bound of a hundred retained
  operationIds, and the twelve months after which an idempotency row is deleted.
* The rendering of scoreboards (their requests that time out on a live connection, too), individual pairings on a court, the profile's buttons for challenges, reports and delivery preferences of messages, membership history, doubles and byes.
* The timer loop of the worker (`workerService.js:156`), migrations, imports and bootstrap. Shutdown (`server.js:767`), where two things were seen: after a failed first load the drain throws before it waits for active requests and the loader, and a signal
  that arrives after the start's last check lets poller, automation, listener and cleanup timer be started after they were stopped.
* The workflow's subjects, names, secrets and renames; switching branches while a suite runs; the programs of the suites.
* The former SQLite services (`messagingRepository.js`, `messagingService.js`, `stateRepository.js`, `authService.js`, `monitorBroker.js`, ...), which the
  running server does not use or only as base helpers.
