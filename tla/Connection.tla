----------------------------- MODULE Connection -----------------------------
(***************************************************************************)
(* A page of the browser and its connection to the server: the state       *)
(* machine of Frontend/JS/dataClient.js with its socket generations,       *)
(* reconnection timer, waiting requests and coalesced reloads, and the     *)
(* sockets, handshakes, subscriptions and publications of                  *)
(* Backend/dataProvider.js.                                                *)
(*                                                                         *)
(* The page shows one table of which the server has a version; an event    *)
(* only tells it to read again.  Socket names are reused once a socket is  *)
(* closed.  Durations are abstracted: a timer fires at any time, except    *)
(* that a deadline for something that is under way costs a disturbance.    *)
(***************************************************************************)
EXTENDS Integers, Sequences, FiniteSets, SequencesExt, FiniteSetsExt

CONSTANTS Sockets,          \* bound: sockets that are not closed yet (numbers)
          MaxWrites,        \* bound: changes of the table
          MaxDisturbances   \* bound: faults, late timers, and acts of the user and the operator
ASSUME BoundsAssumption == /\ Sockets \in SUBSET (Nat \ {0}) /\ Sockets # {}
                           /\ MaxWrites \in Nat /\ MaxDisturbances \in Nat

VARIABLES page,      \* the data client and the table the page shows
          sock,      \* the sockets, with the server's record of each
          server,    \* whether it runs, its version, the version of the table
          disturbed, \* counter of the bound
          faulted    \* history: a failed query of the server left the page without an event
vars == <<page, sock, server, disturbed, faulted>>

None == 0
Closed == [phase |-> "none", live |-> TRUE, c2s |-> {}, s2c |-> <<>>, greeted |-> FALSE, subscribed |-> FALSE]
Message(type, n) == [type |-> type, n |-> n]
Disturb == disturbed < MaxDisturbances /\ disturbed' = disturbed + 1
Free == {s \in Sockets : sock[s].phase = "none"}
Next1 == Min(Free)

-----------------------------------------------------------------------------
(* What the client's functions do to the page.                             *)

Allowed(from) ==
    CASE from = "idle"       -> {"connecting", "offline", "stopped"}
      [] from = "connecting" -> {"connected", "backoff", "offline", "idle", "stopped"}
      [] from = "connected"  -> {"stale", "backoff", "offline", "idle", "stopped"}
      [] from = "stale"      -> {"backoff", "offline", "idle", "stopped"}
      [] from = "backoff"    -> {"connecting", "offline", "idle", "stopped"}
      [] from = "offline"    -> {"idle", "connecting", "stopped"}
      [] from = "stopped"    -> {"idle", "backoff"}
\* setState throws on any other transition, and its caller stops there
Legal(p, next) == next = p.st \/ next \in Allowed(p.st)
SetState(p, next) == IF p.st = "stopped" /\ next = "backoff" THEN p ELSE [p EXCEPT !.st = next]

\* A read that was sent is retried twice, any other failure ends it
Rejected(p) == IF p.read # "sent" THEN p ELSE [p EXCEPT !.read = IF p.tries < 3 THEN "paused" ELSE "no"]
WaitersRejected(p) == IF p.read = "waiting" THEN [p EXCEPT !.read = "no"] ELSE p
MutWaitersResolved(p) == IF p.read = "waiting" /\ p.tries = 1 THEN [p EXCEPT !.read = "sent"] ELSE p
WaitersResolved(p) == IF p.read = "waiting" THEN [p EXCEPT !.read = "sent"] ELSE p

Cleanup(p, s) == IF p.cur # s THEN p ELSE Rejected([p EXCEPT !.cur = None, !.wel = FALSE])

MutScheduleReconnect(p) == IF p.stopped \/ p.st = "stopped" \/ ~p.online \/ p.timer THEN p
                           ELSE SetState(p, "backoff")
ScheduleReconnect(p) == IF p.stopped \/ p.st = "stopped" \/ ~p.online \/ p.timer THEN p
                        ELSE [SetState(p, "backoff") EXCEPT !.timer = TRUE]

\* setState("backoff") and then the timer; an exception in between leaves the client without one
BackOff(p) == IF Legal(p, "backoff") THEN ScheduleReconnect(SetState(p, "backoff")) ELSE p

Connect(p) == CASE ~p.online -> IF Legal(p, "offline") THEN SetState(p, "offline") ELSE p
                [] p.online /\ (p.stopped \/ p.cur # None \/ p.timer) -> p
                [] OTHER -> [p EXCEPT !.st = "connecting", !.cur = Next1, !.gen = Next1]

\* request: wait for the connection; without one connect at once, or wait for the timer
CanAsk(p) == p.online /\ p.st # "offline" /\ ~p.stopped
Ask(p, hurry) == IF p.st = "connected" /\ p.wel THEN [p EXCEPT !.read = "sent"]
                 ELSE IF ~CanAsk(p) THEN [p EXCEPT !.read = "no"]
                 ELSE Connect([p EXCEPT !.read = "waiting", !.timer = @ /\ ~(hurry /\ ~p.hidden)])

\* restartConnection
Restart(p) == IF p.terminal THEN p
              ELSE Connect(Rejected([p EXCEPT !.stopped = FALSE, !.timer = FALSE, !.cur = None, !.gen = None,
                                              !.wel = FALSE, !.st = "idle"]))

\* resumeClient: nothing while hidden or within half a second of the last one
Resume(p) == CASE p.hidden -> p
               [] ~p.hidden /\ p.hot -> [p EXCEPT !.missed = TRUE]
               [] OTHER -> Restart([p EXCEPT !.hot = TRUE, !.missed = FALSE,
                                          !.check = IF p.check = "no" THEN p.version ELSE p.check])

Stop(p) == [WaitersRejected(p) EXCEPT !.stopped = TRUE, !.terminal = TRUE, !.st = "stopped"]

\* The page as it is loaded while the browser is online
Loaded(hidden, reloads) ==
    [st |-> "connecting", cur |-> Min(Sockets), gen |-> Min(Sockets), timer |-> FALSE, wel |-> FALSE,
     stopped |-> FALSE, terminal |-> FALSE, online |-> TRUE, hidden |-> hidden, hot |-> FALSE, missed |-> FALSE,
     check |-> "no", version |-> "unasked", hello |-> {}, marker |-> reloads > 0, reloads |-> reloads,
     pend |-> TRUE, read |-> "no", tries |-> 1, shown |-> 0]
NewSockets == [s \in Sockets |-> IF s = Min(Sockets) THEN [Closed EXCEPT !.phase = "new"] ELSE Closed]

MutMayReload == ~page.marker \/ page.version = "unknown"
\* shouldReloadForVersionMismatch: the marker in the session storage allows one reload
MayReload == ~page.marker
Reload == page' = Loaded(page.hidden, page.reloads + 1) /\ sock' = NewSockets

Init == /\ page = Loaded(FALSE, 0) /\ sock = NewSockets
        /\ server = [up |-> TRUE, version |-> 1, data |-> 1]
        /\ disturbed = 0 /\ faulted = FALSE

-----------------------------------------------------------------------------
(* Steps of the page.  Becomes(q, base) exchanges the page and opens,      *)
(* closes and uses the sockets as the change says.                         *)

Becomes(q, base) ==
    /\ page' = q
    /\ sock' = [s \in Sockets |->
         CASE s = q.cur /\ s # page.cur -> [Closed EXCEPT !.phase = "new"]
           [] s = page.cur /\ s # q.cur /\ base[s].phase \in {"new", "open"} -> [base[s] EXCEPT !.phase = "closing"]
           [] s = page.cur /\ s = q.cur /\ q.read = "sent" /\ page.read # "sent" -> [base[s] EXCEPT !.c2s = @ \cup {"read"}]
           [] OTHER -> base[s]]

\* Every hello that waited for the app version runs in turn; an old socket's throws and backs off
HelloFails(s) == s # page.cur \/ sock[s].phase # "open"
Hello(waiting, v) ==
    LET failed == {s \in waiting : HelloFails(s)}
        p == [page EXCEPT !.version = v, !.hello = {}]
        q == IF failed = {} THEN p ELSE BackOff(IF page.cur \in failed THEN Cleanup(p, page.cur) ELSE p)
    IN Becomes(q, [s \in Sockets |-> IF s \in waiting \ failed THEN [sock[s] EXCEPT !.c2s = {"hello"}] ELSE sock[s]])

Opened(s) ==
    /\ sock[s].phase = "new" /\ s = page.cur /\ server.up /\ sock[s].live
    /\ LET opened == [sock EXCEPT ![s].phase = "open"] IN
       IF page.version = "unasked" THEN sock' = opened /\ page' = [page EXCEPT !.hello = @ \cup {s}]
       ELSE sock' = [opened EXCEPT ![s].c2s = {"hello"}] /\ UNCHANGED page
    /\ UNCHANGED <<server, disturbed, faulted>>

VersionName == IF server.version = 1 THEN "first" ELSE "second"
VersionAnswered ==
    /\ page.hello # {} /\ page.version = "unasked"
    /\ \/ server.up /\ page.online /\ Hello(page.hello, VersionName) /\ UNCHANGED disturbed
       \/ ~(server.up /\ page.online) /\ Hello(page.hello, "unknown") /\ UNCHANGED disturbed
       \/ server.up /\ page.online /\ Disturb /\ Hello(page.hello, "unknown")
    /\ UNCHANGED <<server, faulted>>

Heard(s, type) == sock[s].phase = "open" /\ sock[s].live /\ sock[s].s2c # <<>> /\ Head(sock[s].s2c).type = type
Consumed(s) == [sock EXCEPT ![s].s2c = Tail(@)]

\* setState("connected") may throw: then nobody is told and nothing is subscribed
Welcomed(s) ==
    /\ Heard(s, "welcome")
    /\ LET p == [page EXCEPT !.wel = TRUE, !.marker = FALSE, !.reloads = 0]
           base == [Consumed(s) EXCEPT ![s].c2s = @ \cup {"subscribe"}]
       IN IF Legal(p, "connected") THEN Becomes(WaitersResolved(SetState(p, "connected")), base)
          ELSE Becomes(p, Consumed(s))
    /\ UNCHANGED <<server, disturbed, faulted>>

EventHeard(s) == /\ Heard(s, "event") /\ page' = [page EXCEPT !.pend = TRUE] /\ sock' = Consumed(s)
                 /\ UNCHANGED <<server, disturbed, faulted>>

ResponseHeard(s) ==
    /\ Heard(s, "response") /\ sock' = Consumed(s)
    /\ page' = IF page.read = "sent" THEN [page EXCEPT !.read = "no", !.shown = Head(sock[s].s2c).n] ELSE page
    /\ UNCHANGED <<server, disturbed, faulted>>

\* The close event of the current socket, of one the page has closed itself (the state can still be
\* "offline" when the browser is online again: setState throws), and of one it has replaced
Without(s) == [sock EXCEPT ![s] = Closed]
Lost(s) == LET p == Cleanup(page, s) IN
           Becomes(ScheduleReconnect(SetState(p, IF p.online THEN "backoff" ELSE "offline")), Without(s))
OwnClose(s) == \/ page.gen = s /\ (page.st = "offline" => ~page.online) /\ Lost(s)
               \/ page.gen = s /\ page.st = "offline" /\ page.online /\ Becomes(Cleanup(page, s), Without(s))
               \/ page.gen # s /\ Becomes(page, Without(s))
VersionRefused(s) == IF MayReload THEN Reload ELSE Becomes(Stop(Cleanup(page, s)), Without(s))
CloseHeard(s) ==
    /\ \/ sock[s].phase = "closing" /\ OwnClose(s)
       \/ sock[s].phase = "new" /\ ~(server.up /\ sock[s].live) /\ Lost(s)
       \/ Heard(s, "restart") /\ Lost(s)
       \/ Heard(s, "version") /\ VersionRefused(s)
       \/ Heard(s, "protocol") /\ Becomes(Stop(Cleanup(page, s)), Without(s))
    /\ UNCHANGED <<server, disturbed, faulted>>

ReconnectTimer == /\ page.timer /\ Free # {} /\ Becomes(Connect([page EXCEPT !.timer = FALSE]), sock)
                  /\ UNCHANGED <<server, disturbed, faulted>>

\* Connect timeout and stale watchdog close the socket; its close event does the rest
ConnectTimeout ==
    /\ page.cur # None /\ page.st # "connected" /\ sock[page.cur].phase \in {"new", "open"}
    /\ ((page.wel \/ ~sock[page.cur].live) /\ UNCHANGED disturbed) \/ Disturb
    /\ sock' = [sock EXCEPT ![page.cur].phase = "closing"] /\ UNCHANGED <<page, server, faulted>>
Stale == /\ page.st = "connected" /\ ~sock[page.cur].live
         /\ page' = SetState(page, "stale") /\ sock' = [sock EXCEPT ![page.cur].phase = "closing"]
         /\ UNCHANGED <<server, disturbed, faulted>>

\* The reload of the page: one at a time, the events of the meantime make one more
Drain == /\ page.pend /\ page.read = "no" /\ Free # {}
         /\ \E hurry \in BOOLEAN : Becomes(Ask([page EXCEPT !.pend = FALSE, !.tries = 1], hurry), sock)
         /\ UNCHANGED <<server, disturbed, faulted>>
Retry == /\ page.read = "paused" /\ Free # {}
         /\ \E hurry \in BOOLEAN : Becomes(Ask([page EXCEPT !.tries = @ + 1], hurry), sock)
         /\ UNCHANGED <<server, disturbed, faulted>>
ReadTimesOut ==
    /\ \/ page.read = "sent" /\ ((~sock[page.cur].live /\ UNCHANGED disturbed) \/ Disturb)
       \/ page.read = "waiting" /\ Disturb
    /\ page' = Rejected([page EXCEPT !.read = "sent"]) /\ UNCHANGED <<sock, server, faulted>>

\* checkForAppUpdate after a resume
UpdateChecked ==
    /\ page.check # "no"
    /\ IF server.up /\ page.online /\ page.check \notin {"unasked", "unknown", VersionName} /\ MayReload THEN Reload
       ELSE page' = [page EXCEPT !.check = "no"] /\ UNCHANGED sock
    /\ UNCHANGED <<server, disturbed, faulted>>
Cool == page.hot /\ page' = [page EXCEPT !.hot = FALSE] /\ UNCHANGED <<sock, server, disturbed, faulted>>

-----------------------------------------------------------------------------
(* The browser and the user.                                               *)

Dead == [s \in Sockets |-> IF sock[s].phase = "none" THEN Closed ELSE [sock[s] EXCEPT !.live = FALSE]]
GoOffline ==
    /\ page.online /\ Disturb
    /\ IF page.st = "stopped" THEN page' = [page EXCEPT !.online = FALSE] /\ sock' = Dead
       ELSE /\ page' = WaitersRejected(SetState([page EXCEPT !.online = FALSE], "offline"))
            /\ sock' = [s \in Sockets |-> IF s = page.cur THEN [Dead[s] EXCEPT !.phase = "closing"] ELSE Dead[s]]
    /\ UNCHANGED <<server, faulted>>
GoOnline ==
    /\ ~page.online /\ Free # {} /\ Becomes(Resume([page EXCEPT !.online = TRUE]), sock)
            /\ UNCHANGED <<server, disturbed, faulted>>
Hide == /\ ~page.hidden /\ Disturb /\ page' = [page EXCEPT !.hidden = TRUE] /\ UNCHANGED <<sock, server, faulted>>
Show == /\ page.hidden /\ Free # {} /\ Becomes(Resume([page EXCEPT !.hidden = FALSE]), sock)
        /\ UNCHANGED <<server, disturbed, faulted>>

\* focus, pageshow, a gap of the lifecycle timer; a login, logout or new password
Focus == Free # {} /\ Disturb /\ Becomes(Resume(page), sock) /\ UNCHANGED <<server, faulted>>
SessionChanged == Free # {} /\ Disturb /\ Becomes(Restart(page), sock) /\ UNCHANGED <<server, faulted>>

-----------------------------------------------------------------------------
(* The network and the server.                                             *)

Silent(s) == /\ sock[s].phase \in {"new", "open"} /\ sock[s].live /\ Disturb
             /\ sock' = [sock EXCEPT ![s].live = FALSE] /\ UNCHANGED <<page, server, faulted>>
Broken(s) == /\ sock[s].phase = "open" /\ Disturb /\ Lost(s) /\ UNCHANGED <<server, faulted>>

Asked(s, message) == sock[s].phase = "open" /\ sock[s].live /\ server.up /\ message \in sock[s].c2s
Answered(s, message, sent) == [sock EXCEPT ![s].c2s = @ \ {message}, ![s].s2c = @ \o sent]

\* handleMessage, hello: the awaited principal can fail, which closes with the terminal code
HelloHandled(s) ==
    /\ Asked(s, "hello")
    /\ \/ /\ page.version # VersionName
          /\ sock' = Answered(s, "hello", <<Message("version", 0)>>) /\ UNCHANGED disturbed
       \/ /\ page.version = VersionName
          /\ sock' = [Answered(s, "hello", <<Message("welcome", 0)>>) EXCEPT ![s].greeted = TRUE]
          /\ UNCHANGED disturbed
       \/ page.version = VersionName /\ Disturb /\ sock' = Answered(s, "hello", <<Message("protocol", 0)>>)
    /\ UNCHANGED <<page, server, faulted>>

\* handleMessage, subscribe: every accepted topic gets a snapshot; a failed query ends the batch
SubscribeHandled(s) ==
    /\ Asked(s, "subscribe")
    /\ \/ /\ sock' = [Answered(s, "subscribe", <<Message("event", 0)>>) EXCEPT ![s].subscribed = TRUE]
          /\ UNCHANGED <<disturbed, faulted>>
       \/ sock' = Answered(s, "subscribe", <<>>) /\ Disturb /\ faulted' = TRUE
    /\ UNCHANGED <<page, server>>

ReadHandled(s) == /\ Asked(s, "read") /\ sock' = Answered(s, "read", <<Message("response", server.data)>>)
                  /\ UNCHANGED <<page, server, disturbed, faulted>>

\* publish: an event to every subscribed socket; a private topic loses it when the principal cannot be read
Told(s) == sock[s].greeted /\ sock[s].subscribed /\ sock[s].phase = "open"
Publish(told) == sock' = [s \in Sockets |-> IF s \in told THEN [sock[s] EXCEPT !.s2c = Append(@, Message("event", 0))]
                                                          ELSE sock[s]]
Write == /\ server.up /\ server.data <= MaxWrites /\ server' = [server EXCEPT !.data = @ + 1]
         /\ LET told == {s \in Sockets : Told(s)} IN
            \/ Publish(told) /\ UNCHANGED <<disturbed, faulted>>
            \/ told # {} /\ Disturb /\ Publish({}) /\ faulted' = TRUE
         /\ UNCHANGED page

\* shutdown closes every socket; the program that starts again may be a newer one
ServerStops ==
    /\ server.up /\ Disturb /\ \E v \in {server.version, 2} : server' = [server EXCEPT !.up = FALSE, !.version = v]
    /\ sock' = [s \in Sockets |-> IF sock[s].phase # "open" THEN sock[s]
                  ELSE [sock[s] EXCEPT !.s2c = Append(@, Message("restart", 0)), !.c2s = {},
                                       !.greeted = FALSE, !.subscribed = FALSE]]
    /\ UNCHANGED <<page, faulted>>
ServerStarts == ~server.up /\ server' = [server EXCEPT !.up = TRUE] /\ UNCHANGED <<page, sock, disturbed, faulted>>

-----------------------------------------------------------------------------
PageSteps == VersionAnswered \/ ReconnectTimer \/ ConnectTimeout \/ Stale \/ Drain \/ Retry \/ ReadTimesOut \/ UpdateChecked \/ Cool
SocketSteps(s) == Opened(s) \/ Welcomed(s) \/ EventHeard(s) \/ ResponseHeard(s) \/ CloseHeard(s)
ServerSteps(s) == HelloHandled(s) \/ SubscribeHandled(s) \/ ReadHandled(s)
Progress == PageSteps \/ \E s \in Sockets : SocketSteps(s) \/ ServerSteps(s)
Environment == GoOffline \/ GoOnline \/ Hide \/ Show \/ Focus \/ SessionChanged \/ Write \/ ServerStops \/ ServerStarts
               \/ \E s \in Sockets : Silent(s) \/ Broken(s)
Next == Progress \/ Environment
Spec == Init /\ [][Next]_vars /\ WF_vars(Progress /\ UNCHANGED disturbed) /\ WF_vars(ServerStarts)

-----------------------------------------------------------------------------
(* Properties.                                                             *)

\* The type invariant of the data client, its sockets and the server
States == {"idle", "connecting", "connected", "stale", "backoff", "offline", "stopped"}
\* However connections are replaced, lost and given up, the page leaves no socket behind that it neither
\* uses nor has closed: the server counts every one against the address (cleanupSocket, restartConnection)
NoSocketForgotten == \A s \in Sockets : sock[s].phase \in {"new", "open"} => s = page.cur

\* A client that says connected has a greeted socket of the newest generation, and no request waits any more
ConnectedIsReal == page.st = "connected" => /\ page.wel /\ page.cur # None /\ page.cur = page.gen
                                            /\ page.read # "waiting"
SocketsSound == NoSocketForgotten /\ ConnectedIsReal

\* However versions change and fetches fail, no page reloads itself twice without a welcome in between
\* (WEBSOCKET-CLOSE-CODES: keine Reloadschleife)
NoReloadLoop == page.reloads <= 1

\* A visible page that did not miss a resume ends up connected, or stopped for a terminal code
Reconnects == <>[](page.online /\ ~page.hidden /\ ~page.missed => page.st \in {"connected", "stopped"})

\* Once connected and at rest the page shows the newest version, unless a query of the server failed on the way
CatchesUp == <>[](page.st = "connected" /\ ~faulted => page.shown = server.data)
Recovers == Reconnects /\ CatchesUp
=============================================================================
