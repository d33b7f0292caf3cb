------------------------------ MODULE Monitors ------------------------------
(***************************************************************************)
(* One monitor of the club house and everybody who steers it: the row of   *)
(* the device (venue.monitor_devices), the broker of the server            *)
(* (Backend/postgresMonitorBroker.js), the page that shows what it is told *)
(* (Frontend/JS/monitorPolling.js) and the operator's navigator            *)
(* (navigatorList.js, navigatorScroll.js).                                 *)
(*                                                                         *)
(* Commands are numbered as the operator presses.  The page opens sockets  *)
(* 1, 2, ...; the server may notice late that one is gone.  What broker    *)
(* and page do from one await to the next is one action.                   *)
(***************************************************************************)
EXTENDS Integers, Sequences, FiniteSets, SequencesExt

CONSTANTS MaxCommands,     \* bound: navigations and scrolls
          MaxSockets,      \* bound: connections of the page
          MaxDisturbances, \* bound: lost sockets, restarts, refreshes, faults, timeouts, administrators' acts
          MaxRefusals,     \* bound: acknowledgements whose UPDATE fails
          Spent            \* what of the bounds is spent at the start: <<commands, sockets, disturbances, refusals>>

ASSUME BoundsAssumption == /\ MaxCommands \in Nat /\ MaxSockets \in Nat /\ MaxDisturbances \in Nat
                           /\ MaxRefusals \in Nat
                           /\ Spent \subseteq (0..MaxCommands) \X (0..MaxSockets) \X (0..MaxDisturbances)
                                              \X (0..MaxRefusals)

VARIABLES
    row, commits, snapshot,                  \* database; committed navigations and acts; a refresh's rows
    mem, conn, queue, inflight, timed, nextSeq, done, status,   \* the broker
    timers, handle,                          \* running navigation timers, the one that can be cleared
    writes, executed,                        \* scroll requests under way, their idempotency rows
    cookie, opened, link, inbox, acks,       \* between server and page
    shaking, gone,                           \* handshakes the server works on; sockets whose end it has seen
    device, shown, job, chain, high, applied,   \* the page
    button, retained, failed,                \* the navigator's scroll buttons
    pressed, disturbed,                      \* counters of the bounds
    confirmed, moved,                        \* history: accepted loads; the frame's moves since the page learned its device
    refusals                                 \* history: the commands whose acknowledgement failed at its UPDATE

broker == <<mem, conn, queue, inflight, timed, nextSeq, done, status, timers, handle>>
page == <<device, shown, job, chain, high, applied, moved>>
operator == <<button, retained, failed, writes, executed>>
database == <<row, commits, snapshot>>
sockets == <<shaking, gone>>
wire == <<cookie, opened, link, inbox, acks, sockets>>
vars == <<database, broker, operator, wire, page, pressed, disturbed, confirmed, refusals>>

Commands == 1..MaxCommands
Sockets == 1..MaxSockets
Directions == {"up", "down"}
NoJob == [cmd |-> 0, phase |-> "none", try |-> 1, sent |-> FALSE]

Init == /\ row = [target |-> 0, token |-> 1, state |-> "absent"] /\ commits = {} /\ snapshot = {}
        /\ mem = 0 /\ conn = 0 /\ queue = <<>> /\ inflight = 0 /\ timed = FALSE
        /\ nextSeq = 1 /\ done = {} /\ status = [cmd |-> 0, st |-> "none"] /\ timers = {} /\ handle = 0
        /\ writes = {} /\ executed = {} /\ button = [d \in Directions |-> "free"]
        /\ retained = [d \in Directions |-> 0] /\ failed = {}
        /\ \E s \in Spent : /\ pressed = s[1] /\ opened = s[2] /\ disturbed = s[3]
                            /\ refusals = [i \in 1..s[4] |-> 0]
        /\ cookie = 0 /\ link = "stopped" /\ inbox = <<>> /\ acks = {} /\ shaking = {} /\ gone = {}
        /\ device = FALSE /\ shown = 0 /\ job = NoJob
        /\ chain = <<>> /\ high = [s \in Sockets |-> 0] /\ applied = {} /\ moved = <<>>
        /\ confirmed = {}

-----------------------------------------------------------------------------
(* The broker's helpers.                                                   *)

Valid(token) == row.state = "enrolled" /\ row.token = token
Disturb == disturbed < MaxDisturbances /\ disturbed' = disturbed + 1

\* send: into a registered socket; what the page has left behind is lost
Sent(m) == IF conn = opened /\ link = "up" THEN Append(inbox, m) ELSE inbox
Message(kind, c, seq) == [kind |-> kind, cmd |-> c, seq |-> seq, stream |-> conn]

\* The navigator's copy of a status, which never falls back for one command
Rank(st) == CASE st \in {"none", "sent", "offline"} -> 0 [] st = "received" -> 1 [] st = "loading" -> 2 [] OTHER -> 3
Publish(c, st) == IF status.cmd = c /\ Rank(st) < Rank(status.st) THEN status ELSE [cmd |-> c, st |-> st]

Freed == [d \in Directions |-> "free"]
Pending == ({inflight} \ {0}) \cup {queue[i].cmd : i \in DOMAIN queue}

\* failPending of the registered connection; the navigator frees its buttons when a monitor goes offline
FailPending ==
    /\ conn' = 0 /\ queue' = <<>> /\ inflight' = 0 /\ timed' = FALSE /\ done' = {} /\ nextSeq' = 1
    /\ timers' = timers \ {handle} /\ handle' = 0
    /\ failed' = failed \cup Pending
    /\ button' = Freed
Disconnect(code) == IF conn # 0 THEN FailPending /\ inbox' = Sent(Message(code, 0, 0))
                    ELSE UNCHANGED <<conn, queue, inflight, timed, done, nextSeq, timers, handle, failed, button, inbox>>

\* sendNavigation: the timer of an earlier command goes on, only the last one can be cleared
SendNavigation(c) == IF conn \notin gone \cup {0}
                     THEN /\ inbox' = Sent(Message("navigate", c, 0))
                          /\ timers' = timers \cup {c} /\ handle' = c
                     ELSE UNCHANGED <<inbox, timers, handle>>

\* sendNextScroll on the registered connection, with queue q and nothing in flight
SendNext(q) == IF q = <<>> THEN inflight' = 0 /\ queue' = q /\ timed' = FALSE /\ UNCHANGED inbox
               ELSE /\ inflight' = Head(q).cmd /\ queue' = Tail(q) /\ timed' = TRUE
                    /\ inbox' = Sent(Message("scroll", Head(q).cmd, Head(q).seq))

-----------------------------------------------------------------------------
(* The operator's requests.                                                *)

\* provision: the row, the broker's entry and the token shown once
Provision == /\ row.state = "absent" /\ row' = [row EXCEPT !.state = "enrolled"]
             /\ UNCHANGED <<commits, snapshot, broker, operator, wire, page, pressed, disturbed, confirmed>>

\* sendNavigation of the navigator and the transaction of navigate (createNavigationCommand)
Targeted(c) == [row EXCEPT !.target = c]
Navigate ==
    /\ pressed < MaxCommands /\ row.state = "enrolled"
    /\ pressed' = pressed + 1 /\ row' = Targeted(pressed')
    /\ commits' = commits \cup {[kind |-> "navigate", cmd |-> pressed']}
    /\ UNCHANGED <<snapshot, broker, operator, wire, page, disturbed, confirmed>>

NavigateGoesOn(c) ==
    /\ c.kind = "navigate" /\ commits' = commits \ {c}
    /\ mem' = c.cmd /\ SendNavigation(c.cmd)
    /\ status' = Publish(c.cmd, IF conn \notin gone \cup {0} THEN "sent" ELSE "offline")
    /\ UNCHANGED <<row, snapshot, conn, queue, inflight, timed, nextSeq, done, operator>>
    /\ UNCHANGED <<cookie, opened, link, acks, sockets, page, pressed, disturbed, confirmed>>

NavigationTimesOut(c) ==
    /\ Disturb /\ timers' = timers \ {c} /\ handle' = IF handle = c THEN 0 ELSE handle
    /\ status' = IF mem = c THEN Publish(c, "failed") ELSE status
    /\ UNCHANGED <<database, mem, conn, queue, inflight, timed, nextSeq, done, operator>>
    /\ UNCHANGED <<wire, page, pressed, confirmed>>

\* sendScroll and the beginning of scroll: the sequence number is taken before the transaction
CanScroll(d) == button[d] = "free" /\ conn # 0 /\ status.st = "loaded" /\ row.state = "enrolled"
Scroll(d) ==
    /\ CanScroll(d)
    /\ retained[d] # 0 \/ pressed < MaxCommands
    /\ LET op == IF retained[d] # 0 THEN retained[d] ELSE pressed + 1
       IN /\ pressed' = IF retained[d] # 0 THEN pressed ELSE op
          /\ writes' = writes \cup {[dir |-> d, cmd |-> op, seq |-> nextSeq, stream |-> conn]}
          /\ retained' = [retained EXCEPT ![d] = op]
    /\ nextSeq' = nextSeq + 1 /\ nextSeq \in Commands /\ button' = [button EXCEPT ![d] = "pressed"]
    /\ UNCHANGED <<database, mem, conn, queue, inflight, timed, done, status, timers, handle>>
    /\ UNCHANGED <<failed, executed, wire, page, disturbed, confirmed>>

\* the operationId has been used: answered from its row, nothing is sent; a remembered failure frees the button again
KnownFailed(c) == c \in failed
ScrollRepeated(w) ==
    /\ w.cmd \in executed /\ writes' = writes \ {w}
    /\ button' = IF KnownFailed(w.cmd) THEN [button EXCEPT ![w.dir] = "free"] ELSE button
    /\ UNCHANGED <<database, broker, retained, failed, executed, wire, page, pressed, disturbed, confirmed>>

\* committed: into the queue of the connection it was meant for; if nothing can be sent, the monitor is disconnected
ScrollGoesOn(w) ==
    /\ w.cmd \notin executed /\ row.state = "enrolled"
    /\ writes' = writes \ {w} /\ executed' = executed \cup {w.cmd}
    /\ \/ /\ w.stream = conn /\ conn \notin gone
          /\ LET q == Append(queue, [cmd |-> w.cmd, seq |-> w.seq])
             IN IF inflight = 0 THEN SendNext(q) ELSE queue' = q /\ UNCHANGED <<inflight, timed, inbox>>
          /\ UNCHANGED <<conn, nextSeq, done, timers, handle, failed, button>>
       \/ (w.stream # conn \/ conn \in gone) /\ Disconnect("1011")
    /\ UNCHANGED <<database, mem, status, retained, cookie, opened, link, acks, sockets, page, pressed, disturbed, confirmed>>

ScrollRefused(w) ==
    /\ w.cmd \notin executed /\ row.state # "enrolled"
    /\ writes' = writes \ {w} /\ button' = [button EXCEPT ![w.dir] = "free"]
    /\ retained' = [retained EXCEPT ![w.dir] = 0]
    /\ UNCHANGED <<database, broker, failed, executed, wire, page, pressed, disturbed, confirmed>>

\* thirty seconds: before the page is through with the command only if something is slow
UnderWay(c) == \/ \E i \in DOMAIN inbox : inbox[i].kind = "scroll" /\ inbox[i].cmd = c
               \/ \E i \in DOMAIN chain : chain[i].cmd = c
ScrollTimesOut ==
    /\ inflight # 0 /\ timed /\ (IF UnderWay(inflight) THEN Disturb ELSE UNCHANGED disturbed) /\ done' = done \cup {inflight} /\ SendNext(queue)
    /\ UNCHANGED <<database, mem, conn, nextSeq, status, timers, handle, operator>>
    /\ UNCHANGED <<cookie, opened, link, acks, sockets, page, pressed, confirmed>>

(* An administrator rotates the token, revokes the device, or deletes it.  *)
Changed(kind) == CASE kind = "rotate" -> [row EXCEPT !.token = @ + 1, !.state = "enrolled"]
                   [] kind = "revoke" -> [row EXCEPT !.state = "revoked"]
                   [] kind = "delete" -> [row EXCEPT !.state = "deleted", !.target = 0]
Deletable == row.state = "revoked"
Administer(kind) ==
    /\ Disturb /\ row.state \in {"enrolled", "revoked"} /\ (kind = "delete" => Deletable) /\ row' = Changed(kind)
    /\ commits' = commits \cup {[kind |-> kind, cmd |-> 0]}
    /\ UNCHANGED <<snapshot, broker, operator, wire, page, pressed, confirmed>>

AdministerGoesOn(c) ==
    /\ c.kind # "navigate" /\ commits' = commits \ {c}
    /\ Disconnect("4003")
    /\ mem' = IF c.kind = "delete" THEN 0 ELSE mem
    /\ status' = IF c.kind = "delete" THEN [cmd |-> 0, st |-> "none"] ELSE status
    /\ UNCHANGED <<row, snapshot, writes, executed, retained>>
    /\ UNCHANGED <<cookie, opened, link, acks, sockets, page, pressed, disturbed, confirmed>>

\* refresh after an invalidation: the rows are read, and replace the broker's later
RefreshReads == /\ Disturb /\ snapshot = {} /\ snapshot' = {row.target}
                /\ UNCHANGED <<row, commits, broker, operator, wire, page, pressed, confirmed>>
RefreshApplies == /\ snapshot # {} /\ mem' \in snapshot /\ snapshot' = {}
                  /\ UNCHANGED <<row, commits, conn, queue, inflight, timed, nextSeq, done, status>>
                  /\ UNCHANGED <<timers, handle, operator, wire, page, pressed, disturbed, confirmed>>
-----------------------------------------------------------------------------
(* Sockets.                                                                *)

\* Requests of a lost socket that the server has not taken up are lost; the page waits for no answer any more
Forgotten == {[a EXCEPT !.waited = FALSE] : a \in {b \in acks : b.at = "writing"}}
Offline(l) == link' = l /\ inbox' = <<>> /\ acks' = Forgotten
Connected == link = "up" /\ ~\E i \in DOMAIN inbox : inbox[i].kind = "welcome"

\* checkMonitorSession: only the server's word makes the page forget its device and go dark (clearDevice);
\* an endpoint that cannot be reached changes nothing.
CheckSession ==
    \/ Valid(cookie) /\ device' = TRUE /\ UNCHANGED <<shown, job, high, applied, moved, disturbed>>
    \/ /\ ~Valid(cookie) /\ device' = FALSE /\ shown' = 0 /\ job' = NoJob
       /\ high' = [s \in Sockets |-> 0] /\ applied' = {} /\ moved' = <<>> /\ UNCHANGED disturbed
    \/ Disturb /\ UNCHANGED <<device, shown, job, high, applied, moved>>

Connect == /\ link = "closed" /\ opened < MaxSockets /\ opened' = opened + 1 /\ link' = "hello"
           /\ shaking' = shaking \cup {[socket |-> opened', token |-> cookie, found |-> "nothing"]}
           /\ UNCHANGED <<database, broker, operator, cookie, inbox, acks, gone, page, pressed, disturbed, confirmed>>

\* the handshake looks the token up, and goes on with what it has found, whatever has become of the socket
Authenticate(h) ==
    /\ h.found = "nothing"
    /\ shaking' = (shaking \ {h}) \cup {[h EXCEPT !.found = IF Valid(h.token) THEN "device" ELSE "visitor"]}
    /\ UNCHANGED <<database, broker, operator, cookie, opened, link, inbox, acks, gone, page, pressed, disturbed, confirmed>>
Awaited(h) == h.socket = opened /\ link = "hello"

\* register: another connection of the monitor is closed, the current target is sent again
Register(h) ==
    /\ h.found = "device" /\ shaking' = shaking \ {h}
    /\ conn' = h.socket /\ link' = IF Awaited(h) THEN "up" ELSE link
    /\ LET welcome == [kind |-> "welcome", cmd |-> 0, seq |-> 0, stream |-> opened]
           target == IF mem = 0 THEN <<>> ELSE <<[welcome EXCEPT !.kind = "navigate", !.cmd = mem]>>
       IN inbox' = IF Awaited(h) THEN <<welcome>> \o target
                   ELSE IF conn # 0 THEN Sent(Message("4009", 0, 0)) ELSE inbox
    /\ LET old == IF conn = 0 THEN {} ELSE {handle}
       IN IF mem = 0 \/ h.socket \in gone THEN timers' = timers \ old /\ handle' = 0
          ELSE timers' = (timers \ old) \cup {mem} /\ handle' = mem
    /\ queue' = <<>> /\ inflight' = 0 /\ timed' = FALSE /\ done' = {} /\ nextSeq' = 1
    /\ failed' = failed \cup Pending
    /\ button' = IF conn = 0 THEN button ELSE Freed
    /\ UNCHANGED <<database, mem, status, writes, executed, retained, cookie, opened, acks, gone>>
    /\ UNCHANGED <<page, pressed, disturbed, confirmed>>

\* the page of an unknown device is connected as a visitor, and asks for its session
WelcomeVisitor(h) ==
    /\ h.found = "visitor" /\ shaking' = shaking \ {h}
    /\ \/ Awaited(h) /\ link' = "visitor" /\ CheckSession
       \/ ~Awaited(h) /\ UNCHANGED <<link, device, shown, job, high, applied, moved, disturbed>>
    /\ UNCHANGED <<database, broker, operator, cookie, opened, inbox, acks, gone, chain, pressed, confirmed>>

\* the connection breaks; the page notices at once, the server later
Lose == /\ Disturb /\ link \notin {"closed", "stopped"} /\ Offline("closed")
        /\ UNCHANGED <<database, broker, operator, cookie, opened, sockets, device, shown, job, chain, high, applied, moved>>
        /\ UNCHANGED <<pressed, confirmed>>

Closes == {"1011", "4003", "4009"}
Closing == \E i \in DOMAIN inbox : inbox[i].kind \in Closes

\* the close event of a socket, registered or not (unregister)
Unregister(s) ==
    /\ s <= opened /\ s \notin gone /\ (s # opened \/ link \notin {"hello", "visitor", "up"} \/ Closing) /\ gone' = gone \cup {s}
    /\ IF s = conn THEN FailPending ELSE UNCHANGED <<conn, queue, inflight, timed, done, nextSeq, timers, handle, failed, button>>
    /\ UNCHANGED <<database, mem, status, writes, executed, retained, cookie, opened, link, inbox, acks, shaking>>
    /\ UNCHANGED <<page, pressed, disturbed, confirmed>>

\* the server restarts: it reads the rows, everything under way is gone
Restart ==
    /\ Disturb /\ mem' = row.target
    /\ conn' = 0 /\ queue' = <<>> /\ inflight' = 0 /\ timed' = FALSE /\ nextSeq' = 1 /\ done' = {}
    /\ status' = [cmd |-> 0, st |-> "none"] /\ timers' = {} /\ handle' = 0
    /\ commits' = {} /\ snapshot' = {} /\ writes' = {} /\ button' = Freed
    /\ link' = IF link = "stopped" THEN link ELSE "closed"
    /\ inbox' = <<>> /\ acks' = {} /\ shaking' = {} /\ gone' = 1..opened
    /\ UNCHANGED <<row, executed, retained, failed, cookie, opened, device, shown, job, chain, high, applied, moved>>
    /\ UNCHANGED <<pressed, confirmed>>

-----------------------------------------------------------------------------
(* The page.                                                               *)

Waiting(kind) == {a \in acks : a.kind = kind /\ a.waited}
Ignored(kind) == {IF a.kind = kind THEN [a EXCEPT !.waited = FALSE] ELSE a : a \in {b \in acks : b.kind # kind \/ b.at = "writing"}}

\* acknowledge up to its UPDATE: the server refuses what is not current, knows a duplicate, or begins to write
Stale(kind, c) == \/ ~Valid(cookie) \/ conn = 0
                  \/ kind = "navigate" /\ mem # c
                  \/ kind = "scroll" /\ inflight # c /\ c \notin done
Arrives(kind, c) == CASE Stale(kind, c) -> "refused"
                      [] ~Stale(kind, c) /\ kind = "scroll" /\ inflight # c -> "ok"
                      [] OTHER -> "writing"
Ack(kind, c, st, waited) == [kind |-> kind, cmd |-> c, st |-> st, waited |-> waited, on |-> conn, at |-> Arrives(kind, c)]
FireAndForget(c, st) == IF Connected THEN {a \in {Ack("navigate", c, st, FALSE)} : a.at = "writing"} ELSE {}

\* beginNavigation: a command already shown or under way is only acknowledged, another one replaces the job
BeginNavigation(c) ==
    CASE c = shown   -> acks' = acks \cup FireAndForget(c, "loaded") /\ UNCHANGED job
      [] c # shown /\ c = job.cmd -> UNCHANGED job /\ acks' = acks \cup
                         FireAndForget(c, IF job.phase # "received" THEN "loading" ELSE "received")
      [] OTHER       -> acks' = Ignored("navigate") /\ job' = [cmd |-> c, phase |-> "received", try |-> 1, sent |-> FALSE]

\* the reactions to welcome (with synchronizeTarget, whose answer is handled like a command) and to commands
Receive ==
    /\ link = "up" /\ inbox # <<>>
    /\ LET m == Head(inbox)
       IN \/ /\ m.kind = "welcome" /\ device' = TRUE
             /\ inbox' = Tail(inbox) \o (IF mem = 0 \/ ~Valid(cookie) THEN <<>> ELSE <<Message("navigate", mem, 0)>>)
             /\ UNCHANGED <<acks, job, chain>>
          \/ /\ m.kind = "navigate" /\ device /\ BeginNavigation(m.cmd) /\ inbox' = Tail(inbox)
             /\ UNCHANGED <<device, chain>>
          \/ /\ m.kind = "scroll" /\ device /\ inbox' = Tail(inbox)
             /\ chain' = Append(chain, [cmd |-> m.cmd, seq |-> m.seq, stream |-> m.stream, ready |-> FALSE, try |-> 1, sent |-> FALSE])
             /\ UNCHANGED <<acks, device, job>>
    /\ UNCHANGED <<database, broker, operator, cookie, opened, link, sockets, shown, high, applied, moved, pressed, disturbed, confirmed>>

\* the server has closed the socket: after 4003 the page stops and asks for its session, after 4009 it only stops, otherwise it reconnects
Closed == /\ link = "up" /\ inbox # <<>>
          /\ \/ /\ Head(inbox).kind = "4003" /\ Offline("stopped") /\ CheckSession
             \/ /\ Head(inbox).kind = "4009" /\ Offline("stopped")
                /\ UNCHANGED <<device, shown, job, high, applied, moved, disturbed>>
             \/ /\ Head(inbox).kind = "1011" /\ Offline("closed")
                /\ UNCHANGED <<device, shown, job, high, applied, moved, disturbed>>
          /\ UNCHANGED <<database, broker, operator, cookie, opened, sockets, chain, pressed, confirmed>>

\* The navigation job sends the acknowledgement of its phase
Acknowledge ==
    /\ job.phase \in {"received", "loading", "loaded"} /\ ~job.sent /\ Connected
    /\ job' = [job EXCEPT !.sent = TRUE]
    /\ acks' = acks \cup {Ack("navigate", job.cmd, job.phase, TRUE)}
    /\ UNCHANGED <<database, broker, operator, cookie, opened, link, inbox, sockets>>
    /\ UNCHANGED <<device, shown, chain, high, applied, moved, pressed, disturbed, confirmed>>

MutAccepted(a) ==
    /\ a \in Waiting("navigate") /\ a.at = "ok" /\ acks' = acks \ {a}
    /\ \/ /\ job.phase = "received" /\ UNCHANGED shown
          /\ job' = [job EXCEPT !.phase = "loading", !.try = 1, !.sent = FALSE]
       \/ job.phase # "received" /\ shown' = job.cmd /\ job' = NoJob
    /\ UNCHANGED <<database, broker, operator, cookie, opened, link, inbox, sockets>>
    /\ UNCHANGED <<device, chain, high, applied, moved, pressed, disturbed, confirmed>>

\* accepted: the page is checked, then loaded in a frame behind the one that is shown, then the frames are
\* exchanged (preflightCandidate, createCandidateFrame, finishNavigation)
Accepted(a) ==
    /\ a \in Waiting("navigate") /\ a.at = "ok" /\ acks' = acks \ {a}
    /\ \/ /\ job.phase # "loaded" /\ UNCHANGED shown
          /\ job' = [job EXCEPT !.phase = IF @ = "received" THEN "loading" ELSE "loaded", !.try = 1, !.sent = FALSE]
       \/ job.phase = "loaded" /\ shown' = job.cmd /\ job' = NoJob
    /\ UNCHANGED <<database, broker, operator, cookie, opened, link, inbox, sockets>>
    /\ UNCHANGED <<device, chain, high, applied, moved, pressed, disturbed, confirmed>>

\* refused, lost or never sent: a second attempt, then the job is given up
GiveUpJob(last) == job' = NoJob /\ acks' = Ignored("navigate") \cup last
MutUnanswered ==
    /\ job.phase \in {"received", "loading", "loaded"}
    /\ IF job.sent THEN \A a \in Waiting("navigate") : a.at = "refused" ELSE ~Connected
    /\ job.try = 1 /\ job' = [job EXCEPT !.try = 2, !.sent = FALSE] /\ acks' = acks \ Waiting("navigate")
    /\ UNCHANGED <<database, broker, operator, cookie, opened, link, inbox, sockets>>
    /\ UNCHANGED <<device, shown, chain, high, applied, moved, pressed, disturbed, confirmed>>
Unanswered ==
    /\ job.phase \in {"received", "loading", "loaded"}
    /\ IF job.sent THEN \A a \in Waiting("navigate") : a.at = "refused" ELSE ~Connected
    /\ \/ job.try = 1 /\ job' = [job EXCEPT !.try = 2, !.sent = FALSE] /\ acks' = acks \ Waiting("navigate")
       \/ job.try = 2 /\ GiveUpJob(IF job.phase = "loaded" THEN FireAndForget(job.cmd, "failed") ELSE {})
    /\ UNCHANGED <<database, broker, operator, cookie, opened, link, inbox, sockets>>
    /\ UNCHANGED <<device, shown, chain, high, applied, moved, pressed, disturbed, confirmed>>

\* failNavigation: the page does not answer, cannot be loaded, or takes more than twenty seconds
FailNavigation == /\ Disturb /\ job # NoJob /\ GiveUpJob(FireAndForget(job.cmd, "failed"))
                  /\ UNCHANGED <<database, broker, operator, cookie, opened, link, inbox, sockets>>
                  /\ UNCHANGED <<device, shown, chain, high, applied, moved, pressed, confirmed>>

MutApplyScroll ==
    /\ chain # <<>> /\ device /\ ~Head(chain).ready
    /\ chain' = <<[Head(chain) EXCEPT !.ready = TRUE]>> \o Tail(chain)
    /\ LET s == Head(chain)
       IN IF s.cmd \in applied THEN UNCHANGED <<high, applied, moved>>
          ELSE /\ high' = [high EXCEPT ![s.stream] = s.seq] /\ applied' = applied \cup {s.cmd}
               /\ \/ moved' = moved
                  \/ shown # 0 /\ moved' = Append(moved, s)
    /\ UNCHANGED <<database, broker, operator, wire, device, shown, job, pressed, disturbed, confirmed>>

\* applyScroll for the first of the chain: known, out of order, expired or without a frame, or the frame moves
ApplyScroll ==
    /\ chain # <<>> /\ device /\ ~Head(chain).ready
    /\ chain' = <<[Head(chain) EXCEPT !.ready = TRUE]>> \o Tail(chain)
    /\ LET s == Head(chain)
       IN IF s.cmd \in applied \/ s.seq <= high[s.stream] THEN UNCHANGED <<high, applied, moved>>
          ELSE /\ high' = [high EXCEPT ![s.stream] = s.seq] /\ applied' = applied \cup {s.cmd}
               /\ \/ moved' = moved    \* expired, or nothing is shown
                  \/ shown # 0 /\ moved' = Append(moved, s)
    /\ UNCHANGED <<database, broker, operator, wire, device, shown, job, pressed, disturbed, confirmed>>

AcknowledgeScroll ==
    /\ chain # <<>> /\ Head(chain).ready /\ ~Head(chain).sent /\ Connected
    /\ chain' = <<[Head(chain) EXCEPT !.sent = TRUE]>> \o Tail(chain)
    /\ acks' = acks \cup {Ack("scroll", Head(chain).cmd, "applied", TRUE)}
    /\ timed' = (timed /\ Arrives("scroll", Head(chain).cmd) # "writing")
    /\ UNCHANGED <<database, mem, conn, queue, inflight, nextSeq, done, status, timers, handle, operator, cookie, opened, link, inbox, sockets>>
    /\ UNCHANGED <<device, shown, job, high, applied, moved, pressed, disturbed, confirmed>>

\* answered, or given up after the second attempt: the chain goes on; so it does for a device no longer known
ScrollAnswered ==
    /\ chain # <<>> /\ (Head(chain).ready \/ ~device)
    /\ LET s == Head(chain)  refused == \A a \in Waiting("scroll") : a.at = "refused"
       IN /\ ~s.ready \/ (IF s.sent THEN \A a \in Waiting("scroll") : a.at \in {"ok", "refused"} ELSE ~Connected)
          /\ acks' = acks \ Waiting("scroll")
          /\ chain' = IF s.ready /\ s.try = 1 /\ (s.sent => refused)
                      THEN <<[s EXCEPT !.try = 2, !.sent = FALSE]>> \o Tail(chain) ELSE Tail(chain)
    /\ UNCHANGED <<database, broker, operator, cookie, opened, link, inbox, sockets>>
    /\ UNCHANGED <<device, shown, job, high, applied, moved, pressed, disturbed, confirmed>>

\* enrollMonitor: somebody types the current token, the page connects with it
Enroll == /\ ~device /\ Valid(row.token) /\ cookie' = row.token /\ device' = TRUE
          /\ Offline("closed")
          /\ UNCHANGED <<database, broker, operator, opened, sockets, shown, job, chain, high, applied, moved>>
          /\ UNCHANGED <<pressed, disturbed, confirmed>>

\* the page is loaded again and asks for its session; what scrolls it has done is kept in localStorage
Reload == /\ Disturb /\ device' \in {FALSE, Valid(cookie)} /\ Offline("closed")
          /\ shown' = 0 /\ job' = NoJob /\ chain' = <<>> /\ high' = [s \in Sockets |-> 0]
          /\ UNCHANGED <<database, broker, operator, cookie, opened, sockets, applied, moved, pressed, confirmed>>

-----------------------------------------------------------------------------
(* Acknowledgements at the server.                                         *)

\* the answer of an acknowledgement the page still waits for
Answer(a, at) == (acks \ {a}) \cup (IF a.waited THEN {[a EXCEPT !.at = at]} ELSE {})
AckWritten(a) ==
    /\ a.at = "writing" /\ acks' = Answer(a, "ok")
    /\ \/ /\ a.kind = "navigate"
          /\ status' = Publish(a.cmd, a.st)
          /\ confirmed' = IF a.st = "loaded" THEN confirmed \cup {a.cmd} ELSE confirmed
          /\ IF a.st \in {"loaded", "failed"} /\ a.on = conn THEN timers' = timers \ {handle} /\ handle' = 0
             ELSE UNCHANGED <<timers, handle>>
          /\ UNCHANGED <<inflight, timed, queue, done, inbox>>
       \/ /\ a.kind = "scroll"
          /\ IF a.on = conn THEN done' = done \cup {a.cmd} /\ SendNext(queue)
             ELSE UNCHANGED <<done, inflight, timed, queue, inbox>>
          /\ UNCHANGED <<status, confirmed, timers, handle>>
    /\ UNCHANGED <<database, mem, conn, nextSeq, operator, cookie, opened, link, sockets, page, pressed, disturbed>>

\* the UPDATE of the command's row fails: nothing else happens on the server
AckFails(a) == /\ Len(refusals) < MaxRefusals /\ refusals' = Append(refusals, a.cmd)
               /\ a.at = "writing" /\ acks' = Answer(a, "refused")
               /\ UNCHANGED <<database, broker, operator, cookie, opened, link, inbox, sockets, page, pressed, disturbed, confirmed>>

-----------------------------------------------------------------------------
Server == \/ \E c \in commits : NavigateGoesOn(c) \/ AdministerGoesOn(c)
          \/ \E w \in writes : ScrollRepeated(w) \/ ScrollGoesOn(w) \/ ScrollRefused(w)
          \/ ScrollTimesOut \/ RefreshApplies
          \/ \E h \in shaking : Authenticate(h) \/ Register(h) \/ WelcomeVisitor(h)
          \/ \E s \in Sockets : Unregister(s)
          \/ \E a \in acks : AckWritten(a)
Page == \/ Connect \/ Receive \/ Acknowledge \/ \E a \in acks : Accepted(a)
        \/ Unanswered \/ ApplyScroll \/ AcknowledgeScroll \/ ScrollAnswered
        \/ Closed
Environment == \/ Provision \/ Navigate \/ \E d \in Directions : Scroll(d)
               \/ \E k \in {"rotate", "revoke", "delete"} : Administer(k)
               \/ RefreshReads \/ Lose \/ Restart \/ Enroll \/ Reload \/ FailNavigation
               \/ \E c \in timers : NavigationTimesOut(c)
Next == \/ (Server \/ Page \/ Environment) /\ UNCHANGED refusals
        \/ \E a \in acks : AckFails(a)

\* Server and page go on as long as they can; operators, administrators, faults and early timeouts are not fair
Fairness == WF_vars(UNCHANGED <<disturbed, refusals>> /\ (Server \/ Page))

Spec == Init /\ [][Next]_vars /\ Fairness

-----------------------------------------------------------------------------
\* A page the server has welcomed is the registered connection of its monitor until the server closes it: the late
\* close of an older socket does not take the new one offline (register, unregister).
PageRegistered == link = "up" /\ ~Closing => conn = opened

\* Within one connection the frame moves in the order in which the server numbered the commands, although the
\* transactions of two presses commit in any order, and never twice for one number (highestScrollSequence), as long
\* as the page keeps its device: clearDevice forgets the numbers, but not the chain of the scrolls still to be done.
ScrollsInOrder == \A i, j \in DOMAIN moved : i < j /\ moved[i].stream = moved[j].stream => moved[i].seq < moved[j].seq
CommandsReachPage == PageRegistered /\ ScrollsInOrder

\* The frame that is shown stays until its replacement has been accepted by the server; the screen goes dark only
\* when the server says that the device is not known, or the page is loaded again (monitor.txt: "Der bisher aktive
\* Frame bleibt bis zum bestaetigten Ersatz bestehen").
KeepsContent == [][shown' # shown => IF shown' # 0 THEN shown' \in confirmed ELSE ~Valid(cookie) \/ disturbed' # disturbed]_vars

\* What the operator sends reaches the right connection in order, and what the monitor shows is not lost on the way.
NavigationSound == []CommandsReachPage /\ KeepsContent

\* When the operator has pressed for the last time, everything comes to rest: the page ends its navigation and its
\* chain of scrolls, and no scroll waits on the server for an acknowledgement nobody will send, even if the
\* connection is lost, the server restarts or an UPDATE fails (beginNavigation, applyScroll, sendNextScroll). One
\* exception: a scroll whose two acknowledgements were both refused waits, and those behind it do, because the
\* first of them has stopped its timer.
Abandoned(c) == c # 0 /\ \E i, j \in DOMAIN refusals : i # j /\ refusals[i] = c /\ refusals[j] = c
Settles == <>[](job = NoJob /\ chain = <<>> /\ (Abandoned(inflight) \/ (inflight = 0 /\ queue = <<>>)))
=============================================================================
