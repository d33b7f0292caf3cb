-------------------------- MODULE ConnectionProofs --------------------------
(***************************************************************************)
(* Proofs about module Connection, for any number of sockets, writes and   *)
(* disturbances.                                                           *)
(***************************************************************************)
EXTENDS Connection, TLAPS

-----------------------------------------------------------------------------
(* The fields of the page and of its sockets that matter here.             *)
-----------------------------------------------------------------------------
PageFields == {"st", "cur", "gen", "wel", "read", "marker", "reloads"}
SockFields == {"phase", "c2s", "s2c"}

\* The current socket is the one of the newest generation, unless there is none.
Client(p) == PageFields \subseteq DOMAIN p /\ (p.cur # None => p.cur = p.gen)

\* A client that says connected has been greeted, and nothing waits for the connection.
Real(p) == p.st = "connected" => p.wel /\ p.cur # None /\ p.read # "waiting"

\* After a reload without a welcome the marker stands in the session storage.
Marked(p) == p.reloads \in {0, 1} /\ (p.reloads = 1 => p.marker = TRUE)

\* What is open or being opened is the current socket.
Owned(base, cur) == /\ DOMAIN base = Sockets /\ \A s \in Sockets : SockFields \subseteq DOMAIN base[s]
                    /\ \A s \in Sockets : base[s].phase \in {"new", "open"} => s = cur

IInv == Client(page) /\ Real(page) /\ Marked(page) /\ Owned(sock, page.cur)

\* The connection fields that most functions leave alone.
Kept(p, q) == q.marker = p.marker /\ q.reloads = p.reloads
Rest(p, q) == Kept(p, q) /\ q.cur = p.cur /\ q.gen = p.gen /\ q.wel = p.wel
-----------------------------------------------------------------------------
(* What the functions of the data client do to these.                      *)
-----------------------------------------------------------------------------
LEMMA SetStateIs ==
  ASSUME NEW p, Client(p), NEW next
  PROVE  LET q == SetState(p, next)
         IN Client(q) /\ Rest(p, q) /\ q.read = p.read /\ q.st \in {next, "stopped"} /\ (q.st # next => p.st = "stopped")
<1>1. CASE p.st = "stopped" /\ next = "backoff"
  BY <1>1 DEF SetState, Rest, Kept
<1>2. CASE ~(p.st = "stopped" /\ next = "backoff")
  <2>1. SetState(p, next) = [p EXCEPT !.st = next]
    BY <1>2 DEF SetState
  <2> QED BY <2>1 DEF Client, PageFields, Rest, Kept
<1> QED BY <1>1, <1>2

\* One more field of the page is set.
LEMMA ReadSet ==
  ASSUME NEW p, Client(p), NEW read
  PROVE  LET q == [p EXCEPT !.read = read]
         IN Client(q) /\ Rest(p, q) /\ q.st = p.st /\ q.read = read
BY DEF Client, PageFields, Rest, Kept

LEMMA TimerSet ==
  ASSUME NEW p, Client(p), NEW timer
  PROVE  LET q == [p EXCEPT !.timer = timer]
         IN Client(q) /\ Rest(p, q) /\ q.st = p.st /\ q.read = p.read
BY DEF Client, PageFields, Rest, Kept

LEMMA RejectedIs ==
  ASSUME NEW p, Client(p)
  PROVE  LET q == Rejected(p)
         IN Client(q) /\ Rest(p, q) /\ q.st = p.st /\ q.read # "sent" /\ (q.read = "waiting" => p.read = "waiting")
BY ReadSet DEF Rejected, Rest, Kept

LEMMA WaitersRejectedIs ==
  ASSUME NEW p, Client(p)
  PROVE  LET q == WaitersRejected(p)
         IN Client(q) /\ Rest(p, q) /\ q.st = p.st /\ q.read # "waiting"
BY ReadSet DEF WaitersRejected, Rest, Kept

LEMMA WaitersResolvedIs ==
  ASSUME NEW p, Client(p)
  PROVE  LET q == WaitersResolved(p)
         IN Client(q) /\ Rest(p, q) /\ q.st = p.st /\ q.read # "waiting"
BY ReadSet DEF WaitersResolved, Rest, Kept

LEMMA CleanupIs ==
  ASSUME NEW p, Client(p), NEW s
  PROVE  LET q == Cleanup(p, s)
         IN Client(q) /\ Kept(p, q) /\ q.st = p.st /\ (q = p \/ (p.cur = s /\ q.cur = None))
<1>1. CASE p.cur # s
  BY <1>1 DEF Cleanup, Kept
<1>2. CASE p.cur = s
  <2> DEFINE r == [p EXCEPT !.cur = None, !.wel = FALSE]
  <2>1. Client(r) /\ Kept(p, r) /\ r.st = p.st /\ r.cur = None
    BY DEF Client, PageFields, Kept
  <2>2. Cleanup(p, s) = Rejected(r)
    BY <1>2 DEF Cleanup
  <2> HIDE DEF r
  <2> QED BY <1>2, <2>1, <2>2, RejectedIs DEF Rest, Kept
<1> QED BY <1>1, <1>2

LEMMA ScheduleReconnectIs ==
  ASSUME NEW p, Client(p)
  PROVE  LET q == ScheduleReconnect(p)
         IN Client(q) /\ Rest(p, q) /\ q.read = p.read /\ (q.st = p.st \/ q.st = "backoff")
<1> DEFINE r == SetState(p, "backoff")
<1>1. Client(r) /\ Rest(p, r) /\ r.read = p.read /\ (r.st = p.st \/ r.st = "backoff")
  BY SetStateIs
<1>2. CASE p.stopped \/ p.st = "stopped" \/ ~p.online \/ p.timer
  <2>1. ScheduleReconnect(p) = p
    BY <1>2 DEF ScheduleReconnect
  <2> QED BY <2>1 DEF Rest, Kept
<1>3. CASE ~(p.stopped \/ p.st = "stopped" \/ ~p.online \/ p.timer)
  <2>1. ScheduleReconnect(p) = [r EXCEPT !.timer = TRUE]
    BY <1>3 DEF ScheduleReconnect
  <2> HIDE DEF r
  <2> QED BY <1>1, <2>1, TimerSet DEF Rest, Kept
<1> QED BY <1>2, <1>3

\* Backing off always leaves the state "connected", and keeps the socket.
LEMMA BackOffIs ==
  ASSUME NEW p, Client(p)
  PROVE  LET q == BackOff(p)
         IN Client(q) /\ Rest(p, q) /\ q.st # "connected"
<1>1. CASE Legal(p, "backoff")
  <2> DEFINE r == SetState(p, "backoff")
  <2>1. Client(r) /\ Rest(p, r) /\ r.st \in {"backoff", "stopped"}
    BY SetStateIs
  <2>2. BackOff(p) = ScheduleReconnect(r)
    BY <1>1 DEF BackOff
  <2> HIDE DEF r
  <2> QED BY <2>1, <2>2, ScheduleReconnectIs DEF Rest, Kept
<1>2. CASE ~Legal(p, "backoff")
  BY <1>2 DEF BackOff, Legal, Allowed, Rest, Kept
<1> QED BY <1>1, <1>2

\* A new socket, a state without connection, or nothing at all.
LEMMA ConnectIs ==
  ASSUME NEW p, Client(p), Real(p)
  PROVE  LET q == Connect(p)
         IN Client(q) /\ Real(q) /\ Kept(p, q)
<1>1. CASE ~p.online
  <2>1. Connect(p) = IF Legal(p, "offline") THEN SetState(p, "offline") ELSE p
    BY <1>1 DEF Connect
  <2> QED BY <2>1, SetStateIs DEF Real, Rest, Kept
<1>2. CASE p.online /\ (p.stopped \/ p.cur # None \/ p.timer)
  <2>1. Connect(p) = p
    BY <1>2 DEF Connect
  <2> QED BY <2>1 DEF Kept
<1>3. CASE p.online /\ ~(p.stopped \/ p.cur # None \/ p.timer)
  <2> DEFINE n == Next1
  <2>1. Connect(p) = [p EXCEPT !.st = "connecting", !.cur = n, !.gen = n]
    BY <1>3 DEF Connect
  <2> HIDE DEF n
  <2> QED BY <2>1 DEF Client, PageFields, Real, Kept
<1> QED BY <1>1, <1>2, <1>3

LEMMA AskIs ==
  ASSUME NEW p, Client(p), Real(p), NEW hurry
  PROVE  LET q == Ask(p, hurry)
         IN Client(q) /\ Real(q) /\ Kept(p, q)
<1>1. CASE p.st = "connected" /\ p.wel
  <2>1. Ask(p, hurry) = [p EXCEPT !.read = "sent"]
    BY <1>1 DEF Ask
  <2> QED BY <2>1, ReadSet DEF Real, Rest, Kept
<1>2. CASE ~(p.st = "connected" /\ p.wel) /\ ~CanAsk(p)
  <2>1. Ask(p, hurry) = [p EXCEPT !.read = "no"]
    BY <1>2 DEF Ask
  <2> QED BY <2>1, ReadSet DEF Real, Rest, Kept
<1>3. CASE ~(p.st = "connected" /\ p.wel) /\ CanAsk(p)
  <2> DEFINE timer == p.timer /\ ~(hurry /\ ~p.hidden)
             r == [p EXCEPT !.read = "waiting", !.timer = timer]
  <2>1. Ask(p, hurry) = Connect(r)
    BY <1>3 DEF Ask
  <2>2. Client(r) /\ Rest(p, r) /\ r.st = p.st
    <3> HIDE DEF timer
    <3> QED BY DEF Client, PageFields, Rest, Kept
  <2>3. Real(r)
    <3> HIDE DEF r
    <3> QED BY <1>3, <2>2 DEF Real
  <2> HIDE DEF r
  <2> QED BY <2>1, <2>2, <2>3, ConnectIs DEF Rest, Kept
<1> QED BY <1>1, <1>2, <1>3

LEMMA RestartIs ==
  ASSUME NEW p, Client(p), Real(p)
  PROVE  LET q == Restart(p)
         IN Client(q) /\ Real(q) /\ Kept(p, q)
<1>1. CASE p.terminal
  BY <1>1 DEF Restart, Kept
<1>2. CASE ~p.terminal
  <2> DEFINE r == [p EXCEPT !.stopped = FALSE, !.timer = FALSE, !.cur = None, !.gen = None, !.wel = FALSE, !.st = "idle"]
  <2>1. Restart(p) = Connect(Rejected(r))
    BY <1>2 DEF Restart
  <2>2. Client(r) /\ Kept(p, r) /\ r.st = "idle"
    BY DEF Client, PageFields, Kept
  <2> HIDE DEF r
  <2>3. Client(Rejected(r)) /\ Kept(p, Rejected(r)) /\ Real(Rejected(r))
    BY <2>2, RejectedIs DEF Real, Rest, Kept
  <2> QED BY <2>1, <2>3, ConnectIs DEF Kept
<1> QED BY <1>1, <1>2

LEMMA ResumeIs ==
  ASSUME NEW p, Client(p), Real(p)
  PROVE  LET q == Resume(p)
         IN Client(q) /\ Real(q) /\ Kept(p, q)
<1>1. CASE p.hidden
  BY <1>1 DEF Resume, Kept
<1>2. CASE ~p.hidden /\ p.hot
  <2>1. Resume(p) = [p EXCEPT !.missed = TRUE]
    BY <1>2 DEF Resume
  <2> QED BY <2>1 DEF Client, PageFields, Real, Kept
<1>3. CASE ~p.hidden /\ ~p.hot
  <2> DEFINE check == IF p.check = "no" THEN p.version ELSE p.check
             r == [p EXCEPT !.hot = TRUE, !.missed = FALSE, !.check = check]
  <2>1. Resume(p) = Restart(r)
    BY <1>3 DEF Resume
  <2>2. Client(r) /\ Real(r) /\ Kept(p, r)
    <3> HIDE DEF check
    <3> QED BY DEF Client, PageFields, Real, Kept
  <2> HIDE DEF r
  <2> QED BY <2>1, <2>2, RestartIs DEF Kept
<1> QED BY <1>1, <1>2, <1>3

LEMMA StopIs ==
  ASSUME NEW p, Client(p)
  PROVE  LET q == Stop(p)
         IN Client(q) /\ Real(q) /\ Kept(p, q) /\ q.cur = p.cur
<1> DEFINE r == WaitersRejected(p)
<1>1. Client(r) /\ Rest(p, r)
  BY WaitersRejectedIs
<1>2. Stop(p) = [r EXCEPT !.stopped = TRUE, !.terminal = TRUE, !.st = "stopped"]
  BY DEF Stop
<1> HIDE DEF r
<1> QED BY <1>1, <1>2 DEF Client, PageFields, Real, Rest, Kept

-----------------------------------------------------------------------------
(* What the steps do to the sockets.                                       *)
-----------------------------------------------------------------------------
\* The sockets of which one step may change messages and phases.
LEMMA BecomesKeeps ==
  ASSUME NEW q, NEW base, Owned(base, page.cur), Becomes(q, base)
  PROVE  page' = q /\ Owned(sock', q.cur)
<1>1. page' = q /\ DOMAIN sock' = Sockets
  BY DEF Becomes
<1>2. ASSUME NEW s \in Sockets
      PROVE  SockFields \subseteq DOMAIN sock'[s] /\ (sock'[s].phase \in {"new", "open"} => s = q.cur)
  <2>0. SockFields \subseteq DOMAIN base[s] /\ (base[s].phase \in {"new", "open"} => s = page.cur)
    BY DEF Owned
  <2>1. CASE s = q.cur /\ s # page.cur
    <3>1. sock'[s] = [Closed EXCEPT !.phase = "new"]
      BY <2>1 DEF Becomes
    <3> QED BY <2>1, <3>1 DEF Closed, SockFields
  <2>2. CASE s = page.cur /\ s # q.cur /\ base[s].phase \in {"new", "open"}
    <3>1. sock'[s] = [base[s] EXCEPT !.phase = "closing"]
      BY <2>2 DEF Becomes
    <3> QED BY <2>0, <3>1 DEF SockFields
  <2>3. CASE s = page.cur /\ s = q.cur
    <3>1. sock'[s] = [base[s] EXCEPT !.c2s = @ \cup {"read"}] \/ sock'[s] = base[s]
      BY <2>3 DEF Becomes
    <3> QED BY <2>0, <2>3, <3>1 DEF SockFields
  <2>4. CASE s # q.cur /\ ~(s = page.cur /\ base[s].phase \in {"new", "open"})
    <3>1. sock'[s] = base[s]
      BY <2>4 DEF Becomes
    <3> QED BY <2>0, <2>4, <3>1
  <2> QED BY <2>1, <2>2, <2>3, <2>4
<1> QED BY <1>1, <1>2 DEF Owned

\* Changing one socket is harmless if its phase stays, is closed or closing, or is the current one's.
LEMMA OneSocket ==
  ASSUME NEW c, Owned(sock, c), NEW s, NEW r, SockFields \subseteq DOMAIN r,
         r.phase \in {"new", "open"} => s = c \/ r.phase = sock[s].phase
  PROVE  Owned([sock EXCEPT ![s] = r], c)
<1> DEFINE base == [sock EXCEPT ![s] = r]
<1>1. DOMAIN base = Sockets
  BY DEF Owned
<1>2. ASSUME NEW t \in Sockets
      PROVE  SockFields \subseteq DOMAIN base[t] /\ (base[t].phase \in {"new", "open"} => t = c)
  <2>1. base[t] = IF t = s THEN r ELSE sock[t]
    BY DEF Owned
  <2> HIDE DEF base
  <2> QED BY <2>1 DEF Owned
<1> HIDE DEF base
<1>3. Owned(base, c)
  BY <1>1, <1>2 DEF Owned
<1> QED BY <1>3 DEF base

LEMMA WithoutKeeps ==
  ASSUME NEW c, Owned(sock, c), NEW s
  PROVE  Owned(Without(s), c)
<1>1. SockFields \subseteq DOMAIN Closed /\ Closed.phase = "none"
  BY DEF Closed, SockFields
<1> QED BY <1>1, OneSocket DEF Without

\* The step that only replaces the page.
LEMMA PageStep ==
  ASSUME NEW q, Client(q), Real(q), Kept(page, q), IInv, NEW base, Owned(base, page.cur), Becomes(q, base)
  PROVE  IInv'
<1>1. page' = q /\ Owned(sock', q.cur)
  BY BecomesKeeps DEF IInv
<1>2. Marked(q)
  BY DEF IInv, Marked, Kept
<1> QED BY <1>1, <1>2 DEF IInv, Client, Real, Marked, Owned

LEMMA PageOnly ==
  ASSUME NEW q, Client(q), Real(q), Kept(page, q), IInv, page' = q, q.cur = page.cur, Owned(sock', page.cur)
  PROVE  IInv'
<1>2. Marked(q)
  BY DEF IInv, Marked, Kept
<1> QED BY <1>2 DEF IInv, Client, Real, Marked, Owned

LEMMA SocketsOnly ==
  ASSUME IInv, page' = page, Owned(sock', page.cur)
  PROVE  IInv'
BY DEF IInv, Client, Real, Marked, Owned

\* Consuming a message, or adding messages, keeps the phase.
LEMMA ConsumedKeeps ==
  ASSUME IInv, NEW s \in Sockets
  PROVE  /\ Owned(Consumed(s), page.cur)
         /\ Owned([Consumed(s) EXCEPT ![s].c2s = @ \cup {"subscribe"}], page.cur)
<1> DEFINE r == [sock[s] EXCEPT !.s2c = Tail(@)]
           q == [r EXCEPT !.c2s = @ \cup {"subscribe"}]
<1>1. SockFields \subseteq DOMAIN sock[s] /\ DOMAIN sock = Sockets /\ Owned(sock, page.cur)
  BY DEF IInv, Owned
<1>2. SockFields \subseteq DOMAIN r /\ r.phase = sock[s].phase
  BY <1>1 DEF SockFields
<1>3. Consumed(s) = [sock EXCEPT ![s] = r]
  BY DEF Consumed
<1>4. SockFields \subseteq DOMAIN q /\ q.phase = sock[s].phase
  <2> HIDE DEF r
  <2> QED BY <1>2 DEF SockFields
<1>5. [Consumed(s) EXCEPT ![s].c2s = @ \cup {"subscribe"}] = [sock EXCEPT ![s] = q]
  <2> HIDE DEF r
  <2> QED BY <1>1, <1>3 
<1>6. Owned([sock EXCEPT ![s] = r], page.cur)
  <2> HIDE DEF r
  <2> QED BY <1>1, <1>2, OneSocket
<1>7. Owned([sock EXCEPT ![s] = q], page.cur)
  <2> HIDE DEF q
  <2> QED BY <1>1, <1>4, OneSocket
<1> QED BY <1>3, <1>5, <1>6, <1>7

LEMMA AnsweredKeeps ==
  ASSUME IInv, NEW s \in Sockets, NEW message, NEW sent
  PROVE  Owned(Answered(s, message, sent), page.cur)
<1> DEFINE r == [sock[s] EXCEPT !.c2s = @ \ {message}, !.s2c = @ \o sent]
<1>1. SockFields \subseteq DOMAIN sock[s] /\ DOMAIN sock = Sockets /\ Owned(sock, page.cur)
  BY DEF IInv, Owned
<1>2. SockFields \subseteq DOMAIN r /\ r.phase = sock[s].phase
  BY <1>1 DEF SockFields
<1>3. Answered(s, message, sent) = [sock EXCEPT ![s] = r]
  BY <1>1 DEF Answered
<1>4. Owned([sock EXCEPT ![s] = r], page.cur)
  <2> HIDE DEF r
  <2> QED BY <1>1, <1>2, OneSocket
<1> QED BY <1>3, <1>4

-----------------------------------------------------------------------------
(* The page is loaded again.                                               *)
-----------------------------------------------------------------------------
LEMMA LoadedIs ==
  ASSUME NEW hidden, NEW reloads \in {0, 1}
  PROVE  LET p == Loaded(hidden, reloads) IN Client(p) /\ Real(p) /\ Marked(p) /\ Owned(NewSockets, p.cur)
<1> DEFINE m == Min(Sockets)
           p == Loaded(hidden, reloads)
<1>1. Client(p) /\ Real(p) /\ Marked(p) /\ p.cur = m
  <2>1. /\ p.cur = m /\ p.gen = m /\ p.st = "connecting" /\ p.reloads = reloads
        /\ PageFields \subseteq DOMAIN p
    <3> HIDE DEF m
    <3> QED BY DEF Loaded, PageFields, m
  <2>2. ASSUME reloads = 1 PROVE p.marker = TRUE
    <3>1. p.marker = (reloads > 0)
      BY Zenon DEF Loaded
    <3>2. (reloads > 0) = TRUE
      <4>1. reloads > 0
        BY <2>2, SMT
      <4> QED BY <4>1, Zenon
    <3> QED BY <3>1, <3>2, Zenon
  <2> HIDE DEF p
  <2> QED BY <2>1, <2>2 DEF Client, Real, Marked
<1>2. Owned(NewSockets, m)
  <2>1. ASSUME NEW s \in Sockets
        PROVE  SockFields \subseteq DOMAIN NewSockets[s] /\ (NewSockets[s].phase \in {"new", "open"} => s = m)
    <3>1. NewSockets[s] = IF s = m THEN [Closed EXCEPT !.phase = "new"] ELSE Closed
      BY DEF NewSockets
    <3> HIDE DEF m
    <3> QED BY <3>1 DEF Closed, SockFields
  <2> HIDE DEF m
  <2> QED BY <2>1 DEF Owned, NewSockets
<1> HIDE DEF m, p
<1>3. Owned(NewSockets, p.cur)
  BY <1>1, <1>2
<1> QED BY <1>1, <1>3 DEF p

LEMMA ReloadStep ==
  ASSUME IInv, MayReload, Reload
  PROVE  IInv'
<1>1. page.reloads = 0
  BY DEF IInv, Marked, MayReload
<1> DEFINE p == Loaded(page.hidden, 1)
<1>2. page' = p /\ sock' = NewSockets
  BY <1>1 DEF Reload
<1>3. Client(p) /\ Real(p) /\ Marked(p) /\ Owned(NewSockets, p.cur)
  BY LoadedIs
<1> HIDE DEF p
<1> QED BY <1>2, <1>3 DEF IInv, Client, Real, Marked, Owned

-----------------------------------------------------------------------------
(* The handshake.                                                          *)
-----------------------------------------------------------------------------
LEMMA OpenedStep ==
  ASSUME IInv, NEW s \in Sockets, Opened(s)
  PROVE  IInv'
<1> DEFINE r == [sock[s] EXCEPT !.phase = "open"]
           q == [r EXCEPT !.c2s = {"hello"}]
           p == [page EXCEPT !.hello = @ \cup {s}]
<1>1. SockFields \subseteq DOMAIN sock[s] /\ DOMAIN sock = Sockets /\ Owned(sock, page.cur) /\ s = page.cur
  BY DEF IInv, Owned, Opened
<1>2. SockFields \subseteq DOMAIN r /\ SockFields \subseteq DOMAIN q
  BY <1>1 DEF SockFields
<1>3. Owned([sock EXCEPT ![s] = r], page.cur) /\ Owned([sock EXCEPT ![s] = q], page.cur)
  <2> HIDE DEF r, q
  <2> QED BY <1>1, <1>2, OneSocket
<1>4. CASE sock' = [sock EXCEPT ![s].phase = "open"] /\ page' = p
  <2>1. sock' = [sock EXCEPT ![s] = r]
    BY <1>4
  <2>2. Client(p) /\ Real(p) /\ Kept(page, p) /\ p.cur = page.cur
    BY DEF IInv, Client, PageFields, Real, Kept
  <2> HIDE DEF r, p
  <2> QED BY <1>3, <1>4, <2>1, <2>2, PageOnly
<1>5. CASE sock' = [[sock EXCEPT ![s].phase = "open"] EXCEPT ![s].c2s = {"hello"}] /\ page' = page
  <2>1. sock' = [sock EXCEPT ![s] = q]
    BY <1>1, <1>5
  <2> HIDE DEF q
  <2> QED BY <1>3, <1>5, <2>1, SocketsOnly
<1> QED BY <1>4, <1>5 DEF Opened

LEMMA HelloStep ==
  ASSUME IInv, NEW waiting, NEW v, Hello(waiting, v)
  PROVE  IInv'
<1> DEFINE failed == {s \in waiting : HelloFails(s)}
           p == [page EXCEPT !.version = v, !.hello = {}]
           r == IF page.cur \in failed THEN Cleanup(p, page.cur) ELSE p
           q == IF failed = {} THEN p ELSE BackOff(r)
           base == [s \in Sockets |-> IF s \in waiting \ failed THEN [sock[s] EXCEPT !.c2s = {"hello"}] ELSE sock[s]]
<1>1. Becomes(q, base)
  BY DEF Hello
<1>2. Client(p) /\ Real(p) /\ Kept(page, p)
  BY DEF IInv, Client, PageFields, Real, Kept
<1>3. Client(r) /\ Kept(page, r)
  <2> HIDE DEF p, failed
  <2> QED BY <1>2, CleanupIs DEF Kept
<1>4. Client(q) /\ Real(q) /\ Kept(page, q)
  <2> HIDE DEF p, failed, r
  <2> QED BY <1>2, <1>3, BackOffIs DEF Kept, Rest, Real
<1>5. Owned(base, page.cur)
  <2>1. ASSUME NEW s \in Sockets
        PROVE  SockFields \subseteq DOMAIN base[s] /\ (base[s].phase \in {"new", "open"} => s = page.cur)
    <3>1. base[s] = [sock[s] EXCEPT !.c2s = {"hello"}] \/ base[s] = sock[s]
      OBVIOUS
    <3>2. SockFields \subseteq DOMAIN sock[s] /\ (sock[s].phase \in {"new", "open"} => s = page.cur)
      BY DEF IInv, Owned
    <3> HIDE DEF base
    <3> QED BY <3>1, <3>2 DEF SockFields
  <2>2. DOMAIN base = Sockets
    OBVIOUS
  <2> HIDE DEF base
  <2> QED BY <2>1, <2>2 DEF Owned
<1> HIDE DEF q, base
<1> QED BY <1>1, <1>4, <1>5, PageStep

LEMMA VersionAnsweredStep ==
  ASSUME IInv, VersionAnswered
  PROVE  IInv'
<1>1. PICK v : Hello(page.hello, v)
  BY DEF VersionAnswered
<1> QED BY <1>1, HelloStep

\* Only the current socket is open, so the greeting is the current connection's.
LEMMA WelcomedStep ==
  ASSUME IInv, NEW s \in Sockets, Welcomed(s)
  PROVE  IInv'
<1> DEFINE p == [page EXCEPT !.wel = TRUE, !.marker = FALSE, !.reloads = 0]
           t == SetState(p, "connected")
           q == WaitersResolved(t)
           base == [Consumed(s) EXCEPT ![s].c2s = @ \cup {"subscribe"}]
<1>1. s = page.cur /\ s # None
  BY BoundsAssumption DEF IInv, Owned, Welcomed, Heard, None
<1>2. Client(p) /\ p.cur = page.cur /\ p.st = page.st /\ p.wel = TRUE /\ p.marker = FALSE /\ p.reloads = 0
      /\ p.read = page.read
  BY DEF IInv, Client, PageFields
<1>3. Owned(Consumed(s), page.cur) /\ Owned(base, page.cur)
  BY ConsumedKeeps
<1>4. CASE Legal(p, "connected") /\ Becomes(q, base)
  <2>1. Client(t) /\ Rest(p, t) /\ t.st \in {"connected", "stopped"}
    <3> HIDE DEF p
    <3> QED BY <1>2, SetStateIs
  <2>2. Client(q) /\ Rest(t, q) /\ q.st = t.st /\ q.read # "waiting"
    <3> HIDE DEF t
    <3> QED BY <2>1, WaitersResolvedIs
  <2>3. Client(q) /\ Real(q) /\ Marked(q)
    <3> HIDE DEF p, t, q
    <3> QED BY <1>1, <1>2, <2>1, <2>2 DEF Real, Marked, Rest, Kept
  <2>4. page' = q /\ Owned(sock', q.cur)
    <3> HIDE DEF q, base
    <3> QED BY <1>3, <1>4, BecomesKeeps
  <2> HIDE DEF q
  <2> QED BY <2>3, <2>4 DEF IInv, Client, Real, Marked, Owned
<1>5. CASE ~Legal(p, "connected") /\ Becomes(p, Consumed(s))
  <2>1. page' = p /\ Owned(sock', p.cur)
    <3> HIDE DEF p
    <3> QED BY <1>3, <1>5, BecomesKeeps
  <2>2. p.st # "connected"
    <3> HIDE DEF p
    <3> QED BY <1>5 DEF Legal
  <2> HIDE DEF p
  <2>3. Real(p) /\ Marked(p)
    BY <1>2, <2>2 DEF Real, Marked
  <2> QED BY <1>2, <2>1, <2>3 DEF IInv, Client, Real, Marked, Owned
<1> QED BY <1>4, <1>5 DEF Welcomed

-----------------------------------------------------------------------------
(* What the page hears.                                                    *)
-----------------------------------------------------------------------------
LEMMA EventHeardStep ==
  ASSUME IInv, NEW s \in Sockets, EventHeard(s)
  PROVE  IInv'
<1> DEFINE p == [page EXCEPT !.pend = TRUE]
<1>1. Client(p) /\ Real(p) /\ Kept(page, p) /\ p.cur = page.cur
  BY DEF IInv, Client, PageFields, Real, Kept
<1>2. page' = p /\ Owned(sock', page.cur)
  BY ConsumedKeeps DEF EventHeard
<1> HIDE DEF p
<1> QED BY <1>1, <1>2, PageOnly

LEMMA ResponseHeardStep ==
  ASSUME IInv, NEW s \in Sockets, ResponseHeard(s)
  PROVE  IInv'
<1> DEFINE n == Head(sock[s].s2c).n
           p == [page EXCEPT !.read = "no", !.shown = n]
<1>1. Client(p) /\ Real(p) /\ Kept(page, p) /\ p.cur = page.cur
  <2> HIDE DEF n
  <2> QED BY DEF IInv, Client, PageFields, Real, Kept
<1>2. Owned(sock', page.cur)
  BY ConsumedKeeps DEF ResponseHeard
<1>3. page' = p \/ page' = page
  BY DEF ResponseHeard
<1> HIDE DEF p
<1> QED BY <1>1, <1>2, <1>3, PageOnly, SocketsOnly

LEMMA LostStep ==
  ASSUME IInv, NEW s \in Sockets, Lost(s)
  PROVE  IInv'
<1> DEFINE p == Cleanup(page, s)
           next == IF p.online THEN "backoff" ELSE "offline"
           r == SetState(p, next)
           q == ScheduleReconnect(r)
<1>1. Client(p) /\ Kept(page, p)
  BY CleanupIs DEF IInv
<1>2. Client(r) /\ Kept(p, r) /\ r.st # "connected"
  <2> HIDE DEF p
  <2> QED BY <1>1, SetStateIs DEF Rest
<1>3. Client(q) /\ Kept(r, q) /\ q.st # "connected"
  <2> HIDE DEF r
  <2> QED BY <1>2, ScheduleReconnectIs DEF Rest
<1>4. Owned(Without(s), page.cur)
  BY WithoutKeeps DEF IInv
<1>5. Becomes(q, Without(s))
  BY DEF Lost
<1> HIDE DEF p, r, q
<1>6. Real(q) /\ Kept(page, q)
  BY <1>1, <1>2, <1>3 DEF Real, Kept
<1> QED BY <1>3, <1>4, <1>5, <1>6, PageStep

LEMMA OwnCloseStep ==
  ASSUME IInv, NEW s \in Sockets, OwnClose(s)
  PROVE  IInv'
<1>1. Owned(Without(s), page.cur)
  BY WithoutKeeps DEF IInv
<1>2. CASE Lost(s)
  BY <1>2, LostStep
<1>3. CASE page.st = "offline" /\ Becomes(Cleanup(page, s), Without(s))
  <2> DEFINE p == Cleanup(page, s)
  <2>1. Client(p) /\ Kept(page, p) /\ p.st = page.st
    BY CleanupIs DEF IInv
  <2>2. Becomes(p, Without(s))
    BY <1>3
  <2> HIDE DEF p
  <2>3. Real(p)
    BY <1>3, <2>1 DEF Real
  <2> QED BY <1>1, <2>1, <2>2, <2>3, PageStep
<1>4. CASE Becomes(page, Without(s))
  <2>1. Client(page) /\ Real(page) /\ Kept(page, page)
    BY DEF IInv, Kept
  <2> QED BY <1>1, <1>4, <2>1, PageStep
<1> QED BY <1>2, <1>3, <1>4 DEF OwnClose

LEMMA StoppedStep ==
  ASSUME IInv, NEW s \in Sockets, Becomes(Stop(Cleanup(page, s)), Without(s))
  PROVE  IInv'
<1> DEFINE p == Cleanup(page, s)
           q == Stop(p)
<1>1. Client(p) /\ Kept(page, p)
  BY CleanupIs DEF IInv
<1>2. Client(q) /\ Real(q) /\ Kept(p, q)
  <2> HIDE DEF p
  <2> QED BY <1>1, StopIs
<1>3. Owned(Without(s), page.cur)
  BY WithoutKeeps DEF IInv
<1>4. Becomes(q, Without(s))
  OBVIOUS
<1> HIDE DEF p, q
<1>5. Kept(page, q)
  BY <1>1, <1>2 DEF Kept
<1> QED BY <1>2, <1>3, <1>4, <1>5, PageStep

LEMMA CloseHeardStep ==
  ASSUME IInv, NEW s \in Sockets, CloseHeard(s)
  PROVE  IInv'
<1>1. CASE OwnClose(s)
  BY <1>1, OwnCloseStep
<1>2. CASE Lost(s)
  BY <1>2, LostStep
<1>3. CASE VersionRefused(s)
  <2>1. CASE MayReload
    BY <1>3, <2>1, ReloadStep DEF VersionRefused
  <2>2. CASE ~MayReload
    BY <1>3, <2>2, StoppedStep DEF VersionRefused
  <2> QED BY <2>1, <2>2
<1>4. CASE Becomes(Stop(Cleanup(page, s)), Without(s))
  BY <1>4, StoppedStep
<1> QED BY <1>1, <1>2, <1>3, <1>4 DEF CloseHeard

-----------------------------------------------------------------------------
(* Timers and requests of the page.                                        *)
-----------------------------------------------------------------------------
LEMMA ReconnectTimerStep ==
  ASSUME IInv, ReconnectTimer
  PROVE  IInv'
<1> DEFINE p == [page EXCEPT !.timer = FALSE]
           q == Connect(p)
<1>1. Client(p) /\ Real(p) /\ Kept(page, p)
  BY DEF IInv, Client, PageFields, Real, Kept
<1>2. Client(q) /\ Real(q) /\ Kept(p, q)
  <2> HIDE DEF p
  <2> QED BY <1>1, ConnectIs
<1>3. Becomes(q, sock) /\ Owned(sock, page.cur)
  BY DEF ReconnectTimer, IInv
<1> HIDE DEF p, q
<1>4. Kept(page, q)
  BY <1>1, <1>2 DEF Kept
<1> QED BY <1>2, <1>3, <1>4, PageStep

\* The socket that is closed by the page is the current one.
LEMMA ClosingKeeps ==
  ASSUME IInv
  PROVE  Owned([sock EXCEPT ![page.cur].phase = "closing"], page.cur)
<1> DEFINE base == [sock EXCEPT ![page.cur].phase = "closing"]
<1>1. ASSUME NEW s \in Sockets
      PROVE  SockFields \subseteq DOMAIN base[s] /\ (base[s].phase \in {"new", "open"} => s = page.cur)
  <2>1. SockFields \subseteq DOMAIN sock[s] /\ (sock[s].phase \in {"new", "open"} => s = page.cur)
    BY DEF IInv, Owned
  <2>2. base[s] = [sock[s] EXCEPT !.phase = "closing"] \/ base[s] = sock[s]
    BY DEF IInv, Owned
  <2> HIDE DEF base
  <2> QED BY <2>1, <2>2 DEF SockFields
<1>2. DOMAIN base = Sockets
  BY DEF IInv, Owned
<1> HIDE DEF base
<1>3. Owned(base, page.cur)
  BY <1>1, <1>2 DEF Owned
<1> QED BY <1>3 DEF base

LEMMA StaleStep ==
  ASSUME IInv, Stale
  PROVE  IInv'
<1> DEFINE p == SetState(page, "stale")
<1>1. Client(p) /\ Rest(page, p) /\ p.st \in {"stale", "stopped"}
  BY SetStateIs DEF IInv
<1>2. page' = p /\ Owned(sock', page.cur)
  BY ClosingKeeps DEF Stale
<1> HIDE DEF p
<1>3. Real(p) /\ Kept(page, p) /\ p.cur = page.cur
  BY <1>1 DEF Real, Rest
<1> QED BY <1>1, <1>2, <1>3, PageOnly

LEMMA AskedStep ==
  ASSUME IInv, NEW p, Client(p), Real(p), Kept(page, p), NEW hurry, Becomes(Ask(p, hurry), sock)
  PROVE  IInv'
<1> DEFINE q == Ask(p, hurry)
<1>1. Client(q) /\ Real(q) /\ Kept(p, q)
  BY AskIs
<1>2. Becomes(q, sock) /\ Owned(sock, page.cur)
  BY DEF IInv
<1> HIDE DEF q
<1>3. Kept(page, q)
  BY <1>1 DEF Kept
<1> QED BY <1>1, <1>2, <1>3, PageStep

LEMMA DrainStep ==
  ASSUME IInv, Drain
  PROVE  IInv'
<1> DEFINE p == [page EXCEPT !.pend = FALSE, !.tries = 1]
<1>1. Client(p) /\ Real(p) /\ Kept(page, p)
  BY DEF IInv, Client, PageFields, Real, Kept
<1>2. PICK hurry \in BOOLEAN : Becomes(Ask(p, hurry), sock)
  BY DEF Drain
<1> HIDE DEF p
<1> QED BY <1>1, <1>2, AskedStep

LEMMA RetryStep ==
  ASSUME IInv, Retry
  PROVE  IInv'
<1> DEFINE n == page.tries + 1
           p == [page EXCEPT !.tries = n]
<1>1. Client(p) /\ Real(p) /\ Kept(page, p)
  <2> HIDE DEF n
  <2> QED BY DEF IInv, Client, PageFields, Real, Kept
<1>2. PICK hurry \in BOOLEAN : Becomes(Ask(p, hurry), sock)
  BY DEF Retry
<1> HIDE DEF p
<1> QED BY <1>1, <1>2, AskedStep

LEMMA ReadTimesOutStep ==
  ASSUME IInv, ReadTimesOut
  PROVE  IInv'
<1> DEFINE p == [page EXCEPT !.read = "sent"]
           q == Rejected(p)
<1>1. Client(p) /\ Rest(page, p) /\ p.st = page.st /\ p.read = "sent"
  BY ReadSet DEF IInv
<1>2. Client(q) /\ Rest(p, q) /\ q.st = p.st /\ (q.read = "waiting" => p.read = "waiting")
  <2> HIDE DEF p
  <2> QED BY <1>1, RejectedIs
<1>3. page' = q /\ sock' = sock /\ Owned(sock, page.cur)
  BY DEF ReadTimesOut, IInv
<1> HIDE DEF p, q
<1>4. Real(q) /\ Kept(page, q) /\ q.cur = page.cur
  BY <1>1, <1>2 DEF IInv, Real, Rest, Kept
<1> QED BY <1>2, <1>3, <1>4, PageOnly

LEMMA UpdateCheckedStep ==
  ASSUME IInv, UpdateChecked
  PROVE  IInv'
<1> DEFINE p == [page EXCEPT !.check = "no"]
<1>1. Client(p) /\ Real(p) /\ Kept(page, p) /\ p.cur = page.cur /\ Owned(sock, page.cur)
  BY DEF IInv, Client, PageFields, Real, Kept
<1>2. CASE MayReload /\ Reload
  BY <1>2, ReloadStep
<1>3. CASE page' = p /\ sock' = sock
  <2> HIDE DEF p
  <2> QED BY <1>1, <1>3, PageOnly
<1> QED BY <1>2, <1>3 DEF UpdateChecked

-----------------------------------------------------------------------------
(* The browser, the user, the network and the server.                      *)
-----------------------------------------------------------------------------
LEMMA DeadKeeps ==
  ASSUME IInv
  PROVE  /\ Owned(Dead, page.cur)
         /\ Owned([s \in Sockets |-> IF s = page.cur THEN [Dead[s] EXCEPT !.phase = "closing"] ELSE Dead[s]], page.cur)
<1> DEFINE dead == Dead
           base == [s \in Sockets |-> IF s = page.cur THEN [dead[s] EXCEPT !.phase = "closing"] ELSE dead[s]]
<1>1. ASSUME NEW s \in Sockets
      PROVE  SockFields \subseteq DOMAIN dead[s] /\ (dead[s].phase \in {"new", "open"} => s = page.cur)
  <2>1. SockFields \subseteq DOMAIN sock[s] /\ (sock[s].phase \in {"new", "open"} => s = page.cur)
    BY DEF IInv, Owned
  <2>2. dead[s] = Closed \/ dead[s] = [sock[s] EXCEPT !.live = FALSE]
    BY DEF Dead
  <2>3. SockFields \subseteq DOMAIN Closed /\ Closed.phase = "none"
    BY DEF Closed, SockFields
  <2> HIDE DEF dead
  <2> QED BY <2>1, <2>2, <2>3 DEF SockFields
<1>2. DOMAIN dead = Sockets
  BY DEF Dead
<1> HIDE DEF dead
<1>3. Owned(dead, page.cur)
  BY <1>1, <1>2 DEF Owned
<1>4. ASSUME NEW s \in Sockets
      PROVE  SockFields \subseteq DOMAIN base[s] /\ (base[s].phase \in {"new", "open"} => s = page.cur)
  <2>1. base[s] = [dead[s] EXCEPT !.phase = "closing"] \/ base[s] = dead[s]
    OBVIOUS
  <2> HIDE DEF base
  <2> QED BY <1>1, <2>1 DEF SockFields
<1>5. DOMAIN base = Sockets
  OBVIOUS
<1>6. Owned(base, page.cur)
  <2> HIDE DEF base
  <2> QED BY <1>4, <1>5 DEF Owned
<1> QED BY <1>3, <1>6 DEF dead

LEMMA GoOfflineStep ==
  ASSUME IInv, GoOffline
  PROVE  IInv'
<1> DEFINE p == [page EXCEPT !.online = FALSE]
           r == SetState(p, "offline")
           q == WaitersRejected(r)
<1>1. Client(p) /\ Real(p) /\ Kept(page, p) /\ p.cur = page.cur
  BY DEF IInv, Client, PageFields, Real, Kept
<1>2. Client(r) /\ Rest(p, r) /\ r.st \in {"offline", "stopped"}
  <2> HIDE DEF p
  <2> QED BY <1>1, SetStateIs
<1>3. Client(q) /\ Rest(r, q) /\ q.st = r.st
  <2> HIDE DEF r
  <2> QED BY <1>2, WaitersRejectedIs
<1>4. (page' = p \/ page' = q) /\ Owned(sock', page.cur)
  BY DeadKeeps DEF GoOffline
<1> HIDE DEF p, r, q
<1>5. Real(q) /\ Kept(page, q) /\ q.cur = page.cur
  BY <1>1, <1>2, <1>3 DEF Real, Rest, Kept
<1> QED BY <1>1, <1>3, <1>4, <1>5, PageOnly

LEMMA ResumedStep ==
  ASSUME IInv, NEW p, Client(p), Real(p), Kept(page, p), Becomes(Resume(p), sock)
  PROVE  IInv'
<1> DEFINE q == Resume(p)
<1>1. Client(q) /\ Real(q) /\ Kept(p, q)
  BY ResumeIs
<1>2. Becomes(q, sock) /\ Owned(sock, page.cur)
  BY DEF IInv
<1> HIDE DEF q
<1>3. Kept(page, q)
  BY <1>1 DEF Kept
<1> QED BY <1>1, <1>2, <1>3, PageStep

LEMMA SameClient ==
  ASSUME IInv
  PROVE  /\ \A online : LET p == [page EXCEPT !.online = online] IN Client(p) /\ Real(p) /\ Kept(page, p) /\ p.cur = page.cur
         /\ \A hidden : LET p == [page EXCEPT !.hidden = hidden] IN Client(p) /\ Real(p) /\ Kept(page, p) /\ p.cur = page.cur
         /\ \A hot : LET p == [page EXCEPT !.hot = hot] IN Client(p) /\ Real(p) /\ Kept(page, p) /\ p.cur = page.cur
         /\ Client(page) /\ Real(page) /\ Kept(page, page) /\ Owned(sock, page.cur)
BY DEF IInv, Client, PageFields, Real, Kept

LEMMA UserStep ==
  ASSUME IInv, Cool \/ Hide \/ GoOnline \/ Show \/ Focus \/ SessionChanged
  PROVE  IInv'
<1> DEFINE cool == [page EXCEPT !.hot = FALSE]
           hide == [page EXCEPT !.hidden = TRUE]
           online == [page EXCEPT !.online = TRUE]
           show == [page EXCEPT !.hidden = FALSE]
<1>1. /\ \A p \in {cool, hide} : Client(p) /\ Real(p) /\ Kept(page, p) /\ p.cur = page.cur
      /\ \A p \in {online, show, page} : Client(p) /\ Real(p) /\ Kept(page, p)
      /\ Owned(sock, page.cur)
  BY SameClient
<1>2. CASE Cool
  <2>1. page' = cool /\ sock' = sock
    BY <1>2 DEF Cool
  <2> HIDE DEF cool
  <2> QED BY <1>1, <2>1, PageOnly
<1>3. CASE Hide
  <2>1. page' = hide /\ sock' = sock
    BY <1>3 DEF Hide
  <2> HIDE DEF hide
  <2> QED BY <1>1, <2>1, PageOnly
<1>4. CASE GoOnline
  <2>1. Becomes(Resume(online), sock)
    BY <1>4 DEF GoOnline
  <2> HIDE DEF online
  <2> QED BY <1>1, <2>1, ResumedStep
<1>5. CASE Show
  <2>1. Becomes(Resume(show), sock)
    BY <1>5 DEF Show
  <2> HIDE DEF show
  <2> QED BY <1>1, <2>1, ResumedStep
<1>6. CASE Focus
  BY <1>1, <1>6, ResumedStep DEF Focus
<1>7. CASE SessionChanged
  <2> DEFINE q == Restart(page)
  <2>1. Becomes(q, sock)
    BY <1>7 DEF SessionChanged
  <2>2. Client(q) /\ Real(q) /\ Kept(page, q)
    BY <1>1, RestartIs
  <2> HIDE DEF q
  <2> QED BY <1>1, <2>1, <2>2, PageStep
<1> QED BY <1>2, <1>3, <1>4, <1>5, <1>6, <1>7

\* Messages and silence change no phase.
LEMMA ServerStep ==
  ASSUME IInv, page' = page, DOMAIN sock' = Sockets,
         \A s \in Sockets : SockFields \subseteq DOMAIN sock'[s] /\ sock'[s].phase = sock[s].phase
  PROVE  IInv'
<1>1. Owned(sock', page.cur)
  BY DEF IInv, Owned
<1> QED BY <1>1, SocketsOnly

LEMMA AnswerStep ==
  ASSUME IInv, NEW s \in Sockets, ReadHandled(s) \/ HelloHandled(s) \/ SubscribeHandled(s)
  PROVE  IInv'
<1>1. page' = page
  BY DEF ReadHandled, HelloHandled, SubscribeHandled
<1>2. CASE \E message, sent : sock' = Answered(s, message, sent)
  BY <1>1, <1>2, AnsweredKeeps, SocketsOnly
<1>3. CASE \E message, sent : \/ sock' = [Answered(s, message, sent) EXCEPT ![s].greeted = TRUE]
                              \/ sock' = [Answered(s, message, sent) EXCEPT ![s].subscribed = TRUE]
  <2>1. PICK message, sent : \/ sock' = [Answered(s, message, sent) EXCEPT ![s].greeted = TRUE]
                             \/ sock' = [Answered(s, message, sent) EXCEPT ![s].subscribed = TRUE]
    BY <1>3
  <2> DEFINE base == Answered(s, message, sent)
  <2>2. Owned(base, page.cur)
    BY AnsweredKeeps
  <2> HIDE DEF base
  <2>3. sock' = [base EXCEPT ![s].greeted = TRUE] \/ sock' = [base EXCEPT ![s].subscribed = TRUE]
    BY <2>1 DEF base
  <2>4. ASSUME NEW t \in Sockets
        PROVE  SockFields \subseteq DOMAIN sock'[t] /\ sock'[t].phase = base[t].phase
    <3>1. \/ sock'[t] = base[t]
          \/ sock'[t] = [base[t] EXCEPT !.greeted = TRUE]
          \/ sock'[t] = [base[t] EXCEPT !.subscribed = TRUE]
      BY <2>2, <2>3 DEF Owned
    <3>2. SockFields \subseteq DOMAIN base[t]
      BY <2>2 DEF Owned
    <3> QED BY <3>1, <3>2 DEF SockFields
  <2>5. DOMAIN sock' = Sockets
    BY <2>2, <2>3 DEF Owned
  <2>6. Owned(sock', page.cur)
    BY <2>2, <2>4, <2>5 DEF Owned
  <2> QED BY <1>1, <2>6, SocketsOnly
<1> QED BY <1>2, <1>3 DEF ReadHandled, HelloHandled, SubscribeHandled

LEMMA SilentStep ==
  ASSUME IInv, NEW s \in Sockets, Silent(s)
  PROVE  IInv'
<1>1. ASSUME NEW t \in Sockets
      PROVE  SockFields \subseteq DOMAIN sock'[t] /\ sock'[t].phase = sock[t].phase
  <2>1. SockFields \subseteq DOMAIN sock[t]
    BY DEF IInv, Owned
  <2>2. sock'[t] = sock[t] \/ sock'[t] = [sock[t] EXCEPT !.live = FALSE]
    BY DEF IInv, Owned, Silent
  <2> QED BY <2>1, <2>2 DEF SockFields
<1>2. page' = page /\ DOMAIN sock' = Sockets
  BY DEF IInv, Owned, Silent
<1> QED BY <1>1, <1>2, ServerStep

LEMMA PublishStep ==
  ASSUME IInv, NEW told, Publish(told), page' = page
  PROVE  IInv'
<1>1. ASSUME NEW t \in Sockets
      PROVE  SockFields \subseteq DOMAIN sock'[t] /\ sock'[t].phase = sock[t].phase
  <2> DEFINE news == Append(sock[t].s2c, Message("event", 0))
  <2>1. SockFields \subseteq DOMAIN sock[t]
    BY DEF IInv, Owned
  <2>2. sock'[t] = sock[t] \/ sock'[t] = [sock[t] EXCEPT !.s2c = news]
    BY DEF Publish
  <2> HIDE DEF news
  <2> QED BY <2>1, <2>2 DEF SockFields
<1>2. DOMAIN sock' = Sockets
  BY DEF Publish
<1> QED BY <1>1, <1>2, ServerStep

LEMMA ServerStopsStep ==
  ASSUME IInv, ServerStops
  PROVE  IInv'
<1>1. ASSUME NEW t \in Sockets
      PROVE  SockFields \subseteq DOMAIN sock'[t] /\ sock'[t].phase = sock[t].phase
  <2> DEFINE news == Append(sock[t].s2c, Message("restart", 0))
             r == [sock[t] EXCEPT !.s2c = news, !.c2s = {}, !.greeted = FALSE, !.subscribed = FALSE]
  <2>1. SockFields \subseteq DOMAIN sock[t]
    BY DEF IInv, Owned
  <2>2. sock'[t] = sock[t] \/ sock'[t] = r
    BY DEF ServerStops
  <2>3. SockFields \subseteq DOMAIN r /\ r.phase = sock[t].phase
    <3> HIDE DEF news
    <3> QED BY <2>1 DEF SockFields
  <2> HIDE DEF r
  <2> QED BY <2>1, <2>2, <2>3
<1>2. page' = page /\ DOMAIN sock' = Sockets
  BY DEF ServerStops
<1> QED BY <1>1, <1>2, ServerStep

-----------------------------------------------------------------------------
(* The theorems.                                                           *)
-----------------------------------------------------------------------------
LEMMA ConnectionInit == Init => IInv
<1> SUFFICES ASSUME Init PROVE IInv
  OBVIOUS
<1> DEFINE p == Loaded(FALSE, 0)
<1>1. Client(p) /\ Real(p) /\ Marked(p) /\ Owned(NewSockets, p.cur)
  BY LoadedIs
<1>2. page = p /\ sock = NewSockets
  BY DEF Init
<1> HIDE DEF p
<1> QED BY <1>1, <1>2 DEF IInv

LEMMA ConnectionNext == IInv /\ [Next]_vars => IInv'
<1> SUFFICES ASSUME IInv, [Next]_vars PROVE IInv'
  OBVIOUS
<1>1. CASE \E s \in Sockets : SocketSteps(s)
  <2> PICK s \in Sockets : SocketSteps(s)
    BY <1>1
  <2> QED BY OpenedStep, WelcomedStep, EventHeardStep, ResponseHeardStep, CloseHeardStep DEF SocketSteps
<1>2. CASE \E s \in Sockets : ServerSteps(s)
  BY <1>2, AnswerStep DEF ServerSteps
<1>3. CASE PageSteps
  <2>1. CASE ConnectTimeout
    BY <2>1, ClosingKeeps, SocketsOnly DEF ConnectTimeout
  <2> QED BY <1>3, <2>1, VersionAnsweredStep, ReconnectTimerStep, StaleStep, DrainStep, RetryStep, ReadTimesOutStep,
             UpdateCheckedStep, UserStep DEF PageSteps
<1>4. CASE \E s \in Sockets : Silent(s) \/ Broken(s)
  BY <1>4, SilentStep, LostStep DEF Broken
<1>5. CASE Write
  BY <1>5, PublishStep DEF Write
<1>6. CASE ServerStarts
  BY <1>6 DEF ServerStarts, IInv
<1>7. CASE UNCHANGED vars
  BY <1>7 DEF vars, IInv
<1> QED BY <1>1, <1>2, <1>3, <1>4, <1>5, <1>6, <1>7, GoOfflineStep, UserStep, ServerStopsStep DEF Next, Progress, Environment

\* However a page loses, replaces and gives up its connections, whichever hello, welcome or close event comes when: no
\* open socket is left that is not the current one, and "connected" means a greeted current socket on which no request
\* waits (connect, cleanupSocket, restartConnection).
THEOREM SocketsStaySound == Spec => []SocketsSound
<1>1. IInv => SocketsSound
  BY DEF IInv, Client, Real, Owned, SocketsSound, NoSocketForgotten, ConnectedIsReal
<1> QED BY <1>1, ConnectionInit, ConnectionNext, PTL DEF Spec

\* Whatever versions the server and the checks answer: a page that has reloaded itself does so again only after a
\* welcome (shouldReloadForVersionMismatch).
THEOREM ReloadsOnce == Spec => []NoReloadLoop
<1>1. IInv => NoReloadLoop
  BY DEF IInv, Marked, NoReloadLoop
<1> QED BY <1>1, ConnectionInit, ConnectionNext, PTL DEF Spec
=============================================================================
