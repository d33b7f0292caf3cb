--------------------------- MODULE MonitorsProofs ----------------------------
(***************************************************************************)
(* Proofs about module Monitors, for any number of commands, connections   *)
(* and disturbances.                                                       *)
(***************************************************************************)
EXTENDS Monitors, TLAPS, SequenceTheorems

-----------------------------------------------------------------------------
(* The inductive invariant.                                                *)
-----------------------------------------------------------------------------
MessageKinds == {"welcome", "navigate", "scroll"} \cup Closes
Messages == [kind : MessageKinds, cmd : Nat, seq : Nat, stream : Nat]
Scrolls == [cmd : Nat, seq : Nat, stream : Sockets, ready : BOOLEAN, try : {1, 2}, sent : BOOLEAN]
Queued == [cmd : Nat, seq : Nat]
Requested == [dir : Directions, cmd : Nat, seq : Nat, stream : Nat]
AckTypes == [kind : {"navigate", "scroll"}, cmd : Nat, st : {"received", "loading", "loaded", "failed", "applied"},
             waited : BOOLEAN, on : Nat, at : {"refused", "ok", "writing"}]
Jobs == [cmd : Nat, phase : {"none", "received", "loading", "loaded"}, try : {1, 2}, sent : BOOLEAN]
Committed == [kind : {"navigate", "rotate", "revoke", "delete"}, cmd : Nat]
Links == {"stopped", "closed", "hello", "visitor", "up"}

DatabaseTyped == row.target \in Nat /\ commits \subseteq Committed /\ snapshot \subseteq Nat /\ disturbed \in Nat
BrokerTyped == /\ mem \in Nat /\ conn \in Nat /\ queue \in Seq(Queued) /\ inflight \in Nat /\ nextSeq \in Nat
               /\ writes \subseteq Requested /\ retained \in [Directions -> Nat] /\ pressed \in Nat
WireTyped == /\ opened \in 0..MaxSockets /\ link \in Links /\ inbox \in Seq(Messages) /\ acks \subseteq AckTypes
             /\ \A h \in shaking : h.socket \in Nat
PageTyped == /\ shown \in Nat /\ job \in Jobs /\ chain \in Seq(Scrolls) /\ high \in [Sockets -> Nat] /\ moved \in Seq(Scrolls)
TypeOK == DatabaseTyped /\ BrokerTyped /\ WireTyped /\ PageTyped

\* What is on its way to the page: scrolls of the connection it has, navigations that have a number
Proper(m, s) == (m.kind = "scroll" => m.stream = s) /\ (m.kind = "navigate" => m.cmd # 0)
Addressed == /\ link # "up" => inbox = <<>>
             /\ \A i \in DOMAIN inbox : Proper(inbox[i], opened)
             /\ \A c \in commits : c.kind = "navigate" => c.cmd # 0
             /\ link \in {"hello", "visitor", "up"} => opened # 0

\* No scroll of connection s can reach the frame any more
Ended(s) == /\ \A i \in DOMAIN chain : chain[i].stream # s
            /\ s # opened \/ link \notin {"hello", "up"}
\* The scrolls of the page are of connections it has had
Streams == /\ \A i \in DOMAIN chain : chain[i].stream <= opened
           /\ \A i \in DOMAIN moved : moved[i].stream <= opened
           /\ link = "hello" => /\ \A i \in DOMAIN chain : chain[i].stream < opened
                                /\ \A i \in DOMAIN moved : moved[i].stream < opened
\* The page knows the number of every move of a connection that can still move the frame
Known == \A i \in DOMAIN moved : moved[i].seq <= high[moved[i].stream] \/ Ended(moved[i].stream)

\* The page waits for one answer at a time, to the phase its navigation is in
Awaits(a) == a.kind = "navigate" /\ a.waited
Loading == /\ \A a \in acks : Awaits(a) => /\ link = "up" /\ job.sent /\ a.cmd = job.cmd /\ a.st = job.phase
                                           /\ a.at = "ok" /\ a.st = "loaded" => a.cmd \in confirmed
           /\ \A a, b \in acks : Awaits(a) /\ Awaits(b) => a = b
           /\ job.phase # "none" => job.cmd # 0
           /\ job.phase = "none" => ~job.sent

Ordered == Streams /\ Known /\ ScrollsInOrder
IInv == TypeOK /\ Addressed /\ PageRegistered /\ Ordered /\ Loading

-----------------------------------------------------------------------------
(* What the helpers of broker and page make of typed values.               *)
-----------------------------------------------------------------------------
LEMMA MaxSocketsNumber == MaxSockets \in Nat
BY BoundsAssumption, Zenon

LEMMA MessageTyped ==
  ASSUME TypeOK, NEW kind \in MessageKinds, NEW c \in Nat, NEW q \in Nat
  PROVE  Message(kind, c, q) \in Messages
BY DEF Message, Messages, TypeOK, BrokerTyped

LEMMA SentTyped ==
  ASSUME TypeOK, NEW m \in Messages
  PROVE  Sent(m) \in Seq(Messages)
<1>1. inbox \in Seq(Messages)
  BY DEF TypeOK, WireTyped
<1>2. Append(inbox, m) \in Seq(Messages)
  BY <1>1
<1> QED BY <1>1, <1>2 DEF Sent

LEMMA SendNextTyped ==
  ASSUME TypeOK, NEW q \in Seq(Queued), SendNext(q)
  PROVE  queue' \in Seq(Queued) /\ inflight' \in Nat /\ inbox' \in Seq(Messages)
<1>1. CASE q = <<>>
  BY <1>1 DEF SendNext, TypeOK, WireTyped
<1>2. CASE q # <<>>
  <2>1. Head(q) \in Queued /\ Tail(q) \in Seq(Queued)
    BY <1>2
  <2>2. Head(q).cmd \in Nat /\ Head(q).seq \in Nat
    BY <2>1 DEF Queued
  <2>3. Sent(Message("scroll", Head(q).cmd, Head(q).seq)) \in Seq(Messages)
    BY <2>2, MessageTyped, SentTyped DEF MessageKinds
  <2> QED BY <1>2, <2>1, <2>2, <2>3 DEF SendNext
<1> QED BY <1>1, <1>2

LEMMA DisconnectTyped ==
  ASSUME TypeOK, NEW code \in Closes, Disconnect(code)
  PROVE  conn' \in Nat /\ queue' \in Seq(Queued) /\ inflight' \in Nat /\ nextSeq' \in Nat /\ inbox' \in Seq(Messages)
<1>1. Sent(Message(code, 0, 0)) \in Seq(Messages)
  BY MessageTyped, SentTyped DEF MessageKinds
<1>2. CASE conn # 0
  BY <1>1, <1>2 DEF Disconnect, FailPending
<1>3. CASE conn = 0
  BY <1>3 DEF Disconnect, TypeOK, BrokerTyped, WireTyped
<1> QED BY <1>2, <1>3

LEMMA AckTyped ==
  ASSUME TypeOK, NEW kind \in {"navigate", "scroll"}, NEW c \in Nat,
         NEW st \in {"received", "loading", "loaded", "failed", "applied"}, NEW waited \in BOOLEAN
  PROVE  Ack(kind, c, st, waited) \in AckTypes
<1>1. Arrives(kind, c) \in {"refused", "ok", "writing"}
  BY DEF Arrives
<1>2. conn \in Nat
  BY DEF TypeOK, BrokerTyped
<1> QED BY <1>1, <1>2 DEF Ack, AckTypes

LEMMA FireAndForgetTyped ==
  ASSUME TypeOK, NEW c \in Nat, NEW st \in {"received", "loading", "loaded", "failed", "applied"}
  PROVE  FireAndForget(c, st) \subseteq AckTypes
BY AckTyped DEF FireAndForget

LEMMA AcksKept ==
  ASSUME TypeOK
  PROVE  /\ Forgotten \subseteq AckTypes
         /\ \A kind : Ignored(kind) \subseteq AckTypes
         /\ \A a \in acks : \A at \in {"ok", "refused"} : Answer(a, at) \subseteq AckTypes
<1>1. \A a \in AckTypes : [a EXCEPT !.waited = FALSE] \in AckTypes
  BY DEF AckTypes
<1>2. \A a \in AckTypes : \A at \in {"ok", "refused"} : [a EXCEPT !.at = at] \in AckTypes
  BY DEF AckTypes
<1>3. acks \subseteq AckTypes
  BY DEF TypeOK, WireTyped
<1> QED BY <1>1, <1>2, <1>3 DEF Forgotten, Ignored, Answer

\* The page after its session has been checked
LEMMA CheckSessionTyped ==
  ASSUME TypeOK, CheckSession
  PROVE  shown' \in Nat /\ job' \in Jobs /\ high' \in [Sockets -> Nat] /\ moved' \in Seq(Scrolls)
         /\ disturbed' \in Nat
<1>1. NoJob \in Jobs /\ [s \in Sockets |-> 0] \in [Sockets -> Nat] /\ <<>> \in Seq(Scrolls)
  <2>1. NoJob \in Jobs
    BY DEF Jobs, NoJob
  <2>2. [s \in Sockets |-> 0] \in [Sockets -> Nat]
    OBVIOUS
  <2> QED BY <2>1, <2>2
<1>2. shown \in Nat /\ job \in Jobs /\ high \in [Sockets -> Nat] /\ moved \in Seq(Scrolls)
      /\ disturbed \in Nat
  BY DEF TypeOK, PageTyped, DatabaseTyped
<1>3. CASE Valid(cookie) /\ device' = TRUE /\ UNCHANGED <<shown, job, high, applied, moved, disturbed>>
  BY <1>2, <1>3
<1>4. CASE /\ ~Valid(cookie) /\ device' = FALSE /\ shown' = 0 /\ job' = NoJob
           /\ high' = [s \in Sockets |-> 0] /\ applied' = {} /\ moved' = <<>> /\ UNCHANGED disturbed
  BY <1>1, <1>2, <1>4
<1>5. CASE Disturb /\ UNCHANGED <<device, shown, job, high, applied, moved>>
  BY <1>2, <1>5 DEF Disturb
<1> QED BY <1>3, <1>4, <1>5 DEF CheckSession

LEMMA DatabaseTypedStep ==
  ASSUME TypeOK, Next
  PROVE  DatabaseTyped'
<1>1. ASSUME Provision PROVE DatabaseTyped'
  BY <1>1 DEF DatabaseTyped, TypeOK, Provision, broker, operator, wire, page, sockets
<1>2. ASSUME Navigate PROVE DatabaseTyped'
  <2>1. pressed + 1 \in Nat
    BY DEF TypeOK, BrokerTyped
  <2>2. row'.target \in Nat /\ commits' \subseteq Committed
    BY <1>2, <2>1 DEF TypeOK, DatabaseTyped, Navigate, Targeted, Committed
  <2> QED BY <1>2, <2>2 DEF TypeOK, DatabaseTyped, Navigate
<1>3. ASSUME NEW d \in Directions, Scroll(d) PROVE DatabaseTyped'
  BY <1>3 DEF DatabaseTyped, TypeOK, Scroll, database, wire, page, sockets
<1>4. ASSUME NEW k \in {"rotate", "revoke", "delete"}, Administer(k) PROVE DatabaseTyped'
  BY <1>4 DEF DatabaseTyped, TypeOK, Administer, Changed, Committed, Disturb
<1>5. ASSUME RefreshReads PROVE DatabaseTyped'
  BY <1>5 DEF DatabaseTyped, TypeOK, RefreshReads, Disturb, broker, operator, wire, page, sockets
<1>6. ASSUME Lose PROVE DatabaseTyped'
  BY <1>6 DEF DatabaseTyped, TypeOK, Lose, Disturb, database, broker, operator, sockets
<1>7. ASSUME Restart PROVE DatabaseTyped'
  BY <1>7 DEF DatabaseTyped, TypeOK, Restart, Disturb
<1>8. ASSUME Enroll PROVE DatabaseTyped'
  BY <1>8 DEF DatabaseTyped, TypeOK, Enroll, database, broker, operator, sockets
<1>9. ASSUME Reload PROVE DatabaseTyped'
  BY <1>9 DEF DatabaseTyped, TypeOK, Reload, Disturb, database, broker, operator, sockets
<1>10. ASSUME FailNavigation PROVE DatabaseTyped'
  BY <1>10 DEF DatabaseTyped, TypeOK, FailNavigation, Disturb, database, broker, operator, sockets
<1>11. ASSUME NEW c \in timers, NavigationTimesOut(c) PROVE DatabaseTyped'
  BY <1>11 DEF DatabaseTyped, TypeOK, NavigationTimesOut, Disturb, database, operator, wire, page, sockets
<1>12. ASSUME NEW a \in acks, AckFails(a) PROVE DatabaseTyped'
  BY <1>12 DEF DatabaseTyped, TypeOK, AckFails, Disturb, database, broker, operator, sockets, page
<1>13. ASSUME NEW c \in commits, NavigateGoesOn(c) PROVE DatabaseTyped'
  BY <1>13 DEF DatabaseTyped, TypeOK, NavigateGoesOn, operator, sockets, page
<1>14. ASSUME NEW c \in commits, AdministerGoesOn(c) PROVE DatabaseTyped'
  BY <1>14 DEF DatabaseTyped, TypeOK, AdministerGoesOn, sockets, page
<1>15. ASSUME NEW w \in writes, ScrollRepeated(w) PROVE DatabaseTyped'
  BY <1>15 DEF DatabaseTyped, TypeOK, ScrollRepeated, database, broker, wire, page, sockets
<1>16. ASSUME NEW w \in writes, ScrollGoesOn(w) PROVE DatabaseTyped'
  BY <1>16 DEF DatabaseTyped, TypeOK, ScrollGoesOn, database, sockets, page
<1>17. ASSUME NEW w \in writes, ScrollRefused(w) PROVE DatabaseTyped'
  BY <1>17 DEF DatabaseTyped, TypeOK, ScrollRefused, database, broker, wire, page, sockets
<1>18. ASSUME ScrollTimesOut PROVE DatabaseTyped'
  BY <1>18 DEF DatabaseTyped, TypeOK, ScrollTimesOut, Disturb, database, operator, sockets, page
<1>19. ASSUME RefreshApplies PROVE DatabaseTyped'
  BY <1>19 DEF DatabaseTyped, TypeOK, RefreshApplies, operator, wire, page, sockets
<1>20. ASSUME NEW h \in shaking, Authenticate(h) PROVE DatabaseTyped'
  BY <1>20 DEF DatabaseTyped, TypeOK, Authenticate, database, broker, operator, page
<1>21. ASSUME NEW h \in shaking, Register(h) PROVE DatabaseTyped'
  BY <1>21 DEF DatabaseTyped, TypeOK, Register, Awaited, database, page
<1>22. ASSUME NEW h \in shaking, WelcomeVisitor(h) PROVE DatabaseTyped'
  BY <1>22, CheckSessionTyped DEF DatabaseTyped, TypeOK, WelcomeVisitor, database
<1>23. ASSUME NEW s \in Sockets, Unregister(s) PROVE DatabaseTyped'
  BY <1>23 DEF DatabaseTyped, TypeOK, Unregister, database, page
<1>24. ASSUME NEW a \in acks, AckWritten(a) PROVE DatabaseTyped'
  BY <1>24 DEF DatabaseTyped, TypeOK, AckWritten, database, operator, sockets, page
<1>25. ASSUME Connect PROVE DatabaseTyped'
  BY <1>25 DEF DatabaseTyped, TypeOK, Connect, database, broker, operator, page
<1>26. ASSUME Receive PROVE DatabaseTyped'
  BY <1>26 DEF DatabaseTyped, TypeOK, Receive, database, broker, operator, sockets
<1>27. ASSUME Acknowledge PROVE DatabaseTyped'
  BY <1>27 DEF DatabaseTyped, TypeOK, Acknowledge, database, broker, operator, sockets
<1>28. ASSUME NEW a \in acks, Accepted(a) PROVE DatabaseTyped'
  BY <1>28 DEF DatabaseTyped, TypeOK, Accepted, database, broker, operator, sockets
<1>29. ASSUME Unanswered PROVE DatabaseTyped'
  BY <1>29 DEF DatabaseTyped, TypeOK, Unanswered, database, broker, operator, sockets
<1>30. ASSUME ApplyScroll PROVE DatabaseTyped'
  BY <1>30 DEF DatabaseTyped, TypeOK, ApplyScroll, database, broker, operator, wire, sockets
<1>31. ASSUME AcknowledgeScroll PROVE DatabaseTyped'
  BY <1>31 DEF DatabaseTyped, TypeOK, AcknowledgeScroll, database, operator, sockets
<1>32. ASSUME ScrollAnswered PROVE DatabaseTyped'
  BY <1>32 DEF DatabaseTyped, TypeOK, ScrollAnswered, database, broker, operator, sockets
<1>33. ASSUME Closed PROVE DatabaseTyped'
  BY <1>33, CheckSessionTyped DEF DatabaseTyped, TypeOK, Closed, database
<1> QED BY <1>1, <1>2, <1>3, <1>4, <1>5, <1>6, <1>7, <1>8, <1>9, <1>10, <1>11, <1>12, <1>13, <1>14, <1>15, <1>16, <1>17, <1>18, <1>19, <1>20, <1>21, <1>22, <1>23, <1>24, <1>25, <1>26, <1>27, <1>28, <1>29, <1>30, <1>31, <1>32, <1>33 DEF Next, Server, Page, Environment

LEMMA BrokerTypedStep ==
  ASSUME TypeOK, Next
  PROVE  BrokerTyped'
<1>1. ASSUME Provision PROVE BrokerTyped'
  BY <1>1 DEF BrokerTyped, TypeOK, Provision, broker, operator, wire, page, sockets
<1>2. ASSUME Navigate PROVE BrokerTyped'
  BY <1>2 DEF BrokerTyped, TypeOK, Navigate, Targeted, broker, operator, wire, page, sockets
<1>3. ASSUME NEW d \in Directions, Scroll(d) PROVE BrokerTyped'
  BY <1>3 DEF BrokerTyped, TypeOK, Scroll, Requested, wire, page, Commands, database
<1>4. ASSUME NEW k \in {"rotate", "revoke", "delete"}, Administer(k) PROVE BrokerTyped'
  BY <1>4 DEF BrokerTyped, TypeOK, Administer, Disturb, Changed, broker, operator, wire, page, sockets
<1>5. ASSUME RefreshReads PROVE BrokerTyped'
  BY <1>5 DEF BrokerTyped, TypeOK, RefreshReads, Disturb, broker, operator, wire, page, sockets
<1>6. ASSUME Lose PROVE BrokerTyped'
  BY <1>6 DEF BrokerTyped, TypeOK, Lose, Disturb, database, broker, operator, sockets
<1>7. ASSUME Restart PROVE BrokerTyped'
  BY <1>7 DEF BrokerTyped, DatabaseTyped, TypeOK, Restart
<1>8. ASSUME Enroll PROVE BrokerTyped'
  BY <1>8 DEF BrokerTyped, TypeOK, Enroll, database, broker, operator, sockets
<1>9. ASSUME Reload PROVE BrokerTyped'
  BY <1>9 DEF BrokerTyped, TypeOK, Reload, Disturb, database, broker, operator, sockets
<1>10. ASSUME FailNavigation PROVE BrokerTyped'
  BY <1>10 DEF BrokerTyped, TypeOK, FailNavigation, Disturb, database, broker, operator, sockets
<1>11. ASSUME NEW c \in timers, NavigationTimesOut(c) PROVE BrokerTyped'
  BY <1>11 DEF BrokerTyped, TypeOK, NavigationTimesOut, Disturb, database, operator, wire, page, sockets
<1>12. ASSUME NEW a \in acks, AckFails(a) PROVE BrokerTyped'
  BY <1>12 DEF BrokerTyped, TypeOK, AckFails, Disturb, database, broker, operator, sockets, page
<1>13. ASSUME NEW c \in commits, NavigateGoesOn(c) PROVE BrokerTyped'
  BY <1>13 DEF BrokerTyped, DatabaseTyped, TypeOK, NavigateGoesOn, Committed, operator
<1>14. ASSUME NEW c \in commits, AdministerGoesOn(c) PROVE BrokerTyped'
  <2>1. conn' \in Nat /\ queue' \in Seq(Queued) /\ inflight' \in Nat /\ nextSeq' \in Nat
    BY <1>14, DisconnectTyped DEF AdministerGoesOn, Closes
  <2> QED BY <1>14, <2>1 DEF BrokerTyped, TypeOK, AdministerGoesOn
<1>15. ASSUME NEW w \in writes, ScrollRepeated(w) PROVE BrokerTyped'
  BY <1>15 DEF BrokerTyped, TypeOK, ScrollRepeated, database, broker, wire, page, sockets
<1>16. ASSUME NEW w \in writes, ScrollGoesOn(w) PROVE BrokerTyped'
  <2> DEFINE q == Append(queue, [cmd |-> w.cmd, seq |-> w.seq])
  <2>1. q \in Seq(Queued)
    BY DEF TypeOK, BrokerTyped, Requested, Queued
  <2>2. conn' \in Nat /\ queue' \in Seq(Queued) /\ inflight' \in Nat /\ nextSeq' \in Nat
    <3>1. CASE Disconnect("1011")
      BY <3>1, DisconnectTyped DEF Closes
    <3>2. CASE /\ IF inflight = 0 THEN SendNext(q) ELSE queue' = q /\ UNCHANGED <<inflight, timed, inbox>>
               /\ UNCHANGED <<conn, nextSeq, done, timers, handle, failed, button>>
      <4> HIDE DEF q
      <4> QED BY <2>1, <3>2, SendNextTyped DEF TypeOK, BrokerTyped
    <3> QED BY <1>16, <3>1, <3>2 DEF ScrollGoesOn
  <2> HIDE DEF q
  <2> QED BY <1>16, <2>2 DEF BrokerTyped, TypeOK, ScrollGoesOn
<1>17. ASSUME NEW w \in writes, ScrollRefused(w) PROVE BrokerTyped'
  BY <1>17 DEF BrokerTyped, TypeOK, ScrollRefused, broker, database, wire, page
<1>18. ASSUME ScrollTimesOut PROVE BrokerTyped'
  <2>1. queue' \in Seq(Queued) /\ inflight' \in Nat
    BY <1>18, SendNextTyped DEF ScrollTimesOut, TypeOK, BrokerTyped
  <2> QED BY <1>18, <2>1 DEF BrokerTyped, TypeOK, ScrollTimesOut, operator, page
<1>19. ASSUME RefreshApplies PROVE BrokerTyped'
  BY <1>19 DEF BrokerTyped, DatabaseTyped, TypeOK, RefreshApplies, operator, wire, page
<1>20. ASSUME NEW h \in shaking, Authenticate(h) PROVE BrokerTyped'
  BY <1>20 DEF BrokerTyped, TypeOK, Authenticate, database, broker, operator, page
<1>21. ASSUME NEW h \in shaking, Register(h) PROVE BrokerTyped'
  BY <1>21 DEF BrokerTyped, WireTyped, TypeOK, Register, page, database
<1>22. ASSUME NEW h \in shaking, WelcomeVisitor(h) PROVE BrokerTyped'
  BY <1>22 DEF BrokerTyped, TypeOK, WelcomeVisitor, Awaited, database, broker, operator
<1>23. ASSUME NEW s \in Sockets, Unregister(s) PROVE BrokerTyped'
  <2>1. CASE s = conn
    BY <1>23, <2>1 DEF BrokerTyped, TypeOK, Unregister, FailPending
  <2>2. CASE s # conn
    BY <1>23, <2>2 DEF BrokerTyped, TypeOK, Unregister
  <2> QED BY <2>1, <2>2
<1>24. ASSUME NEW a \in acks, AckWritten(a) PROVE BrokerTyped'
  <2>1. queue' \in Seq(Queued) /\ inflight' \in Nat
    <3>1. CASE UNCHANGED <<inflight, queue>>
      BY <3>1 DEF TypeOK, BrokerTyped
    <3>2. CASE SendNext(queue)
      BY <3>2, SendNextTyped DEF TypeOK, BrokerTyped
    <3> QED BY <1>24, <3>1, <3>2 DEF AckWritten
  <2> QED BY <1>24, <2>1 DEF BrokerTyped, TypeOK, AckWritten, operator, page
<1>25. ASSUME Connect PROVE BrokerTyped'
  BY <1>25 DEF BrokerTyped, TypeOK, Connect, database, broker, operator, page
<1>26. ASSUME Receive PROVE BrokerTyped'
  BY <1>26 DEF BrokerTyped, TypeOK, Receive, database, broker, operator, sockets
<1>27. ASSUME Acknowledge PROVE BrokerTyped'
  BY <1>27 DEF BrokerTyped, TypeOK, Acknowledge, database, broker, operator, sockets
<1>28. ASSUME NEW a \in acks, Accepted(a) PROVE BrokerTyped'
  BY <1>28 DEF BrokerTyped, TypeOK, Accepted, database, broker, operator, sockets
<1>29. ASSUME Unanswered PROVE BrokerTyped'
  BY <1>29 DEF BrokerTyped, TypeOK, Unanswered, database, broker, operator, sockets
<1>30. ASSUME ApplyScroll PROVE BrokerTyped'
  BY <1>30 DEF BrokerTyped, TypeOK, ApplyScroll, database, broker, operator, wire, sockets
<1>31. ASSUME AcknowledgeScroll PROVE BrokerTyped'
  BY <1>31 DEF BrokerTyped, TypeOK, AcknowledgeScroll, database, operator, sockets
<1>32. ASSUME ScrollAnswered PROVE BrokerTyped'
  BY <1>32 DEF BrokerTyped, TypeOK, ScrollAnswered, database, broker, operator, sockets
<1>33. ASSUME Closed PROVE BrokerTyped'
  BY <1>33 DEF BrokerTyped, TypeOK, Closed, database, broker, operator, sockets
<1> QED BY <1>1, <1>2, <1>3, <1>4, <1>5, <1>6, <1>7, <1>8, <1>9, <1>10, <1>11, <1>12, <1>13, <1>14, <1>15, <1>16, <1>17, <1>18, <1>19, <1>20, <1>21, <1>22, <1>23, <1>24, <1>25, <1>26, <1>27, <1>28, <1>29, <1>30, <1>31, <1>32, <1>33 DEF Next, Server, Page, Environment

LEMMA WireTypedStep ==
  ASSUME TypeOK, Next
  PROVE  WireTyped'
<1>1. ASSUME Provision PROVE WireTyped'
  BY <1>1 DEF WireTyped, TypeOK, Provision, broker, operator, wire, page, sockets
<1>2. ASSUME Navigate PROVE WireTyped'
  BY <1>2 DEF WireTyped, TypeOK, Navigate, Targeted, broker, operator, wire, page, sockets
<1>3. ASSUME NEW d \in Directions, Scroll(d) PROVE WireTyped'
  BY <1>3 DEF WireTyped, TypeOK, Scroll, database, wire, page, sockets
<1>4. ASSUME NEW k \in {"rotate", "revoke", "delete"}, Administer(k) PROVE WireTyped'
  BY <1>4 DEF WireTyped, TypeOK, Administer, Disturb, Changed, broker, operator, wire, page, sockets
<1>5. ASSUME RefreshReads PROVE WireTyped'
  BY <1>5 DEF WireTyped, TypeOK, RefreshReads, Disturb, broker, operator, wire, page, sockets
<1>6. ASSUME Lose PROVE WireTyped'
  BY <1>6, AcksKept DEF WireTyped, Links, TypeOK, Lose, Offline, sockets
<1>7. ASSUME Restart PROVE WireTyped'
  BY <1>7 DEF WireTyped, TypeOK, Restart, Links
<1>8. ASSUME Enroll PROVE WireTyped'
  BY <1>8, AcksKept DEF WireTyped, Links, TypeOK, Enroll, Offline, sockets
<1>9. ASSUME Reload PROVE WireTyped'
  BY <1>9, AcksKept DEF WireTyped, Links, TypeOK, Reload, Offline, sockets
<1>10. ASSUME FailNavigation PROVE WireTyped'
  <2>1. FireAndForget(job.cmd, "failed") \subseteq AckTypes
    BY FireAndForgetTyped DEF TypeOK, PageTyped, Jobs
  <2>2. acks' \subseteq AckTypes
    BY <1>10, <2>1, AcksKept DEF FailNavigation, GiveUpJob
  <2> QED BY <1>10, <2>2 DEF WireTyped, TypeOK, FailNavigation, sockets
<1>11. ASSUME NEW c \in timers, NavigationTimesOut(c) PROVE WireTyped'
  BY <1>11 DEF WireTyped, TypeOK, NavigationTimesOut, Disturb, database, operator, wire, page, sockets
<1>12. ASSUME NEW a \in acks, AckFails(a) PROVE WireTyped'
  BY <1>12, AcksKept DEF WireTyped, TypeOK, AckFails, sockets
<1>13. ASSUME NEW c \in commits, NavigateGoesOn(c) PROVE WireTyped'
  <2>1. Message("navigate", c.cmd, 0) \in Messages
    BY MessageTyped DEF MessageKinds, TypeOK, DatabaseTyped, Committed
  <2>2. inbox' \in Seq(Messages)
    BY <1>13, <2>1, SentTyped DEF NavigateGoesOn, SendNavigation, TypeOK, WireTyped
  <2> QED BY <1>13, <2>2 DEF WireTyped, TypeOK, NavigateGoesOn, sockets
<1>14. ASSUME NEW c \in commits, AdministerGoesOn(c) PROVE WireTyped'
  <2>1. inbox' \in Seq(Messages)
    BY <1>14, DisconnectTyped DEF AdministerGoesOn, Closes
  <2> QED BY <1>14, <2>1 DEF WireTyped, TypeOK, AdministerGoesOn, sockets
<1>15. ASSUME NEW w \in writes, ScrollRepeated(w) PROVE WireTyped'
  BY <1>15 DEF WireTyped, TypeOK, ScrollRepeated, database, broker, wire, page, sockets
<1>16. ASSUME NEW w \in writes, ScrollGoesOn(w) PROVE WireTyped'
  <2> DEFINE q == Append(queue, [cmd |-> w.cmd, seq |-> w.seq])
  <2>1. q \in Seq(Queued)
    BY DEF TypeOK, BrokerTyped, Requested, Queued
  <2>2. inbox' \in Seq(Messages)
    <3>1. CASE Disconnect("1011")
      BY <3>1, DisconnectTyped DEF Closes
    <3>2. CASE IF inflight = 0 THEN SendNext(q) ELSE queue' = q /\ UNCHANGED <<inflight, timed, inbox>>
      <4> HIDE DEF q
      <4> QED BY <2>1, <3>2, SendNextTyped DEF TypeOK, WireTyped
    <3> QED BY <1>16, <3>1, <3>2 DEF ScrollGoesOn
  <2> HIDE DEF q
  <2> QED BY <1>16, <2>2 DEF WireTyped, TypeOK, ScrollGoesOn, sockets
<1>17. ASSUME NEW w \in writes, ScrollRefused(w) PROVE WireTyped'
  BY <1>17 DEF WireTyped, TypeOK, ScrollRefused, database, broker, wire, page, sockets
<1>18. ASSUME ScrollTimesOut PROVE WireTyped'
  <2>1. inbox' \in Seq(Messages)
    BY <1>18, SendNextTyped DEF ScrollTimesOut, TypeOK, BrokerTyped
  <2> QED BY <1>18, <2>1 DEF WireTyped, TypeOK, ScrollTimesOut, sockets
<1>19. ASSUME RefreshApplies PROVE WireTyped'
  BY <1>19 DEF WireTyped, TypeOK, RefreshApplies, operator, wire, page, sockets
<1>20. ASSUME NEW h \in shaking, Authenticate(h) PROVE WireTyped'
  <2>1. \A x \in shaking' : x.socket \in Nat
    <3> DEFINE new == [h EXCEPT !.found = IF Valid(h.token) THEN "device" ELSE "visitor"]
    <3>1. new.socket \in Nat
      BY DEF TypeOK, WireTyped
    <3>2. shaking' = (shaking \ {h}) \cup {new}
      BY <1>20 DEF Authenticate
    <3> HIDE DEF new
    <3> QED BY <3>1, <3>2 DEF TypeOK, WireTyped
  <2> QED BY <1>20, <2>1 DEF WireTyped, TypeOK, Authenticate
<1>21. ASSUME NEW h \in shaking, Register(h) PROVE WireTyped'
  <2>1. inbox' \in Seq(Messages)
    <3> DEFINE welcome == [kind |-> "welcome", cmd |-> 0, seq |-> 0, stream |-> opened]
               target == IF mem = 0 THEN <<>> ELSE <<[welcome EXCEPT !.kind = "navigate", !.cmd = mem]>>
    <3>1. welcome \in Messages /\ [welcome EXCEPT !.kind = "navigate", !.cmd = mem] \in Messages
      <4>1. opened \in Nat /\ mem \in Nat
        BY DEF TypeOK, WireTyped, BrokerTyped
      <4>2. welcome \in Messages
        BY <4>1 DEF Messages, MessageKinds
      <4>3. \A m \in Messages : [m EXCEPT !.kind = "navigate", !.cmd = mem] \in Messages
        BY <4>1 DEF Messages, MessageKinds
      <4> HIDE DEF welcome
      <4> QED BY <4>2, <4>3
    <3>2. target \in Seq(Messages) /\ <<welcome>> \in Seq(Messages)
      BY <3>1
    <3>3. <<welcome>> \o target \in Seq(Messages)
      <4> HIDE DEF welcome, target
      <4> QED BY <3>2
    <3>4. Sent(Message("4009", 0, 0)) \in Seq(Messages)
      BY MessageTyped, SentTyped DEF MessageKinds, Closes
    <3>5. inbox' = IF Awaited(h) THEN <<welcome>> \o target
                   ELSE IF conn # 0 THEN Sent(Message("4009", 0, 0)) ELSE inbox
      BY <1>21 DEF Register
    <3> HIDE DEF welcome, target
    <3> QED BY <3>3, <3>4, <3>5 DEF TypeOK, WireTyped
  <2> QED BY <1>21, <2>1 DEF WireTyped, TypeOK, Register, Links
<1>22. ASSUME NEW h \in shaking, WelcomeVisitor(h) PROVE WireTyped'
  BY <1>22 DEF WireTyped, TypeOK, WelcomeVisitor, Links
<1>23. ASSUME NEW s \in Sockets, Unregister(s) PROVE WireTyped'
  BY <1>23 DEF WireTyped, TypeOK, Unregister, FailPending, database, page
<1>24. ASSUME NEW a \in acks, AckWritten(a) PROVE WireTyped'
  <2>1. inbox' \in Seq(Messages)
    <3>1. CASE UNCHANGED inbox
      BY <3>1 DEF TypeOK, WireTyped
    <3>2. CASE SendNext(queue)
      BY <3>2, SendNextTyped DEF TypeOK, BrokerTyped
    <3> QED BY <1>24, <3>1, <3>2 DEF AckWritten
  <2>2. acks' \subseteq AckTypes
    BY <1>24, AcksKept DEF AckWritten
  <2> QED BY <1>24, <2>1, <2>2 DEF WireTyped, TypeOK, AckWritten, sockets
<1>25. ASSUME Connect PROVE WireTyped'
  <2>1. opened' \in 0..MaxSockets /\ link' \in Links
    BY <1>25, MaxSocketsNumber DEF WireTyped, TypeOK, Connect, Links
  <2>2. \A h \in shaking' : h.socket \in Nat
    <3>1. \A h \in shaking : h.socket \in Nat
      BY DEF WireTyped, TypeOK
    <3>2. PICK x \in {[socket |-> opened', token |-> cookie, found |-> "nothing"]} : shaking' = shaking \cup {x}
      BY <1>25 DEF Connect
    <3>3. x.socket \in Nat
      BY <2>1, <3>2, MaxSocketsNumber
    <3> QED BY <3>1, <3>2, <3>3
  <2> QED BY <1>25, <2>1, <2>2 DEF WireTyped, TypeOK, Connect
<1>26. ASSUME Receive PROVE WireTyped'
  <2>1. inbox # <<>> /\ inbox \in Seq(Messages) /\ Head(inbox) \in Messages /\ Tail(inbox) \in Seq(Messages)
    BY <1>26 DEF Receive, TypeOK, WireTyped
  <2>2. inbox' \in Seq(Messages)
    <3>1. Message("navigate", mem, 0) \in Messages
      BY MessageTyped DEF MessageKinds, TypeOK, BrokerTyped
    <3>2. (IF mem = 0 \/ ~Valid(cookie) THEN <<>> ELSE <<Message("navigate", mem, 0)>>) \in Seq(Messages)
      BY <3>1
    <3>3. \A s \in Seq(Messages) : Tail(inbox) \o s \in Seq(Messages)
      BY <2>1
    <3> QED BY <1>26, <2>1, <3>2, <3>3 DEF Receive
  <2>3. acks' \subseteq AckTypes
    <3>1. acks \subseteq AckTypes /\ Head(inbox).cmd \in Nat
      BY <2>1 DEF TypeOK, WireTyped, Messages
    <3>2. CASE UNCHANGED acks
      BY <3>1, <3>2
    <3>3. CASE BeginNavigation(Head(inbox).cmd)
      BY <3>1, <3>3, AcksKept, FireAndForgetTyped DEF BeginNavigation
    <3> QED BY <1>26, <3>2, <3>3 DEF Receive
  <2> QED BY <1>26, <2>2, <2>3 DEF WireTyped, TypeOK, Receive, sockets
<1>27. ASSUME Acknowledge PROVE WireTyped'
  <2>1. Ack("navigate", job.cmd, job.phase, TRUE) \in AckTypes
    BY <1>27, AckTyped DEF Acknowledge, TypeOK, PageTyped, Jobs
  <2> QED BY <1>27, <2>1 DEF WireTyped, TypeOK, Acknowledge, sockets
<1>28. ASSUME NEW a \in acks, Accepted(a) PROVE WireTyped'
  BY <1>28 DEF WireTyped, TypeOK, Accepted, database, broker, operator, sockets
<1>29. ASSUME Unanswered PROVE WireTyped'
  <2>1. FireAndForget(job.cmd, "failed") \subseteq AckTypes
    BY FireAndForgetTyped DEF TypeOK, PageTyped, Jobs
  <2>2. acks' \subseteq AckTypes
    BY <1>29, <2>1, AcksKept DEF Unanswered, GiveUpJob, TypeOK, WireTyped
  <2> QED BY <1>29, <2>2 DEF WireTyped, TypeOK, Unanswered, sockets
<1>30. ASSUME ApplyScroll PROVE WireTyped'
  BY <1>30 DEF WireTyped, TypeOK, ApplyScroll, database, broker, operator, wire, sockets
<1>31. ASSUME AcknowledgeScroll PROVE WireTyped'
  <2>1. chain # <<>> /\ chain \in Seq(Scrolls) /\ Head(chain) \in Scrolls
    BY <1>31 DEF AcknowledgeScroll, TypeOK, PageTyped
  <2>2. Ack("scroll", Head(chain).cmd, "applied", TRUE) \in AckTypes
    BY <2>1, AckTyped DEF Scrolls
  <2> QED BY <1>31, <2>2 DEF WireTyped, TypeOK, AcknowledgeScroll, sockets
<1>32. ASSUME ScrollAnswered PROVE WireTyped'
  BY <1>32 DEF WireTyped, TypeOK, ScrollAnswered, database, broker, operator, sockets
<1>33. ASSUME Closed PROVE WireTyped'
  <2>1. inbox' = <<>> /\ acks' = Forgotten /\ link' \in Links
    BY <1>33 DEF Closed, Offline, Links
  <2> QED BY <1>33, <2>1, AcksKept DEF WireTyped, TypeOK, Closed, sockets
<1> QED BY <1>1, <1>2, <1>3, <1>4, <1>5, <1>6, <1>7, <1>8, <1>9, <1>10, <1>11, <1>12, <1>13, <1>14, <1>15, <1>16, <1>17, <1>18, <1>19, <1>20, <1>21, <1>22, <1>23, <1>24, <1>25, <1>26, <1>27, <1>28, <1>29, <1>30, <1>31, <1>32, <1>33 DEF Next, Server, Page, Environment

LEMMA PageTypedStep ==
  ASSUME TypeOK, Addressed, Next
  PROVE  PageTyped'
<1>1. ASSUME Provision PROVE PageTyped'
  BY <1>1 DEF PageTyped, TypeOK, Provision, broker, operator, wire, page, sockets
<1>2. ASSUME Navigate PROVE PageTyped'
  BY <1>2 DEF PageTyped, TypeOK, Navigate, Targeted, broker, operator, wire, page, sockets
<1>3. ASSUME NEW d \in Directions, Scroll(d) PROVE PageTyped'
  BY <1>3 DEF PageTyped, TypeOK, Scroll, database, wire, page, sockets
<1>4. ASSUME NEW k \in {"rotate", "revoke", "delete"}, Administer(k) PROVE PageTyped'
  BY <1>4 DEF PageTyped, TypeOK, Administer, Disturb, Changed, broker, operator, wire, page, sockets
<1>5. ASSUME RefreshReads PROVE PageTyped'
  BY <1>5 DEF PageTyped, TypeOK, RefreshReads, Disturb, broker, operator, wire, page, sockets
<1>6. ASSUME Lose PROVE PageTyped'
  BY <1>6 DEF PageTyped, TypeOK, Lose, Disturb, database, broker, operator, sockets
<1>7. ASSUME Restart PROVE PageTyped'
  BY <1>7 DEF PageTyped, TypeOK, Restart, Disturb
<1>8. ASSUME Enroll PROVE PageTyped'
  BY <1>8 DEF PageTyped, TypeOK, Enroll, database, broker, operator, sockets
<1>9. ASSUME Reload PROVE PageTyped'
  <2>1. NoJob \in Jobs
    BY DEF NoJob, Jobs
  <2> QED BY <1>9, <2>1 DEF PageTyped, TypeOK, Reload
<1>10. ASSUME FailNavigation PROVE PageTyped'
  BY <1>10 DEF PageTyped, TypeOK, FailNavigation, GiveUpJob, NoJob, Jobs
<1>11. ASSUME NEW c \in timers, NavigationTimesOut(c) PROVE PageTyped'
  BY <1>11 DEF PageTyped, TypeOK, NavigationTimesOut, Disturb, database, operator, wire, page, sockets
<1>12. ASSUME NEW a \in acks, AckFails(a) PROVE PageTyped'
  BY <1>12 DEF PageTyped, TypeOK, AckFails, Disturb, database, broker, operator, sockets, page
<1>13. ASSUME NEW c \in commits, NavigateGoesOn(c) PROVE PageTyped'
  BY <1>13 DEF PageTyped, TypeOK, NavigateGoesOn, operator, sockets, page
<1>14. ASSUME NEW c \in commits, AdministerGoesOn(c) PROVE PageTyped'
  BY <1>14 DEF PageTyped, TypeOK, AdministerGoesOn, sockets, page
<1>15. ASSUME NEW w \in writes, ScrollRepeated(w) PROVE PageTyped'
  BY <1>15 DEF PageTyped, TypeOK, ScrollRepeated, database, broker, wire, page, sockets
<1>16. ASSUME NEW w \in writes, ScrollGoesOn(w) PROVE PageTyped'
  BY <1>16 DEF PageTyped, TypeOK, ScrollGoesOn, database, sockets, page
<1>17. ASSUME NEW w \in writes, ScrollRefused(w) PROVE PageTyped'
  BY <1>17 DEF PageTyped, TypeOK, ScrollRefused, database, broker, wire, page, sockets
<1>18. ASSUME ScrollTimesOut PROVE PageTyped'
  BY <1>18 DEF PageTyped, TypeOK, ScrollTimesOut, Disturb, database, operator, sockets, page
<1>19. ASSUME RefreshApplies PROVE PageTyped'
  BY <1>19 DEF PageTyped, TypeOK, RefreshApplies, operator, wire, page, sockets
<1>20. ASSUME NEW h \in shaking, Authenticate(h) PROVE PageTyped'
  BY <1>20 DEF PageTyped, TypeOK, Authenticate, database, broker, operator, page
<1>21. ASSUME NEW h \in shaking, Register(h) PROVE PageTyped'
  BY <1>21 DEF PageTyped, TypeOK, Register, Awaited, database, page
<1>22. ASSUME NEW h \in shaking, WelcomeVisitor(h) PROVE PageTyped'
  BY <1>22, CheckSessionTyped DEF PageTyped, TypeOK, WelcomeVisitor
<1>23. ASSUME NEW s \in Sockets, Unregister(s) PROVE PageTyped'
  BY <1>23 DEF PageTyped, TypeOK, Unregister, FailPending, database, page
<1>24. ASSUME NEW a \in acks, AckWritten(a) PROVE PageTyped'
  BY <1>24 DEF PageTyped, TypeOK, AckWritten, database, operator, sockets, page
<1>25. ASSUME Connect PROVE PageTyped'
  BY <1>25 DEF PageTyped, TypeOK, Connect, database, broker, operator, page
<1>26. ASSUME Receive PROVE PageTyped'
  <2>1. inbox # <<>> /\ inbox \in Seq(Messages) /\ Head(inbox) \in Messages
    BY <1>26 DEF Receive, TypeOK, WireTyped
  <2> DEFINE m == Head(inbox)
             new == [cmd |-> m.cmd, seq |-> m.seq, stream |-> m.stream, ready |-> FALSE, try |-> 1, sent |-> FALSE]
  <2>2. m.cmd \in Nat /\ m.seq \in Nat /\ (m.kind = "scroll" => m.stream \in Sockets)
    <3>1. m = inbox[1] /\ 1 \in DOMAIN inbox
      BY <2>1
    <3>2. m.kind = "scroll" => m.stream = opened /\ opened # 0
      BY <1>26, <3>1 DEF Addressed, Proper, Receive
    <3> QED BY <2>1, <3>2 DEF Messages, TypeOK, WireTyped, Sockets
  <2>3. chain' \in Seq(Scrolls)
    <3>1. CASE UNCHANGED chain
      BY <3>1 DEF TypeOK, PageTyped
    <3>2. CASE m.kind = "scroll" /\ chain' = Append(chain, new)
      <4>1. new \in Scrolls
        BY <2>2, <3>2 DEF Scrolls
      <4> HIDE DEF new
      <4> QED BY <3>2, <4>1 DEF TypeOK, PageTyped
    <3> QED BY <1>26, <3>1, <3>2 DEF Receive
  <2>4. job' \in Jobs
    <3>1. job \in Jobs
      BY DEF TypeOK, PageTyped
    <3>2. [cmd |-> m.cmd, phase |-> "received", try |-> 1, sent |-> FALSE] \in Jobs
      BY <2>2 DEF Jobs
    <3>3. job' = job \/ job' = [cmd |-> m.cmd, phase |-> "received", try |-> 1, sent |-> FALSE]
      BY <1>26 DEF Receive, BeginNavigation
    <3> QED BY <3>1, <3>2, <3>3
  <2> HIDE DEF m, new
  <2> QED BY <1>26, <2>3, <2>4 DEF PageTyped, TypeOK, Receive
<1>27. ASSUME Acknowledge PROVE PageTyped'
  BY <1>27 DEF PageTyped, TypeOK, Acknowledge, Jobs
<1>28. ASSUME NEW a \in acks, Accepted(a) PROVE PageTyped'
  <2>1. NoJob \in Jobs /\ job \in Jobs /\ job.cmd \in Nat /\ shown \in Nat
    BY DEF PageTyped, TypeOK, Jobs, NoJob
  <2>2. \A p \in {"loading", "loaded"} : [job EXCEPT !.phase = p, !.try = 1, !.sent = FALSE] \in Jobs
    BY <2>1 DEF Jobs
  <2>3. job' \in Jobs /\ shown' \in Nat
    BY <1>28, <2>1, <2>2 DEF Accepted
  <2> QED BY <1>28, <2>3 DEF PageTyped, TypeOK, Accepted
<1>29. ASSUME Unanswered PROVE PageTyped'
  <2>1. NoJob \in Jobs /\ job \in Jobs
    BY DEF PageTyped, TypeOK, Jobs, NoJob
  <2>2. [job EXCEPT !.try = 2, !.sent = FALSE] \in Jobs
    BY <2>1 DEF Jobs
  <2>3. job' \in Jobs
    BY <1>29, <2>1, <2>2 DEF Unanswered, GiveUpJob
  <2> QED BY <1>29, <2>3 DEF PageTyped, TypeOK, Unanswered
<1>30. ASSUME ApplyScroll PROVE PageTyped'
  <2>1. chain # <<>> /\ chain \in Seq(Scrolls) /\ Head(chain) \in Scrolls /\ Tail(chain) \in Seq(Scrolls)
    BY <1>30 DEF ApplyScroll, TypeOK, PageTyped
  <2>2. [Head(chain) EXCEPT !.ready = TRUE] \in Scrolls
    BY <2>1 DEF Scrolls
  <2>3. chain' \in Seq(Scrolls)
    BY <1>30, <2>1, <2>2 DEF ApplyScroll
  <2>4. high' \in [Sockets -> Nat]
    <3>1. high \in [Sockets -> Nat] /\ Head(chain).seq \in Nat
      BY <2>1 DEF TypeOK, PageTyped, Scrolls
    <3>2. [high EXCEPT ![Head(chain).stream] = Head(chain).seq] \in [Sockets -> Nat]
      BY <3>1
    <3> QED BY <1>30, <3>1, <3>2 DEF ApplyScroll
  <2>5. moved' \in Seq(Scrolls)
    <3>1. moved \in Seq(Scrolls)
      BY DEF TypeOK, PageTyped
    <3>2. Append(moved, Head(chain)) \in Seq(Scrolls)
      BY <2>1, <3>1
    <3> QED BY <1>30, <3>1, <3>2 DEF ApplyScroll
  <2> QED BY <1>30, <2>3, <2>4, <2>5 DEF PageTyped, TypeOK, ApplyScroll
<1>31. ASSUME AcknowledgeScroll PROVE PageTyped'
  <2>1. chain # <<>> /\ chain \in Seq(Scrolls) /\ Head(chain) \in Scrolls /\ Tail(chain) \in Seq(Scrolls)
    BY <1>31 DEF AcknowledgeScroll, TypeOK, PageTyped
  <2>2. [Head(chain) EXCEPT !.sent = TRUE] \in Scrolls
    BY <2>1 DEF Scrolls
  <2>3. chain' \in Seq(Scrolls)
    BY <1>31, <2>1, <2>2 DEF AcknowledgeScroll
  <2> QED BY <1>31, <2>3 DEF PageTyped, TypeOK, AcknowledgeScroll
<1>32. ASSUME ScrollAnswered PROVE PageTyped'
  <2>1. chain # <<>> /\ chain \in Seq(Scrolls) /\ Head(chain) \in Scrolls /\ Tail(chain) \in Seq(Scrolls)
    BY <1>32 DEF ScrollAnswered, TypeOK, PageTyped
  <2>2. [Head(chain) EXCEPT !.try = 2, !.sent = FALSE] \in Scrolls
    BY <2>1 DEF Scrolls
  <2>3. chain' \in Seq(Scrolls)
    BY <1>32, <2>1, <2>2 DEF ScrollAnswered
  <2> QED BY <1>32, <2>3 DEF PageTyped, TypeOK, ScrollAnswered
<1>33. ASSUME Closed PROVE PageTyped'
  <2>1. CASE CheckSession
    BY <1>33, <2>1, CheckSessionTyped DEF PageTyped, TypeOK, Closed
  <2>2. CASE UNCHANGED <<device, shown, job, high, applied, moved, disturbed>>
    BY <1>33, <2>2 DEF PageTyped, TypeOK, Closed
  <2> QED BY <1>33, <2>1, <2>2 DEF Closed
<1> QED BY <1>1, <1>2, <1>3, <1>4, <1>5, <1>6, <1>7, <1>8, <1>9, <1>10, <1>11, <1>12, <1>13, <1>14, <1>15, <1>16, <1>17, <1>18, <1>19, <1>20, <1>21, <1>22, <1>23, <1>24, <1>25, <1>26, <1>27, <1>28, <1>29, <1>30, <1>31, <1>32, <1>33 DEF Next, Server, Page, Environment

-----------------------------------------------------------------------------
(* What the server sends.                                                  *)
-----------------------------------------------------------------------------
\* A step of the server sends at most one message, and only on the registered connection
Sends(m) == inbox' = Sent(m) /\ (m.kind = "scroll" => m.stream = conn) /\ (m.kind = "navigate" => m.cmd # 0)
Posts == inbox' = inbox \/ \E m \in Messages : Sends(m)

LEMMA Joined ==
  ASSUME NEW S, NEW a \in S, NEW b \in S
  PROVE  /\ <<a>> \o <<>> = <<a>>
         /\ \A i \in DOMAIN (<<a>> \o <<b>>) : (<<a>> \o <<b>>)[i] \in {a, b}
<1>1. <<a>> \in Seq(S) /\ <<b>> \in Seq(S)
  OBVIOUS
<1>2. <<a>> \o <<>> = <<a>>
  BY <1>1
<1>3. Len(<<a>> \o <<b>>) = 2 /\ (<<a>> \o <<b>>)[1] = a /\ (<<a>> \o <<b>>)[2] = b
  BY <1>1
<1>4. DOMAIN (<<a>> \o <<b>>) = 1..Len(<<a>> \o <<b>>)
  BY <1>1
<1> QED BY <1>2, <1>3, <1>4

LEMMA SendNextPosts ==
  ASSUME TypeOK, NEW q \in Seq(Queued), SendNext(q)
  PROVE  Posts
<1>1. CASE q = <<>>
  BY <1>1 DEF SendNext, Posts
<1>2. CASE q # <<>>
  <2> DEFINE m == Message("scroll", Head(q).cmd, Head(q).seq)
  <2>1. Head(q).cmd \in Nat /\ Head(q).seq \in Nat
    <3>1. Head(q) \in Queued
      BY <1>2
    <3> QED BY <3>1 DEF Queued
  <2>2. m \in Messages
    BY <2>1, MessageTyped DEF MessageKinds
  <2>3. m.kind = "scroll" /\ m.stream = conn
    BY DEF Message
  <2>4. inbox' = Sent(m)
    BY <1>2 DEF SendNext
  <2> HIDE DEF m
  <2> QED BY <2>2, <2>3, <2>4 DEF Posts, Sends
<1> QED BY <1>1, <1>2

LEMMA DisconnectPosts ==
  ASSUME TypeOK, NEW code \in Closes, Disconnect(code)
  PROVE  /\ Posts
         /\ conn # 0 => Message(code, 0, 0) \in Messages /\ Message(code, 0, 0).kind \in Closes /\ inbox' = Sent(Message(code, 0, 0))
         /\ conn = 0 => UNCHANGED <<conn, inbox>>
<1>1. Message(code, 0, 0) \in Messages
  BY MessageTyped DEF MessageKinds
<1>2. Message(code, 0, 0).kind = code /\ code \notin {"scroll", "navigate"}
  BY DEF Message, Closes
<1>3. conn # 0 => inbox' = Sent(Message(code, 0, 0))
  BY DEF Disconnect
<1>4. conn = 0 => UNCHANGED <<conn, inbox>>
  BY DEF Disconnect
<1> QED BY <1>1, <1>2, <1>3, <1>4 DEF Posts, Sends

\* What is on its way stays, and what is added is for the page
LEMMA PostsKeep ==
  ASSUME TypeOK, Addressed, Posts, opened' = opened, link' = link
  PROVE  /\ link # "up" => inbox' = inbox
         /\ \A i \in DOMAIN inbox : i \in DOMAIN inbox' /\ inbox'[i] = inbox[i]
         /\ \A i \in DOMAIN inbox' : Proper(inbox'[i], opened)
<1>1. inbox \in Seq(Messages)
  BY DEF TypeOK, WireTyped
<1>3. CASE inbox' = inbox
  BY <1>3 DEF Addressed
<1>4. ASSUME NEW m \in Messages, Sends(m), inbox' # inbox
      PROVE  /\ link # "up" => inbox' = inbox
             /\ \A i \in DOMAIN inbox : i \in DOMAIN inbox' /\ inbox'[i] = inbox[i]
             /\ \A i \in DOMAIN inbox' : Proper(inbox'[i], opened)
  <2>1. inbox' = Append(inbox, m) /\ conn = opened /\ link = "up"
    BY <1>4 DEF Sends, Sent
  <2>2. Proper(m, opened)
    BY <1>4, <2>1 DEF Sends, Proper
  <2>3. Len(inbox') = Len(inbox) + 1 /\ \A i \in 1..Len(inbox) : inbox'[i] = inbox[i]
    BY <1>1, <2>1
  <2>4. inbox'[Len(inbox) + 1] = m /\ DOMAIN inbox' = 1..(Len(inbox) + 1) /\ DOMAIN inbox = 1..Len(inbox)
    BY <1>1, <2>1
  <2> QED BY <2>1, <2>2, <2>3, <2>4 DEF Addressed
<1> QED BY <1>3, <1>4 DEF Posts

\* The queue a confirmed scroll is put into
LEMMA ScrollPosts ==
  ASSUME TypeOK, NEW w \in writes, ScrollGoesOn(w)
  PROVE  Posts /\ (conn' = conn \/ Disconnect("1011"))
<1> DEFINE q == Append(queue, [cmd |-> w.cmd, seq |-> w.seq])
<1>1. q \in Seq(Queued)
  BY DEF TypeOK, BrokerTyped, Requested, Queued
<1>2. CASE Disconnect("1011")
  BY <1>2, DisconnectPosts DEF Closes
<1>3. CASE /\ IF inflight = 0 THEN SendNext(q) ELSE queue' = q /\ UNCHANGED <<inflight, timed, inbox>>
           /\ UNCHANGED <<conn, nextSeq, done, timers, handle, failed, button>>
  <2> HIDE DEF q
  <2>1. CASE SendNext(q)
    BY <1>1, <1>3, <2>1, SendNextPosts
  <2>2. CASE UNCHANGED inbox
    BY <1>3, <2>2 DEF Posts
  <2> QED BY <1>3, <2>1, <2>2
<1> QED BY <1>2, <1>3 DEF ScrollGoesOn

\* A close that is on its way stays on its way; after Disconnect one is
LEMMA StillClosing ==
  ASSUME TypeOK, Addressed, Posts, opened' = opened, link' = link, Closing
  PROVE  Closing'
BY PostsKeep DEF Closing

LEMMA DisconnectCloses ==
  ASSUME TypeOK, NEW code \in Closes, Disconnect(code), conn # 0, conn = opened, link = "up"
  PROVE  Closing'
<1> DEFINE m == Message(code, 0, 0)
<1>1. inbox' = Append(inbox, m) /\ m.kind \in Closes
  BY DisconnectPosts DEF Sent
<1>2. inbox \in Seq(Messages)
  BY DEF TypeOK, WireTyped
<1>3. Len(inbox) + 1 \in DOMAIN inbox' /\ inbox'[Len(inbox) + 1] = m
  BY <1>1, <1>2
<1> QED BY <1>1, <1>3 DEF Closing

LEMMA AddressedStep ==
  ASSUME TypeOK, Addressed, Next
  PROVE  Addressed'
<1>1. ASSUME Provision PROVE Addressed'
  BY <1>1 DEF Addressed, Proper, Provision, broker, operator, wire, page, sockets
<1>2. ASSUME Navigate PROVE Addressed'
  BY <1>2 DEF Addressed, Proper, Navigate, TypeOK, BrokerTyped, wire
<1>3. ASSUME NEW d \in Directions, Scroll(d) PROVE Addressed'
  BY <1>3 DEF Addressed, Proper, Scroll, database, wire, page, sockets
<1>4. ASSUME NEW k \in {"rotate", "revoke", "delete"}, Administer(k) PROVE Addressed'
  BY <1>4 DEF Addressed, Proper, Administer, Disturb, Changed, broker, operator, wire, page, sockets
<1>5. ASSUME RefreshReads PROVE Addressed'
  BY <1>5 DEF Addressed, Proper, RefreshReads, Disturb, broker, operator, wire, page, sockets
<1>6. ASSUME Lose PROVE Addressed'
  BY <1>6 DEF Addressed, Proper, Lose, Offline, database
<1>7. ASSUME Restart PROVE Addressed'
  BY <1>7 DEF Addressed, Proper, Restart, Disturb
<1>8. ASSUME Enroll PROVE Addressed'
  BY <1>8 DEF Addressed, Proper, Enroll, Offline, database
<1>9. ASSUME Reload PROVE Addressed'
  BY <1>9 DEF Addressed, Proper, Reload, Offline, database
<1>10. ASSUME FailNavigation PROVE Addressed'
  BY <1>10 DEF Addressed, Proper, FailNavigation, Disturb, database, broker, operator, sockets
<1>11. ASSUME NEW c \in timers, NavigationTimesOut(c) PROVE Addressed'
  BY <1>11 DEF Addressed, Proper, NavigationTimesOut, Disturb, database, operator, wire, page, sockets
<1>12. ASSUME NEW a \in acks, AckFails(a) PROVE Addressed'
  BY <1>12 DEF Addressed, Proper, AckFails, Disturb, database, broker, operator, sockets, page
<1>13. ASSUME NEW c \in commits, NavigateGoesOn(c) PROVE Addressed'
  <2>1. c.cmd # 0 /\ c.cmd \in Nat
    BY <1>13 DEF NavigateGoesOn, Addressed, TypeOK, DatabaseTyped, Committed
  <2>2. Message("navigate", c.cmd, 0) \in Messages /\ Message("navigate", c.cmd, 0).kind = "navigate"
        /\ Message("navigate", c.cmd, 0).cmd # 0
    BY <2>1, MessageTyped DEF MessageKinds, Message
  <2>3. Posts
    <3>1. CASE inbox' = inbox
      BY <3>1 DEF Posts
    <3>2. CASE inbox' = Sent(Message("navigate", c.cmd, 0))
      BY <2>2, <3>2 DEF Posts, Sends
    <3> QED BY <1>13, <3>1, <3>2 DEF NavigateGoesOn, SendNavigation
  <2> QED BY <1>13, <2>3, PostsKeep DEF Addressed, NavigateGoesOn, database, sockets
<1>14. ASSUME NEW c \in commits, AdministerGoesOn(c) PROVE Addressed'
  <2>3. Posts
    BY <1>14, DisconnectPosts DEF AdministerGoesOn, Closes
  <2> QED BY <1>14, <2>3, PostsKeep DEF Addressed, AdministerGoesOn, database, sockets
<1>15. ASSUME NEW w \in writes, ScrollRepeated(w) PROVE Addressed'
  BY <1>15 DEF Addressed, Proper, ScrollRepeated, database, broker, wire, page, sockets
<1>16. ASSUME NEW w \in writes, ScrollGoesOn(w) PROVE Addressed'
  <2>3. Posts
    BY <1>16, ScrollPosts
  <2> QED BY <1>16, <2>3, PostsKeep DEF Addressed, ScrollGoesOn, database, sockets
<1>17. ASSUME NEW w \in writes, ScrollRefused(w) PROVE Addressed'
  BY <1>17 DEF Addressed, Proper, ScrollRefused, database, broker, wire, page, sockets
<1>18. ASSUME ScrollTimesOut PROVE Addressed'
  <2>3. Posts
    BY <1>18, SendNextPosts DEF ScrollTimesOut, TypeOK, BrokerTyped
  <2> QED BY <1>18, <2>3, PostsKeep DEF Addressed, ScrollTimesOut, database, sockets
<1>19. ASSUME RefreshApplies PROVE Addressed'
  BY <1>19 DEF Addressed, Proper, RefreshApplies, operator, wire, page, sockets
<1>20. ASSUME NEW h \in shaking, Authenticate(h) PROVE Addressed'
  BY <1>20 DEF Addressed, Proper, Authenticate, database, broker, operator, page
<1>21. ASSUME NEW h \in shaking, Register(h) PROVE Addressed'
  <2>1. CASE Awaited(h)
    <3> DEFINE welcome == [kind |-> "welcome", cmd |-> 0, seq |-> 0, stream |-> opened]
               target == [welcome EXCEPT !.kind = "navigate", !.cmd = mem]
    <3>1. inbox' = <<welcome>> \o (IF mem = 0 THEN <<>> ELSE <<target>>)
      BY <1>21, <2>1 DEF Register
    <3>2. \A i \in DOMAIN inbox' : inbox'[i] = welcome \/ (mem # 0 /\ inbox'[i] = target)
      <4> HIDE DEF welcome, target
      <4>1. welcome \in {welcome, target} /\ target \in {welcome, target}
        OBVIOUS
      <4>2. CASE mem = 0
        BY <3>1, <4>1, <4>2, Joined
      <4>3. CASE mem # 0
        BY <3>1, <4>1, <4>3, Joined
      <4> QED BY <4>2, <4>3
    <3>3. Proper(welcome, opened) /\ (mem # 0 => Proper(target, opened))
      BY DEF Proper
    <3>4. \A i \in DOMAIN inbox' : Proper(inbox'[i], opened)
      <4> HIDE DEF welcome, target
      <4> QED BY <3>2, <3>3
    <3> QED BY <1>21, <2>1, <3>4 DEF Addressed, Register, Awaited, database
  <2>2. CASE ~Awaited(h)
    <3>1. Posts
      <4>1. Message("4009", 0, 0) \in Messages /\ Message("4009", 0, 0).kind \notin {"scroll", "navigate"}
        BY MessageTyped DEF MessageKinds, Closes, Message
      <4>2. inbox' = inbox \/ inbox' = Sent(Message("4009", 0, 0))
        BY <1>21, <2>2 DEF Register
      <4> QED BY <4>1, <4>2 DEF Posts, Sends
    <3> QED BY <1>21, <2>2, <3>1, PostsKeep DEF Addressed, Register, database
  <2> QED BY <2>1, <2>2
<1>22. ASSUME NEW h \in shaking, WelcomeVisitor(h) PROVE Addressed'
  BY <1>22 DEF Addressed, Proper, WelcomeVisitor, Awaited, database
<1>23. ASSUME NEW s \in Sockets, Unregister(s) PROVE Addressed'
  BY <1>23 DEF Addressed, Proper, Unregister, database, page
<1>24. ASSUME NEW a \in acks, AckWritten(a) PROVE Addressed'
  <2>3. Posts
    <3>1. CASE SendNext(queue)
      BY <3>1, SendNextPosts DEF TypeOK, BrokerTyped
    <3>2. CASE UNCHANGED inbox
      BY <3>2 DEF Posts
    <3> QED BY <1>24, <3>1, <3>2 DEF AckWritten
  <2> QED BY <1>24, <2>3, PostsKeep DEF Addressed, AckWritten, database, sockets
<1>25. ASSUME Connect PROVE Addressed'
  <2>1. opened \in Nat /\ opened' = opened + 1 /\ UNCHANGED <<inbox, commits>> /\ inbox = <<>>
    BY <1>25 DEF Connect, Addressed, database, TypeOK, WireTyped
  <2>2. opened' # 0
    BY <2>1
  <2> QED BY <2>1, <2>2 DEF Addressed
<1>26. ASSUME Receive PROVE Addressed'
  <2>1. inbox # <<>> /\ inbox \in Seq(Messages) /\ link = "up" /\ link' = link /\ opened' = opened /\ commits' = commits
    BY <1>26 DEF Receive, TypeOK, WireTyped, database
  <2> DEFINE m == Message("navigate", mem, 0)
  <2>2. inbox' = Tail(inbox) \/ (mem # 0 /\ inbox' = Append(Tail(inbox), m))
    <3>1. Tail(inbox) \o <<>> = Tail(inbox) /\ Tail(inbox) \o <<m>> = Append(Tail(inbox), m)
      BY <2>1
    <3>2. inbox' = Tail(inbox) \/ inbox' = Tail(inbox) \o (IF mem = 0 \/ ~Valid(cookie) THEN <<>> ELSE <<m>>)
      BY <1>26 DEF Receive
    <3> HIDE DEF m
    <3> QED BY <3>1, <3>2
  <2>3. \A i \in DOMAIN Tail(inbox) : Proper(Tail(inbox)[i], opened)
    <3>1. \A i \in DOMAIN Tail(inbox) : i + 1 \in DOMAIN inbox /\ Tail(inbox)[i] = inbox[i + 1]
      BY <2>1
    <3> QED BY <3>1 DEF Addressed
  <2>4. mem # 0 => Proper(m, opened)
    BY DEF Proper, Message
  <2>5. \A i \in DOMAIN inbox' : Proper(inbox'[i], opened)
    <3>1. Tail(inbox) \in Seq(Messages)
      BY <2>1
    <3>2. CASE inbox' = Tail(inbox)
      BY <2>3, <3>2
    <3>3. CASE mem # 0 /\ inbox' = Append(Tail(inbox), m)
      <4>1. \A i \in DOMAIN inbox' : (i \in DOMAIN Tail(inbox) /\ inbox'[i] = Tail(inbox)[i]) \/ inbox'[i] = m
        <5> HIDE DEF m
        <5> QED BY <3>1, <3>3
      <4> QED BY <2>3, <2>4, <3>3, <4>1
    <3> QED BY <2>2, <3>2, <3>3
  <2> QED BY <2>1, <2>5 DEF Addressed
<1>27. ASSUME Acknowledge PROVE Addressed'
  BY <1>27 DEF Addressed, Proper, Acknowledge, database, broker, operator, sockets
<1>28. ASSUME NEW a \in acks, Accepted(a) PROVE Addressed'
  BY <1>28 DEF Addressed, Proper, Accepted, database, broker, operator, sockets
<1>29. ASSUME Unanswered PROVE Addressed'
  BY <1>29 DEF Addressed, Proper, Unanswered, database, broker, operator, sockets
<1>30. ASSUME ApplyScroll PROVE Addressed'
  BY <1>30 DEF Addressed, Proper, ApplyScroll, database, broker, operator, wire, sockets
<1>31. ASSUME AcknowledgeScroll PROVE Addressed'
  BY <1>31 DEF Addressed, Proper, AcknowledgeScroll, database, operator, sockets
<1>32. ASSUME ScrollAnswered PROVE Addressed'
  BY <1>32 DEF Addressed, Proper, ScrollAnswered, database, broker, operator, sockets
<1>33. ASSUME Closed PROVE Addressed'
  BY <1>33 DEF Addressed, Proper, Closed, Offline, database
<1> QED BY <1>1, <1>2, <1>3, <1>4, <1>5, <1>6, <1>7, <1>8, <1>9, <1>10, <1>11, <1>12, <1>13, <1>14, <1>15, <1>16, <1>17, <1>18, <1>19, <1>20, <1>21, <1>22, <1>23, <1>24, <1>25, <1>26, <1>27, <1>28, <1>29, <1>30, <1>31, <1>32, <1>33 DEF Next, Server, Page, Environment

LEMMA PageRegisteredStep ==
  ASSUME TypeOK, Addressed, PageRegistered, Next
  PROVE  PageRegistered'
<1>1. ASSUME Provision PROVE PageRegistered'
  BY <1>1 DEF PageRegistered, Closing, Provision, broker, operator, wire, page, sockets
<1>2. ASSUME Navigate PROVE PageRegistered'
  BY <1>2 DEF PageRegistered, Closing, Navigate, Targeted, broker, operator, wire, page, sockets
<1>3. ASSUME NEW d \in Directions, Scroll(d) PROVE PageRegistered'
  BY <1>3 DEF PageRegistered, Closing, Scroll, database, wire, page, sockets
<1>4. ASSUME NEW k \in {"rotate", "revoke", "delete"}, Administer(k) PROVE PageRegistered'
  BY <1>4 DEF PageRegistered, Closing, Administer, Disturb, Changed, broker, operator, wire, page, sockets
<1>5. ASSUME RefreshReads PROVE PageRegistered'
  BY <1>5 DEF PageRegistered, Closing, RefreshReads, Disturb, broker, operator, wire, page, sockets
<1>6. ASSUME Lose PROVE PageRegistered'
  BY <1>6 DEF PageRegistered, Closing, Lose, Disturb, Offline, database, broker, operator, sockets
<1>7. ASSUME Restart PROVE PageRegistered'
  BY <1>7 DEF PageRegistered, Closing, Restart, Disturb
<1>8. ASSUME Enroll PROVE PageRegistered'
  BY <1>8 DEF PageRegistered, Closing, Enroll, Offline, database, broker, operator, sockets
<1>9. ASSUME Reload PROVE PageRegistered'
  BY <1>9 DEF PageRegistered, Closing, Reload, Disturb, Offline, database, broker, operator, sockets
<1>10. ASSUME FailNavigation PROVE PageRegistered'
  BY <1>10 DEF PageRegistered, Closing, FailNavigation, Disturb, database, broker, operator, sockets
<1>11. ASSUME NEW c \in timers, NavigationTimesOut(c) PROVE PageRegistered'
  BY <1>11 DEF PageRegistered, Closing, NavigationTimesOut, Disturb, database, operator, wire, page, sockets
<1>12. ASSUME NEW a \in acks, AckFails(a) PROVE PageRegistered'
  BY <1>12 DEF PageRegistered, Closing, AckFails, Disturb, database, broker, operator, sockets, page
<1>13. ASSUME NEW c \in commits, NavigateGoesOn(c) PROVE PageRegistered'
  <2>1. c.cmd # 0 /\ c.cmd \in Nat
    BY <1>13 DEF NavigateGoesOn, Addressed, TypeOK, DatabaseTyped, Committed
  <2>2. Message("navigate", c.cmd, 0) \in Messages /\ Message("navigate", c.cmd, 0).kind = "navigate"
        /\ Message("navigate", c.cmd, 0).cmd # 0
    BY <2>1, MessageTyped DEF MessageKinds, Message
  <2>3. Posts
    <3>1. CASE inbox' = inbox
      BY <3>1 DEF Posts
    <3>2. CASE inbox' = Sent(Message("navigate", c.cmd, 0))
      BY <2>2, <3>2 DEF Posts, Sends
    <3> QED BY <1>13, <3>1, <3>2 DEF NavigateGoesOn, SendNavigation
  <2> QED BY <1>13, <2>3, StillClosing DEF PageRegistered, NavigateGoesOn, sockets
<1>14. ASSUME NEW c \in commits, AdministerGoesOn(c) PROVE PageRegistered'
  <2>3. Posts
    BY <1>14, DisconnectPosts DEF AdministerGoesOn, Closes
  <2>4. UNCHANGED <<opened, link>>
    BY <1>14 DEF AdministerGoesOn
  <2>5. CASE Closing
    BY <2>3, <2>4, <2>5, StillClosing DEF PageRegistered
  <2>6. CASE ~Closing /\ link = "up"
    <3>1. conn = opened /\ conn # 0
      BY <2>6 DEF PageRegistered, Addressed
    <3> QED BY <1>14, <2>6, <3>1, DisconnectCloses DEF PageRegistered, AdministerGoesOn, Closes
  <2> QED BY <2>4, <2>5, <2>6 DEF PageRegistered
<1>15. ASSUME NEW w \in writes, ScrollRepeated(w) PROVE PageRegistered'
  BY <1>15 DEF PageRegistered, Closing, ScrollRepeated, database, broker, wire, page, sockets
<1>16. ASSUME NEW w \in writes, ScrollGoesOn(w) PROVE PageRegistered'
  <2>3. Posts /\ (conn' = conn \/ Disconnect("1011")) /\ UNCHANGED <<opened, link>>
    BY <1>16, ScrollPosts DEF ScrollGoesOn
  <2>5. CASE Closing
    BY <2>3, <2>5, StillClosing DEF PageRegistered
  <2>6. CASE ~Closing /\ link = "up"
    <3>1. conn = opened /\ conn # 0
      BY <2>6 DEF PageRegistered, Addressed
    <3> QED BY <2>3, <2>6, <3>1, DisconnectCloses DEF PageRegistered, Closes
  <2> QED BY <2>3, <2>5, <2>6 DEF PageRegistered
<1>17. ASSUME NEW w \in writes, ScrollRefused(w) PROVE PageRegistered'
  BY <1>17 DEF PageRegistered, Closing, ScrollRefused, database, broker, wire, page, sockets
<1>18. ASSUME ScrollTimesOut PROVE PageRegistered'
  <2>3. Posts
    BY <1>18, SendNextPosts DEF ScrollTimesOut, TypeOK, BrokerTyped
  <2> QED BY <1>18, <2>3, StillClosing DEF PageRegistered, ScrollTimesOut, sockets
<1>19. ASSUME RefreshApplies PROVE PageRegistered'
  BY <1>19 DEF PageRegistered, Closing, RefreshApplies, operator, wire, page, sockets
<1>20. ASSUME NEW h \in shaking, Authenticate(h) PROVE PageRegistered'
  BY <1>20 DEF PageRegistered, Closing, Authenticate, database, broker, operator, page
<1>21. ASSUME NEW h \in shaking, Register(h) PROVE PageRegistered'
  <2>1. CASE Awaited(h)
    BY <1>21, <2>1 DEF PageRegistered, Register, Awaited
  <2>2. CASE ~Awaited(h) /\ link = "up"
    <3> DEFINE m == Message("4009", 0, 0)
    <3>1. m \in Messages /\ m.kind = "4009"
      BY MessageTyped DEF MessageKinds, Closes, Message
    <3>2. UNCHANGED <<opened, link>> /\ inbox' = IF conn # 0 THEN Sent(m) ELSE inbox
      BY <1>21, <2>2 DEF Register
    <3>3. CASE Closing
      <4>1. Posts
        <5> HIDE DEF m
        <5> QED BY <3>1, <3>2 DEF Posts, Sends
      <4> QED BY <3>2, <3>3, <4>1, StillClosing DEF PageRegistered
    <3>4. CASE ~Closing
      <4>1. conn = opened /\ conn # 0 /\ inbox' = Append(inbox, m) /\ inbox \in Seq(Messages)
        BY <2>2, <3>2, <3>4 DEF PageRegistered, Addressed, Sent, TypeOK, WireTyped
      <4>2. Len(inbox) + 1 \in DOMAIN inbox' /\ inbox'[Len(inbox) + 1] = m
        <5> HIDE DEF m
        <5> QED BY <3>1, <4>1
      <4>3. Closing'
        BY <3>1, <4>2 DEF Closing, Closes
      <4> QED BY <4>3 DEF PageRegistered
    <3> QED BY <3>3, <3>4
  <2>3. CASE ~Awaited(h) /\ link # "up"
    BY <1>21, <2>3 DEF PageRegistered, Register
  <2> QED BY <2>1, <2>2, <2>3
<1>22. ASSUME NEW h \in shaking, WelcomeVisitor(h) PROVE PageRegistered'
  BY <1>22 DEF PageRegistered, Closing, WelcomeVisitor, Awaited, database, broker, operator
<1>23. ASSUME NEW s \in Sockets, Unregister(s) PROVE PageRegistered'
  BY <1>23 DEF PageRegistered, Closing, Unregister, database, page
<1>24. ASSUME NEW a \in acks, AckWritten(a) PROVE PageRegistered'
  <2>3. Posts
    <3>1. CASE SendNext(queue)
      BY <3>1, SendNextPosts DEF TypeOK, BrokerTyped
    <3>2. CASE UNCHANGED inbox
      BY <3>2 DEF Posts
    <3> QED BY <1>24, <3>1, <3>2 DEF AckWritten
  <2> QED BY <1>24, <2>3, StillClosing DEF PageRegistered, AckWritten, sockets
<1>25. ASSUME Connect PROVE PageRegistered'
  BY <1>25 DEF PageRegistered, Closing, Connect, database, broker, operator, page
<1>26. ASSUME Receive PROVE PageRegistered'
  <2>1. inbox # <<>> /\ inbox \in Seq(Messages) /\ UNCHANGED <<link, opened, conn>>
    BY <1>26 DEF Receive, TypeOK, WireTyped, broker
  <2>2. Head(inbox).kind \notin Closes
    BY <1>26 DEF Receive, Closes
  <2>3. \E s \in Seq(Messages) : inbox' = Tail(inbox) \o s
    <3>1. Message("navigate", mem, 0) \in Messages
      BY MessageTyped DEF MessageKinds, TypeOK, BrokerTyped
    <3>2. (IF mem = 0 \/ ~Valid(cookie) THEN <<>> ELSE <<Message("navigate", mem, 0)>>) \in Seq(Messages)
      BY <3>1
    <3>3. Tail(inbox) = Tail(inbox) \o <<>>
      BY <2>1
    <3>4. CASE inbox' = Tail(inbox)
      <4>1. <<>> \in Seq(Messages)
        OBVIOUS
      <4> QED BY <3>3, <3>4, <4>1
    <3>5. CASE inbox' = Tail(inbox) \o (IF mem = 0 \/ ~Valid(cookie) THEN <<>> ELSE <<Message("navigate", mem, 0)>>)
      BY <3>2, <3>5
    <3> QED BY <1>26, <3>4, <3>5 DEF Receive
  <2>4. ASSUME Closing PROVE Closing'
    <3>1. PICK i \in DOMAIN inbox : inbox[i].kind \in Closes
      BY <2>4 DEF Closing
    <3>2. i # 1
      BY <2>1, <2>2, <3>1
    <3>3. i - 1 \in DOMAIN Tail(inbox) /\ Tail(inbox)[i - 1] = inbox[i]
      BY <2>1, <3>2
    <3>4. PICK s \in Seq(Messages) : inbox' = Tail(inbox) \o s
      BY <2>3
    <3>5. Tail(inbox) \in Seq(Messages)
      BY <2>1
    <3>6. i - 1 \in DOMAIN inbox' /\ inbox'[i - 1] = Tail(inbox)[i - 1]
      BY <3>3, <3>4, <3>5
    <3> QED BY <3>1, <3>3, <3>6 DEF Closing
  <2> QED BY <2>1, <2>4 DEF PageRegistered
<1>27. ASSUME Acknowledge PROVE PageRegistered'
  BY <1>27 DEF PageRegistered, Closing, Acknowledge, database, broker, operator, sockets
<1>28. ASSUME NEW a \in acks, Accepted(a) PROVE PageRegistered'
  BY <1>28 DEF PageRegistered, Closing, Accepted, database, broker, operator, sockets
<1>29. ASSUME Unanswered PROVE PageRegistered'
  BY <1>29 DEF PageRegistered, Closing, Unanswered, database, broker, operator, sockets
<1>30. ASSUME ApplyScroll PROVE PageRegistered'
  BY <1>30 DEF PageRegistered, Closing, ApplyScroll, database, broker, operator, wire, sockets
<1>31. ASSUME AcknowledgeScroll PROVE PageRegistered'
  BY <1>31 DEF PageRegistered, Closing, AcknowledgeScroll, database, operator, sockets
<1>32. ASSUME ScrollAnswered PROVE PageRegistered'
  BY <1>32 DEF PageRegistered, Closing, ScrollAnswered, database, broker, operator, sockets
<1>33. ASSUME Closed PROVE PageRegistered'
  BY <1>33 DEF PageRegistered, Closing, Closed, Offline, database, broker, operator, sockets
<1> QED BY <1>1, <1>2, <1>3, <1>4, <1>5, <1>6, <1>7, <1>8, <1>9, <1>10, <1>11, <1>12, <1>13, <1>14, <1>15, <1>16, <1>17, <1>18, <1>19, <1>20, <1>21, <1>22, <1>23, <1>24, <1>25, <1>26, <1>27, <1>28, <1>29, <1>30, <1>31, <1>32, <1>33 DEF Next, Server, Page, Environment

-----------------------------------------------------------------------------
(* The order of the scrolls.                                               *)
-----------------------------------------------------------------------------
\* A step that moves nothing, forgets no number and begins no connection; the chain may become shorter
LEMMA StillOrdered ==
  ASSUME TypeOK, Ordered, UNCHANGED <<moved, high, opened>>,
         \A i \in DOMAIN chain' : \E j \in DOMAIN chain : chain'[i].stream = chain[j].stream,
         link' = "hello" => link = "hello",
         link' = "up" => link \in {"hello", "up"}
  PROVE  Ordered'
<1>1. ScrollsInOrder'
  BY DEF Ordered, ScrollsInOrder
<1>2. Streams'
  BY DEF Ordered, Streams
<1>3. \A s : Ended(s) => Ended(s)'
  BY DEF Ended
<1>4. Known'
  BY <1>3 DEF Ordered, Known
<1> QED BY <1>1, <1>2, <1>4 DEF Ordered

LEMMA StillOrderedChain ==
  ASSUME TypeOK, Ordered, UNCHANGED <<moved, high, opened, chain>>,
         link' = "hello" => link = "hello",
         link' = "up" => link \in {"hello", "up"}
  PROVE  Ordered'
BY StillOrdered

\* The first of the chain goes, or changes in other things than its connection
LEMMA ChainFrom ==
  ASSUME TypeOK, chain # <<>>, NEW s \in Scrolls, s.stream = Head(chain).stream,
         chain' = <<s>> \o Tail(chain) \/ chain' = Tail(chain)
  PROVE  \A i \in DOMAIN chain' : \E j \in DOMAIN chain : chain'[i].stream = chain[j].stream
<1>1. chain \in Seq(Scrolls) /\ Tail(chain) \in Seq(Scrolls) /\ Head(chain) = chain[1] /\ 1 \in DOMAIN chain
  BY DEF TypeOK, PageTyped
<1>2. \A i \in DOMAIN Tail(chain) : i + 1 \in DOMAIN chain /\ Tail(chain)[i] = chain[i + 1]
  BY <1>1
<1>3. CASE chain' = Tail(chain)
  BY <1>2, <1>3
<1>4. CASE chain' = <<s>> \o Tail(chain)
  <2>1. <<s>> \in Seq(Scrolls) /\ Len(<<s>>) = 1 /\ <<s>>[1] = s
    OBVIOUS
  <2>2. Len(chain') = 1 + Len(Tail(chain)) /\ DOMAIN chain' = 1..Len(chain') /\ chain'[1] = s
    BY <1>1, <1>4, <2>1
  <2>3. \A i \in DOMAIN chain' : i # 1 => i - 1 \in DOMAIN Tail(chain) /\ chain'[i] = Tail(chain)[i - 1]
    BY <1>1, <1>4, <2>1, <2>2
  <2>4. \A i \in DOMAIN chain' : i # 1 => i \in DOMAIN chain /\ chain'[i] = chain[i]
    <3> TAKE i \in DOMAIN chain'
    <3> HAVE i # 1
    <3>1. i - 1 \in DOMAIN Tail(chain) /\ chain'[i] = Tail(chain)[i - 1]
      BY <2>3
    <3>2. (i - 1) + 1 \in DOMAIN chain /\ Tail(chain)[i - 1] = chain[(i - 1) + 1]
      BY <1>2, <3>1
    <3>3. (i - 1) + 1 = i
      BY <2>2
    <3> QED BY <3>1, <3>2, <3>3
  <2> QED BY <1>1, <2>2, <2>4
<1> QED BY <1>3, <1>4

LEMMA OrderedStep ==
  ASSUME TypeOK, Addressed, Ordered, Next
  PROVE  Ordered'
<1>1. ASSUME Provision PROVE Ordered'
  BY <1>1, StillOrderedChain DEF Provision, broker, operator, wire, page, sockets
<1>2. ASSUME Navigate PROVE Ordered'
  BY <1>2, StillOrderedChain DEF Navigate, Targeted, broker, operator, wire, page, sockets
<1>3. ASSUME NEW d \in Directions, Scroll(d) PROVE Ordered'
  BY <1>3, StillOrderedChain DEF Scroll, database, wire, page, sockets
<1>4. ASSUME NEW k \in {"rotate", "revoke", "delete"}, Administer(k) PROVE Ordered'
  BY <1>4, StillOrderedChain DEF Administer, Disturb, Changed, broker, operator, wire, page, sockets
<1>5. ASSUME RefreshReads PROVE Ordered'
  BY <1>5, StillOrderedChain DEF RefreshReads, Disturb, broker, operator, wire, page, sockets
<1>6. ASSUME Lose PROVE Ordered'
  BY <1>6, StillOrderedChain DEF Lose, Offline
<1>7. ASSUME Restart PROVE Ordered'
  BY <1>7, StillOrderedChain DEF Restart
<1>8. ASSUME Enroll PROVE Ordered'
  BY <1>8, StillOrderedChain DEF Enroll, Offline
<1>9. ASSUME Reload PROVE Ordered'
  <2>1. chain' = <<>> /\ link' = "closed" /\ UNCHANGED <<moved, opened>>
    BY <1>9 DEF Reload, Offline
  <2>2. \A s : Ended(s)'
    BY <2>1 DEF Ended
  <2> QED BY <2>1, <2>2 DEF Ordered, Streams, Known, ScrollsInOrder
<1>10. ASSUME FailNavigation PROVE Ordered'
  BY <1>10, StillOrderedChain DEF FailNavigation, Disturb, database, broker, operator, sockets
<1>11. ASSUME NEW c \in timers, NavigationTimesOut(c) PROVE Ordered'
  BY <1>11, StillOrderedChain DEF NavigationTimesOut, Disturb, database, operator, wire, page, sockets
<1>12. ASSUME NEW a \in acks, AckFails(a) PROVE Ordered'
  BY <1>12, StillOrderedChain DEF AckFails, Disturb, database, broker, operator, sockets, page
<1>13. ASSUME NEW c \in commits, NavigateGoesOn(c) PROVE Ordered'
  BY <1>13, StillOrderedChain DEF NavigateGoesOn, operator, sockets, page
<1>14. ASSUME NEW c \in commits, AdministerGoesOn(c) PROVE Ordered'
  BY <1>14, StillOrderedChain DEF AdministerGoesOn, sockets, page
<1>15. ASSUME NEW w \in writes, ScrollRepeated(w) PROVE Ordered'
  BY <1>15, StillOrderedChain DEF ScrollRepeated, database, broker, wire, page, sockets
<1>16. ASSUME NEW w \in writes, ScrollGoesOn(w) PROVE Ordered'
  BY <1>16, StillOrderedChain DEF ScrollGoesOn, database, sockets, page
<1>17. ASSUME NEW w \in writes, ScrollRefused(w) PROVE Ordered'
  BY <1>17, StillOrderedChain DEF ScrollRefused, database, broker, wire, page, sockets
<1>18. ASSUME ScrollTimesOut PROVE Ordered'
  BY <1>18, StillOrderedChain DEF ScrollTimesOut, Disturb, database, operator, sockets, page
<1>19. ASSUME RefreshApplies PROVE Ordered'
  BY <1>19, StillOrderedChain DEF RefreshApplies, operator, wire, page, sockets
<1>20. ASSUME NEW h \in shaking, Authenticate(h) PROVE Ordered'
  BY <1>20, StillOrderedChain DEF Authenticate, database, broker, operator, page
<1>21. ASSUME NEW h \in shaking, Register(h) PROVE Ordered'
  BY <1>21, StillOrderedChain DEF Register, Awaited, page
<1>22. ASSUME NEW h \in shaking, WelcomeVisitor(h) PROVE Ordered'
  <2>1. link' # "hello" \/ link' = link
    BY <1>22 DEF WelcomeVisitor
  <2>2. link' # "up" \/ link' = link
    BY <1>22 DEF WelcomeVisitor
  <2>3. CASE UNCHANGED <<high, moved>>
    BY <1>22, <2>1, <2>2, <2>3, StillOrderedChain DEF WelcomeVisitor
  <2>4. CASE moved' = <<>>
    BY <1>22, <2>1, <2>4 DEF WelcomeVisitor, Ordered, Streams, Known, ScrollsInOrder
  <2> QED BY <1>22, <2>3, <2>4 DEF WelcomeVisitor, CheckSession
<1>23. ASSUME NEW s \in Sockets, Unregister(s) PROVE Ordered'
  BY <1>23, StillOrderedChain DEF Unregister, database, page
<1>24. ASSUME NEW a \in acks, AckWritten(a) PROVE Ordered'
  BY <1>24, StillOrderedChain DEF AckWritten, database, operator, sockets, page
<1>25. ASSUME Connect PROVE Ordered'
  <2>1. opened \in Nat /\ opened' = opened + 1 /\ link = "closed" /\ UNCHANGED <<chain, moved, high>>
    BY <1>25 DEF Connect, TypeOK, WireTyped, page
  <2>2. /\ \A i \in DOMAIN chain : chain[i].stream \in Nat /\ chain[i].stream <= opened
        /\ \A i \in DOMAIN moved : moved[i].stream \in Nat /\ moved[i].stream <= opened
    <3>1. \A i \in DOMAIN chain : chain[i] \in Scrolls
      BY DEF TypeOK, PageTyped
    <3>2. \A i \in DOMAIN moved : moved[i] \in Scrolls
      BY DEF TypeOK, PageTyped
    <3>3. \A x \in Scrolls : x.stream \in Nat
      BY DEF Scrolls, Sockets
    <3> QED BY <3>1, <3>2, <3>3 DEF Ordered, Streams
  <2>3. Streams'
    BY <2>1, <2>2 DEF Streams
  <2>4. \A i \in DOMAIN moved : Ended(moved[i].stream) => Ended(moved[i].stream)'
    BY <2>1, <2>2 DEF Ended
  <2> QED BY <2>1, <2>3, <2>4 DEF Ordered, Known, ScrollsInOrder
<1>26. ASSUME Receive PROVE Ordered'
  <2>1. inbox # <<>> /\ inbox \in Seq(Messages) /\ link = "up" /\ UNCHANGED <<link, opened, moved, high>>
    BY <1>26 DEF Receive, TypeOK, WireTyped
  <2>2. CASE UNCHANGED chain
    BY <2>1, <2>2, StillOrderedChain
  <2>3. CASE Head(inbox).kind = "scroll" /\ ~UNCHANGED chain
    <3>1. Head(inbox).stream = opened
      <4>1. Head(inbox) = inbox[1] /\ 1 \in DOMAIN inbox
        BY <2>1
      <4> QED BY <2>3, <4>1 DEF Addressed, Proper
    <3>2. PICK x : x.stream = opened /\ chain' = Append(chain, x)
      BY <1>26, <2>3, <3>1 DEF Receive
    <3>3. chain \in Seq(Scrolls)
      BY DEF TypeOK, PageTyped
    <3>4. \A i \in DOMAIN chain' : chain'[i] = x \/ (i \in DOMAIN chain /\ chain'[i] = chain[i])
      BY <3>2, <3>3
    <3>5. Streams'
      BY <2>1, <3>2, <3>4 DEF Ordered, Streams, TypeOK, WireTyped
    <3>6. \A s : Ended(s) => Ended(s)'
      BY <2>1, <3>2, <3>4 DEF Ended
    <3> QED BY <2>1, <3>5, <3>6 DEF Ordered, Known, ScrollsInOrder
  <2> QED BY <1>26, <2>2, <2>3 DEF Receive
<1>27. ASSUME Acknowledge PROVE Ordered'
  BY <1>27, StillOrderedChain DEF Acknowledge, database, broker, operator, sockets
<1>28. ASSUME NEW a \in acks, Accepted(a) PROVE Ordered'
  BY <1>28, StillOrderedChain DEF Accepted, database, broker, operator, sockets
<1>29. ASSUME Unanswered PROVE Ordered'
  BY <1>29, StillOrderedChain DEF Unanswered, database, broker, operator, sockets
<1>30. ASSUME ApplyScroll PROVE Ordered'
  <2>1. chain # <<>> /\ chain \in Seq(Scrolls) /\ Head(chain) \in Scrolls /\ Tail(chain) \in Seq(Scrolls)
    BY <1>30 DEF ApplyScroll, TypeOK, PageTyped
  <2> DEFINE s == Head(chain)
             ready == [s EXCEPT !.ready = TRUE]
  <2>2. ready \in Scrolls /\ ready.stream = s.stream
    BY <2>1 DEF Scrolls
  <2>3. chain' = <<ready>> \o Tail(chain) /\ UNCHANGED <<link, opened>>
    BY <1>30 DEF ApplyScroll, wire
  <2>4. \A i \in DOMAIN chain' : \E j \in DOMAIN chain : chain'[i].stream = chain[j].stream
    <3> HIDE DEF s, ready
    <3>1. s.stream = Head(chain).stream
      BY DEF s
    <3> QED BY <2>1, <2>2, <2>3, <3>1, ChainFrom
  <2>5. CASE UNCHANGED <<high, moved>>
    BY <2>3, <2>4, <2>5, StillOrdered
  <2>6. CASE /\ ~(s.cmd \in applied \/ s.seq <= high[s.stream])
             /\ high' = [high EXCEPT ![s.stream] = s.seq]
             /\ moved' = moved \/ moved' = Append(moved, s)
    <3>1. s.stream \in Sockets /\ s.seq \in Nat /\ high \in [Sockets -> Nat] /\ moved \in Seq(Scrolls)
      BY <2>1 DEF TypeOK, PageTyped, Scrolls
    <3>2. s.seq > high[s.stream] /\ high[s.stream] \in Nat /\ high'[s.stream] = s.seq
          /\ \A x \in Sockets : x # s.stream => high'[x] = high[x]
      BY <2>6, <3>1
    <3>3. ~Ended(s.stream) /\ s.stream <= opened /\ (link = "hello" => s.stream < opened)
      <4>1. s = chain[1] /\ 1 \in DOMAIN chain
        BY <2>1
      <4> QED BY <4>1 DEF Ended, Ordered, Streams
    <3>4. \A x : Ended(x) => Ended(x)'
      BY <2>3, <2>4 DEF Ended
    <3>5. \A i \in DOMAIN moved : moved[i].stream \in Sockets /\ moved[i].seq \in Nat
      <4>1. \A x \in Scrolls : x.stream \in Sockets /\ x.seq \in Nat
        BY DEF Scrolls
      <4>2. \A i \in DOMAIN moved : moved[i] \in Scrolls
        BY <3>1
      <4> QED BY <4>1, <4>2
    <3>6. ASSUME NEW i \in DOMAIN moved, NEW x \in Sockets, x = moved[i].stream
          PROVE  /\ x = s.stream => moved[i].seq < s.seq
                 /\ moved[i].seq <= high'[x] \/ Ended(x)'
      <4>1. CASE x = s.stream
        <5>1. moved[i].seq <= high[s.stream]
          BY <3>3, <3>6, <4>1 DEF Ordered, Known
        <5>2. moved[i].seq < s.seq
          BY <3>1, <3>2, <3>5, <5>1
        <5> QED BY <3>1, <3>2, <3>5, <4>1, <5>2
      <4>2. CASE x # s.stream
        <5>1. high'[x] = high[x]
          BY <3>2, <4>2
        <5> QED BY <3>4, <3>6, <4>2, <5>1 DEF Ordered, Known
      <4> QED BY <4>1, <4>2
    <3>7. \A i \in DOMAIN moved' : (i \in DOMAIN moved /\ moved'[i] = moved[i])
                                   \/ (i = Len(moved) + 1 /\ moved'[i] = s)
      <4> HIDE DEF s
      <4> QED BY <2>6, <3>1
    <3>8. DOMAIN moved = 1..Len(moved) /\ Len(moved) \in Nat
      BY <3>1
    <3>9. ScrollsInOrder'
      <4> SUFFICES ASSUME NEW i \in DOMAIN moved', NEW j \in DOMAIN moved', i < j, moved'[i].stream = moved'[j].stream
                   PROVE  moved'[i].seq < moved'[j].seq
        BY DEF ScrollsInOrder
      <4>1. i \in DOMAIN moved /\ moved'[i] = moved[i]
        <5> HIDE DEF s
        <5> QED BY <3>7, <3>8
      <4>2. CASE j \in DOMAIN moved /\ moved'[j] = moved[j]
        BY <4>1, <4>2 DEF Ordered, ScrollsInOrder
      <4>3. CASE moved'[j] = s
        BY <3>5, <3>6, <4>1, <4>3
      <4> QED BY <3>7, <4>2, <4>3
    <3>10. Known'
      <4>1. ASSUME NEW i \in DOMAIN moved', NEW x, x = moved'[i].stream
            PROVE  moved'[i].seq <= high'[x] \/ Ended(x)'
        <5>1. CASE i \in DOMAIN moved /\ moved'[i] = moved[i]
          BY <3>5, <3>6, <4>1, <5>1
        <5>2. CASE moved'[i] = s
          BY <3>1, <3>2, <4>1, <5>2
        <5> QED BY <3>7, <5>1, <5>2
      <4> QED BY <4>1 DEF Known
    <3>11. Streams'
      <4>1. /\ \A i \in DOMAIN chain' : chain'[i].stream <= opened
            /\ link = "hello" => \A i \in DOMAIN chain' : chain'[i].stream < opened
        <5> HIDE DEF s, ready
        <5> QED BY <2>4 DEF Ordered, Streams
      <4>2. \A i \in DOMAIN moved' : moved'[i].stream <= opened /\ (link = "hello" => moved'[i].stream < opened)
        <5> HIDE DEF s, ready
        <5> QED BY <3>3, <3>7 DEF Ordered, Streams
      <4> QED BY <2>3, <4>1, <4>2 DEF Streams
    <3> QED BY <3>9, <3>10, <3>11 DEF Ordered
  <2> QED BY <1>30, <2>5, <2>6 DEF ApplyScroll
<1>31. ASSUME AcknowledgeScroll PROVE Ordered'
  <2>1. chain # <<>> /\ chain \in Seq(Scrolls) /\ Head(chain) \in Scrolls /\ Tail(chain) \in Seq(Scrolls)
    BY <1>31 DEF AcknowledgeScroll, TypeOK, PageTyped
  <2>2. [Head(chain) EXCEPT !.sent = TRUE] \in Scrolls /\ [Head(chain) EXCEPT !.sent = TRUE].stream = Head(chain).stream
    BY <2>1 DEF Scrolls
  <2>3. chain' = <<[Head(chain) EXCEPT !.sent = TRUE]>> \o Tail(chain) /\ UNCHANGED <<link, opened, moved, high>>
    BY <1>31 DEF AcknowledgeScroll
  <2> QED BY <2>1, <2>2, <2>3, ChainFrom, StillOrdered
<1>32. ASSUME ScrollAnswered PROVE Ordered'
  <2>1. chain # <<>> /\ chain \in Seq(Scrolls) /\ Head(chain) \in Scrolls /\ Tail(chain) \in Seq(Scrolls)
    BY <1>32 DEF ScrollAnswered, TypeOK, PageTyped
  <2> DEFINE again == [Head(chain) EXCEPT !.try = 2, !.sent = FALSE]
  <2>2. again \in Scrolls /\ again.stream = Head(chain).stream
    BY <2>1 DEF Scrolls
  <2>3. (chain' = <<again>> \o Tail(chain) \/ chain' = Tail(chain)) /\ UNCHANGED <<link, opened, moved, high>>
    BY <1>32 DEF ScrollAnswered
  <2> HIDE DEF again
  <2> QED BY <2>1, <2>2, <2>3, ChainFrom, StillOrdered
<1>33. ASSUME Closed PROVE Ordered'
  <2>1. link' \in {"stopped", "closed"} /\ UNCHANGED <<chain, opened>>
    BY <1>33 DEF Closed, Offline
  <2>3. CASE UNCHANGED <<high, moved>>
    BY <2>1, <2>3, StillOrderedChain
  <2>4. CASE moved' = <<>>
    BY <2>1, <2>4 DEF Ordered, Streams, Known, ScrollsInOrder
  <2> QED BY <1>33, <2>3, <2>4 DEF Closed, CheckSession
<1> QED BY <1>1, <1>2, <1>3, <1>4, <1>5, <1>6, <1>7, <1>8, <1>9, <1>10, <1>11, <1>12, <1>13, <1>14, <1>15, <1>16, <1>17, <1>18, <1>19, <1>20, <1>21, <1>22, <1>23, <1>24, <1>25, <1>26, <1>27, <1>28, <1>29, <1>30, <1>31, <1>32, <1>33 DEF Next, Server, Page, Environment

-----------------------------------------------------------------------------
(* The page's navigation and the answers it waits for.                     *)
-----------------------------------------------------------------------------
Numbered == (job.phase # "none" => job.cmd # 0) /\ (job.phase = "none" => ~job.sent)

\* The page goes on waiting for what it waited for, at most
LEMMA StillLoading ==
  ASSUME Loading, UNCHANGED <<job, link>>, confirmed \subseteq confirmed',
         \A a \in acks' : Awaits(a) => a \in acks
  PROVE  Loading'
<1>1. \A a : Awaits(a)' <=> Awaits(a)
  BY DEF Awaits
<1> QED BY <1>1 DEF Loading

LEMMA NothingAwaited ==
  ASSUME Numbered', \A a \in acks' : ~Awaits(a)
  PROVE  Loading'
<1>1. \A a : Awaits(a)' <=> Awaits(a)
  BY DEF Awaits
<1> QED BY <1>1 DEF Loading, Numbered

\* Nothing is awaited on any other link
LEMMA NotUp ==
  ASSUME Loading, link # "up"
  PROVE  \A a \in acks : ~Awaits(a)
BY DEF Loading

LEMMA NotAwaited ==
  ASSUME TypeOK
  PROVE  /\ \A a \in Forgotten : ~Awaits(a)
         /\ \A a \in Ignored("navigate") : ~Awaits(a)
         /\ \A c, st : \A a \in FireAndForget(c, st) : ~Awaits(a)
         /\ \A a \in acks \ Waiting("navigate") : ~Awaits(a)
<1>1. \A a \in AckTypes : [a EXCEPT !.waited = FALSE].waited = FALSE
  BY DEF AckTypes
<1>2. acks \subseteq AckTypes
  BY DEF TypeOK, WireTyped
<1>3. \A a \in Forgotten : ~Awaits(a)
  BY <1>1, <1>2 DEF Forgotten, Awaits
<1>4. \A a \in Ignored("navigate") : ~Awaits(a)
  BY <1>1, <1>2 DEF Ignored, Awaits
<1>5. \A c, st : \A a \in FireAndForget(c, st) : ~Awaits(a)
  BY DEF FireAndForget, Ack, Awaits
<1>6. \A a \in acks \ Waiting("navigate") : ~Awaits(a)
  BY DEF Waiting, Awaits
<1> QED BY <1>3, <1>4, <1>5, <1>6

\* The answer of the server to one acknowledgement
LEMMA StillLoadingAnswered ==
  ASSUME TypeOK, Loading, UNCHANGED <<job, link>>, confirmed \subseteq confirmed',
         NEW a \in acks, NEW at \in {"ok", "refused"}, acks' = Answer(a, at),
         Awaits(a) /\ at = "ok" /\ a.st = "loaded" => a.cmd \in confirmed'
  PROVE  Loading'
<1> DEFINE b == [a EXCEPT !.at = at]
<1>1. /\ b.kind = a.kind /\ b.waited = a.waited /\ b.cmd = a.cmd /\ b.st = a.st /\ b.at = at
  <2>1. a \in AckTypes
    BY DEF TypeOK, WireTyped
  <2> QED BY <2>1 DEF AckTypes
<1>2. \A x : Awaits(x)' <=> Awaits(x)
  BY DEF Awaits
<1>3. \A x \in acks' : (x \in acks /\ x # a) \/ x = b
  BY DEF Answer
<1>4. Awaits(b) <=> Awaits(a)
  BY <1>1 DEF Awaits
<1> HIDE DEF b
<1>5. ASSUME NEW x \in acks', Awaits(x)
      PROVE  /\ link' = "up" /\ job'.sent /\ x.cmd = job'.cmd /\ x.st = job'.phase
             /\ x.at = "ok" /\ x.st = "loaded" => x.cmd \in confirmed'
  <2>1. CASE x \in acks /\ x # a
    BY <1>5, <2>1 DEF Loading
  <2>2. CASE x = b
    BY <1>1, <1>4, <1>5, <2>2 DEF Loading
  <2> QED BY <1>3, <2>1, <2>2
<1>6. ASSUME NEW x \in acks', NEW y \in acks', Awaits(x), Awaits(y)
      PROVE  x = y
  <2>1. CASE x = b \/ y = b
    BY <1>3, <1>4, <1>6, <2>1 DEF Loading
  <2>2. CASE x # b /\ y # b
    BY <1>3, <1>6, <2>2 DEF Loading
  <2> QED BY <2>1, <2>2
<1> QED BY <1>2, <1>5, <1>6 DEF Loading

LEMMA LoadingStep ==
  ASSUME TypeOK, Addressed, Loading, Next
  PROVE  Loading'
<1>1. ASSUME Provision PROVE Loading'
  BY <1>1, StillLoading DEF Provision, broker, operator, wire, page, sockets
<1>2. ASSUME Navigate PROVE Loading'
  BY <1>2, StillLoading DEF Navigate, Targeted, broker, operator, wire, page, sockets
<1>3. ASSUME NEW d \in Directions, Scroll(d) PROVE Loading'
  BY <1>3, StillLoading DEF Scroll, database, wire, page, sockets
<1>4. ASSUME NEW k \in {"rotate", "revoke", "delete"}, Administer(k) PROVE Loading'
  BY <1>4, StillLoading DEF Administer, Disturb, Changed, broker, operator, wire, page, sockets
<1>5. ASSUME RefreshReads PROVE Loading'
  BY <1>5, StillLoading DEF RefreshReads, Disturb, broker, operator, wire, page, sockets
<1>6. ASSUME Lose PROVE Loading'
  BY <1>6, NothingAwaited, NotAwaited DEF Lose, Offline, Loading, Numbered
<1>7. ASSUME Restart PROVE Loading'
  BY <1>7, NothingAwaited DEF Restart, Loading, Numbered
<1>8. ASSUME Enroll PROVE Loading'
  BY <1>8, NothingAwaited, NotAwaited DEF Enroll, Offline, Loading, Numbered
<1>9. ASSUME Reload PROVE Loading'
  BY <1>9, NothingAwaited, NotAwaited DEF Reload, Offline, Numbered, NoJob
<1>10. ASSUME FailNavigation PROVE Loading'
  <2>1. \A a \in acks' : ~Awaits(a)
    BY <1>10, NotAwaited DEF FailNavigation, GiveUpJob
  <2> QED BY <1>10, <2>1, NothingAwaited DEF FailNavigation, GiveUpJob, Numbered, NoJob
<1>11. ASSUME NEW c \in timers, NavigationTimesOut(c) PROVE Loading'
  BY <1>11, StillLoading DEF NavigationTimesOut, Disturb, database, operator, wire, page, sockets
<1>12. ASSUME NEW a \in acks, AckFails(a) PROVE Loading'
  BY <1>12, StillLoadingAnswered DEF AckFails, page
<1>13. ASSUME NEW c \in commits, NavigateGoesOn(c) PROVE Loading'
  BY <1>13, StillLoading DEF NavigateGoesOn, operator, sockets, page
<1>14. ASSUME NEW c \in commits, AdministerGoesOn(c) PROVE Loading'
  BY <1>14, StillLoading DEF AdministerGoesOn, sockets, page
<1>15. ASSUME NEW w \in writes, ScrollRepeated(w) PROVE Loading'
  BY <1>15, StillLoading DEF ScrollRepeated, database, broker, wire, page, sockets
<1>16. ASSUME NEW w \in writes, ScrollGoesOn(w) PROVE Loading'
  BY <1>16, StillLoading DEF ScrollGoesOn, database, sockets, page
<1>17. ASSUME NEW w \in writes, ScrollRefused(w) PROVE Loading'
  BY <1>17, StillLoading DEF ScrollRefused, database, broker, wire, page, sockets
<1>18. ASSUME ScrollTimesOut PROVE Loading'
  BY <1>18, StillLoading DEF ScrollTimesOut, Disturb, database, operator, sockets, page
<1>19. ASSUME RefreshApplies PROVE Loading'
  BY <1>19, StillLoading DEF RefreshApplies, operator, wire, page, sockets
<1>20. ASSUME NEW h \in shaking, Authenticate(h) PROVE Loading'
  BY <1>20, StillLoading DEF Authenticate, database, broker, operator, page
<1>21. ASSUME NEW h \in shaking, Register(h) PROVE Loading'
  <2>1. CASE link = "up"
    BY <1>21, <2>1, StillLoading DEF Register, Awaited, page
  <2>2. CASE link # "up"
    BY <1>21, <2>2, NotUp, NothingAwaited DEF Register, page, Loading, Numbered
  <2> QED BY <2>1, <2>2
<1>22. ASSUME NEW h \in shaking, WelcomeVisitor(h) PROVE Loading'
  <2>1. CASE Awaited(h)
    <3>1. Numbered'
      BY <1>22 DEF WelcomeVisitor, CheckSession, NoJob, Loading, Numbered
    <3>2. acks' = acks /\ link # "up"
      BY <1>22, <2>1 DEF WelcomeVisitor, Awaited
    <3> QED BY <3>1, <3>2, NotUp, NothingAwaited
  <2>2. CASE ~Awaited(h)
    BY <1>22, <2>2, StillLoading DEF WelcomeVisitor
  <2> QED BY <2>1, <2>2
<1>23. ASSUME NEW s \in Sockets, Unregister(s) PROVE Loading'
  BY <1>23, StillLoading DEF Unregister, database, page
<1>24. ASSUME NEW a \in acks, AckWritten(a) PROVE Loading'
  <2>1. a \in AckTypes
    BY DEF TypeOK, WireTyped
  <2>2. acks' = Answer(a, "ok") /\ UNCHANGED <<job, link>>
    BY <1>24 DEF AckWritten, page
  <2>3. confirmed \subseteq confirmed'
    BY <1>24 DEF AckWritten
  <2>4. Awaits(a) /\ a.st = "loaded" => a.cmd \in confirmed'
    BY <1>24 DEF AckWritten, Awaits
  <2> QED BY <2>2, <2>3, <2>4, StillLoadingAnswered
<1>25. ASSUME Connect PROVE Loading'
  <2>1. link # "up" /\ acks' = acks /\ job' = job
    BY <1>25 DEF Connect, page
  <2> QED BY <2>1, NotUp, NothingAwaited DEF Loading, Numbered
<1>26. ASSUME Receive PROVE Loading'
  <2> DEFINE m == Head(inbox)
  <2>1. UNCHANGED <<link, confirmed>>
    BY <1>26 DEF Receive
  <2>2. CASE UNCHANGED <<acks, job>>
    BY <2>1, <2>2, StillLoading
  <2>3. CASE m.kind = "navigate" /\ BeginNavigation(m.cmd)
    <3>1. m.cmd # 0
      <4>1. inbox \in Seq(Messages) /\ inbox # <<>>
        BY <1>26 DEF Receive, TypeOK, WireTyped
      <4>2. m = inbox[1] /\ 1 \in DOMAIN inbox
        BY <4>1
      <4> QED BY <2>3, <4>2 DEF Addressed, Proper
    <3>2. CASE job' = job /\ \E c, st : acks' = acks \cup FireAndForget(c, st)
      BY <2>1, <3>2, NotAwaited, StillLoading
    <3>3. CASE acks' = Ignored("navigate") /\ job' = [cmd |-> m.cmd, phase |-> "received", try |-> 1, sent |-> FALSE]
      <4>1. Numbered'
        BY <3>1, <3>3 DEF Numbered
      <4> QED BY <3>3, <4>1, NotAwaited, NothingAwaited
    <3> HIDE DEF m
    <3> QED BY <2>3, <3>2, <3>3 DEF BeginNavigation
  <2> QED BY <1>26, <2>2, <2>3 DEF Receive
<1>27. ASSUME Acknowledge PROVE Loading'
  <2> DEFINE new == Ack("navigate", job.cmd, job.phase, TRUE)
  <2>1. /\ job.phase \in {"received", "loading", "loaded"} /\ ~job.sent /\ link = "up" /\ job \in Jobs
        /\ job' = [job EXCEPT !.sent = TRUE] /\ acks' = acks \cup {new} /\ UNCHANGED <<link, confirmed>>
    BY <1>27 DEF Acknowledge, Connected, TypeOK, PageTyped
  <2>2. job'.sent = TRUE /\ job'.cmd = job.cmd /\ job'.phase = job.phase
    BY <2>1 DEF Jobs
  <2>3. \A x \in acks : ~Awaits(x)
    BY <2>1 DEF Loading
  <2>4. new.kind = "navigate" /\ new.cmd = job.cmd /\ new.st = job.phase /\ new.at # "ok"
    BY DEF Ack, Arrives
  <2>5. \A x : Awaits(x)' <=> Awaits(x)
    BY DEF Awaits
  <2> HIDE DEF new
  <2>6. \A x \in acks' : Awaits(x) => x = new
    BY <2>1, <2>3
  <2> QED BY <2>1, <2>2, <2>4, <2>5, <2>6 DEF Loading
<1>28. ASSUME NEW a \in acks, Accepted(a) PROVE Loading'
  <2>1. Awaits(a) /\ acks' = acks \ {a}
    BY <1>28 DEF Accepted, Waiting, Awaits
  <2>2. \A x \in acks' : ~Awaits(x)
    BY <2>1 DEF Loading
  <2>3. Numbered'
    <3>1. job \in Jobs
      BY DEF TypeOK, PageTyped
    <3>2. job.phase # "none"
      BY <2>1 DEF Loading
    <3>3. CASE job' = NoJob
      BY <3>3 DEF Numbered, NoJob
    <3>4. CASE job' = [job EXCEPT !.phase = IF @ = "received" THEN "loading" ELSE "loaded", !.try = 1, !.sent = FALSE]
      BY <3>1, <3>2, <3>4 DEF Numbered, Loading, Jobs
    <3> QED BY <1>28, <3>3, <3>4 DEF Accepted
  <2> QED BY <2>2, <2>3, NothingAwaited
<1>29. ASSUME Unanswered PROVE Loading'
  <2>1. \A a \in acks' : ~Awaits(a)
    BY <1>29, NotAwaited DEF Unanswered, GiveUpJob
  <2>2. Numbered'
    <3>1. job \in Jobs
      BY DEF TypeOK, PageTyped
    <3>2. CASE job' = NoJob
      BY <3>2 DEF Numbered, NoJob
    <3>3. CASE job' = [job EXCEPT !.try = 2, !.sent = FALSE]
      BY <1>29, <3>1, <3>3 DEF Numbered, Loading, Jobs, Unanswered
    <3> QED BY <1>29, <3>2, <3>3 DEF Unanswered, GiveUpJob
  <2> QED BY <2>1, <2>2, NothingAwaited
<1>30. ASSUME ApplyScroll PROVE Loading'
  BY <1>30, StillLoading DEF ApplyScroll, database, broker, operator, wire, sockets
<1>31. ASSUME AcknowledgeScroll PROVE Loading'
  BY <1>31, StillLoading DEF AcknowledgeScroll, Ack, Awaits
<1>32. ASSUME ScrollAnswered PROVE Loading'
  BY <1>32, StillLoading DEF ScrollAnswered
<1>33. ASSUME Closed PROVE Loading'
  <2>1. acks' = Forgotten
    BY <1>33 DEF Closed, Offline
  <2>2. Numbered'
    BY <1>33 DEF Closed, CheckSession, NoJob, Loading, Numbered
  <2> QED BY <2>1, <2>2, NothingAwaited, NotAwaited
<1> QED BY <1>1, <1>2, <1>3, <1>4, <1>5, <1>6, <1>7, <1>8, <1>9, <1>10, <1>11, <1>12, <1>13, <1>14, <1>15, <1>16, <1>17, <1>18, <1>19, <1>20, <1>21, <1>22, <1>23, <1>24, <1>25, <1>26, <1>27, <1>28, <1>29, <1>30, <1>31, <1>32, <1>33 DEF Next, Server, Page, Environment

-----------------------------------------------------------------------------
(* The theorems.                                                           *)
-----------------------------------------------------------------------------
LEMMA SpentTyped ==
  ASSUME NEW s \in Spent
  PROVE  s[1] \in Nat /\ s[2] \in 0..MaxSockets /\ s[3] \in Nat
<1>1. s \in (0..MaxCommands) \X (0..MaxSockets) \X (0..MaxDisturbances) \X (0..MaxRefusals)
  BY BoundsAssumption
<1> QED BY <1>1

LEMMA InitIInv == Init => IInv
<1> SUFFICES ASSUME Init PROVE IInv
  OBVIOUS
<1>1. pressed \in Nat /\ opened \in 0..MaxSockets /\ disturbed \in Nat
  BY SpentTyped DEF Init
<1>2. DatabaseTyped
  BY <1>1 DEF Init, DatabaseTyped
<1>3. BrokerTyped
  BY <1>1 DEF Init, BrokerTyped
<1>4. WireTyped
  BY <1>1 DEF Init, WireTyped, Links
<1>5. PageTyped
  BY DEF Init, PageTyped, NoJob, Jobs
<1>6. Addressed /\ PageRegistered
  BY DEF Init, Addressed, PageRegistered
<1>7. Ordered
  BY DEF Init, Ordered, Streams, Known, ScrollsInOrder
<1>8. Loading
  BY DEF Init, Loading, NoJob
<1> QED BY <1>2, <1>3, <1>4, <1>5, <1>6, <1>7, <1>8 DEF IInv, TypeOK

LEMMA NextIInv == IInv /\ [Next]_vars => IInv'
<1>1. ASSUME IInv, Next PROVE IInv'
  <2>1. TypeOK'
    BY <1>1, DatabaseTypedStep, BrokerTypedStep, WireTypedStep, PageTypedStep DEF IInv, TypeOK
  <2>2. Addressed' /\ PageRegistered' /\ Ordered' /\ Loading'
    BY <1>1, AddressedStep, PageRegisteredStep, OrderedStep, LoadingStep DEF IInv
  <2> QED BY <2>1, <2>2 DEF IInv
<1>2. ASSUME IInv, UNCHANGED vars PROVE IInv'
  <2>1. UNCHANGED <<row, commits, snapshot, disturbed, mem, conn, queue, inflight, nextSeq, writes, retained, pressed>>
    BY <1>2 DEF vars, database, broker, operator
  <2>2. UNCHANGED <<opened, link, inbox, acks, shaking, shown, job, chain, high, moved, confirmed>>
    BY <1>2 DEF vars, wire, sockets, page
  <2>3. DatabaseTyped' /\ BrokerTyped' /\ WireTyped' /\ PageTyped'
    BY <1>2, <2>1, <2>2 DEF IInv, TypeOK, DatabaseTyped, BrokerTyped, WireTyped, PageTyped
  <2>4. Addressed' /\ PageRegistered'
    BY <1>2, <2>1, <2>2 DEF IInv, Addressed, PageRegistered, Closing
  <2>5. Ordered'
    BY <1>2, <2>1, <2>2 DEF IInv, Ordered, Streams, Known, Ended, ScrollsInOrder
  <2>6. Loading'
    BY <1>2, <2>1, <2>2 DEF IInv, Loading, Awaits
  <2> QED BY <2>3, <2>4, <2>5, <2>6 DEF IInv, TypeOK
<1> QED BY <1>1, <1>2

LEMMA MonitorsInvariant == Spec => []IInv
BY InitIInv, NextIInv, PTL DEF Spec

\* A page the server has welcomed is the registered connection until the server closes it, and within one connection
\* the frame moves in the order of the numbers, for any number of commands, connections and disturbances.
THEOREM CommandsArrive == Spec => []CommandsReachPage
<1>1. IInv => CommandsReachPage
  BY DEF IInv, Ordered, CommandsReachPage
<1> QED BY <1>1, MonitorsInvariant, PTL

\* What may happen to the frame that is shown
Content == shown' # shown => IF shown' # 0 THEN shown' \in confirmed ELSE ~Valid(cookie) \/ disturbed' # disturbed

LEMMA ContentStep ==
  ASSUME TypeOK, Loading, Next
  PROVE  Content
<1>1. ASSUME Provision PROVE Content
  BY <1>1 DEF Content, Provision, broker, operator, wire, page, sockets
<1>2. ASSUME Navigate PROVE Content
  BY <1>2 DEF Content, Navigate, Targeted, broker, operator, wire, page, sockets
<1>3. ASSUME NEW d \in Directions, Scroll(d) PROVE Content
  BY <1>3 DEF Content, Scroll, database, wire, page, sockets
<1>4. ASSUME NEW k \in {"rotate", "revoke", "delete"}, Administer(k) PROVE Content
  BY <1>4 DEF Content, Administer, Disturb, Changed, broker, operator, wire, page, sockets
<1>5. ASSUME RefreshReads PROVE Content
  BY <1>5 DEF Content, RefreshReads, Disturb, broker, operator, wire, page, sockets
<1>6. ASSUME Lose PROVE Content
  BY <1>6 DEF Content, Lose, Disturb, database, broker, operator, sockets
<1>7. ASSUME Restart PROVE Content
  BY <1>7 DEF Content, Restart, Disturb
<1>8. ASSUME Enroll PROVE Content
  BY <1>8 DEF Content, Enroll, database, broker, operator, sockets
<1>9. ASSUME Reload PROVE Content
  <2>1. disturbed' # disturbed
    BY <1>9 DEF Reload, Disturb, TypeOK, DatabaseTyped
  <2> QED BY <1>9, <2>1 DEF Content, Reload
<1>10. ASSUME FailNavigation PROVE Content
  BY <1>10 DEF Content, FailNavigation, Disturb, database, broker, operator, sockets
<1>11. ASSUME NEW c \in timers, NavigationTimesOut(c) PROVE Content
  BY <1>11 DEF Content, NavigationTimesOut, Disturb, database, operator, wire, page, sockets
<1>12. ASSUME NEW a \in acks, AckFails(a) PROVE Content
  BY <1>12 DEF Content, AckFails, Disturb, database, broker, operator, sockets, page
<1>13. ASSUME NEW c \in commits, NavigateGoesOn(c) PROVE Content
  BY <1>13 DEF Content, NavigateGoesOn, operator, sockets, page
<1>14. ASSUME NEW c \in commits, AdministerGoesOn(c) PROVE Content
  BY <1>14 DEF Content, AdministerGoesOn, sockets, page
<1>15. ASSUME NEW w \in writes, ScrollRepeated(w) PROVE Content
  BY <1>15 DEF Content, ScrollRepeated, database, broker, wire, page, sockets
<1>16. ASSUME NEW w \in writes, ScrollGoesOn(w) PROVE Content
  BY <1>16 DEF Content, ScrollGoesOn, database, sockets, page
<1>17. ASSUME NEW w \in writes, ScrollRefused(w) PROVE Content
  BY <1>17 DEF Content, ScrollRefused, database, broker, wire, page, sockets
<1>18. ASSUME ScrollTimesOut PROVE Content
  BY <1>18 DEF Content, ScrollTimesOut, Disturb, database, operator, sockets, page
<1>19. ASSUME RefreshApplies PROVE Content
  BY <1>19 DEF Content, RefreshApplies, operator, wire, page, sockets
<1>20. ASSUME NEW h \in shaking, Authenticate(h) PROVE Content
  BY <1>20 DEF Content, Authenticate, database, broker, operator, page
<1>21. ASSUME NEW h \in shaking, Register(h) PROVE Content
  BY <1>21 DEF Content, Register, Awaited, database, page
<1>22. ASSUME NEW h \in shaking, WelcomeVisitor(h) PROVE Content
  BY <1>22 DEF Content, WelcomeVisitor, CheckSession
<1>23. ASSUME NEW s \in Sockets, Unregister(s) PROVE Content
  BY <1>23 DEF Content, Unregister, database, page
<1>24. ASSUME NEW a \in acks, AckWritten(a) PROVE Content
  BY <1>24 DEF Content, AckWritten, database, operator, sockets, page
<1>25. ASSUME Connect PROVE Content
  BY <1>25 DEF Content, Connect, database, broker, operator, page
<1>26. ASSUME Receive PROVE Content
  BY <1>26 DEF Content, Receive, database, broker, operator, sockets
<1>27. ASSUME Acknowledge PROVE Content
  BY <1>27 DEF Content, Acknowledge, database, broker, operator, sockets
<1>28. ASSUME NEW a \in acks, Accepted(a) PROVE Content
  <2>1. Awaits(a) /\ a.at = "ok" /\ a.cmd = job.cmd /\ a.st = job.phase
    BY <1>28 DEF Accepted, Waiting, Awaits, Loading
  <2>2. CASE shown' = shown
    BY <2>2 DEF Content
  <2>3. CASE job.phase = "loaded" /\ shown' = job.cmd
    BY <1>28, <2>1, <2>3 DEF Content, Loading, Accepted
  <2> QED BY <1>28, <2>2, <2>3 DEF Accepted
<1>29. ASSUME Unanswered PROVE Content
  BY <1>29 DEF Content, Unanswered, database, broker, operator, sockets
<1>30. ASSUME ApplyScroll PROVE Content
  BY <1>30 DEF Content, ApplyScroll, database, broker, operator, wire, sockets
<1>31. ASSUME AcknowledgeScroll PROVE Content
  BY <1>31 DEF Content, AcknowledgeScroll, database, operator, sockets
<1>32. ASSUME ScrollAnswered PROVE Content
  BY <1>32 DEF Content, ScrollAnswered, database, broker, operator, sockets
<1>33. ASSUME Closed PROVE Content
  BY <1>33 DEF Content, Closed, CheckSession
<1> QED BY <1>1, <1>2, <1>3, <1>4, <1>5, <1>6, <1>7, <1>8, <1>9, <1>10, <1>11, <1>12, <1>13, <1>14, <1>15, <1>16, <1>17, <1>18, <1>19, <1>20, <1>21, <1>22, <1>23, <1>24, <1>25, <1>26, <1>27, <1>28, <1>29, <1>30, <1>31, <1>32, <1>33 DEF Next, Server, Page, Environment

\* The frame that is shown is replaced only by one the server has confirmed, and goes dark only when the device is not
\* known to the server or the page is loaded again.
THEOREM ContentStays == Spec => KeepsContent
<1>1. IInv /\ [Next]_vars => [Content]_vars
  BY ContentStep DEF IInv
<1>2. IInv /\ [Next]_vars => [shown' # shown => IF shown' # 0 THEN shown' \in confirmed
                                               ELSE ~Valid(cookie) \/ disturbed' # disturbed]_vars
  BY <1>1 DEF Content
<1> QED BY <1>2, MonitorsInvariant, PTL DEF Spec, KeepsContent

\* Scrolls and frames of a monitor, for every value of the constants: the registered connection is the page's,
\* the numbers rise, and a frame is only replaced by one the server has accepted (monitorBroker, monitorPage).
THEOREM NavigationIsSound == Spec => NavigationSound
BY CommandsArrive, ContentStays DEF NavigationSound

=============================================================================
