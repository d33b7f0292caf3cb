----------------------------- MODULE Diagnostics -----------------------------
(***************************************************************************)
(* How a page tells the server what went wrong in it (Frontend/JS/         *)
(* diagnostics.js and recordBatch of Backend/frontendLoggingService.js):   *)
(* events wait in a queue, go out in batches by a timer or when enough     *)
(* wait, come back when the server could not take them, and leave with a   *)
(* beacon when the page is hidden.  The policy that allows it comes with   *)
(* answers of the server that may overtake each other, and runs out.       *)
(*                                                                         *)
(* An event is its number, whether it is at least a warning, and whether   *)
(* the server accepts its fields.  The server's limiter and its sampling   *)
(* are choices.  A step of the page is one task of its event loop.         *)
(***************************************************************************)
EXTENDS Integers, Sequences, FiniteSets

CONSTANTS QueueSize,          \* MAX_QUEUE_SIZE
          BeaconSize,         \* events a beacon takes
          Rules,              \* the policies that allow it: [on, severe, batch, timed]
          DiagnosticsScenes   \* how many events, requests of the policy, faults, pages hidden and changes there are

ASSUME QueueAssumption == QueueSize \in Nat \ {0} /\ BeaconSize \in Nat \ {0}
ASSUME RulesAssumption ==
    \A r \in Rules : r.on = TRUE /\ r.severe \in BOOLEAN /\ r.timed \in BOOLEAN /\ r.batch \in Nat \ {0}

VARIABLES served,     \* the policy the server has for this session
          transport,  \* transportPolicy of the page
          pending,    \* transportQueue: [id, severe, fine]
          flushTimer, \* a flush is scheduled
          flush,      \* the batch that is sent: <<[events, answer]>> or <<>>
          beacons,    \* the batches handed to the browser when the page was hidden
          answers,    \* policies on their way to the page: [ask, rules]
          expiry,     \* expiryTimer
          here,       \* the page is there
          born,       \* how many events were queued
          recorded,   \* events the server has logged
          twice,      \* those logged more than once
          unsure,     \* those logged whose answer did not reach the page
          dropped,    \* events given up
          room        \* what may still happen

diagnosticsVars == <<served, transport, pending, flushTimer, flush, beacons, answers, expiry, here, born,
                     recorded, twice, unsure, dropped, room>>
logVars == <<recorded, twice, unsure>>

-----------------------------------------------------------------------------
NoRules == [on |-> FALSE, severe |-> TRUE, batch |-> 10, timed |-> FALSE]
Ids(events) == {events[i].id : i \in 1..Len(events)}
Lesser(a, b) == IF a < b THEN a ELSE b
Leading(events, n) == SubSeq(events, 1, Lesser(n, Len(events)))
Beyond(events, n) == SubSeq(events, Lesser(n, Len(events)) + 1, Len(events))
Consume(what) == room[what] > 0 /\ room' = [room EXCEPT ![what] = @ - 1]

\* flushDiagnosticEvents, with the events that wait: one batch is under way at a time.
Flush(events) ==
    /\ flushTimer' = FALSE
    /\ IF flush = <<>> /\ transport.on /\ events # <<>>
       THEN /\ flush' = <<[events |-> Leading(events, transport.batch), answer |-> "none"]>>
            /\ pending' = Beyond(events, transport.batch)
       ELSE pending' = events /\ UNCHANGED flush

\* enqueueTransport: the oldest event makes room for the new one.
Enqueued(event) == Append(IF Len(pending) >= QueueSize THEN Tail(pending) ELSE pending, event)
Emit(severe, fine) ==
    /\ here /\ transport.on /\ (transport.severe => severe)
    /\ Consume("events")
    /\ born' = born + 1
    /\ LET events == Enqueued([id |-> born + 1, severe |-> severe, fine |-> fine])
       IN /\ dropped' = dropped \cup (Ids(pending) \ Ids(events))
          /\ IF Len(events) >= transport.batch THEN Flush(events)
             ELSE pending' = events /\ flushTimer' = TRUE /\ UNCHANGED flush
    /\ UNCHANGED <<served, transport, beacons, answers, expiry, here, logVars>>

TimerFires ==
    /\ here /\ flushTimer
    /\ Flush(pending)
    /\ UNCHANGED <<served, transport, beacons, answers, expiry, here, born, logVars, dropped, room>>

-----------------------------------------------------------------------------
(* The server *)

\* The events up to the first whose fields are refused; of those below a warning only some are kept.
Accepted(events) == {i \in 1..Len(events) : \A j \in 1..i : events[j].fine}
Wanted(events, sample) ==
    {events[i].id : i \in {k \in Accepted(events) : (served.severe => events[k].severe) /\ (events[k].severe \/ k \in sample)}}
\* recordBatch, when the limiter lets the batch pass.
Log(events, sample) ==
    LET new == IF served.on THEN Wanted(events, sample) ELSE {}
    IN /\ recorded' = recorded \cup new
       /\ twice' = twice \cup (recorded \cap new)

\* A 400 ends the batch as a 200 does: the page does not send it again.
TakeBatch(sample) ==
    /\ flush # <<>> /\ flush[1].answer = "none"
    /\ Log(flush[1].events, sample)
    /\ flush' = <<[events |-> flush[1].events, answer |-> "taken"]>>
    /\ UNCHANGED <<served, transport, pending, flushTimer, beacons, answers, expiry, here, born, unsure, dropped, room>>

\* The limiter's 429 or a server that fails; the answer of a batch that was logged may be lost as well.
FailBatch ==
    /\ flush # <<>> /\ flush[1].answer # "again"
    /\ Consume("faults")
    /\ unsure' = IF flush[1].answer = "taken" THEN unsure \cup Ids(flush[1].events) ELSE unsure
    /\ flush' = <<[events |-> flush[1].events, answer |-> "again"]>>
    /\ UNCHANGED <<served, transport, pending, flushTimer, beacons, answers, expiry, here, born, recorded, twice, dropped>>

\* A beacon has no answer.
TakeBeacon(batch, sample) ==
    /\ Log(batch, sample)
    /\ dropped' = dropped \cup (Ids(batch) \ recorded')
    /\ beacons' = beacons \ {batch}
    /\ UNCHANGED <<served, transport, pending, flushTimer, flush, answers, expiry, here, born, unsure, room>>
LoseBeacon(batch) ==
    /\ Consume("faults")
    /\ dropped' = dropped \cup Ids(batch)
    /\ beacons' = beacons \ {batch}
    /\ UNCHANGED <<served, transport, pending, flushTimer, flush, answers, expiry, here, born, logVars>>

\* An administrator's change, a login or a logout: the session gets another policy.
RulesChange(rules) ==
    /\ rules # served /\ Consume("changes")
    /\ served' = rules
    /\ UNCHANGED <<transport, pending, flushTimer, flush, beacons, answers, expiry, here, born, logVars, dropped>>

-----------------------------------------------------------------------------
(* Answers at the page *)

\* Mutant: a batch that could not be sent goes behind the events that came meanwhile.
MutRefilled(events) == Leading(pending \o events, QueueSize)

\* A batch that could not be taken goes back in front; what does not fit is cut off at the end.
Refilled(events) == Leading(events \o pending, QueueSize)

\* Mutant: the next flush is not scheduled.
MutAnswerBatch ==
    /\ here /\ flush # <<>> /\ flush[1].answer # "none"
    /\ LET events == flush[1].events
           now == IF flush[1].answer = "again" THEN Refilled(events) ELSE pending
       IN /\ pending' = now
          /\ dropped' = dropped \cup ((Ids(events) \cup Ids(pending)) \ (Ids(now) \cup recorded))
          /\ flushTimer' = flushTimer
    /\ flush' = <<>>
    /\ UNCHANGED <<served, transport, beacons, answers, expiry, here, born, logVars, room>>

\* The end of flushDiagnosticEvents: whatever came of the batch, the next flush is scheduled.
AnswerBatch ==
    /\ here /\ flush # <<>> /\ flush[1].answer # "none"
    /\ LET events == flush[1].events
           now == IF flush[1].answer = "again" THEN Refilled(events) ELSE pending
       IN /\ pending' = now
          /\ dropped' = dropped \cup ((Ids(events) \cup Ids(pending)) \ (Ids(now) \cup recorded))
          /\ flushTimer' = (flushTimer \/ (transport.on /\ now # <<>>))
    /\ flush' = <<>>
    /\ UNCHANGED <<served, transport, beacons, answers, expiry, here, born, logVars, room>>

\* Mutant: the timer is forgotten when the policy changes.
MutapplyDiagnosticPolicy(rules) ==
    /\ transport' = rules
    /\ expiry' = (rules.on /\ rules.timed)
    /\ IF rules.on THEN flushTimer' = FALSE /\ UNCHANGED <<pending, dropped>>
       ELSE pending' = <<>> /\ flushTimer' = FALSE /\ dropped' = dropped \cup (Ids(pending) \ recorded)

\* applyDiagnosticPolicy: without permission the queue is emptied, otherwise what waits is scheduled.
applyDiagnosticPolicy(rules) ==
    /\ transport' = rules
    /\ expiry' = (rules.on /\ rules.timed)
    /\ IF rules.on THEN flushTimer' = (flushTimer \/ pending # <<>>) /\ UNCHANGED <<pending, dropped>>
       ELSE pending' = <<>> /\ flushTimer' = FALSE /\ dropped' = dropped \cup (Ids(pending) \ recorded)

\* refreshDiagnosticPolicy, or any request of the session, is answered with the policy of that moment.
PolicyAnswered ==
    /\ here /\ Consume("asks")
    /\ answers' = answers \cup {[ask |-> room.asks, rules |-> served]}
    /\ UNCHANGED <<served, transport, pending, flushTimer, flush, beacons, expiry, here, born, logVars, dropped>>
\* The answers arrive in any order; by the page's clock a policy may have run out already.
PolicyArrives(answer) ==
    /\ here
    /\ applyDiagnosticPolicy(answer.rules) \/ (answer.rules.on /\ answer.rules.timed /\ applyDiagnosticPolicy(NoRules))
    /\ answers' = answers \ {answer}
    /\ UNCHANGED <<served, flush, beacons, here, born, logVars, room>>
PolicyExpires ==
    /\ here /\ expiry
    /\ applyDiagnosticPolicy(NoRules)
    /\ \/ room.asks = 0 /\ UNCHANGED <<answers, room>>
       \/ Consume("asks") /\ answers' = answers \cup {[ask |-> room.asks, rules |-> served]}
    /\ UNCHANGED <<served, flush, beacons, here, born, logVars>>

-----------------------------------------------------------------------------
\* Mutant: what the beacon takes stays in the queue.
MutHandOver ==
    /\ pending' = pending
    /\ beacons' = beacons \cup {Leading(pending, BeaconSize)}
    /\ UNCHANGED <<flushTimer, flush>>

\* pagehideFlush: a beacon takes the front of the queue, unless the browser refuses it.
HandOver ==
    /\ pending' = Beyond(pending, BeaconSize)
    /\ beacons' = beacons \cup {Leading(pending, BeaconSize)}
    /\ UNCHANGED <<flushTimer, flush>>
HidePage(stays) ==
    /\ here /\ Consume("hides")
    /\ IF transport.on /\ pending # <<>>
       THEN HandOver \/ UNCHANGED <<pending, beacons, flushTimer, flush>>
       ELSE Flush(pending) /\ UNCHANGED beacons
    /\ here' = stays
    /\ UNCHANGED <<served, transport, answers, expiry, born, logVars, dropped>>

DiagnosticsInit ==
    /\ room \in DiagnosticsScenes
    /\ served \in Rules \cup {NoRules}
    /\ transport = NoRules /\ pending = <<>> /\ flushTimer = FALSE /\ flush = <<>> /\ beacons = {}
    /\ answers = {} /\ expiry = FALSE /\ here = TRUE /\ born = 0
    /\ recorded = {} /\ twice = {} /\ unsure = {} /\ dropped = {}

DiagnosticsNext ==
    \/ \E severe \in BOOLEAN, fine \in BOOLEAN : Emit(severe, fine)
    \/ TimerFires \/ AnswerBatch \/ FailBatch
    \/ \E sample \in SUBSET (1..QueueSize) : TakeBatch(sample)
    \/ \E batch \in beacons : LoseBeacon(batch) \/ \E sample \in SUBSET (1..BeaconSize) : TakeBeacon(batch, sample)
    \/ \E rules \in Rules \cup {NoRules} : RulesChange(rules)
    \/ PolicyAnswered \/ PolicyExpires
    \/ \E answer \in answers : PolicyArrives(answer)
    \/ \E stays \in BOOLEAN : HidePage(stays)
DiagnosticsSpec == DiagnosticsInit /\ [][DiagnosticsNext]_diagnosticsVars

-----------------------------------------------------------------------------
(* Properties *)

\* While the page may send, an event that waits will be sent: a flush is scheduled or under way.
Moving == here /\ transport.on /\ pending # <<>> => flushTimer \/ flush # <<>>

\* The page sends in the order of the events, also after a failure, and never holds more than the queue.
Sent == IF flush = <<>> THEN <<>> ELSE flush[1].events
Rising(events) == \A i, j \in 1..Len(events) : i < j => events[i].id < events[j].id
LinedUp == Len(pending) <= QueueSize /\ Rising(Sent \o pending)

\* No event disappears: it waits, is under way, was logged or was given up.
Beaconed == UNION {Ids(batch) : batch \in beacons}
Accounted == 1..born \subseteq Ids(Sent) \cup Ids(pending) \cup Beaconed \cup recorded \cup dropped

\* The server logs an event again only if the answer to its first logging did not reach the page.
LoggedOnce == twice \subseteq unsure

EventsSound == Moving /\ LinedUp /\ Accounted /\ LoggedOnce
=============================================================================
