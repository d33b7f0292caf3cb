------------------------------- MODULE Entries -------------------------------
(***************************************************************************)
(* One person enters one competition and withdraws again, from several     *)
(* pages: the list of entries (Frontend/JS/entryList.js), the service      *)
(* (Backend/postgresCompetitionService.js) and the table of operations     *)
(* (Backend/db/repositories/opsRepository.js).                             *)
(*                                                                         *)
(* A press of the button is one request.  Its operationId is the number of *)
(* the press it was made for: a page whose answer was uncertain sends the  *)
(* id again.  Transactions are serializable, hence single steps; the list  *)
(* reads `listed`, the projection in memory.                               *)
(***************************************************************************)
EXTENDS Integers

CONSTANTS EntryScenes   \* the situations looked at: the pages, and the bounds on presses,
                        \* faults (connections, database, restarts) and loads of a page
ASSUME EntryScenesAssumption ==
  \A s \in EntryScenes : s.presses \in Nat /\ s.faults \in Nat /\ s.loads \in Nat \ {0}

VARIABLES situation, \* the situation looked at (never changes)
          entered,   \* play.competition_entries holds an active row of the person
          messages,  \* messages written: [created, withdrawn]
          operations,\* ops.idempotency_operations: what became of each operationId
          presses,   \* the requests, in the order of the presses
          retained,  \* retainedOperationIds of each page for each kind, 0 for none
          listed,    \* the projection of the entries in memory
          dirty,     \* an invalidation is waiting for the worker
          lists,     \* what each page shows and its loads
          phase,     \* the period of entry: before, open, after (0, 1, 2)
          entryFaults,
          applied,   \* history: how often each operation has changed the entry
          crossed    \* history: pages that showed an older load after a newer one, or lost one

entryVars == <<situation, entered, messages, operations, presses, retained, listed, dirty, lists, phase,
               entryFaults, applied, crossed>>

Pages == situation.pages
MaxPresses == situation.presses
MaxLoadsOfPage == situation.loads
Kinds == {"add", "remove"}
Numbers == 1..MaxPresses
Unmade == [stage |-> "unmade", page |-> 0, kind |-> "add", id |-> 0, listening |-> FALSE, reply |-> "none"]
Done == [Unmade EXCEPT !.stage = "done"]
Fault == entryFaults < situation.faults /\ entryFaults' = entryFaults + 1

-----------------------------------------------------------------------------
(***************************************************************************)
(* The page.                                                               *)
(***************************************************************************)
PeriodOpen == phase = 1     \* isEntryPeriodActive, asked at once

\* initToolbar: the button that is drawn, enabled.
Toolbar(registered) == IF registered THEN "remove" ELSE IF PeriodOpen THEN "add" ELSE "none"
Drawn(l, registered) == [l EXCEPT !.registered = registered, !.button = Toolbar(registered), !.pressed = 0, !.drawnIn = phase]

\* Another load starts; a load without an answer yet is not counted twice.
Load(l) == IF l.unread < MaxLoadsOfPage THEN [l EXCEPT !.unread = @ + 1] ELSE l

\* The next press; an operationId that is retained is sent again.
Press(t) ==
  \E p \in Numbers :
    LET kind == lists[t].button
        id == IF retained[t][kind] # 0 THEN retained[t][kind] ELSE p
    IN /\ presses[p].stage = "unmade" /\ \A q \in Numbers : q < p => presses[q].stage # "unmade"
       /\ kind \in Kinds /\ lists[t].pressed = 0
       /\ kind = "add" => ~lists[t].registered /\ PeriodOpen
       /\ presses' = [presses EXCEPT ![p] = [stage |-> "begin", page |-> t, kind |-> kind, id |-> id,
                                             listening |-> TRUE, reply |-> "none"]]
       /\ retained' = [retained EXCEPT ![t][kind] = id]
       /\ lists' = [lists EXCEPT ![t].pressed = p]
       /\ UNCHANGED <<situation, entered, messages, operations, listed, dirty, phase, entryFaults, applied, crossed>>

\* releaseOperationId(key, error): an uncertain answer keeps the id.  The button
\* that was pressed is free again, if it has not been replaced by a load.
Told(p, reply) ==
  LET t == presses[p].page
      freed == IF lists[t].pressed = p THEN [lists[t] EXCEPT !.pressed = 0] ELSE lists[t]
  IN /\ retained' = [retained EXCEPT ![t][presses[p].kind] = IF reply = "uncertain" THEN @ ELSE 0]
     /\ lists' = [lists EXCEPT ![t] = IF reply = "success" THEN Load(@) ELSE freed]

\* The answer arrives; after a success the list is loaded before the button is free.
Answer(p) ==
  /\ presses[p].stage = "answer"
  /\ IF presses[p].listening THEN Told(p, presses[p].reply) ELSE UNCHANGED <<retained, lists>>
  /\ presses' = [presses EXCEPT ![p] = Done]
  /\ UNCHANGED <<situation, entered, messages, operations, listed, dirty, phase, entryFaults, applied, crossed>>

\* The connection is lost, or the request times out: the server goes on unless
\* the request had not reached it.
Lost(p) ==
  /\ presses[p].listening /\ Fault
  /\ Told(p, "uncertain")
  /\ \/ presses' = [presses EXCEPT ![p].listening = FALSE]
     \/ presses[p].stage = "begin" /\ presses' = [presses EXCEPT ![p] = Done]
  /\ UNCHANGED <<situation, entered, messages, operations, listed, dirty, phase, applied, crossed>>

-----------------------------------------------------------------------------
(***************************************************************************)
(* The service.                                                            *)
(***************************************************************************)
Answered(p, reply) == [presses EXCEPT ![p].stage = "answer", ![p].reply = reply]

\* Mutant: an operation that was successful is begun again.
MutRepeated(status) == CASE status \in {"absent", "success"} -> "none"
                         [] status = "unknown" -> "uncertain"
                         [] OTHER -> "certain"
\* repeatedResult: the answer to an operationId that is known.
Repeated(status) == CASE status = "absent" -> "none"
                      [] status = "success" -> "success"
                      [] status = "unknown" -> "uncertain"
                      [] OTHER -> "certain"

\* beginIdempotency: a transaction of its own.
Begin(p) ==
  LET id == presses[p].id
      repeated == Repeated(operations[id])
  IN /\ presses[p].stage = "begin"
     /\ IF repeated = "none"
        THEN /\ operations' = [operations EXCEPT ![id] = "started"]
             /\ presses' = [presses EXCEPT ![p].stage = "transact"]
        ELSE presses' = Answered(p, repeated) /\ UNCHANGED operations
     /\ UNCHANGED <<situation, entered, messages, retained, listed, dirty, lists, phase, entryFaults, applied, crossed>>

\* addCompetitionEntry finds no active entry, withdrawCompetitionEntry finds one.
Changes(kind) == (kind = "add") # entered

\* Mutant: a withdrawal is not announced to the pages.
MutInvalidates(kind) == kind = "add"

\* queueInvalidation, in either case and whether something changed or not.
Invalidates(kind) == kind \in Kinds

\* The transaction: entry, message, invalidation and the operation's result.
Effect(p) ==
  LET kind == presses[p].kind
      id == presses[p].id
  IN /\ operations' = [operations EXCEPT ![id] = IF @ = "started" THEN "success" ELSE @]
     /\ entered' = (kind = "add")
     /\ dirty' = (dirty \/ Invalidates(kind))
     /\ IF Changes(kind)
        THEN /\ messages' = IF kind = "add" THEN [messages EXCEPT !.created = @ + 1]
                            ELSE [messages EXCEPT !.withdrawn = @ + 1]
             /\ applied' = [applied EXCEPT ![id] = @ + 1]
        ELSE UNCHANGED <<messages, applied>>

NoEffect == UNCHANGED <<operations, entered, dirty, messages, applied>>

\* executeAudited commits, and so does the audit of the request; when the
\* latter fails the page is told that the outcome is unknown.
Transact(p) ==
  /\ presses[p].stage = "transact" /\ Effect(p)
  /\ \/ presses' = Answered(p, "success") /\ UNCHANGED entryFaults
     \/ presses' = Answered(p, "uncertain") /\ Fault
  /\ UNCHANGED <<situation, retained, listed, lists, phase, crossed>>

\* The transaction fails, or nobody knows whether it was committed.
TransactFails(p) ==
  /\ presses[p].stage = "transact" /\ Fault
  /\ \/ NoEffect /\ presses' = [presses EXCEPT ![p].stage = "fail"]
     \/ (NoEffect \/ Effect(p)) /\ presses' = [presses EXCEPT ![p].stage = "doubt"]
  /\ UNCHANGED <<situation, retained, listed, lists, phase, crossed>>

\* finalizeIdempotency, which accepts that the operation is no longer open and
\* may fail itself.  DB_COMMIT_OUTCOME_UNKNOWN is none of the codes the page
\* takes for uncertain.
Finalize(p) ==
  LET id == presses[p].id
      status == IF presses[p].stage = "fail" THEN "failed" ELSE "unknown"
  IN /\ presses[p].stage \in {"fail", "doubt"}
     /\ \/ operations' = [operations EXCEPT ![id] = IF @ = "started" THEN status ELSE @] /\ UNCHANGED entryFaults
        \/ UNCHANGED operations /\ Fault
     /\ presses' = Answered(p, "certain")
     /\ UNCHANGED <<situation, entered, messages, retained, listed, dirty, lists, phase, applied, crossed>>

\* The server stops: its requests end where they are, its clients lose their
\* connections.  A transaction it has sent may still be committed.
Restart ==
  /\ Fault
  /\ NoEffect \/ \E p \in Numbers : presses[p].stage = "transact" /\ Effect(p)
  /\ presses' = [p \in Numbers |-> IF presses[p].stage = "unmade" THEN Unmade ELSE Done]
  /\ lists' = [t \in Pages |-> [Load(lists[t]) EXCEPT !.pressed = 0]]
  /\ listed' = entered
  /\ UNCHANGED <<situation, retained, phase, crossed>>

-----------------------------------------------------------------------------
(***************************************************************************)
(* The projection and the loads of the pages, which no generation guards.  *)
(***************************************************************************)
\* The worker delivers the invalidation, the server loads the projection, every
\* page is told to load its list.
Publish ==
  /\ dirty /\ dirty' = FALSE
  /\ listed' = entered
  /\ lists' = [t \in Pages |-> Load(lists[t])]
  /\ UNCHANGED <<situation, entered, messages, operations, presses, retained, phase, entryFaults, applied, crossed>>

Read(t) ==
  /\ lists[t].unread > 0 /\ listed \notin lists[t].read
  /\ lists' = [lists EXCEPT ![t].unread = @ - 1, ![t].read = @ \cup {listed}]
  /\ crossed' = IF lists[t].read # {} THEN crossed \cup {t} ELSE crossed \ {t}
  /\ UNCHANGED <<situation, entered, messages, operations, presses, retained, listed, dirty, phase, entryFaults, applied>>

ShowList(t) ==
  \E registered \in lists[t].read :
    /\ lists' = [lists EXCEPT ![t] = [Drawn(@, registered) EXCEPT !.read = lists[t].read \ {registered}]]
    /\ UNCHANGED <<situation, entered, messages, operations, presses, retained, listed, dirty, phase, entryFaults, applied, crossed>>

\* One of the four reads fails for the second time: the list stays as it is,
\* also after an entry that succeeded ("Fehler: ...").
ReadFails(t) ==
  /\ lists[t].unread > 0 /\ Fault
  /\ lists' = [lists EXCEPT ![t].unread = @ - 1, ![t].pressed = 0]
  /\ crossed' = crossed \cup {t}
  /\ UNCHANGED <<situation, entered, messages, operations, presses, retained, listed, dirty, phase, applied>>

\* scheduleEntryBoundary: a timer for the next boundary that is still to come.
Boundary(t) == lists[t].drawnIn < phase

BoundaryPassed(t) ==
  /\ Boundary(t)
  /\ lists' = [lists EXCEPT ![t] = Drawn(@, @.registered)]
  /\ UNCHANGED <<situation, entered, messages, operations, presses, retained, listed, dirty, phase, entryFaults, applied, crossed>>

TimePasses ==
  /\ phase < 2 /\ phase' = phase + 1
  /\ UNCHANGED <<situation, entered, messages, operations, presses, retained, listed, dirty, lists, entryFaults, applied, crossed>>

EntryInit ==
  /\ situation \in EntryScenes
  /\ entered = FALSE /\ messages = [created |-> 0, withdrawn |-> 0]
  /\ operations = [id \in Numbers |-> "absent"] /\ presses = [p \in Numbers |-> Unmade]
  /\ retained = [t \in Pages |-> [k \in Kinds |-> 0]]
  /\ listed = FALSE /\ dirty = FALSE /\ phase \in {0, 1}
  /\ lists = [t \in Pages |-> [registered |-> FALSE, button |-> Toolbar(FALSE), pressed |-> 0,
                               unread |-> 0, read |-> {}, drawnIn |-> phase]]
  /\ entryFaults = 0 /\ applied = [id \in Numbers |-> 0] /\ crossed = {}

EntryNext ==
  \/ \E t \in Pages : Press(t) \/ Read(t) \/ ShowList(t) \/ ReadFails(t) \/ BoundaryPassed(t)
  \/ \E p \in Numbers : Answer(p) \/ Lost(p) \/ Begin(p) \/ Transact(p) \/ TransactFails(p) \/ Finalize(p)
  \/ Publish \/ Restart \/ TimePasses

EntrySpec == EntryInit /\ [][EntryNext]_entryVars

-----------------------------------------------------------------------------
\* Every change of the entry is announced exactly once: the messages that were
\* written agree with the entry, whatever was lost, repeated or pressed twice.
MessagesAgree == messages.created - messages.withdrawn = IF entered THEN 1 ELSE 0

\* An operationId changes the entry at most once.  A page that sends the id of
\* an entry again, because its answer was lost, does not undo a withdrawal that
\* was made in between.
AppliedOnce == \A id \in Numbers : applied[id] <= 1
EntriesAnnouncedOnce == MessagesAgree /\ AppliedOnce

\* When nothing is under way any more, every page shows the entry as it is and
\* offers what is possible now, unless two loads of the page crossed or one failed.
Resting == /\ ~dirty
           /\ \A p \in Numbers : presses[p].stage \in {"unmade", "done"}
           /\ \A t \in Pages : lists[t].unread = 0 /\ lists[t].read = {} /\ ~Boundary(t)
ListsCurrent == Resting => \A t \in Pages \ crossed : /\ lists[t].registered = entered
                                                      /\ lists[t].button = Toolbar(entered)
                                                      /\ lists[t].pressed = 0
=============================================================================
