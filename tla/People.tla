-------------------------------- MODULE People --------------------------------
(***************************************************************************)
(* The pages on which administrators change people, and the service behind *)
(* them: Frontend/JS/personenNormalisieren.js (drafts of the fields),      *)
(* Frontend/JS/mitgliederAbgleichen.js (selected entries of a comparison), *)
(* and normalizePerson and reconcilePerson of                              *)
(* Backend/postgresPlayService.js.                                         *)
(*                                                                         *)
(* A transaction is serializable, hence one step.  The checks before it    *)
(* read the projection in memory.  A load that a newer one has overtaken   *)
(* is thrown away (loadGeneration), so a page has at most one.             *)
(***************************************************************************)
EXTENDS Members, TLC

CONSTANTS PeopleScenes  \* the situations: [people, and for each page its kind, actor, export and edits,
                        \* and the bounds writes, faults, reloads]

\* parseClubDeskCsv refuses an export that has a CD-ID twice.
ASSUME PeopleAssumption ==
  \A s \in PeopleScenes : \A q \in DOMAIN s.pages :
    /\ s.pages[q].kind \in {"normalize", "reconcile"}
    /\ \A r1, r2 \in s.pages[q].export : r1.ext = r2.ext => r1 = r2

VARIABLES scene,        \* the situation looked at (never changes)
          stored,       \* identity.people with memberships, roles and CD-IDs
          projected,    \* the projection of the people in memory
          pages,        \* what each page shows and does
          calls,        \* the requests on their way
          committed,    \* ops.idempotency_operations: <<page, key>> whose current id is successful
          unannounced,  \* a commit waits for the worker to announce it
          budget        \* the writes, faults and reloads that may still happen

peopleVars == <<scene, stored, projected, pages, calls, committed, unannounced, budget>>

Admin(q) == scene.pages[q].actor
Kind(q) == scene.pages[q].kind
Export(q) == scene.pages[q].export
Edits(q) == scene.pages[q].edits
PeoplePages == DOMAIN scene.pages
Spend(what) == budget[what] > 0 /\ budget' = [budget EXCEPT ![what] = @ - 1]

\* drafts (of every person a card was drawn for) or the selected entries.
NoMarks(kind, people) == IF kind = "normalize" THEN people ELSE {}
NotOpen == [open |-> FALSE, of |-> {}]
NoLoad == [under |-> FALSE, preserve |-> FALSE, data |-> <<>>]
FreshPage(kind, people) ==
  [shown |-> people, marks |-> NoMarks(kind, people), load |-> NoLoad, notified |-> FALSE, busy |-> FALSE,
   preview |-> NotOpen, todo |-> {}, touched |-> {}]

-----------------------------------------------------------------------------
(***************************************************************************)
(* What the pages offer.                                                   *)
(***************************************************************************)
\* changesFor: the fields in which the draft and the person shown differ.
DraftFields(g, id) == {f \in {"login", "data", "member", "active"} : g.marks[id][f] # g.shown[id][f]}
Normalizations(g) ==
  {Request("normalize", id, 0, 0, Only(g.marks[id], DraftFields(g, id)), g.shown[id]) :
     id \in {id \in DOMAIN g.marks \cap Ids(g.shown) : DraftFields(g, id) # {}}}

\* Mutant: the fingerprint of the person does not count.
MutSignature(e) == <<e.category, e.id, e.row.ext, e.login>>
\* entrySignature.
Signature(e) == <<e.category, e.id, e.person, e.row.ext, e.login>>

\* The entries that are selected, as far as their signature is what it was.
StillSelected(q, g, people) ==
  {e \in Entries(Export(q), people) : e.category \in Actionable /\ \E m \in g.marks : Signature(m) = Signature(e)}
\* actionRequests.
Reconciliations(q, g) == {ActionRequest(e, Choosable(e)) : e \in StillSelected(q, g, g.shown)}

Requests(q) == IF Kind(q) = "normalize" THEN Normalizations(pages[q]) ELSE Reconciliations(q, pages[q])

\* loadData, begun by a page that is not busy.
Asked(g, preserve) == [g EXCEPT !.load = [under |-> TRUE, preserve |-> preserve, data |-> projected]]
Idle(q) == ~pages[q].busy
Closed(q) == Idle(q) /\ ~pages[q].preview.open

-----------------------------------------------------------------------------
(***************************************************************************)
(* The administrator.                                                      *)
(***************************************************************************)
\* draftFor.
Draft(g, id) == IF id \in DOMAIN g.marks THEN g.marks[id] ELSE g.shown[id]

\* A control of a card is changed.
Edit(q) ==
  \E edit \in Edits(q) :
    /\ Kind(q) = "normalize" /\ Closed(q) /\ <<edit.id, edit.field>> \notin pages[q].touched
    /\ pages' = [pages EXCEPT ![q].marks = (edit.id :> [Draft(pages[q], edit.id) EXCEPT ![edit.field] = edit.value]) @@ @,
                              ![q].touched = @ \cup {<<edit.id, edit.field>>}]
    /\ UNCHANGED <<scene, stored, projected, calls, committed, unannounced, budget>>

\* An entry is ticked, with all its fields, or no longer.
Select(q) ==
  \E e \in Entries(Export(q), pages[q].shown) :
    /\ Kind(q) = "reconcile" /\ Closed(q) /\ e.category \in Actionable /\ e \notin pages[q].marks
    /\ pages' = [pages EXCEPT ![q].marks = @ \cup {e}]
    /\ UNCHANGED <<scene, stored, projected, calls, committed, unannounced, budget>>

Deselect(q) ==
  /\ Kind(q) = "reconcile" /\ Closed(q)
  /\ \E e \in pages[q].marks : pages' = [pages EXCEPT ![q].marks = @ \ {e}]
  /\ UNCHANGED <<scene, stored, projected, calls, committed, unannounced, budget>>

OpenPreview(q) ==
  /\ Closed(q) /\ Requests(q) # {}
  /\ pages' = [pages EXCEPT ![q].preview = [open |-> TRUE, of |-> Requests(q)]]
  /\ UNCHANGED <<scene, stored, projected, calls, committed, unannounced, budget>>

ClosePreview(q) ==
  /\ pages[q].preview.open /\ Idle(q)
  /\ pages' = [pages EXCEPT ![q].preview = NotOpen]
  /\ UNCHANGED <<scene, stored, projected, calls, committed, unannounced, budget>>

\* The button "reload": drafts are thrown away, selections kept where they still fit.
Reload(q) ==
  /\ Closed(q) /\ Spend("reloads")
  /\ pages' = [pages EXCEPT ![q] = IF Kind(q) = "normalize"
                                   THEN [Asked(@, FALSE) EXCEPT !.marks = pages[q].shown, !.touched = {}]
                                   ELSE Asked(@, TRUE)]
  /\ UNCHANGED <<scene, stored, projected, calls, committed, unannounced>>

\* submitChanges, submitActions: the requests are computed anew.
SubmitAll(q) ==
  /\ pages[q].preview.open /\ Idle(q) /\ Requests(q) # {}
  /\ pages' = [pages EXCEPT ![q].busy = TRUE, ![q].todo = Requests(q)]
  /\ UNCHANGED <<scene, stored, projected, calls, committed, unannounced, budget>>

-----------------------------------------------------------------------------
(***************************************************************************)
(* The page.                                                               *)
(***************************************************************************)
Listening(q) == {c \in calls : c.page = q /\ c.listening}
OperationKey(r) == <<r.action, r.id, r.ext>>

\* The next person; the loop waits for each answer.
Send(q) ==
  /\ Listening(q) = {}
  /\ \E r \in pages[q].todo :
       calls' = calls \cup {[page |-> q, request |-> r, stage |-> "sent", reply |-> "none", listening |-> TRUE]}
  /\ UNCHANGED <<scene, stored, projected, pages, committed, unannounced, budget>>

Finished(g, r) ==
  [g EXCEPT !.todo = @ \ {r},
            !.marks = IF r.action = "normalize" THEN [id \in DOMAIN @ \ {r.id} |-> @[id]]
                      ELSE {e \in @ : ActionRequest(e, Choosable(e)) # r},
            !.touched = {t \in @ : t[1] # r.id}]
Ended(g) == [g EXCEPT !.busy = FALSE, !.preview = NotOpen, !.todo = {}]

\* The loop stops at the first failure; the people are loaded and the rest is kept.
Stopped(g) == Asked(Ended(g), TRUE)

Told(q, r, reply) ==
  LET g == Finished(pages[q], r)
  IN pages' = [pages EXCEPT ![q] = IF reply # "success" THEN Stopped(@)
                                   ELSE IF g.todo # {} THEN g
                                   ELSE Asked([Ended(g) EXCEPT !.marks = NoMarks(Kind(q), <<>>), !.touched = {}], FALSE)]

\* A definite answer releases the operationId.
Answer(c) ==
  /\ c.stage = "answer" /\ c.listening
  /\ Told(c.page, c.request, c.reply)
  /\ calls' = calls \ {c}
  /\ committed' = IF c.reply = "uncertain" THEN committed ELSE committed \ {<<c.page, OperationKey(c.request)>>}
  /\ UNCHANGED <<scene, stored, projected, unannounced, budget>>

\* The connection is lost or the request times out: the server goes on.
Lost(c) ==
  /\ c.listening /\ Spend("faults")
  /\ Told(c.page, c.request, "uncertain")
  /\ \/ calls' = (calls \ {c}) \cup {[c EXCEPT !.listening = FALSE]}
     \/ c.stage = "sent" /\ calls' = calls \ {c}
  /\ UNCHANGED <<scene, stored, projected, committed, unannounced>>

\* recompute keeps the selections whose entry is unchanged; a draft is kept as it is,
\* of every person a card was drawn for, and drawing makes one of the others.
Keep(q, g) ==
  IF Kind(q) = "normalize" THEN g.marks @@ g.load.data
  ELSE StillSelected(q, g, g.load.data)

LoadArrives(q) ==
  LET g == pages[q]
  IN /\ g.load.under
     /\ pages' = [pages EXCEPT ![q] = [g EXCEPT !.shown = g.load.data, !.load = NoLoad,
                                                !.marks = IF g.load.preserve THEN Keep(q, g) ELSE NoMarks(Kind(q), g.load.data),
                                                !.touched = IF g.load.preserve THEN @ ELSE {}]]
     /\ UNCHANGED <<scene, stored, projected, calls, committed, unannounced, budget>>

LoadFails(q) ==
  /\ pages[q].load.under /\ Spend("faults")
  /\ pages' = [pages EXCEPT ![q].load = NoLoad]
  /\ UNCHANGED <<scene, stored, projected, calls, committed, unannounced>>

\* subscribeInvalidations: dropped while the page is busy or holds changes.
Notified(q) ==
  LET unchanged == IF Kind(q) = "normalize" THEN Requests(q) = {} ELSE pages[q].marks = {}
      seen == [pages[q] EXCEPT !.notified = FALSE]
  IN /\ pages[q].notified
     /\ pages' = [pages EXCEPT ![q] = IF Idle(q) /\ unchanged THEN Asked(seen, FALSE) ELSE seen]
     /\ UNCHANGED <<scene, stored, projected, calls, committed, unannounced, budget>>

-----------------------------------------------------------------------------
(***************************************************************************)
(* The service.                                                            *)
(***************************************************************************)
Authorised(q) == stored[Admin(q)].active /\ stored[Admin(q)].admin
Replaced(c, stage, reply) == calls' = (calls \ {c}) \cup {[c EXCEPT !.stage = stage, !.reply = reply]}

\* The session is looked up, then the projection is asked.
Arrive(c) ==
  /\ c.stage = "sent"
  /\ IF Authorised(c.page) /\ ~Conflict(projected, c.request) THEN Replaced(c, "checked", "none")
     ELSE Replaced(c, "answer", "refused")
  /\ UNCHANGED <<scene, stored, projected, pages, committed, unannounced, budget>>

\* The transaction; a known operationId answers what it did before.
Transact(c) ==
  LET key == <<c.page, OperationKey(c.request)>>
  IN /\ c.stage = "checked"
     /\ \/ /\ key \in committed
           /\ Replaced(c, "refresh", "success") /\ UNCHANGED <<stored, committed, unannounced, budget>>
        \/ /\ key \notin committed /\ Refused(stored, Admin(c.page), c.request)
           /\ Replaced(c, "answer", "refused") /\ UNCHANGED <<stored, committed, unannounced, budget>>
        \/ /\ key \notin committed /\ ~Refused(stored, Admin(c.page), c.request)
           /\ Spend("writes")
           /\ stored' = Written(stored, c.request) /\ committed' = committed \cup {key} /\ unannounced' = TRUE
           /\ Replaced(c, "refresh", "success")
     /\ UNCHANGED <<scene, projected, pages>>

Announced == [q \in PeoplePages |-> [pages[q] EXCEPT !.notified = TRUE]]

\* The answer waits for the projection to be loaded.
Refresh(c) ==
  /\ c.stage = "refresh"
  /\ projected' = stored /\ Replaced(c, "answer", c.reply)
  /\ UNCHANGED <<scene, stored, pages, committed, unannounced, budget>>

\* The worker announces what has been committed.
Invalidate ==
  /\ unannounced /\ unannounced' = FALSE
  /\ projected' = stored /\ pages' = Announced
  /\ UNCHANGED <<scene, stored, calls, committed, budget>>

\* Nobody waits for the answer any more.
Unheard(c) ==
  /\ c.stage = "answer" /\ ~c.listening
  /\ calls' = calls \ {c}
  /\ UNCHANGED <<scene, stored, projected, pages, committed, unannounced, budget>>

-----------------------------------------------------------------------------
PeopleInit ==
  /\ scene \in PeopleScenes
  /\ stored = scene.people /\ projected = scene.people
  /\ pages = [q \in PeoplePages |-> FreshPage(Kind(q), scene.people)]
  /\ calls = {} /\ committed = {} /\ unannounced = FALSE /\ budget = scene.bounds

PeopleNext ==
  \/ \E q \in PeoplePages :
       \/ Edit(q) \/ Select(q) \/ Deselect(q) \/ OpenPreview(q) \/ ClosePreview(q) \/ Reload(q) \/ SubmitAll(q)
       \/ Send(q) \/ LoadArrives(q) \/ LoadFails(q) \/ Notified(q)
  \/ \E c \in calls : Arrive(c) \/ Transact(c) \/ Refresh(c) \/ Answer(c) \/ Lost(c) \/ Unheard(c)
  \/ Invalidate

PeopleSpec == PeopleInit /\ [][PeopleNext]_peopleVars

-----------------------------------------------------------------------------
\* What is written is what the preview showed: every request the reconciliation page
\* still sends was listed there, with the same person, values and fingerprint,
\* whatever was loaded between the preview and its confirmation.
WrittenAsPreviewed ==
  \A q \in PeoplePages : Kind(q) = "reconcile" => pages[q].todo \subseteq pages[q].preview.of

\* LF-25 (FACHKONZEPT.txt:318), not kept: an administrator who is active remains.
ActiveAdminRemains == \E i \in Admins(stored) : stored[i].active
=============================================================================
