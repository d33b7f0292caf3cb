-------------------------------- MODULE History --------------------------------
(***************************************************************************)
(* The history of the competitions as one person sees it: entries with the *)
(* number of comments and reactions, and the comments of one entry. Others *)
(* comment, moderate and react at the same time; every change raises one   *)
(* revision for all entries and is announced with the revision read after  *)
(* it. Operation ids and payloads whose outcome is uncertain are kept by   *)
(* the page until the same request is repeated.                            *)
(***************************************************************************)
EXTENDS Integers, FiniteSets, SequencesExt, TLC

CONSTANTS HistoryScenes,  \* [talk, admin, kinds, theirs, bounds]: the comments there are, whether the reader is an
                          \* administrator, what he and what others do, and the bounds
          EntriesPerPage, CommentsPerPage

\* A text is a number: that of the page's draft, 0 for none, and a negative one for what was there before or was
\* written when a comment was changed.
Comments == [by : 0..2, text : Int, status : {"visible", "under_review", "deleted"}, op : Nat]

ASSUME HistoryAssumption ==
  /\ {EntriesPerPage, CommentsPerPage} \subseteq Nat \ {0}
  /\ \A s \in HistoryScenes : \A e \in DOMAIN s.talk :
       s.talk[e] \in Seq(Comments) /\ \A c \in DOMAIN s.talk[e] : s.talk[e][c].text < 0

VARIABLES
  talk,       \* per entry its comments in the order of their creation: [by, text, status, op]
  reacted,    \* per entry the reaction of each person, 0 without one
  history,    \* messaging.history_revision
  done,       \* operation ids that were committed: op -> whether the operation changed something
  announcing, \* changes of others that are committed and not published yet: [e, at]
  events,     \* competition-history events on the way to the page: [e (0: all), rev]
  feed,       \* historyState
  thread,     \* interactionState: the comments of one entry
  kept,       \* retained payloads: key -> [op, value]
  reads,      \* requests that read
  changes,    \* requests of the page that write
  crossed,    \* a read or a write crossed another in one of the ways the page does not notice
  doubtful,   \* ids of writes answered with a definite error that says nothing of whether they were committed
  left        \* what the bounds leave, and the scene

historyVars == <<talk, reacted, history, done, announcing, events, feed, thread, kept, reads, changes, crossed,
                 doubtful, left>>
storeVars == <<talk, reacted, history, done>>
pageVars == <<feed, thread, kept, reads>>

People == 1..2          \* the reader, and somebody else
HistoryEvents == DOMAIN talk
Take(what) == left[what] > 0 /\ left' = [left EXCEPT ![what] = @ - 1]
\* A write that failed: the person may send once more.
PressAgain == left.losses > 0 /\ left' = [left EXCEPT !.losses = @ - 1, !.writes = @ + 1]

-----------------------------------------------------------------------------
(* The store.                                                              *)

Kept(e) == {c \in DOMAIN talk[e] : talk[e][c].status # "deleted"}
Interaction(e) == [comments |-> Cardinality(Kept(e)), mine |-> reacted[e][1],
                   total |-> Cardinality({p \in People : reacted[e][p] # 0})]

\* A comment as the reader sees it: under review its text is for administrators.
projectComment(e, c) ==
  [c |-> c, mine |-> talk[e][c].by = 1, status |-> talk[e][c].status,
   text |-> IF talk[e][c].status = "under_review" /\ ~left.admin THEN 0 ELSE talk[e][c].text]

\* Newest first; the cursor is the last comment or entry of the page, deleted or not.
Newest(ids, before, size) ==
  LET rows == SetToSortSeq({i \in ids : before = 0 \/ i < before}, LAMBDA i, j : i > j)
  IN [ids |-> SubSeq(rows, 1, IF Len(rows) > size THEN size ELSE Len(rows)),
      cursor |-> IF Len(rows) > size THEN rows[size] ELSE 0]

\* A request of person p: "add", "edit", "delete" or "moderate" a comment, "react" to an entry.
Change(kind, p, e, c, value, op) == [kind |-> kind, by |-> p, e |-> e, c |-> c, value |-> value, op |-> op]

Comment(w) == talk[w.e][w.c]
Refused(w) ==
  /\ w.kind \in {"edit", "delete", "moderate"}
  /\ Comment(w).status = "deleted" \/ (w.kind = "edit" /\ Comment(w).by # w.by)
Changed(w) ==
  CASE w.kind = "edit" -> Comment(w).text # w.value
    [] w.kind = "moderate" -> Comment(w).status # w.value
    [] w.kind = "react" -> reacted[w.e][w.by] # w.value
    [] OTHER -> TRUE
Put(w) ==
  CASE w.kind = "add" -> talk' = [talk EXCEPT ![w.e] = Append(@, [by |-> w.by, text |-> w.value, status |-> "visible",
                                                                  op |-> w.op])]
    [] w.kind = "edit" -> talk' = [talk EXCEPT ![w.e][w.c].text = w.value]
    [] w.kind = "delete" -> talk' = [talk EXCEPT ![w.e][w.c] = [@ EXCEPT !.by = 0, !.text = 0, !.status = "deleted"]]
    [] w.kind = "moderate" -> talk' = [talk EXCEPT ![w.e][w.c].status = w.value]
    [] OTHER -> UNCHANGED talk

\* One serializable transaction: a repeated id gets the stored answer, a change raises the revision.
Commit(w) ==
  IF w.op \in DOMAIN done THEN UNCHANGED storeVars
  ELSE /\ done' = [o \in DOMAIN done \cup {w.op} |-> IF o = w.op THEN Changed(w) ELSE done[o]]
       /\ IF Changed(w)
          THEN /\ Put(w) /\ history' = history + 1
               /\ reacted' = IF w.kind = "react" THEN [reacted EXCEPT ![w.e][w.by] = w.value] ELSE reacted
          ELSE UNCHANGED <<talk, reacted, history>>

\* What others do; their ids are not kept.
ByOthers(w) ==
  /\ Take("others")
  /\ ~Refused(w) /\ Changed(w)
  /\ Put(w) /\ history' = history + 1
  /\ reacted' = IF w.kind = "react" THEN [reacted EXCEPT ![w.e][w.by] = w.value] ELSE reacted
  /\ announcing' = announcing \cup {[e |-> w.e, at |-> history']}
  /\ UNCHANGED <<done, events, pageVars, changes, crossed, doubtful>>

\* The announcement carries the revision read after the commit; with a write in between it is not its own.
Published(e, at) == /\ events' = Append(events, [e |-> e, rev |-> history])
                    /\ crossed' = (crossed \/ history # at)
Announce(a) ==
  /\ announcing' = announcing \ {a}
  /\ Published(a.e, a.at)
  /\ UNCHANGED <<storeVars, pageVars, changes, doubtful, left>>

\* A connection made again: what was on the way is lost, the snapshot names no entry.
Resubscribed ==
  /\ Take("faults") /\ left.subscribed
  /\ events' = <<[e |-> 0, rev |-> history]>>
  /\ UNCHANGED <<storeVars, announcing, pageVars, changes, crossed, doubtful>>

-----------------------------------------------------------------------------
(* The page: reading.                                                      *)

Read(kind, gen, e, cursor, group) ==
  [kind |-> kind, gen |-> gen, e |-> e, cursor |-> cursor, group |-> group, data |-> <<>>, next |-> 0, at |-> -1,
   rev |-> -1]

loadCompetitionHistory(append) ==
  /\ feed.open /\ ~feed.loading
  /\ append = (feed.entries # <<>> /\ feed.cursor # 0) /\ (append \/ feed.entries = <<>>)
  /\ feed' = [feed EXCEPT !.loading = TRUE, !.gen = @ + 1]
  /\ reads' = reads \cup {Read("feed", feed.gen + 1, 0, IF append THEN feed.cursor ELSE 0, 0)}
  /\ UNCHANGED <<storeVars, announcing, events, thread, kept, changes, crossed, doubtful, left>>

NoThread == [e |-> 0, list |-> <<>>, cursor |-> 0, loading |-> FALSE, pending |-> FALSE, gen |-> 0]
NoFeed == [open |-> FALSE, loading |-> FALSE, entries |-> <<>>, cursor |-> 0, rev |-> 0, gen |-> 0, heard |-> 0]

openCompetitionHistory ==
  /\ ~feed.open /\ Take("opens")
  /\ feed' = [NoFeed EXCEPT !.open = TRUE, !.loading = TRUE, !.gen = feed.gen + 2, !.heard = feed.heard]
  /\ reads' = reads \cup {Read("feed", feed.gen + 2, 0, 0, 0)}
  /\ UNCHANGED <<storeVars, announcing, events, thread, kept, changes, crossed, doubtful>>

closeCompetitionHistory ==
  /\ feed.open /\ left.opens > 0
  /\ feed' = [NoFeed EXCEPT !.gen = feed.gen + 1, !.heard = feed.heard]
  /\ thread' = [NoThread EXCEPT !.gen = thread.gen + 1]
  /\ UNCHANGED <<storeVars, announcing, events, kept, reads, changes, crossed, doubtful, left>>

MutWithComments(t) == IF t.loading THEN t ELSE [t EXCEPT !.loading = TRUE]

\* loadComments: while a load is under way, one more is remembered.
WithComments(t) == IF t.loading THEN [t EXCEPT !.pending = TRUE] ELSE [t EXCEPT !.loading = TRUE]
CommentReads(t, older) == IF t.e = 0 \/ t.loading THEN {}
                          ELSE {Read(IF older THEN "older" ELSE "comments", t.gen, t.e, IF older THEN t.cursor ELSE 0, 0)}
loadComments(t) == IF t.e = 0 THEN t ELSE WithComments(t)

openComments(e) ==
  /\ feed.open /\ thread.e = 0 /\ \E i \in DOMAIN feed.entries : feed.entries[i].e = e
  /\ left.threads > 0 /\ Take("threads")
  /\ LET t == [NoThread EXCEPT !.e = e, !.gen = thread.gen + 1]
     IN thread' = WithComments(t) /\ reads' = reads \cup CommentReads(t, FALSE)
  /\ UNCHANGED <<storeVars, announcing, events, feed, kept, changes, crossed, doubtful>>

closeComments ==
  /\ thread.e # 0 /\ left.threads > 0
  /\ thread' = [NoThread EXCEPT !.gen = thread.gen + 1]
  /\ UNCHANGED <<storeVars, announcing, events, feed, kept, reads, changes, crossed, doubtful, left>>

OlderComments ==
  /\ thread.e # 0 /\ thread.cursor # 0 /\ ~thread.loading
  /\ thread' = WithComments(thread) /\ reads' = reads \cup CommentReads(thread, TRUE)
  /\ UNCHANGED <<storeVars, announcing, events, feed, kept, changes, crossed, doubtful, left>>

\* The entries of these ids are read again, those the feed has not loaded are not.
Refreshed(es, group) == {Read("entry", 0, e, 0, group) : e \in {x \in es : \E i \in DOMAIN feed.entries : feed.entries[i].e = x}}

\* Somebody's answer is about to be shown though it was read before this event's revision.
Overtaken(rev) == \E r \in reads : r.kind = "feed" /\ r.gen = feed.gen /\ r.at \in 0..(rev - 1)

HistoryEvent ==
  /\ events # <<>>
  /\ events' = Tail(events)
  /\ LET event == Head(events)
         es == IF event.e = 0 THEN {feed.entries[i].e : i \in DOMAIN feed.entries} ELSE {event.e}
         mine == Refreshed(es, feed.heard + 1)
     IN IF event.rev <= feed.rev \/ ~feed.open THEN UNCHANGED <<feed, thread, reads, crossed>>
        ELSE /\ feed' = [feed EXCEPT !.heard = @ + 1, !.rev = IF mine = {} THEN event.rev ELSE @]
             /\ reads' = reads \cup {[r EXCEPT !.next = event.rev] : r \in mine}
                         \cup (IF event.e \in {0, thread.e} THEN CommentReads(thread, FALSE) ELSE {})
             /\ thread' = IF event.e \in {0, thread.e} THEN loadComments(thread) ELSE thread
             /\ crossed' = (crossed \/ Overtaken(event.rev))
  /\ UNCHANGED <<storeVars, announcing, kept, changes, doubtful, left>>

\* The server reads the rows, and the revision in a later query.
ReadRows(r) ==
  /\ r.at = -1
  /\ LET page == Newest(HistoryEvents, r.cursor, EntriesPerPage)
         list == Newest(Kept(r.e), r.cursor, CommentsPerPage)
         answer ==
           CASE r.kind = "feed" -> [r EXCEPT !.next = page.cursor, !.at = history,
                                      !.data = [i \in DOMAIN page.ids |->
                                                  [e |-> page.ids[i], shown |-> Interaction(page.ids[i]), at |-> history]]]
             [] r.kind = "entry" -> [r EXCEPT !.at = history, !.data = <<Interaction(r.e)>>]
             [] OTHER -> [r EXCEPT !.next = list.cursor, !.at = history, !.rev = history,
                            !.data = [i \in DOMAIN list.ids |-> projectComment(r.e, list.ids[i])]]
     IN reads' = (reads \ {r}) \cup {answer}
  /\ UNCHANGED <<storeVars, announcing, events, feed, thread, kept, changes, crossed, doubtful, left>>

ReadRevision(r) ==
  /\ r.at # -1 /\ r.rev = -1
  /\ reads' = (reads \ {r}) \cup {[r EXCEPT !.rev = history]}
  /\ crossed' = (crossed \/ history # r.at)
  /\ UNCHANGED <<storeVars, announcing, events, feed, thread, kept, changes, doubtful, left>>

Later(a, b) == IF a > b THEN a ELSE b
Shown(entries, e, interaction, at) ==
  [i \in DOMAIN entries |-> IF entries[i].e = e THEN [e |-> e, shown |-> interaction, at |-> at] ELSE entries[i]]

FeedLoaded(r) ==
  /\ r.kind = "feed" /\ r.rev # -1
  /\ reads' = reads \ {r}
  /\ feed' = IF r.gen # feed.gen \/ ~feed.open THEN feed
             ELSE [feed EXCEPT !.entries = IF r.cursor # 0 THEN @ \o r.data ELSE r.data, !.cursor = r.next,
                               !.rev = Later(@, r.rev), !.loading = FALSE]
  /\ crossed' = (crossed \/ (r.gen = feed.gen /\ r.rev > feed.rev /\ feed.entries # <<>>))
  /\ UNCHANGED <<storeVars, announcing, events, thread, kept, changes, doubtful, left>>

\* refreshHistoryInteraction: an answer older than the feed is not shown, also when another entry's event made
\* the feed newer; when the last answer of an event has come the feed takes the event's revision.
EntryRefreshed(r) ==
  /\ r.kind = "entry" /\ r.rev # -1
  /\ reads' = reads \ {r}
  /\ LET last == r.group # 0 /\ ~\E o \in reads \ {r} : o.kind = "entry" /\ o.group = r.group
     IN feed' = [feed EXCEPT !.entries = IF r.rev < feed.rev THEN @ ELSE Shown(@, r.e, r.data[1], r.at),
                             !.rev = IF last /\ feed.open THEN Later(@, r.next) ELSE @]
  /\ crossed' = (crossed \/ (r.rev < feed.rev /\ \E i \in DOMAIN feed.entries : feed.entries[i].e = r.e /\ feed.entries[i].at < r.at))
  /\ UNCHANGED <<storeVars, announcing, events, thread, kept, changes, doubtful, left>>

CommentsLoaded(r) ==
  /\ r.kind \in {"comments", "older"} /\ r.at # -1
  /\ IF r.gen # thread.gen THEN thread' = thread /\ reads' = reads \ {r}
     ELSE LET t == [thread EXCEPT !.list = IF r.kind = "older" THEN r.data \o @ ELSE r.data, !.cursor = r.next,
                                  !.loading = FALSE, !.pending = FALSE]
          IN /\ thread' = IF thread.pending THEN loadComments(t) ELSE t
             /\ reads' = (reads \ {r}) \cup (IF thread.pending THEN CommentReads(t, FALSE) ELSE {})
  /\ UNCHANGED <<storeVars, announcing, events, feed, kept, changes, crossed, doubtful, left>>

\* A read fails: an event whose refresh failed does not count as heard, a pending load of comments follows.
ReadFails(r) ==
  /\ Take("faults") /\ crossed' = TRUE
  /\ LET t == [thread EXCEPT !.loading = FALSE, !.pending = FALSE]
         mine == r.kind \in {"comments", "older"} /\ r.gen = thread.gen
     IN /\ thread' = IF ~mine THEN thread ELSE IF thread.pending THEN loadComments(t) ELSE t
        /\ feed' = IF r.kind = "feed" /\ r.gen = feed.gen THEN [feed EXCEPT !.loading = FALSE] ELSE feed
        /\ reads' = {IF o.group = r.group THEN [o EXCEPT !.group = 0] ELSE o : o \in reads \ {r}}
                    \cup (IF mine /\ thread.pending THEN CommentReads(t, FALSE) ELSE {})
  /\ UNCHANGED <<storeVars, announcing, events, kept, changes, doubtful>>

-----------------------------------------------------------------------------
(* The page: writing.                                                      *)

Key(kind, e, c, value) == <<kind, e, c, IF kind = "moderate" THEN value ELSE "">>

MutKeep(key, value) ==
  kept' = [k \in DOMAIN kept \cup {key} |-> IF k = key THEN [op |-> left.ops, value |-> value] ELSE kept[k]]

\* getOperationId and retainWritePayload: what is kept must be sent again unchanged.
Keep(key, value) ==
  /\ key \in DOMAIN kept => kept[key].value = value
  /\ kept' = IF key \in DOMAIN kept THEN kept
             ELSE [k \in DOMAIN kept \cup {key} |-> IF k = key THEN [op |-> left.ops, value |-> value] ELSE kept[k]]
Release(key) == kept' = [k \in DOMAIN kept \ {key} |-> kept[k]]

\* What the buttons offer of a comment as it is shown.
Offered(kind, item) ==
  CASE kind = "edit" -> item.mine
    [] kind = "delete" -> item.mine \/ left.admin
    [] OTHER -> left.admin

Request(kind, e, c, value) ==
  /\ left.writes > 0 /\ kind \in left.kinds /\ feed.open
  /\ \/ kind = "add" /\ thread.e = e /\ c = 0
     \/ kind = "react" /\ c = 0 /\ \E i \in DOMAIN feed.entries : feed.entries[i].e = e
     \/ /\ kind \in {"edit", "delete", "moderate"} /\ thread.e = e
        /\ \E i \in DOMAIN thread.list : thread.list[i].c = c /\ Offered(kind, thread.list[i])
  /\ LET key == Key(kind, e, c, value)
     IN /\ ~\E w \in changes : w.key = key
        /\ Keep(key, value)
        /\ changes' = changes \cup {[key |-> key, w |-> Change(kind, 1, e, c, value, kept'[key].op), phase |-> "sent",
                                     at |-> -1, data |-> <<>>]}
  /\ left' = [left EXCEPT !.writes = @ - 1, !.ops = @ + 1]
  /\ UNCHANGED <<storeVars, announcing, events, feed, thread, reads, crossed, doubtful>>

Moved(x, phase, at, data) == changes' = (changes \ {x}) \cup {[x EXCEPT !.phase = phase, !.at = at, !.data = data]}

Executed(x) ==
  /\ x.phase = "sent"
  /\ IF Refused(x.w) /\ x.w.op \notin DOMAIN done
     THEN Moved(x, "refused", -1, <<>>) /\ UNCHANGED storeVars
     ELSE Commit(x.w) /\ Moved(x, "committed", history', <<>>)
  /\ UNCHANGED <<announcing, events, pageVars, crossed, doubtful, left>>

\* The revision, the event, and what the answer shows. A repeated addition of a comment that was deleted
\* since is answered like an unknown comment.
Answered(x) ==
  /\ x.phase = "committed"
  /\ IF done[x.w.op] THEN Published(x.w.e, x.at) ELSE UNCHANGED <<events, crossed>>
  /\ IF \/ x.w.kind = "add" /\ \A c \in Kept(x.w.e) : talk[x.w.e][c].op # x.w.op
        \/ x.w.kind = "edit" /\ Comment(x.w).status = "deleted"
     THEN Moved(x, "refused", -1, <<>>)
     ELSE Moved(x, "answered", history, <<Interaction(x.w.e)>>)
  /\ UNCHANGED <<storeVars, announcing, pageVars, doubtful, left>>

\* Success: comments and counts are read again, a reaction's answer is shown whatever came in between.
Finished(x) ==
  /\ x.phase = "answered"
  /\ changes' = changes \ {x}
  /\ Release(x.key)
  /\ left' = IF x.w.kind = "add" THEN [left EXCEPT !.draft = @ + 1] ELSE left
  /\ IF x.w.kind = "react"
     THEN /\ feed' = [feed EXCEPT !.entries = Shown(@, x.w.e, x.data[1], x.at)]
          /\ crossed' = (crossed \/ \E i \in DOMAIN feed.entries : feed.entries[i].e = x.w.e /\ feed.entries[i].at > x.at)
          /\ UNCHANGED <<thread, reads>>
     ELSE /\ thread' = loadComments(thread)
          /\ reads' = reads \cup CommentReads(thread, FALSE)
                      \cup (IF x.w.kind = "moderate" THEN {} ELSE Refreshed({x.w.e}, 0))
          /\ UNCHANGED <<feed, crossed>>
  /\ UNCHANGED <<storeVars, announcing, events, doubtful>>

\* A definite error releases the id and the payload.
Rejected(x) ==
  /\ x.phase = "refused"
  /\ changes' = changes \ {x} /\ Release(x.key)
  /\ UNCHANGED <<storeVars, announcing, events, feed, thread, reads, crossed, doubtful, left>>

\* A definite error before the request is sent or executed, the page being offline or a rate limit or the audit
\* refusing it: whether the same id was committed by an earlier attempt is not looked at.
Declined(x) ==
  /\ x.phase = "sent" /\ PressAgain
  /\ Moved(x, "refused", -1, <<>>)
  /\ doubtful' = doubtful \cup {x.w.op}
  /\ UNCHANGED <<storeVars, announcing, events, pageVars, crossed>>

\* No answer: the request was lost, or its answer. The page keeps id and payload.
Lost(x) ==
  /\ x.phase # "committed" /\ PressAgain
  /\ changes' = changes \ {x}
  /\ UNCHANGED <<storeVars, announcing, events, pageVars, crossed, doubtful>>

\* The transaction commits, and the read of the revision or of the comment after it fails: a definite error.
FailsAfterCommit(x) ==
  /\ x.phase = "committed" /\ PressAgain
  /\ Moved(x, "refused", -1, <<>>)
  /\ crossed' = TRUE /\ doubtful' = doubtful \cup {x.w.op}
  /\ UNCHANGED <<storeVars, announcing, events, pageVars>>

-----------------------------------------------------------------------------
HistoryInit ==
  /\ \E s \in HistoryScenes :
       /\ talk = s.talk
       /\ LET own == [admin |-> s.admin, kinds |-> s.kinds, theirs |-> s.theirs, ops |-> 1, draft |-> 1]
          IN left = [n \in DOMAIN own \cup DOMAIN s.bounds |-> IF n \in DOMAIN own THEN own[n] ELSE s.bounds[n]]
  /\ reacted = [e \in DOMAIN talk |-> [p \in People |-> 0]]
  /\ history = 1 /\ done = <<>> /\ announcing = {} /\ events = <<>>
  /\ feed = NoFeed /\ thread = NoThread /\ kept = <<>> /\ reads = {} /\ changes = {}
  /\ crossed = FALSE /\ doubtful = {}

\* What may be sent: the draft of a comment until it was accepted, a new text, a state, a reaction or none.
Values(kind) == CASE kind = "add" -> {left.draft} [] kind = "edit" -> {-1} [] kind = "react" -> {0, 1}
                  [] kind = "moderate" -> {"visible", "under_review"} [] OTHER -> {0}

HistoryNext ==
  \/ \E e \in HistoryEvents, kind \in {"add", "edit", "delete", "moderate", "react"} :
       \E c \in (IF kind \in {"add", "react"} THEN {0} ELSE DOMAIN talk[e]), value \in Values(kind) :
          \/ Request(kind, e, c, value)
          \/ kind \in left.theirs /\ ByOthers(Change(kind, 2, e, c, value, 0))
  \/ \E a \in announcing : Announce(a)
  \/ Resubscribed \/ HistoryEvent
  \/ \E append \in BOOLEAN : loadCompetitionHistory(append)
  \/ openCompetitionHistory \/ closeCompetitionHistory
  \/ \E e \in HistoryEvents : openComments(e)
  \/ closeComments \/ OlderComments
  \/ \E r \in reads : ReadRows(r) \/ ReadRevision(r) \/ FeedLoaded(r) \/ EntryRefreshed(r) \/ CommentsLoaded(r) \/ ReadFails(r)
  \/ \E x \in changes : Executed(x) \/ Answered(x) \/ Finished(x) \/ Rejected(x) \/ Declined(x) \/ Lost(x)
                        \/ FailsAfterCommit(x)

HistorySpec == HistoryInit /\ [][HistoryNext]_historyVars

-----------------------------------------------------------------------------
\* However often a comment is sent again after a lost request or a lost answer, what the person wrote is there
\* once: its id and its text are kept until the outcome is known. One of two equal comments may be there all the
\* same when its id was given up on a definite error that says nothing of it: a repeated request refused before it
\* was sent or executed (bewerbeList.js:244-248, dataClient.js:331-335, dataProvider.js:1969, 2009), or an error
\* after the commit.
CommentedOnce ==
  \A e \in HistoryEvents : \A c, d \in Kept(e) :
     (/\ talk[e][c].by = 1 /\ talk[e][d].by = 1 /\ talk[e][c].text = talk[e][d].text /\ talk[e][c].text > 0
      /\ {talk[e][c].op, talk[e][d].op} \cap doubtful = {}) => c = d

Still == events = <<>> /\ announcing = {} /\ reads = {} /\ changes = {} /\ ~crossed /\ feed.open

\* Once nothing is under way the open feed shows each entry once with the counts and the reaction the database
\* has, and the open comments are those that are not deleted, with their present text and state; nothing is
\* missing when no further page is offered. Not promised when something has `crossed`, because the page keeps one
\* revision for all of its entries: the announced revision was read after somebody else's later write
\* (postgresMessagingService.js:65-73); rows and revision of an answer were read with a write in between (:192-225);
\* an event overtook the load of the feed; a further page, or a load of a feed that shows entries, raised the
\* feed's revision, so that an event for an entry already shown is dropped (bewerbeList.js:926, 1039); the answer
\* for one entry was dropped because another entry's event had made the feed newer; the answer to a reaction was
\* shown over a newer one; a read failed; or an error came after a commit.
HistorySettles ==
  Still =>
     LET entries == ToSet(feed.entries) comments == ToSet(thread.list)
     IN /\ \A i \in DOMAIN feed.entries : feed.entries[i].shown = Interaction(feed.entries[i].e)
        /\ \A i, j \in DOMAIN feed.entries : feed.entries[i].e = feed.entries[j].e => i = j
        /\ (entries # {} /\ feed.cursor = 0) => {x.e : x \in entries} = HistoryEvents
        /\ \A x \in comments : x.c \in Kept(thread.e) /\ x = projectComment(thread.e, x.c)
        /\ \A i, j \in DOMAIN thread.list : thread.list[i].c = thread.list[j].c => i = j
        /\ (thread.e # 0 /\ thread.cursor = 0) => {x.c : x \in comments} = Kept(thread.e)
================================================================================
