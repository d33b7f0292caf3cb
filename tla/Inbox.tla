--------------------------------- MODULE Inbox ---------------------------------
(***************************************************************************)
(* The personal messages of one person: what the database keeps for each   *)
(* of them, the summary (unread count and revision) that is published      *)
(* after an acknowledgement, and the page that shows the count on its      *)
(* badge and, while the profile is open, the list of the messages.         *)
(* Messages are numbered in the order of their creation. Other devices of  *)
(* the same person only write.                                             *)
(***************************************************************************)
EXTENDS Integers, FiniteSets, SequencesExt

CONSTANTS InboxScenes,  \* [box, bounds]: what the person has received before, a sequence of [read, acked], and
                        \* the bounds: new messages, writes here and elsewhere, faults, opened profiles
          PageSize      \* messages per load (50 in the page)

ASSUME InboxAssumption == PageSize \in Nat \ {0}

VARIABLES
  box,        \* the messages and their receipts: [read, acked]
  revision,   \* user_revisions of the person
  past,       \* for each revision the unread count, the messages there were, and whether a message made it
  publishing, \* summaries being published: a revision of -1 has not read it yet
  channel,    \* events on the way to the page
  badge,      \* [count, rev, gen] of the navigation bar
  asks,       \* the page's requests for a summary: [kind, gen, answer]
  generation, \* profileRequestGeneration
  panel,      \* messageState of the open profile
  loads,      \* requests for a page of messages
  detail,     \* the message whose details are open with the button shown, or 0
  writes,     \* acknowledgements under way: [of (0: all), answer]
  excused,    \* reads and writes crossed in one of the ways the page does not handle
  spare       \* what the bounds leave

inboxVars == <<box, revision, past, publishing, channel, badge, asks, generation, panel, loads, detail, writes,
               excused, spare>>
serverVars == <<box, revision, past, publishing>>

-----------------------------------------------------------------------------
Unread(b) == Cardinality({m \in DOMAIN b : ~b[m].read})
Summary == [rev |-> revision, unread |-> Unread(box)]
Unasked == [rev |-> -1, unread |-> 0]

\* The order of the list: open messages before acknowledged ones, newest first.
Above(b, m, n) == \/ ~b[m].acked /\ b[n].acked
                  \/ b[m].acked = b[n].acked /\ m > n
\* One page of it, after the message the cursor names, by the state that message has now.
InboxPage(b, before) ==
  LET rows == SetToSortSeq({m \in DOMAIN b : before = 0 \/ Above(b, before, m)}, LAMBDA m, n : Above(b, m, n))
      page == IF Len(rows) > PageSize THEN SubSeq(rows, 1, PageSize) ELSE rows
  IN [messages |-> [i \in DOMAIN page |-> [id |-> page[i], acked |-> b[page[i]].acked]],
      cursor |-> IF Len(rows) > PageSize THEN Last(page) ELSE 0]

\* A write of the box: the next revision, and what the person had at it.
Bump(b, new) ==
  /\ box' = b
  /\ revision' = revision + 1
  /\ past' = Append(past, [unread |-> Unread(b), size |-> Len(b), new |-> new])

Spend(what) == spare[what] > 0 /\ spare' = [spare EXCEPT ![what] = @ - 1]
Fault == Spend("faults") /\ excused' = TRUE

\* An event of the domain: a receipt for each recipient, read already for the acting person, acknowledged
\* for nobody. Its invalidation makes the server refresh a projection and publishes nothing to the person.
createEvent(read) ==
  /\ Spend("new")
  /\ Bump(Append(box, [read |-> read, acked |-> FALSE]), TRUE)
  /\ UNCHANGED <<publishing, channel, badge, asks, generation, panel, loads, detail, writes, excused>>

\* What an acknowledgement of one message, or of all (0), leaves.
Acknowledged(b, of) == [m \in DOMAIN b |-> IF of \in {0, m} THEN [read |-> TRUE, acked |-> TRUE] ELSE b[m]]
Open(b, of) == {m \in DOMAIN b : of \in {0, m} /\ ~b[m].acked}

\* The transaction: nothing changes, and nothing is published, when all of it is acknowledged already.
acknowledgeOn(of) ==
  \/ /\ Open(box, of) # {}
     /\ Bump(Acknowledged(box, of), FALSE)
     /\ publishing' = Append(publishing, Unasked)
  \/ Open(box, of) = {} /\ UNCHANGED serverVars

AckElsewhere(of) ==
  /\ Spend("elsewhere") /\ Open(box, of) # {}
  /\ acknowledgeOn(of)
  /\ UNCHANGED <<channel, badge, asks, generation, panel, loads, detail, writes, excused>>

\* publishSummary: a separate read after the commit, and the event; a failure is logged and forgotten.
publishSummary(i) ==
  /\ \/ /\ publishing[i].rev = -1
        /\ publishing' = [publishing EXCEPT ![i] = Summary] /\ UNCHANGED <<channel, excused, spare>>
     \/ /\ publishing[i].rev # -1
        /\ publishing' = RemoveAt(publishing, i) /\ channel' = Append(channel, publishing[i])
        /\ UNCHANGED <<excused, spare>>
     \/ publishing' = RemoveAt(publishing, i) /\ UNCHANGED channel /\ Fault
  /\ UNCHANGED <<box, revision, past, badge, asks, generation, panel, loads, detail, writes>>

\* The connection breaks and is made again: events on the way are lost, the subscription gets a snapshot.
sendSubscriptionSnapshot ==
  /\ Spend("faults")
  /\ channel' = <<Summary>>
  /\ UNCHANGED <<serverVars, badge, asks, generation, panel, loads, detail, writes, excused>>

-----------------------------------------------------------------------------
(* The page.                                                               *)

Closed == [open |-> FALSE, loaded |-> FALSE, loading |-> FALSE, alling |-> FALSE, messages |-> <<>>, cursor |-> 0,
           rev |-> -1, unread |-> 0]
LoadOf(p, append) == [gen |-> generation, append |-> append, cursor |-> IF append THEN p.cursor ELSE 0,
                      page |-> <<>>, next |-> 0, at |-> -1, answer |-> Unasked]

\* loadMessages returns at once while a load is under way.
loadMessages(p, append) ==
  IF p.loading THEN panel' = p /\ UNCHANGED loads
  ELSE panel' = [p EXCEPT !.loading = TRUE] /\ loads' = loads \cup {LoadOf(p, append)}

\* A load under way is about to show less than this summary says; no other load will follow it.
Behind(summary) == \E l \in loads : l.gen = generation /\ (l.append \/ {l.at, l.answer.rev} \cap 0..(summary.rev - 1) # {})

MutPanelHears(summary) ==
  IF ~panel.open THEN UNCHANGED <<panel, loads>>
  ELSE LET p == [panel EXCEPT !.unread = summary.unread]
       IN IF p.loaded /\ summary.unread # panel.unread THEN loadMessages(p, FALSE) ELSE panel' = p /\ UNCHANGED loads

\* The panel hears of a summary; the list is loaded again when its revision is another one.
panelHears(summary) ==
  IF ~panel.open THEN UNCHANGED <<panel, loads>>
  ELSE LET p == [panel EXCEPT !.unread = summary.unread]
       IN IF p.loaded /\ summary.rev # p.rev THEN loadMessages(p, FALSE) ELSE panel' = p /\ UNCHANGED loads

MutSetMessageCount(summary, gen) ==
  /\ badge' = [count |-> summary.unread, rev |-> summary.rev, gen |-> gen]
  /\ panelHears(summary)
  /\ excused' = (excused \/ (panel.open /\ Behind(summary)))

\* An older revision than the last one shown is ignored.
setMessageCount(summary, gen) ==
  IF summary.rev < badge.rev
  THEN UNCHANGED <<badge, panel, loads, excused>>
  ELSE /\ badge' = [count |-> summary.unread, rev |-> summary.rev, gen |-> gen]
       /\ panelHears(summary)
       /\ excused' = (excused \/ (panel.open /\ Behind(summary)))

MessageEvent ==
  /\ channel # <<>>
  /\ channel' = Tail(channel)
  /\ setMessageCount(Head(channel), badge.gen + 1)
  /\ UNCHANGED <<serverVars, asks, generation, detail, writes, spare>>

Asking(kind, gen) == [kind |-> kind, gen |-> gen, answer |-> Unasked]

\* The server reads the summary an answer carries.
ReadSummary(a) ==
  /\ a.answer = Unasked
  /\ asks' = (asks \ {a}) \cup {[a EXCEPT !.answer = Summary]}
  /\ UNCHANGED <<serverVars, channel, badge, generation, panel, loads, detail, writes, excused, spare>>

\* refreshMessageSummary: answers of older generations are dropped, a failure keeps the last count.
RefreshDone(a) ==
  /\ a.kind = "badge"
  /\ asks' = asks \ {a}
  /\ \/ /\ a.answer # Unasked /\ a.gen = badge.gen
        /\ setMessageCount(a.answer, badge.gen) /\ UNCHANGED spare
     \/ a.answer # Unasked /\ a.gen # badge.gen /\ UNCHANGED <<badge, panel, loads, excused, spare>>
     \/ Fault /\ UNCHANGED <<badge, panel, loads>>
  /\ UNCHANGED <<serverVars, channel, generation, detail, writes>>

OpenProfile ==
  /\ ~panel.open /\ ~\E a \in asks : a.kind = "profile"
  /\ Spend("opens")
  /\ generation' = generation + 1
  /\ asks' = asks \cup {Asking("profile", generation + 1)}
  /\ UNCHANGED <<serverVars, channel, badge, panel, loads, detail, writes, excused>>

\* The summary of the tab's label, with no count when it cannot be read.
ProfileShown(a) ==
  /\ a.kind = "profile"
  /\ asks' = asks \ {a}
  /\ \/ /\ a.answer # Unasked /\ a.gen = generation /\ UNCHANGED <<excused, spare>>
        /\ panel' = [Closed EXCEPT !.open = TRUE, !.rev = a.answer.rev, !.unread = a.answer.unread]
     \/ a.gen = generation /\ Fault /\ panel' = [Closed EXCEPT !.open = TRUE]
     \/ a.gen # generation /\ UNCHANGED <<panel, excused, spare>>
  /\ UNCHANGED <<serverVars, channel, badge, generation, loads, detail, writes>>

CloseProfile ==
  /\ panel.open \/ \E a \in asks : a.kind = "profile" /\ a.gen = generation
  /\ generation' = generation + 1
  /\ panel' = Closed /\ detail' = 0
  /\ UNCHANGED <<serverVars, channel, badge, asks, loads, writes, excused, spare>>

\* The tab is shown for the first time, or "Weitere Meldungen laden" is pressed.
LoadList(append) ==
  /\ panel.open /\ ~panel.loading
  /\ IF append THEN panel.loaded /\ panel.cursor # 0 ELSE ~panel.loaded
  /\ loadMessages(panel, append)
  /\ UNCHANGED <<serverVars, channel, badge, asks, generation, detail, writes, excused, spare>>

\* The server reads the page and the summary in two queries, in either order. A write between them gives an
\* older page the newer revision.
ReadMessages(l) ==
  /\ \/ /\ l.at = -1
        /\ LET page == InboxPage(box, l.cursor)
           IN loads' = (loads \ {l}) \cup {[l EXCEPT !.page = page.messages, !.next = page.cursor, !.at = revision]}
        /\ UNCHANGED excused
     \/ /\ l.answer = Unasked
        /\ loads' = (loads \ {l}) \cup {[l EXCEPT !.answer = Summary]}
        /\ excused' = (excused \/ l.at \in 0..(revision - 1))
  /\ UNCHANGED <<serverVars, channel, badge, asks, generation, panel, detail, writes, spare>>

\* The answer, shown only in the profile that asked; whoever is open stops waiting for a load. An added page
\* brings its revision to the pages before it.
MessagesLoaded(l) ==
  /\ loads' = loads \ {l}
  /\ \/ /\ l.at # -1 /\ l.answer # Unasked /\ l.gen = generation /\ panel.open
        /\ panel' = [panel EXCEPT !.messages = IF l.append THEN @ \o l.page ELSE l.page, !.cursor = l.next,
                                  !.unread = l.answer.unread, !.rev = l.answer.rev,
                                  !.loaded = TRUE, !.loading = FALSE]
        /\ excused' = (excused \/ (l.append /\ {l.at, l.answer.rev} # {panel.rev}))
        /\ UNCHANGED spare
     \/ /\ l.at # -1 /\ l.answer # Unasked /\ l.gen # generation
        /\ panel' = [panel EXCEPT !.loading = FALSE]
        /\ excused' = (excused \/ panel.loading) /\ UNCHANGED spare
     \/ panel' = [panel EXCEPT !.loading = FALSE] /\ Fault
  /\ UNCHANGED <<serverVars, channel, badge, asks, generation, detail, writes>>

\* The details of a listed message; the button is offered when it is open in the database.
openMessageDetail(m) ==
  /\ panel.open /\ detail = 0 /\ writes = {}
  /\ \E e \in ToSet(panel.messages) : e.id = m
  /\ ~box[m].acked
  /\ detail' = m
  /\ UNCHANGED <<serverVars, channel, badge, asks, generation, panel, loads, writes, excused, spare>>

NoAnswer == [done |-> FALSE, rev |-> -1, unread |-> 0]

\* The button of one message, or "Alle als gelesen markieren".
Acknowledge(of) ==
  /\ Spend("writes")
  /\ IF of = 0 THEN /\ panel.open /\ detail = 0 /\ ~panel.loading /\ ~panel.alling /\ panel.unread > 0
                    /\ panel' = [panel EXCEPT !.alling = TRUE]
               ELSE detail = of /\ (\A w \in writes : w.of # of) /\ UNCHANGED panel
  /\ writes' = writes \cup {[of |-> of, answer |-> NoAnswer]}
  /\ UNCHANGED <<serverVars, channel, badge, asks, generation, loads, detail, excused>>

AckCommits(w) ==
  /\ ~w.answer.done
  /\ acknowledgeOn(w.of)
  /\ writes' = (writes \ {w}) \cup {[w EXCEPT !.answer = [done |-> TRUE, rev |-> revision', unread |-> Unread(box')]]}
  /\ UNCHANGED <<channel, badge, asks, generation, panel, loads, detail, excused, spare>>

Marked(messages, of) == [i \in DOMAIN messages |-> IF of \in {0, messages[i].id} THEN [messages[i] EXCEPT !.acked = TRUE]
                                                   ELSE messages[i]]
\* The answer to one message has no count and no revision: the page takes one off its count. The answer to
\* all has both, and says nothing of messages the list has not; when the profile was closed meanwhile its handler
\* fails before it asks for the badge.
AckShown(w) ==
  /\ w.answer.done
  /\ writes' = writes \ {w}
  /\ detail' = IF w.of = 0 THEN detail ELSE 0
  /\ IF w.of = 0 /\ ~panel.open THEN UNCHANGED <<badge, asks>>
     ELSE badge' = [badge EXCEPT !.gen = @ + 1] /\ asks' = asks \cup {Asking("badge", badge.gen + 1)}
  /\ panel' = IF ~panel.open THEN panel
              ELSE IF w.of = 0
              THEN [panel EXCEPT !.messages = Marked(@, 0), !.unread = w.answer.unread, !.rev = w.answer.rev,
                                 !.alling = FALSE]
              ELSE [panel EXCEPT !.messages = Marked(@, w.of), !.unread = IF @ = 0 THEN 0 ELSE @ - 1]
  /\ excused' = (excused \/ (w.of = 0 /\ panel.open /\ (panel.cursor # 0 \/ w.answer.rev # panel.rev + 1 \/ panel.loading)))
  /\ UNCHANGED <<serverVars, channel, generation, loads, spare>>

\* The request fails, before or after its transaction; the button can be pressed again.
AckFails(w) ==
  /\ Fault
  /\ writes' = writes \ {w}
  /\ panel' = IF w.of = 0 THEN [panel EXCEPT !.alling = FALSE] ELSE panel
  /\ UNCHANGED <<serverVars, channel, badge, asks, generation, loads, detail>>

InboxInit ==
  /\ \E s \in InboxScenes : box = s.box /\ spare = s.bounds
  /\ revision = 1
  /\ past = <<[unread |-> Unread(box), size |-> Len(box), new |-> TRUE]>>
  /\ publishing = <<>> /\ channel = <<[rev |-> 1, unread |-> Unread(box)]>>
  /\ badge = [count |-> 0, rev |-> -1, gen |-> 1]
  /\ asks = {Asking("badge", 1)}
  /\ generation = 0 /\ panel = Closed /\ loads = {} /\ detail = 0 /\ writes = {}
  /\ excused = FALSE

InboxNext ==
  \/ \E read \in BOOLEAN : createEvent(read)
  \/ \E of \in {0} \cup DOMAIN box : AckElsewhere(of) \/ Acknowledge(of)
  \/ \E i \in DOMAIN publishing : publishSummary(i)
  \/ sendSubscriptionSnapshot \/ MessageEvent
  \/ \E a \in asks : ReadSummary(a) \/ RefreshDone(a) \/ ProfileShown(a)
  \/ OpenProfile \/ CloseProfile
  \/ \E append \in BOOLEAN : LoadList(append)
  \/ \E l \in loads : ReadMessages(l) \/ MessagesLoaded(l)
  \/ \E m \in DOMAIN box : openMessageDetail(m)
  \/ \E w \in writes : AckCommits(w) \/ AckShown(w) \/ AckFails(w)

InboxSpec == InboxInit /\ [][InboxNext]_inboxVars

-----------------------------------------------------------------------------
Quiet == publishing = <<>> /\ channel = <<>> /\ asks = {} /\ loads = {} /\ writes = {}

\* The badge never mixes two moments: its count is the unread count the database had at its revision, whatever
\* the order in which events, snapshots and answers of two refreshes arrive. Once nothing is under way and
\* nothing is `excused`, it misses no acknowledgement; new messages are the only ones it may not know.
BadgeTrue ==
  /\ badge.rev # -1 => badge.count = past[badge.rev].unread
  /\ Quiet /\ ~excused => \A r \in (badge.rev + 1)..revision : past[r].new

\* Once nothing is under way, the open list shows each message once and with the state it has in the database,
\* it is complete for its revision when no further page is offered, and the tab counts as the badge does.
\* `excused`: an event came while a load that shows less was under way (modals.js:2028); the page and the summary
\* of an answer were read with a write in between; a further page brought its own revision to the pages before
\* it; a load of a profile since closed ended the waiting of the new one; "all" was answered to a list that was
\* incomplete, loading or behind other writes; or a request failed.
ListSettles ==
  (Quiet /\ ~excused /\ panel.open /\ panel.loaded) =>
     /\ \A i, j \in DOMAIN panel.messages : panel.messages[i].id = panel.messages[j].id => i = j
     /\ \A e \in ToSet(panel.messages) : e.acked = box[e.id].acked
     /\ panel.cursor = 0 => 1..past[panel.rev].size \subseteq {e.id : e \in ToSet(panel.messages)}
     /\ panel.rev = badge.rev => panel.unread = badge.count
================================================================================
