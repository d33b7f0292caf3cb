------------------------------- MODULE MCPersonal -------------------------------
(***************************************************************************)
(* What a person has for himself, and what his page reports, for TLC.      *)
(***************************************************************************)
EXTENDS Inbox, History, Preferences, Diagnostics, TLC

Message(read, acked) == [read |-> read, acked |-> acked]
Box(b, n, w, e, f, o) ==
  [box |-> b, bounds |-> [new |-> n, writes |-> w, elsewhere |-> e, faults |-> f, opens |-> o]]
Two == <<Message(FALSE, FALSE), Message(TRUE, TRUE)>>
SmallInboxes == {Box(Two, 0, 1, 1, 0, 1), Box(<<Message(TRUE, FALSE)>>, 1, 1, 0, 0, 1),
                 Box(<<Message(FALSE, FALSE)>>, 0, 1, 0, 1, 1), Box(Two, 0, 0, 1, 0, 2),
                 Box(<<Message(FALSE, FALSE), Message(FALSE, FALSE)>>, 0, 0, 2, 0, 0)}

-----------------------------------------------------------------------------
Said(by, text) == [by |-> by, text |-> text, status |-> "visible", op |-> 0]
Talk(comments, admin, kinds, theirs, w, o, f, l, t) ==
  [talk |-> comments, admin |-> admin, kinds |-> kinds, theirs |-> theirs,
   bounds |-> [writes |-> w, others |-> o, faults |-> f, losses |-> l, opens |-> 1, threads |-> t, subscribed |-> kinds = {}]]
Ours == <<<<Said(2, -9), Said(1, -8)>>>>
Quarrel == Talk(Ours, TRUE, {"edit", "delete", "moderate"}, {"delete", "moderate"}, 1, 1, 0, 0, 1)
Sending == Talk(<<<<>>>>, FALSE, {"add"}, {}, 2, 0, 1, 0, 1)
Retrying == Talk(<<<<>>>>, FALSE, {"add"}, {}, 1, 0, 1, 1, 1)
Insisting == Talk(<<<<>>>>, FALSE, {"add"}, {}, 1, 0, 0, 2, 1)
Reacting == Talk(<<<<>>>>, FALSE, {"react"}, {"react"}, 2, 1, 0, 0, 0)
Watching == Talk(<<<<>>, <<>>>>, FALSE, {}, {"add"}, 0, 2, 0, 0, 0)
Reading == Talk(Ours, FALSE, {}, {"add", "delete", "moderate"}, 0, 1, 1, 0, 2)
SmallHistories == {Quarrel, Sending, Retrying, Insisting, Reacting, Watching, Reading}

-----------------------------------------------------------------------------
Document(k, rev, items, targets, c, f, s, h) ==
  [kind |-> k, rev |-> rev, items |-> items,
   bounds |-> [clicks |-> c, faults |-> f, switches |-> s, hides |-> h, targets |-> targets]]
SmallPreferences ==
  {Document("favourites", 1, <<1, 2>>, {1, 2}, 2, 1, 0, 0), Document("favourites", 1, <<1>>, {1, 2}, 2, 0, 1, 0),
   Document("favourites", 1, <<1, 3, 2>>, {1, 2}, 2, 0, 0, 1), Document("start", 0, <<0>>, {2}, 2, 1, 0, 0),
   Document("start", 1, <<1>>, {2}, 2, 0, 1, 0), Document("start", 1, <<1>>, {1, 2}, 1, 0, 0, 2),
   Document("start", 1, <<1>>, {2}, 1, 0, 2, 0)}

-----------------------------------------------------------------------------
Policy(severe, batch, timed) == [on |-> TRUE, severe |-> severe, batch |-> batch, timed |-> timed]
SmallRules == {Policy(FALSE, 2, FALSE), Policy(TRUE, 1, TRUE)}
Day(e, a, f, h, c) ==
  [events |-> e, asks |-> a, faults |-> f, hides |-> h, changes |-> c]
SmallDays == {Day(3, 2, 1, 0, 0), Day(3, 1, 2, 1, 0), Day(4, 1, 1, 0, 0), Day(2, 2, 1, 1, 1)}

-----------------------------------------------------------------------------
VARIABLE side       \* the part that moves

vars == <<side, inboxVars, historyVars, prefVars, diagnosticsVars>>
StillInbox == Len(box) = 1 /\ spare.new = 1
StillHistory == left.losses = 2
StillPreferences == kind = "start" /\ budget.hides = 2
StillDiagnostics == room.events = 4 /\ served = NoRules
Init == /\ InboxInit /\ HistoryInit /\ PreferencesInit /\ DiagnosticsInit
        /\ \/ side = "inbox" /\ StillHistory /\ StillPreferences /\ StillDiagnostics
           \/ side = "history" /\ StillInbox /\ StillPreferences /\ StillDiagnostics
           \/ side = "preferences" /\ StillInbox /\ StillHistory /\ StillDiagnostics
           \/ side = "diagnostics" /\ StillInbox /\ StillHistory /\ StillPreferences
Next == \/ side = "inbox" /\ InboxNext /\ UNCHANGED <<side, historyVars, prefVars, diagnosticsVars>>
        \/ side = "history" /\ HistoryNext /\ UNCHANGED <<side, inboxVars, prefVars, diagnosticsVars>>
        \/ side = "preferences" /\ PreferencesNext /\ UNCHANGED <<side, inboxVars, historyVars, diagnosticsVars>>
        \/ side = "diagnostics" /\ DiagnosticsNext /\ UNCHANGED <<side, inboxVars, historyVars, prefVars>>
Spec == Init /\ [][Next]_vars

-----------------------------------------------------------------------------
\* Once nothing is under way any more, the badge, the open list and the open history show what the
\* database holds, each as far as its own module states it.
PagesSettle == BadgeTrue /\ ListSettles /\ HistorySettles
================================================================================
