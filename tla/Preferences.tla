------------------------------- MODULE Preferences -------------------------------
(***************************************************************************)
(* A person's favourites, and his start page: a document of his account    *)
(* that the database replaces as a whole when the revision still is the    *)
(* one the page has seen.  Several tabs show it and tell one another when  *)
(* they have saved it (favorites.js, startPreference.js,                   *)
(* postgresPreferenceService.js).                                          *)
(*                                                                         *)
(* Both pages work alike and differ in their guards; `kind` says which of  *)
(* the two a behaviour is about.                                           *)
(***************************************************************************)
EXTENDS Naturals, Sequences, FiniteSets, SequencesExt

CONSTANTS PreferenceScenes,
          RoleHidden        \* targets which the person's role does not show

VARIABLES kind,             \* "favourites" or "start"
          prefs,            \* account -> [rev, items]; a start page is a list of one
          executed,         \* the responses kept for the operation ids
          hidden,           \* hall time grids nobody but their group may see at present
          tabs,             \* what each tab has in memory
          clicks,           \* mutationQueue of each tab
          saves, fetches,   \* requests under way
          posted,           \* messages of the BroadcastChannel on their way to each tab
          budget,           \* bounds: clicks, faults, switches, hides, and the targets clicked
          stumbled,         \* an answer was lost, or overtaken in a way the page does not notice
          misled            \* a start page took the answer to a write that went out as another person

ASSUME PreferenceScenesAssumption ==
  \A scene \in PreferenceScenes :
    /\ scene.kind \in {"favourites", "start"} /\ scene.rev \in Nat
    /\ scene.rev = 0 => scene.items = IF scene.kind = "start" THEN <<0>> ELSE <<>>

prefVars == <<kind, prefs, executed, hidden, tabs, clicks, saves, fetches, posted, budget, stumbled, misled>>
accountVars == <<prefs, executed, hidden>>

Tabs == 1..2
Accounts == 1..2
Nobody == 0
Default == <<0>>            \* the dashboard
SpendPref(what) == budget[what] > 0 /\ budget' = [budget EXCEPT ![what] = @ - 1]
Empty == IF kind = "start" THEN Default ELSE <<>>

-----------------------------------------------------------------------------
\* The document.
Toggle(items, x) == IF Contains(items, x) THEN Remove(items, x) ELSE Append(items, x)
Movable(items) == SelectSeq(items, LAMBDA x : x \notin RoleHidden)
Reordered(items, ids) ==
  [i \in DOMAIN items |-> IF items[i] \in RoleHidden THEN items[i]
                          ELSE ids[Cardinality({j \in 1..i : items[j] \notin RoleHidden})]]
Possible(c, items) == c.what = "move" => ToSet(c.ids) = ToSet(Movable(items))
buildNext(c, items) == CASE c.what = "toggle" -> Toggle(items, c.ids[1])
                     [] c.what = "move" -> Reordered(items, c.ids)
                     [] c.what = "set" -> c.ids
Visible(items, hid) == SelectSeq(items, LAMBDA x : x \notin hid)
Displayed(items, hid) ==
  IF ToSet(items) \cap hid = {} THEN items
  ELSE IF kind = "start" THEN Default ELSE Visible(items, hid)

-----------------------------------------------------------------------------
\* Loading empties the page first.
Blank(tab, who) == [tab EXCEPT !.id = who, !.items = Empty, !.rev = 0, !.hid = {}, !.gen = @ + 1,
                               !.loading = who # Nobody, !.ready = who = Nobody]
loadForUser(t, tab) ==
  /\ tabs' = [tabs EXCEPT ![t] = Blank(tab, tab.user)]
  /\ fetches' = fetches \cup (IF tab.user = Nobody THEN {}
                              ELSE {[tab |-> t, gen |-> tab.gen + 1, who |-> tab.user, at |-> "asked",
                                     rev |-> 0, items |-> <<>>, hid |-> {}]})

\* The session of the tab becomes another person's, or nobody's.  The start page keeps its generation on a logout.
Authenticated(t) ==
  \E u \in Accounts \cup {Nobody} :
    /\ u # tabs[t].user /\ SpendPref("switches")
    /\ LET tab == [tabs[t] EXCEPT !.user = u]
       IN IF u = Nobody /\ kind = "start"
          THEN tabs' = [tabs EXCEPT ![t] = [Blank(tab, u) EXCEPT !.gen = tab.gen]] /\ UNCHANGED fetches
          ELSE loadForUser(t, tab)
    /\ UNCHANGED <<kind, accountVars, clicks, saves, posted, stumbled, misled>>

\* Grids the person may not see are left out, the revision stays that of the whole list.
ReadPreferences(f) ==
  /\ f.at = "asked"
  /\ fetches' = (fetches \ {f}) \cup {[f EXCEPT !.at = "answered", !.rev = prefs[f.who].rev, !.hid = hidden,
                                               !.items = Displayed(prefs[f.who].items, hidden)]}
  /\ UNCHANGED <<kind, accountVars, tabs, clicks, saves, posted, budget, stumbled, misled>>

\* Whoever awaited the load goes on, whether its answer was shown or not.
Awoken(tab, f) == IF tab.waits = f.gen THEN [tab EXCEPT !.waits = 0, !.waited = TRUE] ELSE tab
Loaded(f) ==
  LET tab == tabs[f.tab]
      taken == f.gen = tab.gen /\ tab.user = f.who
      shown == [tab EXCEPT !.id = f.who, !.items = f.items, !.rev = f.rev, !.hid = f.hid, !.loading = FALSE, !.ready = TRUE]
  IN /\ f.at = "answered" /\ fetches' = fetches \ {f}
     /\ tabs' = [tabs EXCEPT ![f.tab] = Awoken(IF taken THEN shown ELSE tab, f)]
     /\ stumbled' = (stumbled \/ (taken /\ f.rev < tab.rev))
     /\ UNCHANGED <<kind, accountVars, clicks, saves, posted, budget, misled>>

\* Only the latest load reports its failure, and a click that awaited it fails with it.
LoadFails(f) ==
  LET tab == tabs[f.tab]
      latest == f.gen = tab.gen
      failed == [tab EXCEPT !.id = f.who, !.items = Empty, !.rev = 0, !.loading = FALSE, !.ready = FALSE]
  IN /\ SpendPref("faults") /\ stumbled' = TRUE /\ fetches' = fetches \ {f}
     /\ tabs' = [tabs EXCEPT ![f.tab] = IF ~latest THEN Awoken(tab, f)
                                        ELSE IF tab.waits = f.gen THEN [failed EXCEPT !.waits = 0, !.busy = FALSE]
                                        ELSE failed]
     /\ clicks' = IF latest /\ tab.waits = f.gen THEN [clicks EXCEPT ![f.tab] = Tail(@)] ELSE clicks
     /\ UNCHANGED <<kind, accountVars, saves, posted, misled>>

-----------------------------------------------------------------------------
\* The queue of the tab's own changes.
OfferedChanges(tab, items) ==
  IF kind = "start" THEN {[who |-> tab.user, what |-> "set", ids |-> <<x>>] : x \in items}
  ELSE IF ~tab.ready THEN {}
  ELSE {[who |-> tab.user, what |-> "toggle", ids |-> <<x>>] : x \in items}
         \cup (LET m == Movable(tab.items) IN IF Len(m) < 2 THEN {} ELSE {[who |-> tab.user, what |-> "move", ids |-> Reverse(m)]})
Click(t, items) ==
  /\ tabs[t].user # Nobody /\ SpendPref("clicks")
  /\ \E c \in OfferedChanges(tabs[t], items) : clicks' = [clicks EXCEPT ![t] = Append(@, c)]
  /\ UNCHANGED <<kind, accountVars, tabs, saves, fetches, posted, stumbled, misled>>

Drop(t) == clicks' = [clicks EXCEPT ![t] = Tail(@)]
ClickRejected(t) ==
  LET tab == tabs[t] c == Head(clicks[t])
  IN /\ kind = "favourites" /\ clicks[t] # <<>> /\ ~tab.busy
     /\ ~(tab.id = c.who /\ tab.user = c.who /\ tab.ready /\ Possible(c, tab.items))
     /\ Drop(t)
     /\ UNCHANGED <<kind, accountVars, tabs, saves, fetches, posted, budget, stumbled, misled>>

\* A start page that is not there yet is loaded first; the load is that of whoever is logged in now.
LoadsFirst(t) ==
  LET tab == tabs[t] c == Head(clicks[t])
  IN /\ kind = "start" /\ clicks[t] # <<>> /\ ~tab.busy /\ ~(tab.id = c.who /\ tab.ready)
     /\ \/ /\ tab.user # Nobody /\ tab.id = tab.user /\ tab.ready
           /\ tabs' = [tabs EXCEPT ![t] = [tab EXCEPT !.busy = TRUE, !.waited = TRUE]] /\ UNCHANGED fetches
        \/ tab.user = Nobody /\ loadForUser(t, [tab EXCEPT !.busy = TRUE, !.waited = TRUE])
        \/ /\ tab.user # Nobody /\ ~(tab.id = tab.user /\ tab.ready)
           /\ loadForUser(t, [tab EXCEPT !.busy = TRUE, !.waits = tab.gen + 1])
     /\ UNCHANGED <<kind, accountVars, clicks, saves, posted, budget, stumbled, misled>>

\* An id is kept for the same change at the same revision until its outcome is known.
ChangeKey(c, tab) == <<c.who, tab.rev, buildNext(c, tab.items)>>
OperationId(tab, key) == IF \E k \in tab.ids : k.key = key THEN (CHOOSE k \in tab.ids : k.key = key).n ELSE tab.made + 1
Save(t) ==
  LET tab == tabs[t] c == Head(clicks[t]) key == ChangeKey(c, tab) n == OperationId(tab, key)
  IN /\ clicks[t] # <<>>
     /\ IF kind = "favourites"
        THEN ~tab.busy /\ tab.id = c.who /\ tab.user = c.who /\ tab.ready /\ Possible(c, tab.items)
        ELSE tab.waited \/ (~tab.busy /\ tab.id = c.who /\ tab.ready)
     /\ tabs' = [tabs EXCEPT ![t] = [tab EXCEPT !.busy = TRUE, !.waited = FALSE, !.ids = @ \cup {[key |-> key, n |-> n]},
                                                !.made = IF n > @ THEN n ELSE @]]
     /\ saves' = saves \cup {[tab |-> t, n |-> n, key |-> key, owner |-> c.who, who |-> tab.user, rev |-> tab.rev,
                              base |-> tab.items, hid |-> tab.hid, next |-> key[3], at |-> "sent", awaited |-> TRUE,
                              answer |-> [outcome |-> "none", rev |-> 0, items |-> <<>>]]}
     /\ UNCHANGED <<kind, accountVars, clicks, fetches, posted, budget, stumbled, misled>>

-----------------------------------------------------------------------------
\* The server.
Outcome(o) == [outcome |-> o, rev |-> 0, items |-> <<>>]
MutCurrent(s) == s.rev <= prefs[s.who].rev
Current(s) == s.rev = prefs[s.who].rev
Written(s) == [rev |-> s.rev + 1, items |-> s.next]
Answer(s, a) == saves' = (saves \ {s}) \cup (IF s.awaited THEN {[s EXCEPT !.at = "answered", !.answer = a]} ELSE {})
\* A known id answers the person who used it first as before, and nobody else.
Repeated(s, e) == Answer(s, IF e.who = s.who THEN e.answer ELSE Outcome("refused"))
Execute(s) ==
  LET known == {e \in executed : e.tab = s.tab /\ e.n = s.n}
      written == [Outcome("success") EXCEPT !.rev = Written(s).rev, !.items = Written(s).items]
  IN /\ s.at = "sent"
     /\ \/ /\ s.who = Nobody \/ ToSet(s.next) \cap hidden # {}
           /\ Answer(s, Outcome("refused")) /\ UNCHANGED <<prefs, executed>>
        \/ /\ s.who # Nobody /\ ToSet(s.next) \cap hidden = {}
           /\ IF known # {} THEN Repeated(s, CHOOSE e \in known : TRUE) /\ UNCHANGED <<prefs, executed>>
              ELSE IF ~Current(s) THEN Answer(s, Outcome("conflict")) /\ UNCHANGED <<prefs, executed>>
              ELSE /\ prefs' = [prefs EXCEPT ![s.who] = Written(s)]
                   /\ executed' = executed \cup {[tab |-> s.tab, n |-> s.n, who |-> s.who, answer |-> written]}
                   /\ Answer(s, written)
     /\ UNCHANGED <<kind, hidden, tabs, clicks, fetches, posted, budget, stumbled, misled>>

\* The membership that lets a person see a grid changes.
Regrouped == /\ SpendPref("hides") /\ \E x \in Accounts : hidden' = IF hidden = {} THEN {x} ELSE {}
             /\ UNCHANGED <<kind, prefs, executed, tabs, clicks, saves, fetches, posted, stumbled, misled>>

-----------------------------------------------------------------------------
\* The answer.
Released(tab, s) == [tab EXCEPT !.busy = FALSE, !.ids = {k \in @ : k.key # s.key}]
OtherTab(t) == 3 - t
Ignored(s, tab) == (kind = "favourites" /\ (tab.id # s.owner \/ s.answer.rev < tab.rev)) \/ tab.user # s.owner
Stored(tab, s) == [tab EXCEPT !.id = s.owner, !.items = s.answer.items, !.rev = s.answer.rev, !.hid = {},
                              !.loading = FALSE, !.ready = TRUE]
saveAnswered(s) ==
  LET tab == Released(tabs[s.tab], s) a == s.answer
  IN /\ s.at = "answered" /\ s.awaited /\ saves' = saves \ {s} /\ Drop(s.tab)
     /\ \/ /\ a.outcome = "success" /\ Ignored(s, tab)
           /\ stumbled' = (stumbled \/ tab.user # s.owner)     \* the other tab is not told
           /\ tabs' = [tabs EXCEPT ![s.tab] = tab] /\ UNCHANGED <<fetches, posted, misled>>
        \/ /\ a.outcome = "success" /\ ~Ignored(s, tab)
           /\ tabs' = [tabs EXCEPT ![s.tab] = Stored(tab, s)]
           /\ posted' = [posted EXCEPT ![OtherTab(s.tab)] = Append(@, [who |-> s.owner, rev |-> a.rev])]
           /\ stumbled' = (stumbled \/ a.rev < tab.rev) /\ misled' = (misled \/ s.who # s.owner) /\ UNCHANGED fetches
        \/ /\ a.outcome = "conflict" /\ UNCHANGED <<posted, stumbled, misled>>
           /\ IF kind = "favourites" /\ (tab.id # s.owner \/ tab.user # s.owner)
              THEN tabs' = [tabs EXCEPT ![s.tab] = tab] /\ UNCHANGED fetches
              ELSE loadForUser(s.tab, tab)
        \/ /\ a.outcome = "refused"
           /\ tabs' = [tabs EXCEPT ![s.tab] = tab] /\ UNCHANGED <<fetches, posted, stumbled, misled>>
     /\ UNCHANGED <<kind, accountVars, budget>>

\* The page gives up, or the connection is lost: the id is kept, the request may still be executed.
AnswerLost(s) ==
  /\ s.awaited /\ SpendPref("faults") /\ stumbled' = TRUE /\ Drop(s.tab)
  /\ tabs' = [tabs EXCEPT ![s.tab].busy = FALSE]
  /\ saves' = (saves \ {s}) \cup (IF s.at = "sent" THEN {[s EXCEPT !.awaited = FALSE]} ELSE {})
  /\ UNCHANGED <<kind, accountVars, fetches, posted, misled>>
RequestLost(s) == /\ ~s.awaited /\ saves' = saves \ {s}
                  /\ UNCHANGED <<kind, accountVars, tabs, clicks, fetches, posted, budget, stumbled, misled>>

\* What the other tab has saved.
MutOutdated(tab, m) == m.who = tab.id /\ m.rev = tab.rev
Outdated(tab, m) == m.who = tab.id /\ m.rev # tab.rev
Hear(t) ==
  /\ posted[t] # <<>> /\ posted' = [posted EXCEPT ![t] = Tail(@)]
  /\ IF Outdated(tabs[t], Head(posted[t])) THEN loadForUser(t, tabs[t]) ELSE UNCHANGED <<tabs, fetches>>
  /\ UNCHANGED <<kind, accountVars, clicks, saves, budget, stumbled, misled>>

-----------------------------------------------------------------------------
Starting(u) == [user |-> u, id |-> u, items |-> Empty, rev |-> 0, hid |-> {}, gen |-> 1, loading |-> TRUE, ready |-> FALSE,
                busy |-> FALSE, waits |-> 0, waited |-> FALSE, ids |-> {}, made |-> 0]
PreferencesInit ==
  \E scene \in PreferenceScenes :
    /\ kind = scene.kind /\ budget = scene.bounds
    /\ prefs = [a \in Accounts |-> [rev |-> scene.rev, items |-> scene.items]]
    /\ executed = {} /\ hidden = {} /\ stumbled = FALSE /\ misled = FALSE
    /\ tabs = [t \in Tabs |-> Starting(1)]
    /\ clicks = [t \in Tabs |-> <<>>] /\ saves = {} /\ posted = [t \in Tabs |-> <<>>]
    /\ fetches = {[tab |-> t, gen |-> 1, who |-> 1, at |-> "asked", rev |-> 0, items |-> <<>>, hid |-> {}] : t \in Tabs}

PreferencesNext ==
  \/ \E t \in Tabs : Authenticated(t) \/ Click(t, budget.targets) \/ ClickRejected(t) \/ LoadsFirst(t) \/ Save(t) \/ Hear(t)
  \/ \E f \in fetches : ReadPreferences(f) \/ Loaded(f) \/ LoadFails(f)
  \/ \E s \in saves : Execute(s) \/ saveAnswered(s) \/ AnswerLost(s) \/ RequestLost(s)
  \/ Regrouped
PreferencesSpec == PreferencesInit /\ [][PreferencesNext]_prefVars

-----------------------------------------------------------------------------
\* A write of the whole list changes what its author saw and nothing else: what the account holds when it commits is
\* what the tab showed when the change was made from it, apart from the grids the person may not see.  No change of
\* the other tab is overwritten unseen, whatever is lost, repeated or queued; favourites are never another person's.
\* A start page queued by one person is sent as whoever is logged in by then; once a tab has taken the answer to such a
\* write as its own person's page, nothing is said of its later writes.
NothingOverwritten ==
  [][\A a \in Accounts : prefs'[a] # prefs[a] =>
       \E s \in saves : /\ s.who = a /\ s.next = prefs'[a].items /\ (kind = "favourites" => s.owner = a)
                        /\ misled \/ s.base = Displayed(prefs[a].items, s.hid)]_prefVars

\* Once nothing is under way, every tab of the person shows what his account holds, with its revision, unless an
\* answer was lost or an older answer was taken over a newer one.
PreferencesSettle ==
  (saves = {} /\ fetches = {} /\ ~stumbled /\ ~misled /\ \A t \in Tabs : clicks[t] = <<>> /\ posted[t] = <<>>) =>
     \A t \in Tabs : LET tab == tabs[t] IN
       tab.user # Nobody => /\ tab.ready /\ tab.id = tab.user /\ tab.rev = prefs[tab.user].rev
                            /\ tab.items = Displayed(prefs[tab.user].items, tab.hid)

\* No change is overwritten unseen, and every tab comes to show what was written (favorites.js, startPreference.js).
PreferencesKept == []PreferencesSettle /\ NothingOverwritten
================================================================================
