------------------------------- MODULE Halls -------------------------------
(***************************************************************************)
(* Hall times: groups that share the places of dates in the hall           *)
(* (Backend/postgresHallTimeService.js), the planning of a fair            *)
(* distribution (Backend/hallTimeService.js), the expiry of waiting lists  *)
(* by the worker, the player's page (Frontend/JS/hallzeiten.js) and the    *)
(* administrator's page (hallzeitenVerwalten.js).                          *)
(*                                                                         *)
(* Every request locks its grid's row first, so its transaction is one     *)
(* step; what the pages know is read in steps of its own and may be old.   *)
(* A slot's queue says who has a place, who waits, and who of them was     *)
(* entered before whom (queued_at).                                        *)
(***************************************************************************)
EXTENDS Integers, FiniteSets, FiniteSetsExt

CONSTANTS Grids, Slots, People, Player,   \* Player: the person whose page is modelled
          GridOf,       \* the grid of each slot; the player's page shows the grid Shown
          Shown, Admin,
          FairBase, FairPercent,
          Scenes,       \* initial states of the grids and slots
          MaxCapacity, MaxWrites, MaxTicks   \* bounds

ASSUME HallsAssumption == /\ Player \in People /\ Shown \in Grids /\ Admin \notin People
                          /\ IsFiniteSet(People) /\ IsFiniteSet(Slots)
                          /\ GridOf \in [Slots -> Grids] /\ MaxCapacity \in Nat \ {0}
                          /\ MaxWrites \in Nat /\ MaxTicks \in Nat

VARIABLES grid, slot, queue,           \* the database
          admin, adminLoads, preview,  \* the administrator's page
          view, reads, sent, answer,   \* the player's page
          open, news, told,            \* the pages that are open; those an event is under way to; the last
                                 \* revision published
          changes, ticks

tables == <<grid, slot, queue>>
adminPage == <<admin, adminLoads, preview>>
playerPage == <<view, reads, sent, answer>>
vars == <<tables, adminPage, playerPage, open, news, told, changes, ticks>>

Times == 0..4   \* 4: only the basic quota, 3: the extended one, 2: free, 1: running, 0: past
GridRows == [rev : Nat, mode : {"equal", "fair"}, active : BOOLEAN, open : BOOLEAN, cap : Nat, wait : Nat,
             members : SUBSET People, constraints : SUBSET [who : People, slot : Slots]]
SlotRows == [on : BOOLEAN, cap : Nat, when : Times]
Queues == [confirmed : SUBSET People, waiting : SUBSET People, before : SUBSET (People \X People)]
NoEntries == [confirmed |-> {}, waiting |-> {}, before |-> {}]

\* One row per person and date, and an order of those who wait
Lined(q) == /\ q.confirmed \cap q.waiting = {}
            /\ q.before \subseteq q.waiting \X q.waiting
            /\ \A p \in q.waiting : <<p, p>> \notin q.before
            /\ \A p, o \in q.waiting : p # o => <<p, o>> \in q.before \/ <<o, p>> \in q.before
            /\ \A p, o, r \in q.waiting : <<p, o>> \in q.before /\ <<o, r>> \in q.before => <<p, r>> \in q.before
Vacant(q) == q.confirmed = {} /\ q.waiting = {}
Fitting(q, date, group) == /\ Cardinality(q.confirmed) <= Max({date.cap, group.cap})
                           /\ date.when > 0 => q.confirmed \cup q.waiting \subseteq group.members
                           /\ group.rev = 0 => Vacant(q)   \* a grid that is still to be created

\* What the tables hold at first keeps the rules that every write keeps
ASSUME ScenesAssumption ==
    \A scene \in Scenes : /\ scene.grid \in [Grids -> GridRows] /\ scene.slot \in [Slots -> SlotRows]
                          /\ scene.queue \in [Slots -> Queues]
                          /\ \A s \in Slots : /\ Lined(scene.queue[s])
                                              /\ Fitting(scene.queue[s], scene.slot[s], scene.grid[GridOf[s]])

NoPreview == [grid |-> "none"]
Unread == -1   \* an answer that is not read yet; 0 is a refusal

-----------------------------------------------------------------------------
(* What the database holds                                                 *)

SlotsOf(g) == {s \in Slots : GridOf[s] = g}
Confirmed(s) == queue[s].confirmed
Waiting(s) == queue[s].waiting
Holders(s) == Confirmed(s) \cup Waiting(s)
Entries(g, p) == Cardinality({s \in SlotsOf(g) : p \in Holders(s)})
\* publicGroups, adminGrids: the revision the pages are given is the largest of all
Revision == Max({grid[g].rev : g \in Grids})
Snapshot == [rev |-> Revision, base |-> [g \in Grids |-> grid[g].rev]]

Init == /\ \E scene \in Scenes : grid = scene.grid /\ slot = scene.slot /\ queue = scene.queue /\ open = scene.open
        /\ admin = Snapshot /\ adminLoads = {} /\ preview = NoPreview
        /\ view = [rev |-> grid[Shown].rev, gen |-> 0, busy |-> FALSE]
        /\ reads = {} /\ sent = {} /\ answer = {}
        /\ news = {} /\ told = [g \in Grids |-> grid[g].rev] /\ changes = 0 /\ ticks = 0

\* operation: revision, invalidation and idempotency row in the transaction, then the event
Write == changes < MaxWrites /\ changes' = changes + 1 /\ UNCHANGED ticks
Announce(g, rev) == told' = [told EXCEPT ![g] = rev] /\ news' = open
Committed(g, new) == /\ grid' = [grid EXCEPT ![g] = [new EXCEPT !.rev = grid[g].rev + 1]]
                     /\ Announce(g, grid[g].rev + 1)
\* lockGrid: the row exists and has the revision the request expects
Locked(g, expected) == grid[g].rev > 0 /\ grid[g].rev = expected

-----------------------------------------------------------------------------
(* Bookings                                                                *)

\* FairUse: the quota grows as the date comes near
Reserving(g) == {p \in grid[g].members : Entries(g, p) > 0}
Average(g) == LET n == Cardinality(Reserving(g))
                  sum == MapThenSumSet(LAMBDA p : Entries(g, p), Reserving(g))
              IN IF n = 0 THEN 0 ELSE (sum * (100 + FairPercent)) \div (n * 100)
WithinFairUse(g, p, s) ==
    \/ grid[g].mode # "fair" \/ slot[s].when < 3
    \/ slot[s].when = 4 /\ Entries(g, p) + 1 <= FairBase
    \/ slot[s].when = 3 /\ Entries(g, p) + 1 <= Max({FairBase, Average(g)})

Full(s) == Cardinality(Confirmed(s)) >= slot[s].cap
WaitsFor(g, p) == Cardinality({s \in SlotsOf(g) : p \in Waiting(s)})
Addable(g, by, p, s) ==
    /\ by = Admin \/ WithinFairUse(g, p, s)
    /\ Full(s) => grid[g].wait > 0 /\ WaitsFor(g, p) < grid[g].wait

Editable(g, by, p, s) == /\ grid[g].rev > 0 /\ grid[g].active /\ slot[s].on
                         /\ by \in {p, Admin} /\ p \in grid[g].members
                         /\ by = Admin \/ slot[s].when > 0

\* A confirmed place that is given up goes to the first who waits.
First(q) == CHOOSE p \in q.waiting : \A o \in q.waiting \ {p} : <<p, o>> \in q.before
Among(q, people) == [q EXCEPT !.waiting = people, !.before = @ \cap (people \X people)]
MutPromoted(q) == LET p == CHOOSE p \in q.waiting : \A o \in q.waiting \ {p} : <<o, p>> \in q.before
                  IN IF q.waiting = {} THEN q ELSE [Among(q, q.waiting \ {p}) EXCEPT !.confirmed = @ \cup {p}]
Promoted(q) == IF q.waiting = {} THEN q
               ELSE [Among(q, q.waiting \ {First(q)}) EXCEPT !.confirmed = @ \cup {First(q)}]
Without(s, people) == [Among(queue[s], Waiting(s) \ people) EXCEPT !.confirmed = @ \ people]
Removed(s, p) == IF p \in Confirmed(s) THEN Promoted(Without(s, {p})) ELSE Without(s, {p})
Added(s, p) == IF Full(s) THEN [queue[s] EXCEPT !.waiting = @ \cup {p}, !.before = @ \cup (Waiting(s) \X {p})]
               ELSE [queue[s] EXCEPT !.confirmed = @ \cup {p}]

\* setBooking: nothing to do is a success, too, that changes no revision
Bookable(by, p, s, selected) ==
    /\ Editable(GridOf[s], by, p, s)
    /\ selected /\ p \notin Holders(s) => Addable(GridOf[s], by, p, s)
SetBooking(p, s, selected) ==
    LET g == GridOf[s] IN
    /\ UNCHANGED slot
    /\ IF selected = (p \in Holders(s))
         THEN UNCHANGED <<grid, queue>> /\ Announce(g, grid[g].rev)
         ELSE /\ queue' = [queue EXCEPT ![s] = IF selected THEN Added(s, p) ELSE Removed(s, p)]
              /\ Committed(g, grid[g])

Book == /\ Write /\ UNCHANGED <<adminPage, playerPage>>
        /\ \E p \in People, s \in Slots, selected \in BOOLEAN :
              /\ Bookable(p, p, s, selected) \/ Bookable(Admin, p, s, selected)
              /\ SetBooking(p, s, selected)

-----------------------------------------------------------------------------
(* Members                                                                 *)

Booked(g, p) == \E s \in SlotsOf(g) : slot[s].when > 0 /\ p \in Holders(s)
SetMembership(p, g, selected) ==
    /\ Locked(g, Revision) /\ grid[g].active /\ grid[g].open
    /\ selected \/ ~Booked(g, p)
    /\ Committed(g, [grid[g] EXCEPT !.members = IF selected THEN @ \cup {p} ELSE @ \ {p}])
Join == /\ Write /\ UNCHANGED <<slot, queue, adminPage, playerPage>>
        /\ \E p \in People, g \in Grids, selected \in BOOLEAN : SetMembership(p, g, selected)

-----------------------------------------------------------------------------
(* The administrator                                                       *)

\* a grid the page has read, at the revision it was given for all of them
Held(g) == admin.base[g] > 0 /\ Locked(g, admin.rev)

\* What the form holds: bounded to a change of the members, of the settings or of the dates at a time;
\* a date can be left out, or put at a later time
FormNow(g) == [mode |-> grid[g].mode, active |-> grid[g].active, cap |-> grid[g].cap, wait |-> grid[g].wait,
               members |-> grid[g].members, keep |-> {s \in SlotsOf(g) : slot[s].on}, back |-> {}]
Form(g) ==
    {[FormNow(g) EXCEPT !.members = people] : people \in SUBSET People}
    \cup {[FormNow(g) EXCEPT !.mode = x[1], !.active = x[2], !.cap = x[3], !.wait = x[4]] :
             x \in {"equal", "fair"} \X BOOLEAN \X (1..MaxCapacity) \X (0..1)}
    \cup {[FormNow(g) EXCEPT !.keep = x[1], !.back = x[2]] : x \in (SUBSET SlotsOf(g)) \X (SUBSET SlotsOf(g))}
Suits(g, form) == \A s \in SlotsOf(g) : /\ Cardinality(Confirmed(s)) <= form.cap
                                        /\ form.wait = 0 => Waiting(s) = {}
SlotAfter(s, form) ==
    IF s \in form.keep THEN [on |-> TRUE, cap |-> form.cap, when |-> IF s \in form.back THEN 4 ELSE slot[s].when]
    ELSE IF slot[s].when >= 2 THEN [slot[s] EXCEPT !.on = FALSE] ELSE slot[s]
QueueAfter(s, form) ==
    LET new == SlotAfter(s, form) IN
    IF ~new.on THEN NoEntries ELSE IF new.when > 0 THEN Without(s, People \ form.members) ELSE queue[s]
Saved(g, form) ==
    /\ slot' = [s \in Slots |-> IF GridOf[s] = g THEN SlotAfter(s, form) ELSE slot[s]]
    /\ queue' = [s \in Slots |-> IF GridOf[s] = g THEN QueueAfter(s, form) ELSE queue[s]]
    /\ Committed(g, [grid[g] EXCEPT !.cap = form.cap, !.wait = form.wait, !.members = form.members,
                                    !.mode = form.mode, !.active = form.active, !.constraints = {c \in @ : slot'[c.slot].on}])
\* saveGrid: of an existing grid, and of a new one, which expects revision 0
SaveGrid(g) == \E form \in Form(g) : /\ form.back \subseteq form.keep
                                     /\ Held(g) /\ Suits(g, form) /\ Saved(g, form)
CreateGrid(g) == \E form \in Form(g) : /\ grid[g].rev = 0 /\ admin.rev = 0
                                       /\ form.back = form.keep /\ Saved(g, form)

\* saveConstraints: one bad reference refuses them all
SaveConstraints(g) ==
    \E new \in SUBSET [who : grid[g].members, slot : SlotsOf(g)] :
        /\ Cardinality(new) <= 1 /\ Held(g) /\ grid[g].mode = "equal"
        /\ \A c \in new : slot[c.slot].on /\ slot[c.slot].when > 0
        /\ Committed(g, [grid[g] EXCEPT !.constraints = new]) /\ UNCHANGED <<slot, queue>>

\* clearAllStatuses
ClearAll(g) == /\ Held(g) /\ UNCHANGED slot
               /\ queue' = [s \in Slots |-> IF GridOf[s] = g THEN NoEntries ELSE queue[s]]
               /\ Committed(g, grid[g])

-----------------------------------------------------------------------------
(* The distribution                                                        *)

Future(g) == {s \in SlotsOf(g) : slot[s].on /\ slot[s].when > 0}
Available(g, s) == {p \in grid[g].members : [who |-> p, slot |-> s] \notin grid[g].constraints}
\* selectDistributedParticipants: as many as fit and may
Groups(g, s) == LET n == Min({grid[g].cap, Cardinality(Available(g, s))})
                IN {people \in SUBSET Available(g, s) : Cardinality(people) = n}
\* optimizeDistributionSequence: one group for every date
Plans(g) == {plan \in [Future(g) -> SUBSET People] : \A s \in Future(g) : plan[s] \in Groups(g, s)}
Uses(g, plan, p) == Cardinality({s \in Future(g) : p \in plan[s]})
                    + Cardinality({s \in SlotsOf(g) \ Future(g) : slot[s].on /\ p \in Confirmed(s)})
\* the spread that the repairs lower: no swap makes the numbers of dates more even
Spread(g, plan) == LET uses == {Uses(g, plan, p) : p \in grid[g].members}
                   IN IF uses = {} THEN 0 ELSE Max(uses) - Min(uses)
\* distributionPreview: a function of the grid's data and the clock
Plan(g) == LET least == Min({Spread(g, plan) : plan \in Plans(g)})
           IN CHOOSE plan \in Plans(g) : Spread(g, plan) = least
Complete(g) == \A s \in Future(g) : Cardinality(Plan(g)[s]) = grid[g].cap

Preview(g) == /\ Held(g) /\ grid[g].active /\ grid[g].mode = "equal"
              /\ preview' = [grid |-> g, rev |-> admin.rev, plan |-> Plan(g)]

Distribute(g) ==
    /\ Held(g) /\ grid[g].mode = "equal" /\ Complete(g)
    /\ queue' = [s \in Slots |-> IF s \in Future(g) THEN [NoEntries EXCEPT !.confirmed = Plan(g)[s]] ELSE queue[s]]
    /\ Committed(g, grid[g]) /\ UNCHANGED slot

\* the hash of a preview: the revision and the plan
SameHash(g) == preview.grid = g /\ preview.rev = grid[g].rev /\ preview.plan = Plan(g)
ApplyPreview(g) == SameHash(g) /\ Distribute(g)

-----------------------------------------------------------------------------
(* The administrator's page reads again after every event and every write  *)
(* of its own; a newly read list drops the preview.                        *)

Administer == /\ "admin" \in open /\ Write /\ UNCHANGED <<admin, adminLoads, preview, playerPage>>
              /\ \E g \in Grids : \/ SaveGrid(g) \/ CreateGrid(g) \/ SaveConstraints(g) \/ ClearAll(g)
                                  \/ Distribute(g) \/ ApplyPreview(g)
ShowPreview == /\ "admin" \in open /\ UNCHANGED <<tables, admin, adminLoads, playerPage, news, told, changes, ticks>>
               /\ \E g \in Grids : Preview(g)
AdminReads == /\ "admin" \in news /\ news' = news \ {"admin"}
              /\ adminLoads' = adminLoads \cup {Snapshot}
              /\ UNCHANGED <<tables, admin, preview, playerPage, told, changes, ticks>>
AdminShows == \E read \in adminLoads :
              /\ admin' = read /\ adminLoads' = adminLoads \ {read} /\ preview' = NoPreview
              /\ UNCHANGED <<tables, playerPage, news, told, changes, ticks>>

-----------------------------------------------------------------------------
(* The player's page                                                       *)

\* load: every read has a generation, and an overtaken one is dropped
ReadAgain == /\ "player" \in news /\ news' = news \ {"player"}
             /\ view' = [view EXCEPT !.gen = @ + 1]
             /\ reads' = reads \cup {[gen |-> view.gen + 1, rev |-> grid[Shown].rev]}
             /\ UNCHANGED <<tables, adminPage, sent, answer, told, changes, ticks>>
MutApplied(read) == view' = [view EXCEPT !.rev = read.rev]
Applied(read) == view' = IF read.gen = view.gen THEN [view EXCEPT !.rev = read.rev] ELSE view
ReadArrives == \E read \in reads :
               /\ reads' = reads \ {read} /\ Applied(read)
               /\ UNCHANGED <<tables, adminPage, sent, answer, news, told, changes, ticks>>

\* confirmBookingChange, toggle: one request at a time
Toggle == /\ "player" \in open /\ ~view.busy /\ Write /\ view' = [view EXCEPT !.busy = TRUE]
          /\ \E s \in SlotsOf(Shown), selected \in BOOLEAN : sent' = {[slot |-> s, selected |-> selected]}
          /\ UNCHANGED <<tables, adminPage, reads, answer, news, told>>
\* the server commits or refuses, reads the grid once more for its answer, and answers
Serve == \E m \in sent :
         /\ sent' = {} /\ UNCHANGED <<adminPage, view, reads, changes, ticks>>
         /\ \/ /\ Bookable(Player, Player, m.slot, m.selected)
               /\ SetBooking(Player, m.slot, m.selected) /\ answer' = {Unread}
            \/ /\ ~Bookable(Player, Player, m.slot, m.selected)
               /\ answer' = {0} /\ UNCHANGED <<tables, news, told>>
AnswerReads == /\ answer = {Unread} /\ answer' = {grid[Shown].rev}
               /\ UNCHANGED <<tables, adminPage, view, reads, sent, news, told, changes, ticks>>
AnswerArrives == \E rev \in answer \ {Unread} :
                 /\ answer' = {}
                 /\ view' = [view EXCEPT !.busy = FALSE, !.rev = IF rev = 0 THEN @ ELSE rev]
                 /\ UNCHANGED <<tables, adminPage, reads, sent, news, told, changes, ticks>>

-----------------------------------------------------------------------------
(* The clock, and the worker that removes what waits for a past date; its  *)
(* change of the revision is published by nobody.                          *)

Tick == /\ ticks < MaxTicks /\ ticks' = ticks + 1
        /\ \E s \in Slots : slot[s].on /\ slot[s].when > 0 /\ slot' = [slot EXCEPT ![s].when = @ - 1]
        /\ UNCHANGED <<grid, queue, adminPage, playerPage, news, told, changes>>
Expired == {s \in Slots : slot[s].when = 0 /\ Waiting(s) # {}}
Expire == /\ Expired # {}
          /\ queue' = [s \in Slots |-> IF s \in Expired THEN Without(s, Waiting(s)) ELSE queue[s]]
          /\ grid' = [g \in Grids |-> IF \E s \in Expired : GridOf[s] = g
                                      THEN [grid[g] EXCEPT !.rev = @ + 1] ELSE grid[g]]
          /\ UNCHANGED <<slot, adminPage, playerPage, news, told, changes, ticks>>

Progress == AdminReads \/ AdminShows \/ ReadAgain \/ ReadArrives \/ Serve \/ AnswerReads \/ AnswerArrives
Next == UNCHANGED open /\ (Book \/ Join \/ Administer \/ ShowPreview \/ Toggle \/ Tick \/ Expire \/ Progress)
Spec == Init /\ [][Next]_vars /\ WF_vars(UNCHANGED open /\ Progress)

-----------------------------------------------------------------------------
(* Properties                                                              *)

\* However bookings, promotions, changed capacities and distributions follow one another, no date is
\* overbooked (DATENBANK.txt: decided under the slot's lock).
CapacityKept == \A s \in Slots : Cardinality(Confirmed(s)) <= Max({slot[s].cap, grid[GridOf[s]].cap})

\* Who leaves a group, or is taken out of it, has no entry left on a date that is not over, not even
\* when the administrator moves an old date into the future (setPublicMembership, saveGrid).
OnlyMembersHoldPlaces == \A s \in Slots : slot[s].when > 0 => Holders(s) \subseteq grid[GridOf[s]].members
PlacesKept == CapacityKept /\ OnlyMembersHoldPlaces

\* Who moves up from the waiting list has waited longest: nobody who queued before still waits (LF-72).
NobodyOvertaken == [][\A s \in Slots : \A p, o \in Waiting(s) :
    <<p, o>> \in queue[s].before /\ o \in Confirmed(s)' => p \notin Waiting(s)']_vars

\* A distribution that is applied from a preview is the one the administrator was shown, whatever
\* bookings and expired dates came between (HALL_TIME_PREVIEW_STALE).
AppliedAsShown == [][\A g \in Grids : ApplyPreview(g) =>
    \A s \in SlotsOf(g) : slot[s].when > 0 /\ slot[s].on =>
        s \in DOMAIN preview.plan /\ Confirmed(s)' = preview.plan[s]]_vars
PlacesGivenAsPromised == []PlacesKept /\ NobodyOvertaken /\ AppliedAsShown

\* The player's page comes to rest; and if the player books nothing meanwhile it then shows every
\* published change: no overtaken read wins. (The answer to a booking has no generation: it can win.)
Shows == "player" \in open => view.rev >= told[Shown]
CatchesUp == <>[]~view.busy /\ ([]~view.busy => <>[]Shows)
=============================================================================
