------------------------------- MODULE Ranking -------------------------------
(***************************************************************************)
(* One ranking ("Rangliste"): challenges, results, corrections, their      *)
(* withdrawal by an administrator and players who leave the list           *)
(* (Backend/postgresPlayService.js, matchRules.js and                      *)
(* rankingEntryRestriction.js).                                            *)
(*                                                                         *)
(* Every write is one serializable transaction and therefore one step on   *)
(* `entries` and `matches`. What the code reads before or outside of it    *)
(* comes from the cached projection (`cache`), a snapshot of both tables   *)
(* that a refresh replaces some time after a commit.                       *)
(*                                                                         *)
(* Time is a number of ticks. Sets, walkovers, formats and appointments    *)
(* are left out: of a result only its winner matters here, and a match     *)
(* ends when its result is entered.                                        *)
(***************************************************************************)
EXTENDS Integers, FiniteSets

CONSTANTS Players,
          Eligible,        \* players who fit the competition's gender and age rule
          EntryGap,        \* a newcomer who lost must start this many ranks further down
          Window,          \* ticks in which participants may correct a result
          Lockout,         \* ticks of protection of a winner and of lock-out of a loser
          MaxMatches,      \* bound: challenges
          MaxClock,        \* bound: ticks
          Scenes,          \* the situations to start from, records with
                           \*  seeded: the initial list, best first, a function 1..n -> Players
                           \*  plans: the rank plans an administrator may send,
                           \*    Players -> ranks, 0 for none
                           \*  year: ticks a withdrawn rank or an entry boundary is remembered
                           \*  end: from this tick on no new challenges
                           \*  pending (bound): requests between checks and transaction
                           \*  writes (bound): committed transactions
          None

Absent == -1      \* "no row", where a rank is expected
Matches == 1..MaxMatches
Ranks == 1..Cardinality(Players)

ASSUME PlayersAssumption == IsFiniteSet(Players)
ASSUME SceneAssumption == \A s \in Scenes :
  /\ \E n \in Ranks : s.seeded \in [1..n -> Players]
  /\ \A i, j \in DOMAIN s.seeded : s.seeded[i] = s.seeded[j] => i = j
  /\ \A plan \in s.plans : plan \in [Players -> Nat]
  /\ s.year \in Nat \ {0} /\ {s.end, s.pending, s.writes} \subseteq Nat
ASSUME TimesAssumption == {Window, Lockout} \subseteq Nat /\ EntryGap \in Nat \ {0}
ASSUME BoundsAssumption == {MaxMatches, MaxClock} \subseteq Nat

\* Rows of play.matches and play.match_results; a result changed the ranks of the players S, and
\* `before` and `post` are ranks, Absent without a row.
RankOrAbsent == Nat \cup {Absent}
ResultRows(S) == [winner : {1, 2}, captured : Nat, before : [S -> RankOrAbsent],
                  minimum : Nat, expires : Nat, first : Nat, post : [Players -> RankOrAbsent]]
MatchRows(S) == [ch : Players, df : Players, target : Nat, ignored : BOOLEAN, res : ResultRows(S) \cup {None}]
ASSUME NoneAssumption == \A S \in SUBSET Players : None \notin ResultRows(S) \cup MatchRows(S)

VARIABLES scene,     \* the situation, for good
          entries,   \* play.ranking_entries: NULL is 0, a missing row has status "none"
          matches,   \* play.matches with its current result, None before the challenge
          cache,     \* the projection in memory: [entries, matches]
          pending,   \* requests that have passed the checks made outside a transaction
          clock,
          writes,    \* committed transactions (see scene.writes)
          disturbed  \* history: an administrator's plan, or a reversal on ranks that
                     \* had changed since, has overridden the automatic ranks

vars == <<scene, entries, matches, cache, pending, clock, writes, disturbed>>

Year == scene.year

NoEntry == [status |-> "none", rank |-> 0, last |-> 0, at |-> 0]
ActiveAt(r) == [status |-> "active", rank |-> r, last |-> 0, at |-> 0]

Active(es) == {p \in Players : es[p].status = "active"}
Rank(es, p) == IF es[p].status = "none" THEN Absent ELSE es[p].rank
RankView(es) == [p \in Players |-> Rank(es, p)]
Holds(es, r) == \E p \in Active(es) : es[p].rank = r
Bottom(es) == CHOOSE r \in {es[p].rank : p \in Active(es)} : \A p \in Active(es) : es[p].rank <= r

\* The unique index ranking_entries_active_rank.
UniqueRanks(es) ==
  \A p, q \in Active(es) : es[p].rank = es[q].rank => p = q

HasResult(ms, m) == ms[m] # None /\ ms[m].res # None
Open(ms, m) == ms[m] # None /\ ms[m].res = None /\ ~ms[m].ignored

(***************************************************************************)
(* What a result does to the ranks (rankingTargets). The operators return  *)
(* the players whose rank changes, each with its rank before and after;    *)
(* `target` is the entry target of the match, 0 if it has none.            *)
(***************************************************************************)
\* The player enters at rank r, everybody from r on moves down by one.
EnterAt(es, p, r) ==
  [q \in {a \in Active(es) : es[a].rank >= r} \cup {p} |->
     [before |-> Rank(es, q), after |-> IF q = p THEN r ELSE es[q].rank + 1]]

NoChange == [q \in {} |-> 0]

NewcomerTargets(es, ch, df, target, winner) ==
  IF winner # 1 /\ Holds(es, target + EntryGap) THEN NoChange
  ELSE EnterAt(es, ch, IF winner = 1 THEN es[df].rank ELSE Bottom(es) + 1)

ReturnerTargets(es, ch, df, target, winner) ==
  IF target # 0 /\ winner # 1 /\ Holds(es, target + EntryGap) THEN NoChange
  ELSE EnterAt(es, ch, IF winner = 1 THEN es[df].rank
                        ELSE IF es[ch].at + Year >= clock THEN es[df].rank + 1
                        ELSE Bottom(es) + 1)

\* Mutant: the winner is not looked at.
MutRankedTargetsAnyWinner(es, ch, df, winner) ==
  IF es[ch].rank <= es[df].rank THEN NoChange
  ELSE [q \in {a \in Active(es) : es[a].rank \in es[df].rank..es[ch].rank} |->
          [before |-> es[q].rank, after |-> IF q = ch THEN es[df].rank ELSE es[q].rank + 1]]

RankedTargets(es, ch, df, winner) ==
  IF winner # 1 \/ es[ch].rank <= es[df].rank THEN NoChange
  ELSE [q \in {a \in Active(es) : es[a].rank \in es[df].rank..es[ch].rank} |->
          [before |-> es[q].rank, after |-> IF q = ch THEN es[df].rank ELSE es[q].rank + 1]]

Targets(es, ch, df, target, winner) ==
  CASE es[ch].status = "none"      -> NewcomerTargets(es, ch, df, target, winner)
    [] es[ch].status = "withdrawn" -> ReturnerTargets(es, ch, df, target, winner)
    [] es[ch].status = "active"    -> RankedTargets(es, ch, df, winner)

Apply(es, changes) ==
  [p \in Players |-> IF p \in DOMAIN changes THEN ActiveAt(changes[p].after) ELSE es[p]]

\* What the row of match_ranking_effects keeps: the ranks before.
Before(changes) == [p \in DOMAIN changes |-> changes[p].before]

\* Mutants: a re-opened withdrawal gets no claim; a membership that the result
\* created is only emptied.
MutReversed(e, before) ==
  IF before <= 0
  THEN [status |-> "withdrawn", rank |-> 0, last |-> IF e.last = 0 THEN 1 ELSE e.last,
        at |-> IF e.at = 0 THEN clock ELSE e.at]
  ELSE ActiveAt(before)

Reversed(e, before) ==
  IF before = Absent THEN NoEntry
  ELSE IF before = 0
  THEN [status |-> "withdrawn", rank |-> 0, last |-> IF e.last = 0 THEN 1 ELSE e.last,
        at |-> IF e.at = 0 THEN clock ELSE e.at]
  ELSE ActiveAt(before)

ReverseRanking(es, before) ==
  [p \in Players |-> IF p \in DOMAIN before /\ es[p].status # "none"
                     THEN Reversed(es[p], before[p]) ELSE es[p]]

(***************************************************************************)
(* The rules that are checked against a snapshot v of both tables.         *)
(***************************************************************************)
Playing(m, p) == p \in {m.ch, m.df}
BusyIn(ms, p) == \E m \in Matches : Open(ms, m) /\ Playing(ms[m], p)

\* The match that decides about protection and lock-out: the newest, and of
\* several that ended at the same time the first in the table.
DecidingMatch(ms, p, m) ==
  LET done == {n \in Matches : HasResult(ms, n) /\ ~ms[n].ignored /\ Playing(ms[n], p)}
  IN /\ m \in done
     /\ \A n \in done \ {m} : \/ ms[n].res.captured < ms[m].res.captured
                              \/ ms[n].res.captured = ms[m].res.captured /\ m < n
LockedAs(ms, p, side) ==
  \E m \in Matches : /\ DecidingMatch(ms, p, m)
                     /\ ms[m].res.captured + Lockout > clock
                     /\ p = (IF (side = "winner") = (ms[m].res.winner = 1) THEN ms[m].ch ELSE ms[m].df)

\* An entry challenge of p at this rank respects the boundary of the last lost one.
Boundaries(ms, p) ==
  {m \in Matches : /\ HasResult(ms, m) /\ ~ms[m].ignored /\ ms[m].ch = p
                   /\ ms[m].res.winner = 2 /\ ms[m].res.minimum # 0 /\ ms[m].res.expires > clock}
MayEnterAt(ms, p, r) ==
  LET bs == Boundaries(ms, p)
  IN bs = {} \/ \E m \in bs : /\ \A n \in bs : ms[n].res.expires <= ms[m].res.expires
                              /\ r >= ms[m].res.minimum

\* Position k of the pyramid is in row Row(k), at column Column(k).
Row(k) == CHOOSE r \in 1..k : 2 * k > r * (r - 1) /\ 2 * k <= r * (r + 1)
Column(k) == k - (Row(k) * (Row(k) - 1)) \div 2
Position(es, p) == Cardinality({q \in Active(es) : es[q].rank <= es[p].rank})
InReach(es, p, o) ==
  LET k == Position(es, p)
      j == Position(es, o)
  IN \/ Row(j) = Row(k) /\ Column(j) < Column(k)
     \/ Row(j) = Row(k) - 1 /\ Column(j) >= Column(k)
     \/ es[p].rank = 3 /\ es[o].rank = 1

Returning(es, p) == es[p].status = "withdrawn" /\ es[p].at + Year >= clock

ChallengeAllowed(v, p, o) ==
  /\ p # o /\ clock < scene.end
  /\ o \in Active(v.entries)
  /\ CASE p \in Active(v.entries) -> InReach(v.entries, p, o)
       [] Returning(v.entries, p) -> v.entries[o].rank >= v.entries[p].last
       [] OTHER -> p \in Eligible /\ MayEnterAt(v.matches, p, v.entries[o].rank)
  /\ ~BusyIn(v.matches, p) /\ ~BusyIn(v.matches, o)
  /\ ~LockedAs(v.matches, p, "loser")
  /\ ~LockedAs(v.matches, o, "winner")

(***************************************************************************)
(* Actions.                                                                *)
(***************************************************************************)
Init ==
  /\ scene \in Scenes
  /\ entries = [p \in Players |->
       IF \E r \in DOMAIN scene.seeded : scene.seeded[r] = p
       THEN ActiveAt(CHOOSE r \in DOMAIN scene.seeded : scene.seeded[r] = p) ELSE NoEntry]
  /\ matches = [m \in Matches |-> None]
  /\ cache = [entries |-> entries, matches |-> matches]
  /\ pending = {}
  /\ clock = 1
  /\ writes = 0
  /\ disturbed = FALSE

Transaction == writes < scene.writes /\ writes' = writes + 1

SendRequest(r) ==
  /\ r \notin pending /\ Cardinality(pending) < scene.pending
  /\ pending' = pending \cup {r}
  /\ UNCHANGED <<scene, entries, matches, cache, clock, writes, disturbed>>

RequestChallenge(p, o) == ChallengeAllowed(cache, p, o) /\ SendRequest(<<"challenge", p, o>>)

RequestWithdraw(p) == ~BusyIn(cache.matches, p) /\ SendRequest(<<"withdraw", p, p>>)

\* A transaction refuses the request or fails for good.
Fail(r) ==
  /\ r \in pending
  /\ pending' = pending \ {r}
  /\ UNCHANGED <<scene, entries, matches, cache, clock, writes, disturbed>>

Newcomer(es, p) ==
  es[p].status # "active" /\ ~(es[p].status = "withdrawn" /\ es[p].at + Year > clock)

NewMatch(p, o, target) ==
  [ch |-> p, df |-> o, target |-> target, ignored |-> FALSE, res |-> None]

\* Mutant: no second look at the entry boundary inside the transaction.
MutCommitChallenge(p, o) ==
  /\ <<"challenge", p, o>> \in pending
  /\ pending' = pending \ {<<"challenge", p, o>>}
  /\ Transaction
  /\ o \in Active(entries)
  /\ \E m \in Matches :
       /\ matches[m] = None /\ \A n \in 1..(m - 1) : matches[n] # None
       /\ matches' = [matches EXCEPT ![m] =
            NewMatch(p, o, IF Newcomer(entries, p) THEN entries[o].rank ELSE 0)]
  /\ UNCHANGED <<scene, entries, cache, clock, disturbed>>

CommitChallenge(p, o) ==
  /\ <<"challenge", p, o>> \in pending
  /\ pending' = pending \ {<<"challenge", p, o>>}
  /\ Transaction
  /\ o \in Active(entries)
  /\ Newcomer(entries, p) => MayEnterAt(matches, p, entries[o].rank)
  /\ \E m \in Matches :
       /\ matches[m] = None /\ \A n \in 1..(m - 1) : matches[n] # None
       /\ matches' = [matches EXCEPT ![m] =
            NewMatch(p, o, IF Newcomer(entries, p) THEN entries[o].rank ELSE 0)]
  /\ UNCHANGED <<scene, entries, cache, clock, disturbed>>

\* The rank the request names must still be the player's; it then is the one that
\* becomes free.
CommitWithdraw(p) ==
  /\ <<"withdraw", p, p>> \in pending
  /\ pending' = pending \ {<<"withdraw", p, p>>}
  /\ Transaction
  /\ p \in Active(entries)
  /\ entries' = [q \in Players |->
       IF q = p THEN [status |-> "withdrawn", rank |-> 0, last |-> entries[p].rank, at |-> clock]
       ELSE IF q \in Active(entries) /\ entries[q].rank > entries[p].rank
       THEN [entries[q] EXCEPT !.rank = @ - 1] ELSE entries[q]]
  /\ UNCHANGED <<scene, matches, cache, clock, disturbed>>

Undone(m) == IF HasResult(matches, m) THEN ReverseRanking(entries, matches[m].res.before) ELSE entries

\* History: nobody's rank has changed since the result of m was entered.
Intact(m) == HasResult(matches, m) => RankView(entries) = matches[m].res.post

TargetOf(es, m) ==
  LET x == matches[m]
  IN IF x.target = 0 /\ x.df \in Active(es) /\ es[x.ch].status = "none" THEN es[x.df].rank ELSE x.target

\* entry_expires_at of the result that is replaced lives on.
Deadline(m) ==
  IF HasResult(matches, m) /\ matches[m].res.expires # 0 THEN matches[m].res.expires ELSE clock + Year

\* The result of match m after which the ranks es have been changed as given.
\* first and post are history: the first entry, and the ranks it left behind.
NewResult(m, winner, target, es, changes) ==
  [winner |-> winner, captured |-> clock, before |-> Before(changes),
   minimum |-> IF target = 0 THEN 0 ELSE target + EntryGap,
   expires |-> IF target = 0 THEN 0 ELSE Deadline(m),
   first |-> IF HasResult(matches, m) THEN matches[m].res.first ELSE clock,
   post |-> RankView(Apply(es, changes))]

\* resultOperation after its checks: undo the old result, apply the new changes.
\* A broken unique index aborts the transaction.
EnterResult(m, winner, changes) ==
  LET es == Undone(m)
      target == TargetOf(es, m)
  IN /\ Transaction
     /\ UniqueRanks(es) /\ UniqueRanks(Apply(es, changes))
     /\ entries' = Apply(es, changes)
     /\ matches' = [matches EXCEPT ![m].target = target,
                                   ![m].res = NewResult(m, winner, target, es, changes)]
     /\ UNCHANGED <<scene, cache, pending, clock>>

\* The fingerprint the client sends is compared with the cached one: it has
\* seen what the cache shows, and nothing is compared with the locked row.
SetResult(m, winner) ==
  /\ cache.matches[m] # None
  /\ HasResult(matches, m) => clock - matches[m].res.captured <= Window
  /\ LET es == Undone(m)
         x == matches[m]
     IN /\ x.df \in Active(es)
        /\ EnterResult(m, winner, Targets(es, x.ch, x.df, TargetOf(es, m), winner))
  /\ disturbed' = (disturbed \/ ~Intact(m))

\* An administrator's plan names every member once, with a rank of its own for
\* every active one. It is compared with the ranks after the reversal.
CorrectResult(m, winner) ==
  /\ cache.matches[m] # None
  /\ LET es == Undone(m)
         members == {p \in Players : es[p].status # "none"}
     IN \E plan \in scene.plans :
          /\ \A p \in members : plan[p] = 0 => p \notin Active(es)
          /\ \A p, q \in members : plan[p] = plan[q] /\ plan[p] > 0 => p = q
          /\ EnterResult(m, winner,
               [p \in {q \in members : plan[q] # Rank(es, q)} |-> [before |-> Rank(es, p), after |-> plan[p]]])
  /\ disturbed' = TRUE

ClearResult(m) ==
  /\ cache.matches[m] # None /\ HasResult(matches, m)
  /\ Transaction
  /\ UniqueRanks(Undone(m))
  /\ entries' = Undone(m)
  /\ matches' = [matches EXCEPT ![m].res = None]
  /\ disturbed' = (disturbed \/ ~Intact(m))
  /\ UNCHANGED <<scene, cache, pending, clock>>

DeleteChallenge(m) ==
  /\ matches[m] # None /\ ~HasResult(matches, m) /\ ~matches[m].ignored
  /\ Transaction
  /\ matches' = [matches EXCEPT ![m].ignored = TRUE]
  /\ UNCHANGED <<scene, entries, cache, pending, clock, disturbed>>

Refresh ==
  /\ cache # [entries |-> entries, matches |-> matches]
  /\ cache' = [entries |-> entries, matches |-> matches]
  /\ UNCHANGED <<scene, entries, matches, pending, clock, writes, disturbed>>

Tick ==
  /\ clock < MaxClock /\ clock' = clock + 1
  /\ UNCHANGED <<scene, entries, matches, cache, pending, writes, disturbed>>

Next ==
  \/ \E p, o \in Players : RequestChallenge(p, o) \/ CommitChallenge(p, o)
  \/ \E p \in Players : RequestWithdraw(p) \/ CommitWithdraw(p)
  \/ \E r \in pending : Fail(r)
  \/ \E m \in Matches : \/ \E winner \in {1, 2} : SetResult(m, winner) \/ CorrectResult(m, winner)
                        \/ ClearResult(m) \/ DeleteChallenge(m)
  \/ Refresh \/ Tick

Spec == Init /\ [][Next]_vars
-----------------------------------------------------------------------------
TypeOK ==
  /\ entries \in [Players -> [status : {"none", "active", "withdrawn"}, rank : Nat, last : Nat, at : Nat]]
  /\ DOMAIN matches = Matches
  /\ \A m \in Matches : matches[m] # None =>
       /\ \E S \in SUBSET Players : matches[m] \in MatchRows(S)
       /\ matches[m].ch # matches[m].df
  /\ \A p \in Players : (entries[p].status = "active") = (entries[p].rank > 0)
  /\ \A p \in Players : (entries[p].status = "withdrawn") = (entries[p].last > 0 /\ entries[p].at > 0)

(***************************************************************************)
(* The active ranks are 1..n without gaps or ties, after any sequence of   *)
(* challenges, results, timely corrections, removals and withdrawals, as   *)
(* long as no administrator plan and no late reversal has intervened. The  *)
(* code never renumbers the list: each operation shifts only its part.     *)
(***************************************************************************)
Dense(es) == /\ UniqueRanks(es)
             /\ \A p \in Active(es) : \A r \in 1..es[p].rank : Holds(es, r)
RanksContiguous == ~disturbed => Dense(entries)
RankingSound == TypeOK /\ RanksContiguous

(***************************************************************************)
(* A match whose defender is ranked can always be completed, with either   *)
(* winner, without breaking the unique index, and undoing the result at    *)
(* once brings back the ranks: the kept `before` values are enough to      *)
(* invert every kind of change (swap in the list, entry, return).          *)
(***************************************************************************)
ResultOf(m, winner) ==
  Targets(entries, matches[m].ch, matches[m].df, TargetOf(entries, m), winner)
Enterable(m) == Open(matches, m) /\ matches[m].df \in Active(entries)
RanksReversible ==
  \A m \in Matches, winner \in {1, 2} : Enterable(m) =>
    LET changes == ResultOf(m, winner)
    IN /\ ~disturbed => UniqueRanks(Apply(entries, changes))
       /\ RankView(ReverseRanking(Apply(entries, changes), Before(changes))) = RankView(entries)
RanksKept == RankingSound /\ RanksReversible

(***************************************************************************)
(* Nobody overtakes anybody except the challenger who wins: every other    *)
(* pair of players keeps its order through results and withdrawals.        *)
(***************************************************************************)
Overtakes(p, q) ==
  /\ {p, q} \subseteq Active(entries) /\ {p, q} \subseteq Active(entries')
  /\ entries[p].rank > entries[q].rank /\ entries'[p].rank < entries'[q].rank
Reverses == \E m \in Matches : HasResult(matches, m) /\ matches'[m].res # matches[m].res
OnlyWinnersOvertake ==
  [][ ~Reverses /\ ~disturbed' => \A p, q \in Players : Overtakes(p, q) =>
        \E m \in Matches : matches'[m] # matches[m] /\ matches[m].ch = p /\ matches'[m].res.winner = 1 ]_vars

(***************************************************************************)
(* A newcomer who lost stays behind the boundary for a year: the boundary  *)
(* holds against the committed results, however old the cache was when     *)
(* the request was checked, and correcting the result neither extends nor  *)
(* shortens its year.                                                      *)
(***************************************************************************)
EntryBoundaryKept ==
  [][ \A m \in Matches :
        /\ matches[m] = None /\ matches'[m] # None /\ matches'[m].target # 0 =>
             MayEnterAt(matches, matches'[m].ch, matches'[m].target)
        /\ HasResult(matches, m) /\ HasResult(matches', m) /\ matches[m].res.expires # 0 =>
             matches'[m].res.expires = matches[m].res.expires ]_vars
-----------------------------------------------------------------------------
(***************************************************************************)
(* What the rules and the documentation say, and the code does not keep.   *)
(***************************************************************************)
\* The correction window runs from the first entry of the result.
CorrectionWindowFixed ==
  [][ \A m \in Matches : HasResult(matches, m) /\ HasResult(matches', m)
        /\ matches'[m].res # matches[m].res /\ ~disturbed' =>
        clock - matches[m].res.first <= Window ]_vars
=============================================================================
