---------------------------- MODULE PlayersProofs ----------------------------
(***************************************************************************)
(* Proofs about what a player sees of himself and of the others.  Ranking: *)
(* for any players, list, windows and bounds, the list stays dense and     *)
(* every result can be undone.  Preferences and History: no list of        *)
(* favourites and no start page overwrites a change its author has not     *)
(* seen, a tab at rest shows what is stored, and no comment of the history *)
(* is there twice unless its id was given up on a definite error.          *)
(***************************************************************************)
EXTENDS Ranking, History, Preferences,
        FiniteSetTheorems, SequenceTheorems, WellFoundedInduction, TLAPS

-----------------------------------------------------------------------------
(* Lists of ranks.  A view gives each player a rank, 0 after a withdrawal  *)
(* and Absent without a row; what the actions do to the entries is stated  *)
(* on views, where a shift is a function of integers.                      *)
-----------------------------------------------------------------------------
Views == [Players -> Nat \cup {Absent}]
Gapless(v) ==
  /\ \A p, q \in Players : v[p] > 0 /\ v[p] = v[q] => p = q
  /\ \A p \in Players : \A r \in 1..v[p] : \E q \in Players : v[q] = r

\* The views after an insertion at rank r, a rise from behind to rank r, a withdrawal.
Inserted(v, p, r) ==
  [q \in Players |-> IF q = p THEN r ELSE IF v[q] >= r THEN v[q] + 1 ELSE v[q]]
Risen(v, p, r) ==
  [q \in Players |-> IF q = p THEN r ELSE IF v[q] \in r..v[p] THEN v[q] + 1 ELSE v[q]]
Left(v, p) ==
  [q \in Players |-> IF q = p THEN 0 ELSE IF v[q] > v[p] THEN v[q] - 1 ELSE v[q]]

\* An insertion keeps the list gapless when all ranks before it are held.
LEMMA InsertedGapless ==
  ASSUME NEW v \in Views, Gapless(v), NEW p \in Players, v[p] <= 0, NEW r \in Nat \ {0},
         \A k \in 1..(r - 1) : \E q \in Players : v[q] = k
  PROVE  Gapless(Inserted(v, p, r))
<1> DEFINE w == Inserted(v, p, r)
<1>0. \A q \in Players : w[q] = IF q = p THEN r ELSE IF v[q] >= r THEN v[q] + 1 ELSE v[q]
  BY DEF Inserted
<1>t. \A q \in Players : v[q] \in Int
  BY DEF Views, Absent
<1> HIDE DEF w
<1>1. ASSUME NEW a \in Players, NEW b \in Players, w[a] > 0, w[a] = w[b] PROVE a = b
  BY <1>1, <1>0, <1>t DEF Gapless
<1>2. ASSUME NEW a \in Players, NEW k \in 1..w[a] PROVE \E q \in Players : w[q] = k
  <2>1. CASE k = r
    BY <2>1, <1>0
  <2>2. CASE k < r
    <3>1. PICK q \in Players : v[q] = k
      BY <2>2, <1>0
    <3> QED BY <3>1, <2>2, <1>0, <1>2
  <2>3. CASE k > r
    <3>1. a # p /\ v[a] >= r /\ k - 1 \in 1..v[a]
      BY <2>3, <1>0, <1>2, <1>t
    <3>2. PICK q \in Players : v[q] = k - 1
      BY <3>1 DEF Gapless
    <3> QED BY <3>2, <2>3, <1>0, <1>2
  <2> QED BY <2>1, <2>2, <2>3, <1>2, <1>0, <1>t
<1> QED BY <1>1, <1>2 DEF Gapless, w

\* A player who rises to a rank before his own moves those between down by one.
LEMMA RisenGapless ==
  ASSUME NEW v \in Views, Gapless(v), NEW p \in Players, NEW r \in Nat \ {0}, r < v[p]
  PROVE  Gapless(Risen(v, p, r))
<1> DEFINE w == Risen(v, p, r)
<1>0. \A q \in Players : w[q] = IF q = p THEN r ELSE IF v[q] \in r..v[p] THEN v[q] + 1 ELSE v[q]
  BY DEF Risen
<1>t. \A q \in Players : v[q] \in Int
  BY DEF Views, Absent
<1>u. \A q \in Players : v[q] = v[p] => q = p
  BY <1>t DEF Gapless
<1> HIDE DEF w
<1>1. ASSUME NEW a \in Players, NEW b \in Players, w[a] > 0, w[a] = w[b] PROVE a = b
  BY <1>1, <1>0, <1>t, <1>u DEF Gapless
<1>2. ASSUME NEW a \in Players, NEW k \in 1..w[a] PROVE \E q \in Players : w[q] = k
  <2>1. CASE k = r
    BY <2>1, <1>0
  <2>2. CASE k < r \/ k > v[p]
    <3>1. k \in 1..v[p] \/ k \in 1..v[a]
      BY <2>2, <1>2, <1>0, <1>t, <1>u
    <3>2. PICK q \in Players : v[q] = k
      BY <3>1 DEF Gapless
    <3> QED BY <3>2, <2>2, <1>0, <1>2, <1>t
  <2>3. CASE k > r /\ k <= v[p]
    <3>1. k - 1 \in 1..v[p]
      BY <2>3, <1>2, <1>t
    <3>2. PICK q \in Players : v[q] = k - 1
      BY <3>1 DEF Gapless
    <3> QED BY <3>2, <2>3, <1>0, <1>2, <1>t
  <2> QED BY <2>1, <2>2, <2>3, <1>2, <1>0, <1>t
<1> QED BY <1>1, <1>2 DEF Gapless, w

\* When a player leaves, those behind move up.
LEMMA LeftGapless ==
  ASSUME NEW v \in Views, Gapless(v), NEW p \in Players, v[p] > 0
  PROVE  Gapless(Left(v, p))
<1> DEFINE w == Left(v, p)
<1>0. \A q \in Players : w[q] = IF q = p THEN 0 ELSE IF v[q] > v[p] THEN v[q] - 1 ELSE v[q]
  BY DEF Left
<1>t. \A q \in Players : v[q] \in Int
  BY DEF Views, Absent
<1>u. \A q \in Players : v[q] = v[p] => q = p
  BY <1>t DEF Gapless
<1> HIDE DEF w
<1>1. ASSUME NEW a \in Players, NEW b \in Players, w[a] > 0, w[a] = w[b] PROVE a = b
  BY <1>1, <1>0, <1>t, <1>u DEF Gapless
<1>2. ASSUME NEW a \in Players, NEW k \in 1..w[a] PROVE \E q \in Players : w[q] = k
  <2>1. CASE k < v[p]
    <3>1. PICK q \in Players : v[q] = k
      BY <2>1, <1>t DEF Gapless
    <3> QED BY <3>1, <2>1, <1>0, <1>2, <1>t
  <2>2. CASE k >= v[p]
    <3>1. k + 1 \in 1..v[a]
      BY <2>2, <1>0, <1>2, <1>t, <1>u
    <3>2. PICK q \in Players : v[q] = k + 1
      BY <3>1 DEF Gapless
    <3> QED BY <3>2, <2>2, <1>0, <1>2, <1>t
  <2> QED BY <2>1, <2>2, <1>2, <1>t
<1> QED BY <1>1, <1>2 DEF Gapless, w

-----------------------------------------------------------------------------
(* The entries behind the views.                                           *)
-----------------------------------------------------------------------------
Statuses == {"none", "active", "withdrawn"}
EntriesOK(es) ==
  /\ es \in [Players -> [status : Statuses, rank : Nat, last : Nat, at : Nat]]
  /\ \A p \in Players : (es[p].status = "active") = (es[p].rank > 0)
  /\ \A p \in Players : (es[p].status = "withdrawn") = (es[p].last > 0 /\ es[p].at > 0)

LEMMA ViewOfEntries ==
  ASSUME NEW es, EntriesOK(es)
  PROVE  /\ RankView(es) \in Views
         /\ \A p \in Players : /\ RankView(es)[p] = Rank(es, p)
                               /\ p \in Active(es) <=> RankView(es)[p] > 0
                               /\ p \in Active(es) => RankView(es)[p] = es[p].rank
                               /\ p \notin Active(es) /\ es[p].status # "none" => RankView(es)[p] = 0
                               /\ es[p].status = "none" <=> RankView(es)[p] = Absent
BY DEF EntriesOK, RankView, Rank, Views, Active, Absent, Statuses

LEMMA DenseIsGapless ==
  ASSUME NEW es, EntriesOK(es) PROVE Dense(es) <=> Gapless(RankView(es))
<1> DEFINE v == RankView(es)
<1>1. /\ \A p \in Players : v[p] \in Int /\ (p \in Active(es) <=> v[p] > 0)
      /\ \A p \in Active(es) : v[p] = es[p].rank
      /\ Active(es) \subseteq Players
  BY ViewOfEntries DEF Views, Absent, Active
<1> HIDE DEF v
<1>2. UniqueRanks(es) <=> \A p, q \in Players : v[p] > 0 /\ v[p] = v[q] => p = q
  BY <1>1 DEF UniqueRanks
<1>3. ASSUME NEW r \in Nat \ {0} PROVE Holds(es, r) <=> \E q \in Players : v[q] = r
  BY <1>1 DEF Holds
<1>4. (\A p \in Active(es) : \A r \in 1..es[p].rank : Holds(es, r))
        <=> \A p \in Players : \A r \in 1..v[p] : \E q \in Players : v[q] = r
  BY <1>1, <1>3
<1> QED BY <1>2, <1>4 DEF Dense, Gapless, v

\* The reversal of a result, on views.
Reverted(v, before) ==
  [p \in Players |-> IF p \in DOMAIN before /\ v[p] # Absent THEN before[p] ELSE v[p]]
Remembered(before) ==
  DOMAIN before \subseteq Players /\ \A p \in DOMAIN before : before[p] \in Nat \cup {Absent}

LEMMA ReverseOK ==
  ASSUME NEW es, EntriesOK(es), NEW before, Remembered(before), clock \in Nat \ {0}
  PROVE  /\ EntriesOK(ReverseRanking(es, before))
         /\ RankView(ReverseRanking(es, before)) = Reverted(RankView(es), before)
<1> DEFINE re == ReverseRanking(es, before)
<1>1. ASSUME NEW p \in Players
      PROVE  /\ re[p] \in [status : Statuses, rank : Nat, last : Nat, at : Nat]
             /\ (re[p].status = "active") = (re[p].rank > 0)
             /\ (re[p].status = "withdrawn") = (re[p].last > 0 /\ re[p].at > 0)
             /\ Rank(re, p) = Reverted(RankView(es), before)[p]
  <2>1. CASE ~(p \in DOMAIN before /\ es[p].status # "none")
    BY <2>1 DEF EntriesOK, ReverseRanking, Reverted, RankView, Rank, Absent, Statuses
  <2>2. CASE p \in DOMAIN before /\ es[p].status # "none"
    <3>1. re[p] = Reversed(es[p], before[p])
      BY <2>2 DEF ReverseRanking
    <3>2. Reverted(RankView(es), before)[p] = before[p] /\ before[p] \in Nat \cup {Absent}
      BY <2>2 DEF Reverted, RankView, Rank, Remembered, EntriesOK, Absent
    <3>3. es[p].last \in Nat /\ es[p].at \in Nat
      BY DEF EntriesOK
    <3>4. CASE before[p] = Absent
      BY <3>1, <3>2, <3>4 DEF Reversed, NoEntry, Rank, Statuses
    <3>5. CASE before[p] = 0
      BY <3>1, <3>2, <3>3, <3>5 DEF Reversed, Rank, Statuses, Absent
    <3>6. CASE before[p] \in Nat \ {0}
      BY <3>1, <3>2, <3>6 DEF Reversed, ActiveAt, Rank, Statuses, Absent
    <3> QED BY <3>2, <3>4, <3>5, <3>6
  <2> QED BY <2>1, <2>2
<1>2. re = [p \in Players |-> re[p]]
  BY DEF ReverseRanking
<1> HIDE DEF re
<1>3. EntriesOK(re)
  <2>1. re \in [Players -> [status : Statuses, rank : Nat, last : Nat, at : Nat]]
    BY <1>1, <1>2
  <2> QED BY <2>1, <1>1 DEF EntriesOK
<1>4. RankView(re) = Reverted(RankView(es), before)
  BY <1>1 DEF RankView, Reverted
<1> QED BY <1>3, <1>4 DEF re

\* Changes that give some players a rank of their own.
Changing(adjusted) ==
  DOMAIN adjusted \subseteq Players /\ \A p \in DOMAIN adjusted : adjusted[p].after \in Nat \ {0}
Replaced(v, adjusted) ==
  [p \in Players |-> IF p \in DOMAIN adjusted THEN adjusted[p].after ELSE v[p]]

LEMMA ApplyOK ==
  ASSUME NEW es, EntriesOK(es), NEW adjusted, Changing(adjusted)
  PROVE  /\ EntriesOK(Apply(es, adjusted))
         /\ RankView(Apply(es, adjusted)) = Replaced(RankView(es), adjusted)
<1> DEFINE ap == Apply(es, adjusted)
<1>1. ASSUME NEW p \in Players
      PROVE  /\ ap[p] \in [status : Statuses, rank : Nat, last : Nat, at : Nat]
             /\ (ap[p].status = "active") = (ap[p].rank > 0)
             /\ (ap[p].status = "withdrawn") = (ap[p].last > 0 /\ ap[p].at > 0)
             /\ Rank(ap, p) = Replaced(RankView(es), adjusted)[p]
  <2>1. CASE p \notin DOMAIN adjusted
    BY <2>1 DEF EntriesOK, Apply, Replaced, RankView, Rank, Statuses
  <2>2. CASE p \in DOMAIN adjusted
    BY <2>2 DEF Changing, Apply, Replaced, ActiveAt, Rank, Statuses
  <2> QED BY <2>1, <2>2
<1>2. ap = [p \in Players |-> ap[p]]
  BY DEF Apply
<1> HIDE DEF ap
<1>3. EntriesOK(ap)
  <2>1. ap \in [Players -> [status : Statuses, rank : Nat, last : Nat, at : Nat]]
    BY <1>1, <1>2
  <2> QED BY <2>1, <1>1 DEF EntriesOK
<1>4. RankView(ap) = Replaced(RankView(es), adjusted)
  BY <1>1 DEF RankView, Replaced
<1> QED BY <1>3, <1>4 DEF ap

\* Applying changes and reversing them brings back every rank.
LEMMA ApplyReversed ==
  ASSUME NEW es, EntriesOK(es), NEW adjusted, Changing(adjusted),
         \A p \in DOMAIN adjusted : adjusted[p].before = Rank(es, p), clock \in Nat \ {0}
  PROVE  /\ Remembered(Before(adjusted))
         /\ Reverted(RankView(Apply(es, adjusted)), Before(adjusted)) = RankView(es)
<1>0. DOMAIN Before(adjusted) = DOMAIN adjusted /\ \A p \in DOMAIN adjusted : Before(adjusted)[p] = Rank(es, p)
  BY DEF Before
<1>1. Remembered(Before(adjusted))
  <2>1. \A p \in Players : Rank(es, p) \in Nat \cup {Absent}
    BY DEF EntriesOK, Rank, Absent
  <2> QED BY <1>0, <2>1 DEF Remembered, Changing
<1>2. \A p \in DOMAIN adjusted : Replaced(RankView(es), adjusted)[p] # Absent
  BY DEF Replaced, Changing, Absent
<1>3. RankView(Apply(es, adjusted)) = Replaced(RankView(es), adjusted)
  BY ApplyOK
<1>4. \A p \in Players : Reverted(Replaced(RankView(es), adjusted), Before(adjusted))[p] = RankView(es)[p]
  BY <1>0, <1>2 DEF Reverted, Replaced, RankView
<1>5. Reverted(Replaced(RankView(es), adjusted), Before(adjusted)) = RankView(es)
  BY <1>4 DEF Reverted, RankView
<1> QED BY <1>1, <1>3, <1>5

-----------------------------------------------------------------------------
(* What a result does.                                                     *)
-----------------------------------------------------------------------------
\* Of a finite set that is not empty, an element with the greatest value.
LEMMA Greatest ==
  ASSUME NEW S, IsFiniteSet(S), S # {}, NEW f \in [S -> Nat]
  PROVE  \E x \in S : \A y \in S : f[y] <= f[x]
<1> DEFINE Above(x) == {y \in S : f[y] > f[x]}
           T == {Above(x) : x \in S}
<1>1. T \subseteq FiniteSubsetsOf(S) /\ T # {}
  <2>1. \A x \in S : Above(x) \in SUBSET S /\ IsFiniteSet(Above(x))
    BY FS_Subset
  <2> HIDE DEF Above
  <2> QED BY <2>1 DEF FiniteSubsetsOf
<1>2. PICK t \in T : \A u \in T : <<u, t>> \notin StrictSubsetOrdering(S)
  <2> HIDE DEF T
  <2> QED BY <1>1, WFMin, FS_StrictSubsetOrderingWellFounded
<1>3. PICK x \in S : t = Above(x)
  BY <1>2
<1>4. ASSUME NEW y \in S, f[y] > f[x] PROVE FALSE
  <2>1. Above(y) \subseteq Above(x) /\ y \in Above(x) /\ y \notin Above(y)
    BY <1>4
  <2>2. <<Above(y), Above(x)>> \in StrictSubsetOrdering(S)
    BY <2>1 DEF StrictSubsetOrdering
  <2> QED BY <1>2, <1>3, <2>2
<1> QED BY <1>4

\* The end of a list that is not empty.
LEMMA LastRank ==
  ASSUME NEW es, EntriesOK(es), Active(es) # {}
  PROVE  Bottom(es) \in Nat \ {0} /\ Holds(es, Bottom(es)) /\ \A p \in Active(es) : es[p].rank <= Bottom(es)
<1>1. /\ Active(es) \subseteq Players /\ IsFiniteSet(Active(es))
      /\ \A p \in Active(es) : es[p].rank \in Nat \ {0}
  BY PlayersAssumption, FS_Subset DEF Active, EntriesOK
<1> DEFINE f == [p \in Active(es) |-> es[p].rank]
<1>2. f \in [Active(es) -> Nat]
  BY <1>1
<1>3. PICK p \in Active(es) : \A q \in Active(es) : f[q] <= f[p]
  <2> HIDE DEF f
  <2> QED BY <1>1, <1>2, Greatest
<1>4. \E r \in {es[q].rank : q \in Active(es)} : \A q \in Active(es) : es[q].rank <= r
  BY <1>3
<1>5. /\ Bottom(es) \in {es[q].rank : q \in Active(es)}
      /\ \A q \in Active(es) : es[q].rank <= Bottom(es)
  BY <1>4 DEF Bottom
<1> QED BY <1>1, <1>5 DEF Holds

\* In a gapless list every rank up to a held one is held.
LEMMA HeldBefore ==
  ASSUME NEW es, EntriesOK(es), Dense(es), NEW p \in Active(es), NEW k \in 1..es[p].rank
  PROVE  \E q \in Players : RankView(es)[q] = k
BY ViewOfEntries DEF Dense, Holds, Active

LEMMA InsertAtOK ==
  ASSUME NEW es, EntriesOK(es), NEW p \in Players \ Active(es), NEW r \in Nat \ {0}
  PROVE  LET adjusted == EnterAt(es, p, r)
         IN  /\ Changing(adjusted)
             /\ \A q \in DOMAIN adjusted : adjusted[q].before = Rank(es, q)
             /\ Replaced(RankView(es), adjusted) = Inserted(RankView(es), p, r)
<1> DEFINE adjusted == EnterAt(es, p, r)
<1>1. DOMAIN adjusted = {a \in Active(es) : es[a].rank >= r} \cup {p}
  BY DEF EnterAt
<1>2. \A q \in DOMAIN adjusted : /\ adjusted[q].before = Rank(es, q)
                                 /\ adjusted[q].after = IF q = p THEN r ELSE es[q].rank + 1
  BY DEF EnterAt
<1> HIDE DEF adjusted
<1>3. Changing(adjusted)
  BY <1>1, <1>2 DEF Changing, Active, EntriesOK
<1>4. \A q \in Players : Replaced(RankView(es), adjusted)[q] = Inserted(RankView(es), p, r)[q]
  <2> TAKE q \in Players
  <2>1. CASE q = p
    BY <2>1, <1>1, <1>2 DEF Replaced, Inserted
  <2>2. CASE q # p /\ q \in Active(es)
    BY <2>2, <1>1, <1>2, ViewOfEntries DEF Replaced, Inserted
  <2>3. CASE q # p /\ q \notin Active(es)
    <3>1. RankView(es)[q] \in Int /\ ~(RankView(es)[q] >= r)
      BY <2>3, ViewOfEntries DEF Views, Absent
    <3> QED BY <2>3, <3>1, <1>1 DEF Replaced, Inserted
  <2> QED BY <2>1, <2>2, <2>3
<1>5. Replaced(RankView(es), adjusted) = Inserted(RankView(es), p, r)
  BY <1>4 DEF Replaced, Inserted
<1> QED BY <1>2, <1>3, <1>5 DEF adjusted

\* Where a result inserts its challenger, or lets him rise, in terms of the entries.
EntersAt(es, ch, df, r) ==
  /\ ch \notin Active(es) /\ r \in Nat \ {0}
  /\ r = es[df].rank \/ r = es[df].rank + 1 \/ r = Bottom(es) + 1

LEMMA TargetsCases ==
  ASSUME NEW es, EntriesOK(es), NEW ch \in Players, NEW df \in Active(es), NEW target, NEW winner
  PROVE  LET adjusted == Targets(es, ch, df, target, winner)
         IN  \/ adjusted = NoChange
             \/ \E r : EntersAt(es, ch, df, r) /\ adjusted = EnterAt(es, ch, r)
             \/ /\ winner = 1 /\ ch \in Active(es) /\ es[df].rank < es[ch].rank
                /\ adjusted = RankedTargets(es, ch, df, winner)
<1> DEFINE adjusted == Targets(es, ch, df, target, winner)
<1>0. /\ es[df].rank \in Nat \ {0} /\ es[ch].rank \in Nat /\ Bottom(es) \in Nat \ {0}
      /\ es[ch].status \in Statuses /\ (ch \in Active(es) <=> es[ch].status = "active")
  BY LastRank DEF Active, EntriesOK
<1>1. CASE es[ch].status = "none"
  <2>1. adjusted = NewcomerTargets(es, ch, df, target, winner)
    BY <1>1 DEF Targets
  <2> HIDE DEF adjusted
  <2>2. adjusted = NoChange \/ adjusted = EnterAt(es, ch, es[df].rank) \/ adjusted = EnterAt(es, ch, Bottom(es) + 1)
    BY <2>1 DEF NewcomerTargets
  <2>3. EntersAt(es, ch, df, es[df].rank) /\ EntersAt(es, ch, df, Bottom(es) + 1)
    BY <1>0, <1>1 DEF EntersAt
  <2> QED BY <2>2, <2>3 DEF adjusted
<1>2. CASE es[ch].status = "withdrawn"
  <2>1. adjusted = ReturnerTargets(es, ch, df, target, winner)
    BY <1>2 DEF Targets
  <2> HIDE DEF adjusted
  <2>2. \/ adjusted = NoChange \/ adjusted = EnterAt(es, ch, es[df].rank)
        \/ adjusted = EnterAt(es, ch, es[df].rank + 1) \/ adjusted = EnterAt(es, ch, Bottom(es) + 1)
    BY <2>1 DEF ReturnerTargets
  <2>3. EntersAt(es, ch, df, es[df].rank) /\ EntersAt(es, ch, df, es[df].rank + 1) /\ EntersAt(es, ch, df, Bottom(es) + 1)
    BY <1>0, <1>2 DEF EntersAt
  <2> QED BY <2>2, <2>3 DEF adjusted
<1>3. CASE es[ch].status = "active"
  <2>1. adjusted = RankedTargets(es, ch, df, winner)
    BY <1>3 DEF Targets
  <2> HIDE DEF adjusted
  <2>2. adjusted = NoChange \/ (winner = 1 /\ es[df].rank < es[ch].rank)
    BY <2>1, <1>0 DEF RankedTargets
  <2> QED BY <2>1, <2>2, <1>0, <1>3 DEF adjusted
<1> QED BY <1>0, <1>1, <1>2, <1>3 DEF Statuses

LEMMA RankedOK ==
  ASSUME NEW es, EntriesOK(es), NEW ch \in Active(es), NEW df \in Active(es), es[df].rank < es[ch].rank
  PROVE  LET adjusted == RankedTargets(es, ch, df, 1)
         IN  /\ Changing(adjusted)
             /\ \A q \in DOMAIN adjusted : adjusted[q].before = Rank(es, q)
             /\ Replaced(RankView(es), adjusted) = Risen(RankView(es), ch, es[df].rank)
<1> DEFINE adjusted == RankedTargets(es, ch, df, 1)
<1>0. \A q \in Active(es) : es[q].rank \in Nat \ {0} /\ q \in Players /\ Rank(es, q) = es[q].rank
  BY DEF EntriesOK, Active, Rank
<1>1. adjusted = [q \in {a \in Active(es) : es[a].rank \in es[df].rank..es[ch].rank} |->
          [before |-> es[q].rank, after |-> IF q = ch THEN es[df].rank ELSE es[q].rank + 1]]
  BY <1>0 DEF RankedTargets
<1> HIDE DEF adjusted
<1>2. DOMAIN adjusted = {a \in Active(es) : es[a].rank \in es[df].rank..es[ch].rank}
  BY <1>1
<1>3. \A q \in DOMAIN adjusted : /\ adjusted[q].before = Rank(es, q)
                                 /\ adjusted[q].after = IF q = ch THEN es[df].rank ELSE es[q].rank + 1
  BY <1>1, <1>0
<1>4. Changing(adjusted)
  BY <1>2, <1>3, <1>0 DEF Changing
<1>5. \A q \in Players : Replaced(RankView(es), adjusted)[q] = Risen(RankView(es), ch, es[df].rank)[q]
  <2> TAKE q \in Players
  <2>1. CASE q \in Active(es)
    BY <2>1, <1>0, <1>2, <1>3, ViewOfEntries DEF Replaced, Risen
  <2>2. CASE q \notin Active(es)
    <3>1. RankView(es)[q] \in Int /\ ~(RankView(es)[q] >= es[df].rank) /\ q # ch
      BY <2>2, <1>0, ViewOfEntries DEF Views, Absent
    <3> QED BY <2>2, <3>1, <1>0, <1>2, ViewOfEntries DEF Replaced, Risen
  <2> QED BY <2>1, <2>2
<1>6. Replaced(RankView(es), adjusted) = Risen(RankView(es), ch, es[df].rank)
  BY <1>5 DEF Replaced, Risen
<1> QED BY <1>3, <1>4, <1>6 DEF adjusted

\* Whatever the result, each change is of a player's own rank to a proper one, and a
\* gapless list stays gapless.
LEMMA TargetsOK ==
  ASSUME NEW es, EntriesOK(es), NEW ch \in Players, NEW df \in Active(es), NEW target, NEW winner
  PROVE  LET adjusted == Targets(es, ch, df, target, winner)
         IN  /\ Changing(adjusted)
             /\ \A q \in DOMAIN adjusted : adjusted[q].before = Rank(es, q)
             /\ Dense(es) => Dense(Apply(es, adjusted))
<1> DEFINE adjusted == Targets(es, ch, df, target, winner)
           v == RankView(es)
<1>0. /\ v \in Views /\ (Dense(es) <=> Gapless(v))
      /\ es[df].rank \in Nat \ {0} /\ df \in Players
  BY ViewOfEntries, DenseIsGapless DEF Active, EntriesOK
<1>a. /\ Changing(adjusted) => EntriesOK(Apply(es, adjusted))
      /\ Changing(adjusted) => RankView(Apply(es, adjusted)) = Replaced(v, adjusted)
  BY ApplyOK
<1>1. CASE adjusted = NoChange
  <2>1. Changing(adjusted) /\ DOMAIN adjusted = {}
    BY <1>1 DEF Changing, NoChange
  <2>2. Replaced(v, adjusted) = v
    BY <2>1, <1>0 DEF Replaced, Views
  <2> QED BY <2>1, <2>2, <1>0, <1>a, DenseIsGapless
<1>2. ASSUME NEW r, EntersAt(es, ch, df, r), adjusted = EnterAt(es, ch, r)
      PROVE  /\ Changing(adjusted)
             /\ \A q \in DOMAIN adjusted : adjusted[q].before = Rank(es, q)
             /\ Dense(es) => Dense(Apply(es, adjusted))
  <2>1. ch \in Players \ Active(es) /\ r \in Nat \ {0} /\ v[ch] <= 0
    BY <1>2, ViewOfEntries DEF EntersAt, Views, Absent
  <2>2. /\ Changing(adjusted)
        /\ \A q \in DOMAIN adjusted : adjusted[q].before = Rank(es, q)
        /\ Replaced(v, adjusted) = Inserted(v, ch, r)
    BY <2>1, <1>2, InsertAtOK
  <2>3. ASSUME Dense(es), NEW k \in 1..(r - 1) PROVE \E q \in Players : v[q] = k
    <3>1. CASE r = es[df].rank \/ r = es[df].rank + 1
      <4>1. k \in 1..es[df].rank
        BY <2>1, <2>3, <3>1, <1>0
      <4> QED BY <4>1, <2>3, HeldBefore
    <3>2. CASE r = Bottom(es) + 1
      <4>1. PICK p \in Active(es) : es[p].rank = Bottom(es)
        BY LastRank DEF Holds
      <4>2. k \in 1..es[p].rank
        BY <2>1, <2>3, <3>2, <4>1, LastRank
      <4> QED BY <4>2, <2>3, HeldBefore
    <3> QED BY <3>1, <3>2, <1>2 DEF EntersAt
  <2>4. Dense(es) => Gapless(Inserted(v, ch, r))
    BY <2>1, <2>3, <1>0, InsertedGapless
  <2> QED BY <2>2, <2>4, <1>a, DenseIsGapless
<1>3. CASE winner = 1 /\ ch \in Active(es) /\ es[df].rank < es[ch].rank /\ adjusted = RankedTargets(es, ch, df, winner)
  <2>1. /\ Changing(adjusted)
        /\ \A q \in DOMAIN adjusted : adjusted[q].before = Rank(es, q)
        /\ Replaced(v, adjusted) = Risen(v, ch, es[df].rank)
    BY <1>3, RankedOK
  <2>2. Dense(es) => Gapless(Risen(v, ch, es[df].rank))
    BY <1>0, <1>3, ViewOfEntries, RisenGapless
  <2> QED BY <2>1, <2>2, <1>a, DenseIsGapless
<1> QED
  <2> HIDE DEF adjusted, v
  <2>1. \/ adjusted = NoChange
        \/ \E r : EntersAt(es, ch, df, r) /\ adjusted = EnterAt(es, ch, r)
        \/ /\ winner = 1 /\ ch \in Active(es) /\ es[df].rank < es[ch].rank
           /\ adjusted = RankedTargets(es, ch, df, winner)
    BY TargetsCases DEF adjusted
  <2>2. CASE \E r : EntersAt(es, ch, df, r) /\ adjusted = EnterAt(es, ch, r)
    <3>1. PICK r : EntersAt(es, ch, df, r) /\ adjusted = EnterAt(es, ch, r)
      BY <2>2
    <3> QED BY <3>1, <1>2 DEF adjusted
  <2> QED BY <2>1, <2>2, <1>1, <1>3 DEF adjusted

-----------------------------------------------------------------------------
(* The inductive invariant.  Beside types it says what makes a reversal    *)
(* exact: each result remembers the ranks it left behind (post) and the    *)
(* ones it changed (before), and together they give a gapless list; so     *)
(* does the present list, as long as nobody has overridden the ranks.      *)
-----------------------------------------------------------------------------
MatchOK(x) == (\E S \in SUBSET Players : x \in MatchRows(S)) /\ x.ch # x.df
RowsOK ==
  /\ DOMAIN matches = Matches
  /\ \A m \in Matches : matches[m] # None => MatchOK(matches[m])
  /\ \A m \in Matches : HasResult(matches, m) /\ matches[m].res.expires # 0 => matches[m].target # 0
RequestsOK == /\ \A p, o \in Players : <<"challenge", p, o>> \in pending => p # o
              /\ \A m \in Matches : cache.matches[m] # None => matches[m] # None
Restored(x) == Reverted(x.res.post, x.res.before)
RanksOK ==
  ~disturbed => /\ Dense(entries)
                /\ \A m \in Matches : HasResult(matches, m) => Gapless(Restored(matches[m]))
IInv == /\ scene \in Scenes /\ clock \in Nat \ {0}
        /\ EntriesOK(entries) /\ RowsOK /\ RequestsOK /\ RanksOK

Seeded(p) == \E r \in DOMAIN scene.seeded : scene.seeded[r] = p
SeedOf(p) == CHOOSE r \in DOMAIN scene.seeded : scene.seeded[r] = p

LEMMA InitIInv == Init => IInv
<1> SUFFICES ASSUME Init PROVE IInv
  OBVIOUS
<1>1. PICK n \in Nat : DOMAIN scene.seeded = 1..n /\ \A r \in 1..n : scene.seeded[r] \in Players
  <2>1. PICK n \in Ranks : scene.seeded \in [1..n -> Players]
    BY SceneAssumption DEF Init
  <2>2. n \in Nat
    BY <2>1, FS_CardinalityType, PlayersAssumption DEF Ranks
  <2> QED BY <2>1, <2>2
<1>2. \A i, j \in 1..n : scene.seeded[i] = scene.seeded[j] => i = j
  BY <1>1, SceneAssumption DEF Init
<1>3. \A p \in Players : Seeded(p) => SeedOf(p) \in 1..n /\ scene.seeded[SeedOf(p)] = p
  BY <1>1 DEF Seeded, SeedOf
<1>4. \A p \in Players : entries[p] = IF Seeded(p) THEN ActiveAt(SeedOf(p)) ELSE NoEntry
  BY DEF Init, Seeded, SeedOf
<1>5. entries = [p \in Players |-> entries[p]]
  BY DEF Init
<1>6. EntriesOK(entries)
  BY <1>3, <1>4, <1>5 DEF EntriesOK, ActiveAt, NoEntry, Statuses
<1>7. Dense(entries)
  <2>0. \A p \in Players : /\ Seeded(p) => entries[p].status = "active" /\ entries[p].rank = SeedOf(p)
                           /\ ~Seeded(p) => entries[p].status = "none"
    <3> TAKE p \in Players
    <3>1. CASE Seeded(p)
      <4>1. entries[p] = ActiveAt(SeedOf(p))
        BY <1>4, <3>1
      <4> QED BY <4>1, <3>1 DEF ActiveAt
    <3>2. CASE ~Seeded(p)
      BY <1>4, <3>2 DEF NoEntry
    <3> QED BY <3>1, <3>2
  <2>1. ASSUME NEW p \in Active(entries) PROVE p \in Players /\ Seeded(p) /\ entries[p].rank = SeedOf(p)
    <3>1. p \in Players /\ entries[p].status = "active"
      BY DEF Active
    <3>2. Seeded(p)
      BY <3>1, <2>0
    <3> QED BY <3>1, <3>2, <2>0
  <2>2. \A r \in 1..n : Holds(entries, r)
    <3> TAKE r \in 1..n
    <3>1. scene.seeded[r] \in Players /\ Seeded(scene.seeded[r])
      BY <1>1 DEF Seeded
    <3>2. SeedOf(scene.seeded[r]) = r
      BY <3>1, <1>2, <1>3
    <3> QED BY <3>1, <3>2, <2>0 DEF Holds, Active
  <2> QED BY <2>1, <2>2, <1>3 DEF Dense, UniqueRanks
<1>8. RowsOK /\ RequestsOK
  BY DEF Init, RowsOK, RequestsOK, HasResult
<1>9. RanksOK
  <2>1. \A m \in Matches : ~HasResult(matches, m)
    BY DEF Init, HasResult
  <2> QED BY <1>7, <2>1 DEF RanksOK
<1>10. scene \in Scenes /\ clock \in Nat \ {0}
  BY DEF Init
<1> QED BY <1>6, <1>8, <1>9, <1>10 DEF IInv

\* The parts of a row.
LEMMA RowParts ==
  ASSUME RowsOK, NEW m \in Matches, matches[m] # None
  PROVE  /\ matches[m].ch \in Players /\ matches[m].df \in Players /\ matches[m].ch # matches[m].df
         /\ matches[m].target \in Nat /\ matches[m].ignored \in BOOLEAN
         /\ HasResult(matches, m) =>
              /\ \E S \in SUBSET Players : matches[m].res \in ResultRows(S)
              /\ Remembered(matches[m].res.before) /\ matches[m].res.post \in Views
              /\ matches[m].res.expires \in Nat /\ matches[m].res.first \in Nat
<1>1. PICK S \in SUBSET Players : matches[m] \in MatchRows(S)
  BY DEF RowsOK, MatchOK
<1>2. /\ matches[m].ch \in Players /\ matches[m].df \in Players /\ matches[m].target \in Nat
      /\ matches[m].ignored \in BOOLEAN /\ matches[m].res \in ResultRows(S) \cup {None}
  BY <1>1 DEF MatchRows
<1>3. HasResult(matches, m) => matches[m].res \in ResultRows(S)
  BY <1>2 DEF HasResult
<1>4. ASSUME NEW r \in ResultRows(S)
      PROVE  Remembered(r.before) /\ r.post \in Views /\ r.expires \in Nat /\ r.first \in Nat
  BY DEF ResultRows, Remembered, RankOrAbsent, Views
<1> QED BY <1>2, <1>3, <1>4 DEF RowsOK, MatchOK

\* Undoing a result gives a proper list, a gapless one unless it has been overridden.
LEMMA UndoneOK ==
  ASSUME IInv, NEW m \in Matches, matches[m] # None
  PROVE  /\ EntriesOK(Undone(m))
         /\ ~disturbed /\ Intact(m) => Dense(Undone(m))
<1>1. CASE ~HasResult(matches, m)
  BY <1>1 DEF IInv, RanksOK, Undone
<1>2. CASE HasResult(matches, m)
  <2>1. Undone(m) = ReverseRanking(entries, matches[m].res.before)
    BY <1>2 DEF Undone
  <2>2. Remembered(matches[m].res.before)
    BY <1>2, RowParts DEF IInv
  <2>3. /\ EntriesOK(Undone(m))
        /\ RankView(Undone(m)) = Reverted(RankView(entries), matches[m].res.before)
    BY <2>1, <2>2, ReverseOK DEF IInv
  <2>4. ASSUME ~disturbed, Intact(m) PROVE Gapless(RankView(Undone(m)))
    BY <1>2, <2>3, <2>4 DEF IInv, RanksOK, Intact, Restored
  <2> QED BY <2>3, <2>4, DenseIsGapless
<1> QED BY <1>1, <1>2

\* The row of a result that is entered.
LEMMA NewResultOK ==
  ASSUME IInv, NEW m \in Matches, matches[m] # None, NEW winner \in {1, 2}, NEW target \in Nat,
         NEW es, EntriesOK(es), NEW adjusted, Changing(adjusted),
         \A p \in DOMAIN adjusted : adjusted[p].before = Rank(es, p)
  PROVE  /\ NewResult(m, winner, target, es, adjusted) \in ResultRows(DOMAIN adjusted)
         /\ NewResult(m, winner, target, es, adjusted).expires # 0 => target # 0
<1>1. clock \in Nat /\ Year \in Nat /\ EntryGap \in Nat
  BY SceneAssumption, TimesAssumption DEF IInv, Year
<1>2. HasResult(matches, m) => matches[m].res.expires \in Nat /\ matches[m].res.first \in Nat
  BY RowParts DEF IInv
<1>3. Deadline(m) \in Nat
  BY <1>1, <1>2 DEF Deadline
<1>4. Before(adjusted) \in [DOMAIN adjusted -> RankOrAbsent]
  BY ApplyReversed DEF IInv, Remembered, Before, RankOrAbsent
<1>5. RankView(Apply(es, adjusted)) \in [Players -> RankOrAbsent]
  BY ApplyOK, ViewOfEntries DEF Views, RankOrAbsent
<1>6. /\ (IF target = 0 THEN 0 ELSE target + EntryGap) \in Nat
      /\ (IF target = 0 THEN 0 ELSE Deadline(m)) \in Nat
      /\ (IF HasResult(matches, m) THEN matches[m].res.first ELSE clock) \in Nat
  BY <1>1, <1>2, <1>3
<1> HIDE DEF ResultRows
<1>7. NewResult(m, winner, target, es, adjusted) \in ResultRows(DOMAIN adjusted)
  BY <1>1, <1>4, <1>5, <1>6 DEF NewResult, ResultRows
<1> QED BY <1>7 DEF NewResult

\* A result that is entered leaves a proper list, and remembers what restores the old one.
LEMMA EnterResultOK ==
  ASSUME IInv, NEW m \in Matches, matches[m] # None, NEW winner \in {1, 2}, NEW adjusted, Changing(adjusted),
         \A p \in DOMAIN adjusted : adjusted[p].before = Rank(Undone(m), p),
         EnterResult(m, winner, adjusted)
  PROVE  /\ scene' = scene /\ clock' = clock /\ EntriesOK(entries)'
         /\ RowsOK' /\ RequestsOK' /\ entries' = Apply(Undone(m), adjusted)
         /\ HasResult(matches, m)' /\ Restored(matches[m])' = RankView(Undone(m))
         /\ \A n \in Matches \ {m} : matches'[n] = matches[n]
         /\ matches'[m].res = NewResult(m, winner, TargetOf(Undone(m), m), Undone(m), adjusted)
         /\ matches'[m].target = TargetOf(Undone(m), m)
<1> DEFINE es == Undone(m)
           target == TargetOf(es, m)
           res == NewResult(m, winner, target, es, adjusted)
<1>1. /\ EntriesOK(es) /\ matches[m].target \in Nat /\ matches[m].df \in Players
      /\ matches[m].ch # matches[m].df
  BY UndoneOK, RowParts DEF IInv
<1>2. target \in Nat
  BY <1>1 DEF TargetOf, EntriesOK, Active
<1>3. /\ EntriesOK(Apply(es, adjusted)) /\ RankView(Apply(es, adjusted)) \in Views
      /\ Remembered(Before(adjusted))
      /\ Reverted(RankView(Apply(es, adjusted)), Before(adjusted)) = RankView(es)
  BY <1>1, ApplyOK, ApplyReversed, ViewOfEntries DEF IInv
<1>4. /\ res.before = Before(adjusted) /\ res.post = RankView(Apply(es, adjusted))
      /\ res \in ResultRows(DOMAIN adjusted) /\ (res.expires # 0 => target # 0)
  <2>1. res \in ResultRows(DOMAIN adjusted) /\ (res.expires # 0 => target # 0)
    <3> HIDE DEF es, target
    <3> QED BY <1>1, <1>2, NewResultOK DEF es
  <2> QED BY <2>1 DEF NewResult
<1>5. /\ entries' = Apply(es, adjusted) /\ UNCHANGED <<scene, cache, pending, clock>>
      /\ matches' = [matches EXCEPT ![m].target = target, ![m].res = res]
  BY DEF EnterResult
<1> HIDE DEF es, target, res
<1>6. /\ DOMAIN matches' = Matches
      /\ \A n \in Matches \ {m} : matches'[n] = matches[n]
      /\ matches'[m] = [matches[m] EXCEPT !.target = target, !.res = res]
  <2>1. DOMAIN matches = Matches
    BY DEF IInv, RowsOK
  <2> QED BY <1>5, <2>1
<1>7. /\ matches'[m] \in MatchRows(DOMAIN adjusted) /\ DOMAIN adjusted \in SUBSET Players
      /\ matches'[m].ch # matches'[m].df /\ matches'[m].res = res /\ matches'[m].target = target
  <2>1. PICK S0 \in SUBSET Players : matches[m] \in MatchRows(S0)
    BY DEF IInv, RowsOK, MatchOK
  <2>2. matches'[m] \in MatchRows(DOMAIN adjusted)
    BY <2>1, <1>2, <1>4, <1>6 DEF MatchRows
  <2>3. /\ matches'[m].ch = matches[m].ch /\ matches'[m].df = matches[m].df
        /\ matches'[m].res = res /\ matches'[m].target = target
    BY <2>1, <1>6 DEF MatchRows
  <2> QED BY <2>2, <2>3, <1>1 DEF Changing
<1>8. matches'[m] # None /\ res # None
  BY <1>4, <1>7, NoneAssumption
<1>9. RowsOK'
  <2>1. \A n \in Matches : matches'[n] # None => MatchOK(matches'[n])
    BY <1>6, <1>7 DEF IInv, RowsOK, MatchOK
  <2>2. \A n \in Matches : HasResult(matches', n) /\ matches'[n].res.expires # 0 => matches'[n].target # 0
    BY <1>4, <1>6, <1>7 DEF IInv, RowsOK, HasResult
  <2> QED BY <1>6, <2>1, <2>2 DEF RowsOK
<1>10. RequestsOK'
  <2>1. \A n \in Matches : cache.matches[n] # None => matches'[n] # None
    BY <1>6, <1>8 DEF IInv, RequestsOK
  <2> QED BY <1>5, <2>1 DEF IInv, RequestsOK
<1>11. Restored(matches'[m]) = RankView(es)
  BY <1>3, <1>4, <1>7 DEF Restored
<1> QED BY <1>3, <1>5, <1>6, <1>7, <1>8, <1>9, <1>10, <1>11 DEF es, target, res, HasResult

-----------------------------------------------------------------------------
(* Each action keeps the invariant.                                        *)
-----------------------------------------------------------------------------
\* What a regular result does, on top of EnterResultOK.
LEMMA SetResultStep ==
  ASSUME IInv, NEW m \in Matches, NEW winner \in {1, 2}, SetResult(m, winner)
  PROVE  LET x == matches[m]
             adjusted == Targets(Undone(m), x.ch, x.df, TargetOf(Undone(m), m), winner)
         IN  /\ matches[m] # None /\ x.ch \in Players /\ x.df \in Active(Undone(m))
             /\ Changing(adjusted)
             /\ \A p \in DOMAIN adjusted : adjusted[p].before = Rank(Undone(m), p)
             /\ EnterResult(m, winner, adjusted)
             /\ ~disturbed' => ~disturbed /\ Intact(m)
<1>1. matches[m] # None
  BY DEF SetResult, IInv, RequestsOK
<1>2. matches[m].ch \in Players /\ matches[m].df \in Active(Undone(m))
  BY <1>1, RowParts DEF IInv, SetResult
<1>3. EntriesOK(Undone(m))
  BY <1>1, UndoneOK
<1> DEFINE adjusted == Targets(Undone(m), matches[m].ch, matches[m].df, TargetOf(Undone(m), m), winner)
<1>4. Changing(adjusted) /\ \A p \in DOMAIN adjusted : adjusted[p].before = Rank(Undone(m), p)
  BY <1>2, <1>3, TargetsOK
<1>5. EnterResult(m, winner, adjusted) /\ (~disturbed' => ~disturbed /\ Intact(m))
  BY DEF SetResult
<1> QED BY <1>1, <1>2, <1>4, <1>5

LEMMA SetResultIInv ==
  ASSUME IInv, NEW m \in Matches, NEW winner \in {1, 2}, SetResult(m, winner) PROVE IInv'
<1> DEFINE adjusted == Targets(Undone(m), matches[m].ch, matches[m].df, TargetOf(Undone(m), m), winner)
<1>1. /\ matches[m] # None /\ matches[m].ch \in Players /\ matches[m].df \in Active(Undone(m))
      /\ Changing(adjusted)
      /\ \A p \in DOMAIN adjusted : adjusted[p].before = Rank(Undone(m), p)
      /\ EnterResult(m, winner, adjusted)
      /\ ~disturbed' => ~disturbed /\ Intact(m)
  BY SetResultStep
<1>2. EntriesOK(Undone(m)) /\ (~disturbed /\ Intact(m) => Dense(Undone(m)))
  BY <1>1, UndoneOK
<1>3. ~disturbed /\ Intact(m) => Dense(Apply(Undone(m), adjusted))
  BY <1>1, <1>2, TargetsOK
<1> HIDE DEF adjusted
<1>4. /\ scene' = scene /\ clock' = clock /\ EntriesOK(entries)'
      /\ RowsOK' /\ RequestsOK' /\ entries' = Apply(Undone(m), adjusted)
      /\ Restored(matches[m])' = RankView(Undone(m))
      /\ \A n \in Matches \ {m} : matches'[n] = matches[n]
  BY <1>1, EnterResultOK
<1>5. ASSUME ~disturbed' PROVE Dense(entries)'
  BY <1>1, <1>3, <1>4, <1>5
<1>6. ASSUME ~disturbed', NEW n \in Matches, HasResult(matches, n)' PROVE Gapless(Restored(matches[n])')
  <2>1. CASE n = m
    BY <1>1, <1>2, <1>4, <1>6, <2>1, DenseIsGapless
  <2>2. CASE n # m
    BY <1>1, <1>4, <1>6, <2>2 DEF IInv, RanksOK, HasResult, Restored
  <2> QED BY <2>1, <2>2
<1>7. RanksOK'
  BY <1>5, <1>6 DEF RanksOK
<1> QED BY <1>4, <1>7 DEF IInv

\* An administrator's plan changes ranks to proper ones, too.
LEMMA CorrectResultStep ==
  ASSUME IInv, NEW m \in Matches, NEW winner \in {1, 2}, CorrectResult(m, winner)
  PROVE  \E adjusted : /\ matches[m] # None /\ Changing(adjusted)
                       /\ \A p \in DOMAIN adjusted : adjusted[p].before = Rank(Undone(m), p)
                       /\ EnterResult(m, winner, adjusted)
<1> DEFINE es == Undone(m)
           members == {p \in Players : es[p].status # "none"}
           Planned(plan) == [p \in {q \in members : plan[q] # Rank(es, q)} |-> [before |-> Rank(es, p), after |-> plan[p]]]
<1>1. matches[m] # None
  BY DEF CorrectResult, IInv, RequestsOK
<1>2. EntriesOK(es)
  BY <1>1, UndoneOK
<1>3. PICK plan \in scene.plans :
        /\ \A p \in members : plan[p] = 0 => p \notin Active(es)
        /\ EnterResult(m, winner, Planned(plan))
  BY DEF CorrectResult
<1>4. plan \in [Players -> Nat]
  BY SceneAssumption DEF IInv
<1> DEFINE adjusted == Planned(plan)
<1>5. ASSUME NEW p \in DOMAIN adjusted
      PROVE  p \in Players /\ adjusted[p].after \in Nat \ {0} /\ adjusted[p].before = Rank(es, p)
  <2>1. /\ p \in Players /\ es[p].status # "none" /\ plan[p] # Rank(es, p)
        /\ adjusted[p].after = plan[p] /\ adjusted[p].before = Rank(es, p)
    OBVIOUS
  <2>2. plan[p] # 0
    <3> HIDE DEF es
    <3>1. p \notin Active(es) => Rank(es, p) = 0
      BY <1>2, <2>1 DEF EntriesOK, Active, Rank
    <3> QED BY <2>1, <3>1, <1>3 DEF es
  <2> QED BY <2>1, <2>2, <1>4
<1>6. Changing(adjusted)
  BY <1>5 DEF Changing
<1> HIDE DEF adjusted
<1> QED BY <1>1, <1>3, <1>5, <1>6 DEF adjusted

LEMMA CorrectResultIInv ==
  ASSUME IInv, NEW m \in Matches, NEW winner \in {1, 2}, CorrectResult(m, winner) PROVE IInv'
<1>1. PICK adjusted : /\ matches[m] # None /\ Changing(adjusted)
                      /\ \A p \in DOMAIN adjusted : adjusted[p].before = Rank(Undone(m), p)
                      /\ EnterResult(m, winner, adjusted)
  BY CorrectResultStep
<1>2. /\ scene' = scene /\ clock' = clock /\ EntriesOK(entries)' /\ RowsOK' /\ RequestsOK'
  BY <1>1, EnterResultOK
<1>3. disturbed'
  BY DEF CorrectResult
<1> QED BY <1>2, <1>3 DEF IInv, RanksOK

LEMMA ClearResultIInv ==
  ASSUME IInv, NEW m \in Matches, ClearResult(m) PROVE IInv'
<1>1. HasResult(matches, m) /\ matches[m] # None
  BY DEF ClearResult, HasResult
<1>2. EntriesOK(Undone(m)) /\ (~disturbed /\ Intact(m) => Dense(Undone(m)))
  BY <1>1, UndoneOK
<1>3. /\ scene' = scene /\ clock' = clock /\ pending' = pending /\ cache' = cache
      /\ entries' = Undone(m) /\ matches' = [matches EXCEPT ![m].res = None]
      /\ ~disturbed' => ~disturbed /\ Intact(m)
  BY DEF ClearResult
<1>4. /\ DOMAIN matches' = Matches /\ \A n \in Matches \ {m} : matches'[n] = matches[n]
      /\ matches'[m] = [matches[m] EXCEPT !.res = None]
  <2>1. DOMAIN matches = Matches
    BY DEF IInv, RowsOK
  <2> QED BY <1>3, <2>1
<1>5. PICK S \in SUBSET Players : matches[m] \in MatchRows(S) /\ matches[m].ch # matches[m].df
  BY <1>1 DEF IInv, RowsOK, MatchOK
<1>6. matches'[m] \in MatchRows(S) /\ matches'[m].ch # matches'[m].df /\ matches'[m].res = None
  BY <1>4, <1>5 DEF MatchRows
<1>7. matches'[m] # None
  BY <1>6, NoneAssumption
<1>8. RowsOK'
  <2>1. \A n \in Matches : matches'[n] # None => MatchOK(matches'[n])
    BY <1>4, <1>6 DEF IInv, RowsOK, MatchOK
  <2>2. \A n \in Matches : HasResult(matches', n) /\ matches'[n].res.expires # 0 => matches'[n].target # 0
    BY <1>4, <1>6 DEF IInv, RowsOK, HasResult
  <2> QED BY <1>4, <2>1, <2>2 DEF RowsOK
<1>9. RequestsOK'
  BY <1>3, <1>4, <1>7 DEF IInv, RequestsOK
<1>10. RanksOK'
  <2>1. ~disturbed' => Dense(entries')
    BY <1>2, <1>3
  <2>2. ASSUME ~disturbed', NEW n \in Matches, HasResult(matches', n) PROVE Gapless(Restored(matches'[n]))
    <3>1. n # m
      BY <1>6, <2>2 DEF HasResult
    <3> QED BY <1>3, <1>4, <2>2, <3>1 DEF IInv, RanksOK, HasResult, Restored
  <2> QED BY <2>1, <2>2 DEF RanksOK
<1> QED BY <1>2, <1>3, <1>8, <1>9, <1>10 DEF IInv

\* A withdrawal, as a view.
LEMMA WithdrawView ==
  ASSUME IInv, NEW p \in Players, CommitWithdraw(p)
  PROVE  EntriesOK(entries') /\ RankView(entries') = Left(RankView(entries), p) /\ p \in Active(entries)
<1>1. /\ p \in Active(entries)
      /\ entries' = [q \in Players |->
           IF q = p THEN [status |-> "withdrawn", rank |-> 0, last |-> entries[p].rank, at |-> clock]
           ELSE IF q \in Active(entries) /\ entries[q].rank > entries[p].rank
           THEN [entries[q] EXCEPT !.rank = @ - 1] ELSE entries[q]]
  BY DEF CommitWithdraw
<1>2. EntriesOK(entries) /\ clock \in Nat \ {0}
  BY DEF IInv
<1>3. entries[p].rank \in Nat \ {0}
  BY <1>1, <1>2 DEF EntriesOK, Active
<1>4. ASSUME NEW q \in Players
      PROVE  /\ entries'[q] \in [status : Statuses, rank : Nat, last : Nat, at : Nat]
             /\ (entries'[q].status = "active") = (entries'[q].rank > 0)
             /\ (entries'[q].status = "withdrawn") = (entries'[q].last > 0 /\ entries'[q].at > 0)
             /\ Rank(entries', q) = Left(RankView(entries), p)[q]
  <2>1. CASE q = p
    BY <1>1, <1>2, <1>3, <2>1 DEF Statuses, Rank, Left
  <2>2. CASE q # p /\ q \in Active(entries) /\ entries[q].rank > entries[p].rank
    <3>1. entries'[q] = [entries[q] EXCEPT !.rank = @ - 1]
      BY <1>1, <2>2
    <3>2. Left(RankView(entries), p)[q] = entries[q].rank - 1
      BY <1>1, <1>2, <2>2, ViewOfEntries DEF Left
    <3> QED BY <1>2, <1>3, <2>2, <3>1, <3>2 DEF EntriesOK, Rank, Active, Statuses
  <2>3. CASE q # p /\ ~(q \in Active(entries) /\ entries[q].rank > entries[p].rank)
    <3>1. entries'[q] = entries[q]
      BY <1>1, <2>3
    <3>2. Left(RankView(entries), p)[q] = RankView(entries)[q]
      <4>1. RankView(entries)[p] = entries[p].rank /\ RankView(entries)[q] \in Int
        BY <1>1, <1>2, ViewOfEntries DEF Views, Absent
      <4>2. ~(RankView(entries)[q] > RankView(entries)[p])
        BY <4>1, <1>2, <1>3, <2>3, ViewOfEntries
      <4> QED BY <4>2, <2>3 DEF Left
    <3> QED BY <1>2, <2>3, <3>1, <3>2, ViewOfEntries DEF EntriesOK, Rank
  <2> QED BY <2>1, <2>2, <2>3
<1>5. entries' = [q \in Players |-> entries'[q]]
  BY <1>1
<1>6. EntriesOK(entries')
  <2>1. entries' \in [Players -> [status : Statuses, rank : Nat, last : Nat, at : Nat]]
    BY <1>4, <1>5
  <2> QED BY <2>1, <1>4 DEF EntriesOK
<1>7. RankView(entries') = Left(RankView(entries), p)
  BY <1>4 DEF RankView, Left
<1> QED BY <1>1, <1>6, <1>7

LEMMA CommitWithdrawIInv ==
  ASSUME IInv, NEW p \in Players, CommitWithdraw(p) PROVE IInv'
<1>1. EntriesOK(entries') /\ RankView(entries') = Left(RankView(entries), p) /\ p \in Active(entries)
  BY WithdrawView
<1>2. /\ UNCHANGED <<scene, matches, cache, clock, disturbed>>
      /\ pending' = pending \ {<<"withdraw", p, p>>}
  BY DEF CommitWithdraw
<1>3. RowsOK' /\ RequestsOK'
  BY <1>2 DEF IInv, RowsOK, RequestsOK, HasResult
<1>4. Dense(entries) => Dense(entries')
  <2>1. /\ RankView(entries) \in Views /\ RankView(entries)[p] > 0
        /\ (Dense(entries) <=> Gapless(RankView(entries)))
        /\ (Dense(entries') <=> Gapless(RankView(entries')))
    BY <1>1, ViewOfEntries, DenseIsGapless DEF IInv
  <2> QED BY <2>1, <1>1, LeftGapless
<1>5. RanksOK'
  BY <1>2, <1>4 DEF IInv, RanksOK, HasResult, Restored
<1> QED BY <1>1, <1>2, <1>3, <1>5 DEF IInv

LEMMA CommitChallengeIInv ==
  ASSUME IInv, NEW p \in Players, NEW o \in Players, CommitChallenge(p, o) PROVE IInv'
<1>1. PICK m \in Matches :
        /\ matches[m] = None
        /\ matches' = [matches EXCEPT ![m] = NewMatch(p, o, IF Newcomer(entries, p) THEN entries[o].rank ELSE 0)]
  BY DEF CommitChallenge
<1>2. /\ UNCHANGED <<scene, entries, cache, clock, disturbed>>
      /\ <<"challenge", p, o>> \in pending /\ pending' = pending \ {<<"challenge", p, o>>}
  BY DEF CommitChallenge
<1>3. /\ DOMAIN matches' = Matches /\ \A n \in Matches \ {m} : matches'[n] = matches[n]
      /\ matches'[m] = NewMatch(p, o, IF Newcomer(entries, p) THEN entries[o].rank ELSE 0)
  <2>1. DOMAIN matches = Matches
    BY DEF IInv, RowsOK
  <2> QED BY <1>1, <2>1
<1>4. matches'[m] \in MatchRows({}) /\ matches'[m].ch # matches'[m].df /\ matches'[m].res = None
  <2>1. p # o
    BY <1>2 DEF IInv, RequestsOK
  <2>2. (IF Newcomer(entries, p) THEN entries[o].rank ELSE 0) \in Nat
    BY DEF IInv, EntriesOK
  <2> QED BY <1>3, <2>1, <2>2 DEF NewMatch, MatchRows
<1>5. matches'[m] # None
  BY <1>4, NoneAssumption
<1>6. RowsOK'
  <2>1. \A n \in Matches : matches'[n] # None => MatchOK(matches'[n])
    BY <1>3, <1>4 DEF IInv, RowsOK, MatchOK
  <2>2. \A n \in Matches : HasResult(matches', n) /\ matches'[n].res.expires # 0 => matches'[n].target # 0
    BY <1>3, <1>4 DEF IInv, RowsOK, HasResult
  <2> QED BY <1>3, <2>1, <2>2 DEF RowsOK
<1>7. RequestsOK'
  BY <1>2, <1>3, <1>5 DEF IInv, RequestsOK
<1>8. RanksOK'
  BY <1>2, <1>3, <1>4 DEF IInv, RanksOK, HasResult, Restored
<1> QED BY <1>2, <1>6, <1>7, <1>8 DEF IInv

LEMMA DeleteChallengeIInv ==
  ASSUME IInv, NEW m \in Matches, DeleteChallenge(m) PROVE IInv'
<1>1. /\ matches[m] # None /\ ~HasResult(matches, m) /\ matches[m].res = None
      /\ UNCHANGED <<scene, entries, cache, pending, clock, disturbed>>
  BY DEF DeleteChallenge, HasResult
<1>2. /\ DOMAIN matches' = Matches /\ \A n \in Matches \ {m} : matches'[n] = matches[n]
      /\ matches'[m] = [matches[m] EXCEPT !.ignored = TRUE]
  <2>1. DOMAIN matches = Matches
    BY DEF IInv, RowsOK
  <2> QED BY <2>1 DEF DeleteChallenge
<1>3. PICK S \in SUBSET Players : matches[m] \in MatchRows(S) /\ matches[m].ch # matches[m].df
  BY <1>1 DEF IInv, RowsOK, MatchOK
<1>4. matches'[m] \in MatchRows(S) /\ matches'[m].ch # matches'[m].df /\ matches'[m].res = None
  BY <1>1, <1>2, <1>3 DEF MatchRows
<1>5. matches'[m] # None
  BY <1>4, NoneAssumption
<1>6. RowsOK'
  <2>1. \A n \in Matches : matches'[n] # None => MatchOK(matches'[n])
    BY <1>2, <1>4 DEF IInv, RowsOK, MatchOK
  <2>2. \A n \in Matches : HasResult(matches', n) /\ matches'[n].res.expires # 0 => matches'[n].target # 0
    BY <1>2, <1>4 DEF IInv, RowsOK, HasResult
  <2> QED BY <1>2, <2>1, <2>2 DEF RowsOK
<1>7. RequestsOK'
  BY <1>1, <1>2, <1>5 DEF IInv, RequestsOK
<1>8. RanksOK'
  BY <1>1, <1>2, <1>4 DEF IInv, RanksOK, HasResult, Restored
<1> QED BY <1>1, <1>6, <1>7, <1>8 DEF IInv

LEMMA NextIInv == IInv /\ [Next]_vars => IInv'
<1> SUFFICES ASSUME IInv, [Next]_vars PROVE IInv'
  OBVIOUS
<1>1. ASSUME NEW p \in Players, NEW o \in Players, RequestChallenge(p, o) PROVE IInv'
  <2>1. /\ p # o /\ pending' = pending \cup {<<"challenge", p, o>>}
        /\ UNCHANGED <<scene, entries, matches, cache, clock, disturbed>>
    BY <1>1 DEF RequestChallenge, SendRequest, ChallengeAllowed
  <2> QED BY <2>1 DEF IInv, RowsOK, RequestsOK, RanksOK, HasResult, Restored
<1>2. ASSUME NEW p \in Players, RequestWithdraw(p) PROVE IInv'
  <2>1. /\ pending' = pending \cup {<<"withdraw", p, p>>}
        /\ UNCHANGED <<scene, entries, matches, cache, clock, disturbed>>
    BY <1>2 DEF RequestWithdraw, SendRequest
  <2> QED BY <2>1 DEF IInv, RowsOK, RequestsOK, RanksOK, HasResult, Restored
<1>3. ASSUME NEW r \in pending, Fail(r) PROVE IInv'
  BY <1>3 DEF Fail, IInv, RowsOK, RequestsOK, RanksOK, HasResult, Restored
<1>4. ASSUME Refresh PROVE IInv'
  BY <1>4 DEF Refresh, IInv, RowsOK, RequestsOK, RanksOK, HasResult, Restored
<1>5. ASSUME Tick PROVE IInv'
  BY <1>5 DEF Tick, IInv, RowsOK, RequestsOK, RanksOK, HasResult, Restored
<1>6. ASSUME UNCHANGED vars PROVE IInv'
  BY <1>6 DEF vars, IInv, RowsOK, RequestsOK, RanksOK, HasResult, Restored
<1> QED
  BY <1>1, <1>2, <1>3, <1>4, <1>5, <1>6, CommitChallengeIInv, CommitWithdrawIInv,
     SetResultIInv, CorrectResultIInv, ClearResultIInv, DeleteChallengeIInv DEF Next

\* The rows are what the code's tables hold, and what restores the ranks of before a result
\* is kept with it, after any sequence of challenges, results, corrections and withdrawals.
THEOREM RankingInvariant == Spec => []IInv
BY InitIInv, NextIInv, PTL DEF Spec

-----------------------------------------------------------------------------
(* The properties.                                                         *)
-----------------------------------------------------------------------------
\* The ranks stay 1..n without gaps or ties, although every operation shifts only its own part
\* of the list (setMatchResult, clearMatchResult, setRankingEntryStatus).
LEMMA RanksStayDense == Spec => []RankingSound
<1>1. IInv => RankingSound
  <2> SUFFICES ASSUME IInv PROVE RankingSound
    OBVIOUS
  <2>1. TypeOK
    BY DEF IInv, EntriesOK, RowsOK, MatchOK, TypeOK, Statuses
  <2>2. RanksContiguous
    BY DEF IInv, RanksOK, RanksContiguous
  <2> QED BY <2>1, <2>2 DEF RankingSound
<1> QED BY <1>1, RankingInvariant, PTL

\* Either result of an open match can be entered, and undoing it at once restores every rank
\* (rankingTargets, match_ranking_effects).
LEMMA ResultsCanBeUndone == Spec => []RanksReversible
<1>1. IInv => RanksReversible
  <2> SUFFICES ASSUME IInv, NEW m \in Matches, NEW winner \in {1, 2}, Enterable(m)
               PROVE  LET adjusted == ResultOf(m, winner)
                      IN /\ ~disturbed => UniqueRanks(Apply(entries, adjusted))
                         /\ RankView(ReverseRanking(Apply(entries, adjusted), Before(adjusted))) = RankView(entries)
    BY DEF RanksReversible
  <2> DEFINE adjusted == ResultOf(m, winner)
  <2>1. /\ EntriesOK(entries) /\ clock \in Nat \ {0} /\ (~disturbed => Dense(entries))
        /\ matches[m].ch \in Players /\ matches[m].df \in Active(entries)
    BY RowParts DEF IInv, RanksOK, Enterable, Open
  <2>2. /\ Changing(adjusted) /\ (Dense(entries) => Dense(Apply(entries, adjusted)))
        /\ \A q \in DOMAIN adjusted : adjusted[q].before = Rank(entries, q)
    BY <2>1, TargetsOK DEF ResultOf
  <2> HIDE DEF adjusted
  <2>3. /\ EntriesOK(Apply(entries, adjusted)) /\ Remembered(Before(adjusted))
        /\ Reverted(RankView(Apply(entries, adjusted)), Before(adjusted)) = RankView(entries)
    BY <2>1, <2>2, ApplyOK, ApplyReversed
  <2>4. RankView(ReverseRanking(Apply(entries, adjusted), Before(adjusted))) = RankView(entries)
    BY <2>1, <2>3, ReverseOK
  <2>5. ~disturbed => UniqueRanks(Apply(entries, adjusted))
    BY <2>1, <2>2 DEF Dense
  <2> QED BY <2>4, <2>5 DEF adjusted
<1> QED BY <1>1, RankingInvariant, PTL

\* Both together, after any sequence of operations.
THEOREM RanksAreKept == Spec => []RanksKept
<1>1. RankingSound /\ RanksReversible => RanksKept BY DEF RanksKept
<1>2. QED BY <1>1, RanksStayDense, ResultsCanBeUndone, PTL

\* What a pair of players has to do with the views.
LEMMA OvertakingInViews ==
  ASSUME EntriesOK(entries), EntriesOK(entries'), NEW p \in Players, NEW q \in Players, Overtakes(p, q)
  PROVE  LET v == RankView(entries)
             w == RankView(entries')
         IN  /\ v[p] > v[q] /\ v[q] > 0 /\ w[p] < w[q] /\ w[p] > 0
             /\ {v[p], v[q], w[p], w[q]} \subseteq Int
<1>1. /\ p \in Active(entries) /\ q \in Active(entries) /\ p \in Active(entries') /\ q \in Active(entries')
      /\ entries[p].rank > entries[q].rank /\ entries'[p].rank < entries'[q].rank
  BY DEF Overtakes
<1>2. /\ RankView(entries)[p] = entries[p].rank /\ RankView(entries)[q] = entries[q].rank
      /\ RankView(entries)[q] > 0 /\ RankView(entries) \in Views
  BY <1>1, ViewOfEntries
<1>3. /\ RankView(entries')[p] = entries'[p].rank /\ RankView(entries')[q] = entries'[q].rank
      /\ RankView(entries')[p] > 0 /\ RankView(entries') \in Views
  BY <1>1, ViewOfEntries
<1> QED BY <1>1, <1>2, <1>3 DEF Views, Absent

\* A result lets nobody overtake but a challenger who wins.
LEMMA ResultOvertakes ==
  ASSUME EntriesOK(entries), NEW ch \in Players, NEW df \in Active(entries), NEW target, NEW winner,
         entries' = Apply(entries, Targets(entries, ch, df, target, winner)),
         NEW p \in Players, NEW q \in Players, Overtakes(p, q)
  PROVE  p = ch /\ winner = 1
<1> DEFINE adjusted == Targets(entries, ch, df, target, winner)
           v == RankView(entries)
           w == RankView(entries')
<1>1. Changing(adjusted) /\ EntriesOK(entries') /\ w = Replaced(v, adjusted)
  BY TargetsOK, ApplyOK
<1>2. /\ v[p] > v[q] /\ v[q] > 0 /\ w[p] < w[q] /\ w[p] > 0 /\ {v[p], v[q], w[p], w[q]} \subseteq Int
  BY <1>1, OvertakingInViews
<1>3. \/ adjusted = NoChange
      \/ \E r : EntersAt(entries, ch, df, r) /\ adjusted = EnterAt(entries, ch, r)
      \/ /\ winner = 1 /\ ch \in Active(entries) /\ entries[df].rank < entries[ch].rank
         /\ adjusted = RankedTargets(entries, ch, df, winner)
  BY TargetsCases
<1>4. /\ ch \notin Active(entries) => v[ch] <= 0
      /\ ch \in Active(entries) => v[ch] = entries[ch].rank
      /\ entries[df].rank \in Nat /\ v[ch] \in Int
  BY ViewOfEntries DEF Views, Absent, EntriesOK, Active
<1> HIDE DEF adjusted, v, w
<1>5. adjusted # NoChange
  <2> SUFFICES ASSUME adjusted = NoChange PROVE FALSE
    OBVIOUS
  <2>1. w[p] = v[p] /\ w[q] = v[q]
    BY <1>1 DEF Replaced, NoChange
  <2> QED BY <2>1, <1>2
<1>6. ~ \E r : EntersAt(entries, ch, df, r) /\ adjusted = EnterAt(entries, ch, r)
  <2> SUFFICES ASSUME NEW r, EntersAt(entries, ch, df, r), adjusted = EnterAt(entries, ch, r) PROVE FALSE
    OBVIOUS
  <2>1. ch \in Players \ Active(entries) /\ r \in Nat \ {0}
    BY DEF EntersAt
  <2>2. w = Inserted(v, ch, r)
    BY <2>1, <1>1, InsertAtOK DEF v
  <2>3. p # ch /\ q # ch
    BY <2>1, <1>2, <1>4
  <2> QED BY <2>1, <2>2, <2>3, <1>2 DEF Inserted
<1>7. winner = 1 /\ ch \in Active(entries) /\ entries[df].rank < entries[ch].rank
      /\ adjusted = RankedTargets(entries, ch, df, 1)
  BY <1>3, <1>5, <1>6
<1>8. w = Risen(v, ch, entries[df].rank)
  BY <1>7, <1>1, RankedOK DEF v
<1>9. p = ch
  BY <1>8, <1>2, <1>4, <1>7 DEF Risen
<1> QED BY <1>7, <1>9

\* Nobody overtakes anybody but the challenger who wins (rankingTargets, setRankingEntryStatus).
THEOREM OrderIsKept == Spec => OnlyWinnersOvertake
<1> DEFINE Fair == ~Reverses /\ ~disturbed' => \A p, q \in Players : Overtakes(p, q) =>
        \E m \in Matches : matches'[m] # matches[m] /\ matches[m].ch = p /\ matches'[m].res.winner = 1
<1>1. IInv /\ IInv' /\ [Next]_vars => Fair
  <2> SUFFICES ASSUME IInv, IInv', [Next]_vars, ~Reverses, ~disturbed',
                      NEW p \in Players, NEW q \in Players, Overtakes(p, q)
               PROVE  \E m \in Matches : matches'[m] # matches[m] /\ matches[m].ch = p /\ matches'[m].res.winner = 1
    OBVIOUS
  <2>0. EntriesOK(entries) /\ EntriesOK(entries')
    BY DEF IInv
  <2>1. /\ RankView(entries)[p] > RankView(entries)[q] /\ RankView(entries)[q] > 0
        /\ RankView(entries')[p] < RankView(entries')[q]
        /\ {RankView(entries)[p], RankView(entries)[q], RankView(entries')[p], RankView(entries')[q]} \subseteq Int
    BY <2>0, OvertakingInViews
  <2>2. RankView(entries') # RankView(entries)
    BY <2>1
  <2>3. CASE UNCHANGED entries
    BY <2>2, <2>3
  <2>4. ASSUME NEW a \in Players, CommitWithdraw(a) PROVE FALSE
    <3>1. RankView(entries') = Left(RankView(entries), a) /\ RankView(entries)[a] \in Int
      BY <2>4, WithdrawView, ViewOfEntries DEF IInv, Views, Absent
    <3>2. RankView(entries)[a] > 0
      BY <2>0, <2>4, WithdrawView, ViewOfEntries
    <3>3. p # a /\ q # a
      BY <2>1, <3>1, <2>4, <2>0, ViewOfEntries, WithdrawView DEF Overtakes, Left
    <3> QED BY <2>1, <3>1, <3>2, <3>3 DEF Left
  <2>5. ASSUME NEW m \in Matches, NEW winner \in {1, 2}, SetResult(m, winner)
        PROVE  matches'[m] # matches[m] /\ matches[m].ch = p /\ matches'[m].res.winner = 1
    <3> DEFINE target == TargetOf(Undone(m), m)
               adjusted == Targets(Undone(m), matches[m].ch, matches[m].df, target, winner)
    <3>1. /\ matches[m] # None /\ matches[m].ch \in Players /\ matches[m].df \in Active(Undone(m))
          /\ Changing(adjusted) /\ \A a \in DOMAIN adjusted : adjusted[a].before = Rank(Undone(m), a)
          /\ EnterResult(m, winner, adjusted) /\ Intact(m)
      BY <2>5, SetResultStep
    <3>2. /\ entries' = Apply(Undone(m), adjusted) /\ HasResult(matches', m)
          /\ matches'[m].res = NewResult(m, winner, target, Undone(m), adjusted)
      <4> HIDE DEF adjusted, target
      <4> QED BY <3>1, <2>5, EnterResultOK DEF target
    <3> HIDE DEF adjusted
    <3>3. matches'[m].res.post = RankView(entries') /\ matches'[m].res.winner = winner
      BY <3>2 DEF NewResult
    <3>4. ~HasResult(matches, m)
      <4> SUFFICES ASSUME HasResult(matches, m) PROVE FALSE
        OBVIOUS
      <4>1. matches'[m].res = matches[m].res
        BY DEF Reverses
      <4>2. RankView(entries) = matches[m].res.post
        BY <3>1 DEF Intact
      <4> QED BY <4>1, <4>2, <3>3, <2>2
    <3>5. Undone(m) = entries
      BY <3>4 DEF Undone
    <3>6. matches[m].ch = p /\ winner = 1
      BY <3>1, <3>2, <3>5, <2>0, ResultOvertakes DEF adjusted
    <3>7. matches'[m] # matches[m]
      BY <3>2, <3>4 DEF HasResult
    <3> QED BY <3>3, <3>6, <3>7
  <2>6. ASSUME NEW m \in Matches, NEW winner \in {1, 2}, CorrectResult(m, winner) PROVE FALSE
    BY <2>6 DEF CorrectResult
  <2>7. ASSUME NEW m \in Matches, ClearResult(m) PROVE FALSE
    <3>1. HasResult(matches, m) /\ DOMAIN matches = Matches /\ matches' = [matches EXCEPT ![m].res = None]
      BY <2>7 DEF ClearResult, IInv, RowsOK
    <3>2. matches[m].res # None
      BY <3>1 DEF HasResult
    <3>3. PICK S \in SUBSET Players : matches[m] \in MatchRows(S)
      BY <3>1 DEF HasResult, IInv, RowsOK, MatchOK
    <3>4. matches'[m].res = None
      BY <3>1, <3>3 DEF MatchRows
    <3> QED BY <3>1, <3>2, <3>4 DEF Reverses
  <2>8. ~UNCHANGED entries => \/ \E a \in Players : CommitWithdraw(a)
                              \/ \E m \in Matches : \/ \E winner \in {1, 2} : SetResult(m, winner) \/ CorrectResult(m, winner)
                                                    \/ ClearResult(m)
    BY DEF Next, vars, RequestChallenge, RequestWithdraw, SendRequest, CommitChallenge, Fail, DeleteChallenge, Refresh, Tick
  <2> QED BY <2>3, <2>4, <2>5, <2>6, <2>7, <2>8
<1>2. Spec => [][Fair]_vars
  <2> HIDE DEF Fair
  <2> QED BY <1>1, RankingInvariant, PTL DEF Spec
<1> QED BY <1>2 DEF OnlyWinnersOvertake

\* The boundary of an entry that failed holds against the committed rows, and for its first year
\* (transactionalPlayerEntry, entry_expires_at).
THEOREM BoundaryIsKept == Spec => EntryBoundaryKept
<1> DEFINE BoundarySame(m) ==
        /\ matches[m] = None /\ matches'[m] # None /\ matches'[m].target # 0 =>
             MayEnterAt(matches, matches'[m].ch, matches'[m].target)
        /\ HasResult(matches, m) /\ HasResult(matches', m) /\ matches[m].res.expires # 0 =>
             matches'[m].res.expires = matches[m].res.expires
<1>1. IInv /\ [Next]_vars => \A m \in Matches : BoundarySame(m)
  <2> SUFFICES ASSUME IInv, [Next]_vars, NEW m \in Matches PROVE BoundarySame(m)
    OBVIOUS
  <2>0. DOMAIN matches = Matches
    BY DEF IInv, RowsOK
  <2>1. CASE matches'[m] = matches[m]
    BY <2>1
  <2>2. ASSUME NEW p \in Players, NEW o \in Players, CommitChallenge(p, o) PROVE BoundarySame(m)
    <3>1. PICK n \in Matches :
            /\ matches[n] = None
            /\ matches' = [matches EXCEPT ![n] = NewMatch(p, o, IF Newcomer(entries, p) THEN entries[o].rank ELSE 0)]
      BY <2>2 DEF CommitChallenge
    <3>2. CASE n = m
      <4>1. /\ matches'[m].target = IF Newcomer(entries, p) THEN entries[o].rank ELSE 0
            /\ matches'[m].ch = p /\ matches'[m].res = None
        BY <2>0, <3>1, <3>2 DEF NewMatch
      <4>2. Newcomer(entries, p) => MayEnterAt(matches, p, entries[o].rank)
        BY <2>2 DEF CommitChallenge
      <4>3. ~HasResult(matches', m)
        BY <4>1 DEF HasResult
      <4> QED BY <4>1, <4>2, <4>3
    <3>3. CASE n # m
      BY <2>0, <3>1, <3>3, <2>1
    <3> QED BY <3>2, <3>3
  <2>3. ASSUME NEW n \in Matches, matches[n] # None, NEW winner \in {1, 2}, NEW adjusted, Changing(adjusted),
               \A p \in DOMAIN adjusted : adjusted[p].before = Rank(Undone(n), p), EnterResult(n, winner, adjusted)
        PROVE  BoundarySame(m)
    <3>1. /\ \A k \in Matches \ {n} : matches'[k] = matches[k]
          /\ matches'[n].res = NewResult(n, winner, TargetOf(Undone(n), n), Undone(n), adjusted)
      BY <2>3, EnterResultOK
    <3>2. CASE n = m
      <4>1. matches'[m].res.expires = IF TargetOf(Undone(m), m) = 0 THEN 0 ELSE Deadline(m)
        BY <3>1, <3>2 DEF NewResult
      <4>2. ASSUME HasResult(matches, m), matches[m].res.expires # 0
            PROVE  matches'[m].res.expires = matches[m].res.expires
        <5>1. matches[m].target # 0
          BY <4>2 DEF IInv, RowsOK
        <5>2. TargetOf(Undone(m), m) # 0
          BY <5>1 DEF TargetOf
        <5> QED BY <4>1, <4>2, <5>2 DEF Deadline
      <4> QED BY <2>3, <3>2, <4>2
    <3>3. CASE n # m
      BY <3>1, <3>3, <2>1
    <3> QED BY <3>2, <3>3
  <2>4. ASSUME NEW n \in Matches, NEW winner \in {1, 2}, SetResult(n, winner) PROVE BoundarySame(m)
    <3> DEFINE adjusted == Targets(Undone(n), matches[n].ch, matches[n].df, TargetOf(Undone(n), n), winner)
    <3>1. /\ matches[n] # None /\ Changing(adjusted)
          /\ \A a \in DOMAIN adjusted : adjusted[a].before = Rank(Undone(n), a)
          /\ EnterResult(n, winner, adjusted)
      BY <2>4, SetResultStep
    <3> HIDE DEF adjusted, BoundarySame
    <3> QED BY <3>1, <2>3
  <2>5. ASSUME NEW n \in Matches, NEW winner \in {1, 2}, CorrectResult(n, winner) PROVE BoundarySame(m)
    <3>1. PICK adjusted : /\ matches[n] # None /\ Changing(adjusted)
                          /\ \A a \in DOMAIN adjusted : adjusted[a].before = Rank(Undone(n), a)
                          /\ EnterResult(n, winner, adjusted)
      BY <2>5, CorrectResultStep
    <3> HIDE DEF BoundarySame
    <3> QED BY <3>1, <2>3
  <2>6. ASSUME NEW n \in Matches, ClearResult(n) \/ DeleteChallenge(n) PROVE BoundarySame(m)
    <3>1. /\ matches[n] # None
          /\ \/ matches' = [matches EXCEPT ![n].res = None]
             \/ matches' = [matches EXCEPT ![n].ignored = TRUE]
      BY <2>6 DEF ClearResult, DeleteChallenge, HasResult
    <3>2. CASE n = m
      <4>1. PICK S \in SUBSET Players : matches[m] \in MatchRows(S)
        BY <3>1, <3>2 DEF IInv, RowsOK, MatchOK
      <4>2. matches'[m].res \in {None, matches[m].res}
        BY <2>0, <3>1, <3>2, <4>1 DEF MatchRows
      <4> QED BY <3>1, <3>2, <4>2 DEF HasResult
    <3>3. CASE n # m
      BY <2>0, <3>1, <3>3, <2>1
    <3> QED BY <3>2, <3>3
  <2>7. \/ UNCHANGED matches
        \/ \E p, o \in Players : CommitChallenge(p, o)
        \/ \E n \in Matches : \/ \E winner \in {1, 2} : SetResult(n, winner) \/ CorrectResult(n, winner)
                              \/ ClearResult(n) \/ DeleteChallenge(n)
    BY DEF Next, vars, RequestChallenge, RequestWithdraw, SendRequest, CommitWithdraw, Fail, Refresh, Tick
  <2> QED
    <3> HIDE DEF BoundarySame
    <3>1. CASE UNCHANGED matches
      BY <2>1, <3>1
    <3> QED BY <3>1, <2>2, <2>4, <2>5, <2>6, <2>7
<1>2. Spec => [][\A m \in Matches : BoundarySame(m)]_vars
  <2> HIDE DEF BoundarySame
  <2> QED BY <1>1, RankingInvariant, PTL DEF Spec
<1> QED BY <1>2 DEF EntryBoundaryKept

-----------------------------------------------------------------------------
(* Favourites, start pages and comments of the history.                    *)
-----------------------------------------------------------------------------
\* What is held of an account's document is either older than the document, or is the document.
Knows(rev, items, who, hid) ==
  /\ rev \in Nat /\ who \in Accounts
  /\ rev <= prefs[who].rev
  /\ rev = prefs[who].rev => items = Displayed(prefs[who].items, hid)

DocumentsSound ==
  /\ DOMAIN prefs = Accounts
  /\ \A a \in Accounts : prefs[a].rev \in Nat /\ (prefs[a].rev = 0 => prefs[a].items = Empty)
  /\ kind \in {"favourites", "start"}
  /\ misled \in BOOLEAN /\ (misled => kind = "start")

\* A tab shows the document of the person whose session it has.
TabFields == {"user", "id", "items", "rev", "hid", "gen"}
TabSound(tab) ==
  /\ TabFields \subseteq DOMAIN tab
  /\ tab.user \in Accounts \cup {Nobody} /\ tab.gen \in Nat
  /\ tab.user # Nobody => tab.id = tab.user /\ (misled \/ Knows(tab.rev, tab.items, tab.user, tab.hid))
TabsSound == DOMAIN tabs = Tabs /\ \A t \in Tabs : TabSound(tabs[t])

\* The load with the tab's present generation is that of the tab's person.
FetchSound(f) ==
  /\ {"at", "rev", "hid", "items", "gen", "who", "tab"} \subseteq DOMAIN f
  /\ f.tab \in Tabs /\ f.who \in Accounts /\ f.gen \in Nat
  /\ f.gen <= tabs[f.tab].gen
  /\ f.gen = tabs[f.tab].gen => tabs[f.tab].user \in {f.who, Nobody}
  /\ f.at = "answered" => Knows(f.rev, f.items, f.who, f.hid)

AnswerSound(a, who) == a.outcome = "success" => Knows(a.rev, a.items, who, {})
SaveSound(s) ==
  /\ {"at", "answer", "awaited", "tab", "who", "owner", "rev", "base", "hid", "next"} \subseteq DOMAIN s
  /\ s.tab \in Tabs /\ s.who \in Accounts \cup {Nobody}
  /\ kind = "favourites" => s.owner = s.who
  /\ s.who # Nobody => misled \/ Knows(s.rev, s.base, s.who, s.hid)
  /\ s.at = "answered" => AnswerSound(s.answer, s.who)

WritesInv ==
  /\ DocumentsSound /\ TabsSound
  /\ \A f \in fetches : FetchSound(f)
  /\ \A s \in saves : SaveSound(s)
  /\ \A e \in executed : AnswerSound(e.answer, e.who)

-----------------------------------------------------------------------------
(* The document and what is known of it.                                   *)

\* Nothing is hidden of an empty page.
LEMMA EmptyShown == \A hid : Displayed(Empty, hid) = Empty
  BY DEF Displayed, Empty, Default, ToSet

\* Nothing hidden, the document as it is.
LEMMA NothingHidden == \A items : Displayed(items, {}) = items
  BY DEF Displayed

\* While the kind of page is the same, a document is shown the same way.
LEMMA DisplayedKept ==
  ASSUME kind' = kind
  PROVE  \A items, hid : Displayed(items, hid)' = Displayed(items, hid)
  BY DEF Displayed, Default

LEMMA KnowsKept ==
  ASSUME kind' = kind, prefs' = prefs
  PROVE  \A rev, items, who, hid : Knows(rev, items, who, hid)' <=> Knows(rev, items, who, hid)
  <1> TAKE rev, items, who, hid
  <1>1. Displayed(prefs[who].items, hid)' = Displayed(prefs[who].items, hid)  BY DEF Displayed, Default
  <1> QED  BY <1>1 DEF Knows, Accounts

\* An empty page is known of every account.
LEMMA EmptyKnown ==
  ASSUME DocumentsSound, NEW who \in Accounts, NEW hid
  PROVE  Knows(0, Empty, who, hid)
  <1>1. Displayed(Empty, hid) = Empty  BY EmptyShown
  <1>2. prefs[who].rev \in Nat /\ (prefs[who].rev = 0 => prefs[who].items = Empty)  BY DEF DocumentsSound
  <1> QED  BY <1>1, <1>2 DEF Knows

\* A write: what was known stays older, and what was written is known.
LEMMA KnowsAfterWrite ==
  ASSUME DocumentsSound, kind' = kind, NEW s, SaveSound(s), s.who \in Accounts, Current(s),
         prefs' = [prefs EXCEPT ![s.who] = Written(s)]
  PROVE  /\ \A rev, items, who, hid : Knows(rev, items, who, hid) => Knows(rev, items, who, hid)'
         /\ Knows(s.rev + 1, s.next, s.who, {})'
         /\ (misled' = misled => DocumentsSound')
  <1>1. s.rev = prefs[s.who].rev /\ s.rev \in Nat  BY DEF Current, DocumentsSound
  <1>2. /\ DOMAIN prefs' = Accounts
        /\ prefs'[s.who] = Written(s)
        /\ \A a \in Accounts : a # s.who => prefs'[a] = prefs[a]  BY DEF DocumentsSound
  <1>3. Written(s).rev = s.rev + 1 /\ Written(s).items = s.next  BY DEF Written
  <1>4. ASSUME NEW rev, NEW items, NEW who, NEW hid, Knows(rev, items, who, hid)  PROVE Knows(rev, items, who, hid)'
    <2>1. rev \in Nat /\ who \in Accounts /\ rev <= prefs[who].rev /\ (rev = prefs[who].rev => items = Displayed(prefs[who].items, hid))
      BY <1>4 DEF Knows
    <2>2. CASE who = s.who
      <3>1. prefs'[who].rev = s.rev + 1 /\ prefs[who].rev = s.rev  BY <2>2, <1>1, <1>2, <1>3
      <3>2. rev <= prefs'[who].rev /\ rev # prefs'[who].rev  BY <3>1, <2>1, <1>1
      <3> QED  BY <3>2, <2>1 DEF Knows, Accounts
    <2>3. CASE who # s.who
      <3>1. prefs'[who] = prefs[who]  BY <2>3, <2>1, <1>2
      <3>2. Displayed(prefs[who].items, hid)' = Displayed(prefs[who].items, hid)
        BY <3>1 DEF Displayed, Default
      <3> QED  BY <3>1, <3>2, <2>1 DEF Knows, Accounts
    <2> QED  BY <2>2, <2>3
  <1>5. Knows(s.rev + 1, s.next, s.who, {})'
    <2>1. prefs'[s.who].rev = s.rev + 1 /\ prefs'[s.who].items = s.next  BY <1>2, <1>3
    <2>2. Displayed(prefs[s.who].items, {})' = s.next  BY <2>1 DEF Displayed
    <2> QED  BY <1>1, <2>1, <2>2 DEF Knows, Accounts
  <1>6. misled' = misled => DocumentsSound'
    <2>1. \A a \in Accounts : prefs'[a].rev \in Nat /\ (prefs'[a].rev = 0 => prefs'[a].items = Empty')
      <3> TAKE a \in Accounts
      <3>1. CASE a = s.who
        BY <3>1, <1>1, <1>2, <1>3
      <3>2. CASE a # s.who
        BY <3>2, <1>2 DEF DocumentsSound, Empty, Default
      <3> QED  BY <3>1, <3>2
    <2> QED  BY <2>1, <1>2 DEF DocumentsSound, Accounts
  <1> QED  BY <1>4, <1>5, <1>6

-----------------------------------------------------------------------------
(* What a step does to the tabs and to the loads under way.                *)

\* The same tab as far as the document is concerned.
SameTab(new, tab) ==
  /\ DOMAIN new = DOMAIN tab /\ new.user = tab.user /\ new.id = tab.id /\ new.items = tab.items
  /\ new.rev = tab.rev /\ new.hid = tab.hid /\ new.gen = tab.gen

LEMMA SameTabSound ==
  ASSUME NEW tab, NEW new, TabSound(tab), SameTab(new, tab), kind' = kind, prefs' = prefs, misled => misled'
  PROVE  TabSound(new)'
  <1>1. Knows(tab.rev, tab.items, tab.user, tab.hid)' <=> Knows(tab.rev, tab.items, tab.user, tab.hid)  BY KnowsKept
  <1>2. TabFields \subseteq DOMAIN new /\ new.user \in Accounts \cup {Nobody} /\ new.gen \in Nat  BY DEF TabSound, SameTab
  <1>3. ASSUME new.user # Nobody
        PROVE  new.id = new.user /\ (misled' \/ Knows(new.rev, new.items, new.user, new.hid)')
    <2>1. tab.user # Nobody  BY <1>3 DEF SameTab
    <2>2. tab.id = tab.user /\ (misled \/ Knows(tab.rev, tab.items, tab.user, tab.hid))  BY <2>1 DEF TabSound
    <2>3. Knows(new.rev, new.items, new.user, new.hid)' <=> Knows(tab.rev, tab.items, tab.user, tab.hid)'
      BY DEF SameTab
    <2> QED  BY <2>2, <2>3, <1>1 DEF SameTab
  <1> QED  BY <1>2, <1>3 DEF TabSound, TabFields, Accounts, Nobody

\* Nothing is written and a tab changes without a new load.
LEMMA TabChanges ==
  ASSUME WritesInv, kind' = kind, prefs' = prefs, misled => misled', NEW t \in Tabs, NEW new,
         tabs' = [tabs EXCEPT ![t] = new], TabSound(new)', new.gen = tabs[t].gen,
         new.user \in {tabs[t].user, Nobody}, fetches' \subseteq fetches
  PROVE  TabsSound' /\ \A f \in fetches' : FetchSound(f)'
  <1>1. DOMAIN tabs = Tabs /\ \A u \in Tabs : TabSound(tabs[u])  BY DEF WritesInv, TabsSound
  <1>2. /\ DOMAIN tabs' = Tabs /\ tabs'[t] = new
        /\ \A u \in Tabs : u # t => tabs'[u] = tabs[u]  BY <1>1
  <1>3. \A u \in Tabs : TabSound(tabs[u])'
    <2> TAKE u \in Tabs
    <2>1. CASE u = t  BY <2>1, <1>2
    <2>2. CASE u # t
      <3>1. SameTab(tabs[u], tabs[u])  BY DEF SameTab
      <3>2. \A x : SameTab(x, tabs[u]) => TabSound(x)'  BY <1>1, SameTabSound
      <3>3. TabSound(tabs'[u]) <=> TabSound(tabs[u])  BY <2>2, <1>2
      <3> DEFINE same == tabs[u]
      <3>4. tabs'[u] = same  BY <2>2, <1>2
      <3>5. ASSUME NEW x, x = same  PROVE TabSound(x)'
        <4>1. SameTab(x, tabs[u])  BY <3>5, <3>1
        <4> QED  BY <4>1, <3>2
      <3> QED  BY <3>4, <3>5
    <2> QED  BY <2>1, <2>2
  <1>4. ASSUME NEW f \in fetches  PROVE FetchSound(f)'
    <2>1. FetchSound(f)  BY DEF WritesInv
    <2>2. Knows(f.rev, f.items, f.who, f.hid)' <=> Knows(f.rev, f.items, f.who, f.hid)  BY KnowsKept
    <2>3. f.tab \in Tabs  BY <2>1 DEF FetchSound
    <2>4. tabs'[f.tab].gen = tabs[f.tab].gen /\ tabs'[f.tab].user \in {tabs[f.tab].user, Nobody}
      BY <2>3, <1>2
    <2> QED  BY <2>1, <2>2, <2>4 DEF FetchSound, Accounts, Nobody, Tabs
  <1> QED  BY <1>2, <1>3, <1>4 DEF TabsSound, Tabs

LEMMA NoTabChanges ==
  ASSUME WritesInv, kind' = kind, prefs' = prefs, misled' = misled, UNCHANGED tabs, fetches' \subseteq fetches
  PROVE  TabsSound' /\ \A f \in fetches' : FetchSound(f)'
  <1>1. \A t \in Tabs : TabSound(tabs[t])  BY DEF WritesInv, TabsSound
  <1>2. \A t \in Tabs : TabSound(tabs[t])'
    <2> TAKE t \in Tabs
    <2>1. SameTab(tabs[t], tabs[t])  BY DEF SameTab
    <2>2. \A x : SameTab(x, tabs[t]) => TabSound(x)'  BY <1>1, SameTabSound
    <2>3. ASSUME NEW x, x = tabs[t]  PROVE TabSound(x)'
      BY <2>1, <2>2, <2>3
    <2>4. tabs'[t] = tabs[t]  OBVIOUS
    <2> QED  BY <2>3, <2>4
  <1>3. ASSUME NEW f \in fetches  PROVE FetchSound(f)'
    <2>1. FetchSound(f)  BY DEF WritesInv
    <2>2. Knows(f.rev, f.items, f.who, f.hid)' <=> Knows(f.rev, f.items, f.who, f.hid)  BY KnowsKept
    <2> QED  BY <2>1, <2>2 DEF FetchSound, Accounts, Nobody, Tabs
  <1> QED  BY <1>2, <1>3 DEF TabsSound, Tabs, WritesInv

\* A tab, of the same person or of another one, loads the document of its person.
LEMMA TabLoads ==
  ASSUME WritesInv, kind' = kind, prefs' = prefs, misled' = misled, NEW t \in Tabs, NEW tab,
         TabFields \subseteq DOMAIN tab, tab.user \in Accounts \cup {Nobody}, tab.gen = tabs[t].gen,
         loadForUser(t, tab)
  PROVE  TabsSound' /\ \A f \in fetches' : FetchSound(f)'
  <1> DEFINE new == Blank(tab, tab.user)
  <1>1. DOMAIN tabs = Tabs /\ \A u \in Tabs : TabSound(tabs[u])  BY DEF WritesInv, TabsSound
  <1>2. tabs[t].gen \in Nat  BY <1>1 DEF TabSound
  <1>3. /\ TabFields \subseteq DOMAIN new /\ new.user = tab.user /\ new.id = tab.user
        /\ new.rev = 0 /\ new.items = Empty /\ new.hid = {} /\ new.gen = tabs[t].gen + 1
    BY DEF Blank, TabFields
  <1>4. tabs' = [tabs EXCEPT ![t] = new]  BY DEF loadForUser
  <1> HIDE DEF new
  <1>5. /\ DOMAIN tabs' = Tabs /\ tabs'[t] = new
        /\ \A u \in Tabs : u # t => tabs'[u] = tabs[u]  BY <1>1, <1>4
  <1>6. TabSound(new)
    <2>1. \A who \in Accounts : Knows(0, Empty, who, {})  BY EmptyKnown DEF WritesInv
    <2>2. new.user # Nobody => Knows(new.rev, new.items, new.user, new.hid)  BY <2>1, <1>3
    <2> QED  BY <1>2, <1>3, <2>2 DEF TabSound
  <1>7. \A u \in Tabs : TabSound(tabs[u])'
    <2> TAKE u \in Tabs
    <2>1. PICK old : old = tabs'[u] /\ TabSound(old)  BY <1>1, <1>5, <1>6
    <2>2. SameTab(old, old)  BY DEF SameTab
    <2>3. TabSound(old)'  BY <2>1, <2>2, SameTabSound
    <2> QED  BY <2>1, <2>3
  <1>8. ASSUME NEW f \in fetches  PROVE FetchSound(f)'
    <2>1. FetchSound(f)  BY DEF WritesInv
    <2>2. Knows(f.rev, f.items, f.who, f.hid)' <=> Knows(f.rev, f.items, f.who, f.hid)  BY KnowsKept
    <2>3. f.tab \in Tabs /\ f.gen \in Nat /\ f.gen <= tabs[f.tab].gen  BY <2>1 DEF FetchSound
    <2>4. CASE f.tab = t
      <3>1. tabs'[f.tab].gen = tabs[t].gen + 1  BY <2>4, <1>3, <1>5
      <3>2. f.gen <= tabs'[f.tab].gen /\ f.gen # tabs'[f.tab].gen  BY <3>1, <2>3, <2>4, <1>2
      <3> QED  BY <3>2, <2>1, <2>2 DEF FetchSound, Accounts, Nobody, Tabs
    <2>5. CASE f.tab # t
      <3>1. tabs'[f.tab] = tabs[f.tab]  BY <2>5, <2>3, <1>5
      <3> QED  BY <3>1, <2>1, <2>2 DEF FetchSound, Accounts, Nobody, Tabs
    <2> QED  BY <2>4, <2>5
  <1>9. ASSUME NEW f \in fetches', f \notin fetches  PROVE FetchSound(f)'
    <2>1. /\ tab.user \in Accounts
          /\ f = [tab |-> t, gen |-> tab.gen + 1, who |-> tab.user, at |-> "asked", rev |-> 0, items |-> <<>>, hid |-> {}]
      BY <1>9 DEF loadForUser
    <2>2. tabs'[t].gen = tab.gen + 1 /\ tabs'[t].user = tab.user  BY <1>3, <1>5
    <2>3. f.tab = t /\ f.gen = tabs'[t].gen /\ f.who = tab.user /\ f.at = "asked" /\ f.gen \in Nat
          /\ {"at", "rev", "hid", "items", "gen", "who", "tab"} \subseteq DOMAIN f
      BY <2>1, <2>2, <1>2
    <2> QED  BY <2>1, <2>2, <2>3, <1>2 DEF FetchSound, Accounts, Nobody, Tabs
  <1> QED  BY <1>5, <1>7, <1>8, <1>9 DEF TabsSound, Tabs

-----------------------------------------------------------------------------
(* The steps.                                                              *)

LEMMA SaveKept ==
  ASSUME kind' = kind, prefs' = prefs, misled => misled', NEW s, SaveSound(s)
  PROVE  SaveSound(s)'
  <1>1. Knows(s.rev, s.base, s.who, s.hid)' <=> Knows(s.rev, s.base, s.who, s.hid)  BY KnowsKept
  <1>2. Knows(s.answer.rev, s.answer.items, s.who, {})' <=> Knows(s.answer.rev, s.answer.items, s.who, {})  BY KnowsKept
  <1> QED  BY <1>1, <1>2 DEF SaveSound, AnswerSound, Accounts, Nobody, Tabs

\* No document is written: the documents and the kept responses stay sound.
LEMMA NothingWritten ==
  ASSUME WritesInv, kind' = kind, prefs' = prefs, executed' = executed, misled' \in BOOLEAN, misled' => kind = "start"
  PROVE  DocumentsSound' /\ \A e \in executed' : AnswerSound(e.answer, e.who)'
  <1>1. DocumentsSound'  BY DEF WritesInv, DocumentsSound, Accounts, Empty, Default
  <1>2. ASSUME NEW e \in executed  PROVE AnswerSound(e.answer, e.who)'
    <2>1. Knows(e.answer.rev, e.answer.items, e.who, {})' <=> Knows(e.answer.rev, e.answer.items, e.who, {})  BY KnowsKept
    <2> QED  BY <2>1 DEF WritesInv, AnswerSound
  <1> QED  BY <1>1, <1>2

\* Steps of the page that touch neither its document nor its loads.
LEMMA PageQuiet ==
  ASSUME WritesInv, UNCHANGED <<kind, prefs, executed, tabs, misled>>, fetches' \subseteq fetches, saves' \subseteq saves
  PROVE  WritesInv'
  <1>1. TabsSound' /\ \A f \in fetches' : FetchSound(f)'  BY NoTabChanges
  <1>2. misled' \in BOOLEAN /\ (misled' => kind = "start") /\ (misled => misled')  BY DEF WritesInv, DocumentsSound
  <1>3. DocumentsSound' /\ \A e \in executed' : AnswerSound(e.answer, e.who)'  BY <1>2, NothingWritten
  <1>4. \A s \in saves' : SaveSound(s)'  BY <1>2, SaveKept DEF WritesInv
  <1> QED  BY <1>1, <1>3, <1>4 DEF WritesInv

LEMMA AuthenticatedKeeps == ASSUME WritesInv, NEW t \in Tabs, Authenticated(t)  PROVE WritesInv'
  <1>1. UNCHANGED <<kind, prefs, executed, misled, saves>>  BY DEF Authenticated, accountVars
  <1>2. misled' \in BOOLEAN /\ (misled' => kind = "start") /\ (misled => misled')  BY <1>1 DEF WritesInv, DocumentsSound
  <1>3. DocumentsSound' /\ \A e \in executed' : AnswerSound(e.answer, e.who)'  BY <1>1, <1>2, NothingWritten
  <1>4. \A s \in saves' : SaveSound(s)'  BY <1>1, <1>2, SaveKept DEF WritesInv
  <1>5. TabSound(tabs[t])  BY DEF WritesInv, TabsSound
  <1>6. TabsSound' /\ \A f \in fetches' : FetchSound(f)'
    <2>1. PICK u \in Accounts \cup {Nobody} :
            LET tab == [tabs[t] EXCEPT !.user = u]
            IN IF u = Nobody /\ kind = "start"
               THEN tabs' = [tabs EXCEPT ![t] = [Blank(tab, u) EXCEPT !.gen = tab.gen]] /\ UNCHANGED fetches
               ELSE loadForUser(t, tab)
      BY DEF Authenticated
    <2> DEFINE tab == [tabs[t] EXCEPT !.user = u]
    <2>2. TabFields \subseteq DOMAIN tab /\ tab.user = u /\ tab.gen = tabs[t].gen  BY <1>5 DEF TabSound, TabFields
    <2>3. CASE u = Nobody /\ kind = "start"
      <3>0. PICK new : new = [Blank(tab, u) EXCEPT !.gen = tab.gen]  OBVIOUS
      <3>1. tabs' = [tabs EXCEPT ![t] = new] /\ fetches' \subseteq fetches  BY <2>1, <2>3, <3>0
      <3>2. TabFields \subseteq DOMAIN new /\ new.user = Nobody /\ new.gen = tabs[t].gen
        BY <2>2, <2>3, <3>0 DEF Blank, TabFields
      <3>3. TabSound(new)'
        <4>1. new.gen \in Nat  BY <3>2, <1>5 DEF TabSound
        <4> QED  BY <3>2, <4>1 DEF TabSound, TabFields, Nobody, Accounts
      <3> QED  BY <1>1, <1>2, <3>1, <3>2, <3>3, TabChanges
    <2>4. CASE ~(u = Nobody /\ kind = "start")
      <3>1. loadForUser(t, tab)  BY <2>1, <2>4
      <3> HIDE DEF tab
      <3> QED  BY <1>1, <2>2, <3>1, TabLoads
    <2> QED  BY <2>3, <2>4
  <1> QED  BY <1>3, <1>4, <1>6 DEF WritesInv

LEMMA ReadPreferencesKeeps == ASSUME WritesInv, NEW f \in fetches, ReadPreferences(f)  PROVE WritesInv'
  <1>1. UNCHANGED <<kind, prefs, executed, tabs, misled, saves>>  BY DEF ReadPreferences, accountVars
  <1>2. misled' \in BOOLEAN /\ (misled' => kind = "start") /\ (misled => misled')  BY <1>1 DEF WritesInv, DocumentsSound
  <1>3. DocumentsSound' /\ \A e \in executed' : AnswerSound(e.answer, e.who)'  BY <1>1, <1>2, NothingWritten
  <1>4. \A s \in saves' : SaveSound(s)'  BY <1>1, <1>2, SaveKept DEF WritesInv
  <1> DEFINE old == fetches \ {f}
             new == [f EXCEPT !.at = "answered", !.rev = prefs[f.who].rev, !.hid = hidden,
                              !.items = Displayed(prefs[f.who].items, hidden)]
  <1>5. fetches' = old \cup {new}  BY DEF ReadPreferences
  <1>6. FetchSound(f)  BY DEF WritesInv
  <1>7. prefs[f.who].rev \in Nat  BY <1>6 DEF FetchSound, WritesInv, DocumentsSound
  <1>8. /\ {"at", "rev", "hid", "items", "gen", "who", "tab"} \subseteq DOMAIN new
        /\ new.tab = f.tab /\ new.who = f.who /\ new.gen = f.gen
        /\ new.rev = prefs[f.who].rev /\ new.items = Displayed(prefs[f.who].items, new.hid)
    BY <1>6 DEF FetchSound
  <1> HIDE DEF new
  <1>9. Knows(new.rev, new.items, new.who, new.hid)  BY <1>6, <1>7, <1>8 DEF Knows, FetchSound
  <1>10. FetchSound(new)  BY <1>6, <1>8, <1>9 DEF FetchSound
  <1>11. TabsSound'
    <2>1. fetches \subseteq fetches  OBVIOUS
    <2>2. \A t \in Tabs : TabSound(tabs[t])  BY DEF WritesInv, TabsSound
    <2>3. ASSUME NEW t \in Tabs  PROVE TabSound(tabs[t])'
      <3>1. PICK x : x = tabs[t] /\ TabSound(x)  BY <2>2
      <3>2. TabSound(x)'  BY <3>1, <1>1, <1>2, SameTabSound DEF SameTab
      <3>3. tabs'[t] = x  BY <3>1, <1>1
      <3> QED  BY <3>2, <3>3
    <2> QED  BY <2>3, <1>1 DEF TabsSound, Tabs, WritesInv
  <1>12. \A x : FetchSound(x) => FetchSound(x)'
    <2> TAKE x
    <2>1. Knows(x.rev, x.items, x.who, x.hid)' <=> Knows(x.rev, x.items, x.who, x.hid)  BY <1>1, KnowsKept
    <2> QED  BY <2>1, <1>1 DEF FetchSound, Accounts, Nobody, Tabs
  <1>13. \A x \in fetches' : FetchSound(x)'  BY <1>5, <1>10, <1>12 DEF WritesInv
  <1> QED  BY <1>3, <1>4, <1>11, <1>13 DEF WritesInv

\* Steps that only change one tab: what is left to show is that this tab stays sound.
LEMMA OneTab ==
  ASSUME WritesInv, UNCHANGED <<kind, prefs, executed, misled>>, NEW t \in Tabs, NEW new,
         tabs' = [tabs EXCEPT ![t] = new], TabSound(new)', new.gen = tabs[t].gen,
         new.user \in {tabs[t].user, Nobody}, fetches' \subseteq fetches, \A s \in saves' : SaveSound(s)'
  PROVE  WritesInv'
  <1>1. misled' \in BOOLEAN /\ (misled' => kind = "start") /\ (misled => misled')  BY DEF WritesInv, DocumentsSound
  <1>2. DocumentsSound' /\ \A e \in executed' : AnswerSound(e.answer, e.who)'  BY <1>1, NothingWritten
  <1>3. TabsSound' /\ \A f \in fetches' : FetchSound(f)'  BY <1>1, TabChanges
  <1> QED  BY <1>2, <1>3 DEF WritesInv

\* Steps after which one tab loads.
LEMMA OneTabLoads ==
  ASSUME WritesInv, UNCHANGED <<kind, prefs, executed, misled>>, NEW t \in Tabs, NEW tab,
         SameTab(tab, tabs[t]), loadForUser(t, tab), saves' \subseteq saves
  PROVE  WritesInv'
  <1>1. misled' \in BOOLEAN /\ (misled' => kind = "start") /\ (misled => misled')  BY DEF WritesInv, DocumentsSound
  <1>2. DocumentsSound' /\ \A e \in executed' : AnswerSound(e.answer, e.who)'  BY <1>1, NothingWritten
  <1>3. TabSound(tabs[t])  BY DEF WritesInv, TabsSound
  <1>4. TabFields \subseteq DOMAIN tab /\ tab.user \in Accounts \cup {Nobody} /\ tab.gen = tabs[t].gen
    BY <1>3 DEF TabSound, SameTab
  <1>5. TabsSound' /\ \A f \in fetches' : FetchSound(f)'  BY <1>4, TabLoads
  <1>6. \A s \in saves' : SaveSound(s)'  BY <1>1, SaveKept DEF WritesInv
  <1> QED  BY <1>2, <1>5, <1>6 DEF WritesInv

LEMMA SavesStay ==
  ASSUME WritesInv, UNCHANGED <<kind, prefs, misled>>, saves' \subseteq saves
  PROVE  \A s \in saves' : SaveSound(s)'
  BY SaveKept DEF WritesInv

LEMMA LoadedKeeps == ASSUME WritesInv, NEW f \in fetches, Loaded(f)  PROVE WritesInv'
  <1>1. UNCHANGED <<kind, prefs, executed, misled, saves>> /\ fetches' \subseteq fetches  BY DEF Loaded, accountVars
  <1>2. FetchSound(f)  BY DEF WritesInv
  <1>3. f.tab \in Tabs /\ f.at = "answered" /\ Knows(f.rev, f.items, f.who, f.hid)  BY <1>2 DEF FetchSound, Loaded
  <1>4. TabSound(tabs[f.tab])  BY <1>3 DEF WritesInv, TabsSound
  <1> DEFINE tab == tabs[f.tab]
             shown == [tab EXCEPT !.id = f.who, !.items = f.items, !.rev = f.rev, !.hid = f.hid, !.loading = FALSE, !.ready = TRUE]
             taken == f.gen = tab.gen /\ tab.user = f.who
  <1>5. tabs' = [tabs EXCEPT ![f.tab] = Awoken(IF taken THEN shown ELSE tab, f)]  BY DEF Loaded
  <1>6. PICK new : new = Awoken(IF taken THEN shown ELSE tab, f)  OBVIOUS
  <1>7. CASE taken
    <2>1. PICK x : x = shown  OBVIOUS
    <2>2. /\ TabFields \subseteq DOMAIN x /\ x.user = tab.user /\ x.id = f.who /\ x.items = f.items
          /\ x.rev = f.rev /\ x.hid = f.hid /\ x.gen = tab.gen
      BY <2>1, <1>4 DEF TabSound, TabFields
    <2>3. new = Awoken(x, f)  BY <2>1, <1>6, <1>7
    <2>4. SameTab(new, x)  BY <2>2, <2>3 DEF SameTab, Awoken, TabFields
    <2>5. TabSound(x)
      <3>1. x.id = x.user /\ Knows(x.rev, x.items, x.user, x.hid)  BY <2>2, <1>3, <1>7
      <3>2. tab.user \in Accounts \cup {Nobody} /\ tab.gen \in Nat  BY <1>4 DEF TabSound
      <3> QED  BY <2>2, <3>1, <3>2 DEF TabSound
    <2>6. TabSound(new)'  BY <1>1, <2>4, <2>5, SameTabSound
    <2>7. new.gen = tabs[f.tab].gen /\ new.user = tabs[f.tab].user  BY <2>2, <2>4 DEF SameTab
    <2>8. \A s \in saves' : SaveSound(s)'  BY <1>1, SavesStay
    <2>9. tabs' = [tabs EXCEPT ![f.tab] = new]  BY <1>5, <1>6
    <2> QED  BY <1>1, <1>3, <2>6, <2>7, <2>8, <2>9, OneTab
  <1>8. CASE ~taken
    <2>1. new = Awoken(tab, f)  BY <1>6, <1>8
    <2>2. SameTab(new, tabs[f.tab])  BY <2>1 DEF SameTab, Awoken
    <2>3. TabSound(new)'  BY <1>1, <1>4, <2>2, SameTabSound
    <2>4. new.gen = tabs[f.tab].gen /\ new.user = tabs[f.tab].user  BY <2>2 DEF SameTab
    <2>5. \A s \in saves' : SaveSound(s)'  BY <1>1, SavesStay
    <2>6. tabs' = [tabs EXCEPT ![f.tab] = new]  BY <1>5, <1>6
    <2> QED  BY <1>1, <1>3, <2>3, <2>4, <2>5, <2>6, OneTab
  <1> QED  BY <1>7, <1>8

LEMMA LoadFailsKeeps == ASSUME WritesInv, NEW f \in fetches, LoadFails(f)  PROVE WritesInv'
  <1>1. UNCHANGED <<kind, prefs, executed, hidden, misled, saves>> /\ fetches' \subseteq fetches
    BY DEF LoadFails, accountVars
  <1>2. FetchSound(f)  BY DEF WritesInv
  <1>3. f.tab \in Tabs /\ f.who \in Accounts  BY <1>2 DEF FetchSound
  <1>4. TabSound(tabs[f.tab])  BY <1>3 DEF WritesInv, TabsSound
  <1> DEFINE tab == tabs[f.tab]
             failed == [tab EXCEPT !.id = f.who, !.items = Empty, !.rev = 0, !.loading = FALSE, !.ready = FALSE]
             latest == f.gen = tab.gen
  <1>5. PICK new : new = IF ~latest THEN Awoken(tab, f)
                         ELSE IF tab.waits = f.gen THEN [failed EXCEPT !.waits = 0, !.busy = FALSE] ELSE failed  OBVIOUS
  <1>6. tabs' = [tabs EXCEPT ![f.tab] = new]  BY <1>5 DEF LoadFails
  <1>7. \A s \in saves' : SaveSound(s)'  BY <1>1, SavesStay
  <1>8. CASE ~latest
    <2>1. SameTab(new, tabs[f.tab])  BY <1>5, <1>8 DEF SameTab, Awoken
    <2>2. TabSound(new)'  BY <1>1, <1>4, <2>1, SameTabSound
    <2>3. new.gen = tabs[f.tab].gen /\ new.user = tabs[f.tab].user  BY <2>1 DEF SameTab
    <2> QED  BY <1>1, <1>3, <1>6, <1>7, <2>2, <2>3, OneTab
  <1>9. CASE latest
    <2>1. /\ TabFields \subseteq DOMAIN new /\ new.user = tab.user /\ new.id = f.who /\ new.items = Empty
          /\ new.rev = 0 /\ new.gen = tab.gen
      BY <1>4, <1>5, <1>9 DEF TabSound, TabFields
    <2>2. new.user # Nobody => new.user = f.who  BY <1>2, <1>9, <2>1 DEF FetchSound
    <2>3. Knows(0, Empty, f.who, new.hid)  BY <1>3, EmptyKnown DEF WritesInv
    <2>4. TabSound(new)
      <3>1. tab.user \in Accounts \cup {Nobody} /\ tab.gen \in Nat  BY <1>4 DEF TabSound
      <3>2. new.user # Nobody => new.id = new.user /\ Knows(new.rev, new.items, new.user, new.hid)  BY <2>1, <2>2, <2>3
      <3> QED  BY <2>1, <3>1, <3>2 DEF TabSound
    <2>5. SameTab(new, new)  BY DEF SameTab
    <2>6. TabSound(new)'  BY <1>1, <2>4, <2>5, SameTabSound
    <2> QED  BY <1>1, <1>3, <1>6, <1>7, <2>1, <2>6, OneTab
  <1> QED  BY <1>8, <1>9

LEMMA LoadsFirstKeeps == ASSUME WritesInv, NEW t \in Tabs, LoadsFirst(t)  PROVE WritesInv'
  <1>1. UNCHANGED <<kind, prefs, executed, misled, saves>>  BY DEF LoadsFirst, accountVars
  <1>2. TabSound(tabs[t])  BY DEF WritesInv, TabsSound
  <1>3. \A s \in saves' : SaveSound(s)'  BY <1>1, SavesStay
  <1>4. CASE tabs' = [tabs EXCEPT ![t] = [tabs[t] EXCEPT !.busy = TRUE, !.waited = TRUE]] /\ UNCHANGED fetches
    <2>1. PICK new : new = [tabs[t] EXCEPT !.busy = TRUE, !.waited = TRUE]  OBVIOUS
    <2>2. SameTab(new, tabs[t])  BY <2>1 DEF SameTab
    <2>3. TabSound(new)'  BY <1>1, <1>2, <2>2, SameTabSound
    <2>4. new.gen = tabs[t].gen /\ new.user = tabs[t].user /\ tabs' = [tabs EXCEPT ![t] = new] /\ fetches' \subseteq fetches
      BY <1>4, <2>1, <2>2 DEF SameTab
    <2> QED  BY <1>1, <1>3, <2>3, <2>4, OneTab
  <1>5. CASE loadForUser(t, [tabs[t] EXCEPT !.busy = TRUE, !.waited = TRUE])
    <2>1. PICK new : new = [tabs[t] EXCEPT !.busy = TRUE, !.waited = TRUE]  OBVIOUS
    <2>2. SameTab(new, tabs[t])  BY <2>1 DEF SameTab
    <2> QED  BY <1>1, <1>5, <2>1, <2>2, OneTabLoads
  <1>6. CASE loadForUser(t, [tabs[t] EXCEPT !.busy = TRUE, !.waits = tabs[t].gen + 1])
    <2>1. PICK new : new = [tabs[t] EXCEPT !.busy = TRUE, !.waits = tabs[t].gen + 1]  OBVIOUS
    <2>2. SameTab(new, tabs[t])  BY <2>1 DEF SameTab
    <2> QED  BY <1>1, <1>6, <2>1, <2>2, OneTabLoads
  <1> QED  BY <1>4, <1>5, <1>6 DEF LoadsFirst

LEMMA SaveKeeps == ASSUME WritesInv, NEW t \in Tabs, Save(t)  PROVE WritesInv'
  <1> DEFINE tab == tabs[t]
             c == Head(clicks[t])
             key == ChangeKey(c, tab)
             n == OperationId(tab, key)
  <1>1. UNCHANGED <<kind, prefs, executed, fetches, misled>>  BY DEF Save, accountVars
  <1>2. TabSound(tab)  BY DEF WritesInv, TabsSound
  <1>3. PICK new : new = [tab EXCEPT !.busy = TRUE, !.waited = FALSE, !.ids = @ \cup {[key |-> key, n |-> n]},
                                     !.made = IF n > @ THEN n ELSE @]  OBVIOUS
  <1>4. tabs' = [tabs EXCEPT ![t] = new]  BY <1>3 DEF Save
  <1>5. SameTab(new, tabs[t])  BY <1>3 DEF SameTab
  <1>6. PICK s : s = [tab |-> t, n |-> n, key |-> key, owner |-> c.who, who |-> tab.user, rev |-> tab.rev,
                      base |-> tab.items, hid |-> tab.hid, next |-> key[3], at |-> "sent", awaited |-> TRUE,
                      answer |-> [outcome |-> "none", rev |-> 0, items |-> <<>>]]  OBVIOUS
  <1>7. saves' = saves \cup {s}  BY <1>6 DEF Save
  <1>8. kind = "favourites" => c.who = tab.user  BY DEF Save
  <1>9. /\ s.tab = t /\ s.who = tab.user /\ s.owner = c.who /\ s.rev = tab.rev /\ s.base = tab.items
        /\ s.hid = tab.hid /\ s.at = "sent"
        /\ {"at", "answer", "awaited", "tab", "who", "owner", "rev", "base", "hid", "next"} \subseteq DOMAIN s
    BY <1>6
  <1> HIDE DEF c, key, n
  <1>10. SaveSound(s)  BY <1>2, <1>8, <1>9 DEF SaveSound, TabSound
  <1>11. misled => misled'  BY <1>1
  <1>12. \A x \in saves' : SaveSound(x)'  BY <1>1, <1>7, <1>10, <1>11, SaveKept DEF WritesInv
  <1>13. TabSound(new)'  BY <1>1, <1>2, <1>5, SameTabSound
  <1>14. new.gen = tabs[t].gen /\ new.user = tabs[t].user  BY <1>5 DEF SameTab
  <1> QED  BY <1>1, <1>4, <1>12, <1>13, <1>14, OneTab

\* An answer is that of the person the request went out as.
LEMMA AnsweredSound ==
  ASSUME NEW s, SaveSound(s), NEW a, AnswerSound(a, s.who)
  PROVE  SaveSound([s EXCEPT !.at = "answered", !.answer = a])
  <1> DEFINE new == [s EXCEPT !.at = "answered", !.answer = a]
  <1>1. /\ DOMAIN new = DOMAIN s /\ new.tab = s.tab /\ new.who = s.who /\ new.owner = s.owner /\ new.rev = s.rev
        /\ new.base = s.base /\ new.hid = s.hid /\ new.answer = a
    BY DEF SaveSound
  <1> HIDE DEF new
  <1>2. SaveSound(new)  BY <1>1 DEF SaveSound
  <1> QED  BY <1>2 DEF new

\* Requests that the server answers without writing.
LEMMA AnswerKeeps ==
  ASSUME WritesInv, NEW s \in saves, NEW a, AnswerSound(a, s.who), Answer(s, a),
         UNCHANGED <<kind, prefs, executed, tabs, fetches, misled>>
  PROVE  WritesInv'
  <1>1. SaveSound(s)  BY DEF WritesInv
  <1>2. \A x \in saves' : SaveSound(x)  BY <1>1, AnsweredSound DEF WritesInv, Answer
  <1>3. misled' \in BOOLEAN /\ (misled' => kind = "start") /\ (misled => misled')  BY DEF WritesInv, DocumentsSound
  <1>4. \A x \in saves' : SaveSound(x)'  BY <1>2, <1>3, SaveKept
  <1>5. DocumentsSound' /\ \A e \in executed' : AnswerSound(e.answer, e.who)'  BY <1>3, NothingWritten
  <1>6. TabsSound' /\ \A f \in fetches' : FetchSound(f)'
    <2>1. fetches' \subseteq fetches  OBVIOUS
    <2> QED  BY <2>1, NoTabChanges
  <1> QED  BY <1>4, <1>5, <1>6 DEF WritesInv

LEMMA ExecuteKeeps == ASSUME WritesInv, NEW s \in saves, Execute(s)  PROVE WritesInv'
  <1> DEFINE known == {e \in executed : e.tab = s.tab /\ e.n = s.n}
             written == [Outcome("success") EXCEPT !.rev = Written(s).rev, !.items = Written(s).items]
  <1>1. UNCHANGED <<kind, tabs, fetches, misled>>  BY DEF Execute
  <1>2. SaveSound(s)  BY DEF WritesInv
  <1>3. \A o : o # "success" => AnswerSound(Outcome(o), s.who)  BY DEF AnswerSound, Outcome
  <1>4. CASE Answer(s, Outcome("refused")) /\ UNCHANGED <<prefs, executed>>
    BY <1>1, <1>3, <1>4, AnswerKeeps
  <1>5. CASE Answer(s, Outcome("conflict")) /\ UNCHANGED <<prefs, executed>>
    BY <1>1, <1>3, <1>5, AnswerKeeps
  <1>6. ASSUME NEW e \in executed, Repeated(s, e), UNCHANGED <<prefs, executed>>  PROVE WritesInv'
    <2>1. CASE e.who = s.who
      <3>1. AnswerSound(e.answer, s.who)  BY <2>1 DEF WritesInv
      <3>2. Answer(s, e.answer)  BY <1>6, <2>1 DEF Repeated
      <3> QED  BY <1>1, <1>6, <3>1, <3>2, AnswerKeeps
    <2>2. CASE e.who # s.who
      BY <1>1, <1>3, <1>6, <2>2, AnswerKeeps DEF Repeated
    <2> QED  BY <2>1, <2>2
  <1>7. CASE /\ s.who # Nobody /\ Current(s)
             /\ prefs' = [prefs EXCEPT ![s.who] = Written(s)]
             /\ executed' = executed \cup {[tab |-> s.tab, n |-> s.n, who |-> s.who, answer |-> written]}
             /\ Answer(s, written)
    <2>1. s.who \in Accounts  BY <1>2, <1>7 DEF SaveSound
    <2>2. /\ \A rev, items, who, hid : Knows(rev, items, who, hid) => Knows(rev, items, who, hid)'
          /\ Knows(s.rev + 1, s.next, s.who, {})'
          /\ DocumentsSound'
      BY <1>1, <1>2, <1>7, <2>1, KnowsAfterWrite DEF WritesInv
    <2>3. written.rev = s.rev + 1 /\ written.items = s.next  BY DEF Outcome, Written
    <2>4. PICK a : a = written  OBVIOUS
    <2>5. AnswerSound(a, s.who)'  BY <2>2, <2>3, <2>4 DEF AnswerSound
    <2>6. \A x : SaveSound(x) => SaveSound(x)'
      BY <1>1, <2>2 DEF SaveSound, AnswerSound, Accounts, Nobody, Tabs
    <2>7. \A x \in saves' : SaveSound(x)'
      <3>1. PICK new : new = [s EXCEPT !.at = "answered", !.answer = a]  OBVIOUS
      <3>2. saves' \subseteq saves \cup {new}  BY <1>7, <2>4, <3>1 DEF Answer
      <3>3. SaveSound(s)'  BY <1>2, <2>6
      <3>4. /\ DOMAIN new = DOMAIN s /\ new.tab = s.tab /\ new.who = s.who /\ new.owner = s.owner /\ new.rev = s.rev
            /\ new.base = s.base /\ new.hid = s.hid /\ new.answer = a
        BY <3>1, <1>2 DEF SaveSound
      <3>5. SaveSound(new)'  BY <3>3, <3>4, <2>5 DEF SaveSound, Accounts, Nobody, Tabs
      <3> QED  BY <3>2, <3>5, <2>6 DEF WritesInv
    <2>8. \A e \in executed' : AnswerSound(e.answer, e.who)'
      <3>1. \A e \in executed : AnswerSound(e.answer, e.who)'  BY <2>2 DEF WritesInv, AnswerSound
      <3>2. \A e \in executed' : e \in executed \/ (e.answer = a /\ e.who = s.who)  BY <1>7, <2>4
      <3> QED  BY <3>1, <3>2, <2>5 DEF AnswerSound
    <2>9. \A x : TabSound(x) => TabSound(x)'
      BY <1>1, <2>2 DEF TabSound, TabFields, Accounts, Nobody
    <2>10. TabsSound'  BY <1>1, <2>9 DEF WritesInv, TabsSound, Tabs
    <2>11. \A f \in fetches' : FetchSound(f)'
      BY <1>1, <2>2 DEF WritesInv, FetchSound, Accounts, Nobody, Tabs
    <2> QED  BY <2>2, <2>7, <2>8, <2>10, <2>11 DEF WritesInv
  <1>8. CASE s.who # Nobody /\ known # {} /\ Repeated(s, CHOOSE e \in known : TRUE) /\ UNCHANGED <<prefs, executed>>
    <2>1. (CHOOSE e \in known : TRUE) \in executed  BY <1>8
    <2> QED  BY <1>6, <1>8, <2>1
  <1> QED  BY <1>4, <1>5, <1>7, <1>8 DEF Execute

LEMMA SaveAnsweredKeeps == ASSUME WritesInv, NEW s \in saves, saveAnswered(s)  PROVE WritesInv'
  <1>1. UNCHANGED <<kind, prefs, executed, hidden>> /\ saves' \subseteq saves  BY DEF saveAnswered, accountVars
  <1>2. SaveSound(s) /\ s.tab \in Tabs  BY DEF WritesInv, SaveSound
  <1>3. TabSound(tabs[s.tab])  BY <1>2 DEF WritesInv, TabsSound
  <1>4. PICK tab : tab = Released(tabs[s.tab], s)  OBVIOUS
  <1>5. SameTab(tab, tabs[s.tab])  BY <1>4 DEF SameTab, Released
  <1>6. misled \in BOOLEAN /\ (misled => kind = "start") /\ kind \in {"favourites", "start"}  BY DEF WritesInv, DocumentsSound
  <1>7. CASE tabs' = [tabs EXCEPT ![s.tab] = tab] /\ UNCHANGED <<fetches, misled>>
    <2>1. TabSound(tab)'  BY <1>1, <1>3, <1>5, <1>7, SameTabSound
    <2>2. tab.gen = tabs[s.tab].gen /\ tab.user = tabs[s.tab].user  BY <1>5 DEF SameTab
    <2>3. \A x \in saves' : SaveSound(x)'  BY <1>1, <1>7, SavesStay
    <2>4. fetches' \subseteq fetches  BY <1>7
    <2> QED  BY <1>1, <1>2, <1>7, <2>1, <2>2, <2>3, <2>4, OneTab
  <1>8. CASE loadForUser(s.tab, tab) /\ UNCHANGED misled
    BY <1>1, <1>2, <1>5, <1>8, OneTabLoads
  <1>9. CASE /\ s.answer.outcome = "success" /\ ~Ignored(s, tab) /\ UNCHANGED fetches
             /\ tabs' = [tabs EXCEPT ![s.tab] = Stored(tab, s)] /\ misled' = (misled \/ s.who # s.owner)
    <2>1. PICK new : new = Stored(tab, s)  OBVIOUS
    <2>2. /\ TabFields \subseteq DOMAIN new /\ new.user = tab.user /\ new.id = s.owner /\ new.items = s.answer.items
          /\ new.rev = s.answer.rev /\ new.hid = {} /\ new.gen = tab.gen
      BY <1>3, <1>5, <2>1 DEF Stored, SameTab, TabSound, TabFields
    <2>3. tab.user = s.owner  BY <1>9 DEF Ignored
    <2>4. Knows(s.answer.rev, s.answer.items, s.who, {})  BY <1>2, <1>9 DEF SaveSound, AnswerSound, saveAnswered
    <2>5. misled' \in BOOLEAN /\ (misled => misled') /\ (s.who # s.owner => misled')  BY <1>6, <1>9
    <2>6. misled' => kind = "start"
      <3>1. s.who # s.owner => kind = "start"  BY <1>2, <1>6 DEF SaveSound
      <3> QED  BY <3>1, <1>6, <1>9
    <2>7. Knows(s.answer.rev, s.answer.items, s.who, {})'  BY <1>1, <2>4, KnowsKept
    <2>8. TabSound(new)'
      <3>1. tab.user \in Accounts \cup {Nobody} /\ tab.gen \in Nat  BY <1>3, <1>5 DEF TabSound, SameTab
      <3>2. new.id = new.user  BY <2>2, <2>3
      <3>3. s.who = s.owner => Knows(new.rev, new.items, new.user, new.hid)'  BY <2>2, <2>3, <2>7
      <3> QED  BY <2>2, <2>5, <3>1, <3>2, <3>3 DEF TabSound, TabFields, Accounts, Nobody
    <2>9. new.gen = tabs[s.tab].gen /\ new.user = tabs[s.tab].user  BY <2>2, <1>5 DEF SameTab
    <2>10. tabs' = [tabs EXCEPT ![s.tab] = new] /\ fetches' \subseteq fetches  BY <1>9, <2>1
    <2>11. TabsSound' /\ \A f \in fetches' : FetchSound(f)'  BY <1>1, <1>2, <2>5, <2>8, <2>9, <2>10, TabChanges
    <2>12. DocumentsSound' /\ \A e \in executed' : AnswerSound(e.answer, e.who)'  BY <1>1, <2>5, <2>6, NothingWritten
    <2>13. \A x \in saves' : SaveSound(x)'  BY <1>1, <2>5, SaveKept DEF WritesInv
    <2> QED  BY <2>11, <2>12, <2>13 DEF WritesInv
  <1> QED  BY <1>4, <1>7, <1>8, <1>9 DEF saveAnswered

LEMMA AnswerLostKeeps == ASSUME WritesInv, NEW s \in saves, AnswerLost(s)  PROVE WritesInv'
  <1>1. UNCHANGED <<kind, prefs, executed, fetches, misled>>  BY DEF AnswerLost, accountVars
  <1>2. SaveSound(s) /\ s.tab \in Tabs  BY DEF WritesInv, SaveSound
  <1>3. TabSound(tabs[s.tab])  BY <1>2 DEF WritesInv, TabsSound
  <1>4. PICK new : new = [tabs[s.tab] EXCEPT !.busy = FALSE]  OBVIOUS
  <1>5. tabs' = [tabs EXCEPT ![s.tab] = new]  BY <1>4 DEF AnswerLost
  <1>6. SameTab(new, tabs[s.tab])  BY <1>4 DEF SameTab
  <1>7. TabSound(new)'  BY <1>1, <1>3, <1>6, SameTabSound
  <1>8. new.gen = tabs[s.tab].gen /\ new.user = tabs[s.tab].user  BY <1>6 DEF SameTab
  <1>9. \A x \in saves' : SaveSound(x)'
    <2>1. PICK lost : lost = [s EXCEPT !.awaited = FALSE]  OBVIOUS
    <2>2. saves' \subseteq saves \cup {lost}  BY <2>1 DEF AnswerLost
    <2>3. /\ DOMAIN lost = DOMAIN s /\ lost.tab = s.tab /\ lost.who = s.who /\ lost.owner = s.owner /\ lost.rev = s.rev
          /\ lost.base = s.base /\ lost.hid = s.hid /\ lost.at = s.at /\ lost.answer = s.answer
      BY <2>1
    <2>4. SaveSound(lost)  BY <1>2, <2>3 DEF SaveSound
    <2> QED  BY <1>1, <2>2, <2>4, SaveKept DEF WritesInv
  <1> QED  BY <1>1, <1>2, <1>5, <1>7, <1>8, <1>9, OneTab

LEMMA HearKeeps == ASSUME WritesInv, NEW t \in Tabs, Hear(t)  PROVE WritesInv'
  <1>1. UNCHANGED <<kind, prefs, executed, misled, saves>>  BY DEF Hear, accountVars
  <1>2. CASE loadForUser(t, tabs[t])
    <2>1. SameTab(tabs[t], tabs[t])  BY DEF SameTab
    <2> QED  BY <1>1, <1>2, <2>1, OneTabLoads
  <1>3. CASE UNCHANGED <<tabs, fetches>>
    BY <1>1, <1>3, PageQuiet
  <1> QED  BY <1>2, <1>3 DEF Hear

\* The steps that only queue, drop or lose something, or change who may see a grid.
LEMMA QuietKeeps ==
  ASSUME WritesInv,
         \/ \E t \in Tabs : Click(t, budget.targets) \/ ClickRejected(t)
         \/ \E s \in saves : RequestLost(s)
         \/ Regrouped
  PROVE  WritesInv'
  <1>1. UNCHANGED <<kind, prefs, executed, tabs, misled>> /\ fetches' \subseteq fetches /\ saves' \subseteq saves
    BY DEF Click, ClickRejected, RequestLost, Regrouped, accountVars
  <1> QED  BY <1>1, PageQuiet

LEMMA InitHolds == ASSUME PreferencesInit  PROVE WritesInv
  <1>1. PICK chosen \in PreferenceScenes :
          /\ kind = chosen.kind /\ budget = chosen.bounds
          /\ prefs = [a \in Accounts |-> [rev |-> chosen.rev, items |-> chosen.items]]
          /\ executed = {} /\ hidden = {} /\ stumbled = FALSE /\ misled = FALSE
          /\ tabs = [t \in Tabs |-> Starting(1)]
          /\ clicks = [t \in Tabs |-> <<>>] /\ saves = {} /\ posted = [t \in Tabs |-> <<>>]
          /\ fetches = {[tab |-> t, gen |-> 1, who |-> 1, at |-> "asked", rev |-> 0, items |-> <<>>, hid |-> {}] : t \in Tabs}
    BY DEF PreferencesInit
  <1>2. /\ chosen.kind \in {"favourites", "start"} /\ chosen.rev \in Nat
        /\ chosen.rev = 0 => chosen.items = Empty
    BY <1>1, PreferenceScenesAssumption DEF Empty, Default
  <1>3. DocumentsSound
    <2>1. \A a \in Accounts : prefs[a].rev = chosen.rev /\ prefs[a].items = chosen.items  BY <1>1
    <2> QED  BY <1>1, <1>2, <2>1 DEF DocumentsSound
  <1>4. Knows(0, Empty, 1, {})  BY <1>3, EmptyKnown DEF Accounts
  <1>5. PICK tab : tab = Starting(1)  OBVIOUS
  <1>6. TabSound(tab)
    <2>1. /\ TabFields \subseteq DOMAIN tab /\ tab.user = 1 /\ tab.id = 1 /\ tab.items = Empty /\ tab.rev = 0
          /\ tab.hid = {} /\ tab.gen = 1
      BY <1>5 DEF Starting, TabFields
    <2> QED  BY <1>4, <2>1 DEF TabSound, Accounts, Nobody
  <1>7. tabs = [t \in Tabs |-> tab]  BY <1>1, <1>5
  <1>8. TabsSound  BY <1>6, <1>7 DEF TabsSound
  <1>9. ASSUME NEW f \in fetches  PROVE FetchSound(f)
    <2>1. PICK t \in Tabs : f = [tab |-> t, gen |-> 1, who |-> 1, at |-> "asked", rev |-> 0, items |-> <<>>, hid |-> {}]
      BY <1>1
    <2>2. tabs[t].gen = 1 /\ tabs[t].user = 1  BY <1>1 DEF Starting
    <2>3. /\ {"at", "rev", "hid", "items", "gen", "who", "tab"} \subseteq DOMAIN f
          /\ f.tab = t /\ f.gen = 1 /\ f.who = 1 /\ f.at = "asked"
      BY <2>1
    <2> QED  BY <2>2, <2>3 DEF FetchSound, Accounts
  <1> QED  BY <1>1, <1>3, <1>8, <1>9 DEF WritesInv

LEMMA StepKeeps == ASSUME WritesInv, [PreferencesNext]_prefVars  PROVE WritesInv'
  <1>1. CASE UNCHANGED prefVars
    <2>1. UNCHANGED <<kind, prefs, executed, tabs, misled>> /\ fetches' \subseteq fetches /\ saves' \subseteq saves
      BY <1>1 DEF prefVars
    <2> QED  BY <2>1, PageQuiet
  <1>2. ASSUME NEW t \in Tabs,
               Authenticated(t) \/ Click(t, budget.targets) \/ ClickRejected(t) \/ LoadsFirst(t) \/ Save(t) \/ Hear(t)
        PROVE  WritesInv'
    BY <1>2, AuthenticatedKeeps, QuietKeeps, LoadsFirstKeeps, SaveKeeps, HearKeeps
  <1>3. ASSUME NEW f \in fetches, ReadPreferences(f) \/ Loaded(f) \/ LoadFails(f)  PROVE WritesInv'
    BY <1>3, ReadPreferencesKeeps, LoadedKeeps, LoadFailsKeeps
  <1>4. ASSUME NEW s \in saves, Execute(s) \/ saveAnswered(s) \/ AnswerLost(s) \/ RequestLost(s)  PROVE WritesInv'
    BY <1>4, ExecuteKeeps, SaveAnsweredKeeps, AnswerLostKeeps, QuietKeeps
  <1>5. CASE Regrouped
    BY <1>5, QuietKeeps
  <1> QED  BY <1>1, <1>2, <1>3, <1>4, <1>5 DEF PreferencesNext

\* Whatever may be lost, repeated or queued, in any number of changes by any number of switches of the person: a
\* list of favourites or a start page is written only over what its author saw.
THEOREM WritesAreSeen == PreferencesSpec => NothingOverwritten
  <1>1. PreferencesInit => WritesInv  BY InitHolds
  <1>2. WritesInv /\ [PreferencesNext]_prefVars => WritesInv'  BY StepKeeps
  <1>3. ASSUME WritesInv, PreferencesNext
        PROVE  \A a \in Accounts : prefs'[a] # prefs[a] =>
                 \E s \in saves : /\ s.who = a /\ s.next = prefs'[a].items /\ (kind = "favourites" => s.owner = a)
                                  /\ misled \/ s.base = Displayed(prefs[a].items, s.hid)
    <2> TAKE a \in Accounts
    <2> HAVE prefs'[a] # prefs[a]
    <2>1. PICK s \in saves : Execute(s) /\ prefs' # prefs
      BY <1>3 DEF PreferencesNext, Authenticated, Click, ClickRejected, LoadsFirst, Save, Hear, ReadPreferences, Loaded,
                  LoadFails, saveAnswered, AnswerLost, RequestLost, Regrouped, accountVars
    <2>2. s.who # Nobody /\ Current(s) /\ prefs' = [prefs EXCEPT ![s.who] = Written(s)]
      BY <2>1 DEF Execute, Repeated
    <2>3. SaveSound(s) /\ DOMAIN prefs = Accounts  BY <1>3 DEF WritesInv, DocumentsSound
    <2>4. s.who = a  BY <2>2, <2>3
    <2>5. prefs'[a].items = s.next  BY <2>2, <2>3, <2>4 DEF Written
    <2>6. kind = "favourites" => s.owner = a  BY <2>3, <2>4 DEF SaveSound
    <2>7. misled \/ s.base = Displayed(prefs[a].items, s.hid)
      BY <2>2, <2>3, <2>4 DEF SaveSound, Knows, Current
    <2> QED  BY <2>4, <2>5, <2>6, <2>7
  <1>4. WritesInv /\ [PreferencesNext]_prefVars =>
          [\A a \in Accounts : prefs'[a] # prefs[a] =>
             \E s \in saves : /\ s.who = a /\ s.next = prefs'[a].items /\ (kind = "favourites" => s.owner = a)
                              /\ misled \/ s.base = Displayed(prefs[a].items, s.hid)]_prefVars
    BY <1>3
  <1> QED  BY <1>1, <1>2, <1>4, PTL DEF PreferencesSpec, NothingOverwritten

-----------------------------------------------------------------------------
(* Preferences: at rest every tab shows the document.  What is not shown   *)
(* yet is on the way: to be read by a load, in an answer, or in what one   *)
(* tab tells the other; each step keeps that up for every tab.             *)
-----------------------------------------------------------------------------
\* A tab will show the present document: it does so, or is about to read it, or to hear of it, or an answer with
\* it is on the way to this tab or to the other one, which will tell it.
Informed(t) ==
  LET tab == tabs[t] now == prefs[tab.user].rev
  IN \/ tab.ready /\ tab.rev = now
     \/ \E f \in fetches : f.tab = t /\ f.gen = tab.gen /\ (f.at = "asked" \/ f.rev = now)
     \/ \E i \in DOMAIN posted[t] : posted[t][i].who = tab.user /\ posted[t][i].rev = now
     \/ \E s \in saves : /\ s.awaited /\ s.at = "answered" /\ s.who = tab.user
                         /\ s.answer.outcome = "success" /\ s.answer.rev = now

\* A tab with a revision is ready; what is posted or answered has one.
Postings == [who : Accounts \cup {Nobody}, rev : Nat \ {0}]
Numbered(a) == a.outcome = "success" => a.rev \in Nat \ {0}
TabWire(tab) == /\ {"ready", "rev", "gen", "user"} \subseteq DOMAIN tab /\ tab.ready \in BOOLEAN
                /\ tab.rev # 0 => tab.ready
SaveWire(s) == s.awaited \in BOOLEAN /\ Numbered(s.answer) /\ (~s.awaited => stumbled)
WiresSound ==
  /\ stumbled \in BOOLEAN
  /\ \A t \in Tabs : TabWire(tabs[t])
  /\ \A f \in fetches : f.at \in {"asked", "answered"}
  /\ posted \in [Tabs -> Seq(Postings)]
  /\ \A s \in saves : SaveWire(s)
  /\ \A e \in executed : Numbered(e.answer)

Settles(t) == ~stumbled /\ ~misled /\ tabs[t].user # Nobody => Informed(t)
SettleInv == WritesInv /\ WiresSound /\ \A t \in Tabs : Settles(t)



\* What keeps a tab informed: nothing is written, its load, its messages and the answers stay on the way.
LEMMA InformedKept ==
  ASSUME NEW t \in Tabs, Informed(t), tabs'[t].user = tabs[t].user, tabs'[t].gen = tabs[t].gen,
         tabs'[t].rev = tabs[t].rev, tabs'[t].ready = tabs[t].ready,
         prefs'[tabs[t].user].rev = prefs[tabs[t].user].rev,
         \A f \in fetches : f.tab = t /\ f.gen = tabs[t].gen => f \in fetches',
         posted'[t] = posted[t],
         \A s \in saves : s.awaited /\ s.at = "answered" /\ s.answer.outcome = "success" => s \in saves'
  PROVE  Informed(t)'
<1> DEFINE now == prefs[tabs[t].user].rev
<1>0. prefs'[tabs'[t].user].rev = now
  OBVIOUS
<1> HIDE DEF now
<1>1. CASE tabs[t].ready /\ tabs[t].rev = now
  BY <1>0, <1>1 DEF Informed
<1>2. ASSUME NEW f \in fetches, f.tab = t, f.gen = tabs[t].gen, f.at = "asked" \/ f.rev = now PROVE Informed(t)'
  BY <1>0, <1>2 DEF Informed
<1>3. ASSUME NEW i \in DOMAIN posted[t], posted[t][i].who = tabs[t].user, posted[t][i].rev = now PROVE Informed(t)'
  BY <1>0, <1>3 DEF Informed
<1>4. ASSUME NEW s \in saves, s.awaited, s.at = "answered", s.who = tabs[t].user, s.answer.outcome = "success",
             s.answer.rev = now
      PROVE  Informed(t)'
  BY <1>0, <1>4 DEF Informed
<1> QED
  BY <1>1, <1>2, <1>3, <1>4 DEF Informed, now

\* A tab that begins to load will show the present document.
LEMMA LoadingInformed ==
  ASSUME NEW t \in Tabs, NEW tab, DOMAIN tabs = Tabs, loadForUser(t, tab), tab.user \in Accounts,
         {"user", "gen"} \subseteq DOMAIN tab
  PROVE  Informed(t)'
<1> DEFINE new == Blank(tab, tab.user)
           f == [tab |-> t, gen |-> tab.gen + 1, who |-> tab.user, at |-> "asked", rev |-> 0, items |-> <<>>, hid |-> {}]
<1>1. tabs'[t] = new /\ f \in fetches'
  BY DEF loadForUser, Accounts, Nobody
<1>2. new.gen = tab.gen + 1
  BY DEF Blank
<1>3. f.tab = t /\ f.gen = tab.gen + 1 /\ f.at = "asked"
  OBVIOUS
<1> HIDE DEF new, f
<1>4. f.gen = tabs'[t].gen
  BY <1>1, <1>2, <1>3
<1> QED
  BY <1>1, <1>3, <1>4 DEF Informed

LEMMA LoadingWire ==
  ASSUME NEW t \in Tabs, NEW tab, DOMAIN tabs = Tabs, loadForUser(t, tab),
         {"ready", "rev", "gen", "user"} \subseteq DOMAIN tab, \A u \in Tabs : TabWire(tabs[u]),
         \A f \in fetches : f.at \in {"asked", "answered"}
  PROVE  /\ \A u \in Tabs : TabWire(tabs'[u])
         /\ \A f \in fetches' : f.at \in {"asked", "answered"}
<1> DEFINE new == Blank(tab, tab.user)
<1>1. tabs' = [tabs EXCEPT ![t] = new]
  BY DEF loadForUser
<1>2. {"ready", "rev", "gen", "user"} \subseteq DOMAIN new
  BY DEF Blank
<1>3. new.rev = 0
  BY DEF Blank
<1>4. new.ready \in BOOLEAN
  BY DEF Blank
<1> HIDE DEF new
<1>5. TabWire(new)
  BY <1>2, <1>3, <1>4 DEF TabWire
<1>6. \A f \in fetches' : f \in fetches \/ f.at = "asked"
  BY DEF loadForUser
<1> QED
  BY <1>1, <1>5, <1>6

\* A tab none of whose own matters a step touches.
SameSight(t) ==
  /\ tabs'[t].user = tabs[t].user /\ tabs'[t].gen = tabs[t].gen /\ tabs'[t].rev = tabs[t].rev
  /\ tabs'[t].ready = tabs[t].ready

LEMMA SettlesKept ==
  ASSUME SettleInv, NEW t \in Tabs, UNCHANGED prefs, stumbled => stumbled', misled => misled', SameSight(t),
         \A f \in fetches : f.tab = t /\ f.gen = tabs[t].gen => f \in fetches',
         posted'[t] = posted[t],
         \A s \in saves : s.awaited /\ s.at = "answered" /\ s.answer.outcome = "success" => s \in saves'
  PROVE  Settles(t)'
<1> SUFFICES ASSUME ~stumbled', ~misled', tabs'[t].user # Nobody PROVE Informed(t)'
  BY DEF Settles, Nobody
<1>1. ~stumbled /\ ~misled /\ tabs[t].user # Nobody
  BY DEF SameSight
<1>2. Informed(t)
  BY <1>1 DEF SettleInv, Settles
<1> QED
  BY <1>2, InformedKept DEF SameSight

LEMMA SavesWire ==
  ASSUME WiresSound, stumbled' \in BOOLEAN, stumbled => stumbled', NEW s \in saves
  PROVE  SaveWire(s)'
BY DEF WiresSound, SaveWire, Numbered

LEMMA TabsAre == ASSUME SettleInv PROVE DOMAIN tabs = Tabs /\ \A t \in Tabs : TabWire(tabs[t]) /\ TabSound(tabs[t])
BY DEF SettleInv, WiresSound, WritesInv, TabsSound

LEMMA AuthenticatedSettles ==
  ASSUME SettleInv, NEW t0 \in Tabs, Authenticated(t0)
  PROVE  WiresSound' /\ \A t \in Tabs : Settles(t)'
<1>1. UNCHANGED <<prefs, executed, saves, posted, stumbled, misled>>
  BY DEF Authenticated, accountVars
<1>2. PICK u \in Accounts \cup {Nobody} :
            LET tab == [tabs[t0] EXCEPT !.user = u]
            IN IF u = Nobody /\ kind = "start"
               THEN tabs' = [tabs EXCEPT ![t0] = [Blank(tab, u) EXCEPT !.gen = tab.gen]] /\ UNCHANGED fetches
               ELSE loadForUser(t0, tab)
  BY DEF Authenticated
<1>3. PICK tab : tab = [tabs[t0] EXCEPT !.user = u]
  OBVIOUS
<1>4. DOMAIN tabs = Tabs /\ TabWire(tabs[t0])
  BY TabsAre
<1>5. {"ready", "rev", "gen", "user"} \subseteq DOMAIN tab /\ tab.user = u /\ tab.gen = tabs[t0].gen
  BY <1>3, <1>4 DEF TabWire
<1>6. \A f \in fetches : f \in fetches'
  BY <1>2 DEF loadForUser
<1>7. \A t \in Tabs : t # t0 => tabs'[t] = tabs[t]
  BY <1>2, <1>4 DEF loadForUser
<1>8. ASSUME NEW t \in Tabs PROVE Settles(t)'
  <2>1. CASE t # t0
    <3>1. SameSight(t)
      BY <2>1, <1>7 DEF SameSight
    <3> QED
      BY <3>1, <1>1, <1>6, SettlesKept
  <2>2. CASE t = t0 /\ u = Nobody /\ kind = "start"
    <3>1. PICK new : new = [Blank(tab, u) EXCEPT !.gen = tab.gen]
      OBVIOUS
    <3>2. new.user = u
      BY <3>1, <1>5 DEF Blank
    <3>3. tabs'[t] = new
      BY <2>2, <3>1, <1>2, <1>3, <1>4
    <3> QED
      BY <2>2, <3>2, <3>3 DEF Settles, Nobody
  <2>3. CASE t = t0 /\ ~(u = Nobody /\ kind = "start")
    <3>1. loadForUser(t0, tab)
      BY <2>3, <1>2, <1>3
    <3>2. CASE u = Nobody
      <4>1. Blank(tab, tab.user).user = u
        BY <1>5 DEF Blank
      <4>2. tabs'[t].user = u
        BY <4>1, <2>3, <3>1, <1>4 DEF loadForUser
      <4> QED
        BY <3>2, <4>2 DEF Settles, Nobody
    <3>3. CASE u \in Accounts
      <4>1. Informed(t)'
        BY <2>3, <3>1, <3>3, <1>4, <1>5, LoadingInformed
      <4> QED
        BY <4>1 DEF Settles
    <3> QED
      BY <3>2, <3>3
  <2> QED
    BY <2>1, <2>2, <2>3
<1>9. /\ \A t \in Tabs : TabWire(tabs'[t])
      /\ \A f \in fetches' : f.at \in {"asked", "answered"}
  <2>1. CASE u = Nobody /\ kind = "start"
    <3>1. PICK new : new = [Blank(tab, u) EXCEPT !.gen = tab.gen]
      OBVIOUS
    <3>2. TabWire(new)
      <4>1. new.ready \in BOOLEAN
        BY <3>1 DEF Blank
      <4> QED
        BY <3>1, <4>1, <1>5 DEF Blank, TabWire
    <3>3. tabs' = [tabs EXCEPT ![t0] = new] /\ fetches' = fetches
      BY <2>1, <3>1, <1>2, <1>3
    <3> QED
      BY <3>2, <3>3, TabsAre DEF SettleInv, WiresSound
  <2>2. CASE ~(u = Nobody /\ kind = "start")
    <3>1. loadForUser(t0, tab)
      BY <2>2, <1>2, <1>3
    <3> QED
      BY <3>1, <1>4, <1>5, LoadingWire, TabsAre DEF SettleInv, WiresSound
  <2> QED
    BY <2>1, <2>2
<1>10. \A s \in saves' : SaveWire(s)'
  BY <1>1, SavesWire DEF SettleInv, WiresSound
<1> QED
  BY <1>1, <1>8, <1>9, <1>10 DEF SettleInv, WiresSound, Tabs, Accounts, Nobody, Postings, Numbered, TabWire

LEMMA WiresKept ==
  ASSUME SettleInv, stumbled' \in BOOLEAN, posted' \in [Tabs -> Seq(Postings)], executed' = executed,
         \A t \in Tabs : TabWire(tabs'[t]), \A f \in fetches' : f.at \in {"asked", "answered"},
         \A s \in saves' : SaveWire(s)'
  PROVE  WiresSound'
BY DEF SettleInv, WiresSound, Tabs, Accounts, Nobody, Postings, Numbered, TabWire

LEMMA ReadPreferencesSettles ==
  ASSUME SettleInv, NEW f \in fetches, ReadPreferences(f)
  PROVE  WiresSound' /\ \A t \in Tabs : Settles(t)'
<1>1. UNCHANGED <<prefs, executed, tabs, saves, posted, stumbled, misled>>
  BY DEF ReadPreferences, accountVars
<1>2. PICK new : new = [f EXCEPT !.at = "answered", !.rev = prefs[f.who].rev, !.hid = hidden,
                              !.items = Displayed(prefs[f.who].items, hidden)]
  OBVIOUS
<1>3. fetches' = (fetches \ {f}) \cup {new}
  BY <1>2 DEF ReadPreferences
<1>4. FetchSound(f)
  BY DEF SettleInv, WritesInv
<1>5. new.at = "answered" /\ new.rev = prefs[f.who].rev /\ new.tab = f.tab /\ new.gen = f.gen
  BY <1>2, <1>4 DEF FetchSound
<1>6. ASSUME NEW t \in Tabs PROVE Settles(t)'
  <2>1. CASE f.tab = t /\ f.gen = tabs[t].gen
    <3>1. SUFFICES ASSUME tabs'[t].user # Nobody PROVE Informed(t)'
      BY DEF Settles, Nobody
    <3>2. f.who = tabs[t].user
      BY <2>1, <3>1, <1>1, <1>4 DEF FetchSound, Nobody
    <3>3. new \in fetches' /\ new.tab = t /\ new.gen = tabs'[t].gen /\ new.rev = prefs'[tabs'[t].user].rev
      BY <2>1, <3>2, <1>1, <1>3, <1>5
    <3> QED
      BY <3>3 DEF Informed
  <2>2. CASE ~(f.tab = t /\ f.gen = tabs[t].gen)
    <3>1. SameSight(t)
      BY <1>1 DEF SameSight
    <3>2. \A g \in fetches : g.tab = t /\ g.gen = tabs[t].gen => g \in fetches'
      BY <2>2, <1>3
    <3> QED
      BY <3>1, <3>2, <1>1, SettlesKept
  <2> QED
    BY <2>1, <2>2
<1>7. \A s \in saves' : SaveWire(s)'
  BY <1>1, SavesWire DEF SettleInv, WiresSound
<1> QED
  BY <1>1, <1>3, <1>5, <1>6, <1>7, WiresKept, TabsAre DEF SettleInv, WiresSound

LEMMA LoadedSettles ==
  ASSUME SettleInv, NEW f \in fetches, Loaded(f)
  PROVE  WiresSound' /\ \A t \in Tabs : Settles(t)'
<1> DEFINE tab == tabs[f.tab]
           shown == [tab EXCEPT !.id = f.who, !.items = f.items, !.rev = f.rev, !.hid = f.hid, !.loading = FALSE, !.ready = TRUE]
           taken == f.gen = tab.gen /\ tab.user = f.who
<1>1. UNCHANGED <<prefs, executed, saves, posted, misled>> /\ fetches' = fetches \ {f}
      /\ stumbled' = (stumbled \/ (taken /\ f.rev < tab.rev)) /\ f.at = "answered"
  BY DEF Loaded, accountVars
<1>2. FetchSound(f) /\ f.tab \in Tabs /\ Knows(f.rev, f.items, f.who, f.hid)
  BY <1>1 DEF SettleInv, WritesInv, FetchSound
<1>3. DOMAIN tabs = Tabs /\ TabWire(tab) /\ TabSound(tab)
  BY <1>2, TabsAre
<1>4. PICK new : new = Awoken(IF taken THEN shown ELSE tab, f)
  OBVIOUS
<1>5. tabs' = [tabs EXCEPT ![f.tab] = new]
  BY <1>4 DEF Loaded
<1>6. taken => /\ new.user = tab.user /\ new.gen = tab.gen /\ new.rev = f.rev /\ new.ready = TRUE
               /\ {"ready", "rev", "gen", "user"} \subseteq DOMAIN new
  <2> SUFFICES ASSUME taken PROVE /\ new.user = tab.user /\ new.gen = tab.gen /\ new.rev = f.rev /\ new.ready = TRUE
               /\ {"ready", "rev", "gen", "user"} \subseteq DOMAIN new
    OBVIOUS
  <2>1. PICK x : x = shown
    OBVIOUS
  <2>2. /\ x.user = tab.user /\ x.gen = tab.gen /\ x.rev = f.rev /\ x.ready = TRUE
        /\ {"ready", "rev", "gen", "user"} \subseteq DOMAIN x
    BY <2>1, <1>3 DEF TabWire
  <2>3. new = Awoken(x, f)
    BY <2>1, <1>4
  <2> QED
    BY <2>2, <2>3 DEF Awoken
<1>7. ~taken => /\ new.user = tab.user /\ new.gen = tab.gen /\ new.rev = tab.rev /\ new.ready = tab.ready
                /\ {"ready", "rev", "gen", "user"} \subseteq DOMAIN new
  BY <1>3, <1>4 DEF Awoken, TabWire
<1> HIDE DEF shown
<1>8. TabWire(new)
  <2>1. CASE taken
    BY <2>1, <1>6 DEF TabWire
  <2>2. CASE ~taken
    BY <2>2, <1>3, <1>7 DEF TabWire
  <2> QED
    BY <2>1, <2>2
<1>9. stumbled \in BOOLEAN /\ stumbled' \in BOOLEAN /\ (stumbled => stumbled')
  BY <1>1 DEF SettleInv, WiresSound
<1>10. ASSUME NEW t \in Tabs PROVE Settles(t)'
  <2>1. CASE t # f.tab
    <3>1. SameSight(t)
      BY <2>1, <1>3, <1>5 DEF SameSight
    <3> QED
      BY <2>1, <3>1, <1>1, <1>9, SettlesKept
  <2>2. CASE t = f.tab /\ ~taken
    <3>1. SameSight(t) /\ tabs'[t] = new
      BY <2>2, <1>2, <1>3, <1>5, <1>7 DEF SameSight
    <3>2. CASE tab.user = Nobody
      BY <2>2, <3>1, <3>2, <1>7 DEF Settles, Nobody
    <3>3. CASE tab.user # Nobody
      <4>1. f.gen # tab.gen
        BY <2>2, <3>3, <1>2 DEF FetchSound
      <4>2. \A g \in fetches : g.tab = t /\ g.gen = tabs[t].gen => g \in fetches'
        BY <2>2, <4>1, <1>1
      <4> QED
        BY <3>1, <4>2, <1>1, <1>9, SettlesKept
    <3> QED
      BY <3>2, <3>3
  <2>3. CASE t = f.tab /\ taken
    <3>1. SUFFICES ASSUME ~stumbled', ~misled', tabs'[t].user # Nobody PROVE Informed(t)'
      BY DEF Settles, Nobody
    <3>2. tabs'[t] = new /\ new.user = tab.user /\ new.gen = tab.gen /\ new.rev = f.rev /\ new.ready
      BY <2>3, <1>2, <1>3, <1>5, <1>6
    <3>3. Informed(t) /\ ~(f.rev < tab.rev)
      BY <2>3, <3>1, <3>2, <1>1 DEF SettleInv, Settles
    <3> DEFINE now == prefs[tab.user].rev
    <3>4. prefs'[tabs'[t].user].rev = now
      BY <3>2, <1>1
    <3>5. f.rev \in Nat /\ now \in Nat /\ f.rev <= now
      BY <2>3, <1>2 DEF Knows, SettleInv, WritesInv, DocumentsSound
    <3> HIDE DEF now, taken
    <3>6. CASE tab.ready /\ tab.rev = now
      <4>1. new.rev = now
        BY <3>2, <3>3, <3>5, <3>6
      <4> QED
        BY <4>1, <3>2, <3>4 DEF Informed
    <3>7. ASSUME NEW g \in fetches, g.tab = t, g.gen = tab.gen, g.at = "asked" \/ g.rev = now PROVE Informed(t)'
      <4>1. CASE g = f
        <5>1. new.rev = now
          BY <4>1, <3>2, <3>7, <1>1
        <5> QED
          BY <5>1, <3>2, <3>4 DEF Informed
      <4>2. CASE g # f
        BY <4>2, <3>2, <3>4, <3>7, <1>1 DEF Informed
      <4> QED
        BY <4>1, <4>2
    <3>8. ASSUME NEW i \in DOMAIN posted[t], posted[t][i].who = tab.user, posted[t][i].rev = now PROVE Informed(t)'
      BY <3>2, <3>4, <3>8, <1>1 DEF Informed
    <3>9. ASSUME NEW s \in saves, s.awaited, s.at = "answered", s.who = tab.user, s.answer.outcome = "success",
                 s.answer.rev = now
          PROVE  Informed(t)'
      BY <3>2, <3>4, <3>9, <1>1 DEF Informed
    <3> QED
      BY <2>3, <3>3, <3>6, <3>7, <3>8, <3>9 DEF Informed, now
  <2> QED
    BY <2>1, <2>2, <2>3
<1>11. \A s \in saves' : SaveWire(s)'
  BY <1>1, <1>9, SavesWire DEF SettleInv, WiresSound
<1> QED
  BY <1>1, <1>3, <1>5, <1>8, <1>9, <1>10, <1>11, WiresKept, TabsAre DEF SettleInv, WiresSound

\* Nothing is written, loaded or told: every tab goes on as it was.
LEMMA StillSettles ==
  ASSUME SettleInv, UNCHANGED <<prefs, executed, fetches, posted, stumbled, misled>>,
         \A t \in Tabs : SameSight(t) /\ TabWire(tabs'[t]),
         \A s \in saves : s.awaited /\ s.at = "answered" /\ s.answer.outcome = "success" => s \in saves',
         \A s \in saves' : s \in saves \/ SaveWire(s)
  PROVE  WiresSound' /\ \A t \in Tabs : Settles(t)'
<1>1. \A t \in Tabs : Settles(t)'
  BY SettlesKept
<1>2. ASSUME NEW s \in saves' PROVE SaveWire(s)'
  <2>1. SaveWire(s)
    BY <1>2 DEF SettleInv, WiresSound
  <2> QED
    BY <2>1 DEF SaveWire, Numbered
<1>3. posted' \in [Tabs -> Seq(Postings)] /\ stumbled' \in BOOLEAN /\ \A f \in fetches' : f.at \in {"asked", "answered"}
  BY DEF SettleInv, WiresSound
<1> QED
  BY <1>1, <1>2, <1>3, WiresKept

LEMMA QuietSettles ==
  ASSUME SettleInv,
         \/ \E t \in Tabs : Click(t, budget.targets) \/ ClickRejected(t)
         \/ \E s \in saves : RequestLost(s)
         \/ Regrouped
         \/ UNCHANGED prefVars
  PROVE  WiresSound' /\ \A t \in Tabs : Settles(t)'
<1>1. UNCHANGED <<prefs, executed, fetches, posted, stumbled, misled, tabs>> /\ saves' \subseteq saves
  BY DEF Click, ClickRejected, RequestLost, Regrouped, accountVars, prefVars
<1>2. \A s \in saves : s.awaited /\ s.at = "answered" /\ s.answer.outcome = "success" => s \in saves'
  BY DEF Click, ClickRejected, RequestLost, Regrouped, accountVars, prefVars
<1>3. \A t \in Tabs : SameSight(t) /\ TabWire(tabs'[t])
  BY <1>1, TabsAre DEF SameSight
<1> QED
  BY <1>1, <1>2, <1>3, StillSettles

\* A failure is one of the exceptions the settling speaks of.
LEMMA StumbledSettles ==
  ASSUME SettleInv, stumbled' = TRUE, UNCHANGED <<executed, posted>>,
         \A t \in Tabs : TabWire(tabs'[t]), fetches' \subseteq fetches,
         \A s \in saves' : Numbered(s.answer) /\ s.awaited \in BOOLEAN
  PROVE  WiresSound' /\ \A t \in Tabs : Settles(t)'
<1>1. \A s \in saves' : SaveWire(s)'
  BY DEF SaveWire, Numbered
<1>2. posted' \in [Tabs -> Seq(Postings)] /\ stumbled' \in BOOLEAN /\ \A f \in fetches' : f.at \in {"asked", "answered"}
  BY DEF SettleInv, WiresSound
<1>3. WiresSound'
  BY <1>1, <1>2, WiresKept
<1>4. \A t \in Tabs : Settles(t)'
  BY DEF Settles
<1> QED
  BY <1>3, <1>4

LEMMA LoadFailsSettles ==
  ASSUME SettleInv, NEW f \in fetches, LoadFails(f)
  PROVE  WiresSound' /\ \A t \in Tabs : Settles(t)'
<1> DEFINE tab == tabs[f.tab]
<1>1. UNCHANGED <<executed, posted, saves>> /\ stumbled' = TRUE /\ fetches' \subseteq fetches
  BY DEF LoadFails, accountVars
<1>2. f.tab \in Tabs
  BY DEF SettleInv, WritesInv, FetchSound
<1>3. DOMAIN tabs = Tabs /\ TabWire(tab)
  BY <1>2, TabsAre
<1>4. PICK failed : failed = [tab EXCEPT !.id = f.who, !.items = Empty, !.rev = 0, !.loading = FALSE, !.ready = FALSE]
  OBVIOUS
<1>5. TabWire(failed)
  <2>1. failed.rev = 0 /\ failed.ready = FALSE /\ {"ready", "rev", "gen", "user"} \subseteq DOMAIN failed
    BY <1>3, <1>4 DEF TabWire
  <2> QED
    BY <2>1 DEF TabWire
<1>6. PICK new : /\ tabs' = [tabs EXCEPT ![f.tab] = new]
                 /\ \/ new = Awoken(tab, f)
                    \/ new = [failed EXCEPT !.waits = 0, !.busy = FALSE]
                    \/ new = failed
  BY <1>4 DEF LoadFails
<1>7. TabWire(new)
  <2>1. CASE new = Awoken(tab, f)
    BY <2>1, <1>3 DEF TabWire, Awoken
  <2>2. CASE new = [failed EXCEPT !.waits = 0, !.busy = FALSE]
    BY <2>2, <1>5 DEF TabWire
  <2>3. CASE new = failed
    BY <2>3, <1>5
  <2> QED
    BY <2>1, <2>2, <2>3, <1>6
<1>8. \A t \in Tabs : TabWire(tabs'[t])
  BY <1>3, <1>6, <1>7, TabsAre
<1>9. \A s \in saves' : Numbered(s.answer) /\ s.awaited \in BOOLEAN
  BY <1>1 DEF SettleInv, WiresSound, SaveWire
<1> QED
  BY <1>1, <1>8, <1>9, StumbledSettles

LEMMA AnswerLostSettles ==
  ASSUME SettleInv, NEW s \in saves, AnswerLost(s)
  PROVE  WiresSound' /\ \A t \in Tabs : Settles(t)'
<1>1. UNCHANGED <<executed, posted, fetches>> /\ stumbled' = TRUE
  BY DEF AnswerLost, accountVars
<1>2. s.tab \in Tabs /\ SaveWire(s) /\ {"answer", "awaited"} \subseteq DOMAIN s
  BY DEF SettleInv, WritesInv, SaveSound, WiresSound
<1>3. DOMAIN tabs = Tabs /\ TabWire(tabs[s.tab])
  BY <1>2, TabsAre
<1>4. PICK new : new = [tabs[s.tab] EXCEPT !.busy = FALSE]
  OBVIOUS
<1>5. tabs' = [tabs EXCEPT ![s.tab] = new]
  BY <1>4 DEF AnswerLost
<1>6. TabWire(new)
  BY <1>3, <1>4 DEF TabWire
<1>7. \A t \in Tabs : TabWire(tabs'[t])
  BY <1>3, <1>5, <1>6, TabsAre
<1>8. PICK lost : lost = [s EXCEPT !.awaited = FALSE]
  OBVIOUS
<1>9. lost.awaited = FALSE /\ lost.answer = s.answer
  BY <1>2, <1>8
<1>10. \A x \in saves' : x \in saves \/ x = lost
  BY <1>8 DEF AnswerLost
<1>11. \A x \in saves' : Numbered(x.answer) /\ x.awaited \in BOOLEAN
  BY <1>2, <1>9, <1>10 DEF SettleInv, WiresSound, SaveWire
<1> QED
  BY <1>1, <1>7, <1>11, StumbledSettles

\* A load empties the page of its tab and tells it, whatever else the tab remembers.
LEMMA LoadSettles ==
  ASSUME SettleInv, NEW t0 \in Tabs, NEW tab, loadForUser(t0, tab), tab.user = tabs[t0].user, tab.gen = tabs[t0].gen,
         {"ready", "rev", "gen", "user"} \subseteq DOMAIN tab,
         UNCHANGED <<prefs, executed, stumbled, misled>>,
         posted' \in [Tabs -> Seq(Postings)], \A t \in Tabs : t # t0 => posted'[t] = posted[t],
         saves' \subseteq saves,
         \A s \in saves : s.awaited /\ s.at = "answered" /\ s.answer.outcome = "success" => s \in saves'
  PROVE  WiresSound' /\ \A t \in Tabs : Settles(t)'
<1>1. DOMAIN tabs = Tabs /\ TabWire(tabs[t0]) /\ TabSound(tabs[t0])
  BY TabsAre
<1>2. tab.user \in Accounts \cup {Nobody}
  BY <1>1 DEF TabSound
<1>3. \A f \in fetches : f \in fetches'
  BY DEF loadForUser
<1>4. ASSUME NEW t \in Tabs, t # t0 PROVE Settles(t)'
  <2>1. tabs'[t] = tabs[t]
    BY <1>1, <1>4 DEF loadForUser
  <2>2. SUFFICES ASSUME ~stumbled', ~misled', tabs'[t].user # Nobody PROVE Informed(t)'
    BY DEF Settles, Nobody
  <2>3. Informed(t)
    BY <2>1, <2>2 DEF SettleInv, Settles
  <2> QED
    BY <2>1, <2>3, <1>3, <1>4 DEF Informed
<1>5. Settles(t0)'
  <2>1. CASE tab.user = Nobody
    <3>1. Blank(tab, tab.user).user = Nobody
      BY <2>1 DEF Blank
    <3>2. tabs'[t0].user = Nobody
      BY <3>1, <1>1 DEF loadForUser
    <3> QED
      BY <3>2 DEF Settles, Nobody
  <2>2. CASE tab.user \in Accounts
    <3>1. Informed(t0)'
      BY <2>2, <1>1, LoadingInformed
    <3> QED
      BY <3>1 DEF Settles
  <2> QED
    BY <2>1, <2>2, <1>2
<1>6. \A t \in Tabs : Settles(t)'
  BY <1>4, <1>5
<1>7. /\ \A u \in Tabs : TabWire(tabs'[u])
      /\ \A f \in fetches' : f.at \in {"asked", "answered"}
  BY <1>1, LoadingWire DEF SettleInv, WiresSound
<1>8. stumbled \in BOOLEAN
  BY DEF SettleInv, WiresSound
<1>9. \A s \in saves' : SaveWire(s)'
  BY <1>8, SavesWire DEF SettleInv
<1> QED
  BY <1>6, <1>7, <1>8, <1>9, WiresKept

LEMMA LoadsFirstSettles ==
  ASSUME SettleInv, NEW t0 \in Tabs, LoadsFirst(t0)
  PROVE  WiresSound' /\ \A t \in Tabs : Settles(t)'
<1> DEFINE tab == tabs[t0]
<1>1. UNCHANGED <<prefs, executed, saves, posted, stumbled, misled>>
  BY DEF LoadsFirst, accountVars
<1>2. DOMAIN tabs = Tabs /\ TabWire(tab)
  BY TabsAre
<1>3. posted' \in [Tabs -> Seq(Postings)]
  BY <1>1 DEF SettleInv, WiresSound
<1>4. PICK new : /\ new = [tab EXCEPT !.busy = TRUE, !.waited = TRUE] \/ new = [tab EXCEPT !.busy = TRUE, !.waits = tab.gen + 1]
                 /\ \/ tabs' = [tabs EXCEPT ![t0] = new] /\ UNCHANGED fetches
                    \/ loadForUser(t0, new)
  BY DEF LoadsFirst
<1>5. /\ new.user = tab.user /\ new.gen = tab.gen /\ new.rev = tab.rev /\ new.ready = tab.ready
      /\ {"ready", "rev", "gen", "user"} \subseteq DOMAIN new
  BY <1>2, <1>4 DEF TabWire
<1>6. CASE tabs' = [tabs EXCEPT ![t0] = new] /\ UNCHANGED fetches
  <2>1. TabWire(new)
    BY <1>2, <1>5 DEF TabWire
  <2>2. \A t \in Tabs : SameSight(t) /\ TabWire(tabs'[t])
    BY <2>1, <1>2, <1>5, <1>6, TabsAre DEF SameSight
  <2> QED
    BY <2>2, <1>1, <1>6, StillSettles
<1>7. CASE loadForUser(t0, new)
  BY <1>1, <1>3, <1>5, <1>7, LoadSettles
<1> QED
  BY <1>4, <1>6, <1>7

LEMMA SaveSettles ==
  ASSUME SettleInv, NEW t0 \in Tabs, Save(t0)
  PROVE  WiresSound' /\ \A t \in Tabs : Settles(t)'
<1> DEFINE tab == tabs[t0]
           key == ChangeKey(Head(clicks[t0]), tab)
           n == OperationId(tab, key)
           new == [tab EXCEPT !.busy = TRUE, !.waited = FALSE, !.ids = @ \cup {[key |-> key, n |-> n]},
                              !.made = IF n > @ THEN n ELSE @]
           sent == [tab |-> t0, n |-> n, key |-> key, owner |-> Head(clicks[t0]).who, who |-> tab.user, rev |-> tab.rev,
                    base |-> tab.items, hid |-> tab.hid, next |-> key[3], at |-> "sent", awaited |-> TRUE,
                    answer |-> [outcome |-> "none", rev |-> 0, items |-> <<>>]]
<1>1. UNCHANGED <<prefs, executed, fetches, posted, stumbled, misled>>
  BY DEF Save, accountVars
<1>2. DOMAIN tabs = Tabs /\ TabWire(tab)
  BY TabsAre
<1>3. tabs' = [tabs EXCEPT ![t0] = new] /\ saves' = saves \cup {sent}
  BY DEF Save
<1>4. sent.awaited = TRUE /\ sent.answer.outcome = "none"
  OBVIOUS
<1> HIDE DEF key, n, sent
<1>5. /\ new.user = tab.user /\ new.gen = tab.gen /\ new.rev = tab.rev /\ new.ready = tab.ready
      /\ {"ready", "rev", "gen", "user"} \subseteq DOMAIN new
  BY <1>2 DEF TabWire
<1> HIDE DEF new
<1>6. TabWire(new)
  BY <1>2, <1>5 DEF TabWire
<1>7. \A t \in Tabs : SameSight(t) /\ TabWire(tabs'[t])
  BY <1>2, <1>3, <1>5, <1>6, TabsAre DEF SameSight
<1>8. SaveWire(sent)
  BY <1>4 DEF SaveWire, Numbered
<1> QED
  BY <1>1, <1>3, <1>7, <1>8, StillSettles

LEMMA AnsweredSettles ==
  ASSUME SettleInv, NEW s \in saves, s.at = "sent", NEW a, Numbered(a), Answer(s, a),
         UNCHANGED <<prefs, executed, tabs, fetches, posted, stumbled, misled>>
  PROVE  WiresSound' /\ \A t \in Tabs : Settles(t)'
<1>1. PICK new : new = [s EXCEPT !.at = "answered", !.answer = a]
  OBVIOUS
<1>2. {"at", "answer", "awaited"} \subseteq DOMAIN s /\ SaveWire(s)
  BY DEF SettleInv, WritesInv, SaveSound, WiresSound
<1>3. new.answer = a /\ new.awaited = s.awaited
  BY <1>1, <1>2
<1>4. SaveWire(new)
  BY <1>2, <1>3 DEF SaveWire
<1>5. \A x \in saves' : x \in saves \/ SaveWire(x)
  BY <1>1, <1>4 DEF Answer
<1>6. \A x \in saves : x.awaited /\ x.at = "answered" /\ x.answer.outcome = "success" => x \in saves'
  BY DEF Answer
<1>7. \A t \in Tabs : SameSight(t) /\ TabWire(tabs'[t])
  BY TabsAre DEF SameSight
<1> QED
  BY <1>5, <1>6, <1>7, StillSettles

\* A write that commits is told to its author, who tells the other tab.
LEMMA WrittenSettles ==
  ASSUME SettleInv, NEW s \in saves, s.at = "sent", s.who # Nobody, Current(s),
         prefs' = [prefs EXCEPT ![s.who] = Written(s)], NEW a, a.outcome = "success", a.rev = Written(s).rev,
         executed' = executed \cup {[tab |-> s.tab, n |-> s.n, who |-> s.who, answer |-> a]}, Answer(s, a),
         UNCHANGED <<tabs, fetches, posted, stumbled, misled>>
  PROVE  WiresSound' /\ \A t \in Tabs : Settles(t)'
<1>1. PICK new : new = [s EXCEPT !.at = "answered", !.answer = a]
  OBVIOUS
<1>2. {"at", "answer", "awaited", "who"} \subseteq DOMAIN s /\ SaveWire(s) /\ s.who \in Accounts
  BY DEF SettleInv, WritesInv, SaveSound, WiresSound
<1>3. new.answer = a /\ new.awaited = s.awaited /\ new.at = "answered" /\ new.who = s.who
  BY <1>1, <1>2
<1>4. a.rev = s.rev + 1 /\ s.rev = prefs[s.who].rev /\ s.rev \in Nat /\ DOMAIN prefs = Accounts
  BY <1>2 DEF Written, Current, SettleInv, WritesInv, DocumentsSound
<1>5. prefs'[s.who].rev = a.rev /\ \A b \in Accounts : b # s.who => prefs'[b] = prefs[b]
  BY <1>2, <1>4
<1>6. Numbered(a)
  BY <1>4 DEF Numbered
<1>7. saves' = (saves \ {s}) \cup (IF s.awaited THEN {new} ELSE {})
  BY <1>1 DEF Answer
<1>8. ASSUME NEW t \in Tabs PROVE Settles(t)'
  <2>1. SUFFICES ASSUME ~stumbled', ~misled', tabs'[t].user # Nobody PROVE Informed(t)'
    BY DEF Settles, Nobody
  <2>2. tabs[t].user \in Accounts
    BY <2>1, TabsAre DEF TabSound
  <2>3. CASE tabs[t].user = s.who
    <3>1. s.awaited
      BY <2>1, <1>2 DEF SaveWire
    <3>2. new \in saves' /\ new.awaited /\ new.at = "answered" /\ new.who = tabs'[t].user /\ new.answer.outcome = "success"
      BY <2>3, <3>1, <1>3, <1>7
    <3>3. new.answer.rev = prefs'[tabs'[t].user].rev
      BY <2>3, <1>3, <1>5
    <3> QED
      BY <3>2, <3>3 DEF Informed
  <2>4. CASE tabs[t].user # s.who
    <3>1. Informed(t)
      BY <2>1 DEF SettleInv, Settles
    <3>2. prefs'[tabs[t].user].rev = prefs[tabs[t].user].rev
      BY <2>2, <2>4, <1>5
    <3>3. \A x \in saves : x.awaited /\ x.at = "answered" /\ x.answer.outcome = "success" => x \in saves'
      BY <1>7
    <3> QED
      BY <3>1, <3>2, <3>3, InformedKept
  <2> QED
    BY <2>3, <2>4
<1>9. ASSUME NEW x \in saves' PROVE SaveWire(x)'
  <2>1. SaveWire(new)
    BY <1>2, <1>3, <1>6 DEF SaveWire
  <2>2. SaveWire(x)
    BY <2>1, <1>7, <1>9 DEF SettleInv, WiresSound
  <2> QED
    BY <2>2 DEF SaveWire, Numbered
<1>10. ASSUME NEW e \in executed' PROVE Numbered(e.answer)'
  <2>1. Numbered(e.answer)
    BY <1>6, <1>10 DEF SettleInv, WiresSound
  <2> QED
    BY <2>1 DEF Numbered
<1> QED
  BY <1>8, <1>9, <1>10, TabsAre DEF SettleInv, WiresSound, Tabs, Accounts, Nobody, Postings, TabWire

LEMMA ExecuteSettles ==
  ASSUME SettleInv, NEW s \in saves, Execute(s)
  PROVE  WiresSound' /\ \A t \in Tabs : Settles(t)'
<1> DEFINE known == {e \in executed : e.tab = s.tab /\ e.n = s.n}
           written == [Outcome("success") EXCEPT !.rev = Written(s).rev, !.items = Written(s).items]
<1>1. UNCHANGED <<tabs, fetches, posted, stumbled, misled>> /\ s.at = "sent"
  BY DEF Execute
<1>2. \A o : o # "success" => Numbered(Outcome(o))
  BY DEF Numbered, Outcome
<1>3. CASE Answer(s, Outcome("refused")) /\ UNCHANGED <<prefs, executed>>
  BY <1>1, <1>2, <1>3, AnsweredSettles
<1>4. CASE Answer(s, Outcome("conflict")) /\ UNCHANGED <<prefs, executed>>
  BY <1>1, <1>2, <1>4, AnsweredSettles
<1>5. ASSUME NEW e \in executed, Repeated(s, e), UNCHANGED <<prefs, executed>>
      PROVE  WiresSound' /\ \A t \in Tabs : Settles(t)'
  <2>1. Numbered(e.answer)
    BY DEF SettleInv, WiresSound
  <2>2. CASE e.who = s.who
    BY <2>1, <2>2, <1>1, <1>5, AnsweredSettles DEF Repeated
  <2>3. CASE e.who # s.who
    <3>1. Answer(s, Outcome("refused"))
      BY <2>3, <1>5 DEF Repeated
    <3> QED
      BY <3>1, <1>3, <1>5
  <2> QED
    BY <2>2, <2>3
<1>6. CASE /\ s.who # Nobody /\ Current(s)
           /\ prefs' = [prefs EXCEPT ![s.who] = Written(s)]
           /\ executed' = executed \cup {[tab |-> s.tab, n |-> s.n, who |-> s.who, answer |-> written]}
           /\ Answer(s, written)
  <2>1. PICK a : a = written
    OBVIOUS
  <2>2. a.outcome = "success" /\ a.rev = Written(s).rev
    BY <2>1 DEF Outcome
  <2> QED
    BY <2>1, <2>2, <1>1, <1>6, WrittenSettles
<1>7. CASE s.who # Nobody /\ known # {} /\ Repeated(s, CHOOSE e \in known : TRUE) /\ UNCHANGED <<prefs, executed>>
  <2>1. (CHOOSE e \in known : TRUE) \in executed
    BY <1>7
  <2> QED
    BY <2>1, <1>5, <1>7
<1> QED
  BY <1>3, <1>4, <1>6, <1>7 DEF Execute

LEMMA HearSettles ==
  ASSUME SettleInv, NEW t0 \in Tabs, Hear(t0)
  PROVE  WiresSound' /\ \A t \in Tabs : Settles(t)'
<1> DEFINE tab == tabs[t0]
           heard == posted[t0]
<1>1. UNCHANGED <<prefs, executed, saves, stumbled, misled>> /\ heard # <<>>
      /\ posted' = [posted EXCEPT ![t0] = Tail(heard)]
  BY DEF Hear, accountVars
<1>2. posted \in [Tabs -> Seq(Postings)]
  BY DEF SettleInv, WiresSound
<1>3. Tail(heard) \in Seq(Postings) /\ Len(heard) > 0
  BY <1>1, <1>2
<1>4. posted' \in [Tabs -> Seq(Postings)] /\ \A t \in Tabs : t # t0 => posted'[t] = posted[t]
  BY <1>1, <1>2, <1>3
<1>5. DOMAIN tabs = Tabs /\ TabWire(tab) /\ TabSound(tab)
  BY TabsAre
<1>6. CASE loadForUser(t0, tab)
  <2>1. {"ready", "rev", "gen", "user"} \subseteq DOMAIN tab
    BY <1>5 DEF TabWire
  <2> QED
    BY <2>1, <1>1, <1>4, <1>6, LoadSettles
<1>7. CASE ~Outdated(tab, Head(heard)) /\ UNCHANGED <<tabs, fetches>>
  <2>1. ASSUME NEW t \in Tabs PROVE Settles(t)'
    <3>1. SUFFICES ASSUME ~stumbled', ~misled', tabs'[t].user # Nobody PROVE Informed(t)'
      BY DEF Settles, Nobody
    <3>2. Informed(t)
      BY <3>1, <1>1, <1>7 DEF SettleInv, Settles
    <3>3. CASE t # t0
      BY <3>2, <3>3, <1>1, <1>4, <1>7 DEF Informed
    <3>4. CASE t = t0
      <4> DEFINE now == prefs[tab.user].rev
      <4>1. tab.id = tab.user
        BY <3>1, <3>4, <1>5, <1>7 DEF TabSound, Nobody
      <4>2. ASSUME NEW i \in DOMAIN heard, heard[i].who = tab.user, heard[i].rev = now PROVE Informed(t)'
        <5>1. CASE i = 1
          <6>1. heard[1].rev = tab.rev /\ heard[1].rev # 0
            <7>1. heard[1] \in Postings
              BY <1>2, <1>3
            <7> QED
              BY <5>1, <4>1, <4>2, <7>1, <1>7 DEF Outdated, Postings
          <6>2. tab.ready /\ tab.rev = now
            BY <6>1, <5>1, <4>2, <1>5 DEF TabWire
          <6> QED
            BY <6>2, <3>4, <1>1, <1>7 DEF Informed
        <5>2. CASE i # 1
          <6>1. i - 1 \in DOMAIN Tail(heard) /\ Tail(heard)[i - 1] = heard[i]
            BY <5>2, <1>2, <1>3
          <6>2. posted'[t0] = Tail(heard)
            BY <1>1, <1>2
          <6>3. \E j \in DOMAIN posted'[t0] : posted'[t0][j].who = tab.user /\ posted'[t0][j].rev = now
            BY <6>1, <6>2, <4>2
          <6> QED
            BY <6>3, <3>4, <1>1, <1>7 DEF Informed
        <5> QED
          BY <5>1, <5>2
      <4>3. CASE tab.ready /\ tab.rev = now
        BY <4>3, <3>4, <1>1, <1>7 DEF Informed
      <4>4. CASE \E f \in fetches : f.tab = t /\ f.gen = tab.gen /\ (f.at = "asked" \/ f.rev = now)
        BY <4>4, <3>4, <1>1, <1>7 DEF Informed
      <4>5. CASE \E s \in saves : /\ s.awaited /\ s.at = "answered" /\ s.who = tab.user
                                  /\ s.answer.outcome = "success" /\ s.answer.rev = now
        BY <4>5, <3>4, <1>1, <1>7 DEF Informed
      <4> QED
        BY <4>2, <4>3, <4>4, <4>5, <3>2, <3>4 DEF Informed
    <3> QED
      BY <3>3, <3>4
  <2>2. stumbled \in BOOLEAN
    BY DEF SettleInv, WiresSound
  <2>3. \A s \in saves' : SaveWire(s)'
    BY <2>2, <1>1, SavesWire DEF SettleInv
  <2> QED
    BY <2>1, <2>2, <2>3, <1>1, <1>4, <1>7, WiresKept, TabsAre DEF SettleInv, WiresSound
<1> QED
  BY <1>6, <1>7 DEF Hear

LEMMA SaveAnsweredSettles ==
  ASSUME SettleInv, NEW s \in saves, saveAnswered(s)
  PROVE  WiresSound' /\ \A t \in Tabs : Settles(t)'
<1> DEFINE old == tabs[s.tab]
<1>1. UNCHANGED <<prefs, executed>> /\ saves' = saves \ {s} /\ s.at = "answered" /\ s.awaited
  BY DEF saveAnswered, accountVars
<1>2. s.tab \in Tabs /\ SaveSound(s) /\ SaveWire(s)
  BY DEF SettleInv, WritesInv, SaveSound, WiresSound
<1>3. DOMAIN tabs = Tabs /\ TabWire(old) /\ TabSound(old)
  BY <1>2, TabsAre
<1>4. PICK tab : tab = Released(old, s)
  OBVIOUS
<1>5. /\ tab.user = old.user /\ tab.gen = old.gen /\ tab.rev = old.rev /\ tab.ready = old.ready /\ tab.id = old.id
      /\ {"ready", "rev", "gen", "user", "id"} \subseteq DOMAIN tab
  BY <1>3, <1>4 DEF Released, TabWire, TabSound, TabFields
<1>6. TabWire(tab)
  BY <1>3, <1>5 DEF TabWire
<1>7. stumbled \in BOOLEAN /\ posted \in [Tabs -> Seq(Postings)]
      /\ \A f \in fetches : f.at \in {"asked", "answered"}
  BY DEF SettleInv, WiresSound
<1>8. CASE s.answer.outcome # "success" /\ tabs' = [tabs EXCEPT ![s.tab] = tab] /\ UNCHANGED <<fetches, posted, stumbled, misled>>
  <2>1. \A t \in Tabs : SameSight(t) /\ TabWire(tabs'[t])
    BY <1>2, <1>3, <1>5, <1>6, <1>8, TabsAre DEF SameSight
  <2>2. \A x \in saves : x.awaited /\ x.at = "answered" /\ x.answer.outcome = "success" => x \in saves'
    BY <1>1, <1>8
  <2> QED
    BY <2>1, <2>2, <1>1, <1>8, StillSettles
<1>9. CASE s.answer.outcome # "success" /\ loadForUser(s.tab, tab) /\ UNCHANGED <<posted, stumbled, misled>>
  <2>1. \A x \in saves : x.awaited /\ x.at = "answered" /\ x.answer.outcome = "success" => x \in saves'
    BY <1>1, <1>9
  <2>2. saves' \subseteq saves
    BY <1>1
  <2> QED
    BY <2>1, <2>2, <1>1, <1>2, <1>5, <1>7, <1>9, LoadSettles
<1>10. ASSUME s.answer.outcome = "success"
       PROVE  /\ s.answer.rev \in Nat \ {0} /\ s.who \in Accounts /\ s.answer.rev <= prefs[s.who].rev
              /\ prefs[s.who].rev \in Nat
  BY <1>1, <1>2, <1>10 DEF SaveSound, AnswerSound, Knows, SaveWire, Numbered, SettleInv, WritesInv, DocumentsSound
<1>11. CASE /\ s.answer.outcome = "success" /\ Ignored(s, tab) /\ UNCHANGED <<fetches, posted, misled>>
            /\ tabs' = [tabs EXCEPT ![s.tab] = tab] /\ stumbled' = (stumbled \/ tab.user # s.owner)
  <2>1. ASSUME NEW t \in Tabs PROVE Settles(t)'
    <3>1. SUFFICES ASSUME ~stumbled', ~misled', tabs'[t].user # Nobody PROVE Informed(t)'
      BY DEF Settles, Nobody
    <3>2. SameSight(t)
      BY <1>2, <1>3, <1>5, <1>11 DEF SameSight
    <3>3. tabs[t].user # Nobody /\ ~stumbled /\ ~misled /\ tab.user = s.owner
      BY <3>1, <3>2, <1>11 DEF SameSight
    <3>4. Informed(t)
      BY <3>3 DEF SettleInv, Settles
    <3>5. kind = "favourites" /\ (tab.id # s.owner \/ s.answer.rev < tab.rev)
      BY <3>3, <1>11 DEF Ignored
    <3>6. s.owner = s.who
      BY <3>5, <1>2 DEF SaveSound
    <3>7. tab.user \in Accounts /\ tab.user = s.who
      BY <3>3, <3>6, <1>10, <1>11
    <3>8. old.user # Nobody
      BY <3>7, <1>5 DEF Accounts, Nobody
    <3>9. old.id = old.user /\ old.rev \in Nat /\ old.rev <= prefs[old.user].rev
      BY <3>3, <3>8, <1>3 DEF TabSound, Knows
    <3>10. s.answer.rev < tab.rev
      BY <3>3, <3>5, <3>9, <1>5
    <3>11. s.answer.rev # prefs[s.who].rev
      BY <3>7, <3>9, <3>10, <1>5, <1>10, <1>11
    <3> DEFINE now == prefs[tabs[t].user].rev
    <3>12. prefs'[tabs'[t].user].rev = now
      BY <3>2, <1>1 DEF SameSight
    <3> HIDE DEF now
    <3>13. CASE tabs[t].ready /\ tabs[t].rev = now
      BY <3>2, <3>12, <3>13 DEF Informed, SameSight
    <3>14. ASSUME NEW f \in fetches, f.tab = t, f.gen = tabs[t].gen, f.at = "asked" \/ f.rev = now PROVE Informed(t)'
      BY <3>2, <3>12, <3>14, <1>11 DEF Informed, SameSight
    <3>15. ASSUME NEW i \in DOMAIN posted[t], posted[t][i].who = tabs[t].user, posted[t][i].rev = now PROVE Informed(t)'
      BY <3>2, <3>12, <3>15, <1>11 DEF Informed, SameSight
    <3>16. ASSUME NEW x \in saves, x.awaited, x.at = "answered", x.who = tabs[t].user, x.answer.outcome = "success",
                  x.answer.rev = now
           PROVE  Informed(t)'
      <4>1. x # s
        BY <3>11, <3>16 DEF now
      <4> QED
        BY <4>1, <3>2, <3>12, <3>16, <1>1 DEF Informed, SameSight
    <3> QED
      BY <3>4, <3>13, <3>14, <3>15, <3>16 DEF Informed, now
  <2>2. \A t \in Tabs : TabWire(tabs'[t])
    BY <1>2, <1>3, <1>6, <1>11, TabsAre
  <2>3. stumbled' \in BOOLEAN /\ (stumbled => stumbled')
    BY <1>7, <1>11
  <2>4. \A x \in saves' : SaveWire(x)'
    BY <2>3, <1>1, SavesWire DEF SettleInv
  <2> QED
    BY <2>1, <2>2, <2>3, <2>4, <1>1, <1>7, <1>11, WiresKept
<1>12. CASE /\ s.answer.outcome = "success" /\ ~Ignored(s, tab) /\ UNCHANGED fetches
            /\ tabs' = [tabs EXCEPT ![s.tab] = Stored(tab, s)]
            /\ posted' = [posted EXCEPT ![OtherTab(s.tab)] = Append(@, [who |-> s.owner, rev |-> s.answer.rev])]
            /\ stumbled' = (stumbled \/ s.answer.rev < tab.rev) /\ misled' = (misled \/ s.who # s.owner)
  <2>1. PICK new : new = Stored(tab, s)
    OBVIOUS
  <2>2. /\ new.user = tab.user /\ new.gen = tab.gen /\ new.rev = s.answer.rev /\ new.ready = TRUE
        /\ {"ready", "rev", "gen", "user"} \subseteq DOMAIN new
    BY <2>1, <1>5 DEF Stored
  <2>3. TabWire(new)
    BY <2>2 DEF TabWire
  <2>4. tabs'[s.tab] = new /\ \A t \in Tabs : t # s.tab => tabs'[t] = tabs[t]
    BY <2>1, <1>2, <1>3, <1>12
  <2>5. PICK m : m = [who |-> s.owner, rev |-> s.answer.rev]
    OBVIOUS
  <2>6. m.who = s.owner /\ m.rev = s.answer.rev /\ m \in Postings
    <3>1. s.owner \in Accounts \cup {Nobody}
      BY <1>3, <1>5, <1>12 DEF Ignored, TabSound
    <3> QED
      BY <2>5, <3>1, <1>10, <1>12 DEF Postings
  <2>7. OtherTab(s.tab) \in Tabs /\ \A t \in Tabs : t # s.tab => t = OtherTab(s.tab)
    BY <1>2 DEF OtherTab, Tabs
  <2>8. posted' \in [Tabs -> Seq(Postings)]
    BY <2>5, <2>6, <2>7, <1>7, <1>12
  <2>9. posted'[OtherTab(s.tab)] = Append(posted[OtherTab(s.tab)], m)
    BY <2>5, <2>7, <1>7, <1>12
  <2>10. posted'[s.tab] = posted[s.tab]
    BY <2>7, <1>2, <1>7, <1>12 DEF OtherTab, Tabs
  <2>11. \A t \in Tabs : \A i \in DOMAIN posted[t] : i \in DOMAIN posted'[t] /\ posted'[t][i] = posted[t][i]
    <3>1. TAKE t \in Tabs
    <3>2. CASE t = s.tab
      BY <3>2, <2>10
    <3>3. CASE t # s.tab
      <4>1. posted'[t] = Append(posted[t], m) /\ posted[t] \in Seq(Postings)
        BY <3>3, <2>7, <2>9, <1>7
      <4> QED
        BY <4>1, <2>6
    <3> QED
      BY <3>2, <3>3
  <2>12. ASSUME NEW t \in Tabs PROVE Settles(t)'
    <3>1. SUFFICES ASSUME ~stumbled', ~misled', tabs'[t].user # Nobody PROVE Informed(t)'
      BY DEF Settles, Nobody
    <3>2. tabs'[t].user = tabs[t].user /\ tabs'[t].gen = tabs[t].gen
      BY <2>2, <2>4, <1>5
    <3>3. ~stumbled /\ ~misled /\ s.who = s.owner /\ ~(s.answer.rev < tab.rev)
      BY <3>1, <1>12
    <3>4. tab.user = s.owner
      BY <1>12 DEF Ignored
    <3>5. Informed(t)
      BY <3>1, <3>2, <3>3 DEF SettleInv, Settles
    <3> DEFINE now == prefs[tabs[t].user].rev
    <3>6. prefs'[tabs'[t].user].rev = now
      BY <3>2, <1>1
    <3>7. t = s.tab => now = prefs[s.who].rev
      BY <3>3, <3>4, <1>5
    <3> HIDE DEF now
    <3>8. CASE tabs[t].ready /\ tabs[t].rev = now
      <4>1. CASE t # s.tab
        BY <4>1, <3>6, <3>8, <2>4 DEF Informed
      <4>2. CASE t = s.tab
        <5>1. new.rev = now
          BY <4>2, <3>3, <3>7, <3>8, <2>2, <1>5, <1>10, <1>12
        <5> QED
          BY <4>2, <5>1, <3>6, <2>2, <2>4 DEF Informed
      <4> QED
        BY <4>1, <4>2
    <3>9. ASSUME NEW f \in fetches, f.tab = t, f.gen = tabs[t].gen, f.at = "asked" \/ f.rev = now PROVE Informed(t)'
      BY <3>2, <3>6, <3>9, <1>12 DEF Informed
    <3>10. ASSUME NEW i \in DOMAIN posted[t], posted[t][i].who = tabs[t].user, posted[t][i].rev = now PROVE Informed(t)'
      BY <3>2, <3>6, <3>10, <2>11 DEF Informed
    <3>11. ASSUME NEW x \in saves, x.awaited, x.at = "answered", x.who = tabs[t].user, x.answer.outcome = "success",
                  x.answer.rev = now
           PROVE  Informed(t)'
      <4>1. CASE x # s
        BY <4>1, <3>2, <3>6, <3>11, <1>1 DEF Informed
      <4>2. CASE x = s /\ t = s.tab
        <5>1. new.rev = now
          BY <4>2, <3>11, <2>2
        <5> QED
          BY <4>2, <5>1, <3>6, <2>2, <2>4 DEF Informed
      <4>3. CASE x = s /\ t # s.tab
        <5> DEFINE last == Len(posted[t]) + 1
        <5>1. posted'[t] = Append(posted[t], m) /\ posted[t] \in Seq(Postings)
          BY <4>3, <2>7, <2>9, <1>7
        <5>2. last \in DOMAIN posted'[t] /\ posted'[t][last] = m
          BY <5>1, <2>6
        <5>3. m.who = tabs'[t].user /\ m.rev = prefs'[tabs'[t].user].rev
          BY <4>3, <3>2, <3>3, <3>6, <3>11, <2>6
        <5> HIDE DEF last
        <5> QED
          BY <5>2, <5>3 DEF Informed
      <4> QED
        BY <4>1, <4>2, <4>3
    <3> QED
      BY <3>5, <3>8, <3>9, <3>10, <3>11 DEF Informed, now
  <2>13. \A t \in Tabs : TabWire(tabs'[t])
    BY <2>3, <2>4, <1>2, TabsAre
  <2>14. stumbled' \in BOOLEAN /\ (stumbled => stumbled')
    BY <1>7, <1>12
  <2>15. \A x \in saves' : SaveWire(x)'
    BY <2>14, <1>1, SavesWire DEF SettleInv
  <2> QED
    BY <2>8, <2>12, <2>13, <2>14, <2>15, <1>1, <1>7, <1>12, WiresKept
<1> QED
  BY <1>4, <1>8, <1>9, <1>11, <1>12 DEF saveAnswered

LEMMA SettleInitHolds == ASSUME PreferencesInit PROVE SettleInv
<1>1. WritesInv
  BY InitHolds
<1>2. /\ executed = {} /\ stumbled = FALSE /\ tabs = [t \in Tabs |-> Starting(1)] /\ saves = {}
      /\ posted = [t \in Tabs |-> <<>>]
      /\ fetches = {[tab |-> t, gen |-> 1, who |-> 1, at |-> "asked", rev |-> 0, items |-> <<>>, hid |-> {}] : t \in Tabs}
  BY DEF PreferencesInit
<1>3. /\ {"ready", "rev", "gen", "user"} \subseteq DOMAIN Starting(1) /\ Starting(1).ready = FALSE
      /\ Starting(1).rev = 0 /\ Starting(1).gen = 1
  BY DEF Starting
<1>4. \A t \in Tabs : tabs[t] = Starting(1)
  BY <1>2
<1>5. \A t \in Tabs : TabWire(tabs[t])
  BY <1>3, <1>4 DEF TabWire
<1>6. posted \in [Tabs -> Seq(Postings)]
  BY <1>2
<1>7. \A f \in fetches : f.at = "asked"
  BY <1>2
<1>8. ASSUME NEW t \in Tabs PROVE Informed(t)
  <2>1. PICK f \in fetches : f = [tab |-> t, gen |-> 1, who |-> 1, at |-> "asked", rev |-> 0, items |-> <<>>, hid |-> {}]
    BY <1>2
  <2>2. f.tab = t /\ f.gen = 1 /\ f.at = "asked"
    BY <2>1
  <2> QED
    BY <2>2, <1>3, <1>4 DEF Informed
<1> QED
  BY <1>1, <1>2, <1>5, <1>6, <1>7, <1>8 DEF SettleInv, WiresSound, Settles

LEMMA SettleStepKeeps == ASSUME SettleInv, [PreferencesNext]_prefVars PROVE SettleInv'
<1>1. WritesInv'
  BY StepKeeps DEF SettleInv
<1>2. SUFFICES WiresSound' /\ \A t \in Tabs : Settles(t)'
  BY <1>1 DEF SettleInv, Settles, Tabs, Nobody
<1>3. CASE UNCHANGED prefVars
  BY <1>3, QuietSettles
<1>4. ASSUME NEW t0 \in Tabs,
             \/ Authenticated(t0) \/ Click(t0, budget.targets) \/ ClickRejected(t0)
             \/ LoadsFirst(t0) \/ Save(t0) \/ Hear(t0)
      PROVE  WiresSound' /\ \A t \in Tabs : Settles(t)'
  BY <1>4, AuthenticatedSettles, QuietSettles, LoadsFirstSettles, SaveSettles, HearSettles
<1>5. ASSUME NEW f \in fetches, ReadPreferences(f) \/ Loaded(f) \/ LoadFails(f)
      PROVE  WiresSound' /\ \A t \in Tabs : Settles(t)'
  BY <1>5, ReadPreferencesSettles, LoadedSettles, LoadFailsSettles
<1>6. ASSUME NEW s \in saves, Execute(s) \/ saveAnswered(s) \/ AnswerLost(s) \/ RequestLost(s)
      PROVE  WiresSound' /\ \A t \in Tabs : Settles(t)'
  BY <1>6, ExecuteSettles, SaveAnsweredSettles, AnswerLostSettles, QuietSettles
<1>7. CASE Regrouped
  BY <1>7, QuietSettles
<1> QED
  BY <1>3, <1>4, <1>5, <1>6, <1>7 DEF PreferencesNext

\* At rest nothing is on the way any more: what is left is that the tab shows the document.
LEMMA AtRestShown == ASSUME SettleInv PROVE PreferencesSettle
<1> SUFFICES ASSUME saves = {}, fetches = {}, ~stumbled, ~misled, \A t \in Tabs : posted[t] = <<>>,
                    NEW t \in Tabs, tabs[t].user # Nobody
             PROVE  /\ tabs[t].ready /\ tabs[t].id = tabs[t].user /\ tabs[t].rev = prefs[tabs[t].user].rev
                    /\ tabs[t].items = Displayed(prefs[tabs[t].user].items, tabs[t].hid)
  BY DEF PreferencesSettle
<1>1. Informed(t)
  BY DEF SettleInv, Settles
<1>2. tabs[t].ready /\ tabs[t].rev = prefs[tabs[t].user].rev
  BY <1>1 DEF Informed
<1>3. tabs[t].id = tabs[t].user /\ Knows(tabs[t].rev, tabs[t].items, tabs[t].user, tabs[t].hid)
  BY TabsAre DEF TabSound
<1> QED
  BY <1>2, <1>3 DEF Knows

\* At rest every tab shows the document of its person, with its revision (favorites.js, startPreference.js).
THEOREM PagesShowPreferences == PreferencesSpec => []PreferencesSettle
<1>1. PreferencesInit => SettleInv
  BY SettleInitHolds
<1>2. SettleInv /\ [PreferencesNext]_prefVars => SettleInv'
  BY SettleStepKeeps
<1>3. SettleInv => PreferencesSettle
  BY AtRestShown
<1> QED
  BY <1>1, <1>2, <1>3, PTL DEF PreferencesSpec

\* Both together: no change of a list or a start page is overwritten unseen, and what was written is shown at rest.
THEOREM PreferencesAreKept == PreferencesSpec => PreferencesKept
BY WritesAreSeen, PagesShowPreferences DEF PreferencesKept

-----------------------------------------------------------------------------
(* Comments: what was written once is said once.                           *)

AddKey(e) == <<"add", e, 0, "">>

TalkTyped ==
  /\ \A e \in DOMAIN talk : talk[e] \in Seq(Comments)
  /\ "draft" \in DOMAIN left /\ left.draft \in Nat /\ left.draft > 0

\* A comment of the page's person that is still there, came from a draft and was not answered with an error that
\* gave its id up.
Drafted(e, c) == c \in Kept(e) /\ talk[e][c].by = 1 /\ talk[e][c].text > 0 /\ talk[e][c].op \notin doubtful

\* A request of the page that writes, with its key and, for a comment to add, its retained payload.
ChangeSound(x) ==
  /\ {"key", "w", "phase", "at", "data"} \subseteq DOMAIN x
  /\ x.w.by = 1 /\ x.w.e \in DOMAIN talk /\ x.w.op \in Nat
  /\ x.w.kind \in {"edit", "delete", "moderate"} => x.w.c \in DOMAIN talk[x.w.e]
  /\ x.w.kind = "edit" => x.w.value = -1
  /\ x.w.kind = "moderate" => x.w.value \in {"visible", "under_review"}
  /\ x.w.kind \in {"add", "edit", "delete", "moderate", "react"}
  /\ IF x.w.kind = "add"
     THEN /\ x.key = AddKey(x.w.e) /\ x.key \in DOMAIN kept
          /\ kept[x.key].op = x.w.op /\ kept[x.key].value = x.w.value /\ x.w.value \in Nat
          /\ x.phase = "refused" => \A c \in Kept(x.w.e) : Drafted(x.w.e, c) => talk[x.w.e][c].text # x.w.value
     ELSE \A e \in DOMAIN talk : x.key # AddKey(e)

\* An entry says each draft once; the present draft only while its payload is retained, under its operation id.
EntrySound(e) ==
  /\ AddKey(e) \in DOMAIN kept => kept[AddKey(e)].value \in 1..left.draft
  /\ \A c \in Kept(e) : Drafted(e, c) =>
       /\ talk[e][c].text \in 1..left.draft
       /\ talk[e][c].text = left.draft => AddKey(e) \in DOMAIN kept /\ kept[AddKey(e)].value = left.draft
       /\ (AddKey(e) \in DOMAIN kept /\ kept[AddKey(e)].value = talk[e][c].text) =>
             talk[e][c].op = kept[AddKey(e)].op /\ kept[AddKey(e)].op \in DOMAIN done
       /\ \A d \in Kept(e) : Drafted(e, d) /\ talk[e][d].text = talk[e][c].text => c = d

SaidInv ==
  /\ TalkTyped
  /\ \A x \in changes : ChangeSound(x)
  /\ \A x, y \in changes : x.key = y.key => x = y
  /\ \A e \in DOMAIN talk : EntrySound(e)

\* Operation ids are numbers, those the page retained and the next one.
IdsSound ==
  /\ "ops" \in DOMAIN left /\ left.ops \in Nat
  /\ \A k \in DOMAIN kept : "op" \in DOMAIN kept[k] /\ kept[k].op \in Nat

-----------------------------------------------------------------------------
(* A write of the store.                                                   *)

\* What a write request names exists, and its values are those of its kind.
WriteSound(w) ==
  /\ w.e \in DOMAIN talk /\ w.by \in People /\ w.op \in Nat
  /\ w.kind \in {"edit", "delete", "moderate"} => w.c \in DOMAIN talk[w.e]
  /\ w.kind = "edit" => w.value = -1
  /\ w.kind = "moderate" => w.value \in {"visible", "under_review"}
  /\ w.kind = "add" => w.value \in Nat

\* A comment with a draft's text is one that was there, or the one that the write added.
Comes(w) ==
  \A e \in DOMAIN talk : \A c \in Kept(e)' : Drafted(e, c)' =>
    \/ Drafted(e, c) /\ talk'[e][c].text = talk[e][c].text /\ talk'[e][c].op = talk[e][c].op
    \/ w.kind = "add" /\ w.by = 1 /\ e = w.e /\ c = Len(talk[e]) + 1 /\ talk'[e][c].text = w.value /\ talk'[e][c].op = w.op

Grows ==
  /\ DOMAIN talk' = DOMAIN talk
  /\ \A e \in DOMAIN talk : talk'[e] \in Seq(Comments) /\ DOMAIN talk[e] \subseteq DOMAIN talk'[e]

LEMMA ReplacedOne ==
  ASSUME TalkTyped, UNCHANGED doubtful, NEW w, NEW e0 \in DOMAIN talk, NEW c0 \in DOMAIN talk[e0], NEW new \in Comments,
         talk' = [talk EXCEPT ![e0] = [talk[e0] EXCEPT ![c0] = new]],
         (new.by = 1 /\ new.text > 0 /\ new.status # "deleted") =>
            (talk[e0][c0].by = 1 /\ talk[e0][c0].text = new.text /\ talk[e0][c0].op = new.op /\ talk[e0][c0].status # "deleted")
  PROVE  Grows /\ Comes(w)
  <1>1. talk[e0] \in Seq(Comments)  BY DEF TalkTyped
  <1>2. DOMAIN talk' = DOMAIN talk /\ \A e \in DOMAIN talk : e # e0 => talk'[e] = talk[e]  OBVIOUS
  <1> DEFINE list == [talk[e0] EXCEPT ![c0] = new]
  <1>3. talk'[e0] = list  OBVIOUS
  <1>4. DOMAIN list = DOMAIN talk[e0] /\ list[c0] = new /\ \A c \in DOMAIN talk[e0] : c # c0 => list[c] = talk[e0][c]
    OBVIOUS
  <1>5. list \in Seq(Comments)
    <2>1. c0 \in 1..Len(talk[e0])  BY <1>1
    <2> QED  BY <1>1, <2>1, ExceptSeq
  <1> HIDE DEF list
  <1>6. Grows
    <2>1. \A e \in DOMAIN talk : talk'[e] \in Seq(Comments) /\ DOMAIN talk[e] \subseteq DOMAIN talk'[e]
      <3> TAKE e \in DOMAIN talk
      <3>1. CASE e = e0  BY <3>1, <1>3, <1>4, <1>5
      <3>2. CASE e # e0  BY <3>2, <1>2 DEF TalkTyped
      <3> QED  BY <3>1, <3>2
    <2> QED  BY <2>1, <1>2 DEF Grows
  <1>7. ASSUME NEW e \in DOMAIN talk, NEW c \in Kept(e)', Drafted(e, c)'
        PROVE  Drafted(e, c) /\ talk'[e][c].text = talk[e][c].text /\ talk'[e][c].op = talk[e][c].op
    <2>1. c \in DOMAIN talk'[e] /\ talk'[e][c].status # "deleted" /\ talk'[e][c].by = 1 /\ talk'[e][c].text > 0
          /\ talk'[e][c].op \notin doubtful
      BY <1>7 DEF Kept, Drafted
    <2>2. CASE e = e0 /\ c = c0
      <3>1. talk'[e][c] = new  BY <2>2, <1>3, <1>4
      <3> QED  BY <2>1, <2>2, <3>1 DEF Drafted, Kept
    <2>3. CASE ~(e = e0 /\ c = c0)
      <3>1. c \in DOMAIN talk[e] /\ talk'[e][c] = talk[e][c]  BY <2>1, <2>3, <1>2, <1>3, <1>4
      <3> QED  BY <2>1, <3>1 DEF Drafted, Kept
    <2> QED  BY <2>2, <2>3
  <1> QED  BY <1>6, <1>7 DEF Comes

LEMMA PutGrows ==
  ASSUME TalkTyped, UNCHANGED doubtful, NEW w, WriteSound(w), ~Refused(w), Put(w)
  PROVE  Grows /\ Comes(w)
  <1>1. \A e \in DOMAIN talk : talk[e] \in Seq(Comments)  BY DEF TalkTyped
  <1>2. w.e \in DOMAIN talk  BY DEF WriteSound
  <1>3. CASE w.kind = "add"
    <2>1. PICK new : new = [by |-> w.by, text |-> w.value, status |-> "visible", op |-> w.op]  OBVIOUS
    <2>2. new \in Comments  BY <2>1, <1>3 DEF Comments, WriteSound, People
    <2>3. talk' = [talk EXCEPT ![w.e] = Append(talk[w.e], new)]  BY <1>3, <2>1 DEF Put
    <2>4. /\ DOMAIN talk' = DOMAIN talk /\ talk'[w.e] = Append(talk[w.e], new)
          /\ \A e \in DOMAIN talk : e # w.e => talk'[e] = talk[e]  BY <2>3, <1>2
    <2>5. /\ Append(talk[w.e], new) \in Seq(Comments) /\ Len(talk[w.e]) \in Nat
          /\ DOMAIN Append(talk[w.e], new) = 1..(Len(talk[w.e]) + 1) /\ DOMAIN talk[w.e] = 1..Len(talk[w.e])
          /\ Append(talk[w.e], new)[Len(talk[w.e]) + 1] = new
          /\ \A c \in 1..Len(talk[w.e]) : Append(talk[w.e], new)[c] = talk[w.e][c]
      BY <1>1, <1>2, <2>2
    <2>6. Grows
      <3>1. \A e \in DOMAIN talk : talk'[e] \in Seq(Comments) /\ DOMAIN talk[e] \subseteq DOMAIN talk'[e]
        <4> TAKE e \in DOMAIN talk
        <4>1. CASE e = w.e  BY <4>1, <2>4, <2>5
        <4>2. CASE e # w.e  BY <4>2, <2>4, <1>1
        <4> QED  BY <4>1, <4>2
      <3> QED  BY <3>1, <2>4 DEF Grows
    <2>7. ASSUME NEW e \in DOMAIN talk, NEW c \in Kept(e)', Drafted(e, c)'
          PROVE  \/ Drafted(e, c) /\ talk'[e][c].text = talk[e][c].text /\ talk'[e][c].op = talk[e][c].op
                 \/ w.by = 1 /\ e = w.e /\ c = Len(talk[e]) + 1 /\ talk'[e][c].text = w.value /\ talk'[e][c].op = w.op
      <3>1. c \in DOMAIN talk'[e] /\ talk'[e][c].status # "deleted" /\ talk'[e][c].by = 1 /\ talk'[e][c].text > 0
            /\ talk'[e][c].op \notin doubtful
        BY <2>7 DEF Kept, Drafted
      <3>2. CASE e = w.e /\ c = Len(talk[w.e]) + 1
        <4>1. talk'[e][c] = new  BY <3>2, <2>4, <2>5
        <4> QED  BY <3>1, <3>2, <4>1, <2>1
      <3>3. CASE ~(e = w.e /\ c = Len(talk[w.e]) + 1)
        <4>1. c \in DOMAIN talk[e] /\ talk'[e][c] = talk[e][c]
          <5>1. CASE e = w.e  BY <5>1, <3>1, <3>3, <2>4, <2>5
          <5>2. CASE e # w.e  BY <5>2, <3>1, <2>4
          <5> QED  BY <5>1, <5>2
        <4> QED  BY <3>1, <4>1 DEF Drafted, Kept
      <3> QED  BY <3>2, <3>3
    <2> QED  BY <2>6, <2>7, <1>3 DEF Comes
  <1>4. CASE w.kind \in {"edit", "delete", "moderate"}
    <2>1. w.c \in DOMAIN talk[w.e]  BY <1>4 DEF WriteSound
    <2>2. PICK old : old = talk[w.e][w.c]  OBVIOUS
    <2>3. old \in Comments
      <3>1. talk[w.e] \in Seq(Comments)  BY <1>1, <1>2
      <3> QED  BY <2>1, <2>2, <3>1
    <2>4. old.status # "deleted"  BY <1>4, <2>2 DEF Refused, Comment
    <2>5. CASE w.kind = "edit"
      <3>1. PICK new : new = [old EXCEPT !.text = w.value]  OBVIOUS
      <3>2. new \in Comments /\ new.text = -1  BY <2>3, <2>5, <3>1 DEF Comments, WriteSound
      <3>3. talk' = [talk EXCEPT ![w.e] = [talk[w.e] EXCEPT ![w.c] = new]]  BY <2>5, <3>1, <2>2 DEF Put
      <3>4. ~(new.text > 0)  BY <3>2
      <3> QED  BY <1>2, <2>1, <3>2, <3>3, <3>4, ReplacedOne
    <2>6. CASE w.kind = "delete"
      <3>1. PICK new : new = [old EXCEPT !.by = 0, !.text = 0, !.status = "deleted"]  OBVIOUS
      <3>2. new \in Comments /\ new.status = "deleted"
        <4>1. old.op \in Nat /\ DOMAIN old = {"by", "text", "status", "op"}  BY <2>3 DEF Comments
        <4>2. new = [by |-> 0, text |-> 0, status |-> "deleted", op |-> old.op]  BY <2>3, <3>1 DEF Comments
        <4> QED  BY <4>1, <4>2 DEF Comments
      <3>3. talk' = [talk EXCEPT ![w.e] = [talk[w.e] EXCEPT ![w.c] = new]]  BY <2>6, <3>1, <2>2 DEF Put
      <3> QED  BY <1>2, <2>1, <3>2, <3>3, ReplacedOne
    <2>7. CASE w.kind = "moderate"
      <3>1. PICK new : new = [old EXCEPT !.status = w.value]  OBVIOUS
      <3>2. new \in Comments /\ new.text = old.text /\ new.by = old.by /\ new.op = old.op
        BY <2>3, <2>7, <3>1 DEF Comments, WriteSound
      <3>3. talk' = [talk EXCEPT ![w.e] = [talk[w.e] EXCEPT ![w.c] = new]]  BY <2>7, <3>1, <2>2 DEF Put
      <3> QED  BY <1>2, <2>1, <2>2, <2>4, <3>2, <3>3, ReplacedOne
    <2> QED  BY <1>4, <2>5, <2>6, <2>7
  <1>5. CASE w.kind \notin {"add", "edit", "delete", "moderate"}
    <2>1. talk' = talk  BY <1>5 DEF Put
    <2> QED  BY <2>1, <1>1 DEF Grows, Comes, Drafted, Kept
  <1> QED  BY <1>3, <1>4, <1>5

-----------------------------------------------------------------------------
(* The steps.                                                              *)

\* Steps that touch neither comments nor retained payloads nor requests that write.
LEMMA SaidQuiet ==
  ASSUME SaidInv, UNCHANGED <<talk, done, kept, changes, doubtful>>,
         "draft" \in DOMAIN left', left'.draft = left.draft
  PROVE  SaidInv'
  <1>1. TalkTyped'  BY DEF SaidInv, TalkTyped
  <1>2. \A x : ChangeSound(x) => ChangeSound(x)'
    BY DEF ChangeSound, AddKey, Kept, Drafted
  <1>3. \A e \in DOMAIN talk : EntrySound(e) => EntrySound(e)'
    <2> TAKE e \in DOMAIN talk
    <2>1. Kept(e)' = Kept(e) /\ AddKey(e)' = AddKey(e)  BY DEF Kept, AddKey
    <2>2. \A c : Drafted(e, c)' <=> Drafted(e, c)  BY <2>1 DEF Drafted
    <2>3. talk'[e] = talk[e]  OBVIOUS
    <2> QED  BY <2>1, <2>2, <2>3 DEF EntrySound
  <1>4. \A x \in changes' : ChangeSound(x)'  BY <1>2 DEF SaidInv
  <1>5. \A x, y \in changes' : x.key = y.key => x = y  BY DEF SaidInv
  <1>6. \A e \in DOMAIN talk' : EntrySound(e)'  BY <1>3 DEF SaidInv
  <1> QED  BY <1>1, <1>4, <1>5, <1>6 DEF SaidInv

LEMMA TakeKeepsDraft ==
  ASSUME SaidInv, NEW what, what # "draft", Take(what)
  PROVE  "draft" \in DOMAIN left' /\ left'.draft = left.draft
  BY DEF SaidInv, TalkTyped, Take

LEMMA PressKeepsDraft ==
  ASSUME SaidInv, PressAgain
  PROVE  "draft" \in DOMAIN left' /\ left'.draft = left.draft
  BY DEF SaidInv, TalkTyped, PressAgain

QuietStep ==
  \/ \E a \in announcing : Announce(a)
  \/ Resubscribed \/ HistoryEvent
  \/ \E append \in BOOLEAN : loadCompetitionHistory(append)
  \/ openCompetitionHistory \/ closeCompetitionHistory
  \/ \E e \in HistoryEvents : openComments(e)
  \/ closeComments \/ OlderComments
  \/ \E r \in reads : ReadRows(r) \/ ReadRevision(r) \/ FeedLoaded(r) \/ EntryRefreshed(r) \/ CommentsLoaded(r) \/ ReadFails(r)
  \/ UNCHANGED historyVars

LEMMA QuietKeepsSaid == ASSUME SaidInv, QuietStep  PROVE SaidInv'
  <1>1. UNCHANGED <<talk, done, kept, changes, doubtful>>
    BY DEF QuietStep, Announce, Resubscribed, HistoryEvent, loadCompetitionHistory, openCompetitionHistory,
           closeCompetitionHistory, openComments, closeComments, OlderComments, ReadRows, ReadRevision, FeedLoaded,
           EntryRefreshed, CommentsLoaded, ReadFails, historyVars, storeVars, pageVars
  <1>2. left' = left \/ Take("faults") \/ Take("opens") \/ Take("threads")
    BY DEF QuietStep, Announce, Resubscribed, HistoryEvent, loadCompetitionHistory, openCompetitionHistory,
           closeCompetitionHistory, openComments, closeComments, OlderComments, ReadRows, ReadRevision, FeedLoaded,
           EntryRefreshed, CommentsLoaded, ReadFails, historyVars, storeVars, pageVars
  <1>3. "draft" \in DOMAIN left' /\ left'.draft = left.draft
    <2>1. "draft" \in DOMAIN left  BY DEF SaidInv, TalkTyped
    <2> QED  BY <1>2, <2>1, TakeKeepsDraft
  <1> QED  BY <1>1, <1>3, SaidQuiet

\* Comments change, and at most the committed ids with them, while what the page retains stays.
LEMMA StoreChanges ==
  ASSUME SaidInv, NEW w, WriteSound(w), ~Refused(w), Put(w), UNCHANGED <<kept, doubtful>>,
         "draft" \in DOMAIN left', left'.draft = left.draft, DOMAIN done \subseteq DOMAIN done',
         (w.kind = "add" /\ w.by = 1) =>
            /\ AddKey(w.e) \in DOMAIN kept /\ kept[AddKey(w.e)].op = w.op /\ kept[AddKey(w.e)].value = w.value
            /\ w.op \notin DOMAIN done /\ w.op \in DOMAIN done'
  PROVE  TalkTyped' /\ Grows /\ Comes(w) /\ (\A e \in DOMAIN talk' : EntrySound(e)')
  <1>1. TalkTyped  BY DEF SaidInv
  <1>2. Grows /\ Comes(w)  BY <1>1, PutGrows
  <1>3. TalkTyped'  BY <1>1, <1>2 DEF TalkTyped, Grows
  <1>4. ASSUME NEW e \in DOMAIN talk'  PROVE EntrySound(e)'
    <2>1. e \in DOMAIN talk /\ EntrySound(e)  BY <1>2, <1>4 DEF Grows, SaidInv
    <2>2. AddKey(e) \in DOMAIN kept => kept[AddKey(e)].value \in 1..left.draft  BY <2>1 DEF EntrySound
    <2> DEFINE Old(c) == Drafted(e, c) /\ talk'[e][c].text = talk[e][c].text /\ talk'[e][c].op = talk[e][c].op
               New(c) == w.kind = "add" /\ w.by = 1 /\ e = w.e /\ c = Len(talk[e]) + 1
                         /\ talk'[e][c].text = w.value /\ talk'[e][c].op = w.op
    <2>3. \A c \in Kept(e)' : Drafted(e, c)' => Old(c) \/ New(c)  BY <1>2, <2>1 DEF Comes
    <2>4. \A c \in Kept(e) : Drafted(e, c) =>
            /\ talk[e][c].text \in 1..left.draft
            /\ talk[e][c].text = left.draft => AddKey(e) \in DOMAIN kept /\ kept[AddKey(e)].value = left.draft
            /\ (AddKey(e) \in DOMAIN kept /\ kept[AddKey(e)].value = talk[e][c].text) =>
                  talk[e][c].op = kept[AddKey(e)].op /\ kept[AddKey(e)].op \in DOMAIN done
            /\ \A d \in Kept(e) : Drafted(e, d) /\ talk[e][d].text = talk[e][c].text => c = d
      BY <2>1 DEF EntrySound
    <2>5. \A c \in Kept(e) : Drafted(e, c) /\ w.kind = "add" /\ w.by = 1 /\ e = w.e => talk[e][c].text # w.value
      BY <2>4
    <2>6. \A c : Drafted(e, c) => c \in Kept(e)  BY DEF Drafted
    <2>7. \A c \in Kept(e)' : Drafted(e, c)' =>
            /\ talk'[e][c].text \in 1..left.draft
            /\ talk'[e][c].text = left.draft => AddKey(e) \in DOMAIN kept /\ kept[AddKey(e)].value = left.draft
            /\ (AddKey(e) \in DOMAIN kept /\ kept[AddKey(e)].value = talk'[e][c].text) =>
                  talk'[e][c].op = kept[AddKey(e)].op /\ kept[AddKey(e)].op \in DOMAIN done'
      <3> TAKE c \in Kept(e)'
      <3> HAVE Drafted(e, c)'
      <3>1. CASE Old(c)  BY <3>1, <2>4, <2>6
      <3>2. CASE New(c)  BY <3>2, <2>2
      <3> QED  BY <2>3, <3>1, <3>2
    <2>8. \A c, d \in Kept(e)' : Drafted(e, c)' /\ Drafted(e, d)' /\ talk'[e][d].text = talk'[e][c].text => c = d
      <3> TAKE c, d \in Kept(e)'
      <3> HAVE Drafted(e, c)' /\ Drafted(e, d)' /\ talk'[e][d].text = talk'[e][c].text
      <3>1. CASE Old(c) /\ Old(d)  BY <3>1, <2>4, <2>6
      <3>2. CASE Old(c) /\ New(d)  BY <3>2, <2>5, <2>6
      <3>3. CASE New(c) /\ Old(d)  BY <3>3, <2>5, <2>6
      <3>4. CASE New(c) /\ New(d)  BY <3>4
      <3> QED  BY <2>3, <3>1, <3>2, <3>3, <3>4
    <2> HIDE DEF Old, New
    <2>9. AddKey(e)' = AddKey(e)  BY DEF AddKey
    <2> QED  BY <2>2, <2>7, <2>8, <2>9 DEF EntrySound
  <1> QED  BY <1>2, <1>3, <1>4

\* A request that writes stays sound while others' writes go through.
LEMMA ChangeKept ==
  ASSUME SaidInv, NEW w, Grows, Comes(w), UNCHANGED <<kept, doubtful>>, NEW x, ChangeSound(x),
         (w.kind = "add" /\ w.by = 1 /\ x.w.kind = "add" /\ x.w.e = w.e) => x.phase # "refused"
  PROVE  ChangeSound(x)'
  <1>1. x.w.e \in DOMAIN talk  BY DEF ChangeSound
  <1>2. DOMAIN talk' = DOMAIN talk /\ DOMAIN talk[x.w.e] \subseteq DOMAIN talk'[x.w.e]  BY <1>1 DEF Grows
  <1>3. ASSUME x.w.kind = "add", x.phase = "refused", NEW c \in Kept(x.w.e)', Drafted(x.w.e, c)'
        PROVE  talk'[x.w.e][c].text # x.w.value
    <2>1. Drafted(x.w.e, c) /\ talk'[x.w.e][c].text = talk[x.w.e][c].text  BY <1>1, <1>3 DEF Comes
    <2>2. c \in Kept(x.w.e)  BY <2>1 DEF Drafted
    <2> QED  BY <1>3, <2>1, <2>2 DEF ChangeSound
  <1>4. \A e : AddKey(e)' = AddKey(e)  BY DEF AddKey
  <1> QED  BY <1>1, <1>2, <1>3, <1>4 DEF ChangeSound

LEMMA ByOthersKeepsSaid ==
  ASSUME SaidInv, NEW w, WriteSound(w), w.by = 2, ByOthers(w)
  PROVE  SaidInv'
  <1>1. ~Refused(w) /\ Put(w) /\ UNCHANGED <<kept, doubtful, done, changes>>  BY DEF ByOthers, pageVars
  <1>2. "draft" \in DOMAIN left' /\ left'.draft = left.draft  BY TakeKeepsDraft DEF ByOthers
  <1>3. DOMAIN done \subseteq DOMAIN done'  BY <1>1
  <1>4. TalkTyped' /\ Grows /\ Comes(w) /\ (\A e \in DOMAIN talk' : EntrySound(e)')
    BY <1>1, <1>2, <1>3, StoreChanges
  <1>5. \A x \in changes' : ChangeSound(x)'  BY <1>1, <1>4, ChangeKept DEF SaidInv
  <1>6. \A x, y \in changes' : x.key = y.key => x = y  BY <1>1 DEF SaidInv
  <1> QED  BY <1>4, <1>5, <1>6 DEF SaidInv

LEMMA MovedKeepsSaid ==
  ASSUME SaidInv, NEW x \in changes, NEW new, changes' = (changes \ {x}) \cup {new}, new.key = x.key, ChangeSound(new)',
         \A y \in changes : y # x => ChangeSound(y)',
         TalkTyped', \A e \in DOMAIN talk' : EntrySound(e)'
  PROVE  SaidInv'
  <1>1. \A y \in changes' : ChangeSound(y)'  OBVIOUS
  <1>2. \A y, z \in changes' : y.key = z.key => y = z
    <2>1. \A y, z \in changes : y.key = z.key => y = z  BY DEF SaidInv
    <2> QED  BY <2>1
  <1> QED  BY <1>1, <1>2 DEF SaidInv

\* The same request in another phase.
SameRequest(new, x, phase) ==
  {"key", "w", "phase", "at", "data"} \subseteq DOMAIN new /\ new.key = x.key /\ new.w = x.w /\ new.phase = phase

LEMMA MovedSame ==
  ASSUME NEW x, ChangeSound(x), NEW phase, NEW at, NEW data, Moved(x, phase, at, data)
  PROVE  \E new : SameRequest(new, x, phase) /\ changes' = (changes \ {x}) \cup {new}
  <1>1. SameRequest([x EXCEPT !.phase = phase, !.at = at, !.data = data], x, phase)  BY DEF SameRequest, ChangeSound
  <1> QED  BY <1>1 DEF Moved

LEMMA SameRequestSound ==
  ASSUME NEW x, ChangeSound(x)', NEW new, NEW phase, SameRequest(new, x, phase),
         (x.w.kind = "add" /\ phase = "refused") =>
            \A c \in Kept(x.w.e)' : Drafted(x.w.e, c)' => talk'[x.w.e][c].text # x.w.value
  PROVE  ChangeSound(new)'
  BY DEF ChangeSound, SameRequest, Kept, Drafted, AddKey

LEMMA ChangeWrites ==
  ASSUME NEW x, ChangeSound(x)
  PROVE  WriteSound(x.w)
  BY DEF ChangeSound, WriteSound, People

\* Steps that leave comments and retained payloads alone, and at most commit an id.
LEMMA CommentsStay ==
  ASSUME SaidInv, UNCHANGED <<talk, kept, doubtful, left>>, DOMAIN done \subseteq DOMAIN done'
  PROVE  /\ \A y : ChangeSound(y) => ChangeSound(y)'
         /\ TalkTyped' /\ (\A e \in DOMAIN talk' : EntrySound(e)')
  <1>1. TalkTyped'  BY DEF SaidInv, TalkTyped
  <1>2. \A e : EntrySound(e) => EntrySound(e)'
    <2> TAKE e
    <2>1. Kept(e)' = Kept(e) /\ AddKey(e)' = AddKey(e)  BY DEF Kept, AddKey
    <2>2. \A c : Drafted(e, c)' <=> Drafted(e, c)  BY <2>1 DEF Drafted
    <2>3. talk'[e] = talk[e]  OBVIOUS
    <2> QED  BY <2>1, <2>2, <2>3 DEF EntrySound
  <1>3. \A y : ChangeSound(y) => ChangeSound(y)'  BY DEF ChangeSound, AddKey, Kept, Drafted
  <1> QED  BY <1>1, <1>2, <1>3 DEF SaidInv

LEMMA ExecutedKeepsSaid == ASSUME SaidInv, NEW x \in changes, Executed(x)  PROVE SaidInv'
  <1>1. UNCHANGED <<kept, doubtful, left>>  BY DEF Executed, pageVars
  <1>2. ChangeSound(x) /\ x.phase = "sent"  BY DEF SaidInv, Executed
  <1>3. "draft" \in DOMAIN left' /\ left'.draft = left.draft  BY <1>1 DEF SaidInv, TalkTyped
  <1>4. \A y \in changes : ChangeSound(y)  BY DEF SaidInv
  <1>5. CASE UNCHANGED <<talk, done>> /\ Moved(x, "committed", history', <<>>)
    <2>1. PICK new : SameRequest(new, x, "committed") /\ changes' = (changes \ {x}) \cup {new}  BY <1>2, <1>5, MovedSame
    <2>2. /\ \A y : ChangeSound(y) => ChangeSound(y)'
          /\ TalkTyped' /\ (\A e \in DOMAIN talk' : EntrySound(e)')
      BY <1>1, <1>5, CommentsStay
    <2>3. ChangeSound(new)'  BY <1>2, <2>1, <2>2, SameRequestSound
    <2>5. new.key = x.key  BY <2>1 DEF SameRequest
    <2> QED  BY <1>4, <2>1, <2>2, <2>3, <2>5, MovedKeepsSaid
  <1>6. CASE /\ x.w.op \notin DOMAIN done /\ ~Refused(x.w) /\ Changed(x.w)
             /\ Put(x.w) /\ Moved(x, "committed", history', <<>>)
             /\ done' = [o \in DOMAIN done \cup {x.w.op} |-> IF o = x.w.op THEN Changed(x.w) ELSE done[o]]
    <2>1. WriteSound(x.w)  BY <1>2, ChangeWrites
    <2>2. PICK new : SameRequest(new, x, "committed") /\ changes' = (changes \ {x}) \cup {new}  BY <1>2, <1>6, MovedSame
    <2>3. DOMAIN done \subseteq DOMAIN done' /\ x.w.op \in DOMAIN done'  BY <1>6
    <2>4. x.w.kind = "add" => /\ AddKey(x.w.e) \in DOMAIN kept /\ kept[AddKey(x.w.e)].op = x.w.op
                              /\ kept[AddKey(x.w.e)].value = x.w.value
      BY <1>2 DEF ChangeSound
    <2>5. TalkTyped' /\ Grows /\ Comes(x.w) /\ (\A e \in DOMAIN talk' : EntrySound(e)')
      BY <1>1, <1>3, <1>6, <2>1, <2>3, <2>4, StoreChanges
    <2>6. ASSUME NEW y \in changes  PROVE ChangeSound(y)'
      <3>1. ASSUME x.w.kind = "add", y.w.kind = "add", y.w.e = x.w.e  PROVE y.phase # "refused"
        <4>1. y.key = x.key  BY <3>1, <1>2, <1>4 DEF ChangeSound
        <4>2. y = x  BY <4>1 DEF SaidInv
        <4> QED  BY <4>2, <1>2
      <3> QED  BY <1>1, <1>4, <2>5, <3>1, ChangeKept
    <2>7. ChangeSound(new)'  BY <2>2, <2>6, SameRequestSound
    <2>8. new.key = x.key  BY <2>2 DEF SameRequest
    <2> QED  BY <2>2, <2>5, <2>6, <2>7, <2>8, MovedKeepsSaid
  <1>7. CASE /\ x.w.op \notin DOMAIN done /\ ~Changed(x.w) /\ UNCHANGED talk /\ Moved(x, "committed", history', <<>>)
             /\ done' = [o \in DOMAIN done \cup {x.w.op} |-> IF o = x.w.op THEN Changed(x.w) ELSE done[o]]
    <2>1. PICK new : SameRequest(new, x, "committed") /\ changes' = (changes \ {x}) \cup {new}  BY <1>2, <1>7, MovedSame
    <2>2. /\ \A y : ChangeSound(y) => ChangeSound(y)'
          /\ TalkTyped' /\ (\A e \in DOMAIN talk' : EntrySound(e)')
      BY <1>1, <1>7, CommentsStay
    <2>3. ChangeSound(new)'  BY <1>2, <2>1, <2>2, SameRequestSound
    <2>5. new.key = x.key  BY <2>1 DEF SameRequest
    <2> QED  BY <1>4, <2>1, <2>2, <2>3, <2>5, MovedKeepsSaid
  <1>8. CASE Refused(x.w) /\ UNCHANGED <<talk, done>> /\ Moved(x, "refused", -1, <<>>)
    <2>1. PICK new : SameRequest(new, x, "refused") /\ changes' = (changes \ {x}) \cup {new}  BY <1>2, <1>8, MovedSame
    <2>2. /\ \A y : ChangeSound(y) => ChangeSound(y)'
          /\ TalkTyped' /\ (\A e \in DOMAIN talk' : EntrySound(e)')
      BY <1>1, <1>8, CommentsStay
    <2>3. x.w.kind # "add"  BY <1>8 DEF Refused
    <2>4. ChangeSound(new)'  BY <1>2, <2>1, <2>2, <2>3, SameRequestSound
    <2>6. new.key = x.key  BY <2>1 DEF SameRequest
    <2> QED  BY <1>4, <2>1, <2>2, <2>4, <2>6, MovedKeepsSaid
  <1>9. Refused(x.w) /\ x.w.op \notin DOMAIN done => UNCHANGED <<talk, done>> /\ Moved(x, "refused", -1, <<>>)
    BY DEF Executed, storeVars
  <1>10. x.w.op \in DOMAIN done => UNCHANGED <<talk, done>> /\ Moved(x, "committed", history', <<>>)
    BY DEF Executed, Commit, storeVars
  <1>11. ~Refused(x.w) /\ x.w.op \notin DOMAIN done =>
           /\ Moved(x, "committed", history', <<>>)
           /\ done' = [o \in DOMAIN done \cup {x.w.op} |-> IF o = x.w.op THEN Changed(x.w) ELSE done[o]]
           /\ IF Changed(x.w) THEN Put(x.w) ELSE UNCHANGED talk
    BY DEF Executed, Commit
  <1> QED  BY <1>5, <1>6, <1>7, <1>8, <1>9, <1>10, <1>11

LEMMA AnsweredKeepsSaid == ASSUME SaidInv, NEW x \in changes, Answered(x)  PROVE SaidInv'
  <1>1. UNCHANGED <<talk, done, kept, doubtful, left>>  BY DEF Answered, pageVars, storeVars
  <1>2. ChangeSound(x) /\ \A y \in changes : ChangeSound(y)  BY DEF SaidInv
  <1>3. /\ \A y : ChangeSound(y) => ChangeSound(y)'
        /\ TalkTyped' /\ (\A e \in DOMAIN talk' : EntrySound(e)')
    BY <1>1, CommentsStay
  <1>4. CASE Moved(x, "answered", history, <<Interaction(x.w.e)>>)
    <2>1. PICK new : SameRequest(new, x, "answered") /\ changes' = (changes \ {x}) \cup {new}  BY <1>2, <1>4, MovedSame
    <2>2. ChangeSound(new)' /\ new.key = x.key  BY <1>2, <1>3, <2>1, SameRequestSound DEF SameRequest
    <2> QED  BY <1>2, <1>3, <2>1, <2>2, MovedKeepsSaid
  <1>5. CASE /\ Moved(x, "refused", -1, <<>>)
             /\ \/ x.w.kind = "add" /\ \A c \in Kept(x.w.e) : talk[x.w.e][c].op # x.w.op
                \/ x.w.kind = "edit"
    <2>1. PICK new : SameRequest(new, x, "refused") /\ changes' = (changes \ {x}) \cup {new}  BY <1>2, <1>5, MovedSame
    <2>2. ASSUME x.w.kind = "add", NEW c \in Kept(x.w.e)', Drafted(x.w.e, c)'
          PROVE  talk'[x.w.e][c].text # x.w.value
      <3>1. c \in Kept(x.w.e) /\ Drafted(x.w.e, c) /\ talk'[x.w.e] = talk[x.w.e]
        BY <1>1, <2>2 DEF Kept, Drafted
      <3>2. talk[x.w.e][c].op # x.w.op  BY <1>5, <2>2, <3>1
      <3>3. EntrySound(x.w.e)  BY <1>1, <1>2, <2>2 DEF SaidInv, ChangeSound
      <3>4. /\ AddKey(x.w.e) \in DOMAIN kept /\ kept[AddKey(x.w.e)].op = x.w.op /\ kept[AddKey(x.w.e)].value = x.w.value
        BY <1>2, <2>2 DEF ChangeSound
      <3> QED  BY <3>1, <3>2, <3>3, <3>4 DEF EntrySound
    <2>3. ChangeSound(new)' /\ new.key = x.key  BY <1>2, <1>3, <2>1, <2>2, SameRequestSound DEF SameRequest
    <2> QED  BY <1>2, <1>3, <2>1, <2>3, MovedKeepsSaid
  <1> QED  BY <1>4, <1>5 DEF Answered

\* A definite error that gives up the id of the request: its comment, if there is one, counts no more.
LEMMA GivenUpKeepsSaid ==
  ASSUME SaidInv, NEW x \in changes, UNCHANGED <<talk, done, kept>>, doubtful' = doubtful \cup {x.w.op}, PressAgain,
         Moved(x, "refused", -1, <<>>)
  PROVE  SaidInv'
  <1>1. ChangeSound(x) /\ \A y \in changes : ChangeSound(y)  BY DEF SaidInv
  <1>2. "draft" \in DOMAIN left' /\ left'.draft = left.draft  BY PressKeepsDraft
  <1>3. TalkTyped'  BY <1>2 DEF SaidInv, TalkTyped
  <1>4. \A e : Kept(e)' = Kept(e) /\ AddKey(e)' = AddKey(e)  BY DEF Kept, AddKey
  <1>5. \A e, c : Drafted(e, c)' <=> Drafted(e, c) /\ talk[e][c].op # x.w.op  BY <1>4 DEF Drafted
  <1>6. \A y : ChangeSound(y) => ChangeSound(y)'  BY <1>4, <1>5 DEF ChangeSound
  <1>7. ASSUME NEW e \in DOMAIN talk'  PROVE EntrySound(e)'
    <2>1. EntrySound(e)  BY <1>7 DEF SaidInv
    <2>2. talk'[e] = talk[e]  OBVIOUS
    <2> QED  BY <1>2, <1>4, <1>5, <2>1, <2>2 DEF EntrySound
  <1>8. PICK new : SameRequest(new, x, "refused") /\ changes' = (changes \ {x}) \cup {new}  BY <1>1, MovedSame
  <1>9. ASSUME x.w.kind = "add", NEW c \in Kept(x.w.e)', Drafted(x.w.e, c)'  PROVE talk'[x.w.e][c].text # x.w.value
    <2>1. c \in Kept(x.w.e) /\ Drafted(x.w.e, c) /\ talk[x.w.e][c].op # x.w.op  BY <1>4, <1>5, <1>9
    <2>2. EntrySound(x.w.e)  BY <1>1 DEF SaidInv, ChangeSound
    <2>3. /\ AddKey(x.w.e) \in DOMAIN kept /\ kept[AddKey(x.w.e)].op = x.w.op /\ kept[AddKey(x.w.e)].value = x.w.value
      BY <1>1, <1>9 DEF ChangeSound
    <2> QED  BY <2>1, <2>2, <2>3 DEF EntrySound
  <1>10. ChangeSound(new)' /\ new.key = x.key  BY <1>1, <1>6, <1>8, <1>9, SameRequestSound DEF SameRequest
  <1> QED  BY <1>1, <1>3, <1>6, <1>7, <1>8, <1>10, MovedKeepsSaid

LEMMA FailsAfterCommitKeepsSaid == ASSUME SaidInv, NEW x \in changes, FailsAfterCommit(x)  PROVE SaidInv'
  <1>1. /\ UNCHANGED <<talk, done, kept>> /\ doubtful' = doubtful \cup {x.w.op} /\ PressAgain
        /\ Moved(x, "refused", -1, <<>>)
    BY DEF FailsAfterCommit, pageVars, storeVars
  <1> QED  BY <1>1, GivenUpKeepsSaid

LEMMA DeclinedKeepsSaid == ASSUME SaidInv, NEW x \in changes, Declined(x)  PROVE SaidInv'
  <1>1. /\ UNCHANGED <<talk, done, kept>> /\ doubtful' = doubtful \cup {x.w.op} /\ PressAgain
        /\ Moved(x, "refused", -1, <<>>)
    BY DEF Declined, pageVars, storeVars
  <1> QED  BY <1>1, GivenUpKeepsSaid

\* The request is gone; what it retained stays for the next attempt.
LEMMA LostKeepsSaid == ASSUME SaidInv, NEW x \in changes, Lost(x)  PROVE SaidInv'
  <1>1. UNCHANGED <<talk, done, kept, doubtful>> /\ changes' = changes \ {x}  BY DEF Lost, pageVars, storeVars
  <1>2. "draft" \in DOMAIN left' /\ left'.draft = left.draft  BY PressKeepsDraft DEF Lost
  <1>3. TalkTyped'  BY <1>1, <1>2 DEF SaidInv, TalkTyped
  <1>4. \A y : ChangeSound(y) => ChangeSound(y)'  BY <1>1 DEF ChangeSound, AddKey, Kept, Drafted
  <1>5. \A e : EntrySound(e) => EntrySound(e)'
    <2> TAKE e
    <2>1. Kept(e)' = Kept(e) /\ AddKey(e)' = AddKey(e)  BY <1>1 DEF Kept, AddKey
    <2>2. \A c : Drafted(e, c)' <=> Drafted(e, c)  BY <1>1, <2>1 DEF Drafted
    <2>3. talk'[e] = talk[e]  BY <1>1
    <2> QED  BY <1>1, <1>2, <2>1, <2>2, <2>3 DEF EntrySound
  <1> QED  BY <1>1, <1>3, <1>4, <1>5 DEF SaidInv

\* The outcome is known: the payload is released, and the draft of a comment that was accepted is done with.
LEMMA ReleasedKeepsSaid ==
  ASSUME SaidInv, NEW x \in changes, changes' = changes \ {x}, Release(x.key), UNCHANGED <<talk, done, doubtful>>,
         "draft" \in DOMAIN left',
         IF x.w.kind = "add" /\ x.phase # "refused" THEN left'.draft = left.draft + 1 ELSE left'.draft = left.draft
  PROVE  SaidInv'
  <1>1. ChangeSound(x)  BY DEF SaidInv
  <1>2. left.draft \in Nat /\ left.draft > 0  BY DEF SaidInv, TalkTyped
  <1>3. left'.draft \in Nat /\ left'.draft >= left.draft  BY <1>2
  <1>4. TalkTyped'  BY <1>2, <1>3 DEF SaidInv, TalkTyped
  <1>5. DOMAIN kept' = DOMAIN kept \ {x.key} /\ \A k \in DOMAIN kept \ {x.key} : kept'[k] = kept[k]  BY DEF Release
  <1>6. ASSUME NEW y \in changes'  PROVE ChangeSound(y)'
    <2>1. ChangeSound(y) /\ y.key # x.key  BY <1>6 DEF SaidInv
    <2>2. y.w.kind = "add" => y.key \in DOMAIN kept' /\ kept'[y.key] = kept[y.key]  BY <2>1, <1>5 DEF ChangeSound
    <2>3. Kept(y.w.e)' = Kept(y.w.e) /\ \A e : AddKey(e)' = AddKey(e)  BY DEF Kept, AddKey
    <2>4. \A c : Drafted(y.w.e, c)' <=> Drafted(y.w.e, c)  BY <2>3 DEF Drafted
    <2> QED  BY <2>1, <2>2, <2>3, <2>4 DEF ChangeSound
  <1>7. ASSUME NEW e \in DOMAIN talk'  PROVE EntrySound(e)'
    <2>1. e \in DOMAIN talk /\ EntrySound(e)  BY <1>7 DEF SaidInv
    <2>2. Kept(e)' = Kept(e) /\ AddKey(e)' = AddKey(e)  BY DEF Kept, AddKey
    <2>3. \A c : Drafted(e, c)' <=> Drafted(e, c)  BY <2>2 DEF Drafted
    <2>4. talk'[e] = talk[e]  OBVIOUS
    <2>5. CASE AddKey(e) = x.key
      <3>1. x.w.kind = "add" /\ x.w.e = e
        <4>1. x.w.kind = "add" /\ AddKey(x.w.e) = AddKey(e)  BY <2>1, <2>5, <1>1 DEF ChangeSound
        <4>2. \A a : AddKey(a)[2] = a  BY DEF AddKey
        <4>3. AddKey(x.w.e)[2] = AddKey(e)[2]  BY <4>1
        <4> QED  BY <4>1, <4>2, <4>3
      <3>2. kept[AddKey(e)].value = x.w.value /\ AddKey(e) \in DOMAIN kept  BY <3>1, <1>1 DEF ChangeSound
      <3>3. AddKey(e) \notin DOMAIN kept'  BY <2>5, <1>5
      <3>4. \A c \in Kept(e) : Drafted(e, c) => talk[e][c].text \in 1..left.draft  BY <2>1 DEF EntrySound
      <3>5. \A c \in Kept(e) : Drafted(e, c) => talk[e][c].text # left'.draft
        <4> TAKE c \in Kept(e)
        <4> HAVE Drafted(e, c)
        <4>1. CASE x.phase = "refused"
          <5>1. talk[e][c].text # x.w.value  BY <1>1, <1>7, <3>1, <4>1 DEF ChangeSound
          <5>2. talk[e][c].text = left.draft => kept[AddKey(e)].value = left.draft  BY <2>1 DEF EntrySound
          <5> QED  BY <3>1, <3>2, <4>1, <5>1, <5>2
        <4>2. CASE x.phase # "refused"
          <5>1. left'.draft = left.draft + 1  BY <3>1, <4>2
          <5> QED  BY <3>4, <5>1, <1>2
        <4> QED  BY <4>1, <4>2
      <3>6. \A c \in Kept(e) : Drafted(e, c) => talk[e][c].text \in 1..left'.draft  BY <3>4, <1>2, <1>3
      <3>7. \A c, d \in Kept(e) : Drafted(e, c) /\ Drafted(e, d) /\ talk[e][d].text = talk[e][c].text => c = d
        BY <2>1 DEF EntrySound
      <3> QED  BY <2>2, <2>3, <2>4, <3>3, <3>5, <3>6, <3>7 DEF EntrySound
    <2>6. CASE AddKey(e) # x.key
      <3>1. /\ AddKey(e) \in DOMAIN kept' <=> AddKey(e) \in DOMAIN kept
            /\ AddKey(e) \in DOMAIN kept => kept'[AddKey(e)] = kept[AddKey(e)]
        BY <2>6, <1>5
      <3>2. AddKey(e) \in DOMAIN kept' => kept'[AddKey(e)].value \in 1..left'.draft
        BY <2>1, <3>1, <1>2, <1>3 DEF EntrySound
      <3>3. \A c \in Kept(e) : Drafted(e, c) => talk[e][c].text \in 1..left.draft  BY <2>1 DEF EntrySound
      <3>4. \A c \in Kept(e) : Drafted(e, c) => talk[e][c].text \in 1..left'.draft  BY <3>3, <1>2, <1>3
      <3>5. \A c \in Kept(e) : Drafted(e, c) /\ talk[e][c].text = left'.draft =>
              AddKey(e) \in DOMAIN kept' /\ kept'[AddKey(e)].value = left'.draft
        <4>1. left'.draft = left.draft \/ left'.draft = left.draft + 1  OBVIOUS
        <4>2. CASE left'.draft = left.draft  BY <4>2, <2>1, <3>1 DEF EntrySound
        <4>3. CASE left'.draft = left.draft + 1  BY <4>3, <3>3, <1>2
        <4> QED  BY <4>1, <4>2, <4>3
      <3>6. \A c \in Kept(e) : Drafted(e, c) /\ AddKey(e) \in DOMAIN kept' /\ kept'[AddKey(e)].value = talk[e][c].text =>
              talk[e][c].op = kept'[AddKey(e)].op /\ kept'[AddKey(e)].op \in DOMAIN done
        BY <2>1, <3>1 DEF EntrySound
      <3>7. \A c, d \in Kept(e) : Drafted(e, c) /\ Drafted(e, d) /\ talk[e][d].text = talk[e][c].text => c = d
        BY <2>1 DEF EntrySound
      <3> QED  BY <2>2, <2>3, <2>4, <3>2, <3>4, <3>5, <3>6, <3>7 DEF EntrySound
    <2> QED  BY <2>5, <2>6
  <1>8. \A y, z \in changes' : y.key = z.key => y = z  BY DEF SaidInv
  <1> QED  BY <1>4, <1>6, <1>7, <1>8 DEF SaidInv

LEMMA FinishedKeepsSaid == ASSUME SaidInv, NEW x \in changes, Finished(x)  PROVE SaidInv'
  <1>1. /\ changes' = changes \ {x} /\ Release(x.key) /\ UNCHANGED <<talk, done, doubtful>> /\ x.phase = "answered"
        /\ left' = IF x.w.kind = "add" THEN [left EXCEPT !.draft = left.draft + 1] ELSE left
    BY DEF Finished, storeVars
  <1>2. "draft" \in DOMAIN left /\ left.draft \in Nat  BY DEF SaidInv, TalkTyped
  <1>3. "draft" \in DOMAIN left'  BY <1>1, <1>2
  <1>4. IF x.w.kind = "add" /\ x.phase # "refused" THEN left'.draft = left.draft + 1 ELSE left'.draft = left.draft
    BY <1>1, <1>2
  <1> QED  BY <1>1, <1>3, <1>4, ReleasedKeepsSaid

LEMMA RejectedKeepsSaid == ASSUME SaidInv, NEW x \in changes, Rejected(x)  PROVE SaidInv'
  <1>1. /\ changes' = changes \ {x} /\ Release(x.key) /\ UNCHANGED <<talk, done, doubtful, left>> /\ x.phase = "refused"
    BY DEF Rejected, storeVars
  <1>2. "draft" \in DOMAIN left'  BY <1>1 DEF SaidInv, TalkTyped
  <1> QED  BY <1>1, <1>2, ReleasedKeepsSaid

\* A new payload is retained only when the page has none for the same key.
LEMMA RequestKeepsSaid ==
  ASSUME SaidInv, IdsSound, NEW deed \in {"add", "edit", "delete", "moderate", "react"}, NEW e \in DOMAIN talk,
         NEW c \in (IF deed \in {"add", "react"} THEN {0} ELSE DOMAIN talk[e]), NEW value \in Values(deed),
         Request(deed, e, c, value)
  PROVE  SaidInv'
  <1> DEFINE key == Key(deed, e, c, value)
  <1>1. UNCHANGED <<talk, done, doubtful>>  BY DEF Request, storeVars
  <1>2. "draft" \in DOMAIN left' /\ left'.draft = left.draft  BY DEF Request, SaidInv, TalkTyped
  <1>3. left.draft \in Nat /\ left.draft > 0  BY DEF SaidInv, TalkTyped
  <1>4. PICK x : x = [key |-> key, w |-> Change(deed, 1, e, c, value, kept'[key].op), phase |-> "sent", at |-> -1,
                      data |-> <<>>]  OBVIOUS
  <1>5. changes' = changes \cup {x} /\ (~\E y \in changes : y.key = key) /\ Keep(key, value)  BY <1>4 DEF Request
  <1>6. /\ DOMAIN kept' = DOMAIN kept \cup {key}
        /\ \A k \in DOMAIN kept : kept'[k] = kept[k]
        /\ key \in DOMAIN kept => kept[key].value = value
        /\ key \notin DOMAIN kept => kept'[key] = [op |-> left.ops, value |-> value]
    BY <1>5 DEF Keep
  <1>7. TalkTyped'  BY <1>1, <1>2 DEF SaidInv, TalkTyped
  <1>8. key[1] = deed /\ (deed = "add" => key = AddKey(e)) /\ \A a : (key = AddKey(a) => deed = "add")
    <2>1. key[1] = deed /\ (deed = "add" => key = AddKey(e))  BY DEF Key, AddKey
    <2>2. \A a : AddKey(a)[1] = "add"  BY DEF AddKey
    <2> HIDE DEF key
    <2> QED  BY <2>1, <2>2
  <1>9. \A y, z \in changes' : y.key = z.key => y = z
    <2>1. x.key = key  BY <1>4
    <2> QED  BY <1>5, <2>1 DEF SaidInv
  <1>10. kept'[key].value = value  BY <1>6
  <1>11. ASSUME NEW y \in changes  PROVE ChangeSound(y)'
    <2>1. ChangeSound(y)  BY DEF SaidInv
    <2>2. y.w.kind = "add" => y.key \in DOMAIN kept' /\ kept'[y.key] = kept[y.key]  BY <2>1, <1>6 DEF ChangeSound
    <2>3. Kept(y.w.e)' = Kept(y.w.e) /\ \A a : AddKey(a)' = AddKey(a)  BY <1>1 DEF Kept, AddKey
    <2>4. \A d : Drafted(y.w.e, d)' <=> Drafted(y.w.e, d)  BY <1>1, <2>3 DEF Drafted
    <2> QED  BY <1>1, <2>1, <2>2, <2>3, <2>4 DEF ChangeSound
  <1>12. ASSUME NEW a \in DOMAIN talk'  PROVE EntrySound(a)'
    <2>1. a \in DOMAIN talk /\ EntrySound(a)  BY <1>1, <1>12 DEF SaidInv
    <2>2. Kept(a)' = Kept(a) /\ AddKey(a)' = AddKey(a)  BY <1>1 DEF Kept, AddKey
    <2>3. \A d : Drafted(a, d)' <=> Drafted(a, d)  BY <1>1, <2>2 DEF Drafted
    <2>4. CASE AddKey(a) \in DOMAIN kept \/ AddKey(a) # key
      <3>1. /\ AddKey(a) \in DOMAIN kept' <=> AddKey(a) \in DOMAIN kept
            /\ AddKey(a) \in DOMAIN kept => kept'[AddKey(a)] = kept[AddKey(a)]
        BY <2>4, <1>6
      <3> QED  BY <1>1, <1>2, <2>1, <2>2, <2>3, <3>1 DEF EntrySound
    <2>5. CASE AddKey(a) \notin DOMAIN kept /\ AddKey(a) = key
      <3>1. deed = "add"
        <4> HIDE DEF key
        <4> QED  BY <2>5, <1>8
      <3>2. value = left.draft  BY <3>1 DEF Values
      <3>3. AddKey(a) \in DOMAIN kept' /\ kept'[AddKey(a)].value = left.draft  BY <2>5, <3>2, <1>6
      <3>4. \A d \in Kept(a) : Drafted(a, d) => talk[a][d].text \in 1..left.draft /\ talk[a][d].text # left.draft
        BY <2>1, <2>5 DEF EntrySound
      <3>5. \A d, f \in Kept(a) : Drafted(a, d) /\ Drafted(a, f) /\ talk[a][f].text = talk[a][d].text => d = f
        BY <2>1 DEF EntrySound
      <3> QED  BY <1>1, <1>2, <1>3, <2>2, <2>3, <3>3, <3>4, <3>5 DEF EntrySound
    <2> QED  BY <2>4, <2>5
  <1>13. ChangeSound(x)'
    <2>1. /\ {"key", "w", "phase", "at", "data"} \subseteq DOMAIN x /\ x.key = key /\ x.phase = "sent"
          /\ x.w.kind = deed /\ x.w.by = 1 /\ x.w.e = e /\ x.w.c = c /\ x.w.value = value /\ x.w.op = kept'[key].op
      BY <1>4 DEF Change
    <2>2. kept'[key].op \in Nat  BY <1>6 DEF IdsSound
    <2>3. deed = "add" => value \in Nat  BY <1>3 DEF Values
    <2>4. deed = "edit" => value = -1  BY DEF Values
    <2>5. deed = "moderate" => value \in {"visible", "under_review"}  BY DEF Values
    <2>6. deed \in {"edit", "delete", "moderate"} => c \in DOMAIN talk'[e]  BY <1>1
    <2>7. deed # "add" => \A a : key # AddKey(a)
      <3> HIDE DEF key
      <3> QED  BY <1>8
    <2>8. \A a : AddKey(a)' = AddKey(a)  BY DEF AddKey
    <2>9. key \in DOMAIN kept'  BY <1>6
    <2> HIDE DEF key
    <2> QED  BY <1>1, <1>8, <1>10, <2>1, <2>2, <2>3, <2>4, <2>5, <2>6, <2>7, <2>8, <2>9 DEF ChangeSound
  <1> QED  BY <1>1, <1>5, <1>7, <1>9, <1>11, <1>12, <1>13 DEF SaidInv

LEMMA IdsStaySound == ASSUME IdsSound, [HistoryNext]_historyVars  PROVE IdsSound'
  <1>1. "ops" \in DOMAIN left' /\ left'.ops \in Nat
    <2>1. \/ left' = left
          \/ \E what \in {"faults", "opens", "threads", "others"} : Take(what)
          \/ left' = [left EXCEPT !.writes = left.writes - 1, !.ops = left.ops + 1]
          \/ left' = [left EXCEPT !.draft = left.draft + 1]
          \/ PressAgain
      <3>1. ASSUME QuietStep  PROVE left' = left \/ Take("faults") \/ Take("opens") \/ Take("threads")
        BY <3>1 DEF QuietStep, Announce, Resubscribed, HistoryEvent, loadCompetitionHistory, openCompetitionHistory,
           closeCompetitionHistory, openComments, closeComments, OlderComments, ReadRows, ReadRevision, FeedLoaded,
           EntryRefreshed, CommentsLoaded, ReadFails, historyVars
      <3>2. ASSUME NEW deed, NEW e, NEW c, NEW value, Request(deed, e, c, value)
            PROVE  left' = [left EXCEPT !.writes = left.writes - 1, !.ops = left.ops + 1]
        BY <3>2 DEF Request
      <3>3. ASSUME NEW w, ByOthers(w)  PROVE Take("others")  BY <3>3 DEF ByOthers
      <3>4. ASSUME NEW x, Executed(x) \/ Answered(x) \/ Rejected(x)  PROVE left' = left
        BY <3>4 DEF Executed, Answered, Rejected
      <3>5. ASSUME NEW x, Finished(x)  PROVE left' = left \/ left' = [left EXCEPT !.draft = left.draft + 1]
        BY <3>5 DEF Finished
      <3>6. ASSUME NEW x, Lost(x) \/ Declined(x) \/ FailsAfterCommit(x)  PROVE PressAgain
        BY <3>6 DEF Lost, Declined, FailsAfterCommit
      <3> QED  BY <3>1, <3>2, <3>3, <3>4, <3>5, <3>6 DEF HistoryNext, QuietStep
    <2>2. CASE left' = [left EXCEPT !.writes = left.writes - 1, !.ops = left.ops + 1]  BY <2>2 DEF IdsSound
    <2>3. CASE left' = [left EXCEPT !.draft = left.draft + 1]  BY <2>3 DEF IdsSound
    <2>4. ASSUME NEW what \in {"faults", "opens", "threads", "others"}, Take(what)
          PROVE  "ops" \in DOMAIN left' /\ left'.ops \in Nat
      BY <2>4 DEF Take, IdsSound
    <2>5. CASE PressAgain  BY <2>5 DEF PressAgain, IdsSound
    <2> QED  BY <2>1, <2>2, <2>3, <2>4, <2>5 DEF IdsSound
  <1>2. \A k \in DOMAIN kept' : "op" \in DOMAIN kept'[k] /\ kept'[k].op \in Nat
    <2>1. \/ kept' = kept
          \/ \E key : Release(key)
          \/ \E key, value : Keep(key, value)
      <3>1. ASSUME QuietStep  PROVE kept' = kept
        BY <3>1 DEF QuietStep, Announce, Resubscribed, HistoryEvent, loadCompetitionHistory, openCompetitionHistory,
           closeCompetitionHistory, openComments, closeComments, OlderComments, ReadRows, ReadRevision, FeedLoaded,
           EntryRefreshed, CommentsLoaded, ReadFails, historyVars, pageVars
      <3>2. ASSUME NEW deed, NEW e, NEW c, NEW value, Request(deed, e, c, value)
            PROVE  \E key : Keep(key, value)
        BY <3>2 DEF Request
      <3>3. ASSUME NEW w, ByOthers(w)  PROVE kept' = kept  BY <3>3 DEF ByOthers, pageVars
      <3>4. ASSUME NEW x, Executed(x) \/ Answered(x) \/ Lost(x) \/ Declined(x) \/ FailsAfterCommit(x)  PROVE kept' = kept
        BY <3>4 DEF Executed, Answered, Lost, Declined, FailsAfterCommit, pageVars
      <3>5. ASSUME NEW x, Finished(x) \/ Rejected(x)  PROVE \E key : Release(key)  BY <3>5 DEF Finished, Rejected
      <3> QED  BY <3>1, <3>2, <3>3, <3>4, <3>5 DEF HistoryNext, QuietStep
    <2>2. ASSUME NEW key, Release(key)  PROVE \A k \in DOMAIN kept' : "op" \in DOMAIN kept'[k] /\ kept'[k].op \in Nat
      BY <2>2 DEF Release, IdsSound
    <2>3. ASSUME NEW key, NEW value, Keep(key, value)
          PROVE  \A k \in DOMAIN kept' : "op" \in DOMAIN kept'[k] /\ kept'[k].op \in Nat
      BY <2>3 DEF Keep, IdsSound
    <2> QED  BY <2>1, <2>2, <2>3 DEF IdsSound
  <1> QED  BY <1>1, <1>2 DEF IdsSound

LEMMA SaidStep == ASSUME SaidInv, IdsSound, [HistoryNext]_historyVars  PROVE SaidInv'
  <1> DEFINE Kinds == {"add", "edit", "delete", "moderate", "react"}
  <1>1. ASSUME NEW e \in HistoryEvents, NEW deed \in Kinds,
               NEW c \in (IF deed \in {"add", "react"} THEN {0} ELSE DOMAIN talk[e]), NEW value \in Values(deed),
               Request(deed, e, c, value)
        PROVE  SaidInv'
    BY <1>1, RequestKeepsSaid DEF HistoryEvents
  <1>2. ASSUME NEW e \in HistoryEvents, NEW deed \in Kinds,
               NEW c \in (IF deed \in {"add", "react"} THEN {0} ELSE DOMAIN talk[e]), NEW value \in Values(deed),
               ByOthers(Change(deed, 2, e, c, value, 0))
        PROVE  SaidInv'
    <2>1. PICK w : w = Change(deed, 2, e, c, value, 0)  OBVIOUS
    <2>2. w.kind = deed /\ w.by = 2 /\ w.e = e /\ w.c = c /\ w.value = value /\ w.op = 0  BY <2>1 DEF Change
    <2>3. left.draft \in Nat  BY DEF SaidInv, TalkTyped
    <2>4. WriteSound(w)  BY <1>2, <2>2, <2>3 DEF WriteSound, HistoryEvents, People, Values
    <2> QED  BY <1>2, <2>1, <2>2, <2>4, ByOthersKeepsSaid
  <1>3. ASSUME NEW x \in changes,
               Executed(x) \/ Answered(x) \/ Finished(x) \/ Rejected(x) \/ Lost(x) \/ Declined(x) \/ FailsAfterCommit(x)
        PROVE  SaidInv'
    BY <1>3, ExecutedKeepsSaid, AnsweredKeepsSaid, FinishedKeepsSaid, RejectedKeepsSaid, LostKeepsSaid,
       DeclinedKeepsSaid, FailsAfterCommitKeepsSaid
  <1>4. CASE QuietStep  BY <1>4, QuietKeepsSaid
  <1> QED  BY <1>1, <1>2, <1>3, <1>4 DEF HistoryNext, QuietStep

LEMMA SaidInitially == HistoryInit => SaidInv /\ IdsSound
  <1> SUFFICES ASSUME HistoryInit PROVE SaidInv /\ IdsSound  OBVIOUS
  <1>1. PICK s \in HistoryScenes :
          /\ talk = s.talk
          /\ \E own : /\ own = [admin |-> s.admin, kinds |-> s.kinds, theirs |-> s.theirs, ops |-> 1, draft |-> 1]
                      /\ left = [n \in DOMAIN own \cup DOMAIN s.bounds |-> IF n \in DOMAIN own THEN own[n] ELSE s.bounds[n]]
    BY DEF HistoryInit
  <1>2. "draft" \in DOMAIN left /\ left.draft = 1 /\ "ops" \in DOMAIN left /\ left.ops = 1  BY <1>1
  <1>3. \A e \in DOMAIN talk : talk[e] \in Seq(Comments) /\ \A c \in DOMAIN talk[e] : talk[e][c].text < 0
    BY <1>1, HistoryAssumption
  <1>4. kept = <<>> /\ changes = {}  BY DEF HistoryInit
  <1>5. DOMAIN kept = {}  BY <1>4
  <1>6. ASSUME NEW e \in DOMAIN talk, NEW c \in Kept(e)  PROVE ~Drafted(e, c)
    <2>1. c \in DOMAIN talk[e]  BY DEF Kept
    <2>2. talk[e][c] \in Comments  BY <1>3, <2>1
    <2>3. talk[e][c].text \in Int /\ talk[e][c].text < 0  BY <1>3, <2>1, <2>2 DEF Comments
    <2> QED  BY <2>3 DEF Drafted
  <1>7. \A e \in DOMAIN talk : EntrySound(e)  BY <1>5, <1>6 DEF EntrySound
  <1>8. TalkTyped
    <2>1. left.draft \in Nat /\ left.draft > 0  BY <1>2
    <2>2. \A e \in DOMAIN talk : talk[e] \in Seq(Comments)  BY <1>3
    <2> QED  BY <1>2, <2>1, <2>2 DEF TalkTyped
  <1>9. IdsSound  BY <1>2, <1>5 DEF IdsSound
  <1> QED  BY <1>4, <1>7, <1>8, <1>9 DEF SaidInv

LEMMA SaidOnceOfInv == SaidInv => CommentedOnce
  <1> SUFFICES ASSUME SaidInv, NEW e \in HistoryEvents, NEW c \in Kept(e), NEW d \in Kept(e),
                      talk[e][c].by = 1, talk[e][d].by = 1, talk[e][c].text = talk[e][d].text, talk[e][c].text > 0,
                      {talk[e][c].op, talk[e][d].op} \cap doubtful = {}
               PROVE  c = d
    BY DEF CommentedOnce
  <1>1. EntrySound(e)  BY DEF SaidInv, HistoryEvents
  <1>2. Drafted(e, c) /\ Drafted(e, d)  BY DEF Drafted
  <1> QED  BY <1>1, <1>2 DEF EntrySound

\* What a person wrote is said once, however requests and answers are lost, whatever others do meanwhile and
\* however many entries, comments and writes there are: the id and the text of a comment whose outcome is unknown
\* are sent again unchanged, and the store knows the id. Not counted are comments whose id the page gave up on a
\* definite error: a repeated request refused before it was sent or executed, or an error after the commit.
THEOREM SaidOnce == HistorySpec => []CommentedOnce
  <1>1. HistoryInit => SaidInv /\ IdsSound  BY SaidInitially
  <1>2. SaidInv /\ IdsSound /\ [HistoryNext]_historyVars => SaidInv' /\ IdsSound'  BY SaidStep, IdsStaySound
  <1>3. SaidInv => CommentedOnce  BY SaidOnceOfInv
  <1> QED  BY <1>1, <1>2, <1>3, PTL DEF HistorySpec
=============================================================================
