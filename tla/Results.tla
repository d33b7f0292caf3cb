------------------------------- MODULE Results -------------------------------
(***************************************************************************)
(* Scores of matches: which are accepted (Backend/matchResultRules.js),    *)
(* what the result dialog makes of them (Frontend/JS/modals.js), and whom  *)
(* each reader takes for the winner (Backend/matchRules.js, the bracket    *)
(* and the group page).  Also the way through a knock-out bracket.         *)
(*                                                                         *)
(* A set is a record of the games (or points) of both sides and of the     *)
(* points of the loser of its tie-break, NoTiebreak if there was none.     *)
(* The texts "7-6(4)/..." are these records.                               *)
(***************************************************************************)
EXTENDS Integers, Sequences, FiniteSetsExt

NoTiebreak == -1
FullSet == 0     \* decidingSet "vollstaendiger Satz"; 7 and 10 are MT7 and MT10

Set(a, b, tb) == [side1 |-> a, side2 |-> b, tb |-> tb]
High(set) == IF set.side1 > set.side2 THEN set.side1 ELSE set.side2
Low(set) == IF set.side1 > set.side2 THEN set.side2 ELSE set.side1
LeaderOf(set) == IF set.side1 > set.side2 THEN 1 ELSE IF set.side2 > set.side1 THEN 2 ELSE 0

\* The match types of the table: sets to win, games of a set, last set.
RulesOf(winning, target, deciding) ==
  [winningSets |-> winning, setTarget |-> target, decidingSet |-> deciding]
TiebreakAt(rules) == IF rules.setTarget = 4 THEN 3 ELSE 6
MaxSets(rules) == rules.winningSets * 2 - 1

NormalSetState(set, rules) ==
  LET target == rules.setTarget
      at == TiebreakAt(rules)
      plain == set.tb = NoTiebreak
      won == \/ plain /\ High(set) = target /\ Low(set) <= target - 2
             \/ plain /\ target = 6 /\ High(set) = 7 /\ Low(set) = 5
             \/ ~plain /\ High(set) = at + 1 /\ Low(set) = at
  IN IF won THEN "complete"
     ELSE IF plain /\ High(set) <= (IF target = 6 THEN 6 ELSE 3) THEN "partial" ELSE "invalid"

MatchTiebreakState(set, target) ==
  LET ahead == High(set) - Low(set)
      won == High(set) >= target /\ ahead >= 2
  IN IF \/ set.tb # NoTiebreak
        \/ LeaderOf(set) = 0 /\ set.side1 >= target
        \/ won /\ ahead # 2 /\ High(set) # target THEN "invalid"
     ELSE IF won THEN "complete" ELSE "partial"

IsMatchTiebreak(index, rules) == index = MaxSets(rules) /\ rules.decidingSet # FullSet

SetState(sets, index, rules) ==
  IF IsMatchTiebreak(index, rules) THEN MatchTiebreakState(sets[index], rules.decidingSet)
  ELSE NormalSetState(sets[index], rules)

\* The sets a side has won among the first n.
WonSets(sets, n, side, rules) ==
  Cardinality({i \in 1..n : SetState(sets, i, rules) = "complete" /\ LeaderOf(sets[i]) = side})

MatchWonBy(sets, n, rules) ==
  {side \in {1, 2} : WonSets(sets, n, side, rules) >= rules.winningSets}

Rejected == [valid |-> FALSE, winnerSide |-> 0]
Accepted(winner) == [valid |-> TRUE, winnerSide |-> winner]

\* Only the last set may be unfinished, and only if somebody gave up; no set
\* after the end of the match.
SetsFit(kind, sets, rules) ==
  /\ Len(sets) <= MaxSets(rules)
  /\ \A i \in DOMAIN sets :
       /\ \/ SetState(sets, i, rules) = "complete"
          \/ SetState(sets, i, rules) = "partial" /\ kind = "retirement" /\ i = Len(sets)
       /\ i < Len(sets) => MatchWonBy(sets, i, rules) = {}

\* A completion has a kind, its sets and the side that gave up (0 for none).
ValidateCompletion(completion, rules) ==
  LET sets == completion.sets
      winners == MatchWonBy(sets, Len(sets), rules)
  IN CASE completion.kind = "walkover" ->
            IF completion.losingSide \in {1, 2} /\ sets = <<>> THEN Accepted(3 - completion.losingSide)
            ELSE Rejected
       [] completion.kind = "retirement" ->
            IF completion.losingSide \in {1, 2} /\ SetsFit("retirement", sets, rules) /\ winners = {}
            THEN Accepted(3 - completion.losingSide) ELSE Rejected
       [] completion.kind = "regular" ->
            IF sets # <<>> /\ SetsFit("regular", sets, rules) /\ winners # {}
            THEN Accepted(CHOOSE side \in winners : TRUE) ELSE Rejected

(***************************************************************************)
(* The readers of a stored result.                                         *)
(***************************************************************************)
LedSets(sets, side) == Cardinality({i \in DOMAIN sets : LeaderOf(sets[i]) = side})
MoreSets(sets) ==
  IF LedSets(sets, 1) > LedSets(sets, 2) THEN 1
  ELSE IF LedSets(sets, 2) > LedSets(sets, 1) THEN 2 ELSE 0

\* The marker "[wo]" or "[ret]" that the projection puts behind the side that gave up.
MarkedSide(completion) == IF completion.kind = "regular" THEN 0 ELSE completion.losingSide

\* Mutant: the sets are counted before the marker is looked at.
MutWinningSide(completion) ==
  IF MoreSets(completion.sets) # 0 THEN MoreSets(completion.sets) ELSE 3 - MarkedSide(completion)

WinningSide(completion) ==
  IF MarkedSide(completion) # 0 THEN 3 - MarkedSide(completion) ELSE MoreSets(completion.sets)

GroupWinner(completion) ==
  IF MarkedSide(completion) # 0 THEN 3 - MarkedSide(completion) ELSE MoreSets(completion.sets)

\* The bracket counts the sets first: who leads and gives up is shown as the winner.
BracketWinner(completion) ==
  IF MoreSets(completion.sets) # 0 THEN MoreSets(completion.sets)
  ELSE IF MarkedSide(completion) # 0 THEN 3 - MarkedSide(completion) ELSE 0

\* The sets the group table counts: a walkover is 0-6, 0-6.
GroupSets(completion) ==
  IF completion.kind = "walkover"
    THEN LET lost == IF completion.losingSide = 1 THEN Set(0, 6, NoTiebreak) ELSE Set(6, 0, NoTiebreak)
         IN <<lost, lost>>
    ELSE completion.sets

(***************************************************************************)
(* The result dialog: a column of games per set and, where the rules ask   *)
(* for one, a column of points for its tie-break.                          *)
(***************************************************************************)
NeedsTiebreak(set, index, rules) ==
  /\ ~IsMatchTiebreak(index, rules)
  /\ High(set) \in {TiebreakAt(rules), TiebreakAt(rules) + 1} /\ Low(set) = TiebreakAt(rules)

\* The columns shown for a stored set (parseMatchResultScore).
Columns(set, index, rules) ==
  [games |-> <<set.side1, set.side2>>,
   points |-> IF set.tb # NoTiebreak /\ LeaderOf(set) # 0
                THEN LET won == Max({7, set.tb + 2})
                     IN IF LeaderOf(set) = 1 THEN <<won, set.tb>> ELSE <<set.tb, won>>
              ELSE IF NeedsTiebreak(set, index, rules) THEN <<0, 0>> ELSE <<>>]

\* What is sent for the columns of a set (serializeMatchResultScore); <<>> if refused.
Serialized(columns, index, rules) ==
  LET games == columns.games
      points == columns.points
      leader == LeaderOf(Set(games[1], games[2], NoTiebreak))
      high == Max({points[1], points[2]})
      low == Min({points[1], points[2]})
  IN IF points = <<>> \/ IsMatchTiebreak(index, rules) THEN <<Set(games[1], games[2], NoTiebreak)>>
     ELSE IF leader = 0 \/ points[leader] <= points[3 - leader] \/ high < 7 \/ (high # 7 /\ high - low # 2)
       THEN <<>>
     ELSE <<Set(games[1], games[2], points[3 - leader])>>

\* Where the winner of pairing `slot` of the round-th round goes (koRoundSuccessor).
Successor(round, slot) ==
  [round |-> round + 1, slot |-> (slot + 1) \div 2, side |-> IF slot % 2 = 1 THEN 1 ELSE 2]

=============================================================================
