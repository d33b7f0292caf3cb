------------------------------- MODULE Scores --------------------------------
(***************************************************************************)
(* The rules of Results against the game itself: a match is played game by *)
(* game (in a match tie-break point by point), and at every moment it may  *)
(* end or be given up; or somebody types a score.  The play is the         *)
(* reference, written from the rules of tennis and not from the code.      *)
(***************************************************************************)
EXTENDS Results

CONSTANTS Formats,     \* [rules, typed, start, points]: a match type; typed is 0, or the number of
                       \* sets somebody types behind `start`; the points of the loser of a tie-break
          MaxPoints    \* bound: points of one side in a match tie-break, numbers typed

SetTypes == [side1 : Nat, side2 : Nat, tb : Nat \cup {NoTiebreak}]
RuleTypes == [winningSets : Nat \ {0}, setTarget : {4, 6}, decidingSet : {FullSet, 7, 10}]

\* What the table of match types allows; a match that is played starts at nothing.
ASSUME FormatsAssumption ==
  /\ Formats \subseteq [rules : RuleTypes, typed : Nat, start : Seq(SetTypes), points : SUBSET Nat]
  /\ \A f \in Formats : f.typed = 0 => f.start = <<>>
ASSUME MaxPointsAssumption == MaxPoints \in Nat

VARIABLES format, sets, won, running   \* won: sets won by each side; running: the last set is unfinished
scoreVars == <<format, sets, won, running>>

rules == format.rules
Playing == format.typed = 0
Over == \E side \in {1, 2} : won[side] = rules.winningSets
LastSet == sets[Len(sets)]

ScoreInit == /\ format \in Formats
             /\ sets = format.start /\ won = <<0, 0>> /\ running = FALSE

\* A side wins a game, a point of the match tie-break, or the tie-break of a set.
Plus(set, side) == IF side = 1 THEN [set EXCEPT !.side1 = @ + 1] ELSE [set EXCEPT !.side2 = @ + 1]

Ends(set, index) ==
  LET target == IF IsMatchTiebreak(index, rules) THEN rules.decidingSet ELSE rules.setTarget
  IN High(set) >= target /\ High(set) - Low(set) >= 2

AtTiebreak(set, index) ==
  /\ ~IsMatchTiebreak(index, rules)
  /\ set.side1 = TiebreakAt(rules) /\ set.side2 = TiebreakAt(rules)

Point(side) ==
  LET index == IF running THEN Len(sets) ELSE Len(sets) + 1
      before == IF running THEN LastSet ELSE Set(0, 0, NoTiebreak)
      tiebreak == AtTiebreak(before, index)
      plain == Plus(before, side)
      ends == tiebreak \/ Ends(plain, index)
  IN /\ Playing /\ ~Over /\ High(plain) <= MaxPoints
     /\ \E tb \in IF tiebreak THEN format.points ELSE {NoTiebreak} :
          sets' = Append(IF running THEN SubSeq(sets, 1, index - 1) ELSE sets, [plain EXCEPT !.tb = tb])
     /\ running' = ~ends
     /\ won' = IF ends THEN [won EXCEPT ![side] = @ + 1] ELSE won
     /\ UNCHANGED format

Verdict(kind, losingSide) ==
  ValidateCompletion([kind |-> kind, sets |-> sets, losingSide |-> losingSide], rules)
AcceptedSomehow == \E kind \in {"regular", "retirement"} : Verdict(kind, 1).valid

\* Somebody types one more set behind a score that could be accepted so far.
Type ==
  /\ Len(sets) < format.typed /\ (sets = <<>> \/ AcceptedSomehow)
  /\ \E a, b \in 0..MaxPoints, tb \in format.points \cup {NoTiebreak} :
       sets' = Append(sets, Set(a, b, tb))
  /\ UNCHANGED <<format, won, running>>

ScoreNext == Type \/ \E side \in {1, 2} : Point(side)

ScoreSpec == ScoreInit /\ [][ScoreNext]_scoreVars
-----------------------------------------------------------------------------
\* A match tie-break at 7-7 or later (10-10): the code refuses this score as
\* invalid, so nobody can give up there.
LevelLate(set, index) ==
  IsMatchTiebreak(index, rules) /\ LeaderOf(set) = 0 /\ set.side1 >= rules.decidingSet

(***************************************************************************)
(* Every score that can be played is accepted, and only for what it is: a  *)
(* finished match as a regular result of the right winner and never as a   *)
(* retirement, an unfinished one as a retirement of either side and never  *)
(* as a regular result (validateCompletion, matchResultRules.js:145).      *)
(***************************************************************************)
PlayedScoresAccepted ==
  Playing /\ sets # <<>> =>
    IF Over
      THEN /\ Verdict("regular", 0) = Accepted(CHOOSE side \in {1, 2} : won[side] = rules.winningSets)
           /\ \A side \in {1, 2} : ~Verdict("retirement", side).valid
      ELSE /\ ~Verdict("regular", 0).valid
           /\ \A side \in {1, 2} : LevelLate(LastSet, Len(sets))
                                   \/ Verdict("retirement", side) = Accepted(3 - side)

Minus(set, side) == [IF side = 1 THEN [set EXCEPT !.side1 = @ - 1] ELSE [set EXCEPT !.side2 = @ - 1]
                       EXCEPT !.tb = NoTiebreak]
Front(s) == SubSeq(s, 1, Len(s) - 1)

(***************************************************************************)
(* Only scores that can be played are accepted: taking back the last game  *)
(* of an accepted score leaves an unfinished match that is accepted too,   *)
(* and so on back to the start.                                            *)
(***************************************************************************)
OnlyPlayedScoresAccepted ==
  sets # <<>> /\ AcceptedSomehow =>
    \/ High(LastSet) = 0
    \/ IsMatchTiebreak(Len(sets), rules) /\ Low(LastSet) >= rules.decidingSet
    \/ \E side \in {1, 2} :
         /\ (IF side = 1 THEN LastSet.side1 ELSE LastSet.side2) > 0
         /\ ValidateCompletion([kind |-> "retirement", losingSide |-> 1,
                                sets |-> Append(Front(sets), Minus(LastSet, side))], rules).valid

(***************************************************************************)
(* The challenge rules (matchRules.js:16) and the group table              *)
(* (RoundRobin.js:264) read the winner of every accepted completion from   *)
(* its text as the server decided it.  The bracket does so unless the      *)
(* leader gives up: there it shows the side that gave up.                  *)
(***************************************************************************)
ReadersAgree ==
  \A kind \in {"regular", "retirement", "walkover"}, side \in {1, 2} :
    LET completion == [kind |-> kind, losingSide |-> side, sets |-> IF kind = "walkover" THEN <<>> ELSE sets]
        verdict == ValidateCompletion(completion, rules)
        leaderLeft == kind = "retirement" /\ MoreSets(sets) = side
    IN verdict.valid => /\ WinningSide(completion) = verdict.winnerSide
                        /\ GroupWinner(completion) = verdict.winnerSide
                        /\ MoreSets(GroupSets(completion)) = verdict.winnerSide \/ kind = "retirement"
                        /\ BracketWinner(completion) = verdict.winnerSide \/ leaderLeft

(***************************************************************************)
(* Whoever opens the dialog on a stored score and saves it unchanged sends *)
(* the same score (modals.js:899, :993).  A set level at 6-6 is refused by *)
(* the dialog, although the server accepts it for a retirement.            *)
(***************************************************************************)
DialogKeepsScores ==
  AcceptedSomehow =>
    \A i \in DOMAIN sets :
      \/ Serialized(Columns(sets[i], i, rules), i, rules) = <<sets[i]>>
      \/ LeaderOf(sets[i]) = 0 /\ NeedsTiebreak(sets[i], i, rules)

ScoresAgree == PlayedScoresAccepted /\ OnlyPlayedScoresAccepted /\ ReadersAgree /\ DialogKeepsScores
=============================================================================
