---------------------------- MODULE MCCompetition ----------------------------
(***************************************************************************)
(* Competitions for TLC: the scores of a match (Scores), the matches of a  *)
(* bracket or group (Tournament), the list of entries (Entries).  The      *)
(* three share no state, and each initial state lets one of them move.     *)
(***************************************************************************)
EXTENDS Scores, Tournament, Entries, TLC

CONSTANTS p1, p2, p3, p4,      \* players
          admin,
          vf, hf, f, g1        \* matches: quarter-final, semi-final, final, in a group

VARIABLE part                  \* the one that moves

vars == <<part, scoreVars, tournamentVars, entryVars>>

-----------------------------------------------------------------------------
(* Scores: three formats played from the start, and three played on from   *)
(* a score that is typed or given.                                         *)
Played(rulesOf, typed, start, points) ==
  [rules |-> rulesOf, typed |-> typed, start |-> start, points |-> points]
ManyFormats ==
  {Played(RulesOf(2, 6, 7), 0, <<>>, {8}), Played(RulesOf(2, 4, 10), 0, <<>>, {4}),
   Played(RulesOf(3, 4, 0), 0, <<>>, {8}), Played(RulesOf(2, 6, 0), 1, <<>>, {4, 8}),
   Played(RulesOf(2, 4, 10), 2, <<>>, {4}),
   Played(RulesOf(2, 6, 7), 3, <<Set(6, 4, -1), Set(6, 7, 4)>>, {4})}

-----------------------------------------------------------------------------
(* Tournament: a chain of three rounds, a semi-final whose link to the     *)
(* final is missing, one match of a group watched on the page.             *)
BestOfThree == RulesOf(2, 4, 7)

Completion(kind, losingSide, played) == [kind |-> kind, losingSide |-> losingSide, sets |-> played]
Twice(a, b) == <<Set(a, b, -1), Set(a, b, -1)>>
At(round, slot) == [round |-> round, slot |-> slot]
Feed(match, side) == [match |-> match, side |-> side]

Chain ==
  [at |-> vf :> At(1, 1) @@ hf :> At(2, 1) @@ f :> At(3, 1), size |-> 3,
   seats |-> vf :> <<p1, p2>> @@ hf :> <<Open, p3>> @@ f :> <<Open, p4>>,
   drawn |-> vf :> <<{p1}, {p2}>> @@ hf :> <<{p1, p2}, {p3}>> @@ f :> <<{p1, p2, p3}, {p4}>>,
   feeds |-> vf :> Feed(hf, 1) @@ hf :> Feed(f, 1),
   completions |-> {Completion("walkover", 1, <<>>), Completion("walkover", 2, <<>>)},
   moments |-> {"ahead"}, writes |-> 4, users |-> {admin}, watched |-> FALSE]

LinkMissing ==
  [at |-> hf :> At(1, 1) @@ f :> At(2, 1), size |-> 2,
   seats |-> hf :> <<p1, p2>> @@ f :> <<Open, p4>>,
   drawn |-> hf :> <<{p1}, {p2}>> @@ f :> <<{p1, p2}, {p4}>>, feeds |-> [m \in {} |-> 0],
   completions |-> {Completion("regular", 0, Twice(4, 0)), Completion("regular", 0, Twice(1, 4)),
                    Completion("regular", 0, <<Set(4, 0, -1)>>), Completion("walkover", 2, <<>>),
                    Completion("retirement", 1, <<Set(3, 1, -1)>>), Completion("retirement", 0, <<>>)},
   moments |-> {"ahead", "lately", "long"}, writes |-> 3, users |-> {admin, p1}, watched |-> FALSE]

Group ==
  [at |-> g1 :> At(0, 1), size |-> 0, seats |-> g1 :> <<p1, p2>>, drawn |-> g1 :> <<{p1}, {p2}>>,
   feeds |-> [m \in {} |-> 0],
   completions |-> {Completion("walkover", 1, <<>>), Completion("retirement", 1, <<Set(3, 1, -1)>>)},
   moments |-> {"long"}, writes |-> 2, users |-> {admin}, watched |-> TRUE]

SmallBrackets == {Chain, LinkMissing, Group}

-----------------------------------------------------------------------------
(* Entries: one page that presses three times and meets two faults; one    *)
(* that presses twice, with loads that cross; two pages without faults.    *)
Situation(pages, pressed, faults, loads) ==
  [pages |-> pages, presses |-> pressed, faults |-> faults, loads |-> loads]
SmallSituations == {Situation({1}, 3, 2, 1), Situation({1}, 2, 2, 2), Situation({1, 2}, 2, 0, 2)}

-----------------------------------------------------------------------------
ScoresRest == format = Played(RulesOf(2, 6, 7), 0, <<>>, {8})
TournamentRests == competition = Group
EntriesRest == phase = 0 /\ situation = Situation({1}, 3, 2, 1)

Init == /\ ScoreInit /\ TournamentInit /\ EntryInit
        /\ \/ part = "scores" /\ TournamentRests /\ EntriesRest
           \/ part = "tournament" /\ ScoresRest /\ EntriesRest
           \/ part = "entries" /\ ScoresRest /\ TournamentRests

Next == \/ part = "scores" /\ ScoreNext /\ UNCHANGED <<part, tournamentVars, entryVars>>
        \/ part = "tournament" /\ TournamentNext /\ UNCHANGED <<part, scoreVars, entryVars>>
        \/ part = "entries" /\ EntryNext /\ UNCHANGED <<part, scoreVars, tournamentVars>>

Spec == Init /\ [][Next]_vars
=============================================================================
