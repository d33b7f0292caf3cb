--------------------------- MODULE MCCourtScores ---------------------------
(***************************************************************************)
(* One court with one request at a time and a source with one score beside *)
(* zero; or the page that shows the courts; or two courts that follow      *)
(* their match.                                                            *)
(***************************************************************************)
EXTENDS CourtScores, Scoreboard, CourtAutomation, TLC

CONSTANTS fixture

Bounds(c, f, l, r, u) == [changes |-> c, faults |-> f, losses |-> l, restarts |-> r, resumes |-> u]
SmallBoards == {Bounds(2, 0, 0, 0, 0), Bounds(1, 1, 1, 0, 0), Bounds(1, 0, 1, 1, 0), Bounds(1, 0, 0, 0, 1)}

\* An appointment two ticks away, or now, and what happens to the courts, the match and the server.
Appointment(at, opens, plans, failing) ==
  [plan |-> (fixture :> [date |-> at, completed |-> FALSE]),
   bounds |-> [opens |-> opens, plans |-> plans, faults |-> failing]]
SmallMatches == {Appointment(2, 2, 0, 0), Appointment(1, 1, 1, 0), Appointment(1, 1, 0, 1)}

VARIABLE side       \* the part that moves
allVars == <<side, vars, boardVars, autoVars>>
StillBoard == budget = Bounds(2, 0, 0, 0, 0)
StillAutomation == quota.opens = 2
BothInit == /\ Init /\ ScoreboardInit /\ AutomationInit
            /\ \/ side = "poller" /\ StillBoard /\ StillAutomation
               \/ side = "board" /\ StillAutomation
               \/ side = "automation" /\ StillBoard
BothNext == \/ side = "poller" /\ Next /\ UNCHANGED <<side, boardVars, autoVars>>
            \/ side = "board" /\ ScoreboardNext /\ UNCHANGED <<side, vars, autoVars>>
            \/ side = "automation" /\ AutomationNext /\ UNCHANGED <<side, vars, boardVars>>
BothSpec == BothInit /\ [][BothNext]_allVars /\ Fairness

=============================================================================
