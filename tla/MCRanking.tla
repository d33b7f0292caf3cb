----------------------------- MODULE MCRanking -----------------------------
(***************************************************************************)
(* A list of two players and a newcomer, and a full list of three; and the *)
(* page of the list before a player, a newcomer, and somebody who signs in *)
(* and out while answers are lost.                                         *)
(***************************************************************************)
EXTENDS RankingPage, TLC

CONSTANTS anna, bert, cleo

MCPlayers == {anna, bert, cleo}
\* A newcomer before a list of two, with a year longer than the behaviour; and a full
\* list whose claims expire, with an administrator's plans and two requests in flight.
ListScenes ==
  { [seeded |-> <<anna, bert>>, plans |-> {}, year |-> 2, end |-> 9, pending |-> 1, writes |-> 4,
     viewer |-> None, unsteady |-> FALSE],
    [seeded |-> <<anna, bert, cleo>>,
     plans |-> {(anna :> 2 @@ bert :> 1 @@ cleo :> 3), (anna :> 3 @@ bert :> 1 @@ cleo :> 0)},
     year |-> 1, end |-> 3, pending |-> 2, writes |-> 3, viewer |-> None, unsteady |-> FALSE] }
PageScene(list, viewer, newYear, lastDay, writing, unsteady) ==
  [seeded |-> list, plans |-> {}, year |-> newYear, end |-> lastDay, pending |-> 1, writes |-> writing,
   viewer |-> viewer, unsteady |-> unsteady]
MCScenes == ListScenes \cup {PageScene(<<anna, bert, cleo>>, bert, 2, 1, 2, FALSE),
                             PageScene(<<anna, bert>>, cleo, 2, 9, 2, FALSE),
                             PageScene(<<anna, bert>>, bert, 1, 1, 1, TRUE)}
=============================================================================
