------------------------------ MODULE MCHalls ------------------------------
(* Six scenes on two grids: a full date with two who wait, seen by the     *)
(* player or by the administrator; a group with quotas and two dates; an   *)
(* even distribution with two dates; a grid whose revision is not the      *)
(* largest; no grid yet.                                                   *)
EXTENDS Halls, TLC
CONSTANTS g1, g2, s1, s2, p1, p2, p3

MCGridOf == s1 :> g1 @@ s2 :> g1
NewGrid == [rev |-> 1, mode |-> "equal", active |-> TRUE, open |-> TRUE, cap |-> 1, wait |-> 1,
            members |-> {p1, p2, p3}, constraints |-> {}]
Other == [NewGrid EXCEPT !.rev = 2, !.members = {}]
Absent == [NewGrid EXCEPT !.rev = 0]
On(when) == [on |-> TRUE, cap |-> 1, when |-> when]
Off == [on |-> FALSE, cap |-> 1, when |-> 4]
Booked1 == [NoEntries EXCEPT !.confirmed = {p1}]
Line == [confirmed |-> {p2}, waiting |-> {p3, p1}, before |-> {<<p3, p1>>}]

Scene(pages, first, second, slot1, slot2, line) ==
    [open |-> pages, grid |-> g1 :> first @@ g2 :> second,
     slot |-> s1 :> slot1 @@ s2 :> slot2, queue |-> s1 :> line @@ s2 :> NoEntries]
MCScenes ==
    {Scene({who}, [NewGrid EXCEPT !.rev = 3], Other, On(2), Off, Line) : who \in {"player", "admin"}} \cup
    {Scene({"player"}, [NewGrid EXCEPT !.mode = "fair", !.rev = 3], Other, On(4), On(3), Booked1),
     Scene({"admin"}, [NewGrid EXCEPT !.rev = 3], Other, On(4), On(1), Booked1),
     Scene({"admin"}, [NewGrid EXCEPT !.rev = 2], [Other EXCEPT !.rev = 3], On(4), Off, NoEntries),
     Scene({"admin"}, Absent, Absent, Off, Off, NoEntries)}
=============================================================================
