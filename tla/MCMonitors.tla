----------------------------- MODULE MCMonitors -----------------------------
(* Four scenes: three commands on one connection; two commands whose       *)
(* acknowledgements are refused twice; two commands, a reconnection and    *)
(* one disturbance; one command, two disturbances and a refusal.           *)
EXTENDS Monitors
MCSpent == {<<0, 1, 2, 2>>, <<1, 1, 2, 0>>, <<1, 0, 1, 2>>, <<2, 1, 0, 1>>}
=============================================================================
