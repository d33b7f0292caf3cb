-------------------------- MODULE MCWritePipeline --------------------------
(* One user who tries twice, with faults; or two users' writes at the same   *)
(* time, without them.                                                       *)
EXTENDS WritePipeline

CONSTANTS entry, result

MCInit == Start({result}, 0) \/ Start({}, MaxFaults)
MCSpec == MCInit /\ [][Next]_vars /\ Fairness
=============================================================================
