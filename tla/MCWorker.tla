------------------------------ MODULE MCWorker ------------------------------
(***************************************************************************)
(* Two workers, a job, an outbox row and a job whose type no handler is    *)
(* registered for.                                                         *)
(***************************************************************************)
EXTENDS Worker

CONSTANTS w1, w2, job, mail, foreign

MCWorkers == {w1, w2}
MCItems == {job, mail, foreign}
MCOutbox == {mail}
MCSupported == {job, mail}
=============================================================================
