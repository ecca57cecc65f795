------------------------------ MODULE MCNonces ------------------------------
(* A CPU worker and a GPU worker with blocks of different sizes. *)
EXTENDS Nonces, TLC

CONSTANTS cpu, gpu

MCWorker  == {cpu, gpu}
MCReserve == (cpu :> 2) @@ (gpu :> 3)

(* States that differ only in what a worker writes before it reads it      *)
(* again are explored once: its sequence number outside of a round, and    *)
(* its fee job while it has a user job (WorkerJob::add).                   *)
Live(r) == [r EXCEPT !.fresh = @ /\ r.pc = "work",
                     !.job[1] = IF r.index = 0 THEN NoJob ELSE @]

View == <<counter, paused, minerVars, ready, async, todo, ghosts, [i \in Worker |-> Live(w[i])]>>
=============================================================================
