---------------------------- MODULE MCScheduler ----------------------------
(* Instances of Scheduler: two bursts of threads of one process, one burst for   *)
(* each process of "named", and two threads that count.                       *)
EXTENDS Scheduler

MCMaxBursts ==
    [p \in Programs |-> IF p \in {"named", "counter"} THEN 1 ELSE 2]
=============================================================================
