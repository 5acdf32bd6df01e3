----------------------------- MODULE MCSessionTurns -----------------------------
(* Small instances of SessionTurns. *)
EXTENDS SessionTurns, TLC

MCTasks == 1..MaxTurns

(* The processes are interchangeable: sound for the safety properties. *)
MCSymmetry == Permutations(Procs)
================================================================================
