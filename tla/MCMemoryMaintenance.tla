--------------------------- MODULE MCMemoryMaintenance ---------------------------
(* Small instances of MemoryMaintenance. *)
EXTENDS MemoryMaintenance, TLC

(* The workers are interchangeable: sound for the safety properties. *)
MCSymmetry == Permutations(Workers)
================================================================================
