----------------------------- MODULE MCExperiment -----------------------------
(* Small instances of Experiment for TLC. *)
EXTENDS Experiment, TLC

CONSTANTS r1, r2, i1, i2, e1, n1, n2

MCNameOf == [e \in Rule |-> n1]

Symmetries == Permutations(Runner) \cup Permutations(Item)
=============================================================================
