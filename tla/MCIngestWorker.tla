--------------------------- MODULE MCIngestWorker ---------------------------
(* Small instances of IngestWorker for TLC. *)
EXTENDS IngestWorker, TLC

CONSTANTS t1, t2

\* The first and third entries belong to one trace, the second to another.
MCTraceOf == [m \in Id |-> IF m = 2 THEN t2 ELSE t1]

\* Workers are interchangeable; used only where no liveness is checked.
Symmetry == Permutations(Worker)
=============================================================================
