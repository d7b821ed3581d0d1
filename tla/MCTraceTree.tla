------------------------------ MODULE MCTraceTree ------------------------------
(* Small instances of TraceTree for TLC. *)
EXTENDS TraceTree, TLC

CONSTANTS t1, t2, x1, x2, s1, s2, s3

\* Ids are interchangeable.
IdSymmetry == Permutations(Trace) \cup Permutations(Span)
=============================================================================
