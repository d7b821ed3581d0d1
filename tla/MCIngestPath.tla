---------------------------- MODULE MCIngestPath ----------------------------
(* Small instances of IngestPath for TLC. *)
EXTENDS IngestPath

\* The second event has no event_id.
MCBad == {2}
=============================================================================
