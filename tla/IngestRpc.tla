------------------------------ MODULE IngestRpc ------------------------------
(***************************************************************************)
(* What the SDK client and the ingestion server share: the events, numbered*)
(* in the order the program makes them, and the IngestBatch calls          *)
(* (proto/openweave.proto).  Every event is in at most one call, so a call *)
(* is named by the oldest event of its batch.                              *)
(***************************************************************************)
EXTENDS Naturals, FiniteSets

CONSTANT MaxEvents   \* bound: events the program makes

ASSUME EventsAssumption == MaxEvents \in Nat

Event == 1..MaxEvents

VARIABLE rpc   \* the calls; "open" until the client has an outcome

IngestBatch ==
  [state : {"none", "open", "ok", "failed"},
   batch : SUBSET Event,      \* IngestBatchRequest.events
   accepted : SUBSET Event]   \* what IngestBatchResponse does not reject

NoCall == [state |-> "none", batch |-> {}, accepted |-> {}]

IsOldest(e, S) == e \in S /\ \A f \in S : e <= f

\* Calls whose client no longer waits, or does not know the outcome yet.
Open   == {c \in Event : rpc[c].state = "open"}

\* The calls of C get no answer.
FailCalls(C) ==
  rpc' = [c \in Event |-> IF c \in C \cap Open
                          THEN [rpc[c] EXCEPT !.state = "failed"] ELSE rpc[c]]
=============================================================================
