---------------------------- MODULE MCEventMerge ----------------------------
(* The shapes of events the clients of the repository send.                *)
EXTENDS EventMerge, TLC

CONSTANTS t1, o1, s1

OneTraceOf == o1 :> t1

\* sdk/openweave.py: trace() and _TraceHandle.update()
SdkTraces == {{"timestamp", "name", "is_experiment"}, {"output"}}
\* _start_span(), which always sends a level
SdkCreates == {{"type", "name", "level", "start_time"}}
\* _end_span(), Span.update()
SdkUpdates == {{"end_time", "output"}, {"end_time", "level"}, {"output"}}

\* Clients of the gRPC API that send less than the SDK does, for generations.
PartialCreates == {{"type", "start_time"}, {"type", "name"}}
PartialUpdates == {{"level"}, {"model"}, {"usage"},
                   {"model", "usage", "end_time"}, {"cost"}}
NoShapes == {}

\* All of them together: a level may come with the create and with an update.
ClientCreates == PartialCreates \cup SdkCreates
ClientUpdates == PartialUpdates \cup {{"end_time", "output"}}
=============================================================================
