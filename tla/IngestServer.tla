----------------------------- MODULE IngestServer -----------------------------
(***************************************************************************)
(* The ingestion server (ingestion-server/server.py): IngestBatch takes a  *)
(* batch, authenticates it, rejects the events that do not validate and    *)
(* appends the others to the `events` stream in a pipeline that is not a   *)
(* transaction.  Between any two commands of the pipeline the connection   *)
(* may break, the process may be killed, or the client may stop waiting.   *)
(***************************************************************************)
EXTENDS IngestRpc

CONSTANTS
  Bad,             \* events _validate refuses
  MaxBatchEvents,  \* MAX_BATCH_EVENTS
  MaxTrouble       \* bound: failures and signals

ASSUME ServerAssumption ==
  Bad \subseteq Event /\ MaxBatchEvents \in Nat /\ MaxTrouble \in Nat

VARIABLES
  server,   \* the process: up, draining after SIGTERM, or down
  stage,    \* how far the handler of each call has come
  todo,     \* the events its pipeline has still to append
  stream,   \* events ever appended to `events`
  trouble   \* failures so far

serverVars == <<server, stage, todo, stream, trouble>>

Stage == {"none", "auth", "check", "pipe", "over"}
Handled == {c \in Event : stage[c] \in {"auth", "check", "pipe"}}

ServerTypeOK ==
  /\ server \in {"up", "draining", "down"}
  /\ stage \in [Event -> Stage] /\ todo \in [Event -> SUBSET Event]
  /\ stream \subseteq Event /\ trouble \in 0..MaxTrouble

ServerInit ==
  /\ server = "up"
  /\ stage = [c \in Event |-> "none"] /\ todo = [c \in Event |-> {}]
  /\ stream = {} /\ trouble = 0

Trouble == trouble < MaxTrouble /\ trouble' = trouble + 1
Proceed(c, s) == stage' = [stage EXCEPT ![c] = s]

\* The handler ends; its locals go.
Over(c) == Proceed(c, "over") /\ todo' = [todo EXCEPT ![c] = {}]

\* context.abort(): the client is told, if it still listens.
Abort(c) == Over(c) /\ FailCalls({c})
-----------------------------------------------------------------------------
\* A call reaches the server, or finds nobody who accepts it.
Arrive(c) ==
  /\ c \in Open /\ stage[c] = "none" /\ server = "up"
  /\ Proceed(c, "auth")
  /\ UNCHANGED <<rpc, server, todo, stream, trouble>>

Unavailable(c) ==
  /\ c \in Open /\ stage[c] = "none" /\ server # "up"
  /\ FailCalls({c})
  /\ UNCHANGED serverVars

\* _authenticate(): the key is good, or it is not, or the key table cannot be
\* read.
Authenticate(c) ==
  /\ stage[c] = "auth"
  /\ \/ Proceed(c, "check") /\ UNCHANGED <<rpc, todo, trouble>>
     \/ Abort(c) /\ Trouble
  /\ UNCHANGED <<server, stream>>

\* The loop over request.events: a bad one is an error of its own and costs
\* the others nothing.
Validate(c) ==
  /\ stage[c] = "check" /\ Cardinality(rpc[c].batch) <= MaxBatchEvents
  /\ todo' = [todo EXCEPT ![c] = rpc[c].batch \ Bad]
  /\ Proceed(c, "pipe")
  /\ UNCHANGED <<rpc, server, stream, trouble>>

TooLarge(c) ==
  /\ stage[c] = "check" /\ Cardinality(rpc[c].batch) > MaxBatchEvents
  /\ Abort(c)
  /\ UNCHANGED <<server, stream, trouble>>

\* One XADD of the pipeline.
Append(c) ==
  /\ stage[c] = "pipe"
  /\ \E e \in todo[c] :
       /\ stream' = stream \cup {e}
       /\ todo' = [todo EXCEPT ![c] = @ \ {e}]
  /\ UNCHANGED <<rpc, server, stage, trouble>>

\* The pipeline breaks: the Redis client starts it again, or gives up and the
\* client hears UNAVAILABLE.  What was appended stays.
PipeBreaks(c) ==
  /\ stage[c] = "pipe" /\ rpc[c].batch \ Bad # {}
  /\ Trouble
  /\ \/ /\ todo' = [todo EXCEPT ![c] = rpc[c].batch \ Bad]
        /\ UNCHANGED <<rpc, stage>>
     \/ Abort(c)
  /\ UNCHANGED <<server, stream>>

\* IngestBatchResponse(accepted, errors).
Answer(c) ==
  /\ Over(c)
  /\ rpc' = IF c \in Open
            THEN [rpc EXCEPT ![c].state = "ok", ![c].accepted = rpc[c].batch \ Bad]
            ELSE rpc

\* Faulty variant: the pipeline is not awaited.
ReplyEarly(c) ==
  /\ stage[c] = "pipe"
  /\ Answer(c)
  /\ UNCHANGED <<server, stream, trouble>>

Reply(c) ==
  /\ stage[c] = "pipe" /\ todo[c] = {}
  /\ Answer(c)
  /\ UNCHANGED <<server, stream, trouble>>

\* Nobody waits for the answer any more: the handler is cancelled.
Cancel(c) ==
  /\ c \in Handled /\ c \notin Open
  /\ Over(c)
  /\ UNCHANGED <<rpc, server, stream, trouble>>
-----------------------------------------------------------------------------
\* serve().
Sigterm ==
  /\ server = "up" /\ Trouble
  /\ server' = "draining"
  /\ UNCHANGED <<rpc, stage, todo, stream>>

\* The end of the process: killed, or the grace of stop() is over.  Handlers
\* still at work end with it.
Ends ==
  /\ \/ server = "draining" /\ UNCHANGED trouble
     \/ server # "down" /\ Trouble
  /\ server' = "down"
  /\ FailCalls(Handled)
  /\ stage' = [c \in Event |-> IF c \in Handled THEN "over" ELSE stage[c]]
  /\ todo' = [c \in Event |-> IF c \in Handled THEN {} ELSE todo[c]]
  /\ UNCHANGED stream

Restarts ==
  /\ server = "down"
  /\ server' = "up"
  /\ UNCHANGED <<rpc, stage, todo, stream, trouble>>

Handle(c) ==
  \/ Arrive(c) \/ Unavailable(c) \/ Authenticate(c) \/ Validate(c)
  \/ TooLarge(c) \/ Append(c) \/ PipeBreaks(c) \/ Reply(c) \/ Cancel(c)

ServerNext == Sigterm \/ Ends \/ Restarts \/ \E c \in Event : Handle(c)
=============================================================================
