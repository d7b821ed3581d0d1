------------------------------ MODULE SdkClient ------------------------------
(***************************************************************************)
(* The transport half of the Python SDK (sdk/openweave.py, OpenWeave       *)
(* 225-327): a bounded queue that application threads put events into, a   *)
(* daemon thread that drains and sends it, and flush() and shutdown(),     *)
(* which drain and send the same queue from the caller's thread.           *)
(*                                                                         *)
(* Every queue operation is a step, so that two threads that drain at the  *)
(* same time share the events out between them one by one.  Events are     *)
(* numbered in the order they are put, which is the order of the queue.    *)
(***************************************************************************)
EXTENDS IngestRpc

CONSTANTS
  App,       \* application threads
  Flusher,   \* the thread `openweave-flush`
  MaxQueue,  \* max_queue
  MaxBatch   \* max_batch

Thread == App \cup {Flusher}

ASSUME ClientAssumption ==
  /\ Flusher \notin App
  /\ MaxQueue \in Nat \ {0} /\ MaxBatch \in Nat \ {0}

VARIABLES
  made,      \* events put so far
  queue,     \* _queue
  pc,        \* the next step of each thread
  batch,     \* what it has drained and not settled
  late,      \* the deadline of its flush() has passed
  leaving,   \* its flush() was called by shutdown()
  stop,      \* _stop
  closed,    \* the channel is closed
  dropped,   \* events counted by _dropped
  sent,      \* events counted by _sent
  rejected,  \* events the response lists as errors
  lost,      \* events of batches that were given up, counted nowhere
  raised     \* application threads an exception reached

clientVars == <<made, queue, pc, batch, late, leaving, stop, closed, dropped,
                sent, rejected, lost, raised>>
bookkeeping == <<made, dropped, sent, rejected, lost, raised>>

Draining == {"check", "drain", "recheck", "call", "await"}
ClientPC == Draining \cup {"idle", "stopping", "closing", "top", "wait", "over"}

ClientTypeOK ==
  /\ rpc \in [Event -> IngestBatch]
  /\ made \in 0..MaxEvents
  /\ queue \subseteq Event /\ Cardinality(queue) <= MaxQueue
  /\ pc \in [Thread -> ClientPC] /\ batch \in [Thread -> SUBSET Event]
  /\ late \in [Thread -> BOOLEAN] /\ leaving \in [Thread -> BOOLEAN]
  /\ stop \in BOOLEAN /\ closed \in BOOLEAN
  /\ dropped \subseteq Event /\ sent \subseteq Event
  /\ rejected \subseteq Event /\ lost \subseteq Event /\ raised \subseteq App

ClientInit ==
  /\ rpc = [c \in Event |-> NoCall]
  /\ made = 0 /\ queue = {}
  /\ pc = [t \in Thread |-> IF t = Flusher THEN "top" ELSE "idle"]
  /\ batch = [t \in Thread |-> {}]
  /\ late = [t \in Thread |-> FALSE] /\ leaving = [t \in Thread |-> FALSE]
  /\ stop = FALSE /\ closed = FALSE
  /\ dropped = {} /\ sent = {} /\ rejected = {} /\ lost = {} /\ raised = {}

Goto(t, l) == pc' = [pc EXCEPT ![t] = l]
-----------------------------------------------------------------------------
(* What the application calls.                                             *)

\* Faulty variants: the queue has no limit, or ...
EnqueueUnbounded(t) ==
  /\ pc[t] = "idle" /\ made < MaxEvents
  /\ made' = made + 1
  /\ queue' = queue \cup {made + 1}
  /\ UNCHANGED <<rpc, pc, batch, stop, closed, dropped, sent, rejected, lost,
                 raised, late, leaving>>

\* ... the newest event pushes the oldest one out, uncounted.
EnqueueEvicts(t) ==
  /\ pc[t] = "idle" /\ made < MaxEvents
  /\ made' = made + 1
  /\ IF Cardinality(queue) < MaxQueue
     THEN queue' = queue \cup {made + 1}
     ELSE \E e \in queue :
            IsOldest(e, queue) /\ queue' = (queue \ {e}) \cup {made + 1}
  /\ UNCHANGED <<rpc, pc, batch, stop, closed, dropped, sent, rejected, lost,
                 raised, late, leaving>>

\* _enqueue(): never blocks; a full queue drops the newest event.
Enqueue(t) ==
  /\ pc[t] = "idle" /\ made < MaxEvents
  /\ made' = made + 1
  /\ IF Cardinality(queue) < MaxQueue
     THEN queue' = queue \cup {made + 1} /\ UNCHANGED dropped
     ELSE dropped' = dropped \cup {made + 1} /\ UNCHANGED queue
  /\ UNCHANGED <<rpc, pc, batch, stop, closed, sent, rejected, lost, raised,
                 late, leaving>>

BeginFlush(t) ==
  /\ pc[t] = "idle"
  /\ Goto(t, "check")
  /\ late' = [late EXCEPT ![t] = FALSE]
  /\ UNCHANGED <<rpc, queue, batch, stop, closed, bookkeeping>>

Flush(t) == BeginFlush(t) /\ UNCHANGED leaving

\* shutdown(): a flush first; a second call returns at once.
Shutdown(t) ==
  /\ ~stop /\ BeginFlush(t)
  /\ leaving' = [leaving EXCEPT ![t] = TRUE]
-----------------------------------------------------------------------------
(* _drain() and _send(), from either kind of thread.                       *)

\* get_nowait(), once.
Take(t) ==
  /\ pc[t] = "drain" /\ Cardinality(batch[t]) < MaxBatch
  /\ \E e \in queue :
       /\ IsOldest(e, queue)
       /\ queue' = queue \ {e}
       /\ batch' = [batch EXCEPT ![t] = @ \cup {e}]
  /\ UNCHANGED <<rpc, pc, stop, closed, bookkeeping, late, leaving>>

\* The batch is full or the queue was empty.
Drained(t) ==
  /\ pc[t] = "drain"
  /\ Cardinality(batch[t]) >= MaxBatch \/ queue = {}
  /\ Goto(t, IF batch[t] # {} THEN "call"
             ELSE IF t = Flusher THEN "top" ELSE "recheck")
  /\ UNCHANGED <<rpc, queue, batch, stop, closed, bookkeeping, late, leaving>>

Call(t) ==
  /\ pc[t] = "call" /\ ~closed
  /\ \E c \in batch[t] :
       /\ IsOldest(c, batch[t])
       /\ rpc' = [rpc EXCEPT ![c] = [state |-> "open", batch |-> batch[t],
                                     accepted |-> {}]]
  /\ Goto(t, "await")
  /\ UNCHANGED <<queue, batch, stop, closed, bookkeeping, late, leaving>>

\* A closed channel raises ValueError, which is not an RpcError: it ends the
\* flush thread, or leaves flush() through the application.
CallRaises(t) ==
  /\ pc[t] = "call" /\ closed
  /\ lost' = lost \cup batch[t]
  /\ batch' = [batch EXCEPT ![t] = {}]
  /\ raised' = raised \cup (App \cap {t})
  /\ leaving' = [leaving EXCEPT ![t] = FALSE]
  /\ late' = [late EXCEPT ![t] = FALSE]
  /\ Goto(t, IF t = Flusher THEN "over" ELSE "idle")
  /\ UNCHANGED <<rpc, queue, stop, closed, made, dropped, sent, rejected>>

\* timeout=10 of the call: the client gives up, whatever the server does.
CallTimesOut(c) ==
  /\ c \in Open
  /\ FailCalls({c})
  /\ UNCHANGED clientVars

\* The call of thread t has an outcome.
Outcome(t, c, s) ==
  /\ pc[t] = "await" /\ IsOldest(c, batch[t]) /\ rpc[c].state = s
  /\ batch' = [batch EXCEPT ![t] = {}]
  /\ UNCHANGED <<rpc, queue, stop, closed, made, dropped, raised, late, leaving>>
NextRound(t) == Goto(t, IF t = Flusher THEN "top" ELSE "check")

Answered(t, c) ==
  /\ Outcome(t, c, "ok")
  /\ sent' = sent \cup rpc[c].accepted
  /\ rejected' = rejected \cup (batch[t] \ rpc[c].accepted)
  /\ NextRound(t) /\ UNCHANGED lost

\* Faulty variant: the RpcError is not caught and ends the flush thread.
FailedUncaught(t, c) ==
  /\ Outcome(t, c, "failed")
  /\ lost' = lost \cup batch[t]
  /\ Goto(t, IF t = Flusher THEN "over" ELSE "check")
  /\ UNCHANGED <<sent, rejected>>

\* RpcError: the batch is dropped with a warning, never sent again.
Failed(t, c) ==
  /\ Outcome(t, c, "failed")
  /\ lost' = lost \cup batch[t]
  /\ NextRound(t) /\ UNCHANGED <<sent, rejected>>
-----------------------------------------------------------------------------
(* _run(): the flush thread.                                               *)

FlusherTop ==
  /\ pc[Flusher] = "top"
  /\ Goto(Flusher, IF stop THEN "over" ELSE "wait")
  /\ UNCHANGED <<rpc, queue, batch, stop, closed, bookkeeping, late, leaving>>

\* _flush_interval has passed, or stop was set: it drains once more.
FlusherWakes ==
  /\ pc[Flusher] = "wait"
  /\ Goto(Flusher, "drain")
  /\ UNCHANGED <<rpc, queue, batch, stop, closed, bookkeeping, late, leaving>>
-----------------------------------------------------------------------------
(* flush() and shutdown().                                                 *)

\* flush() returns; its locals go.
FlushEnds(t) ==
  /\ Goto(t, IF leaving[t] THEN "stopping" ELSE "idle")
  /\ late' = [late EXCEPT ![t] = FALSE]

DeadlinePasses(t) ==
  /\ pc[t] \in Draining /\ t # Flusher /\ ~late[t]
  /\ late' = [late EXCEPT ![t] = TRUE]
  /\ UNCHANGED <<rpc, queue, pc, batch, stop, closed, bookkeeping, leaving>>

\* `while time.monotonic() < deadline`
FlushLoop(t) ==
  /\ pc[t] = "check"
  /\ \/ late[t] /\ FlushEnds(t)
     \/ ~late[t] /\ Goto(t, "drain") /\ UNCHANGED late
  /\ UNCHANGED <<rpc, queue, batch, stop, closed, bookkeeping, leaving>>

\* Nothing was drained: `if self._queue.empty(): return`, else once more.
Recheck(t) ==
  /\ pc[t] = "recheck"
  /\ \/ queue = {} /\ FlushEnds(t)
     \/ queue # {} /\ Goto(t, "check") /\ UNCHANGED late
  /\ UNCHANGED <<rpc, queue, batch, stop, closed, bookkeeping, leaving>>

SetStop(t) ==
  /\ pc[t] = "stopping"
  /\ stop' = TRUE
  /\ Goto(t, "closing")
  /\ UNCHANGED <<rpc, queue, batch, closed, bookkeeping, late, leaving>>

\* _channel.close() cancels every call that is under way.
Close(t) ==
  /\ pc[t] = "closing"
  /\ closed' = TRUE
  /\ FailCalls(Event)
  /\ leaving' = [leaving EXCEPT ![t] = FALSE]
  /\ Goto(t, "idle")
  /\ UNCHANGED <<queue, batch, stop, bookkeeping, late>>
-----------------------------------------------------------------------------
\* What a thread does on its own once it is inside the SDK.
ThreadStep(t) ==
  \/ Take(t) \/ Drained(t) \/ Call(t) \/ CallRaises(t)
  \/ \E c \in Event : Answered(t, c) \/ Failed(t, c)

AppStep(t) == FlushLoop(t) \/ Recheck(t) \/ SetStop(t) \/ Close(t)

ClientNext ==
  \/ \E t \in App : Enqueue(t) \/ Flush(t) \/ Shutdown(t) \/ DeadlinePasses(t)
                      \/ AppStep(t)
  \/ \E t \in Thread : ThreadStep(t)
  \/ FlusherTop \/ FlusherWakes
  \/ \E c \in Event : CallTimesOut(c)
=============================================================================
