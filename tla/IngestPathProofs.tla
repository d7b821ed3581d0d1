--------------------------- MODULE IngestPathProofs ---------------------------
(***************************************************************************)
(* Proofs about IngestPath, for any number of threads, events and failures,*)
(* and any limits: every event is accounted for, and the path implements   *)
(* Handover.  IInv is shown inductive one part at a time.                  *)
(***************************************************************************)
EXTENDS IngestPath, FiniteSetTheorems, TLAPS

\* The threads.
LEMMA Flushers == Flusher \in Thread /\ App \subseteq Thread
  BY DEF Thread

LEMMA EventsFinite == ASSUME NEW S \in SUBSET Event PROVE IsFiniteSet(S)
<1>1. 1 \in Int /\ MaxEvents \in Int
  BY EventsAssumption
<1>2. IsFiniteSet(Event)
  BY <1>1, FS_Interval DEF Event
<1>3. QED
  BY <1>2, FS_Subset

\* Failing calls only changes the state of open ones.
LEMMA FailCallsEffect ==
  ASSUME TypeOK, NEW C, FailCalls(C)
  PROVE /\ rpc' \in [Event -> IngestBatch]
        /\ \A c \in Event :
             /\ rpc'[c].batch = rpc[c].batch
             /\ rpc'[c].accepted = rpc[c].accepted
             /\ rpc'[c].state = rpc[c].state
                \/ (rpc[c].state = "open" /\ rpc'[c].state = "failed")
<1>1. rpc \in [Event -> IngestBatch]
  BY DEF TypeOK, ClientTypeOK
<1>2. ASSUME NEW c \in Event
      PROVE /\ rpc'[c] \in IngestBatch
            /\ rpc'[c].batch = rpc[c].batch
            /\ rpc'[c].accepted = rpc[c].accepted
            /\ rpc'[c].state = rpc[c].state
               \/ (rpc[c].state = "open" /\ rpc'[c].state = "failed")
  <2>1. rpc[c] \in IngestBatch
    BY <1>1
  <2>2. CASE c \in C \cap Open
    <3>1. rpc'[c] = [rpc[c] EXCEPT !.state = "failed"]
      BY <2>2 DEF FailCalls
    <3>2. rpc[c].state = "open"
      BY <2>2 DEF Open
    <3>3. QED
      BY <2>1, <3>1, <3>2 DEF IngestBatch
  <2>3. CASE c \notin C \cap Open
    <3>1. rpc'[c] = rpc[c]
      BY <2>3 DEF FailCalls
    <3>2. QED
      BY <2>1, <3>1
  <2>4. QED
    BY <2>2, <2>3
<1>3. rpc' \in [Event -> IngestBatch]
  BY <1>2 DEF FailCalls
<1>4. QED
  BY <1>2, <1>3
-----------------------------------------------------------------------------
\* Variables keep their types, and the queue its limit.
LEMMA TypeInit == Init => TypeOK
<1> SUFFICES ASSUME Init PROVE TypeOK
  OBVIOUS
<1> USE DEF Init, ClientInit, ServerInit
<1>1. NoCall \in IngestBatch
  BY DEF NoCall, IngestBatch
<1>2. Cardinality(queue) <= MaxQueue
  <2>1. Cardinality(queue) = 0
    BY FS_EmptySet, Zenon
  <2>2. QED
    BY <2>1, ClientAssumption
<1>3. ClientTypeOK
  <2>1. rpc \in [Event -> IngestBatch]
    BY <1>1
  <2>2. pc \in [Thread -> ClientPC]
    BY DEF ClientPC, Draining
  <2>3. /\ made \in 0..MaxEvents /\ queue \subseteq Event
        /\ batch \in [Thread -> SUBSET Event]
        /\ late \in [Thread -> BOOLEAN] /\ leaving \in [Thread -> BOOLEAN]
    BY EventsAssumption
  <2>4. QED
    BY <1>2, <2>1, <2>2, <2>3 DEF ClientTypeOK
<1>4. ServerTypeOK
  BY ServerAssumption DEF ServerTypeOK, Stage
<1>5. QED
  BY <1>3, <1>4 DEF TypeOK

LEMMA ClientTypes ==
  ASSUME TypeOK, ClientNext, UNCHANGED serverVars PROVE TypeOK'
<1> USE DEF TypeOK, ClientTypeOK, bookkeeping, Goto, ClientPC, Draining
<1>0. ServerTypeOK'
  BY DEF ServerTypeOK, serverVars
<1>1. IsFiniteSet(queue) /\ Cardinality(queue) \in Nat
  BY EventsFinite, FS_CardinalityType
<1>2. ASSUME NEW t \in App, Enqueue(t) PROVE ClientTypeOK'
  <2>1. made + 1 \in Event /\ made' \in 0..MaxEvents
    BY <1>2, EventsAssumption DEF Enqueue, Event
  <2>2. queue' \subseteq Event /\ dropped' \subseteq Event
    BY <1>2, <2>1 DEF Enqueue
  <2>3. Cardinality(queue') <= MaxQueue
    <3>1. CASE Cardinality(queue) < MaxQueue
      <4>1. queue' = queue \cup {made + 1}
        BY <1>2, <3>1 DEF Enqueue
      <4>2. \/ Cardinality(queue') = Cardinality(queue)
            \/ Cardinality(queue') = Cardinality(queue) + 1
        BY <1>1, <4>1, FS_AddElement
      <4>3. QED
        BY <1>1, <3>1, <4>2, ClientAssumption
    <3>2. CASE ~(Cardinality(queue) < MaxQueue)
      BY <1>2, <3>2 DEF Enqueue
    <3>3. QED
      BY <3>1, <3>2
  <2>4. QED
    BY <1>2, <2>1, <2>2, <2>3 DEF Enqueue
<1>3. ASSUME NEW t \in App, Flush(t) \/ Shutdown(t) PROVE ClientTypeOK'
  BY <1>3, Flushers DEF Flush, Shutdown, BeginFlush
<1>4. ASSUME NEW t \in App, DeadlinePasses(t) PROVE ClientTypeOK'
  BY <1>4, Flushers DEF DeadlinePasses
<1>5. ASSUME NEW t \in App, AppStep(t) PROVE ClientTypeOK'
  <2>1. CASE FlushLoop(t) \/ Recheck(t)
    BY <2>1, Flushers DEF FlushLoop, Recheck, FlushEnds
  <2>2. CASE SetStop(t)
    BY <2>2, Flushers DEF SetStop
  <2>3. CASE Close(t)
    BY <2>3, Flushers, FailCallsEffect DEF Close
  <2>4. QED
    BY <1>5, <2>1, <2>2, <2>3 DEF AppStep
<1>6. ASSUME NEW t \in Thread, ThreadStep(t) PROVE ClientTypeOK'
  <2>1. CASE Take(t)
    <3>1. PICK e \in queue : queue' = queue \ {e}
                             /\ batch' = [batch EXCEPT ![t] = @ \cup {e}]
      BY <2>1 DEF Take
    <3>2. Cardinality(queue') <= MaxQueue
      <4>1. Cardinality(queue') = Cardinality(queue) - 1
        BY <1>1, <3>1, FS_RemoveElement
      <4>2. QED
        BY <4>1, <1>1, ClientAssumption
    <3>3. queue' \subseteq Event /\ batch' \in [Thread -> SUBSET Event]
      BY <3>1
    <3>4. QED
      BY <2>1, <3>2, <3>3 DEF Take
  <2>2. CASE Drained(t)
    BY <2>2 DEF Drained
  <2>3. CASE Call(t)
    <3>1. PICK c \in batch[t] :
            rpc' = [rpc EXCEPT ![c] = [state |-> "open", batch |-> batch[t],
                                       accepted |-> {}]]
      BY <2>3 DEF Call
    <3>2. [state |-> "open", batch |-> batch[t], accepted |-> {}] \in IngestBatch
      BY DEF IngestBatch
    <3>3. rpc' \in [Event -> IngestBatch]
      BY <3>1, <3>2
    <3>4. QED
      BY <2>3, <3>3 DEF Call
  <2>4. CASE CallRaises(t)
    BY <2>4 DEF CallRaises
  <2>5. ASSUME NEW c \in Event, Answered(t, c) \/ Failed(t, c)
        PROVE ClientTypeOK'
    <3>1. rpc[c].accepted \subseteq Event
      BY DEF IngestBatch
    <3>2. QED
      BY <2>5, <3>1 DEF Answered, Failed, Outcome, NextRound
  <2>6. QED
    BY <1>6, <2>1, <2>2, <2>3, <2>4, <2>5 DEF ThreadStep
<1>7. ASSUME FlusherTop \/ FlusherWakes PROVE ClientTypeOK'
  BY <1>7, Flushers DEF FlusherTop, FlusherWakes
<1>8. ASSUME NEW c \in Event, CallTimesOut(c) PROVE ClientTypeOK'
  BY <1>8, FailCallsEffect DEF CallTimesOut, clientVars
<1>9. QED
  BY <1>0, <1>2, <1>3, <1>4, <1>5, <1>6, <1>7, <1>8 DEF ClientNext

LEMMA ServerTypes ==
  ASSUME TypeOK, ServerNext, UNCHANGED clientVars PROVE TypeOK'
<1> USE DEF TypeOK, ServerTypeOK, Stage, Proceed, Over, Trouble
<1>1. ASSUME rpc' \in [Event -> IngestBatch], ServerTypeOK' PROVE TypeOK'
  BY <1>1 DEF ClientTypeOK, clientVars
<1>2. ASSUME Sigterm \/ Restarts PROVE TypeOK'
  BY <1>2, ServerAssumption DEF Sigterm, Restarts, ClientTypeOK, clientVars
<1>3. ASSUME Ends PROVE TypeOK'
  BY <1>1, <1>3, FailCallsEffect, ServerAssumption DEF Ends
<1>4. ASSUME NEW c \in Event, Handle(c) PROVE TypeOK'
  <2>0. rpc[c] \in IngestBatch /\ rpc[c].batch \subseteq Event
    BY DEF ClientTypeOK, IngestBatch
  <2>1. CASE Arrive(c)
    BY <2>1 DEF Arrive, ClientTypeOK, clientVars
  <2>2. CASE Unavailable(c)
    BY <1>1, <2>2, FailCallsEffect DEF Unavailable, serverVars
  <2>3. CASE Authenticate(c)
    <3>1. CASE Abort(c) /\ Trouble
      BY <1>1, <2>3, <3>1, FailCallsEffect, ServerAssumption
         DEF Authenticate, Abort
    <3>2. CASE Proceed(c, "check") /\ UNCHANGED <<rpc, todo, trouble>>
      BY <2>3, <3>2 DEF Authenticate, ClientTypeOK, clientVars
    <3>3. QED
      BY <2>3, <3>1, <3>2 DEF Authenticate
  <2>4. CASE Validate(c)
    BY <2>0, <2>4 DEF Validate, ClientTypeOK, clientVars
  <2>5. CASE TooLarge(c)
    BY <1>1, <2>5, FailCallsEffect DEF TooLarge, Abort
  <2>6. CASE Append(c)
    BY <2>6 DEF Append, ClientTypeOK, clientVars
  <2>7. CASE PipeBreaks(c)
    <3>1. CASE Abort(c)
      BY <1>1, <2>7, <3>1, FailCallsEffect, ServerAssumption
         DEF PipeBreaks, Abort
    <3>2. CASE ~Abort(c)
      BY <2>0, <2>7, <3>2, ServerAssumption
         DEF PipeBreaks, ClientTypeOK, clientVars
    <3>3. QED
      BY <3>1, <3>2
  <2>8. CASE Reply(c)
    <3>1. rpc' \in [Event -> IngestBatch]
      BY <2>0, <2>8 DEF Reply, Answer, ClientTypeOK, IngestBatch
    <3>2. QED
      BY <1>1, <2>8, <3>1 DEF Reply, Answer
  <2>9. CASE Cancel(c)
    BY <2>9 DEF Cancel, ClientTypeOK, clientVars
  <2>10. QED
    BY <1>4, <2>1, <2>2, <2>3, <2>4, <2>5, <2>6, <2>7, <2>8, <2>9 DEF Handle
<1>5. QED
  BY <1>2, <1>3, <1>4 DEF ServerNext

LEMMA TypeNext == TypeOK /\ [Next]_vars => TypeOK'
<1> SUFFICES ASSUME TypeOK, [Next]_vars PROVE TypeOK'
  OBVIOUS
<1>1. CASE UNCHANGED vars
  BY <1>1 DEF vars, clientVars, serverVars, TypeOK, ClientTypeOK, ServerTypeOK
<1>2. QED
  BY <1>1, ClientTypes, ServerTypes DEF Next

\* The queue and the batches keep to their types and limits.
THEOREM TypeCorrect == Spec => []TypeOK
<1>1. Init => TypeOK
  BY TypeInit
<1>2. TypeOK /\ [Next]_vars => TypeOK'
  BY TypeNext
<1>3. QED
  BY <1>1, <1>2, PTL DEF Spec
-----------------------------------------------------------------------------
\* The inductive invariant.  A batch and its call belong together: the call a
\* waiting thread looks at is its own, and nothing a thread has merely drained
\* was called with.
LEMMA OwnCall ==
  ASSUME TypeOK, Accounted, Calls, NEW t \in Thread, NEW c \in Event,
         pc[t] = "await", c \in batch[t], rpc[c].state # "none"
  PROVE  rpc[c].batch = batch[t]
<1>1. c \in rpc[c].batch
  BY DEF Calls, IsOldest
<1>2. c \in Held
  BY DEF Held
<1>3. c \notin Settled
  BY <1>2 DEF Accounted, Settled
<1>4. PICK u \in Thread : pc[u] = "await" /\ batch[u] = rpc[c].batch
  BY <1>1, <1>3 DEF Calls, Awaited
<1>5. u = t
  BY <1>1, <1>4 DEF Accounted
<1>6. QED
  BY <1>4, <1>5

LEMMA NotCalledYet ==
  ASSUME TypeOK, Accounted, Calls, NEW t \in Thread, NEW c \in Event,
         pc[t] # "await", c \in batch[t]
  PROVE  rpc[c].state = "none"
<1> SUFFICES ASSUME rpc[c].state # "none" PROVE FALSE
  OBVIOUS
<1>1. c \in rpc[c].batch
  BY DEF Calls, IsOldest
<1>2. c \in Held
  BY DEF Held
<1>3. c \notin Settled
  BY <1>2 DEF Accounted, Settled
<1>4. PICK u \in Thread : pc[u] = "await" /\ batch[u] = rpc[c].batch
  BY <1>1, <1>3 DEF Calls, Awaited
<1>5. QED
  BY <1>1, <1>4 DEF Accounted

\* Steps that move no event: at most calls fail.
Gentle ==
  /\ UNCHANGED <<made, queue, batch, dropped, sent, rejected, lost>>
  /\ \A t \in Thread : pc'[t] = "await" <=> pc[t] = "await"
  /\ \A c \in Event :
       /\ rpc'[c].batch = rpc[c].batch
       /\ rpc'[c].accepted = rpc[c].accepted
       /\ \/ rpc'[c].state = rpc[c].state
          \/ (rpc[c].state = "open" /\ rpc'[c].state = "failed")

LEMMA GentleKeeps ==
  ASSUME Accounted, Calls, Gentle, stream \subseteq stream'
  PROVE  Accounted' /\ Calls'
<1>1. Held' = Held
  BY DEF Held, Gentle
<1>2. Accounted'
  BY <1>1 DEF Accounted, Gentle
<1>3. ASSUME NEW c \in Event PROVE Awaited(c)' <=> Awaited(c)
  BY <1>3 DEF Awaited, Gentle
<1>4. ASSUME NEW c \in Event, rpc'[c].state # "none"
      PROVE IsOldest(c, rpc'[c].batch)
            /\ (Awaited(c)' \/ rpc'[c].batch \subseteq Settled')
  <2>1. rpc[c].state # "none" /\ rpc'[c].batch = rpc[c].batch
    BY <1>4 DEF Gentle
  <2>2. IsOldest(c, rpc[c].batch)
        /\ (Awaited(c) \/ rpc[c].batch \subseteq Settled)
    BY <2>1 DEF Calls
  <2>3. Settled' = Settled
    BY DEF Settled, Gentle
  <2>4. QED
    BY <1>3, <2>1, <2>2, <2>3
<1>5. ASSUME NEW c \in Event, rpc'[c].state = "ok"
      PROVE rpc'[c].accepted = rpc'[c].batch \ Bad
            /\ rpc'[c].accepted \subseteq stream'
  BY <1>5 DEF Calls, Gentle
<1>6. Calls'
  BY <1>4, <1>5 DEF Calls
<1>7. QED
  BY <1>2, <1>6

LEMMA GentleClient ==
  ASSUME IInv, TypeOK', Hands', Gentle, UNCHANGED serverVars PROVE IInv'
<1>1. Accounted' /\ Calls'
  BY GentleKeeps DEF IInv, serverVars
<1>2. Handlers' /\ Kept'
  BY DEF IInv, Handlers, Kept, Gentle, serverVars
<1>3. QED
  BY <1>1, <1>2 DEF IInv

\* A thread comes by an event, or is rid of its batch.
LEMMA HeldGrows ==
  ASSUME TypeOK, NEW t \in Thread, NEW e \in Event,
         batch' = [batch EXCEPT ![t] = @ \cup {e}]
  PROVE  Held' = Held \cup {e}
<1>1. batch \in [Thread -> SUBSET Event]
  BY DEF TypeOK, ClientTypeOK
<1>2. \A u \in Thread : batch'[u] = IF u = t THEN batch[u] \cup {e} ELSE batch[u]
  BY <1>1
<1>3. QED
  BY <1>2 DEF Held

LEMMA HeldShrinks ==
  ASSUME TypeOK, Accounted, NEW t \in Thread,
         batch' = [batch EXCEPT ![t] = {}]
  PROVE  Held' = Held \ batch[t] /\ batch[t] \subseteq Held
<1>1. batch \in [Thread -> SUBSET Event]
  BY DEF TypeOK, ClientTypeOK
<1>2. \A u \in Thread : batch'[u] = IF u = t THEN {} ELSE batch[u]
  BY <1>1
<1>3. \A u \in Thread : u # t => batch[u] \cap batch[t] = {}
  BY DEF Accounted
<1>4. QED
  BY <1>2, <1>3 DEF Held
-----------------------------------------------------------------------------
\* Client steps that do move events, one lemma each.
LEMMA EnqueueKeeps ==
  ASSUME IInv, TypeOK', NEW t \in App, Enqueue(t), UNCHANGED serverVars
  PROVE  IInv'
<1> USE DEF IInv
<1>1. /\ UNCHANGED <<rpc, pc, batch, sent, rejected, lost, stream, stage, todo>>
      /\ made' = made + 1 /\ made \in Nat
      /\ \/ queue' = queue \cup {made + 1} /\ dropped' = dropped
         \/ dropped' = dropped \cup {made + 1} /\ queue' = queue
  BY EventsAssumption DEF Enqueue, serverVars, TypeOK, ClientTypeOK
<1>2. 1..made' = (1..made) \cup {made + 1} /\ made + 1 \notin 1..made
  BY <1>1
<1>3. Held' = Held
  BY <1>1 DEF Held
<1>4. Accounted'
  BY <1>1, <1>2, <1>3 DEF Accounted
<1>5. Hands' /\ Calls' /\ Handlers'
  BY <1>1 DEF Hands, Calls, Handlers, Awaited, Settled
<1>6. Kept'
  BY <1>1, <1>2 DEF Kept
<1>7. QED
  BY <1>4, <1>5, <1>6

LEMMA TakeKeeps ==
  ASSUME IInv, TypeOK', NEW t \in Thread, Take(t), UNCHANGED serverVars
  PROVE  IInv'
<1> USE DEF IInv
<1>1. PICK e \in queue : queue' = queue \ {e}
                         /\ batch' = [batch EXCEPT ![t] = @ \cup {e}]
  BY DEF Take
<1>2. /\ UNCHANGED <<rpc, pc, made, dropped, sent, rejected, lost, stream,
                     stage, todo>>
      /\ pc[t] = "drain" /\ e \in Event
  BY <1>1 DEF Take, bookkeeping, serverVars, TypeOK, ClientTypeOK
<1>3. Held' = Held \cup {e}
  BY <1>1, <1>2, HeldGrows
<1>4. \A u \in Thread :
        batch'[u] = IF u = t THEN batch[u] \cup {e} ELSE batch[u]
  BY <1>1 DEF TypeOK, ClientTypeOK
<1>5. \A u \in Thread : e \notin batch[u]
  BY <1>1 DEF Accounted, Held
<1>6. Accounted'
  <2>1. ASSUME NEW u \in Thread, NEW v \in Thread, u # v
        PROVE  batch'[u] \cap batch'[v] = {}
    <3>1. batch[u] \cap batch[v] = {}
      BY <2>1 DEF Accounted
    <3>2. QED
      BY <1>4, <1>5, <2>1, <3>1
  <2>2. QED
    BY <1>1, <1>2, <1>3, <2>1 DEF Accounted
<1>7. Hands'
  BY <1>2, <1>4 DEF Hands
<1>8. \A c \in Event : Awaited(c) => Awaited(c)'
  BY <1>2, <1>4 DEF Awaited
<1>9. Calls' /\ Handlers'
  BY <1>2, <1>8 DEF Calls, Handlers, Settled
<1>10. Kept'
  BY <1>1, <1>2 DEF Kept
<1>11. QED
  BY <1>6, <1>7, <1>9, <1>10

LEMMA CallKeeps ==
  ASSUME IInv, TypeOK', NEW t \in Thread, Call(t), UNCHANGED serverVars
  PROVE  IInv'
<1> USE DEF IInv
<1>1. PICK c \in batch[t] :
        /\ IsOldest(c, batch[t])
        /\ rpc' = [rpc EXCEPT ![c] = [state |-> "open", batch |-> batch[t],
                                      accepted |-> {}]]
  BY DEF Call
<1>2. /\ UNCHANGED <<queue, batch, made, dropped, sent, rejected, lost, stream,
                     stage, todo>>
      /\ pc[t] = "call" /\ pc' = [pc EXCEPT ![t] = "await"] /\ c \in Event
      /\ pc \in [Thread -> ClientPC] /\ rpc \in [Event -> IngestBatch]
  BY <1>1 DEF Call, Goto, bookkeeping, serverVars, TypeOK, ClientTypeOK
<1>3. rpc[c].state = "none"
  BY <1>1, <1>2, NotCalledYet
<1>4. /\ rpc'[c].state = "open" /\ rpc'[c].batch = batch[t]
      /\ \A d \in Event : d # c => rpc'[d] = rpc[d]
  BY <1>1, <1>2
<1>5. /\ pc'[t] = "await"
      /\ \A u \in Thread : u # t => pc'[u] = pc[u]
  BY <1>2
<1>6. Accounted'
  BY <1>2 DEF Accounted, Held
<1>7. Hands'
  BY <1>2, <1>5 DEF Hands
<1>8. Calls'
  <2>1. ASSUME NEW d \in Event, d # c, Awaited(d) PROVE Awaited(d)'
    BY <1>2, <1>4, <1>5, <2>1 DEF Awaited
  <2>2. Awaited(c)'
    BY <1>2, <1>4, <1>5 DEF Awaited
  <2>3. Settled' = Settled /\ stream' = stream
    BY <1>2 DEF Settled
  <2>4. QED
    BY <1>1, <1>4, <2>1, <2>2, <2>3 DEF Calls
<1>9. Handlers'
  <2>1. stage[c] = "none"
    BY <1>2, <1>3 DEF Handlers
  <2>2. todo[c] = {}
    BY <1>2, <2>1 DEF Handlers
  <2>3. QED
    BY <1>2, <1>4, <2>1, <2>2 DEF Handlers
<1>10. Kept'
  BY <1>2 DEF Kept
<1>11. QED
  BY <1>6, <1>7, <1>8, <1>9, <1>10

LEMMA AllOf ==
  ASSUME NEW B
  PROVE  /\ {} \cup {} \cup B = B
         /\ {} \cap {} = {} /\ {} \cap B = {}
         /\ {} \subseteq stream /\ {} \subseteq Bad
  OBVIOUS

\* A thread is rid of its batch, which is now settled one way or another.
LEMMA SettleKeeps ==
  ASSUME IInv, TypeOK', NEW t \in Thread,
         UNCHANGED <<rpc, queue, made, dropped, stream, stage, todo>>,
         batch' = [batch EXCEPT ![t] = {}],
         NEW l, l \notin {"call", "await"}, pc' = [pc EXCEPT ![t] = l],
         NEW S, NEW R, NEW L, S \cup R \cup L = batch[t],
         S \cap R = {}, S \cap L = {}, R \cap L = {},
         S \subseteq stream, R \subseteq Bad,
         sent' = sent \cup S, rejected' = rejected \cup R, lost' = lost \cup L
  PROVE  IInv'
<1> USE DEF IInv
<1>1. Held' = Held \ batch[t] /\ batch[t] \subseteq Held
  BY HeldShrinks
<1>2. \A u \in Thread : /\ batch'[u] = IF u = t THEN {} ELSE batch[u]
                        /\ pc'[u] = IF u = t THEN l ELSE pc[u]
  BY DEF TypeOK, ClientTypeOK
<1>3. Accounted'
  <2>1. \A u, v \in Thread : u # v => batch'[u] \cap batch'[v] = {}
    BY <1>2 DEF Accounted
  <2>2. QED
    BY <1>1, <2>1 DEF Accounted
<1>4. Hands'
  BY <1>2 DEF Hands
<1>5. Settled' = Settled \cup batch[t]
  BY DEF Settled
<1>6. \A c \in Event :
        Awaited(c) => Awaited(c)' \/ rpc[c].batch = batch[t]
  BY <1>2 DEF Awaited
<1>7. Calls'
  BY <1>5, <1>6 DEF Calls
<1>8. Handlers' /\ Kept'
  BY DEF Handlers, Kept
<1>9. QED
  BY <1>3, <1>4, <1>7, <1>8

LEMMA ClientStep ==
  ASSUME IInv, TypeOK', ClientNext, UNCHANGED serverVars PROVE IInv'
<1> USE DEF IInv, bookkeeping, Goto
<1>0. /\ pc \in [Thread -> ClientPC] /\ rpc \in [Event -> IngestBatch]
      /\ UNCHANGED <<stage, todo, stream>>
  BY DEF TypeOK, ClientTypeOK, serverVars
<1>1. ASSUME NEW t \in App, Enqueue(t) PROVE IInv'
  BY <1>1, EnqueueKeeps
<1>2. ASSUME NEW t \in App, Flush(t) \/ Shutdown(t) PROVE IInv'
  <2>1. Gentle /\ Hands'
    BY <1>0, <1>2, Flushers DEF Flush, Shutdown, BeginFlush, Gentle, Hands
  <2>2. QED
    BY <2>1, GentleClient
<1>3. ASSUME NEW t \in App, DeadlinePasses(t) PROVE IInv'
  <2>1. Gentle /\ Hands'
    BY <1>0, <1>3, Flushers DEF DeadlinePasses, Gentle, Hands
  <2>2. QED
    BY <2>1, GentleClient
<1>4. ASSUME NEW t \in App, AppStep(t) PROVE IInv'
  <2>1. CASE FlushLoop(t) \/ Recheck(t)
    <3>1. Gentle /\ Hands'
      BY <1>0, <2>1, Flushers DEF FlushLoop, Recheck, FlushEnds, Gentle, Hands
    <3>2. QED
      BY <3>1, GentleClient
  <2>2. CASE SetStop(t)
    <3>1. Gentle /\ Hands'
      BY <1>0, <2>2, Flushers DEF SetStop, Gentle, Hands
    <3>2. QED
      BY <3>1, GentleClient
  <2>3. CASE Close(t)
    <3>1. Gentle /\ Hands'
      BY <1>0, <2>3, Flushers, FailCallsEffect DEF Close, Gentle, Hands
    <3>2. QED
      BY <3>1, GentleClient
  <2>4. QED
    BY <1>4, <2>1, <2>2, <2>3 DEF AppStep
<1>5. ASSUME NEW t \in Thread, ThreadStep(t) PROVE IInv'
  <2>1. CASE Take(t)
    BY <2>1, TakeKeeps
  <2>2. CASE Drained(t)
    <3>1. Gentle /\ Hands'
      BY <1>0, <2>2 DEF Drained, Gentle, Hands
    <3>2. QED
      BY <3>1, GentleClient
  <2>3. CASE Call(t)
    BY <2>3, CallKeeps
  <2>4. CASE CallRaises(t)
    <3> DEFINE l == IF t = Flusher THEN "over" ELSE "idle"
    <3>1. l \notin {"call", "await"}
      OBVIOUS
    <3>2. /\ UNCHANGED <<rpc, queue, made, dropped, stream, stage, todo>>
          /\ batch' = [batch EXCEPT ![t] = {}] /\ pc' = [pc EXCEPT ![t] = l]
          /\ sent' = sent \cup {} /\ rejected' = rejected \cup {}
          /\ lost' = lost \cup batch[t]
      BY <1>0, <2>4 DEF CallRaises
    <3> HIDE DEF l
    <3>3. QED
      BY <3>1, <3>2, AllOf, SettleKeeps
  <2>5. ASSUME NEW c \in Event, Answered(t, c) \/ Failed(t, c) PROVE IInv'
    <3> DEFINE l == IF t = Flusher THEN "top" ELSE "check"
    <3>1. l \notin {"call", "await"}
      OBVIOUS
    <3>2. /\ UNCHANGED <<rpc, queue, made, dropped, stream, stage, todo>>
          /\ batch' = [batch EXCEPT ![t] = {}] /\ pc' = [pc EXCEPT ![t] = l]
          /\ pc[t] = "await" /\ c \in batch[t] /\ rpc[c].state # "none"
      BY <1>0, <2>5 DEF Answered, Failed, Outcome, NextRound, IsOldest
    <3> HIDE DEF l
    <3>3. rpc[c].batch = batch[t]
      BY <3>2, OwnCall
    <3>4. CASE Answered(t, c)
      <4> DEFINE S == rpc[c].accepted
                 R == batch[t] \ rpc[c].accepted
      <4>1. rpc[c].state = "ok"
        BY <3>4 DEF Answered, Outcome
      <4>2. S = batch[t] \ Bad /\ S \subseteq stream
        BY <3>3, <4>1 DEF Calls
      <4>3. sent' = sent \cup S /\ rejected' = rejected \cup R
            /\ lost' = lost \cup {}
        BY <3>4 DEF Answered
      <4>4. S \cup R \cup {} = batch[t] /\ S \cap R = {} /\ R \subseteq Bad
        BY <4>2
      <4> HIDE DEF S, R
      <4>5. QED
        BY <3>1, <3>2, <4>2, <4>3, <4>4, SettleKeeps
    <3>5. CASE Failed(t, c)
      <4>1. sent' = sent \cup {} /\ rejected' = rejected \cup {}
            /\ lost' = lost \cup batch[t]
        BY <3>5 DEF Failed
      <4>2. QED
        BY <3>1, <3>2, <4>1, AllOf, SettleKeeps
    <3>6. QED
      BY <2>5, <3>4, <3>5
  <2>6. QED
    BY <1>5, <2>1, <2>2, <2>3, <2>4, <2>5 DEF ThreadStep
<1>6. ASSUME FlusherTop \/ FlusherWakes PROVE IInv'
  <2>1. Gentle /\ Hands'
    BY <1>0, <1>6, Flushers DEF FlusherTop, FlusherWakes, Gentle, Hands
  <2>2. QED
    BY <2>1, GentleClient
<1>7. ASSUME NEW c \in Event, CallTimesOut(c) PROVE IInv'
  <2>1. Gentle /\ Hands'
    BY <1>7, FailCallsEffect DEF CallTimesOut, clientVars, Gentle, Hands
  <2>2. QED
    BY <2>1, GentleClient
<1>8. QED
  BY <1>1, <1>2, <1>3, <1>4, <1>5, <1>6, <1>7 DEF ClientNext
-----------------------------------------------------------------------------
\* Server steps: no event moves on the client's side, so what is left is that
\* an "ok" is true, and what the stream holds.
LEMMA ServerSide ==
  ASSUME IInv, TypeOK', UNCHANGED clientVars, Handlers',
         \A c \in Event :
           /\ rpc'[c].batch = rpc[c].batch
           /\ rpc'[c].accepted = rpc[c].accepted
           /\ \/ rpc'[c].state = rpc[c].state
              \/ (rpc[c].state = "open" /\ rpc'[c].state = "failed"),
         stream' = stream
  PROVE  IInv'
<1>1. Gentle
  BY DEF Gentle, clientVars
<1>2. Accounted' /\ Calls'
  BY <1>1, GentleKeeps DEF IInv
<1>3. Hands' /\ Kept'
  BY DEF IInv, Hands, Kept, clientVars
<1>4. QED
  BY <1>2, <1>3 DEF IInv

LEMMA AppendKeeps ==
  ASSUME IInv, TypeOK', UNCHANGED clientVars, NEW c \in Event, Append(c)
  PROVE  IInv'
<1> USE DEF IInv
<1>1. PICK e \in todo[c] : stream' = stream \cup {e}
                           /\ todo' = [todo EXCEPT ![c] = @ \ {e}]
  BY DEF Append
<1>2. UNCHANGED <<rpc, stage>> /\ stage[c] = "pipe"
      /\ todo \in [Event -> SUBSET Event] /\ e \in Event
  BY <1>1 DEF Append, TypeOK, ServerTypeOK
<1>3. e \in rpc[c].batch \ Bad
  BY <1>1 DEF Handlers
<1>4. Gentle
  BY <1>2 DEF Gentle, clientVars
<1>5. Accounted' /\ Calls'
  BY <1>1, <1>4, GentleKeeps
<1>6. Hands'
  BY DEF Hands, clientVars
<1>7. Handlers'
  <2>1. \A d \in Event : todo'[d] = IF d = c THEN todo[d] \ {e} ELSE todo[d]
    BY <1>1, <1>2
  <2>2. QED
    BY <1>1, <1>2, <1>3, <2>1 DEF Handlers
<1>8. e \in Held \cup Settled
  <2>1. rpc[c].state # "none"
    BY <1>2 DEF Handlers
  <2>2. CASE Awaited(c)
    BY <1>3, <2>2 DEF Awaited, Held
  <2>3. CASE rpc[c].batch \subseteq Settled
    BY <1>3, <2>3
  <2>4. QED
    BY <2>1, <2>2, <2>3 DEF Calls
<1>9. e \in 1..made /\ e \notin queue \cup dropped
  BY <1>8 DEF Accounted, Settled
<1>10. Kept'
  BY <1>1, <1>3, <1>9 DEF Kept, clientVars
<1>11. QED
  BY <1>5, <1>6, <1>7, <1>10

LEMMA ReplyKeeps ==
  ASSUME IInv, TypeOK', UNCHANGED clientVars, NEW c \in Event, Reply(c)
  PROVE  IInv'
<1> USE DEF IInv
<1>1. /\ stage[c] = "pipe" /\ todo[c] = {} /\ stream' = stream
      /\ stage' = [stage EXCEPT ![c] = "over"]
      /\ todo' = [todo EXCEPT ![c] = {}]
      /\ rpc \in [Event -> IngestBatch]
      /\ stage \in [Event -> Stage] /\ todo \in [Event -> SUBSET Event]
  BY DEF Reply, Answer, Over, Proceed, TypeOK, ClientTypeOK, ServerTypeOK
<1>2. \A d \in Event :
        /\ rpc'[d].batch = rpc[d].batch
        /\ \/ rpc'[d].state = rpc[d].state /\ rpc'[d].accepted = rpc[d].accepted
           \/ /\ d = c /\ rpc[d].state = "open" /\ rpc'[d].state = "ok"
              /\ rpc'[d].accepted = rpc[d].batch \ Bad
  <2>1. CASE c \in Open
    <3>1. rpc' = [rpc EXCEPT ![c].state = "ok",
                             ![c].accepted = rpc[c].batch \ Bad]
      BY <2>1 DEF Reply, Answer
    <3>2. rpc[c] \in IngestBatch /\ rpc[c].state = "open"
      BY <1>1, <2>1 DEF Open
    <3>3. QED
      BY <1>1, <3>1, <3>2 DEF IngestBatch
  <2>2. CASE c \notin Open
    BY <2>2 DEF Reply, Answer
  <2>3. QED
    BY <2>1, <2>2
<1>3. rpc[c].batch \ Bad \subseteq stream
  BY <1>1 DEF Handlers
<1>4. Accounted' /\ Hands' /\ Kept'
  BY <1>1 DEF Accounted, Held, Hands, Kept, clientVars
<1>5. Calls'
  <2>1. \A d \in Event : Awaited(d)' <=> Awaited(d)
    BY <1>2 DEF Awaited, clientVars
  <2>2. Settled' = Settled
    BY DEF Settled, clientVars
  <2>3. ASSUME NEW d \in Event, rpc'[d].state # "none"
        PROVE  /\ IsOldest(d, rpc'[d].batch)
               /\ Awaited(d)' \/ rpc'[d].batch \subseteq Settled'
    <3>1. rpc[d].state # "none" /\ rpc'[d].batch = rpc[d].batch
      BY <1>2, <2>3
    <3>2. IsOldest(d, rpc[d].batch)
          /\ (Awaited(d) \/ rpc[d].batch \subseteq Settled)
      BY <3>1 DEF Calls
    <3>3. QED
      BY <2>1, <2>2, <3>1, <3>2
  <2>4. ASSUME NEW d \in Event, rpc'[d].state = "ok"
        PROVE  /\ rpc'[d].accepted = rpc'[d].batch \ Bad
               /\ rpc'[d].accepted \subseteq stream'
    BY <1>1, <1>2, <1>3, <2>4 DEF Calls
  <2>5. QED
    BY <2>3, <2>4 DEF Calls
<1>6. Handlers'
  <2>1. \A d \in Event :
          /\ stage'[d] = IF d = c THEN "over" ELSE stage[d]
          /\ todo'[d] = IF d = c THEN {} ELSE todo[d]
    BY <1>1
  <2>2. QED
    BY <1>1, <1>2, <2>1 DEF Handlers
<1>7. QED
  BY <1>4, <1>5, <1>6

LEMMA ServerStep ==
  ASSUME IInv, TypeOK', ServerNext, UNCHANGED clientVars PROVE IInv'
<1> USE DEF IInv, Proceed, Over, Abort
<1>0. /\ TypeOK /\ Handlers
      /\ stage \in [Event -> Stage] /\ todo \in [Event -> SUBSET Event]
  BY DEF TypeOK, ServerTypeOK
<1>1. CASE Sigterm \/ Restarts
  <2>1. UNCHANGED <<rpc, stage, todo, stream>>
    BY <1>1 DEF Sigterm, Restarts
  <2>2. Handlers'
    BY <2>1 DEF Handlers
  <2>3. QED
    BY <2>1, <2>2, ServerSide
<1>2. CASE Ends
  <2>1. \A c \in Event :
          /\ stage'[c] = IF c \in Handled THEN "over" ELSE stage[c]
          /\ todo'[c] = IF c \in Handled THEN {} ELSE todo[c]
          /\ c \in Handled => stage[c] # "none"
    BY <1>2 DEF Ends, Handled
  <2>2. Handlers'
    BY <1>0, <1>2, <2>1, FailCallsEffect DEF Ends, Handlers
  <2>3. QED
    BY <1>0, <1>2, <2>2, FailCallsEffect, ServerSide DEF Ends
<1>3. ASSUME NEW c \in Event, Handle(c) PROVE IInv'
  <2>1. CASE Arrive(c)
    <3>1. Handlers'
      BY <1>0, <2>1 DEF Arrive, Handlers, Open
    <3>2. QED
      BY <2>1, <3>1, ServerSide DEF Arrive
  <2>2. CASE Unavailable(c)
    <3>1. Handlers'
      BY <1>0, <2>2, FailCallsEffect DEF Unavailable, Handlers, serverVars
    <3>2. QED
      BY <1>0, <2>2, <3>1, FailCallsEffect, ServerSide
         DEF Unavailable, serverVars
  <2>3. CASE Authenticate(c)
    <3>1. CASE FailCalls({c}) /\ Over(c)
      <4>1. Handlers'
        BY <1>0, <2>3, <3>1, FailCallsEffect DEF Authenticate, Handlers
      <4>2. QED
        BY <1>0, <2>3, <3>1, <4>1, FailCallsEffect, ServerSide
           DEF Authenticate
    <3>2. CASE Proceed(c, "check") /\ UNCHANGED <<rpc, todo>>
      <4>1. Handlers'
        BY <1>0, <2>3, <3>2 DEF Authenticate, Handlers
      <4>2. QED
        BY <2>3, <3>2, <4>1, ServerSide DEF Authenticate
    <3>3. QED
      BY <2>3, <3>1, <3>2 DEF Authenticate
  <2>4. CASE Validate(c)
    <3>1. Handlers'
      BY <1>0, <2>4 DEF Validate, Handlers
    <3>2. QED
      BY <2>4, <3>1, ServerSide DEF Validate
  <2>5. CASE TooLarge(c)
    <3>1. Handlers'
      BY <1>0, <2>5, FailCallsEffect DEF TooLarge, Handlers
    <3>2. QED
      BY <1>0, <2>5, <3>1, FailCallsEffect, ServerSide DEF TooLarge
  <2>6. CASE Append(c)
    BY <2>6, AppendKeeps
  <2>7. CASE PipeBreaks(c)
    <3>1. CASE Abort(c)
      <4>1. Handlers'
        BY <1>0, <2>7, <3>1, FailCallsEffect DEF PipeBreaks, Handlers
      <4>2. QED
        BY <1>0, <2>7, <3>1, <4>1, FailCallsEffect, ServerSide
           DEF PipeBreaks
    <3>2. CASE ~Abort(c)
      <4>1. /\ todo' = [todo EXCEPT ![c] = rpc[c].batch \ Bad]
            /\ UNCHANGED <<rpc, stage, stream>>
        BY <2>7, <3>2 DEF PipeBreaks
      <4>2. Handlers'
        BY <1>0, <2>7, <4>1 DEF PipeBreaks, Handlers
      <4>3. QED
        BY <4>1, <4>2, ServerSide
    <3>3. QED
      BY <3>1, <3>2
  <2>8. CASE Reply(c)
    BY <2>8, ReplyKeeps
  <2>9. CASE Cancel(c)
    <3>1. Handlers'
      BY <1>0, <2>9 DEF Cancel, Handled, Handlers
    <3>2. QED
      BY <2>9, <3>1, ServerSide DEF Cancel
  <2>10. QED
    BY <1>3, <2>1, <2>2, <2>3, <2>4, <2>5, <2>6, <2>7, <2>8, <2>9 DEF Handle
<1>4. QED
  BY <1>1, <1>2, <1>3 DEF ServerNext

LEMMA IInvInit == Init => IInv
<1> SUFFICES ASSUME Init PROVE IInv
  OBVIOUS
<1>1. TypeOK
  BY TypeInit
<1>2. /\ made = 0 /\ queue = {} /\ dropped = {} /\ sent = {} /\ rejected = {}
      /\ lost = {} /\ stream = {} /\ stage = [c \in Event |-> "none"]
      /\ rpc = [c \in Event |-> NoCall] /\ todo = [c \in Event |-> {}]
      /\ \A t \in Thread : batch[t] = {} /\ pc[t] \in {"top", "idle"}
  BY DEF Init, ClientInit, ServerInit
<1>3. Held = {}
  BY <1>2 DEF Held
<1>4. Accounted
  BY <1>2, <1>3 DEF Accounted
<1>5. Hands /\ Kept
  BY <1>2 DEF Hands, Kept
<1>6. Calls /\ Handlers
  BY <1>2 DEF Calls, Handlers, NoCall
<1>7. QED
  BY <1>1, <1>4, <1>5, <1>6 DEF IInv

LEMMA IInvNext == IInv /\ [Next]_vars => IInv'
<1> SUFFICES ASSUME IInv, [Next]_vars PROVE IInv'
  OBVIOUS
<1>1. TypeOK'
  BY TypeNext DEF IInv
<1>2. CASE UNCHANGED vars
  <2>1. UNCHANGED <<rpc, clientVars, serverVars>>
    BY <1>2 DEF vars
  <2>2. Gentle /\ Hands'
    BY <2>1 DEF Gentle, clientVars, IInv, Hands
  <2>3. QED
    BY <1>1, <2>1, <2>2, GentleClient
<1>3. QED
  BY <1>1, <1>2, ClientStep, ServerStep DEF Next

LEMMA Invariance == Spec => []IInv
<1>1. Init => IInv
  BY IInvInit
<1>2. IInv /\ [Next]_vars => IInv'
  BY IInvNext
<1>3. QED
  BY <1>1, <1>2, PTL DEF Spec

\* Every event the program makes is in exactly one place, for any number of
\* threads that drain the queue at the same time.
THEOREM EveryEventAccounted == Spec => []Accounted
<1>1. IInv => Accounted
  BY DEF IInv
<1>2. QED
  BY <1>1, Invariance, PTL
-----------------------------------------------------------------------------
\* The refinement: a step of the path is a step of Handover, or none.
LEMMA PromiseInit == Init => Promise!Init
  BY DEF Init, ClientInit, ServerInit, Promise!Init

LEMMA PromiseNext ==
  IInv /\ IInv' /\ [Next]_vars => [Promise!Next]_(Promise!vars)
<1> SUFFICES ASSUME IInv, IInv', [Next]_vars
             PROVE  Promise!Next \/ UNCHANGED Promise!vars
  OBVIOUS
<1> USE DEF bookkeeping
<1>1. ASSUME UNCHANGED <<made, stream, sent, dropped, rejected>>
      PROVE  UNCHANGED Promise!vars
  BY <1>1 DEF Promise!vars
<1>2. ASSUME NEW t \in App, Enqueue(t), UNCHANGED serverVars
      PROVE  Promise!Next
  <2>1. /\ made' = made + 1 /\ made \in Nat /\ made + 1 \in Event
        /\ UNCHANGED <<stream, sent, rejected>>
        /\ dropped' \in {dropped, dropped \cup {made + 1}}
    BY <1>2, EventsAssumption
       DEF Enqueue, serverVars, IInv, TypeOK, ClientTypeOK, Event
  <2>2. 1..made' = (1..made) \cup {made + 1} /\ made + 1 \notin 1..made
    BY <2>1
  <2>3. Promise!Offer(made + 1)
    BY <2>1, <2>2 DEF Promise!Offer
  <2>4. QED
    BY <2>1, <2>3 DEF Promise!Next
<1>3. ASSUME NEW t \in Thread, NEW c \in Event, Answered(t, c),
             UNCHANGED serverVars
      PROVE  Promise!Next
  <2>1. /\ UNCHANGED <<made, stream, dropped>>
        /\ sent \subseteq sent' /\ rejected \subseteq rejected'
    BY <1>3 DEF Answered, Outcome, serverVars
  <2>2. sent' \subseteq stream
    BY <2>1 DEF IInv, Kept
  <2>3. rejected' \subseteq (1..made) \ stream
    BY <2>1 DEF IInv, Kept, Accounted
  <2>4. Promise!Report
    BY <2>1, <2>2, <2>3 DEF Promise!Report
  <2>5. QED
    BY <2>4 DEF Promise!Next
<1>4. ASSUME NEW c \in Event, Append(c), UNCHANGED clientVars
      PROVE  Promise!Next
  <2>1. PICK e \in todo[c] : stream' = stream \cup {e}
    BY <1>4 DEF Append
  <2>2. e \in (1..made) \ (dropped \cup rejected)
    BY <2>1, <1>4 DEF IInv, Kept, Accounted, clientVars, Handlers
  <2>3. e \in Event
    BY <2>1 DEF IInv, TypeOK, ServerTypeOK
  <2>4. Promise!Keep(e)
    BY <1>4, <2>1, <2>2 DEF Promise!Keep, clientVars
  <2>5. QED
    BY <2>3, <2>4 DEF Promise!Next
<1>5. CASE UNCHANGED vars
  BY <1>1, <1>5 DEF vars, clientVars, serverVars
<1>6. CASE ClientNext /\ UNCHANGED serverVars
  <2>1. ASSUME NEW t \in Thread, ThreadStep(t)
        PROVE  Promise!Next \/ UNCHANGED Promise!vars
    <3>1. CASE \E c \in Event : Answered(t, c)
      BY <1>3, <1>6, <3>1
    <3>2. CASE Take(t) \/ Drained(t) \/ Call(t) \/ CallRaises(t)
               \/ \E c \in Event : Failed(t, c)
      BY <1>1, <1>6, <3>2 DEF Take, Drained, Call, CallRaises, Failed, Outcome,
                              serverVars
    <3>3. QED
      BY <2>1, <3>1, <3>2 DEF ThreadStep
  <2>2. ASSUME NEW t \in App, AppStep(t) PROVE UNCHANGED Promise!vars
    BY <1>1, <1>6, <2>2 DEF AppStep, FlushLoop, Recheck, SetStop, Close,
                            serverVars
  <2>3. ASSUME NEW t \in App, Flush(t) \/ Shutdown(t) \/ DeadlinePasses(t)
        PROVE  UNCHANGED Promise!vars
    BY <1>1, <1>6, <2>3 DEF Flush, Shutdown, BeginFlush, DeadlinePasses,
                            serverVars
  <2>4. ASSUME FlusherTop \/ FlusherWakes \/ (\E c \in Event : CallTimesOut(c))
        PROVE  UNCHANGED Promise!vars
    BY <1>1, <1>6, <2>4 DEF FlusherTop, FlusherWakes, CallTimesOut, clientVars,
                            serverVars
  <2>5. QED
    BY <1>2, <1>6, <2>1, <2>2, <2>3, <2>4 DEF ClientNext
<1>7. CASE ServerNext /\ UNCHANGED clientVars
  <2>1. CASE \E c \in Event : Append(c)
    BY <1>4, <1>7, <2>1
  <2>2. CASE stream' = stream
    BY <1>1, <1>7, <2>2 DEF clientVars
  <2>3. \/ \E c \in Event : Append(c)
        \/ stream' = stream
    BY <1>7 DEF ServerNext, Handle, Sigterm, Ends, Restarts, Arrive,
                Unavailable, Authenticate, Validate, TooLarge, PipeBreaks,
                Reply, Cancel, serverVars
  <2>4. QED
    BY <2>1, <2>2, <2>3
<1>8. QED
  BY <1>5, <1>6, <1>7 DEF Next

\* What is reported as accepted is in the stream, and what was dropped or
\* rejected never is.
THEOREM PathKeepsPromise == Spec => KeepsPromise
<1>1. Init => Promise!Init
  BY PromiseInit
<1>2. IInv /\ IInv' /\ [Next]_vars => [Promise!Next]_(Promise!vars)
  BY PromiseNext
<1>3. QED
  BY <1>1, <1>2, Invariance, PTL DEF Spec, KeepsPromise, Promise!Spec
=============================================================================
