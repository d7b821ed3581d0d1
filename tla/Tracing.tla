-------------------------------- MODULE Tracing --------------------------------
(***************************************************************************)
(* How the SDK knows where it is (sdk/openweave.py 332-489): two context   *)
(* variables, the trace id and the stack of open spans, that blocks set    *)
(* when they are entered and put back when they are left.  A task starts   *)
(* with a copy of its creator's context, a plain thread with an empty one. *)
(* What the events say of the program's structure is read from them alone. *)
(***************************************************************************)
EXTENDS Naturals, Sequences

CONSTANTS
  Task,      \* asyncio tasks and threads
  Main,      \* the one that is there from the start
  Trace,     \* trace ids, the minted ones and those a caller passes
  Span,      \* observation ids
  None,
  MaxDepth   \* bound: blocks a task has open

\* A place in the program: the innermost span and the trace one is in.
Place == [span : Span \cup {None}, trace : Trace \cup {None}]
Nowhere == [span |-> None, trace |-> None]

ASSUME TracingAssumption ==
  /\ Main \in Task /\ MaxDepth \in Nat
  /\ None \notin Trace \cup Span \cup Place

VARIABLES
  started,  \* tasks that run
  ctx,      \* each task's _trace_id and _span_stack
  frames,   \* its open blocks, outermost first, with the values to put back
  within,   \* history: the block it was started in
  opened,   \* traces there is a trace_create for
  events,   \* observation events that were enqueued
  called    \* history: the block each span was started in

tracingVars == <<started, ctx, frames, within, opened, events, called>>

Context == [trace : Trace \cup {None}, stack : Seq(Span)]
NoContext == [trace |-> None, stack |-> <<>>]

\* An open block and the tokens it holds.
Frame == [kind : {"trace", "span"}, id : Trace \cup Span, trace : Trace,
          saved : Context]

\* The context inside a block.
Inside(f) ==
  [trace |-> f.trace,
   stack |-> IF f.kind = "trace" THEN <<>> ELSE Append(f.saved.stack, f.id)]

\* Where the program is, whatever the context variables say: the innermost open
\* block of the task, or else the one it was started in.
PlaceOf(f) ==
  [span |-> IF f.kind = "span" THEN f.id ELSE None, trace |-> f.trace]
Here(t) == IF frames[t] = <<>> THEN within[t]
           ELSE PlaceOf(frames[t][Len(frames[t])])

Create(s, t, p) == [type |-> "observation_create", id |-> s, trace |-> t,
                    parent |-> p]
Update(s, t) == [type |-> "observation_update", id |-> s, trace |-> t,
                 parent |-> None]

Event == [type : {"observation_create", "observation_update"},
          id : Span, trace : Trace, parent : Span \cup {None}]

TracingTypeOK ==
  /\ Main \in started /\ started \subseteq Task
  /\ ctx \in [Task -> Context]
  /\ frames \in [Task -> Seq(Frame)]
  /\ within \in [Task -> Place]
  /\ opened \subseteq Trace
  /\ events \subseteq Event
  /\ called \in [Span -> Place \cup {None}]

TracingInit ==
  /\ started = {Main}
  /\ ctx = [t \in Task |-> NoContext] /\ frames = [t \in Task |-> <<>>]
  /\ within = [t \in Task |-> Nowhere]
  /\ opened = {} /\ events = {}
  /\ called = [s \in Span |-> None]
-----------------------------------------------------------------------------
Top(t) == frames[t][Len(frames[t])]
Push(t, f) ==
  /\ Len(frames[t]) < MaxDepth
  /\ frames' = [frames EXCEPT ![t] = Append(@, f)]
  /\ ctx' = [ctx EXCEPT ![t] = Inside(f)]

\* Faulty variant: only the stack is put back.
PopStackOnly(t) ==
  /\ frames' = [frames EXCEPT ![t] = SubSeq(@, 1, Len(@) - 1)]
  /\ ctx' = [ctx EXCEPT ![t].stack = Top(t).saved.stack]

\* The tokens put both variables back to what they were.
Pop(t) ==
  /\ frames' = [frames EXCEPT ![t] = SubSeq(@, 1, Len(@) - 1)]
  /\ ctx' = [ctx EXCEPT ![t] = Top(t).saved]

\* Faulty variant: trace() leaves the stack as it is.
EnterTraceOnly(t, id) ==
  /\ t \in started
  /\ Len(frames[t]) < MaxDepth
  /\ frames' = [frames EXCEPT ![t] = Append(@, [kind |-> "trace", id |-> id,
                                               trace |-> id, saved |-> ctx[t]])]
  /\ ctx' = [ctx EXCEPT ![t].trace = id]
  /\ opened' = opened \cup {id}
  /\ UNCHANGED <<started, within, events, called>>

\* trace(): a caller may pass the id, also of a trace that is there already.
EnterTrace(t, id) ==
  /\ t \in started
  /\ Push(t, [kind |-> "trace", id |-> id, trace |-> id, saved |-> ctx[t]])
  /\ opened' = opened \cup {id}
  /\ UNCHANGED <<started, within, events, called>>

ExitTrace(t) ==
  /\ frames[t] # <<>> /\ Top(t).kind = "trace"
  /\ Pop(t)
  /\ UNCHANGED <<started, within, opened, events, called>>

\* Faulty variant: outside a trace the span has none.
StartSpanUnminted(t, s, minted) ==
  LET tid == ctx[t].trace
      stack == ctx[t].stack
      parent == IF stack = <<>> THEN None ELSE stack[Len(stack)]
  IN /\ t \in started /\ called[s] = None
     /\ events' = events \cup {Create(s, tid, parent)}
     /\ Push(t, [kind |-> "span", id |-> s, trace |-> tid, saved |-> ctx[t]])
     /\ called' = [called EXCEPT ![s] = Here(t)]
     /\ UNCHANGED <<started, within, opened>>

\* _start_span(): without a trace one is minted.  The tokens are those of
\* before that.
StartSpan(t, s, minted) ==
  LET tid == IF ctx[t].trace = None THEN minted ELSE ctx[t].trace
      stack == ctx[t].stack
      parent == IF stack = <<>> THEN None ELSE stack[Len(stack)]
  IN /\ t \in started /\ called[s] = None
     /\ IF ctx[t].trace = None THEN minted \notin opened ELSE minted = tid
     /\ opened' = opened \cup {tid}
     /\ events' = events \cup {Create(s, tid, parent)}
     /\ Push(t, [kind |-> "span", id |-> s, trace |-> tid, saved |-> ctx[t]])
     /\ called' = [called EXCEPT ![s] =
                     IF Here(t) = Nowhere THEN [span |-> None, trace |-> tid]
                     ELSE Here(t)]
     /\ UNCHANGED <<started, within>>

\* The block is left, by returning or by an exception: _end_span() once, then
\* the tokens.
EndSpan(t) ==
  /\ frames[t] # <<>> /\ Top(t).kind = "span"
  /\ events' = events \cup {Update(Top(t).id, Top(t).trace)}
  /\ Pop(t)
  /\ UNCHANGED <<started, within, opened, called>>

\* current().update(): outside any span it does nothing.
UpdateCurrent(t) ==
  LET stack == ctx[t].stack
  IN /\ t \in started /\ stack # <<>>
     /\ events' = events \cup {Update(stack[Len(stack)], ctx[t].trace)}
     /\ UNCHANGED <<started, ctx, frames, within, opened, called>>

\* create_task() and to_thread() copy the context, a plain thread has none.
Spawn(t, u, copies) ==
  /\ t \in started /\ u \notin started
  /\ started' = started \cup {u}
  /\ ctx' = [ctx EXCEPT ![u] = IF copies THEN ctx[t] ELSE NoContext]
  /\ within' = [within EXCEPT ![u] = IF copies THEN Here(t) ELSE Nowhere]
  /\ UNCHANGED <<frames, opened, events, called>>

TracingNext ==
  \E t \in Task :
    \/ \E id \in Trace : EnterTrace(t, id)
    \/ \E s \in Span, id \in Trace : StartSpan(t, s, id)
    \/ \E u \in Task, copies \in BOOLEAN : Spawn(t, u, copies)
    \/ ExitTrace(t) \/ EndSpan(t) \/ UpdateCurrent(t)
=============================================================================
