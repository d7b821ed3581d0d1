------------------------------- MODULE TraceTree -------------------------------
(***************************************************************************)
(* From the blocks of a program to the tree of a trace (main.py get_trace  *)
(* 208-287): the events of Tracing reach the observations table in any     *)
(* order, some of them perhaps never, and the API assembles a trace from   *)
(* the rows that are there.                                                *)
(***************************************************************************)
EXTENDS Tracing

VARIABLE landed   \* observation events the worker has applied

vars == <<tracingVars, landed>>

TypeOK == TracingTypeOK /\ landed \subseteq events

Init == TracingInit /\ landed = {}

\* Events are applied one by one or in batches, again after a retry, and never
\* when they are dropped or dead-lettered: the rest of the pipeline is in
\* IngestPath, IngestWorker and EventMerge.
Land(e) ==
  /\ e \in events \ landed
  /\ landed' = landed \cup {e}
  /\ UNCHANGED tracingVars

Next == (TracingNext /\ UNCHANGED landed) \/ \E e \in events : Land(e)

Spec == Init /\ [][Next]_vars
-----------------------------------------------------------------------------
(* get_trace().  A row has the trace of the event that made it; only a     *)
(* create says the parent.                                                 *)

Rows(id) == {e.id : e \in {x \in landed : x.trace = id}}
ParentOf(s, id) ==
  LET said == {e \in landed : e.type = "observation_create" /\ e.id = s}
  IN IF said = {} THEN None ELSE (CHOOSE e \in said : TRUE).parent

\* Faulty variant: the walk starts from the rows without a parent.
RootsWithoutParent(id) == {s \in Rows(id) : ParentOf(s, id) = None}

Roots(id) == {s \in Rows(id) : ParentOf(s, id) \notin Rows(id)}
Children(p, id) == {s \in Rows(id) : ParentOf(s, id) = p}
ParentMissing(s, id) == s \in Roots(id) /\ ParentOf(s, id) # None

\* What a reader of the response comes by: the roots, and with a row those that
\* were appended to its children.
Closed(S, id) == Roots(id) \subseteq S /\ \A p \in S : Children(p, id) \subseteq S
Shown(id) ==
  {s \in Rows(id) : \A S \in SUBSET Rows(id) : Closed(S, id) => s \in S}
-----------------------------------------------------------------------------
\* The context variables say where the program is, in every task, at any time.
ContextIsTheCallStack ==
  \A t \in started :
    LET stack == ctx[t].stack
    IN /\ ctx[t].trace = Here(t).trace
       /\ Here(t).span = IF stack = <<>> THEN None ELSE stack[Len(stack)]

\* All that is sent about a span names one trace, which was announced, and its
\* parent belongs to that trace: an update that lands before its create would
\* make the row in another trace.
EventsAgree ==
  \A e \in events :
    /\ e.trace \in opened
    /\ e.trace = called[e.id].trace
    /\ e.parent # None => called[e.parent].trace = e.trace

\* Whatever has landed, every row of a trace is shown; one is said to miss its
\* parent only as long as nothing of the parent has landed; and when all has
\* landed the tree is that of the program's blocks.
TreeIsHonest ==
  \A id \in Trace :
    /\ Shown(id) = Rows(id)
    /\ \A s \in Rows(id) : ParentMissing(s, id) =>
         \A e \in landed : e.id # called[s].span
    /\ events = landed =>
         \A s \in Rows(id) : /\ ParentOf(s, id) = called[s].span
                             /\ ~ParentMissing(s, id)

\* The inductive invariant behind ContextIsTheCallStack and EventsAgree.  A
\* context says where one is ...
Agrees(c, p) ==
  /\ c.trace = p.trace
  /\ p.span = IF c.stack = <<>> THEN None ELSE c.stack[Len(c.stack)]
\* ... and its spans were started in its trace, which was announced.
StartedIn(s, x) == called[s] \in Place /\ called[s].trace = x
Sane(c) ==
  /\ c.stack # <<>> => c.trace # None
  /\ c.trace # None => c.trace \in opened
  /\ \A i \in 1..Len(c.stack) : StartedIn(c.stack[i], c.trace)
\* What a block saved is the context inside the block around it:
SaneBlock(f) ==
  /\ f.trace \in opened /\ Sane(f.saved)
  /\ f.kind = "span" => f.id \in Span /\ StartedIn(f.id, f.trace)
Nested(t) ==
  /\ t \notin started => frames[t] = <<>>
  /\ frames[t] = <<>> => Agrees(ctx[t], within[t])
  /\ frames[t] # <<>> => ctx[t] = Inside(Top(t)) /\ Agrees(frames[t][1].saved, within[t])
  /\ \A i \in 1..Len(frames[t]) : SaneBlock(frames[t][i])
  /\ \A i \in 2..Len(frames[t]) : frames[t][i].saved = Inside(frames[t][i - 1])
  /\ Sane(ctx[t])
\* An event says what is known of its span and of the parent:
Told(e) ==
  /\ e.trace \in opened /\ StartedIn(e.id, e.trace)
  /\ e.parent # None => StartedIn(e.parent, e.trace)
  /\ e.type = "observation_create" => e.parent = called[e.id].span

IInv == TypeOK /\ (\A t \in Task : Nested(t)) /\ (\A e \in events : Told(e))

\* The inductive invariant behind TreeIsHonest.  A span that was started has its
\* create, and it is in a span of its trace that was started ...
Rooted(s) ==
  called[s] # None =>
    /\ \E e \in events : e.type = "observation_create" /\ e.id = s
    /\ called[s].span # None => StartedIn(called[s].span, called[s].trace)
\* ... before it, so that no spans are in one another in a circle:
NoCircle ==
  \A S \in SUBSET {s \in Span : called[s] # None} :
    S # {} => \E s \in S : called[s].span \notin S

TreeInv == IInv /\ (\A s \in Span : Rooted(s)) /\ NoCircle
=============================================================================
