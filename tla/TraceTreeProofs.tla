---------------------------- MODULE TraceTreeProofs ----------------------------
(***************************************************************************)
(* Proofs about TraceTree, for any tasks, ids and depth of blocks: the     *)
(* context variables are the call stack, what the events say agrees, and   *)
(* the tree that is assembled from them shows every row.                   *)
(***************************************************************************)
EXTENDS TraceTree, SequenceTheorems, TLAPS

\* What the assumption says of the values that stand for "nothing".
LEMMA Nothing ==
  /\ None \notin Trace /\ None \notin Span /\ None \notin Place
  /\ Nowhere \in Place /\ NoContext \in Context /\ Main \in Task
<1>1. <<>> \in Seq(Span)
  BY EmptySeq
<1>2. QED
  BY <1>1, TracingAssumption DEF Nowhere, Place, NoContext, Context

\* The innermost block.
LEMMA TopBlock ==
  ASSUME NEW t \in Task, TypeOK, frames[t] # <<>>
  PROVE  /\ frames[t] \in Seq(Frame) /\ Len(frames[t]) \in Nat \ {0}
         /\ Len(frames[t]) \in 1..Len(frames[t])
         /\ Top(t) = frames[t][Len(frames[t])] /\ Top(t) \in Frame
<1>1. frames[t] \in Seq(Frame)
  BY DEF TypeOK, TracingTypeOK
<1>2. Len(frames[t]) \in Nat \ {0}
  BY <1>1, EmptySeq
<1>3. Len(frames[t]) \in 1..Len(frames[t])
  BY <1>2
<1>4. frames[t][Len(frames[t])] \in Frame
  BY <1>1, <1>3, ElementOfSeq
<1>5. QED
  BY <1>1, <1>2, <1>3, <1>4 DEF Top

\* Inside a block one is where the block is.
LEMMA InsideAgrees ==
  ASSUME NEW f \in Frame, f.kind = "span" => f.id \in Span
  PROVE  /\ Inside(f) \in Context /\ PlaceOf(f) \in Place
         /\ Agrees(Inside(f), PlaceOf(f))
<1>1. f.trace \in Trace /\ f.saved.stack \in Seq(Span) /\ f.kind \in {"trace", "span"}
  BY DEF Frame, Context
<1>2. CASE f.kind = "trace"
  BY <1>1, <1>2, EmptySeq
     DEF Inside, PlaceOf, Place, Context, Agrees
<1>3. CASE f.kind = "span"
  <2> DEFINE s == Append(f.saved.stack, f.id)
  <2>1. f.id \in Span
    BY <1>3
  <2>2. s \in Seq(Span) /\ s # <<>> /\ Len(s) = Len(f.saved.stack) + 1
        /\ s[Len(f.saved.stack) + 1] = f.id
    BY <1>1, <2>1, AppendProperties
  <2>3. Inside(f) = [trace |-> f.trace, stack |-> s]
    BY <1>3 DEF Inside
  <2>4. PlaceOf(f) = [span |-> f.id, trace |-> f.trace]
    BY <1>3 DEF PlaceOf
  <2> HIDE DEF s
  <2>5. QED
    BY <1>1, <2>1, <2>2, <2>3, <2>4 DEF Place, Context, Agrees
<1>4. QED
  BY <1>1, <1>2, <1>3

\* Inside a block the context is sane if the block is, and its saved context
\* has no other trace.
LEMMA InsideSane ==
  ASSUME NEW f \in Frame, SaneBlock(f)',
         f.kind = "span" => f.saved.trace \in {None, f.trace}
  PROVE  Sane(Inside(f))'
<1>1. /\ f.trace \in Trace /\ f.trace # None /\ f.saved.stack \in Seq(Span)
      /\ f.kind \in {"trace", "span"}
  BY Nothing DEF Frame, Context
<1>2. CASE f.kind = "trace"
  BY <1>1, <1>2, EmptySeq DEF Inside, Sane, SaneBlock
<1>3. CASE f.kind = "span"
  <2> DEFINE s == Append(f.saved.stack, f.id)
             n == Len(f.saved.stack)
  <2>1. f.id \in Span /\ StartedIn(f.id, f.trace)' /\ Sane(f.saved)' /\ f.trace \in opened'
    BY <1>3 DEF SaneBlock
  <2>2. /\ n \in Nat /\ Len(s) = n + 1 /\ s[n + 1] = f.id
        /\ \A i \in 1..n : s[i] = f.saved.stack[i]
    BY <1>1, <2>1, AppendProperties, LenProperties
  <2>3. Inside(f) = [trace |-> f.trace, stack |-> s]
    BY <1>3 DEF Inside
  <2>4. ASSUME NEW i \in 1..Len(s) PROVE StartedIn(s[i], f.trace)'
    <3>1. CASE i = n + 1
      BY <2>1, <2>2, <3>1
    <3>2. CASE i \in 1..n
      <4>1. f.saved.stack # <<>>
        BY <3>2, EmptySeq
      <4>2. f.saved.trace = f.trace
        BY <1>3, <2>1, <4>1 DEF Sane
      <4>3. StartedIn(f.saved.stack[i], f.trace)'
        BY <2>1, <3>2, <4>2 DEF Sane
      <4>4. QED
        BY <2>2, <3>2, <4>3
    <3>3. QED
      BY <2>2, <3>1, <3>2
  <2> HIDE DEF s
  <2>5. QED
    BY <1>1, <2>1, <2>3, <2>4 DEF Sane
<1>4. QED
  BY <1>1, <1>2, <1>3

\* The context is where the task is.
LEMMA Whereabouts ==
  ASSUME TypeOK, NEW t \in Task, Nested(t)
  PROVE  Agrees(ctx[t], Here(t)) /\ Here(t) \in Place
<1>1. CASE frames[t] = <<>>
  BY <1>1 DEF Nested, Here, TypeOK, TracingTypeOK
<1>2. CASE frames[t] # <<>>
  <2>1. Top(t) \in Frame /\ Len(frames[t]) \in 1..Len(frames[t])
        /\ Top(t) = frames[t][Len(frames[t])]
    BY <1>2, TopBlock
  <2>2. SaneBlock(Top(t))
    BY <2>1 DEF Nested
  <2>3. Agrees(Inside(Top(t)), PlaceOf(Top(t))) /\ PlaceOf(Top(t)) \in Place
    BY <2>1, <2>2, InsideAgrees DEF SaneBlock
  <2>4. QED
    BY <1>2, <2>1, <2>3 DEF Nested, Here
<1>3. QED
  BY <1>1, <1>2

-----------------------------------------------------------------------------
(* Types.                                                                  *)

LEMMA TypeInit == Init => TypeOK
<1> SUFFICES ASSUME Init PROVE TypeOK
  OBVIOUS
<1>1. <<>> \in Seq(Frame)
  BY EmptySeq
<1>2. QED
  BY <1>1, Nothing DEF Init, TracingInit, TypeOK, TracingTypeOK

\* Entering and leaving a block keeps the types of what it changes.
LEMMA PushTypes ==
  ASSUME TypeOK, NEW t \in Task, NEW f \in Frame, Push(t, f),
         f.kind = "span" => f.id \in Span
  PROVE  /\ ctx' \in [Task -> Context] /\ frames' \in [Task -> Seq(Frame)]
         /\ frames' = [frames EXCEPT ![t] = Append(frames[t], f)]
         /\ ctx' = [ctx EXCEPT ![t] = Inside(f)]
<1>1. Inside(f) \in Context
  BY InsideAgrees
<1>2. frames[t] \in Seq(Frame) /\ frames \in [Task -> Seq(Frame)]
  BY DEF TypeOK, TracingTypeOK
<1>3. Append(frames[t], f) \in Seq(Frame)
  BY <1>2, AppendProperties
<1>4. QED
  BY <1>1, <1>2, <1>3 DEF Push, TypeOK, TracingTypeOK

LEMMA PopTypes ==
  ASSUME TypeOK, NEW t \in Task, frames[t] # <<>>, Pop(t)
  PROVE  /\ ctx' \in [Task -> Context] /\ frames' \in [Task -> Seq(Frame)]
         /\ Len(frames'[t]) = Len(frames[t]) - 1
         /\ \A i \in 1..(Len(frames[t]) - 1) : frames'[t][i] = frames[t][i]
         /\ ctx'[t] = Top(t).saved
         /\ \A u \in Task \ {t} : frames'[u] = frames[u] /\ ctx'[u] = ctx[u]
<1> DEFINE n == Len(frames[t]) - 1
           s == SubSeq(frames[t], 1, n)
<1>1. /\ Top(t) \in Frame /\ Len(frames[t]) \in Nat \ {0}
      /\ frames[t] \in Seq(Frame)
  BY TopBlock
<1>2. Top(t).saved \in Context
  BY <1>1 DEF Frame
<1>3. \A i \in 1..n : frames[t][i] \in Frame
  BY <1>1, ElementOfSeq
<1>4. /\ s \in Seq(Frame) /\ Len(s) = n
      /\ \A i \in 1..n : s[i] = frames[t][i]
  <2>1. n \in Int /\ 1 \in Int /\ n >= 0
    BY <1>1
  <2>2. /\ s \in Seq(Frame)
        /\ Len(s) = IF 1 <= n THEN n - 1 + 1 ELSE 0
        /\ \A i \in 1..(n - 1 + 1) : s[i] = frames[t][1 + i - 1]
    BY <1>3, <2>1, SubSeqProperties
  <2>3. \A i \in 1..n : 1 + i - 1 = i
    OBVIOUS
  <2> HIDE DEF s
  <2>4. QED
    BY <2>1, <2>2, <2>3
<1>5. frames' = [frames EXCEPT ![t] = s] /\ ctx' = [ctx EXCEPT ![t] = Top(t).saved]
  BY DEF Pop
<1> HIDE DEF s
<1>6. QED
  BY <1>2, <1>4, <1>5 DEF TypeOK, TracingTypeOK

\* What StartSpan makes of the context: a block x in the task's trace, under q.
SpanBlock(t, s, x, q) ==
  LET f == [kind |-> "span", id |-> s, trace |-> x, saved |-> ctx[t]]
  IN /\ ctx[t].trace \in {None, x} /\ f \in Frame /\ Push(t, f)
     /\ q # None => StartedIn(q, x)
     /\ opened' = opened \cup {x} /\ events' = events \cup {Create(s, x, q)}
     /\ called[s] = None
     /\ \E p \in Place : /\ p.trace = x /\ p.span = q
                       /\ called' = [called EXCEPT ![s] = p]
     /\ UNCHANGED <<started, within>> /\ t \in started

LEMMA StartSpanBlock ==
  ASSUME IInv, NEW t \in Task, NEW s \in Span, NEW minted \in Trace,
         StartSpan(t, s, minted)
  PROVE  \E x \in Trace, q \in Span \cup {None} : SpanBlock(t, s, x, q)
<1> DEFINE tid == IF ctx[t].trace = None THEN minted ELSE ctx[t].trace
           stack == ctx[t].stack
           p == IF stack = <<>> THEN None ELSE stack[Len(stack)]
           p2 == IF Here(t) = Nowhere THEN [span |-> None, trace |-> tid] ELSE Here(t)
<1>1. /\ TypeOK /\ ctx[t] \in Context /\ Sane(ctx[t])
      /\ Agrees(ctx[t], Here(t)) /\ Here(t) \in Place
  BY Whereabouts DEF IInv, TypeOK, TracingTypeOK, Nested
<1>2. tid \in Trace /\ stack \in Seq(Span) /\ ctx[t].trace \in {None, tid}
  BY <1>1 DEF Context
<1>3. /\ p \in Span \cup {None} /\ ctx[t].trace = None => p = None
      /\ p # None => StartedIn(p, tid)
  <2>1. CASE stack = <<>>
    BY <2>1
  <2>2. CASE stack # <<>>
    <3>1. Len(stack) \in 1..Len(stack)
      BY <1>2, <2>2, EmptySeq
    <3>2. p \in Span /\ p = stack[Len(stack)]
      BY <1>2, <2>2, <3>1, ElementOfSeq
    <3>3. ctx[t].trace # None /\ StartedIn(stack[Len(stack)], ctx[t].trace)
      BY <1>1, <2>2, <3>1 DEF Sane
    <3>4. QED
      BY <3>2, <3>3
  <2>3. QED
    BY <2>1, <2>2
<1>4. p2 \in Place /\ p2.trace = tid /\ p2.span = p
  <2>0. p = Here(t).span
    BY <1>1 DEF Agrees
  <2>1. CASE Here(t) = Nowhere
    BY <1>2, <2>0, <2>1 DEF Place, Nowhere
  <2>2. CASE Here(t) # Nowhere
    <3>1. ctx[t].trace # None
      <4>1. CASE stack = <<>>
        BY <1>1, <2>2, <4>1 DEF Agrees, Nowhere, Place
      <4>2. CASE stack # <<>>
        BY <1>1, <4>2 DEF Sane
      <4>3. QED
        BY <4>1, <4>2
    <3>2. QED
      BY <1>1, <2>0, <2>2, <3>1 DEF Agrees
  <2>3. QED
    BY <2>1, <2>2
<1>5. [kind |-> "span", id |-> s, trace |-> tid, saved |-> ctx[t]] \in Frame
  BY <1>1, <1>2 DEF Frame
<1>6. /\ opened' = opened \cup {tid}
      /\ events' = events \cup {Create(s, tid, p)}
      /\ Push(t, [kind |-> "span", id |-> s, trace |-> tid, saved |-> ctx[t]])
      /\ called[s] = None /\ called' = [called EXCEPT ![s] = p2]
      /\ UNCHANGED <<started, within>> /\ t \in started
  BY DEF StartSpan
<1>7. \E q \in Place : /\ q.trace = tid /\ q.span = p
                     /\ called' = [called EXCEPT ![s] = q]
  BY <1>4, <1>6
<1>8. tid \in Trace /\ p \in Span \cup {None}
  BY <1>2, <1>3
<1>9. SpanBlock(t, s, tid, p)
  <2> HIDE DEF tid, p, p2
  <2>1. QED
    BY <1>2, <1>3, <1>5, <1>6, <1>7 DEF SpanBlock
<1>10. QED
  BY <1>8, <1>9

LEMMA EventTypes ==
  ASSUME NEW s \in Span, NEW x \in Trace
  PROVE  /\ Update(s, x) \in Event
         /\ \A p \in Span \cup {None} : Create(s, x, p) \in Event
BY DEF Update, Create, Event

\* UpdateCurrent speaks of a span and a trace.
LEMMA CurrentIsKnown ==
  ASSUME IInv, NEW t \in Task, ctx[t].stack # <<>>
  PROVE  LET stack == ctx[t].stack
         IN /\ stack[Len(stack)] \in Span /\ ctx[t].trace \in Trace
            /\ ctx[t].trace \in opened
            /\ StartedIn(stack[Len(stack)], ctx[t].trace)
<1> DEFINE stack == ctx[t].stack
<1>1. stack \in Seq(Span) /\ ctx[t].trace \in Trace \cup {None} /\ Sane(ctx[t])
  BY DEF IInv, TypeOK, TracingTypeOK, Context, Nested
<1>2. Len(stack) \in 1..Len(stack)
  BY <1>1, EmptySeq
<1>3. stack[Len(stack)] \in Span
  BY <1>1, <1>2, ElementOfSeq
<1>4. QED
  BY <1>1, <1>2, <1>3 DEF Sane

LEMMA TypeNext == IInv /\ [Next]_vars => TypeOK'
<1> SUFFICES ASSUME IInv, [Next]_vars PROVE TypeOK'
  OBVIOUS
<1> USE DEF TypeOK, TracingTypeOK
<1>0. TypeOK /\ (\A t \in Task : Nested(t))
  BY DEF IInv
<1>1. CASE UNCHANGED vars
  BY <1>0, <1>1 DEF vars, tracingVars
<1>2. ASSUME NEW e \in events, Land(e) PROVE TypeOK'
  BY <1>0, <1>2 DEF Land, tracingVars
<1>3. ASSUME NEW t \in Task, NEW id \in Trace, EnterTrace(t, id), UNCHANGED landed
      PROVE  TypeOK'
  <2> DEFINE f == [kind |-> "trace", id |-> id, trace |-> id, saved |-> ctx[t]]
  <2>1. f \in Frame /\ f.kind # "span"
    BY <1>0 DEF Frame
  <2>2. Push(t, f)
    BY <1>3 DEF EnterTrace
  <2> HIDE DEF f
  <2>3. ctx' \in [Task -> Context] /\ frames' \in [Task -> Seq(Frame)]
    BY <1>0, <2>1, <2>2, PushTypes
  <2>4. QED
    BY <1>0, <1>3, <2>3 DEF EnterTrace
<1>4. ASSUME NEW t \in Task, NEW s \in Span, NEW minted \in Trace,
             StartSpan(t, s, minted), UNCHANGED landed
      PROVE  TypeOK'
  <2>1. PICK tid \in Trace, p \in Span \cup {None} : SpanBlock(t, s, tid, p)
    BY <1>4, StartSpanBlock
  <2> DEFINE f == [kind |-> "span", id |-> s, trace |-> tid, saved |-> ctx[t]]
  <2>2. f \in Frame /\ f.id \in Span /\ Push(t, f)
    BY <2>1 DEF SpanBlock
  <2> HIDE DEF f
  <2>3. ctx' \in [Task -> Context] /\ frames' \in [Task -> Seq(Frame)]
    BY <1>0, <2>2, PushTypes
  <2>4. Create(s, tid, p) \in Event
    BY EventTypes
  <2>5. QED
    BY <1>0, <1>4, <2>1, <2>3, <2>4 DEF SpanBlock
<1>5. ASSUME NEW t \in Task, ExitTrace(t), UNCHANGED landed PROVE TypeOK'
  <2>1. ctx' \in [Task -> Context] /\ frames' \in [Task -> Seq(Frame)]
    BY <1>0, <1>5, PopTypes DEF ExitTrace
  <2>2. QED
    BY <1>0, <1>5, <2>1 DEF ExitTrace
<1>6. ASSUME NEW t \in Task, EndSpan(t), UNCHANGED landed PROVE TypeOK'
  <2>1. ctx' \in [Task -> Context] /\ frames' \in [Task -> Seq(Frame)]
    BY <1>0, <1>6, PopTypes DEF EndSpan
  <2>2. Top(t).id \in Span /\ Top(t).trace \in Trace
    BY <1>0, <1>6, TopBlock DEF EndSpan, Nested, SaneBlock, Frame
  <2>3. Update(Top(t).id, Top(t).trace) \in Event
    BY <2>2, EventTypes
  <2>4. QED
    BY <1>0, <1>6, <2>1, <2>3 DEF EndSpan
<1>7. ASSUME NEW t \in Task, UpdateCurrent(t), UNCHANGED landed PROVE TypeOK'
  <2>1. \E s \in Span, x \in Trace : events' = events \cup {Update(s, x)}
    BY <1>7, CurrentIsKnown DEF UpdateCurrent
  <2>2. QED
    BY <1>0, <1>7, <2>1, EventTypes DEF UpdateCurrent
<1>8. ASSUME NEW t \in Task, NEW u \in Task, NEW copies \in BOOLEAN,
             Spawn(t, u, copies), UNCHANGED landed
      PROVE  TypeOK'
  <2>1. Here(t) \in Place /\ Nowhere \in Place /\ NoContext \in Context
    BY <1>0, Whereabouts, Nothing
  <2>2. QED
    BY <1>0, <1>8, <2>1 DEF Spawn
<1>9. QED
  BY <1>1, <1>2, <1>3, <1>4, <1>5, <1>6, <1>7, <1>8 DEF Next, TracingNext

-----------------------------------------------------------------------------
(* What a step may change in what blocks and contexts rest on.             *)

Grown == /\ opened \subseteq opened' /\ started \subseteq started'
         /\ \A s \in Span : called[s] \in Place => called'[s] = called[s]

LEMMA SaneGrows ==
  ASSUME NEW c \in Context, Sane(c), Grown
  PROVE  Sane(c)'
<1>1. ASSUME NEW i \in 1..Len(c.stack) PROVE StartedIn(c.stack[i], c.trace)'
  <2>1. c.stack[i] \in Span
    BY ElementOfSeq DEF Context
  <2>2. QED
    BY <2>1 DEF Sane, StartedIn, Grown
<1>2. QED
  BY <1>1 DEF Sane, Grown

LEMMA BlockGrows ==
  ASSUME NEW f \in Frame, SaneBlock(f), Grown
  PROVE  SaneBlock(f)'
<1>1. f.saved \in Context
  BY DEF Frame
<1>2. Sane(f.saved)'
  BY <1>1, SaneGrows DEF SaneBlock
<1>3. QED
  BY <1>2 DEF SaneBlock, StartedIn, Grown

\* A task that a step leaves alone.
LEMMA NestedStays ==
  ASSUME TypeOK, NEW t \in Task, Nested(t), Grown,
         frames'[t] = frames[t], ctx'[t] = ctx[t], within'[t] = within[t]
  PROVE  Nested(t)'
<1>1. frames[t] \in Seq(Frame) /\ ctx[t] \in Context
  BY DEF TypeOK, TracingTypeOK
<1>2. ASSUME NEW i \in 1..Len(frames[t]) PROVE SaneBlock(frames[t][i])'
  <2>1. frames[t][i] \in Frame
    BY <1>1, ElementOfSeq
  <2>2. SaneBlock(frames[t][i])
    BY DEF Nested
  <2>3. ASSUME NEW f \in Frame, f = frames[t][i] PROVE SaneBlock(f)'
    BY <2>2, <2>3, BlockGrows
  <2>4. QED
    BY <2>1, <2>3 DEF SaneBlock
<1>3. ASSUME NEW c \in Context, c = ctx[t] PROVE Sane(c)'
  BY <1>3, SaneGrows DEF Nested
<1>4. Sane(ctx[t])'
  BY <1>1, <1>3 DEF Sane
<1>5. QED
  BY <1>2, <1>4 DEF Nested, Top, Grown

\* Entering a block.
LEMMA Enter ==
  ASSUME TypeOK, NEW t \in Task, NEW f \in Frame, Nested(t), Push(t, f), Grown,
         f.saved = ctx[t], t \in started, within' = within,
         f.trace \in opened',
         f.kind = "span" => /\ f.id \in Span /\ StartedIn(f.id, f.trace)'
                            /\ f.saved.trace \in {None, f.trace}
  PROVE  \A u \in Task : Nested(u) => Nested(u)'
<1> DEFINE n == Len(frames[t])
<1>1. /\ frames' = [frames EXCEPT ![t] = Append(frames[t], f)]
      /\ ctx' = [ctx EXCEPT ![t] = Inside(f)]
      /\ frames[t] \in Seq(Frame) /\ n \in Nat
      /\ frames \in [Task -> Seq(Frame)] /\ ctx \in [Task -> Context]
  BY PushTypes DEF TypeOK, TracingTypeOK
<1>2. /\ Len(frames'[t]) = n + 1 /\ frames'[t] # <<>> /\ frames'[t][n + 1] = f
      /\ \A i \in 1..n : frames'[t][i] = frames[t][i]
      /\ ctx'[t] = Inside(f)
  BY <1>1, AppendProperties, LenProperties
<1>3. SaneBlock(f)'
  <2>1. ASSUME NEW c \in Context, c = ctx[t] PROVE Sane(c)'
    BY <2>1, SaneGrows DEF Nested
  <2>2. Sane(f.saved)'
    BY <1>1, <2>1 DEF Sane
  <2>3. QED
    BY <2>2 DEF SaneBlock
<1>4. Sane(Inside(f))'
  BY <1>3, InsideSane
<1>5. Agrees(frames'[t][1].saved, within[t])
  <2>1. CASE frames[t] = <<>>
    BY <1>2, <2>1 DEF Nested
  <2>2. CASE frames[t] # <<>>
    <3>1. n # 0
      BY <1>1, <2>2, EmptySeq
    <3>2. frames'[t][1] = frames[t][1]
      BY <1>1, <1>2, <3>1
    <3>3. QED
      BY <2>2, <3>2 DEF Nested
  <2>3. QED
    BY <2>1, <2>2
<1>6. ASSUME NEW i \in 1..(n + 1) PROVE SaneBlock(frames[t][i])'
  <2>1. CASE i = n + 1
    BY <1>2, <1>3, <2>1 DEF SaneBlock
  <2>2. CASE i \in 1..n
    <3>1. frames[t][i] \in Frame /\ SaneBlock(frames[t][i])
      BY <1>1, <2>2, ElementOfSeq DEF Nested
    <3>2. ASSUME NEW g \in Frame, g = frames[t][i] PROVE SaneBlock(g)'
      BY <3>1, <3>2, BlockGrows
    <3>3. QED
      BY <1>2, <2>2, <3>1, <3>2 DEF SaneBlock
  <2>3. QED
    BY <1>1, <2>1, <2>2
<1>7. ASSUME NEW i \in 2..(n + 1) PROVE frames'[t][i].saved = Inside(frames'[t][i - 1])
  <2>1. i - 1 \in 1..n /\ frames'[t][i - 1] = frames[t][i - 1]
    BY <1>1, <1>2
  <2>2. CASE i = n + 1
    <3>1. frames[t] # <<>> /\ i - 1 = n
      BY <1>1, <2>1, <2>2, EmptySeq
    <3>2. ctx[t] = Inside(frames[t][n])
      BY <3>1 DEF Nested, Top
    <3>3. QED
      BY <1>2, <2>1, <2>2, <3>1, <3>2
  <2>3. CASE i \in 2..n
    <3>1. frames[t][i].saved = Inside(frames[t][i - 1]) /\ i \in 1..n
      BY <1>1, <2>3 DEF Nested
    <3>2. QED
      BY <1>2, <2>1, <3>1
  <2>4. QED
    BY <1>1, <2>2, <2>3
<1>8. Nested(t)'
  <2>1. t \in started' /\ within'[t] = within[t]
    BY DEF Grown
  <2>2. Sane(ctx[t])'
    BY <1>2, <1>4 DEF Sane
  <2>3. Top(t)' = f
    BY <1>2 DEF Top
  <2>4. QED
    BY <1>2, <1>5, <1>6, <1>7, <2>1, <2>2, <2>3 DEF Nested
<1>9. ASSUME NEW u \in Task \ {t}, Nested(u) PROVE Nested(u)'
  <2>1. frames'[u] = frames[u] /\ ctx'[u] = ctx[u] /\ within'[u] = within[u]
    BY <1>1
  <2>2. QED
    BY <1>9, <2>1, NestedStays
<1>10. QED
  BY <1>8, <1>9

\* Leaving one.
LEMMA Leave ==
  ASSUME TypeOK, NEW t \in Task, frames[t] # <<>>, Nested(t), Pop(t), Grown,
         UNCHANGED <<started, within, opened, called>>
  PROVE  \A u \in Task : Nested(u) => Nested(u)'
<1> DEFINE n == Len(frames[t])
<1>1. /\ n \in Nat \ {0} /\ Top(t) = frames[t][n] /\ Top(t) \in Frame
      /\ Len(frames'[t]) = n - 1 /\ frames'[t] \in Seq(Frame)
      /\ \A i \in 1..(n - 1) : frames'[t][i] = frames[t][i]
      /\ ctx'[t] = Top(t).saved
      /\ \A u \in Task \ {t} : frames'[u] = frames[u] /\ ctx'[u] = ctx[u]
  BY TopBlock, PopTypes DEF TypeOK, TracingTypeOK
<1>2. \A i \in 1..n : SaneBlock(frames[t][i])
  BY DEF Nested
<1>3. ASSUME NEW i \in 1..(n - 1) PROVE SaneBlock(frames[t][i])'
  <2>1. i \in 1..n /\ frames'[t][i] = frames[t][i]
    BY <1>1
  <2>2. QED
    BY <1>2, <2>1 DEF SaneBlock, Sane, StartedIn
<1>4. Sane(ctx[t])'
  <2>1. SaneBlock(Top(t))
    BY <1>1, <1>2
  <2>2. QED
    BY <1>1, <2>1 DEF SaneBlock, Sane, StartedIn
<1>5. CASE n = 1
  <2>1. frames'[t] = <<>>
    BY <1>1, <1>5, EmptySeq
  <2>2. Agrees(ctx'[t], within'[t])
    BY <1>1, <1>5 DEF Nested
  <2>3. QED
    BY <1>1, <1>4, <1>5, <2>1, <2>2, NestedStays DEF Nested
<1>6. CASE n # 1
  <2>1. n - 1 \in 1..(n - 1) /\ n \in 2..n /\ 1 \in 1..(n - 1)
    <3>1. n \in Nat \ {0} /\ n # 1
      BY <1>1, <1>6
    <3> HIDE DEF n
    <3>2. QED
      BY <3>1
  <2>2. frames'[t] # <<>>
    BY <1>1, <2>1, EmptySeq
  <2>3. frames[t][n].saved = Inside(frames[t][n - 1])
    BY <2>1 DEF Nested
  <2>4. (ctx[t] = Inside(Top(t)))'
    BY <1>1, <2>1, <2>3 DEF Top
  <2>5. Agrees(frames'[t][1].saved, within'[t])
    BY <1>1, <2>1 DEF Nested
  <2>6. ASSUME NEW i \in 2..(n - 1) PROVE frames'[t][i].saved = Inside(frames'[t][i - 1])
    <3>1. i \in 2..n /\ i \in 1..(n - 1) /\ i - 1 \in 1..(n - 1)
      BY <1>1
    <3>2. QED
      BY <1>1, <3>1 DEF Nested
  <2>7. t \in started'
    BY DEF Nested
  <2>8. Nested(t)'
    BY <1>1, <1>3, <1>4, <2>2, <2>4, <2>5, <2>6, <2>7 DEF Nested
  <2>9. QED
    BY <1>1, <2>8, NestedStays
<1>7. QED
  BY <1>5, <1>6

LEMMA ToldGrows ==
  ASSUME TypeOK, Grown PROVE \A e \in events : Told(e) => Told(e)'
<1>1. \A e \in events : e.id \in Span /\ e.parent \in Span \cup {None}
  BY DEF TypeOK, TracingTypeOK, Event
<1>2. QED
  BY <1>1 DEF Told, StartedIn, Grown

-----------------------------------------------------------------------------
LEMMA InvInit == Init => IInv
<1> SUFFICES ASSUME Init PROVE IInv
  OBVIOUS
<1>1. TypeOK
  BY TypeInit
<1>2. ASSUME NEW t \in Task PROVE Nested(t)
  <2>1. frames[t] = <<>> /\ ctx[t] = NoContext /\ within[t] = Nowhere
    BY DEF Init, TracingInit
  <2>2. Len(<<>>) = 0
    BY EmptySeq
  <2>3. QED
    BY <2>1, <2>2 DEF Nested, NoContext, Nowhere, Agrees, Sane
<1>3. QED
  BY <1>1, <1>2 DEF IInv, Init, TracingInit

LEMMA InvNext == IInv /\ [Next]_vars => IInv'
<1> SUFFICES ASSUME IInv, [Next]_vars PROVE IInv'
  OBVIOUS
<1>0. TypeOK /\ TypeOK' /\ (\A t \in Task : Nested(t)) /\ (\A e \in events : Told(e))
  BY TypeNext DEF IInv
<1> DEFINE Kept == (\A t \in Task : Nested(t)') /\ (\A e \in events' : Told(e)')
<1>1. ASSUME UNCHANGED tracingVars PROVE Kept
  <2>1. Grown
    BY <1>1 DEF tracingVars, Grown
  <2>2. \A t \in Task : Nested(t)'
    BY <1>0, <1>1, <2>1, NestedStays DEF tracingVars
  <2>3. QED
    BY <1>0, <1>1, <2>1, <2>2, ToldGrows DEF tracingVars
<1>2. ASSUME NEW t \in Task, NEW id \in Trace, EnterTrace(t, id) PROVE Kept
  <2> DEFINE f == [kind |-> "trace", id |-> id, trace |-> id, saved |-> ctx[t]]
  <2>1. /\ f \in Frame /\ f.kind # "span" /\ f.saved = ctx[t] /\ f.trace \in opened'
        /\ Push(t, f) /\ t \in started /\ within' = within /\ events' = events
    BY <1>0, <1>2 DEF EnterTrace, Frame, TypeOK, TracingTypeOK
  <2>2. Grown
    BY <1>2 DEF EnterTrace, Grown
  <2> HIDE DEF f
  <2>3. \A u \in Task : Nested(u)'
    BY <1>0, <2>1, <2>2, Enter
  <2>4. QED
    BY <1>0, <2>1, <2>2, <2>3, ToldGrows
<1>3. ASSUME NEW t \in Task, NEW s \in Span, NEW minted \in Trace,
             StartSpan(t, s, minted)
      PROVE  Kept
  <2>1. PICK tid \in Trace, p \in Span \cup {None} : SpanBlock(t, s, tid, p)
    BY <1>3, StartSpanBlock
  <2>2. PICK p2 \in Place : /\ p2.trace = tid /\ p2.span = p
                             /\ called' = [called EXCEPT ![s] = p2]
    BY <2>1 DEF SpanBlock
  <2>3. called \in [Span -> Place \cup {None}]
    BY <1>0 DEF TypeOK, TracingTypeOK
  <2>4. StartedIn(s, tid)'
    BY <2>2, <2>3 DEF StartedIn
  <2>5. Grown
    BY <2>1, <2>2, <2>3, Nothing DEF Grown, SpanBlock
  <2>6. PICK f \in Frame :
           /\ f.id = s /\ f.trace = tid /\ f.saved = ctx[t] /\ Push(t, f)
           /\ tid \in opened' /\ ctx[t].trace \in {None, tid}
           /\ t \in started /\ within' = within
           /\ events' = events \cup {Create(s, tid, p)}
    BY <2>1 DEF SpanBlock
  <2>7. f.trace \in opened' /\ StartedIn(f.id, f.trace)' /\ f.saved.trace \in {None, f.trace}
    BY <2>4, <2>6 DEF StartedIn
  <2>8. \A u \in Task : Nested(u)'
    BY <1>0, <2>5, <2>6, <2>7, Enter
  <2>9. Told(Create(s, tid, p))'
    <3>1. p # None => StartedIn(p, tid)'
      BY <2>1, <2>5 DEF SpanBlock, StartedIn, Grown
    <3>2. p = called'[s].span
      BY <2>2, <2>3
    <3>3. QED
      BY <2>4, <2>6, <3>1, <3>2 DEF Told, Create
  <2>10. QED
    BY <1>0, <2>5, <2>6, <2>8, <2>9, ToldGrows DEF Told
<1>4. ASSUME NEW t \in Task, ExitTrace(t) PROVE Kept
  <2>1. Grown
    BY <1>4 DEF ExitTrace, Grown
  <2>2. \A u \in Task : Nested(u)'
    BY <1>0, <1>4, <2>1, Leave DEF ExitTrace
  <2>3. QED
    BY <1>0, <1>4, <2>1, <2>2, ToldGrows DEF ExitTrace
<1>5. ASSUME NEW t \in Task, EndSpan(t) PROVE Kept
  <2>1. Grown
    BY <1>5 DEF EndSpan, Grown
  <2>2. \A u \in Task : Nested(u)'
    BY <1>0, <1>5, <2>1, Leave DEF EndSpan
  <2>3. SaneBlock(Top(t)) /\ Top(t).kind = "span"
    BY <1>0, <1>5, TopBlock DEF EndSpan, Nested
  <2>4. PICK e : events' = events \cup {e} /\ Told(e)
    <3>1. events' = events \cup {Update(Top(t).id, Top(t).trace)}
      BY <1>5 DEF EndSpan
    <3>2. Told(Update(Top(t).id, Top(t).trace))
      BY <2>3 DEF Told, Update, SaneBlock
    <3>3. QED
      BY <3>1, <3>2
  <2>5. Told(e)'
    BY <1>5, <2>4 DEF EndSpan, Told, StartedIn
  <2>6. QED
    BY <1>0, <2>1, <2>2, <2>4, <2>5, ToldGrows DEF Told
<1>6. ASSUME NEW t \in Task, UpdateCurrent(t) PROVE Kept
  <2>1. Grown
    BY <1>6 DEF UpdateCurrent, Grown
  <2>2. \A u \in Task : Nested(u)'
    BY <1>0, <1>6, <2>1, NestedStays DEF UpdateCurrent
  <2>3. PICK s \in Span, x \in Trace :
           /\ events' = events \cup {Update(s, x)}
           /\ x \in opened /\ StartedIn(s, x)
    BY <1>6, CurrentIsKnown DEF UpdateCurrent
  <2>4. Told(Update(s, x))'
    BY <1>6, <2>3 DEF UpdateCurrent, Told, Update, StartedIn
  <2>5. QED
    BY <1>0, <2>1, <2>2, <2>3, <2>4, ToldGrows DEF Told
<1>7. ASSUME NEW t \in Task, NEW u \in Task, NEW copies \in BOOLEAN,
             Spawn(t, u, copies)
      PROVE  Kept
  <2>1. Grown /\ frames' = frames /\ events' = events
    BY <1>7 DEF Spawn, Grown
  <2>2. Agrees(ctx[t], Here(t)) /\ Agrees(NoContext, Nowhere)
    BY <1>0, Whereabouts DEF Agrees, NoContext, Nowhere
  <2>3. Sane(ctx[t]) /\ Sane(NoContext)
    <3>1. Len(<<>>) = 0
      BY EmptySeq
    <3>2. QED
      BY <1>0, <3>1 DEF Nested, Sane, NoContext
  <2>4. ctx \in [Task -> Context] /\ within \in [Task -> Place]
    BY <1>0 DEF TypeOK, TracingTypeOK
  <2>5. /\ ctx'[u] = (IF copies THEN ctx[t] ELSE NoContext)
        /\ within'[u] = (IF copies THEN Here(t) ELSE Nowhere)
        /\ \A v \in Task \ {u} : ctx'[v] = ctx[v] /\ within'[v] = within[v]
    BY <1>7, <2>4 DEF Spawn
  <2>6. Agrees(ctx'[u], within'[u])
    BY <2>2, <2>5
  <2>7. Sane(ctx[u])'
    BY <1>7, <2>3, <2>5 DEF Sane, StartedIn, Spawn
  <2>8. frames'[u] = <<>> /\ Len(frames'[u]) = 0
    BY <1>0, <1>7, <2>1, EmptySeq DEF Spawn, Nested
  <2>9. Nested(u)'
    BY <2>6, <2>7, <2>8 DEF Nested
  <2>10. \A v \in Task \ {u} : Nested(v)'
    BY <1>0, <2>1, <2>5, NestedStays
  <2>11. QED
    BY <1>0, <2>1, <2>9, <2>10, ToldGrows
<1>8. Kept
  BY <1>1, <1>2, <1>3, <1>4, <1>5, <1>6, <1>7
     DEF Next, TracingNext, Land, vars
<1>9. QED
  BY <1>0, <1>8 DEF IInv

-----------------------------------------------------------------------------
\* The variables keep their types.
THEOREM TypeCorrect == Spec => []TypeOK
<1>1. IInv => TypeOK
  BY DEF IInv
<1>2. QED
  BY <1>1, InvInit, InvNext, PTL DEF Spec

\* In every task, and however blocks are entered, left and handed over to other
\* tasks, the two context variables are the innermost open block
\* (openweave.py 365-489).
THEOREM ContextIsRight == Spec => []ContextIsTheCallStack
<1>1. IInv => ContextIsTheCallStack
  <2> SUFFICES ASSUME IInv, NEW t \in started
               PROVE  Agrees(ctx[t], Here(t))
    BY DEF ContextIsTheCallStack, Agrees
  <2>1. t \in Task
    BY DEF IInv, TypeOK, TracingTypeOK
  <2>2. QED
    BY <2>1, Whereabouts DEF IInv
<1>2. QED
  BY <1>1, InvInit, InvNext, PTL DEF Spec

\* All events about a span name one trace, which was announced, and a parent
\* that is in it (openweave.py 400-434).
THEOREM EventsAreRight == Spec => []EventsAgree
<1>1. IInv => EventsAgree
  BY DEF IInv, EventsAgree, Told, StartedIn
<1>2. QED
  BY <1>1, InvInit, InvNext, PTL DEF Spec

-----------------------------------------------------------------------------
(* The tree.                                                               *)

LEMMA TreeInit == Init => TreeInv
<1> SUFFICES ASSUME Init PROVE TreeInv
  OBVIOUS
<1>1. \A s \in Span : called[s] = None
  BY DEF Init, TracingInit
<1>2. IInv
  BY InvInit
<1>3. QED
  BY <1>1, <1>2 DEF TreeInv, Rooted, NoCircle

\* A new span is in one that was there before it: it closes no circle.
LEMMA NewLeaf ==
  ASSUME TypeOK, NoCircle, NEW s \in Span, called[s] = None, NEW p \in Place,
         called' = [called EXCEPT ![s] = p],
         p.span # None => called[p.span] # None,
         \A r \in Span : Rooted(r)
  PROVE  NoCircle'
<1>1. called \in [Span -> Place \cup {None}]
  BY DEF TypeOK, TracingTypeOK
<1>2. called'[s] = p /\ \A r \in Span \ {s} : called'[r] = called[r]
  BY <1>1
<1> SUFFICES ASSUME NEW S \in SUBSET {r \in Span : called'[r] # None}, S # {}
             PROVE  \E r \in S : called'[r].span \notin S
  BY DEF NoCircle
<1>3. p.span # s
  BY Nothing
<1>4. CASE S \subseteq {s}
  <2>1. s \in S /\ called'[s].span \notin S
    BY <1>2, <1>3, <1>4
  <2>2. QED
    BY <2>1
<1>5. CASE ~(S \subseteq {s})
  <2>1. S \ {s} # {} /\ S \ {s} \subseteq {r \in Span : called[r] # None}
    BY <1>2, <1>5
  <2>2. PICK r \in S \ {s} : called[r].span \notin S \ {s}
    BY <2>1 DEF NoCircle
  <2>3. called[r].span # s
    <3>1. r \in Span /\ called[r] # None /\ Rooted(r)
      BY <2>1
    <3>2. called[r].span # None => called[called[r].span] \in Place
      BY <3>1 DEF Rooted, StartedIn
    <3>3. QED
      BY <3>2, Nothing
  <2>4. QED
    BY <1>2, <2>2, <2>3
<1>6. QED
  BY <1>4, <1>5

LEMMA TreeNext == TreeInv /\ [Next]_vars => TreeInv'
<1> SUFFICES ASSUME TreeInv, [Next]_vars PROVE TreeInv'
  OBVIOUS
<1>0. IInv /\ IInv' /\ TypeOK /\ (\A s \in Span : Rooted(s)) /\ NoCircle
  BY InvNext DEF TreeInv, IInv
<1> DEFINE Kept == (\A s \in Span : Rooted(s))' /\ NoCircle'
<1>1. ASSUME called' = called, events \subseteq events' PROVE Kept
  <2>1. NoCircle'
    BY <1>0, <1>1 DEF NoCircle
  <2>2. ASSUME NEW s \in Span PROVE Rooted(s)'
    BY <1>0, <1>1 DEF Rooted, StartedIn
  <2>3. QED
    BY <2>1, <2>2
<1>2. ASSUME NEW t \in Task, NEW s \in Span, NEW minted \in Trace,
             StartSpan(t, s, minted)
      PROVE  Kept
  <2>1. PICK tid \in Trace, q \in Span \cup {None} : SpanBlock(t, s, tid, q)
    BY <1>0, <1>2, StartSpanBlock
  <2>2. PICK p \in Place : /\ p.trace = tid /\ p.span = q
                           /\ called' = [called EXCEPT ![s] = p]
    BY <2>1 DEF SpanBlock
  <2>3. /\ called[s] = None
        /\ q # None => StartedIn(q, tid)
        /\ events' = events \cup {Create(s, tid, q)}
    BY <2>1 DEF SpanBlock
  <2>4. /\ called \in [Span -> Place \cup {None}]
        /\ called'[s] = p /\ \A r \in Span \ {s} : called'[r] = called[r]
    BY <1>0, <2>2 DEF TypeOK, TracingTypeOK
  <2>5. NoCircle'
    BY <1>0, <2>2, <2>3, NewLeaf, Nothing DEF StartedIn
  <2>6. \A r \in Span, x \in Trace : StartedIn(r, x) => StartedIn(r, x)'
    BY <2>3, <2>4, Nothing DEF StartedIn
  <2>7. ASSUME NEW r \in Span \ {s}, Rooted(r) PROVE Rooted(r)'
    <3>1. called'[r] = called[r] /\ events \subseteq events'
      BY <2>3, <2>4
    <3>2. called[r] # None => called[r].trace \in Trace \cup {None}
                              /\ called[r].span \in Span \cup {None}
      BY <2>4 DEF Place
    <3>3. ASSUME called[r] # None, called[r].span # None
          PROVE  StartedIn(called[r].span, called[r].trace)'
      <4>1. StartedIn(called[r].span, called[r].trace)
        BY <2>7, <3>3 DEF Rooted
      <4>2. called[r].span \in Span \ {s}
        BY <2>3, <3>2, <3>3, <4>1, Nothing DEF StartedIn
      <4>3. QED
        BY <2>4, <3>1, <4>1, <4>2 DEF StartedIn
    <3>4. QED
      BY <2>7, <3>1, <3>3 DEF Rooted
  <2>8. Rooted(s)'
    <3>1. Create(s, tid, q) \in events' /\ Create(s, tid, q).id = s
          /\ Create(s, tid, q).type = "observation_create"
      BY <2>3 DEF Create
    <3>2. q # None => StartedIn(q, tid)'
      BY <2>3, <2>6
    <3>3. QED
      BY <2>2, <2>4, <3>1, <3>2 DEF Rooted, StartedIn
  <2>9. QED
    BY <1>0, <2>5, <2>7, <2>8
<1>3. ASSUME TracingNext PROVE Kept
  <2>1. PICK t \in Task :
          \/ \E id \in Trace : EnterTrace(t, id)
          \/ \E s \in Span, id \in Trace : StartSpan(t, s, id)
          \/ \E u \in Task, copies \in BOOLEAN : Spawn(t, u, copies)
          \/ ExitTrace(t) \/ EndSpan(t) \/ UpdateCurrent(t)
    BY <1>3 DEF TracingNext
  <2>2. CASE \E s \in Span, id \in Trace : StartSpan(t, s, id)
    BY <1>2, <2>2
  <2>3. CASE ~ \E s \in Span, id \in Trace : StartSpan(t, s, id)
    <3>1. called' = called /\ events \subseteq events'
      BY <2>1, <2>3
         DEF EnterTrace, Spawn, ExitTrace, EndSpan, UpdateCurrent
    <3>2. QED
      BY <1>1, <3>1
  <2>4. QED
    BY <2>2, <2>3
<1>4. ASSUME UNCHANGED tracingVars PROVE Kept
  BY <1>1, <1>4 DEF tracingVars
<1>5. Kept
  BY <1>3, <1>4 DEF Next, Land, vars
<1>6. QED
  BY <1>0, <1>5 DEF TreeInv

\* Of a row: its span was started, in the trace the row is in.
LEMMA RowIsKnown ==
  ASSUME IInv, NEW id \in Trace, NEW s \in Rows(id)
  PROVE  /\ s \in Span /\ called[s] \in Place /\ called[s].trace = id
         /\ s # None /\ called[s] # None
<1>1. PICK e \in landed : e.trace = id /\ e.id = s
  BY DEF Rows
<1>2. e \in events /\ e \in Event /\ Told(e)
  BY DEF IInv, TypeOK, TracingTypeOK
<1>3. QED
  BY <1>1, <1>2, Nothing DEF Event, Told, StartedIn

\* What a row says of the parent is what the program's blocks say, or nothing.
LEMMA ParentIsTold ==
  ASSUME IInv, NEW id \in Trace, NEW s \in Rows(id)
  PROVE  \/ ParentOf(s, id) = called[s].span
         \/ /\ ParentOf(s, id) = None
            /\ \A e \in landed : ~(e.type = "observation_create" /\ e.id = s)
<1> DEFINE said == {e \in landed : e.type = "observation_create" /\ e.id = s}
<1>1. CASE said = {}
  BY <1>1 DEF ParentOf
<1>2. CASE said # {}
  <2>1. PICK e \in said : ParentOf(s, id) = e.parent
    BY <1>2 DEF ParentOf
  <2>2. e \in events /\ Told(e)
    BY DEF IInv, TypeOK
  <2>3. QED
    BY <2>1, <2>2 DEF Told
<1>3. QED
  BY <1>1, <1>2

\* A span that was started has its block's parent in the same trace: once
\* anything of the parent has landed, it is a row of that trace.
LEMMA ParentIsARow ==
  ASSUME TreeInv, NEW id \in Trace, NEW s \in Rows(id), NEW e \in landed,
         e.id = called[s].span
  PROVE  called[s].span \in Rows(id)
<1>1. s \in Span /\ called[s] # None /\ called[s].trace = id
  BY RowIsKnown DEF TreeInv
<1>2. e \in Event /\ Told(e)
  BY DEF TreeInv, IInv, TypeOK, TracingTypeOK
<1>3. called[s].span # None
  BY <1>2, Nothing DEF Event
<1>4. e.trace = id
  BY <1>1, <1>2, <1>3 DEF TreeInv, Rooted, StartedIn, Told
<1>5. QED
  BY <1>4 DEF Rows

\* Walking down from the roots one comes by every row: the rows that are left
\* out would be in one another in a circle.
LEMMA AllAreShown ==
  ASSUME TreeInv, NEW id \in Trace
  PROVE  Shown(id) = Rows(id)
<1> SUFFICES ASSUME NEW S \in SUBSET Rows(id), Closed(S, id)
             PROVE  Rows(id) \subseteq S
  BY DEF Shown
<1> SUFFICES ASSUME Rows(id) \ S # {} PROVE FALSE
  OBVIOUS
<1>0. IInv
  BY DEF TreeInv
<1>1. Rows(id) \ S \subseteq {s \in Span : called[s] # None}
  BY <1>0, RowIsKnown
<1>2. PICK s \in Rows(id) \ S : called[s].span \notin Rows(id) \ S
  BY <1>1 DEF TreeInv, NoCircle
<1>3. ParentOf(s, id) \in Rows(id)
  BY <1>2 DEF Closed, Roots
<1>4. ParentOf(s, id) # None
  BY <1>0, <1>3, RowIsKnown
<1>5. ParentOf(s, id) = called[s].span
  BY <1>0, <1>4, ParentIsTold
<1>6. ParentOf(s, id) \in S
  BY <1>2, <1>3, <1>5
<1>7. s \in Children(ParentOf(s, id), id)
  BY <1>2 DEF Children
<1>8. QED
  BY <1>2, <1>6, <1>7 DEF Closed

\* Whatever part of the events has landed, in whatever order, the assembled
\* trace shows every row, flags a missing parent rightly, and is the program's
\* tree once all has landed (main.py 208-287).
THEOREM TreeIsRight == Spec => []TreeIsHonest
<1>1. TreeInv => TreeIsHonest
  <2> SUFFICES ASSUME TreeInv, NEW id \in Trace
               PROVE  /\ Shown(id) = Rows(id)
                      /\ \A s \in Rows(id) : ParentMissing(s, id) =>
                           \A e \in landed : e.id # called[s].span
                      /\ events = landed =>
                           \A s \in Rows(id) : /\ ParentOf(s, id) = called[s].span
                                               /\ ~ParentMissing(s, id)
    BY DEF TreeIsHonest
  <2>0. IInv
    BY DEF TreeInv
  <2>1. ASSUME NEW s \in Rows(id), ParentMissing(s, id),
               NEW e \in landed, e.id = called[s].span
        PROVE  FALSE
    <3>1. ParentOf(s, id) = called[s].span /\ ParentOf(s, id) \notin Rows(id)
      BY <2>0, <2>1, ParentIsTold DEF ParentMissing, Roots
    <3>2. QED
      BY <2>1, <3>1, ParentIsARow
  <2>2. ASSUME events = landed, NEW s \in Rows(id)
        PROVE  ParentOf(s, id) = called[s].span /\ ~ParentMissing(s, id)
    <3>1. s \in Span /\ called[s] # None
      BY <2>0, RowIsKnown
    <3>2. PICK e \in landed : e.type = "observation_create" /\ e.id = s
      BY <2>2, <3>1 DEF TreeInv, Rooted
    <3>3. ParentOf(s, id) = called[s].span
      BY <2>0, <3>2, ParentIsTold
    <3>4. ASSUME called[s].span # None
          PROVE  \E x \in landed : x.id = called[s].span
      <4>1. StartedIn(called[s].span, called[s].trace)
        BY <3>1, <3>4 DEF TreeInv, Rooted
      <4>2. called[s].span \in Span /\ called[called[s].span] # None
        <5>1. called[s] \in Place
          BY <2>0, RowIsKnown
        <5>2. QED
          BY <3>4, <4>1, <5>1, Nothing DEF Place, StartedIn
      <4>3. QED
        BY <2>2, <4>2 DEF TreeInv, Rooted
    <3>5. QED
      BY <2>1, <3>3, <3>4 DEF ParentMissing
  <2>3. QED
    BY <2>1, <2>2, AllAreShown
<1>2. QED
  BY <1>1, TreeInit, TreeNext, PTL DEF Spec
=============================================================================
