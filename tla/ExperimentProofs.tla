--------------------------- MODULE ExperimentProofs ---------------------------
(***************************************************************************)
(* Proofs about Experiment, for any runners, items, limit and failures:    *)
(* scores that count knew the right answer, a run that returns is          *)
(* complete, and one that is said to be scored is.                         *)
(***************************************************************************)
EXTENDS Experiment, SequenceTheorems, FiniteSetTheorems, TLAPS

-----------------------------------------------------------------------------
(* Sequences of items.                                                     *)

LEMMA SeqDomain ==
  ASSUME NEW s \in Seq(Item)
  PROVE  Range(s) = {s[j] : j \in 1..Len(s)}
<1>1. DOMAIN s = 1..Len(s)
  BY LenProperties
<1>2. QED
  BY <1>1 DEF Range

LEMMA ItemsOf ==
  ASSUME NEW s \in Seq(Item)
  PROVE  /\ \A i : i \in Range(s) <=> \E j \in 1..Len(s) : i = s[j]
         /\ Range(s) \subseteq Item
<1>1. \A j \in 1..Len(s) : s[j] \in Item
  BY ElementOfSeq
<1>2. QED
  BY <1>1, SeqDomain

\* What is left when the first one is done.
LEMMA HeadAndTail ==
  ASSUME NEW s \in Seq(Item), s # <<>>, Distinct(s)
  PROVE  /\ Head(s) \in Item /\ Tail(s) \in Seq(Item) /\ Distinct(Tail(s))
         /\ Range(s) = {Head(s)} \cup Range(Tail(s))
         /\ Head(s) \notin Range(Tail(s))
<1>1. /\ Len(s) \in Nat \ {0} /\ Head(s) = s[1] /\ Tail(s) \in Seq(Item)
      /\ Len(Tail(s)) = Len(s) - 1
      /\ \A j \in 1..(Len(s) - 1) : Tail(s)[j] = s[j + 1]
  BY HeadTailProperties, EmptySeq, LenProperties
<1>2. \A j \in 1..Len(s) : s[j] \in Item
  BY ElementOfSeq
<1>3. Head(s) \in Item
  BY <1>1, <1>2
<1>4. Distinct(Tail(s))
  BY <1>1 DEF Distinct
<1>5. \A i : i \in Range(Tail(s)) <=> \E j \in 1..(Len(s) - 1) : i = s[j + 1]
  <2>1. \A i : i \in Range(Tail(s)) <=> \E j \in 1..Len(Tail(s)) : i = Tail(s)[j]
    BY <1>1, ItemsOf
  <2>2. QED
    BY <1>1, <2>1
<1>6. Head(s) \notin Range(Tail(s))
  BY <1>1, <1>5 DEF Distinct
<1>7. ASSUME NEW i \in Range(s) PROVE i \in {Head(s)} \cup Range(Tail(s))
  <2>1. PICK j \in 1..Len(s) : i = s[j]
    BY ItemsOf
  <2>2. CASE j = 1
    BY <1>1, <2>1, <2>2
  <2>3. CASE j # 1
    <3>1. j - 1 \in 1..(Len(s) - 1) /\ (j - 1) + 1 = j
      BY <1>1, <2>3
    <3>2. QED
      BY <1>5, <2>1, <3>1
  <2>4. QED
    BY <2>2, <2>3
<1>8. \A j \in 1..(Len(s) - 1) : j + 1 \in 1..Len(s)
  BY <1>1
<1>9. {Head(s)} \cup Range(Tail(s)) \subseteq Range(s)
  BY <1>1, <1>5, <1>8, ItemsOf
<1>10. QED
  BY <1>1, <1>3, <1>4, <1>6, <1>7, <1>9

LEMMA AppendDistinct ==
  ASSUME NEW s \in Seq(Item), Distinct(s), NEW i \in Item, i \notin Range(s)
  PROVE  Append(s, i) \in Seq(Item) /\ Distinct(Append(s, i))
<1>1. /\ Append(s, i) \in Seq(Item) /\ Len(Append(s, i)) = Len(s) + 1
      /\ \A j \in 1..Len(s) : Append(s, i)[j] = s[j]
      /\ Append(s, i)[Len(s) + 1] = i /\ Len(s) \in Nat
  BY AppendProperties, LenProperties
<1>2. \A j \in 1..Len(s) : s[j] # i
  BY ItemsOf
<1>3. \A j \in 1..(Len(s) + 1) : j \in 1..Len(s) \/ j = Len(s) + 1
  BY <1>1
<1>4. QED
  BY <1>1, <1>2, <1>3 DEF Distinct

\* The first items of the dataset.
LEMMA ListedItems ==
  ASSUME dataset \in Seq(Item), Distinct(dataset)
  PROVE  Listed \in Seq(Item) /\ Distinct(Listed)
<1> DEFINE n == IF Len(dataset) < Limit THEN Len(dataset) ELSE Limit
<1>1. n \in Nat /\ n <= Len(dataset)
  BY ExperimentAssumption, LenProperties
<1>2. \A j \in 1..n : dataset[j] \in Item /\ j \in 1..Len(dataset)
  BY <1>1, ElementOfSeq, LenProperties
<1>3. Listed = SubSeq(dataset, 1, n)
  BY DEF Listed
<1> HIDE DEF n
<1>4. /\ SubSeq(dataset, 1, n) \in Seq(Item)
      /\ Len(SubSeq(dataset, 1, n)) = IF 1 <= n THEN n - 1 + 1 ELSE 0
      /\ \A j \in 1..(n - 1 + 1) : SubSeq(dataset, 1, n)[j] = dataset[1 + j - 1]
  BY <1>1, <1>2, SubSeqProperties
<1>5. Len(Listed) = n /\ \A j \in 1..n : Listed[j] = dataset[j]
  <2>1. \A j \in 1..n : 1 + j - 1 = j
    OBVIOUS
  <2>2. QED
    BY <1>1, <1>3, <1>4, <2>1
<1>6. QED
  BY <1>2, <1>3, <1>4, <1>5 DEF Distinct

-----------------------------------------------------------------------------
\* A runner at an item has one, and what it links it to is a trace.
LEMMA Current ==
  ASSUME TypeOK, NEW r \in Runner, todo[r] # <<>>, Distinct(todo[r])
  PROVE  /\ Now(r) \in Trace /\ Now(r) = <<r, Head(todo[r])>>
         /\ Head(todo[r]) \in Item /\ Tail(todo[r]) \in Seq(Item)
         /\ Distinct(Tail(todo[r]))
         /\ Range(todo[r]) = {Head(todo[r])} \cup Range(Tail(todo[r]))
         /\ Head(todo[r]) \notin Range(Tail(todo[r]))
<1>1. todo[r] \in Seq(Item)
  BY DEF TypeOK
<1>2. QED
  BY <1>1, HeadAndTail DEF Now, Trace

LEMMA AtAnItem ==
  ASSUME IInv, NEW r \in Runner, pc[r] \in {"link", "emit", "task"}
  PROVE  /\ todo[r] # <<>> /\ Distinct(todo[r]) /\ TypeOK
         /\ Now(r) \in Trace /\ Now(r) = <<r, Head(todo[r])>>
         /\ Head(todo[r]) \in Item /\ Head(todo[r]) \in Range(todo[r])
<1>1. todo[r] # <<>> /\ Distinct(todo[r]) /\ TypeOK
  BY DEF IInv, TypeOK, Ahead
<1>2. QED
  BY <1>1, Current

\* A request's count of failures, and where it leads.
LEMMA Requests ==
  ASSUME TypeOK, NEW r \in Runner
  PROVE  Raises(r) => /\ trouble' \in 0..MaxTrouble
                      /\ pc' = [pc EXCEPT ![r] = "raised"]
<1>1. trouble \in Nat /\ MaxTrouble \in Nat /\ trouble <= MaxTrouble
  <2>1. trouble \in 0..MaxTrouble
    BY DEF TypeOK
  <2>2. QED
    BY <2>1, ExperimentAssumption
<1>2. QED
  BY <1>1 DEF Raises, Goto

LEMMA TypeInit == Init => TypeOK
<1> SUFFICES ASSUME Init PROVE TypeOK
  OBVIOUS
<1>1. <<>> \in Seq(Item)
  BY EmptySeq
<1>2. trouble \in 0..MaxTrouble
  BY ExperimentAssumption DEF Init
<1>3. QED
  BY <1>1, <1>2 DEF Init, TypeOK, RunItem

\* The runners' types.
LEMMA TypeNext == IInv /\ [Next]_vars => TypeOK'
<1> SUFFICES ASSUME IInv, [Next]_vars PROVE TypeOK'
  OBVIOUS
<1>0. TypeOK /\ Distinct(dataset) /\ \A r \in Runner : Distinct(todo[r])
  BY DEF IInv, Ahead
<1> USE DEF TypeOK, runner, judge, Goto
<1>1. CASE UNCHANGED vars
  BY <1>0, <1>1 DEF vars
<1>2. ASSUME NEW i \in Item, NEW t, AddItem(i, t) PROVE TypeOK'
  BY <1>0, <1>2, AppendDistinct DEF AddItem
<1>3. ASSUME NEW r \in Runner, CreateRun(r) PROVE TypeOK'
  <2>1. run' \in BOOLEAN /\ trouble' \in 0..MaxTrouble
    BY <1>0, <1>3, Requests DEF CreateRun, CreatesRun
  <2>2. pc' = [pc EXCEPT ![r] = "list"] \/ pc' = [pc EXCEPT ![r] = "raised"]
    BY <1>0, <1>3, Requests DEF CreateRun
  <2>3. QED
    BY <1>0, <1>3, <2>1, <2>2 DEF CreateRun
<1>4. ASSUME NEW r \in Runner, ListItems(r) PROVE TypeOK'
  <2>1. Listed \in Seq(Item)
    BY <1>0, ListedItems
  <2>2. trouble' \in 0..MaxTrouble
    BY <1>0, <1>4, Requests DEF ListItems
  <2>3. CASE Raises(r) /\ UNCHANGED <<mine, todo>>
    BY <1>0, <1>4, <2>2, <2>3, Requests DEF ListItems
  <2>4. CASE /\ mine' = [mine EXCEPT ![r] = Listed]
             /\ todo' = [todo EXCEPT ![r] = Listed]
             /\ pc' = [pc EXCEPT ![r] = IF Listed = <<>> THEN "raised" ELSE "link"]
    BY <1>0, <1>4, <2>1, <2>2, <2>4 DEF ListItems
  <2>5. QED
    BY <1>4, <2>3, <2>4 DEF ListItems
<1>5. ASSUME NEW r \in Runner, Link(r) PROVE TypeOK'
  <2>1. Now(r) \in Trace /\ Head(todo[r]) \in Item
    BY <1>0, <1>5, Current DEF Link
  <2>2. link' \in RunItem /\ superseded' \subseteq Trace
    <3>1. CASE Links(Head(todo[r]), Now(r))
      <4>1. link[Head(todo[r])] \in Trace \cup {None}
        BY <1>0, <2>1 DEF RunItem
      <4>2. QED
        BY <1>0, <2>1, <3>1, <4>1 DEF Links, RunItem
    <3>2. CASE UNCHANGED <<link, superseded>>
      BY <1>0, <3>2
    <3>3. QED
      BY <1>5, <3>1, <3>2 DEF Link
  <2>3. trouble' \in 0..MaxTrouble
    BY <1>0, <1>5, Requests DEF Link
  <2>4. pc' = [pc EXCEPT ![r] = "emit"] \/ pc' = [pc EXCEPT ![r] = "raised"]
    BY <1>0, <1>5, Requests DEF Link
  <2>5. QED
    BY <1>0, <1>5, <2>2, <2>3, <2>4 DEF Link
<1>6. ASSUME NEW r \in Runner, Emit(r) PROVE TypeOK'
  BY <1>0, <1>6 DEF Emit
<1>7. ASSUME NEW r \in Runner, RunTask(r) PROVE TypeOK'
  <2>1. Head(todo[r]) \in Item /\ Tail(todo[r]) \in Seq(Item)
    BY <1>0, <1>7, Current DEF RunTask, TaskEnds
  <2>2. done' \in [Runner -> SUBSET Item]
    <3>1. done' = [done EXCEPT ![r] = done[r] \cup {Head(todo[r])}]
      BY <1>7 DEF RunTask, TaskEnds
    <3>2. done \in [Runner -> SUBSET Item]
      BY <1>0
    <3> HIDE DEF TypeOK
    <3>3. QED
      BY <2>1, <3>1, <3>2
  <2>3. /\ todo' = [todo EXCEPT ![r] = Tail(todo[r])]
        /\ pc' = [pc EXCEPT ![r] = IF Tail(todo[r]) = <<>> THEN "flush" ELSE "link"]
        /\ UNCHANGED <<dataset, run, link, superseded, mine, trace, judge, trouble>>
    BY <1>7 DEF RunTask, TaskEnds
  <2>4. QED
    BY <1>0, <2>1, <2>2, <2>3
<1>8. ASSUME NEW r \in Runner, Flush(r) \/ Poll(r) PROVE TypeOK'
  <2>1. trouble' \in 0..MaxTrouble
    BY <1>0, <1>8, Requests DEF Flush, Poll
  <2>2. \E l \in {"wait", "scored", "gave up", "raised"} : pc' = [pc EXCEPT ![r] = l]
    BY <1>0, <1>8, Requests DEF Flush, Poll
  <2>3. QED
    BY <1>0, <1>8, <2>1, <2>2 DEF Flush, Poll
<1>9. ASSUME NEW t \in Trace, Store(t) \/ (\E e \in Rule : JudgeReads(t, e)) PROVE TypeOK'
  <2>1. CASE Store(t)
    BY <1>0, <2>1 DEF Store
  <2>2. ASSUME NEW e \in Rule, JudgeReads(t, e) PROVE TypeOK'
    <3>1. PICK k \in Item \cup {None} :
            heard' = heard \cup {Verdict(t, e, k)}
      BY <2>2 DEF JudgeReads
    <3>2. Verdict(t, e, k) \in Score
      BY ExperimentAssumption DEF Verdict, Score
    <3>3. heard' \subseteq Score
      BY <1>0, <3>1, <3>2
    <3>4. QED
      BY <1>0, <2>2, <3>3 DEF JudgeReads
  <2>3. QED
    BY <1>9, <2>1, <2>2
<1>10. ASSUME NEW t \in Trace, NEW rows, JudgeAnswers(t, rows) PROVE TypeOK'
  BY <1>0, <1>10 DEF JudgeAnswers
<1>11. ASSUME NEW t \in Trace \cup {None}, NEW i \in Item \cup {None}, NEW n \in Name,
              NEW id \in 1..MaxFeedback, Feedback(t, i, n, id)
       PROVE  TypeOK'
  <2>1. Given(t, i, n, id) \in Score
    BY DEF Given, Score
  <2>2. QED
    BY <1>0, <1>11, <2>1 DEF Feedback
<1>12. QED
  BY <1>1, <1>2, <1>3, <1>4, <1>5, <1>6, <1>7, <1>8, <1>9, <1>10, <1>11 DEF Next

-----------------------------------------------------------------------------
(* Links and scores.                                                       *)

\* Traces only go on, scores and replaced links stay.
LEMMA Onward ==
  ASSUME IInv, [Next]_vars
  PROVE  /\ \A t \in Trace : trace[t] # "none" => trace'[t] # "none"
         /\ superseded \subseteq superseded'
<1>1. trace \in [Trace -> {"none", "sent", "stored", "judging", "judged"}]
  BY DEF IInv, TypeOK
<1>2. QED
  BY <1>1 DEF Next, vars, AddItem, CreateRun, ListItems, Link, Links, Emit, RunTask, TaskEnds,
     Flush, Poll, Store, JudgeReads, JudgeAnswers, Feedback, runner, judge

\* A row is a verdict whose judge looked the link up, or given by a client.
LEMMA NewRows ==
  ASSUME IInv, [Next]_vars, NEW s \in heard' \cup score', s \notin heard \cup score
  PROVE  \/ \E t \in Trace, e \in Rule, k \in Item \cup {None} :
              /\ s = Verdict(t, e, k) /\ UNCHANGED link /\ trace'[t] = "judging"
              /\ \/ k # None /\ link[k] = t
                 \/ k = None /\ \A i \in Item : link[i] # t
         \/ \E t \in Trace \cup {None}, i \in Item \cup {None}, n \in Name,
              id \in 1..MaxFeedback :
              /\ s = Given(t, i, n, id) /\ UNCHANGED <<link, trace>>
              /\ t # None => trace[t] # "none"
<1>0. trace \in [Trace -> {"none", "sent", "stored", "judging", "judged"}]
  BY DEF IInv, TypeOK
<1>1. CASE UNCHANGED judge
  BY <1>1 DEF judge
<1>2. ASSUME NEW t \in Trace, NEW e \in Rule, JudgeReads(t, e)
      PROVE  \E k \in Item \cup {None} :
               /\ s = Verdict(t, e, k) /\ UNCHANGED link /\ trace'[t] = "judging"
               /\ \/ k # None /\ link[k] = t
                  \/ k = None /\ \A i \in Item : link[i] # t
  <2>1. PICK k \in Item \cup {None} :
          /\ \/ k # None /\ link[k] = t
             \/ k = None /\ \A i \in Item : link[i] # t
          /\ heard' = heard \cup {Verdict(t, e, k)}
    BY <1>2 DEF JudgeReads
  <2>2. UNCHANGED <<link, score>> /\ trace'[t] = "judging"
    BY <1>0, <1>2 DEF JudgeReads
  <2>3. s = Verdict(t, e, k)
    BY <2>1, <2>2
  <2>4. QED
    BY <2>1, <2>2, <2>3
<1>3. ASSUME NEW t \in Trace, NEW rows, JudgeAnswers(t, rows) PROVE FALSE
  BY <1>3 DEF JudgeAnswers
<1>4. ASSUME NEW t \in Trace \cup {None}, NEW i \in Item \cup {None}, NEW n \in Name,
             NEW id \in 1..MaxFeedback, Feedback(t, i, n, id)
      PROVE  /\ s = Given(t, i, n, id) /\ UNCHANGED <<link, trace>>
             /\ t # None => trace[t] # "none"
  BY <1>4 DEF Feedback
<1>5. \/ UNCHANGED judge
      \/ \E t \in Trace, e \in Rule : JudgeReads(t, e)
      \/ \E t \in Trace, rows \in SUBSET heard : JudgeAnswers(t, rows)
      \/ \E t \in Trace \cup {None}, i \in Item \cup {None}, n \in Name,
           id \in 1..MaxFeedback : Feedback(t, i, n, id)
  <2>1. CASE \E t \in Trace : \E rows \in SUBSET {u \in heard : u.trace = t} :
               JudgeAnswers(t, rows)
    <3>1. \A t : SUBSET {u \in heard : u.trace = t} \subseteq SUBSET heard
      OBVIOUS
    <3>2. QED
      BY <2>1, <3>1
  <2>2. CASE \E t \in Trace : Store(t)
    BY <2>2 DEF Store
  <2>3. CASE UNCHANGED vars \/ \E i \in Item, t \in Trace \cup {None} : AddItem(i, t)
    BY <2>3 DEF vars, AddItem, judge
  <2>4. CASE \E r \in Runner : \/ CreateRun(r) \/ ListItems(r) \/ Link(r) \/ Emit(r)
                              \/ RunTask(r) \/ Flush(r) \/ Poll(r)
    BY <2>4 DEF CreateRun, ListItems, Link, Emit, RunTask, TaskEnds, Flush, Poll
  <2>5. QED
    BY <2>1, <2>2, <2>3, <2>4 DEF Next
<1>6. CASE \E t \in Trace, e \in Rule : JudgeReads(t, e)
  BY <1>2, <1>6
<1>7. CASE \E t \in Trace \cup {None}, i \in Item \cup {None}, n \in Name,
            id \in 1..MaxFeedback : Feedback(t, i, n, id)
  BY <1>4, <1>7
<1>8. QED
  BY <1>1, <1>3, <1>5, <1>6, <1>7

LEMMA LinkedNext ==
  ASSUME IInv, [Next]_vars, NEW i \in Item PROVE Linked(i)'
<1>0. /\ TypeOK /\ Linked(i) /\ link[i] \in Trace \cup {None}
      /\ link \in [Item -> Trace \cup {None}]
      /\ \A s \in heard \cup score : Opened(s)
  BY DEF IInv, TypeOK, RunItem
<1>1. CASE UNCHANGED link
  <2>1. SUFFICES ASSUME link[i] # None, NEW s \in heard' \cup score',
                        s.by \in Rule, s.trace = link[i]
                 PROVE  s.knew = i
    BY <1>0, <1>1 DEF Linked
  <2>2. CASE s \in heard \cup score
    BY <1>0, <2>1, <2>2 DEF Linked
  <2>3. CASE s \notin heard \cup score
    <3>1. CASE \E t \in Trace \cup {None}, j \in Item \cup {None}, n \in Name,
                 id \in 1..MaxFeedback : s = Given(t, j, n, id)
      <4>1. s.by \in Nat
        BY <3>1 DEF Given
      <4>2. QED
        BY <2>1, <4>1, ExperimentAssumption
    <3>2. ASSUME NEW t \in Trace, NEW e \in Rule, NEW k \in Item \cup {None},
                 s = Verdict(t, e, k),
                 \/ k # None /\ link[k] = t
                 \/ k = None /\ \A j \in Item : link[j] # t
          PROVE  s.knew = i
      <4>1. s.trace = t /\ s.knew = k
        BY <3>2 DEF Verdict
      <4>2. k \in Item /\ link[k] = link[i]
        BY <2>1, <3>2, <4>1
      <4>3. Linked(k) /\ Linked(i)
        BY <4>2 DEF IInv
      <4>4. k = i
        BY <2>1, <4>2, <4>3 DEF Linked
      <4>5. QED
        BY <4>1, <4>4
    <3>3. QED
      BY <2>3, <3>1, <3>2, NewRows
  <2>4. QED
    BY <2>2, <2>3
<1>2. ASSUME NEW r \in Runner, Link(r) PROVE Linked(i)'
  <2>1. /\ Now(r) \in Trace /\ Now(r) = <<r, Head(todo[r])>> /\ Head(todo[r]) \in Item
        /\ Head(todo[r]) \in Range(todo[r])
    BY <1>2, AtAnItem DEF Link
  <2>2. trace[Now(r)] = "none" /\ Now(r) # None
    BY <1>2, <2>1, ExperimentAssumption DEF Link, IInv, Ahead
  <2>3. UNCHANGED <<heard, score>>
    BY <1>2 DEF Link, judge
  <2>4. CASE link' = link
    BY <1>1, <2>4
  <2>5. CASE link' = [link EXCEPT ![Head(todo[r])] = Now(r)]
    <3>1. CASE i = Head(todo[r])
      <4>1. link'[i] = <<r, i>> /\ link'[i] = Now(r)
        BY <1>0, <2>1, <2>5, <3>1
      <4>2. \A s \in heard \cup score : s.trace # Now(r)
        BY <1>0, <2>2 DEF Opened
      <4>3. QED
        BY <2>3, <4>1, <4>2 DEF Linked
    <3>2. CASE i # Head(todo[r])
      BY <1>0, <2>3, <2>5, <3>2 DEF Linked
    <3>3. QED
      BY <3>1, <3>2
  <2>6. QED
    BY <1>2, <2>4, <2>5 DEF Link, Links
<1>3. QED
  BY <1>1, <1>2 DEF Next, vars, AddItem, CreateRun, ListItems, Emit, RunTask, TaskEnds,
     Flush, Poll, Store, JudgeReads, JudgeAnswers, Feedback

LEMMA OpenedNext ==
  ASSUME IInv, [Next]_vars PROVE (\A s \in heard \cup score : Opened(s))'
<1> SUFFICES ASSUME NEW s \in heard' \cup score', s.trace # None
             PROVE  trace'[s.trace] # "none"
  BY DEF Opened
<1>1. CASE s \in heard \cup score
  <2>1. s \in Score /\ Opened(s)
    BY <1>1 DEF IInv, TypeOK
  <2>2. s.trace \in Trace /\ trace[s.trace] # "none"
    BY <2>1 DEF Score, Opened
  <2>3. QED
    BY <2>2, Onward
<1>2. CASE s \notin heard \cup score
  <2>1. CASE \E t \in Trace, e \in Rule, k \in Item \cup {None} :
               s = Verdict(t, e, k) /\ trace'[t] = "judging"
    BY <2>1 DEF Verdict
  <2>2. CASE \E t \in Trace \cup {None}, i \in Item \cup {None}, n \in Name,
               id \in 1..MaxFeedback :
               /\ s = Given(t, i, n, id) /\ UNCHANGED trace
               /\ t # None => trace[t] # "none"
    BY <2>2 DEF Given
  <2>3. QED
    BY <1>2, <2>1, <2>2, NewRows
<1>3. QED
  BY <1>1, <1>2

-----------------------------------------------------------------------------
(* What a runner has ahead of it and behind it.                            *)

LEMMA MadeStays ==
  ASSUME IInv, [Next]_vars, NEW r \in Runner, NEW i \in Item, Made(r, i)
  PROVE  Made(r, i)'
<1>0. /\ link \in [Item -> Trace \cup {None}] /\ <<r, i>> # None
      /\ superseded \subseteq superseded'
  <2>1. superseded \subseteq superseded'
    BY Onward
  <2>2. <<r, i>> # None
    BY ExperimentAssumption
  <2>3. QED
    BY <2>1, <2>2 DEF IInv, TypeOK, RunItem
<1>1. CASE link' = link
  BY <1>0, <1>1 DEF Made
<1>2. ASSUME NEW w \in Runner, Links(Head(todo[w]), Now(w)) PROVE Made(r, i)'
  BY <1>0, <1>2 DEF Links, Made
<1>3. QED
  BY <1>1, <1>2 DEF Next, vars, AddItem, CreateRun, ListItems, Link, Emit, RunTask, TaskEnds,
     Flush, Poll, Store, JudgeReads, JudgeAnswers, Feedback, runner, judge

\* A step in which a runner takes no part.
Still(r) == pc'[r] = pc[r] /\ mine'[r] = mine[r] /\ todo'[r] = todo[r]
            /\ done'[r] = done[r]

LEMMA AheadStays ==
  ASSUME IInv, NEW r \in Runner, Still(r),
         \A i \in Item : trace[<<r, i>>] = "none" => trace'[<<r, i>>] = "none"
  PROVE  Ahead(r)'
<1>1. /\ Ahead(r) /\ Range(todo[r]) \subseteq Item
      /\ (pc[r] = "task" => Range(Tail(todo[r])) \subseteq Item)
  <2>1. Ahead(r) /\ todo[r] \in Seq(Item)
    BY DEF IInv, TypeOK
  <2>2. CASE pc[r] = "task"
    BY <2>1, <2>2, AtAnItem, Current, ItemsOf
  <2>3. QED
    BY <2>1, <2>2, ItemsOf
<1>2. QED
  BY <1>1 DEF Ahead, Still

LEMMA BehindStays ==
  ASSUME IInv, [Next]_vars, NEW r \in Runner, Still(r)
  PROVE  Behind(r)'
<1>1. Behind(r) /\ done[r] \subseteq Item
  BY DEF IInv, TypeOK
<1>2. \A i \in Item : /\ Made(r, i) => Made(r, i)'
                      /\ trace[<<r, i>>] # "none" => trace'[<<r, i>>] # "none"
  BY MadeStays, Onward DEF Trace
<1>3. \A i \in done'[r] : trace'[<<r, i>>] # "none" /\ Made(r, i)'
  BY <1>1, <1>2 DEF Still, Behind
<1>4. pc'[r] \in {"emit", "task"} => Made(r, Head(todo[r]))'
  <2>1. pc[r] \in {"emit", "task"} => Made(r, Head(todo[r])) /\ Head(todo[r]) \in Item
    BY <1>1, AtAnItem DEF Behind
  <2>2. QED
    BY <1>2, <2>1 DEF Still, Made
<1>5. pc'[r] = "task" => (trace[Now(r)] # "none")'
  <2>1. pc[r] = "task" => /\ trace[<<r, Head(todo[r])>>] # "none"
                          /\ Head(todo[r]) \in Item
    BY <1>1, AtAnItem DEF Behind
  <2>2. QED
    BY <1>2, <2>1 DEF Still, Now
<1>6. QED
  BY <1>1, <1>3, <1>4, <1>5 DEF Behind, Still, Returned

\* Nobody but the runner itself sends its traces, or moves it.
LEMMA OneRunner ==
  ASSUME IInv, NEW w \in Runner, NEW r \in Runner \ {w},
         \/ CreateRun(w) \/ ListItems(w) \/ Link(w) \/ Emit(w) \/ Flush(w) \/ Poll(w)
         \/ RunTask(w)
  PROVE  Still(r) /\ \A i \in Item : trace'[<<r, i>>] = trace[<<r, i>>]
<1> USE DEF runner, judge, Goto
<1>0. TypeOK
  BY DEF IInv
<1>1. CASE Emit(w)
  <2>1. Now(w) = <<w, Head(todo[w])>> /\ trace' = [trace EXCEPT ![Now(w)] = "sent"]
    BY <1>1 DEF Emit, Now
  <2>2. \A i \in Item : <<r, i>> \in Trace /\ <<r, i>> # Now(w)
    BY <2>1 DEF Trace
  <2>3. trace \in [Trace -> {"none", "sent", "stored", "judging", "judged"}]
    BY <1>0 DEF TypeOK
  <2>4. \A i \in Item : trace'[<<r, i>>] = trace[<<r, i>>]
    BY <2>1, <2>2, <2>3
  <2>5. Still(r)
    BY <1>0, <1>1 DEF Emit, Still, TypeOK
  <2>6. QED
    BY <2>4, <2>5
<1>2. CASE CreateRun(w) \/ Flush(w) \/ Poll(w) \/ Link(w)
  BY <1>0, <1>2 DEF CreateRun, Flush, Poll, Link, Raises, Still, TypeOK
<1>3. CASE ListItems(w)
  BY <1>0, <1>3 DEF ListItems, Raises, Still, TypeOK
<1>4. CASE RunTask(w)
  BY <1>0, <1>4 DEF RunTask, TaskEnds, Still, TypeOK
<1>5. QED
  BY <1>1, <1>2, <1>3, <1>4

LEMMA RunnerNext ==
  ASSUME IInv, TypeOK', [Next]_vars, NEW r \in Runner PROVE Ahead(r)' /\ Behind(r)'
<1> USE DEF runner, judge, Goto
<1>0. /\ TypeOK /\ Ahead(r) /\ Behind(r)
      /\ pc \in [Runner -> {"create", "list", "link", "emit", "task", "flush",
                            "wait", "scored", "gave up", "raised"}]
      /\ mine \in [Runner -> Seq(Item)] /\ todo \in [Runner -> Seq(Item)]
      /\ done \in [Runner -> SUBSET Item]
      /\ trace \in [Trace -> {"none", "sent", "stored", "judging", "judged"}]
  BY DEF IInv, TypeOK
<1>1. CASE Still(r) /\ \A i \in Item : trace[<<r, i>>] = "none" => trace'[<<r, i>>] = "none"
  BY <1>1, AheadStays, BehindStays
<1>2. ASSUME NEW w \in Runner \ {r},
             \/ CreateRun(w) \/ ListItems(w) \/ Link(w) \/ Emit(w) \/ Flush(w) \/ Poll(w)
             \/ RunTask(w)
      PROVE  Ahead(r)' /\ Behind(r)'
  BY <1>1, <1>2, OneRunner
<1>3. ASSUME NEW t \in Trace, trace[t] # "none", UNCHANGED runner,
             \E l : trace' = [trace EXCEPT ![t] = l]
      PROVE  Ahead(r)' /\ Behind(r)'
  <2>1. \A i \in Item : <<r, i>> \in Trace
    BY DEF Trace
  <2>2. \A u \in Trace : trace[u] = "none" => trace'[u] = "none"
    BY <1>0, <1>3
  <2>3. QED
    BY <1>1, <1>3, <2>1, <2>2 DEF Still
\* From here on the runner itself moves.
<1>4. \A i \in Item : /\ Made(r, i) => Made(r, i)'
                      /\ trace[<<r, i>>] # "none" => trace'[<<r, i>>] # "none"
  BY MadeStays, Onward DEF Trace
<1>5. ASSUME done' = done
      PROVE  \A i \in done'[r] : trace'[<<r, i>>] # "none" /\ Made(r, i)'
  BY <1>0, <1>4, <1>5 DEF Behind
<1>6. ASSUME pc'[r] = "raised", UNCHANGED <<todo, done>>
      PROVE  Ahead(r)' /\ Behind(r)'
  BY <1>0, <1>5, <1>6 DEF Ahead, Behind, Returned
<1>7. CASE CreateRun(r)
  <2>1. CASE pc'[r] = "raised"
    BY <1>6, <1>7, <2>1 DEF CreateRun
  <2>2. CASE pc'[r] = "list"
    BY <1>0, <1>5, <1>7, <2>2 DEF CreateRun, Ahead, Behind, Returned
  <2>3. QED
    BY <1>0, <1>7, <2>1, <2>2 DEF CreateRun, Raises
<1>8. CASE ListItems(r)
  <2>1. CASE Raises(r) /\ UNCHANGED <<mine, todo>>
    BY <1>0, <1>6, <1>8, <2>1 DEF ListItems, Raises
  <2>2. CASE ~(Raises(r) /\ UNCHANGED <<mine, todo>>)
    <3>1. /\ mine'[r] = Listed /\ todo'[r] = Listed /\ pc[r] = "list"
          /\ pc'[r] = IF Listed = <<>> THEN "raised" ELSE "link"
          /\ UNCHANGED <<done, trace>>
      BY <1>0, <1>8, <2>2 DEF ListItems
    <3>2. Listed \in Seq(Item) /\ Distinct(Listed)
      BY ListedItems DEF IInv, TypeOK
    <3>3. Range(Listed) \subseteq Item
      BY <3>2, ItemsOf
    <3>4. done'[r] = {} /\ \A i \in Item : trace'[<<r, i>>] = "none"
      BY <1>0, <3>1 DEF Ahead
    <3>5. Distinct(todo'[r])
      BY <3>1, <3>2
    <3>6. Ahead(r)'
      BY <3>1, <3>3, <3>4, <3>5 DEF Ahead
    <3>7. Behind(r)'
      BY <3>1, <3>4 DEF Behind, Returned
    <3>8. QED
      BY <3>6, <3>7
  <2>3. QED
    BY <2>1, <2>2
<1>9. CASE Link(r)
  <2>1. CASE pc'[r] = "raised"
    BY <1>6, <1>9, <2>1 DEF Link
  <2>2. CASE pc'[r] # "raised"
    <3>1. /\ Now(r) = <<r, Head(todo[r])>> /\ Head(todo[r]) \in Item /\ pc[r] = "link"
      BY <1>9, AtAnItem DEF Link
    <3>2. /\ link' = [link EXCEPT ![Head(todo[r])] = Now(r)] /\ pc'[r] = "emit"
          /\ UNCHANGED <<mine, todo, done, trace>>
      BY <1>0, <1>9, <2>2 DEF Link, Links, Raises
    <3>3. link'[Head(todo[r])] = <<r, Head(todo[r])>>
      BY <1>0, <3>1, <3>2 DEF TypeOK, RunItem
    <3>4. Made(r, Head(todo[r]))'
      BY <3>2, <3>3 DEF Made
    <3>5. Ahead(r)'
      BY <1>0, <3>1, <3>2 DEF Ahead
    <3>6. Behind(r)'
      BY <1>0, <1>5, <3>1, <3>2, <3>4 DEF Behind, Returned
    <3>7. QED
      BY <3>5, <3>6
  <2>3. QED
    BY <2>1, <2>2
<1>10. CASE Emit(r)
  <2>1. /\ Now(r) \in Trace /\ Now(r) = <<r, Head(todo[r])>> /\ Head(todo[r]) \in Item
        /\ pc[r] = "emit" /\ TypeOK /\ todo[r] # <<>> /\ Distinct(todo[r])
    BY <1>10, AtAnItem DEF Emit
  <2>2. /\ trace' = [trace EXCEPT ![Now(r)] = "sent"] /\ pc'[r] = "task"
        /\ UNCHANGED <<mine, todo, done, link, superseded>>
    BY <1>0, <1>10 DEF Emit
  <2>3. /\ Range(todo[r]) = {Head(todo[r])} \cup Range(Tail(todo[r]))
        /\ Head(todo[r]) \notin Range(Tail(todo[r])) /\ Range(todo[r]) \subseteq Item
    BY <1>0, <2>1, Current, ItemsOf
  <2>4. trace'[Now(r)] = "sent"
    BY <1>0, <2>1, <2>2
  <2>5. \A i \in Range(Tail(todo[r])) : trace'[<<r, i>>] = "none"
    <3>1. ASSUME NEW i \in Range(Tail(todo[r])) PROVE trace'[<<r, i>>] = "none"
      <4>1. <<r, i>> # Now(r) /\ <<r, i>> \in Trace /\ trace[<<r, i>>] = "none"
        <5>1. i # Head(todo[r]) /\ i \in Item /\ i \in Range(todo[r])
          BY <2>3, <3>1
        <5>2. trace[<<r, i>>] = "none"
          BY <1>0, <2>1, <5>1 DEF Ahead
        <5>3. QED
          BY <2>1, <5>1, <5>2 DEF Trace
      <4>2. QED
        BY <1>0, <2>2, <4>1
    <3>2. QED
      BY <3>1
  <2>6. Ahead(r)'
    BY <1>0, <2>1, <2>2, <2>5 DEF Ahead
  <2>7. Made(r, Head(todo[r]))'
    BY <1>0, <2>1, <2>2 DEF Behind, Made
  <2>8. (trace[Now(r)] # "none")'
    BY <2>2, <2>4 DEF Now
  <2>9. Behind(r)'
    BY <1>0, <1>5, <2>1, <2>2, <2>7, <2>8 DEF Behind, Returned
  <2>10. QED
    BY <2>6, <2>9
<1>11. CASE RunTask(r)
  <2> DEFINE i == Head(todo[r])
             rest == Tail(todo[r])
  <2>1. /\ pc[r] = "task" /\ todo[r] # <<>> /\ Distinct(todo[r])
        /\ Now(r) = <<r, i>> /\ i \in Item
    BY <1>11, AtAnItem DEF RunTask, TaskEnds
  <2>2. /\ rest \in Seq(Item) /\ Distinct(rest)
        /\ Range(todo[r]) = {i} \cup Range(rest) /\ i \notin Range(rest)
    BY <1>0, <2>1, Current
  <2>3. /\ todo'[r] = rest /\ pc'[r] = IF rest = <<>> THEN "flush" ELSE "link"
        /\ UNCHANGED <<link, superseded, mine, trace>>
        /\ done'[r] = done[r] \cup {i}
    BY <1>0, <1>11 DEF RunTask, TaskEnds
  <2>4. /\ Range(mine[r]) = done[r] \cup Range(todo[r])
        /\ done[r] \cap Range(todo[r]) = {} /\ trace[<<r, i>>] # "none" /\ Made(r, i)
        /\ \A j \in done[r] : trace[<<r, j>>] # "none" /\ Made(r, j)
    BY <1>0, <2>1 DEF Behind
  <2>5. \A j \in Range(rest) : trace[<<r, j>>] = "none"
    BY <1>0, <2>1 DEF Ahead
  <2> HIDE DEF i, rest
  <2>7. Ahead(r)'
    BY <2>2, <2>3, <2>5 DEF Ahead
  <2>8. \A j \in done'[r] : trace'[<<r, j>>] # "none" /\ Made(r, j)'
    BY <2>3, <2>4 DEF Made
  <2>9. /\ Range(mine'[r]) = done'[r] \cup Range(todo'[r])
        /\ done'[r] \cap Range(todo'[r]) = {}
    BY <2>2, <2>3, <2>4
  <2>10. Behind(r)'
    BY <2>3, <2>8, <2>9 DEF Behind, Returned
  <2>11. QED
    BY <2>7, <2>10
<1>12. CASE Flush(r) \/ Poll(r)
  <2>1. CASE pc'[r] = "raised"
    BY <1>6, <1>12, <2>1 DEF Flush, Poll
  <2>2. CASE pc'[r] # "raised"
    <3>1. /\ pc'[r] \in {"wait", "scored", "gave up"} /\ pc[r] \in {"flush", "wait"}
          /\ UNCHANGED <<mine, todo, done>>
      BY <1>0, <1>12, <2>2 DEF Flush, Poll, Raises
    <3>2. QED
      BY <1>0, <1>5, <3>1 DEF Ahead, Behind, Returned
  <2>3. QED
    BY <2>1, <2>2
<1>13. CASE UNCHANGED <<runner, trace>>
  BY <1>1, <1>13 DEF Still
<1>14. QED
  BY <1>2, <1>3, <1>7, <1>8, <1>9, <1>10, <1>11, <1>12, <1>13
     DEF Next, vars, AddItem, Store, JudgeReads, JudgeAnswers, Feedback

-----------------------------------------------------------------------------
LEMMA InvInit == Init => IInv
<1> SUFFICES ASSUME Init PROVE IInv
  OBVIOUS
<1>1. TypeOK
  BY TypeInit
<1>2. Len(<<>>) = 0 /\ <<>> \in Seq(Item)
  BY EmptySeq
<1>3. Distinct(<<>>)
  BY <1>2 DEF Distinct
<1>4. \A i \in Item : Linked(i)
  BY DEF Init, Linked
<1>5. ASSUME NEW r \in Runner PROVE Ahead(r) /\ Behind(r)
  <2>1. /\ todo[r] = <<>> /\ pc[r] = "create" /\ done[r] = {}
        /\ \A i \in Item : trace[<<r, i>>] = "none"
    BY DEF Init, Trace
  <2>2. QED
    BY <1>3, <2>1 DEF Ahead, Behind, Returned
<1>6. QED
  BY <1>1, <1>3, <1>4, <1>5 DEF IInv, Init

LEMMA InvNext == IInv /\ [Next]_vars => IInv'
<1> SUFFICES ASSUME IInv, [Next]_vars PROVE IInv'
  OBVIOUS
<1>1. TypeOK' /\ (\A i \in Item : Linked(i))' /\ (\A s \in heard \cup score : Opened(s))'
  BY TypeNext, LinkedNext, OpenedNext
<1>2. Distinct(dataset')
  <2>1. CASE dataset' = dataset
    BY <2>1 DEF IInv
  <2>2. ASSUME NEW i \in Item, NEW t, AddItem(i, t) PROVE Distinct(dataset')
    BY <2>2, AppendDistinct DEF AddItem, IInv, TypeOK
  <2>3. QED
    BY <2>1, <2>2 DEF Next, vars, CreateRun, ListItems, Link, Emit, RunTask, TaskEnds, Flush, Poll,
       Store, JudgeReads, JudgeAnswers, Feedback
<1>3. QED
  BY <1>1, <1>2, RunnerNext DEF IInv

\* The variables keep their types.
THEOREM TypeCorrect == Spec => []TypeOK
<1>1. IInv => TypeOK
  BY DEF IInv
<1>2. QED
  BY <1>1, InvInit, InvNext, PTL DEF Spec

\* Whoever runs the same run at the same time, a score that counts for an item
\* was given with its expected output at hand: a trace is linked before it is
\* opened (experiment.py 94-106), and a new trace is minted each time.
THEOREM ScoresKnewTheAnswer == Spec => []CountedScoresKnewTheAnswer
<1>1. IInv => CountedScoresKnewTheAnswer
  BY DEF IInv, Linked, CountedScoresKnewTheAnswer
<1>2. QED
  BY <1>1, InvInit, InvNext, PTL DEF Spec

-----------------------------------------------------------------------------
(* Waiting for scores.                                                     *)

\* A list has at most as many items as it is long.
LEMMA FewItems ==
  ASSUME NEW s \in Seq(Item)
  PROVE  /\ IsFiniteSet(Range(s)) /\ Cardinality(Range(s)) <= Len(s)
         /\ Cardinality(Range(s)) \in Nat
<1>1. Len(s) \in Nat /\ s \in [1..Len(s) -> Item] /\ DOMAIN s = 1..Len(s)
  BY LenProperties
<1>2. IsFiniteSet(1..Len(s)) /\ Cardinality(1..Len(s)) = Len(s)
  BY <1>1, FS_Interval
<1>3. s \in Surjection(1..Len(s), Range(s))
  BY <1>1, SeqDomain DEF Surjection
<1>4. IsFiniteSet(Range(s)) /\ Cardinality(Range(s)) <= Cardinality(1..Len(s))
  BY <1>2, <1>3, FS_Surjection
<1>5. QED
  BY <1>2, <1>4, FS_CardinalityType

\* Once compare_runs() counts as many rows of a name as a runner has items, and the
\* run has no others: either some item is counted twice, or each is counted.
LEMMA EnoughIsEnough ==
  ASSUME IInv, NEW r \in Runner, NEW n \in Name, Compared[n] >= Len(mine[r]),
         {i \in Item : link[i] # None} \subseteq Range(mine[r])
  PROVE  Enough(r, n)
<1> DEFINE all == Range(mine[r])
           rows == {x \in Item \X score : x[2] \in Reaching(x[1], n)}
           scored == {i \in Item : Reaching(i, n) # {}}
<1>1. SUFFICES ASSUME \A i \in all : \A s, u \in Reaching(i, n) : s = u
               PROVE  all \subseteq scored
  BY DEF Enough
<1>2. mine[r] \in Seq(Item) /\ Len(mine[r]) \in Nat
  BY LenProperties DEF IInv, TypeOK
<1>3. IsFiniteSet(all) /\ Cardinality(all) <= Len(mine[r]) /\ Cardinality(all) \in Nat
  BY <1>2, FewItems
<1>4. scored \subseteq all
  BY DEF Reaching
<1>5. /\ IsFiniteSet(scored) /\ Cardinality(scored) \in Nat
      /\ Cardinality(scored) <= Cardinality(all)
      /\ Cardinality(scored) = Cardinality(all) => scored = all
  <2> HIDE DEF all, scored
  <2>1. IsFiniteSet(scored)
    BY <1>3, <1>4, FS_Subset
  <2>2. QED
    BY <1>3, <1>4, <2>1, FS_Subset, FS_CardinalityType
\* Each row is the only one of its item.
<1>6. Cardinality(rows) \in Nat /\ Cardinality(rows) <= Cardinality(scored)
  <2> DEFINE one == [i \in scored |-> <<i, CHOOSE s \in Reaching(i, n) : TRUE>>]
  <2>1. \A i \in scored : one[i] \in rows
    <3>1. \A i \in scored : \E s : s \in Reaching(i, n)
      OBVIOUS
    <3>2. \A i \in scored : (CHOOSE s \in Reaching(i, n) : TRUE) \in Reaching(i, n)
      BY <3>1
    <3>3. \A i \in Item : Reaching(i, n) \subseteq score
      BY DEF Reaching
    <3>4. QED
      BY <3>2, <3>3
  <2>2. ASSUME NEW x \in rows PROVE \E i \in scored : one[i] = x
    <3>1. x = <<x[1], x[2]>> /\ x[1] \in scored /\ x[2] \in Reaching(x[1], n)
      OBVIOUS
    <3>2. x[1] \in all
      BY <1>4, <3>1
    <3>3. (CHOOSE s \in Reaching(x[1], n) : TRUE) = x[2]
      BY <1>1, <3>1, <3>2
    <3>4. QED
      BY <3>1, <3>3
  <2>3. one \in Surjection(scored, rows)
    <3> HIDE DEF rows, scored
    <3>1. one \in [scored -> rows]
      BY <2>1
    <3> HIDE DEF one
    <3>2. QED
      BY <2>2, <3>1 DEF Surjection
  <2> HIDE DEF one, rows, scored
  <2>4. QED
    BY <1>5, <2>3, FS_Surjection, FS_CardinalityType
<1>7. Cardinality(rows) >= Len(mine[r])
  BY DEF Compared
<1> HIDE DEF all, rows, scored
<1>8. QED
  BY <1>2, <1>3, <1>5, <1>6, <1>7

\* Runs that have returned are complete.
LEMMA Complete ==
  ASSUME IInv, NEW r \in Runner, Returned(r)
  PROVE  /\ done[r] = Range(mine[r])
         /\ \A i \in Range(mine[r]) : trace[<<r, i>>] # "none" /\ Made(r, i)
<1>1. Range(todo[r]) = {}
  <2>1. todo[r] \in Seq(Item) /\ Len(todo[r]) = 0
    BY EmptySeq DEF IInv, TypeOK, Behind
  <2>2. ~ \E j \in 1..Len(todo[r]) : TRUE
    BY <2>1
  <2>3. QED
    BY <2>1, <2>2, ItemsOf
<1>2. Behind(r)
  BY DEF IInv
<1>3. QED
  BY <1>1, <1>2 DEF Behind

\* A run that returns has made a trace for each of its items and linked it,
\* whatever its tasks did (experiment.py 97-137).
THEOREM RunsAreComplete == Spec => []RunIsComplete
<1>1. IInv => RunIsComplete
  BY Complete DEF RunIsComplete, Made
<1>2. QED
  BY <1>1, InvInit, InvNext, PTL DEF Spec

\* wait_for_scores() has seen enough only when each item of the run is scored under
\* one name, or some item twice, and the run's traces are this runner's or of one
\* that linked the item later (experiment.py 123-148, compare_runs in main.py).
THEOREM WaitsAreHonest == Spec => WaitIsHonest
<1>1. IInv /\ [Next]_vars =>
        [\A r \in Runner :
           /\ pc[r] = "wait" /\ pc'[r] = "scored"
           /\ {i \in Item : link[i] # None} \subseteq Range(mine[r])
           => /\ \E n \in Name : Enough(r, n)
              /\ \A i \in Range(mine[r]) : link[i] = <<r, i>> \/ <<r, i>> \in superseded]_vars
  <2> SUFFICES ASSUME IInv, [Next]_vars, NEW r \in Runner,
                      pc[r] = "wait", pc'[r] = "scored",
                      {i \in Item : link[i] # None} \subseteq Range(mine[r])
               PROVE  /\ \E n \in Name : Enough(r, n)
                      /\ \A i \in Range(mine[r]) : Made(r, i)
    BY DEF Made
  <2>1. TypeOK
    BY DEF IInv
  <2>2. \A i \in Range(mine[r]) : Made(r, i)
    BY Complete DEF Returned
  <2>3. \E n \in Name : Compared[n] >= Len(mine[r])
    <3>1. ~ Still(r)
      BY DEF Still
    <3>2. pc'[r] # pc[r]
      OBVIOUS
    <3>3. PICK w \in Runner : \/ CreateRun(w) \/ ListItems(w) \/ Link(w) \/ Emit(w)
                              \/ Flush(w) \/ Poll(w)
                              \/ RunTask(w)
      BY <3>2 DEF Next, vars, AddItem, Store, JudgeReads, JudgeAnswers, Feedback, runner
    <3>4. w = r
      BY <2>1, <3>1, <3>3, OneRunner
    <3>5. Poll(r)
      BY <3>3, <3>4 DEF CreateRun, ListItems, Link, Emit, Flush, RunTask, TaskEnds
    <3>6. pc \in [Runner -> {"create", "list", "link", "emit", "task", "flush",
                             "wait", "scored", "gave up", "raised"}]
      BY <2>1 DEF TypeOK
    <3>7. QED
      BY <3>5, <3>6 DEF Poll, Goto, Raises
  <2>4. QED
    BY <2>2, <2>3, EnoughIsEnough
<1>2. QED
  BY <1>1, InvInit, InvNext, PTL DEF Spec, WaitIsHonest

-----------------------------------------------------------------------------
(* A dataset within the limit.                                             *)

\* There are no more active items than there are items.
LEMMA DatasetIsSmall ==
  ASSUME IInv, IsFiniteSet(Item)
  PROVE  Len(dataset) \in Nat /\ Len(dataset) <= Cardinality(Item)
<1>1. dataset \in Seq(Item) /\ Distinct(dataset)
  BY DEF IInv, TypeOK
<1>2. /\ Len(dataset) \in Nat /\ dataset \in [1..Len(dataset) -> Item]
  BY <1>1, LenProperties
<1>3. dataset \in Injection(1..Len(dataset), Item)
  BY <1>1, <1>2 DEF Injection, IsInjective, Distinct
<1>4. /\ IsFiniteSet(1..Len(dataset))
      /\ Cardinality(1..Len(dataset)) = Len(dataset)
  BY <1>2, FS_Interval
<1>5. QED
  BY <1>2, <1>3, <1>4, FS_Injection

\* A run executes its task over every item of the dataset (experiment.py 79),
\* if there are no more than list_items() returns by default (main.py 418).
THEOREM SmallDatasetsRunWhole ==
  ASSUME IsFiniteSet(Item), Cardinality(Item) <= Limit
  PROVE  Spec => RunsEveryItem
<1>1. IInv /\ [Next]_vars =>
        [\A r \in Runner : pc[r] = "list" /\ pc'[r] = "link" =>
           Range(mine'[r]) = Range(dataset)]_vars
  <2> SUFFICES ASSUME IInv, [Next]_vars, NEW r \in Runner,
                      pc[r] = "list", pc'[r] = "link"
               PROVE  Range(mine'[r]) = Range(dataset)
    OBVIOUS
  <2>1. /\ TypeOK /\ dataset \in Seq(Item) /\ mine \in [Runner -> Seq(Item)]
        /\ pc'[r] # pc[r]
    BY DEF IInv, TypeOK
  <2>2. PICK w \in Runner : \/ CreateRun(w) \/ ListItems(w) \/ Link(w) \/ Emit(w)
                            \/ Flush(w) \/ Poll(w)
                            \/ RunTask(w)
    BY <2>1 DEF Next, vars, AddItem, Store, JudgeReads, JudgeAnswers, Feedback, runner
  <2>3. w = r
    BY <2>1, <2>2, OneRunner DEF Still
  <2>4. ListItems(r)
    BY <2>2, <2>3 DEF CreateRun, Link, Emit, Flush, Poll, RunTask, TaskEnds
  <2>5. mine'[r] = Listed
    BY <2>1, <2>4 DEF ListItems, Raises, Goto, TypeOK
  <2>6. Listed = dataset
    <3>1. /\ Len(dataset) \in Nat /\ Len(dataset) <= Cardinality(Item)
          /\ Limit \in Nat /\ Cardinality(Item) \in Nat
      BY DatasetIsSmall, FS_CardinalityType, ExperimentAssumption
    <3>2. Listed = SubSeq(dataset, 1, Len(dataset))
      BY <3>1 DEF Listed
    <3>3. SubSeq(dataset, 1, Len(dataset)) = dataset
      BY <2>1
    <3>4. QED
      BY <3>2, <3>3
  <2>7. QED
    BY <2>5, <2>6
<1>2. QED
  BY <1>1, InvInit, InvNext, PTL DEF Spec, RunsEveryItem
=============================================================================
