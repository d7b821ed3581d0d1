-------------------------- MODULE EvalWorkerProofs --------------------------
(***************************************************************************)
(* Proofs about EvalWorker, for any workers, traces, rules, batch sizes    *)
(* and times, any number of writes, crashes and failures.  Control ties    *)
(* the locals of a worker to where it is; Claimed and the safety           *)
(* invariants are shown inductive over it; PatienceEnds is about the       *)
(* checks that postpone an evaluation.                                     *)
(***************************************************************************)
EXTENDS EvalWorker, SequenceTheorems, FiniteSetTheorems, TLAPS

LEMMA Labels ==
  /\ "read" \in PC /\ "schedule" \in PC /\ "ack" \in PC /\ "drain" \in PC
  /\ "lease" \in PC /\ "check" \in PC /\ "bounce" \in PC /\ "defer" \in PC
  /\ "load" \in PC /\ "rule" \in PC /\ "judge" \in PC /\ "zrem" \in PC
  /\ "hdel" \in PC /\ "down" \in PC
BY DEF PC

LEMMA Times ==
  /\ Off \in Off..Lease /\ Settle \in Off..Lease /\ 0 \in Off..Lease
  /\ 0 \in 0..Settle /\ 0 \in 0..Lease
  /\ \A n \in 0..Settle : Capped(n, Settle) \in 0..Settle
  /\ \A n \in 0..Lease : Capped(n, Lease) \in 0..Lease /\ Lease - n \in Off..Lease
  /\ \A d \in Off..Lease : /\ d > 0 => d - 1 \in Off..Lease
                           /\ Later(d, Settle) \in Off..Lease
BY ConstantsAssumption DEF Off, Capped, Later

\* Where a worker is busy with one trace.
Focused == {"check", "bounce", "defer", "load", "rule", "judge", "zrem", "hdel"}

\* The trace is sure of a check, or needs none.
Safe(t) == due[t] # Off \/ t \in missed \cup judged

\* What a worker holds, by where it is.
Orderly(w) ==
  /\ pc[w] \in Focused => cur[w] \in Trace
  /\ IF pc[w] = "judge" THEN rule[w] \in Rule ELSE rule[w] = None
  /\ pc[w] \notin {"rule", "judge"} => mine[w] = {}
  /\ hand[w] # <<>> <=> pc[w] \in {"schedule", "ack"}
  /\ pc[w] \in {"zrem", "hdel"} => cur[w] \in judged
  /\ pc[w] = "ack" => Safe(Head(hand[w]))

Control == \A w \in Worker : Orderly(w)

LEMMA TypeInit == Init => TypeOK /\ Control
<1> SUFFICES ASSUME Init PROVE TypeOK /\ Control
  OBVIOUS
<1>1. /\ <<>> \in Seq(Trace) /\ Len(<<>>) = 0
      /\ Off \in Off..Lease /\ Settle \in 0..Settle
      /\ 0 \in 0..Lease /\ 0 \in 0..MaxWrites /\ 0 <= MaxQueued
  BY ConstantsAssumption DEF Off
<1>2. TypeOK
  BY <1>1, Labels DEF Init, TypeOK
<1>3. Control
  BY DEF Init, Control, Orderly, Focused
<1>4. QED
  BY <1>2, <1>3

\* What Read takes and leaves.
LEMMA ReadSplits ==
  ASSUME TypeOK, NEW w \in Worker, Read(w)
  PROVE  /\ hand'[w] \in Seq(Trace) /\ unread' \in Seq(Trace)
         /\ Len(unread') <= Len(unread)
         /\ hand' = [hand EXCEPT ![w] = hand'[w]]
         /\ hand'[w] # <<>> <=> pc'[w] = "schedule"
         /\ pc' = [pc EXCEPT ![w] = pc'[w]] /\ pc'[w] \in {"schedule", "drain"}
         /\ \A i \in DOMAIN unread :
              \/ \E k \in DOMAIN hand'[w] : hand'[w][k] = unread[i]
              \/ \E k \in DOMAIN unread' : unread'[k] = unread[i]
<1> DEFINE n == IF Len(unread) < BatchSize THEN Len(unread) ELSE BatchSize
           L == Len(unread)
           m == n + 1
           a == SubSeq(unread, 1, n)
           b == SubSeq(unread, m, L)
<1>1. /\ unread \in Seq(Trace) /\ L \in Nat
      /\ n \in Nat /\ n <= L /\ BatchSize \in Nat
      /\ hand \in [Worker -> Seq(Trace)] /\ pc \in [Worker -> PC]
      /\ DOMAIN unread = 1..L
      /\ \A i \in 1..L : unread[i] \in Trace
  <2>1. /\ unread \in Seq(Trace) /\ BatchSize \in Nat
        /\ hand \in [Worker -> Seq(Trace)] /\ pc \in [Worker -> PC]
    BY ConstantsAssumption DEF TypeOK
  <2>2. L \in Nat /\ DOMAIN unread = 1..L /\ \A i \in 1..L : unread[i] \in Trace
    BY <2>1
  <2>3. n \in Nat /\ n <= L
    BY <2>1, <2>2
  <2>4. QED
    BY <2>1, <2>2, <2>3
<1>2. /\ hand' = [hand EXCEPT ![w] = a] /\ unread' = b
      /\ pc' = [pc EXCEPT ![w] = IF n = 0 THEN "drain" ELSE "schedule"]
  BY DEF Read, Goto
<1> HIDE DEF n
<1>3. /\ a \in Seq(Trace) /\ Len(a) = n
      /\ \A i \in 1..n : a[i] = unread[i]
  <2>1. \A i \in 1..n : unread[i] \in Trace
    BY <1>1
  <2>2. QED
    BY <1>1, <2>1, SubSeqProperties, Z3
<1>4. /\ b \in Seq(Trace) /\ Len(b) = L - n
      /\ \A i \in 1..(L - n) : b[i] = unread[n + i]
  <2>1. /\ \A i \in m..L : unread[i] \in Trace
        /\ m \in Int /\ L \in Int
    BY <1>1
  <2> HIDE DEF m, L
  <2>2. /\ b \in Seq(Trace)
        /\ Len(b) = IF m <= L THEN L - m + 1 ELSE 0
        /\ \A i \in 1..(L - m + 1) : b[i] = unread[m + i - 1]
    BY <2>1, SubSeqProperties, Z3
  <2> HIDE DEF b
  <2>3. Len(b) = L - n /\ L - m + 1 = L - n
    BY <1>1, <2>2 DEF m
  <2>4. \A i \in 1..(L - n) : m + i - 1 = n + i
    BY <1>1 DEF m
  <2>5. QED
    BY <2>2, <2>3, <2>4
<1> HIDE DEF a, b
<1>5. hand'[w] = a /\ pc'[w] = IF n = 0 THEN "drain" ELSE "schedule"
  BY <1>1, <1>2
<1>6. a # <<>> <=> n # 0
  BY <1>1, <1>3
<1>7. ASSUME NEW i \in DOMAIN unread
      PROVE  \/ \E k \in DOMAIN a : a[k] = unread[i]
             \/ \E k \in DOMAIN b : b[k] = unread[i]
  <2>1. i \in 1..L /\ DOMAIN a = 1..n /\ DOMAIN b = 1..(L - n)
    BY <1>1, <1>3, <1>4
  <2>2. CASE i <= n
    BY <1>1, <1>3, <2>1, <2>2
  <2>3. CASE ~ (i <= n)
    <3>1. i - n \in 1..(L - n) /\ n + (i - n) = i
      BY <1>1, <2>1, <2>3
    <3>2. QED
      BY <1>4, <2>1, <3>1
  <2>4. QED
    BY <2>2, <2>3
<1>8. /\ hand' = [hand EXCEPT ![w] = hand'[w]]
      /\ pc' = [pc EXCEPT ![w] = pc'[w]]
  BY <1>2, <1>5
<1>9. Len(unread') <= Len(unread)
  BY <1>1, <1>2, <1>4
<1>10. hand'[w] # <<>> <=> pc'[w] = "schedule"
  BY <1>5, <1>6
<1>11. hand'[w] \in Seq(Trace) /\ unread' \in Seq(Trace)
  BY <1>2, <1>3, <1>4, <1>5
<1>12. \A i \in DOMAIN unread :
         \/ \E k \in DOMAIN hand'[w] : hand'[w][k] = unread[i]
         \/ \E k \in DOMAIN unread' : unread'[k] = unread[i]
  BY <1>2, <1>5, <1>7
<1>13. QED
  BY <1>5, <1>8, <1>9, <1>10, <1>11, <1>12

\* What Abort and Forget do to the worker, whatever it was doing.
LEMMA ForgetFacts ==
  ASSUME TypeOK, NEW w \in Worker, NEW l \in {"read", "down"}, Forget(w, l)
  PROVE  /\ pc' \in [Worker -> PC] /\ members' \in [Worker -> SUBSET Trace]
         /\ cur' \in [Worker -> Trace \cup {None}]
         /\ todo' \in [Worker -> SUBSET Rule]
         /\ rule' \in [Worker -> Rule \cup {None}]
         /\ mine' \in [Worker -> SUBSET (Rule \X {"COMPLETED", "ERROR"})]
         /\ elapsed' \in [Worker -> 0..Lease]
         /\ pc'[w] = l /\ cur'[w] = None /\ rule'[w] = None /\ mine'[w] = {}
         /\ \A v \in Worker \ {w} :
              /\ pc'[v] = pc[v] /\ cur'[v] = cur[v]
              /\ rule'[v] = rule[v] /\ mine'[v] = mine[v]
BY Labels, ConstantsAssumption DEF Forget, TypeOK

\* ... and in the end, after an exception.
Aborted(w) ==
  /\ pc' \in [Worker -> PC] /\ members' \in [Worker -> SUBSET Trace]
  /\ cur' \in [Worker -> Trace \cup {None}] /\ todo' \in [Worker -> SUBSET Rule]
  /\ rule' \in [Worker -> Rule \cup {None}]
  /\ mine' \in [Worker -> SUBSET (Rule \X {"COMPLETED", "ERROR"})]
  /\ elapsed' \in [Worker -> 0..Lease] /\ faults' \in Nat

LEMMA AbortFacts ==
  ASSUME TypeOK, NEW w \in Worker, Abort(w) PROVE Aborted(w)
<1>1. Forget(w, "read") /\ faults' \in Nat
  BY DEF Abort, Fault, TypeOK
<1>2. QED
  BY <1>1, ForgetFacts DEF Aborted

LEMMA TypeNext == TypeOK /\ Control /\ [Next]_vars => TypeOK'
<1> SUFFICES ASSUME TypeOK, Control, [Next]_vars PROVE TypeOK'
  OBVIOUS
<1> USE DEF redis, db, locals, env
<1>1. ASSUME NEW t \in Trace, Write(t) PROVE TypeOK'
  <2>1. writes' \in 0..MaxWrites
    BY <1>1, ConstantsAssumption DEF Write, TypeOK
  <2>2. QED
    BY <1>1, <2>1, ConstantsAssumption DEF Write, TypeOK
<1>2. ASSUME NEW t \in Trace, AnnounceTrace(t) PROVE TypeOK'
  <2>1. unread' \in Seq(Trace) /\ Len(unread') = Len(unread) + 1
    BY <1>2, AppendProperties DEF AnnounceTrace, TypeOK
  <2>2. Len(unread') <= MaxQueued
    BY <1>2, <2>1, ConstantsAssumption DEF AnnounceTrace, TypeOK
  <2>3. QED
    BY <1>2, <2>1, <2>2 DEF AnnounceTrace, TypeOK
<1>3. CASE Tick
  <2>1. age' \in [Trace -> 0..Settle]
    BY <1>3, Times DEF Tick, TypeOK
  <2>2. due' \in [Trace -> Off..Lease]
    BY <1>3, Times DEF Tick, TypeOK
  <2>3. elapsed' \in [Worker -> 0..Lease]
    BY <1>3, Times DEF Tick, TypeOK
  <2>4. QED
    BY <1>3, <2>1, <2>2, <2>3 DEF Tick, TypeOK
<1>4. ASSUME NEW w \in Worker, Crash(w) PROVE TypeOK'
  <2>1. hand' \in [Worker -> Seq(Trace)] /\ stranded' \in SUBSET Trace
    BY <1>4 DEF Crash, TypeOK
  <2>2. Forget(w, "down") /\ crashes' \in Nat
    BY <1>4 DEF Crash, TypeOK
  <2>3. /\ pc' \in [Worker -> PC] /\ members' \in [Worker -> SUBSET Trace]
        /\ cur' \in [Worker -> Trace \cup {None}]
        /\ todo' \in [Worker -> SUBSET Rule]
        /\ rule' \in [Worker -> Rule \cup {None}]
        /\ mine' \in [Worker -> SUBSET (Rule \X {"COMPLETED", "ERROR"})]
        /\ elapsed' \in [Worker -> 0..Lease]
    BY <2>2, ForgetFacts
  <2>4. QED
    BY <1>4, <2>1, <2>2, <2>3 DEF Crash, TypeOK
<1>5. ASSUME NEW w \in Worker, Restart(w) PROVE TypeOK'
  BY <1>5, Labels DEF Restart, TypeOK
<1>6. ASSUME NEW w \in Worker, Read(w) PROVE TypeOK'
  <2>1. Len(unread') <= MaxQueued
    BY <1>6, ReadSplits, ConstantsAssumption DEF TypeOK
  <2>2. hand' \in [Worker -> Seq(Trace)] /\ unread' \in Seq(Trace)
    BY <1>6, ReadSplits DEF TypeOK
  <2>3. pc' \in [Worker -> PC]
    BY <1>6, Labels DEF Read, Goto, TypeOK
  <2>4. QED
    BY <1>6, <2>1, <2>2, <2>3 DEF Read, TypeOK
<1>7. ASSUME NEW w \in Worker, Schedule(w) PROVE TypeOK'
  <2>1. Head(hand[w]) \in Trace
    BY <1>7 DEF Schedule, Control, Orderly, TypeOK
  <2>2. due' \in [Trace -> Off..Lease] /\ missed' \in SUBSET Trace
        /\ faults' \in Nat
    <3>1. CASE due' = [due EXCEPT ![Head(hand[w])] = Later(@, Settle)]
               /\ UNCHANGED <<missed, faults>>
      BY <2>1, <3>1, Times DEF TypeOK
    <3>2. CASE Fault /\ missed' = missed \cup {Head(hand[w])} /\ UNCHANGED due
      BY <2>1, <3>2 DEF Fault, TypeOK
    <3>3. QED
      BY <1>7, <3>1, <3>2 DEF Schedule
  <2>3. QED
    BY <1>7, <2>2, Labels DEF Schedule, Goto, TypeOK
<1>8. ASSUME NEW w \in Worker, Ack(w) PROVE TypeOK'
  <2>1. Tail(hand[w]) \in Seq(Trace)
    BY <1>8 DEF Ack, Control, Orderly, TypeOK
  <2>2. QED
    BY <1>8, <2>1, Labels DEF Ack, Goto, TypeOK
<1>9. ASSUME NEW w \in Worker, Drain(w) PROVE TypeOK'
  <2>1. PICK S \in SUBSET Trace :
          /\ members' = [members EXCEPT ![w] = S]
          /\ Goto(w, IF S = {} THEN "read" ELSE "lease")
    BY <1>9 DEF Drain
  <2>2. pc' \in [Worker -> PC] /\ members' \in [Worker -> SUBSET Trace]
    BY <2>1, Labels DEF Goto, TypeOK
  <2>3. QED
    BY <1>9, <2>2, Times DEF Drain, TypeOK
<1>10. ASSUME NEW w \in Worker, LeaseEntry(w) PROVE TypeOK'
  <2>1. PICK t \in members[w] :
          /\ due' = [due EXCEPT ![t] = IF @ = Off THEN Off
                                                  ELSE Lease - elapsed[w]]
          /\ cur' = [cur EXCEPT ![w] = t]
    BY <1>10 DEF LeaseEntry
  <2>2. t \in Trace /\ Lease - elapsed[w] \in Off..Lease /\ Off \in Off..Lease
    BY Times DEF TypeOK
  <2>3. QED
    BY <1>10, <2>1, <2>2, Labels DEF LeaseEntry, Goto, TypeOK
<1>11. ASSUME NEW w \in Worker, Check(w) PROVE TypeOK'
  <2>1. CASE Abort(w)
    <3>1. Aborted(w)
      BY <1>11, <2>1, AbortFacts DEF Check
    <3>2. QED
      BY <1>11, <2>1, <3>1 DEF Check, Aborted, TypeOK
  <2>2. CASE ~ Abort(w)
    BY <1>11, <2>2, Labels DEF Check, Goto, TypeOK
  <2>3. QED
    BY <2>1, <2>2
<1>12. ASSUME NEW w \in Worker, Bounce(w) PROVE TypeOK'
  <2>1. cur[w] \in Trace
    BY <1>12 DEF Bounce, Control, Orderly, Focused
  <2>2. bounces' \in [Trace -> Nat]
    BY <1>12, <2>1, ConstantsAssumption DEF Bounce, TypeOK
  <2>3. QED
    BY <1>12, <2>2, Labels DEF Bounce, Goto, TypeOK
<1>13. ASSUME NEW w \in Worker, Defer(w) PROVE TypeOK'
  <2>1. due' \in [Trace -> Off..Lease]
    BY <1>13, Times DEF Defer, TypeOK
  <2>2. QED
    BY <1>13, <2>1, Labels DEF Defer, Continue, Goto, TypeOK
<1>14. ASSUME NEW w \in Worker, Load(w) PROVE TypeOK'
  BY <1>14, Labels DEF Load, Goto, TypeOK
<1>15. ASSUME NEW w \in Worker, ClaimRule(w) PROVE TypeOK'
  <2>1. PICK r \in todo[w] :
          /\ todo' = [todo EXCEPT ![w] = @ \ {r}]
          /\ IF <<cur[w], r>> \in done
             THEN UNCHANGED <<rule, pc>>
             ELSE rule' = [rule EXCEPT ![w] = r] /\ Goto(w, "judge")
          /\ done' = done \cup {<<cur[w], r>>}
    BY <1>15 DEF ClaimRule
  <2>2. r \in Rule /\ cur[w] \in Trace
    BY <1>15 DEF ClaimRule, TypeOK, Control, Orderly, Focused
  <2>3. done' \in SUBSET Job
    BY <2>1, <2>2 DEF TypeOK, Job
  <2>4. pc' \in [Worker -> PC] /\ rule' \in [Worker -> Rule \cup {None}]
    BY <2>1, <2>2, Labels DEF Goto, TypeOK
  <2>5. QED
    BY <1>15, <2>1, <2>3, <2>4 DEF ClaimRule, TypeOK
<1>16. ASSUME NEW w \in Worker, Judge(w) PROVE TypeOK'
  <2>1. CASE Abort(w)
    <3>1. Aborted(w)
      BY <1>16, <2>1, AbortFacts DEF Judge
    <3>2. QED
      BY <1>16, <2>1, <3>1 DEF Judge, Aborted, TypeOK
  <2>2. CASE ~ Abort(w)
    <3>1. rule[w] \in Rule
      BY <1>16 DEF Judge, Control, Orderly
    <3>2. PICK status \in {"COMPLETED", "ERROR"} :
            mine' = [mine EXCEPT ![w] = @ \cup {<<rule[w], status>>}]
      BY <1>16, <2>2 DEF Judge
    <3>3. <<rule[w], status>> \in Rule \X {"COMPLETED", "ERROR"}
      BY <3>1
    <3>4. mine' \in [Worker -> SUBSET (Rule \X {"COMPLETED", "ERROR"})]
      BY <3>2, <3>3 DEF TypeOK
    <3>5. /\ rule' = [rule EXCEPT ![w] = None] /\ Goto(w, "rule")
          /\ UNCHANGED <<members, cur, todo, elapsed, faults>>
      BY <1>16, <2>2 DEF Judge
    <3>6. QED
      BY <1>16, <3>4, <3>5, Labels DEF Judge, Goto, TypeOK
  <2>3. QED
    BY <2>1, <2>2
<1>17. ASSUME NEW w \in Worker, CommitJobs(w) PROVE TypeOK'
  <2>1. cur[w] \in Trace
    BY <1>17 DEF CommitJobs, Control, Orderly, Focused
  <2>2. CASE Abort(w) /\ UNCHANGED <<jobs, scores, judged>>
    <3>1. Aborted(w)
      BY <1>17, <2>2, AbortFacts DEF CommitJobs
    <3>2. QED
      BY <1>17, <2>2, <3>1 DEF CommitJobs, Aborted, TypeOK
  <2>3. CASE ~ (Abort(w) /\ UNCHANGED <<jobs, scores, judged>>)
    <3>1. jobs' \in [Job -> Nat]
      <4>1. \A j \in Job : jobs[j] \in Nat /\ jobs[j] + 1 \in Nat
        BY DEF TypeOK
      <4>2. QED
        BY <1>17, <2>3, <4>1 DEF CommitJobs
    <3>2. scores' \in SUBSET Job /\ judged' \in SUBSET Trace
      BY <1>17, <2>1, <2>3 DEF CommitJobs, TypeOK
    <3>3. pc' \in [Worker -> PC]
          /\ mine' \in [Worker -> SUBSET (Rule \X {"COMPLETED", "ERROR"})]
      <4>1. pc' = [pc EXCEPT ![w] = "zrem"] /\ mine' = [mine EXCEPT ![w] = {}]
        BY <1>17, <2>3 DEF CommitJobs, Goto
      <4>2. QED
        BY <4>1, Labels DEF TypeOK
    <3>4. /\ UNCHANGED <<members, cur, todo, rule, elapsed, faults>>
          /\ UNCHANGED <<redis, age, hand, env, crashes>>
      BY <1>17, <2>3 DEF CommitJobs
    <3>5. QED
      BY <3>1, <3>2, <3>3, <3>4 DEF TypeOK
  <2>4. QED
    BY <2>2, <2>3
<1>18. ASSUME NEW w \in Worker, Zrem(w) PROVE TypeOK'
  <2>1. due' \in [Trace -> Off..Lease]
    BY <1>18, Times DEF Zrem, TypeOK
  <2>2. QED
    BY <1>18, <2>1, Labels DEF Zrem, Goto, TypeOK
<1>19. ASSUME NEW w \in Worker, Hdel(w) PROVE TypeOK'
  BY <1>19, Labels DEF Hdel, Continue, Goto, TypeOK
<1>20. CASE UNCHANGED vars
  BY <1>20 DEF vars, TypeOK
<1>21. QED
  BY <1>1, <1>2, <1>3, <1>4, <1>5, <1>6, <1>7, <1>8, <1>9, <1>10, <1>11,
     <1>12, <1>13, <1>14, <1>15, <1>16, <1>17, <1>18, <1>19, <1>20
     DEF Next, Step
-----------------------------------------------------------------------------
(* The control of a worker.                                                *)

\* A trace that is sure of a check, or needs none, stays so.
LEMMA SafeStays ==
  ASSUME TypeOK, Control, [Next]_vars
  PROVE  judged \subseteq judged' /\ \A t \in Trace : Safe(t) => Safe(t)'
<1> SUFFICES /\ judged \subseteq judged' /\ missed \subseteq missed'
             /\ \A t \in Trace : due[t] # Off => due'[t] # Off \/ t \in judged
  BY DEF Safe
<1> USE DEF redis, db, locals, env
<1> DEFINE Kept == /\ judged \subseteq judged' /\ missed \subseteq missed'
                   /\ \A t \in Trace :
                        due[t] # Off => due'[t] # Off \/ t \in judged
<1>1. ASSUME NEW t \in Trace, Write(t) \/ AnnounceTrace(t) PROVE Kept
  BY <1>1 DEF Write, AnnounceTrace
<1>2. CASE Tick
  <2>1. \A t \in Trace : due[t] \in Off..Lease
    BY DEF TypeOK
  <2>2. \A t \in Trace : due[t] # Off => due'[t] # Off
    BY <1>2, <2>1, ConstantsAssumption DEF Tick, Off
  <2>3. QED
    BY <1>2, <2>2 DEF Tick
<1>3. ASSUME NEW w \in Worker,
             \/ Crash(w) \/ Restart(w) \/ Read(w) \/ Ack(w) \/ Drain(w)
             \/ Check(w) \/ Bounce(w) \/ Load(w) \/ ClaimRule(w) \/ Judge(w)
             \/ CommitJobs(w) \/ Hdel(w)
      PROVE  Kept
  <2>1. due' = due
    BY <1>3 DEF Crash, Restart, Read, Ack, Drain, Check, Bounce, Load,
                ClaimRule, Judge, CommitJobs, Hdel
  <2>2. missed' = missed
    BY <1>3 DEF Crash, Restart, Read, Ack, Drain, Check, Bounce, Load,
                ClaimRule, Judge, CommitJobs, Hdel
  <2>3. judged \subseteq judged'
    BY <1>3 DEF Crash, Restart, Read, Ack, Drain, Check, Bounce, Load,
                ClaimRule, Judge, CommitJobs, Hdel
  <2>4. QED
    BY <2>1, <2>2, <2>3
<1>4. ASSUME NEW w \in Worker, Schedule(w) PROVE Kept
  <2>1. Settle # Off /\ \A d \in Off..Lease : d # Off => Later(d, Settle) # Off
    BY ConstantsAssumption DEF Off, Later
  <2>2. due \in [Trace -> Off..Lease]
    BY DEF TypeOK
  <2>3. \/ due' = [due EXCEPT ![Head(hand[w])] = Later(@, Settle)]
        \/ due' = due
    BY <1>4 DEF Schedule
  <2>4. missed \subseteq missed' /\ judged' = judged
    BY <1>4 DEF Schedule
  <2>5. QED
    BY <2>1, <2>2, <2>3, <2>4
<1>5. ASSUME NEW w \in Worker, LeaseEntry(w) PROVE Kept
  <2>1. PICK m \in members[w] :
          due' = [due EXCEPT ![m] = IF @ = Off THEN Off ELSE Lease - elapsed[w]]
    BY <1>5 DEF LeaseEntry
  <2>2. due \in [Trace -> Off..Lease] /\ elapsed[w] \in 0..Lease
    BY DEF TypeOK
  <2>3. Lease - elapsed[w] # Off
    BY <2>2, ConstantsAssumption DEF Off
  <2>4. missed' = missed /\ judged' = judged
    BY <1>5 DEF LeaseEntry
  <2>5. QED
    BY <2>1, <2>2, <2>3, <2>4
<1>6. ASSUME NEW w \in Worker, Defer(w) PROVE Kept
  <2>1. Settle # Off /\ due \in [Trace -> Off..Lease]
    BY ConstantsAssumption DEF Off, TypeOK
  <2>2. QED
    BY <1>6, <2>1 DEF Defer
<1>7. ASSUME NEW w \in Worker, Zrem(w) PROVE Kept
  <2>1. cur[w] \in judged /\ due \in [Trace -> Off..Lease]
    BY <1>7 DEF Zrem, Control, Orderly, TypeOK
  <2>2. QED
    BY <1>7, <2>1 DEF Zrem
<1>8. CASE UNCHANGED vars
  BY <1>8 DEF vars
<1>9. QED
  BY <1>1, <1>2, <1>3, <1>4, <1>5, <1>6, <1>7, <1>8 DEF Next, Step

\* A worker that takes no step stays where it is.
LEMMA OthersOrderly ==
  ASSUME TypeOK, Control, [Next]_vars, NEW v \in Worker,
         pc'[v] = pc[v], cur'[v] = cur[v], rule'[v] = rule[v],
         mine'[v] = mine[v], hand'[v] = hand[v]
  PROVE  Orderly(v)'
<1>1. Orderly(v)
  BY DEF Control
<1>2. pc[v] = "ack" => Head(hand[v]) \in Trace
  BY <1>1 DEF Orderly, TypeOK
<1>3. pc'[v] = "ack" => Safe(Head(hand[v]))'
  <2> SUFFICES ASSUME pc'[v] = "ack" PROVE Safe(Head(hand[v]))'
    OBVIOUS
  <2> DEFINE t == Head(hand[v])
  <2>1. t \in Trace /\ Safe(t)
    BY <1>1, <1>2 DEF Orderly
  <2> HIDE DEF t
  <2>2. Safe(t)' /\ t' = t
    <3>1. t' = t
      BY DEF t
    <3>2. QED
      BY <2>1, <3>1, SafeStays DEF Safe
  <2>3. QED
    BY <2>2 DEF t, Safe
<1>4. judged \subseteq judged'
  BY SafeStays
<1>5. QED
  BY <1>1, <1>3, <1>4 DEF Orderly

LEMMA ControlNext == TypeOK /\ Control /\ [Next]_vars => Control'
<1> SUFFICES ASSUME TypeOK, Control, [Next]_vars PROVE Control'
  OBVIOUS
<1> USE DEF redis, db, locals, env
<1>w. ASSUME NEW w \in Worker, Orderly(w)',
             \A v \in Worker \ {w} :
               /\ pc'[v] = pc[v] /\ cur'[v] = cur[v] /\ rule'[v] = rule[v]
               /\ mine'[v] = mine[v] /\ hand'[v] = hand[v]
      PROVE  Control'
  BY <1>w, OthersOrderly DEF Control
<1>t. /\ pc \in [Worker -> PC] /\ hand \in [Worker -> Seq(Trace)]
      /\ cur \in [Worker -> Trace \cup {None}]
      /\ rule \in [Worker -> Rule \cup {None}]
      /\ mine \in [Worker -> SUBSET (Rule \X {"COMPLETED", "ERROR"})]
      /\ \A w \in Worker : Orderly(w)
  BY DEF TypeOK, Control
<1>1. CASE \/ \E t \in Trace : Write(t) \/ AnnounceTrace(t)
           \/ Tick \/ UNCHANGED vars
  <2>1. pc' = pc /\ cur' = cur /\ rule' = rule /\ mine' = mine /\ hand' = hand
    BY <1>1 DEF Write, AnnounceTrace, Tick, vars
  <2>2. QED
    BY <2>1, OthersOrderly DEF Control
<1>2. ASSUME NEW w \in Worker, Crash(w) PROVE Control'
  <2>1. Forget(w, "down") /\ hand' = [hand EXCEPT ![w] = <<>>]
    BY <1>2 DEF Crash
  <2>2. Orderly(w)'
    BY <1>t, <2>1, ForgetFacts DEF Orderly, Focused
  <2>3. QED
    BY <1>t, <1>w, <2>1, <2>2, ForgetFacts
<1>3. ASSUME NEW w \in Worker, Restart(w) PROVE Control'
  <2>1. Orderly(w)'
    BY <1>3, <1>t DEF Restart, Orderly, Focused
  <2>2. QED
    BY <1>3, <1>t, <1>w, <2>1 DEF Restart
<1>4. ASSUME NEW w \in Worker, Read(w) PROVE Control'
  <2>1. Orderly(w)'
    BY <1>4, <1>t, ReadSplits DEF Read, Orderly, Focused
  <2>2. QED
    BY <1>4, <1>t, <1>w, <2>1 DEF Read, Goto
<1>5. ASSUME NEW w \in Worker, Schedule(w) PROVE Control'
  <2>1. hand[w] # <<>> /\ Head(hand[w]) \in Trace
    BY <1>5, <1>t DEF Schedule, Orderly
  <2>2. Safe(Head(hand[w]))'
    <3>1. Later(due[Head(hand[w])], Settle) # Off
      <4>1. due[Head(hand[w])] \in Off..Lease
        BY <2>1 DEF TypeOK
      <4>2. QED
        BY <4>1, ConstantsAssumption DEF Later, Off
    <3>2. CASE due' = [due EXCEPT ![Head(hand[w])] = Later(@, Settle)]
      <4>1. due'[Head(hand[w])] = Later(due[Head(hand[w])], Settle)
        BY <2>1, <3>2 DEF TypeOK
      <4>2. UNCHANGED hand
        BY <1>5 DEF Schedule
      <4>3. QED
        BY <3>1, <4>1, <4>2 DEF Safe
    <3>3. CASE missed' = missed \cup {Head(hand[w])}
      BY <1>5, <3>3 DEF Safe, Schedule
    <3>4. QED
      BY <1>5, <3>2, <3>3 DEF Schedule
  <2>3. pc'[w] = "ack" /\ UNCHANGED <<hand, cur, rule, mine>>
    BY <1>5, <1>t DEF Schedule, Goto
  <2>4. Orderly(w)'
    BY <1>5, <1>t, <2>1, <2>2, <2>3 DEF Orderly, Focused, Schedule
  <2>5. QED
    BY <1>5, <1>t, <1>w, <2>4 DEF Schedule, Goto
<1>6. ASSUME NEW w \in Worker, Ack(w) PROVE Control'
  <2>1. hand[w] # <<>> /\ Tail(hand[w]) \in Seq(Trace)
        /\ Len(Tail(hand[w])) = Len(hand[w]) - 1
    BY <1>6, <1>t, HeadTailProperties DEF Ack, Orderly
  <2>2. hand'[w] = Tail(hand[w])
        /\ pc'[w] = IF Len(hand[w]) = 1 THEN "drain" ELSE "schedule"
    BY <1>6, <1>t DEF Ack, Goto
  <2>3. hand'[w] # <<>> <=> pc'[w] = "schedule"
    <3>1. \A s \in Seq(Trace) : Len(s) \in Nat /\ (s = <<>> <=> Len(s) = 0)
      OBVIOUS
    <3>2. Len(hand[w]) \in Nat
      BY <1>t
    <3>3. Tail(hand[w]) = <<>> <=> Len(hand[w]) = 1
      <4> DEFINE n == Len(hand[w])
                 s == Tail(hand[w])
      <4>1. s \in Seq(Trace) /\ Len(s) = n - 1 /\ n \in Nat
        BY <2>1, <3>2
      <4>2. s = <<>> <=> Len(s) = 0
        BY <3>1, <4>1, Zenon
      <4> HIDE DEF n, s
      <4>3. s = <<>> <=> n = 1
        BY <4>1, <4>2
      <4>4. QED
        BY <4>3 DEF n, s
    <3>4. QED
      BY <2>2, <3>3
  <2>4. Orderly(w)'
    BY <1>6, <1>t, <2>2, <2>3 DEF Orderly, Focused, Ack
  <2>5. QED
    BY <1>6, <1>t, <1>w, <2>4 DEF Ack, Goto
<1>7. ASSUME NEW w \in Worker, Drain(w) PROVE Control'
  <2>1. pc'[w] \in {"read", "lease"} /\ UNCHANGED <<hand, cur, rule, mine>>
        /\ \A v \in Worker \ {w} : pc'[v] = pc[v]
    BY <1>7, <1>t DEF Drain, Goto
  <2>2. Orderly(w)'
    BY <1>7, <1>t, <2>1 DEF Orderly, Focused, Drain
  <2>3. QED
    BY <1>w, <2>1, <2>2
<1>8. ASSUME NEW w \in Worker, LeaseEntry(w) PROVE Control'
  <2>1. PICK m \in members[w] : cur' = [cur EXCEPT ![w] = m]
    BY <1>8 DEF LeaseEntry
  <2>2. m \in Trace /\ pc' = [pc EXCEPT ![w] = "check"]
        /\ UNCHANGED <<hand, rule, mine>>
    BY <1>8 DEF LeaseEntry, Goto, TypeOK
  <2>3. Orderly(w)'
    BY <1>8, <1>t, <2>1, <2>2 DEF Orderly, Focused, LeaseEntry
  <2>4. QED
    BY <1>t, <1>w, <2>1, <2>2, <2>3
<1>9. ASSUME NEW w \in Worker, Check(w) \/ Judge(w) \/ CommitJobs(w), Abort(w),
             UNCHANGED hand
      PROVE  Control'
  <2>1. Forget(w, "read") /\ hand[w] = <<>>
    BY <1>9, <1>t DEF Abort, Check, Judge, CommitJobs, Orderly
  <2>2. Orderly(w)'
    BY <1>9, <1>t, <2>1, ForgetFacts DEF Orderly, Focused
  <2>3. QED
    BY <1>9, <1>w, <2>1, <2>2, ForgetFacts
<1>10. ASSUME NEW w \in Worker, Check(w), ~ Abort(w) PROVE Control'
  <2>1. pc'[w] \in {"load", "bounce"} /\ UNCHANGED <<hand, cur, rule, mine>>
        /\ \A v \in Worker \ {w} : pc'[v] = pc[v]
    BY <1>10, <1>t DEF Check, Goto
  <2>2. Orderly(w)'
    BY <1>10, <1>t, <2>1 DEF Orderly, Focused, Check
  <2>3. QED
    BY <1>w, <2>1, <2>2
<1>11. ASSUME NEW w \in Worker, Bounce(w) PROVE Control'
  <2>1. pc'[w] \in {"load", "defer"} /\ UNCHANGED <<hand, cur, rule, mine>>
        /\ \A v \in Worker \ {w} : pc'[v] = pc[v]
    BY <1>11, <1>t DEF Bounce, Goto
  <2>2. Orderly(w)'
    BY <1>11, <1>t, <2>1 DEF Orderly, Focused, Bounce
  <2>3. QED
    BY <1>w, <2>1, <2>2
<1>12. ASSUME NEW w \in Worker, Defer(w) \/ Hdel(w) PROVE Control'
  <2>1. pc'[w] \in {"read", "lease"} /\ UNCHANGED <<hand, rule, mine>>
        /\ \A v \in Worker \ {w} : pc'[v] = pc[v] /\ cur'[v] = cur[v]
    BY <1>12, <1>t DEF Defer, Hdel, Continue, Goto
  <2>2. Orderly(w)'
    BY <1>12, <1>t, <2>1 DEF Orderly, Focused, Defer, Hdel
  <2>3. QED
    BY <1>w, <2>1, <2>2
<1>13. ASSUME NEW w \in Worker, Load(w) PROVE Control'
  <2>1. pc'[w] = "rule" /\ UNCHANGED <<hand, cur, rule, mine>>
        /\ \A v \in Worker \ {w} : pc'[v] = pc[v]
    BY <1>13, <1>t DEF Load, Goto
  <2>2. Orderly(w)'
    BY <1>13, <1>t, <2>1 DEF Orderly, Focused, Load
  <2>3. QED
    BY <1>w, <2>1, <2>2
<1>14. ASSUME NEW w \in Worker, ClaimRule(w) PROVE Control'
  <2>1. PICK r \in todo[w] :
          IF <<cur[w], r>> \in done
          THEN UNCHANGED <<rule, pc>>
          ELSE rule' = [rule EXCEPT ![w] = r] /\ Goto(w, "judge")
    BY <1>14 DEF ClaimRule
  <2>2. r \in Rule /\ UNCHANGED <<hand, cur, mine>>
    BY <1>14 DEF ClaimRule, TypeOK
  <2>3. Orderly(w)'
    BY <1>14, <1>t, <2>1, <2>2 DEF Orderly, Focused, ClaimRule, Goto
  <2>4. QED
    BY <1>t, <1>w, <2>1, <2>2, <2>3 DEF Goto
<1>15. ASSUME NEW w \in Worker, Judge(w), ~ Abort(w) PROVE Control'
  <2>1. /\ pc' = [pc EXCEPT ![w] = "rule"] /\ rule' = [rule EXCEPT ![w] = None]
        /\ \A v \in Worker \ {w} : mine'[v] = mine[v]
        /\ UNCHANGED <<hand, cur>>
    BY <1>15, <1>t DEF Judge, Goto
  <2>2. Orderly(w)'
    BY <1>15, <1>t, <2>1 DEF Orderly, Focused, Judge
  <2>3. QED
    BY <1>t, <1>w, <2>1, <2>2
<1>16. ASSUME NEW w \in Worker, CommitJobs(w), ~ Abort(w) PROVE Control'
  <2>1. /\ pc' = [pc EXCEPT ![w] = "zrem"] /\ mine' = [mine EXCEPT ![w] = {}]
        /\ UNCHANGED <<hand, cur, rule>> /\ judged' = judged \cup {cur[w]}
    BY <1>16 DEF CommitJobs, Goto
  <2>2. Orderly(w)'
    BY <1>16, <1>t, <2>1 DEF Orderly, Focused, CommitJobs
  <2>3. QED
    BY <1>t, <1>w, <2>1, <2>2
<1>17. ASSUME NEW w \in Worker, Zrem(w) PROVE Control'
  <2>1. pc' = [pc EXCEPT ![w] = "hdel"] /\ UNCHANGED <<hand, cur, rule, mine, judged>>
    BY <1>17 DEF Zrem, Goto
  <2>2. Orderly(w)'
    BY <1>17, <1>t, <2>1 DEF Orderly, Focused, Zrem
  <2>3. QED
    BY <1>t, <1>w, <2>1, <2>2
<1>18. QED
  <2>1. \A w \in Worker : Check(w) \/ Judge(w) \/ CommitJobs(w) => UNCHANGED hand
    BY DEF Check, Judge, CommitJobs
  <2>2. QED
    BY <1>1, <1>2, <1>3, <1>4, <1>5, <1>6, <1>7, <1>8, <1>9, <1>10, <1>11,
       <1>12, <1>13, <1>14, <1>15, <1>16, <1>17, <2>1 DEF Next, Step
-----------------------------------------------------------------------------
(* Who evaluates what.                                                     *)

\* A claim comes before any work, is one worker's, and is worth one row.
Claimed ==
  /\ \A j \in Job : jobs[j] <= 1 /\ (jobs[j] > 0 => j \in done)
  /\ \A w \in Worker, t \in Trace, r \in Rule :
       AtWork(w, t, r) => <<t, r>> \in done /\ jobs[<<t, r>>] = 0
  /\ \A w, v \in Worker, t \in Trace, r \in Rule :
       AtWork(w, t, r) /\ AtWork(v, t, r) => w = v

\* A step that claims nothing and commits nothing.
LEMMA QuietClaimed ==
  ASSUME Claimed, done' = done, jobs' = jobs,
         \A w \in Worker, t \in Trace, r \in Rule :
           AtWork(w, t, r)' => AtWork(w, t, r)
  PROVE  Claimed'
BY DEF Claimed

LEMMA QuietRecorded ==
  ASSUME RecordedUnlessCutShort, done' = done, jobs' = jobs,
         crashes' = 0 /\ faults' = 0 => crashes = 0 /\ faults = 0,
         \A w \in Worker, t \in Trace, r \in Rule :
           AtWork(w, t, r) => AtWork(w, t, r)'
  PROVE  RecordedUnlessCutShort'
BY DEF RecordedUnlessCutShort, EveryEvaluationIsRecorded

\* What a worker that was killed, or whose pass aborted, had not committed is
\* nobody's work any more.
LEMMA ForgetWork ==
  ASSUME TypeOK, NEW w \in Worker, NEW l \in {"read", "down"}, Forget(w, l)
  PROVE  \A v \in Worker, t \in Trace, r \in Rule :
           AtWork(v, t, r)' => AtWork(v, t, r)
<1>1. \A t \in Trace : cur'[w] # t
  BY ForgetFacts, ConstantsAssumption
<1>2. QED
  BY <1>1, ForgetFacts DEF AtWork

LEMMA ClaimedNext ==
  ASSUME TypeOK, Control, Claimed, RecordedUnlessCutShort, [Next]_vars
  PROVE  Claimed' /\ RecordedUnlessCutShort'
<1> USE DEF redis, db, locals, env
<1> DEFINE Goal == Claimed' /\ RecordedUnlessCutShort'
<1>t. /\ pc \in [Worker -> PC] /\ cur \in [Worker -> Trace \cup {None}]
      /\ rule \in [Worker -> Rule \cup {None}]
      /\ mine \in [Worker -> SUBSET (Rule \X {"COMPLETED", "ERROR"})]
      /\ None \notin Rule /\ None \notin Trace
      /\ crashes \in Nat /\ faults \in Nat
      /\ \A w \in Worker : Orderly(w)
  BY ConstantsAssumption DEF TypeOK, Control
<1>f. ASSUME \/ UNCHANGED faults \/ Fault PROVE faults' = 0 => faults = 0
  BY <1>t, <1>f DEF Fault
<1>q. ASSUME done' = done, jobs' = jobs,
             crashes' = 0 /\ faults' = 0 => crashes = 0 /\ faults = 0,
             \A w \in Worker, t \in Trace, r \in Rule :
               AtWork(w, t, r)' <=> AtWork(w, t, r)
      PROVE  Goal
  BY <1>q, QuietClaimed, QuietRecorded
<1>1. CASE \/ \E t \in Trace : Write(t) \/ AnnounceTrace(t)
           \/ Tick \/ UNCHANGED vars
           \/ \E w \in Worker :
                \/ Restart(w) \/ Read(w) \/ Schedule(w) \/ Ack(w) \/ Drain(w)
                \/ (Check(w) /\ ~ Abort(w)) \/ Bounce(w) \/ Load(w) \/ Zrem(w)
  <2>1. UNCHANGED <<cur, rule, mine>>
    BY <1>1 DEF Write, AnnounceTrace, Tick, vars, Restart, Read, Schedule,
                Ack, Drain, Check, Bounce, Load, Zrem
  <2>2. UNCHANGED <<done, jobs, crashes>>
    BY <1>1 DEF Write, AnnounceTrace, Tick, vars, Restart, Read, Schedule,
                Ack, Drain, Check, Bounce, Load, Zrem
  <2>3. UNCHANGED faults \/ Fault
    BY <1>1 DEF Write, AnnounceTrace, Tick, vars, Restart, Read, Schedule,
                Ack, Drain, Check, Bounce, Load, Zrem
  <2>4. \A w \in Worker, t \in Trace, r \in Rule :
          AtWork(w, t, r)' <=> AtWork(w, t, r)
    BY <2>1 DEF AtWork
  <2>5. QED
    BY <1>f, <1>q, <2>2, <2>3, <2>4
<1>2. ASSUME NEW w \in Worker, LeaseEntry(w) \/ Defer(w) \/ Hdel(w) PROVE Goal
  <2>1. /\ UNCHANGED <<rule, mine, done, jobs, crashes, faults>>
        /\ rule[w] = None /\ mine[w] = {}
    BY <1>2, <1>t DEF LeaseEntry, Defer, Hdel, Orderly
  <2>2. \A v \in Worker \ {w} : cur'[v] = cur[v]
    BY <1>2, <1>t DEF LeaseEntry, Defer, Hdel, Continue
  <2>3. \A v \in Worker, t \in Trace, r \in Rule :
          AtWork(v, t, r)' <=> AtWork(v, t, r)
    <3> TAKE v \in Worker, t \in Trace, r \in Rule
    <3>1. CASE v = w
      BY <1>t, <2>1, <3>1 DEF AtWork
    <3>2. CASE v # w
      BY <2>1, <2>2, <3>2 DEF AtWork
    <3>3. QED
      BY <3>1, <3>2
  <2>4. QED
    BY <1>q, <2>1, <2>3
<1>3. ASSUME NEW w \in Worker, NEW l \in {"read", "down"}, Forget(w, l),
             UNCHANGED <<done, jobs>>, crashes' # 0 \/ faults' # 0
      PROVE  Goal
  <2>1. Claimed'
    BY <1>3, ForgetWork, QuietClaimed
  <2>2. QED
    BY <1>3, <2>1 DEF RecordedUnlessCutShort
<1>4. ASSUME NEW w \in Worker, Crash(w) PROVE Goal
  <2>1. Forget(w, "down") /\ UNCHANGED <<done, jobs>> /\ crashes' # 0
    BY <1>4, <1>t DEF Crash
  <2>2. QED
    BY <1>3, <2>1
<1>5. ASSUME NEW w \in Worker, Abort(w), UNCHANGED <<done, jobs>> PROVE Goal
  <2>1. Forget(w, "read") /\ faults' # 0
    BY <1>5, <1>t DEF Abort, Fault
  <2>2. QED
    BY <1>3, <1>5, <2>1
<1>6. ASSUME NEW w \in Worker, ClaimRule(w) PROVE Goal
  <2>1. PICK r \in todo[w] :
          /\ IF <<cur[w], r>> \in done
             THEN UNCHANGED <<rule, pc>>
             ELSE rule' = [rule EXCEPT ![w] = r] /\ Goto(w, "judge")
          /\ done' = done \cup {<<cur[w], r>>}
    BY <1>6 DEF ClaimRule
  <2>2. /\ UNCHANGED <<cur, mine, jobs, crashes, faults>>
        /\ rule[w] = None /\ r \in Rule /\ cur[w] \in Trace
    BY <1>6, <1>t DEF ClaimRule, Orderly, Focused, TypeOK
  <2>3. CASE <<cur[w], r>> \in done
    <3>1. \A v \in Worker, t \in Trace, s \in Rule :
            AtWork(v, t, s)' <=> AtWork(v, t, s)
      BY <2>1, <2>2, <2>3 DEF AtWork
    <3>2. done' = done
      BY <2>1, <2>3
    <3>3. QED
      BY <1>q, <2>2, <3>1, <3>2
  <2>4. CASE <<cur[w], r>> \notin done
    <3>1. rule' = [rule EXCEPT ![w] = r]
      BY <2>1, <2>4
    <3>2. \A v \in Worker, t \in Trace, s \in Rule :
            AtWork(v, t, s)' <=> \/ AtWork(v, t, s)
                                 \/ v = w /\ t = cur[w] /\ s = r
      <4> TAKE v \in Worker, t \in Trace, s \in Rule
      <4>1. CASE v = w
        BY <1>t, <2>2, <3>1, <4>1 DEF AtWork
      <4>2. CASE v # w
        BY <1>t, <2>2, <3>1, <4>2 DEF AtWork
      <4>3. QED
        BY <4>1, <4>2
    <3>3. <<cur[w], r>> \in Job /\ jobs[<<cur[w], r>>] = 0
          /\ \A v \in Worker : ~ AtWork(v, cur[w], r)
      <4>1. <<cur[w], r>> \in Job
        BY <2>2 DEF Job
      <4>2. jobs[<<cur[w], r>>] \in Nat
        BY <4>1 DEF TypeOK
      <4>3. ~ (jobs[<<cur[w], r>>] > 0)
        BY <2>4, <4>1 DEF Claimed
      <4>4. QED
        BY <2>2, <2>4, <4>1, <4>2, <4>3 DEF Claimed
    <3>4. done \subseteq done' /\ <<cur[w], r>> \in done'
      BY <2>1
    <3>5. \A j \in Job : jobs'[j] <= 1 /\ (jobs'[j] > 0 => j \in done')
      BY <2>2, <3>4 DEF Claimed
    <3>6. \A v \in Worker, t \in Trace, s \in Rule :
            AtWork(v, t, s)' => <<t, s>> \in done' /\ jobs'[<<t, s>>] = 0
      BY <2>2, <3>2, <3>3, <3>4 DEF Claimed
    <3>7. \A v, u \in Worker, t \in Trace, s \in Rule :
            AtWork(v, t, s)' /\ AtWork(u, t, s)' => v = u
      BY <3>2, <3>3 DEF Claimed
    <3>8. RecordedUnlessCutShort'
      <4> SUFFICES ASSUME crashes' = 0, faults' = 0,
                          NEW t \in Trace, NEW s \in Rule, <<t, s>> \in done'
                   PROVE  \/ jobs'[<<t, s>>] > 0
                          \/ \E v \in Worker : AtWork(v, t, s)'
        BY DEF RecordedUnlessCutShort, EveryEvaluationIsRecorded
      <4>1. CASE <<t, s>> \in done
        BY <2>2, <3>2, <4>1
           DEF RecordedUnlessCutShort, EveryEvaluationIsRecorded
      <4>2. CASE t = cur[w] /\ s = r
        BY <3>2, <4>2
      <4>3. QED
        BY <2>1, <4>1, <4>2
    <3>9. QED
      BY <3>5, <3>6, <3>7, <3>8 DEF Claimed
  <2>5. QED
    BY <2>3, <2>4
<1>7. ASSUME NEW w \in Worker, Judge(w), ~ Abort(w) PROVE Goal
  <2>1. PICK s \in {"COMPLETED", "ERROR"} :
          mine' = [mine EXCEPT ![w] = @ \cup {<<rule[w], s>>}]
    BY <1>7 DEF Judge
  <2>2. /\ rule' = [rule EXCEPT ![w] = None] /\ rule[w] \in Rule
        /\ UNCHANGED <<cur, done, jobs, crashes, faults>>
    BY <1>7, <1>t DEF Judge, Orderly
  <2>3. \A v \in Worker, t \in Trace, r \in Rule :
          AtWork(v, t, r)' <=> AtWork(v, t, r)
    <3> TAKE v \in Worker, t \in Trace, r \in Rule
    <3>1. CASE v = w
      BY <1>t, <2>1, <2>2, <3>1 DEF AtWork
    <3>2. CASE v # w
      BY <1>t, <2>1, <2>2, <3>2 DEF AtWork
    <3>3. QED
      BY <3>1, <3>2
  <2>4. QED
    BY <1>q, <2>2, <2>3
<1>8. ASSUME NEW w \in Worker, CommitJobs(w),
             ~ (Abort(w) /\ UNCHANGED <<jobs, scores, judged>>)
      PROVE  Goal
  <2>1. /\ jobs' = [j \in Job |->
              IF j[1] = cur[w] /\ \E s \in {"COMPLETED", "ERROR"} :
                                    <<j[2], s>> \in mine[w]
              THEN jobs[j] + 1 ELSE jobs[j]]
        /\ mine' = [mine EXCEPT ![w] = {}]
        /\ UNCHANGED <<cur, rule, done, crashes, faults>>
    BY <1>8 DEF CommitJobs
  <2>2. rule[w] = None
    BY <1>8, <1>t DEF CommitJobs, Orderly
  <2>3. \A t \in Trace, r \in Rule :
          jobs'[<<t, r>>] = IF AtWork(w, t, r) THEN jobs[<<t, r>>] + 1
                                               ELSE jobs[<<t, r>>]
    <3> TAKE t \in Trace, r \in Rule
    <3>1. <<t, r>> \in Job /\ <<t, r>>[1] = t /\ <<t, r>>[2] = r
      BY DEF Job
    <3>2. QED
      BY <1>t, <2>1, <2>2, <3>1 DEF AtWork
  <2>4. \A v \in Worker, t \in Trace, r \in Rule :
          AtWork(v, t, r)' <=> AtWork(v, t, r) /\ v # w
    <3> TAKE v \in Worker, t \in Trace, r \in Rule
    <3>1. CASE v = w
      BY <1>t, <2>1, <2>2, <3>1 DEF AtWork
    <3>2. CASE v # w
      BY <1>t, <2>1, <3>2 DEF AtWork
    <3>3. QED
      BY <3>1, <3>2
  <2>5. \A t \in Trace, r \in Rule : jobs[<<t, r>>] \in Nat /\ <<t, r>> \in Job
    BY DEF TypeOK, Job
  <2>6. \A t \in Trace, r \in Rule :
          /\ jobs'[<<t, r>>] <= 1
          /\ jobs'[<<t, r>>] > 0 => <<t, r>> \in done'
    <3> TAKE t \in Trace, r \in Rule
    <3>1. /\ jobs[<<t, r>>] <= 1 /\ done' = done
          /\ jobs[<<t, r>>] > 0 => <<t, r>> \in done
      BY <2>1, <2>5 DEF Claimed
    <3>2. CASE AtWork(w, t, r)
      <4>1. <<t, r>> \in done /\ jobs[<<t, r>>] = 0
        BY <3>2 DEF Claimed
      <4>2. jobs'[<<t, r>>] = 1
        BY <2>3, <3>2, <4>1
      <4>3. QED
        BY <3>1, <4>1, <4>2
    <3>3. CASE ~ AtWork(w, t, r)
      <4>1. jobs'[<<t, r>>] = jobs[<<t, r>>]
        BY <2>3, <3>3
      <4>2. QED
        BY <3>1, <4>1
    <3>4. QED
      BY <3>2, <3>3
  <2>7. \A j \in Job : jobs'[j] <= 1 /\ (jobs'[j] > 0 => j \in done')
    BY <2>6 DEF Job
  <2>8. \A v \in Worker, t \in Trace, r \in Rule :
          AtWork(v, t, r)' => <<t, r>> \in done' /\ jobs'[<<t, r>>] = 0
    BY <2>1, <2>3, <2>4 DEF Claimed
  <2>9. \A v, u \in Worker, t \in Trace, r \in Rule :
          AtWork(v, t, r)' /\ AtWork(u, t, r)' => v = u
    BY <2>4 DEF Claimed
  <2>10. RecordedUnlessCutShort'
    <3> SUFFICES ASSUME crashes' = 0, faults' = 0,
                        NEW t \in Trace, NEW r \in Rule, <<t, r>> \in done'
                 PROVE  \/ jobs'[<<t, r>>] > 0
                        \/ \E v \in Worker : AtWork(v, t, r)'
      BY DEF RecordedUnlessCutShort, EveryEvaluationIsRecorded
    <3>1. jobs[<<t, r>>] > 0 \/ \E v \in Worker : AtWork(v, t, r)
      BY <2>1 DEF RecordedUnlessCutShort, EveryEvaluationIsRecorded
    <3>2. QED
      BY <2>3, <2>4, <2>5, <3>1
  <2>11. QED
    BY <2>7, <2>8, <2>9, <2>10 DEF Claimed
<1>9. QED
  <2>1. ASSUME NEW w \in Worker, Check(w) \/ Judge(w), Abort(w) PROVE Goal
    BY <1>5, <2>1 DEF Check, Judge
  <2>2. ASSUME NEW w \in Worker, CommitJobs(w),
               Abort(w) /\ UNCHANGED <<jobs, scores, judged>>
        PROVE  Goal
    BY <1>5, <2>2 DEF CommitJobs
  <2>3. ASSUME NEW w \in Worker, Step(w) PROVE Goal
    <3>1. CASE \/ Read(w) \/ Schedule(w) \/ Ack(w) \/ Drain(w)
               \/ (Check(w) /\ ~ Abort(w)) \/ Bounce(w) \/ Load(w) \/ Zrem(w)
      BY <1>1, <3>1
    <3>2. CASE LeaseEntry(w) \/ Defer(w) \/ Hdel(w)
      BY <1>2, <3>2
    <3>3. CASE ClaimRule(w)
      BY <1>6, <3>3
    <3>4. CASE Judge(w) /\ ~ Abort(w)
      BY <1>7, <3>4
    <3>5. CASE CommitJobs(w)
      BY <1>8, <2>2, <3>5
    <3>6. CASE (Check(w) \/ Judge(w)) /\ Abort(w)
      BY <2>1, <3>6
    <3>7. QED
      BY <2>3, <3>1, <3>2, <3>3, <3>4, <3>5, <3>6, Zenon DEF Step
  <2>4. ASSUME NEW w \in Worker, Crash(w) \/ Restart(w) PROVE Goal
    BY <1>1, <1>4, <2>4
  <2>5. QED
    BY <1>1, <2>3, <2>4, Zenon DEF Next
-----------------------------------------------------------------------------
(* No trace is forgotten.                                                  *)

Waiting(t) ==
  \/ due[t] # Off \/ InHand(t) \/ t \in stranded \cup missed
  \/ \E i \in DOMAIN unread : unread[i] = t

LEMMA ForgottenNext ==
  ASSUME TypeOK, Control, NothingForgotten, [Next]_vars
  PROVE  NothingForgotten'
<1> USE DEF redis, db, locals, env
<1>t. /\ unread \in Seq(Trace) /\ hand \in [Worker -> Seq(Trace)]
      /\ announced \subseteq Trace
      /\ \A w \in Worker : Orderly(w)
  BY DEF TypeOK, Control
\* A step that announces nothing, and lets go of nothing unread or in hand
\* unless the trace is safe or stranded.
<1>q. ASSUME announced' = announced, stranded \subseteq stranded',
             \A t \in Trace :
               InHand(t) \/ (\E i \in DOMAIN unread : unread[i] = t) =>
                 \/ InHand(t)' \/ (\E i \in DOMAIN unread : unread[i] = t)'
                 \/ Safe(t) \/ t \in stranded'
      PROVE  NothingForgotten'
  <2> SUFFICES ASSUME NEW t \in announced' \ judged' PROVE Waiting(t)'
    BY DEF NothingForgotten, Waiting
  <2>1. t \in Trace /\ t \in announced \ judged
    BY <1>q, <1>t, SafeStays
  <2>2. Waiting(t)
    BY <2>1 DEF NothingForgotten, Waiting
  <2>3. ASSUME Safe(t) PROVE Waiting(t)'
    <3>1. Safe(t)'
      BY <2>1, <2>3, SafeStays
    <3>2. QED
      BY <3>1 DEF Safe, Waiting
  <2>4. CASE due[t] # Off \/ t \in missed
    BY <2>3, <2>4 DEF Safe
  <2>5. CASE t \in stranded
    BY <1>q, <2>5 DEF Waiting
  <2>6. CASE InHand(t) \/ \E i \in DOMAIN unread : unread[i] = t
    BY <1>q, <2>1, <2>3, <2>6 DEF Waiting
  <2>7. QED
    BY <2>2, <2>4, <2>5, <2>6 DEF Waiting
<1>1. CASE \/ \E t \in Trace : Write(t)
           \/ Tick \/ UNCHANGED vars
           \/ \E w \in Worker :
                \/ Restart(w) \/ Schedule(w) \/ Drain(w) \/ LeaseEntry(w)
                \/ Check(w) \/ Bounce(w) \/ Defer(w) \/ Load(w)
                \/ ClaimRule(w) \/ Judge(w) \/ CommitJobs(w) \/ Zrem(w)
                \/ Hdel(w)
  <2>1. UNCHANGED <<announced, stranded>>
    BY <1>1 DEF Write, Tick, vars, Restart, Schedule, Drain, LeaseEntry,
                Check, Bounce, Defer, Load, ClaimRule, Judge, CommitJobs,
                Zrem, Hdel
  <2>2. UNCHANGED <<hand, unread>>
    BY <1>1 DEF Write, Tick, vars, Restart, Schedule, Drain, LeaseEntry,
                Check, Bounce, Defer, Load, ClaimRule, Judge, CommitJobs,
                Zrem, Hdel
  <2>3. QED
    BY <1>q, <2>1, <2>2 DEF InHand
<1>2. ASSUME NEW t \in Trace, AnnounceTrace(t) PROVE NothingForgotten'
  <2>1. /\ unread' = Append(unread, t) /\ announced' = announced \cup {t}
        /\ UNCHANGED <<due, hand, stranded, missed, judged>>
    BY <1>2 DEF AnnounceTrace
  <2>2. /\ DOMAIN unread' = 1..(Len(unread) + 1) /\ Len(unread) \in Nat
        /\ DOMAIN unread = 1..Len(unread)
        /\ unread'[Len(unread) + 1] = t
        /\ \A i \in 1..Len(unread) : unread'[i] = unread[i]
    BY <1>t, <2>1, AppendProperties
  <2>3. \E i \in DOMAIN unread' : unread'[i] = t
    BY <2>2
  <2>4. ASSUME NEW s, \E i \in DOMAIN unread : unread[i] = s
        PROVE  \E i \in DOMAIN unread' : unread'[i] = s
    BY <2>2, <2>4
  <2>5. QED
    BY <2>1, <2>3, <2>4 DEF NothingForgotten, InHand
<1>3. ASSUME NEW w \in Worker, Crash(w) PROVE NothingForgotten'
  <2>1. /\ stranded' = stranded \cup {hand[w][i] : i \in DOMAIN hand[w]}
        /\ hand' = [hand EXCEPT ![w] = <<>>]
        /\ UNCHANGED <<unread, announced>>
    BY <1>3 DEF Crash
  <2>2. \A t \in Trace : InHand(t) => InHand(t)' \/ t \in stranded'
    BY <1>t, <2>1 DEF InHand
  <2>3. QED
    BY <1>q, <2>1, <2>2
<1>4. ASSUME NEW w \in Worker, Read(w) PROVE NothingForgotten'
  <2>1. /\ hand' = [hand EXCEPT ![w] = hand'[w]] /\ hand[w] = <<>>
        /\ \A i \in DOMAIN unread :
             \/ \E k \in DOMAIN hand'[w] : hand'[w][k] = unread[i]
             \/ \E k \in DOMAIN unread' : unread'[k] = unread[i]
        /\ UNCHANGED <<announced, stranded>>
    BY <1>4, <1>t, ReadSplits DEF Read, Orderly
  <2>2. \A t \in Trace : InHand(t) => InHand(t)'
    <3> SUFFICES ASSUME NEW t \in Trace, NEW v \in Worker,
                        NEW i \in DOMAIN hand[v], hand[v][i] = t
                 PROVE  InHand(t)'
      BY DEF InHand
    <3>1. v # w
      BY <2>1
    <3>2. hand'[v] = hand[v]
      BY <1>t, <2>1, <3>1
    <3>3. QED
      BY <3>2 DEF InHand
  <2>3. QED
    BY <1>q, <2>1, <2>2 DEF InHand
<1>5. ASSUME NEW w \in Worker, Ack(w) PROVE NothingForgotten'
  <2>1. /\ hand' = [hand EXCEPT ![w] = Tail(hand[w])] /\ hand[w] # <<>>
        /\ Safe(Head(hand[w]))
        /\ UNCHANGED <<unread, announced, stranded>>
    BY <1>5, <1>t DEF Ack, Orderly
  <2>2. \A i \in DOMAIN hand[w] :
          \/ hand[w][i] = Head(hand[w])
          \/ \E k \in DOMAIN Tail(hand[w]) : Tail(hand[w])[k] = hand[w][i]
    <3> DEFINE s == hand[w]
    <3>1. s \in Seq(Trace) /\ s # <<>>
      BY <1>t, <2>1
    <3> HIDE DEF s
    <3>2. /\ Len(s) \in Nat /\ DOMAIN s = 1..Len(s) /\ Head(s) = s[1]
          /\ DOMAIN Tail(s) = 1..(Len(s) - 1)
          /\ \A k \in 1..(Len(s) - 1) : Tail(s)[k] = s[k + 1]
      BY <3>1, HeadTailProperties
    <3>3. ASSUME NEW i \in DOMAIN s, i # 1
          PROVE  i - 1 \in DOMAIN Tail(s) /\ Tail(s)[i - 1] = s[i]
      <4>1. i - 1 \in 1..(Len(s) - 1) /\ (i - 1) + 1 = i
        BY <3>2, <3>3
      <4>2. QED
        BY <3>2, <4>1
    <3>4. QED
      BY <3>2, <3>3 DEF s
  <2>3. \A t \in Trace : InHand(t) => InHand(t)' \/ Safe(t)
    <3> SUFFICES ASSUME NEW t \in Trace, NEW v \in Worker,
                        NEW i \in DOMAIN hand[v], hand[v][i] = t
                 PROVE  InHand(t)' \/ Safe(t)
      BY DEF InHand
    <3>1. CASE v # w
      BY <1>t, <2>1, <3>1 DEF InHand
    <3>2. CASE v = w
      BY <1>t, <2>1, <2>2, <3>2 DEF InHand
    <3>3. QED
      BY <3>1, <3>2
  <2>4. QED
    BY <1>q, <2>1, <2>3
<1>6. QED
  <2>1. ASSUME NEW w \in Worker, Step(w) PROVE NothingForgotten'
    BY <1>1, <1>4, <1>5, <2>1, Zenon DEF Step
  <2>2. ASSUME NEW w \in Worker, Crash(w) \/ Restart(w)
        PROVE  NothingForgotten'
    BY <1>1, <1>3, <2>2, Zenon
  <2>3. QED
    BY <1>1, <1>2, <2>1, <2>2, Zenon DEF Next
-----------------------------------------------------------------------------
(* The theorems.                                                           *)

Inv ==
  /\ TypeOK
  /\ Control
  /\ Claimed
  /\ RecordedUnlessCutShort
  /\ NothingForgotten

LEMMA InitInv == Init => Inv
<1> SUFFICES ASSUME Init PROVE Inv
  OBVIOUS
<1>1. TypeOK /\ Control
  BY TypeInit
<1>2. Claimed
  BY ConstantsAssumption DEF Init, Claimed, AtWork
<1>3. RecordedUnlessCutShort /\ NothingForgotten
  BY DEF Init, RecordedUnlessCutShort, EveryEvaluationIsRecorded,
         NothingForgotten
<1>4. QED
  BY <1>1, <1>2, <1>3 DEF Inv

LEMMA NextInv == Inv /\ [Next]_vars => Inv'
BY TypeNext, ControlNext, ClaimedNext, ForgottenNext DEF Inv

\* What a worker is at, the claims, the rows and the queues belong together.
THEOREM Invariant == Spec => []Inv
BY InitInv, NextInv, PTL DEF Spec

\* Every variable keeps its type.
THEOREM TypeCorrect == Spec => []TypeOK
<1>1. Inv => TypeOK
  BY DEF Inv
<1>2. QED
  BY <1>1, Invariant, PTL

\* No rule is evaluated twice on a trace, however many workers check it.
THEOREM Once == Spec => []EvaluatedOnce
<1>1. Inv => EvaluatedOnce
  BY DEF Inv, Claimed, EvaluatedOnce
<1>2. QED
  BY <1>1, Invariant, PTL

\* Without kills and aborted passes, every claim ends in a row.
THEOREM Recorded == Spec => []RecordedUnlessCutShort
<1>1. Inv => RecordedUnlessCutShort
  BY DEF Inv
<1>2. QED
  BY <1>1, Invariant, PTL

\* A trace that was announced is accounted for until it is evaluated.
THEOREM NoneForgotten == Spec => []NothingForgotten
<1>1. Inv => NothingForgotten
  BY DEF Inv
<1>2. QED
  BY <1>1, Invariant, PTL
-----------------------------------------------------------------------------
(* Patience ends.                                                          *)

LEMMA AtItGrows ==
  ASSUME NEW t
  PROVE  /\ Cardinality(AtIt(t)) \in Nat
         /\ AtIt(t) = {} => Cardinality(AtIt(t)) = 0
         /\ AtIt(t) \subseteq AtIt(t)' =>
              /\ Cardinality(AtIt(t))' \in Nat
              /\ Cardinality(AtIt(t)) <= Cardinality(AtIt(t))'
         /\ \A w \in Worker : w \notin AtIt(t) /\ AtIt(t)' = AtIt(t) \cup {w}
              => Cardinality(AtIt(t))' = Cardinality(AtIt(t)) + 1
         /\ \A w \in Worker : AtIt(t) \subseteq AtIt(t)' \cup {w}
              => Cardinality(AtIt(t)) <= Cardinality(AtIt(t))' + 1
<1>1. IsFiniteSet(AtIt(t)) /\ IsFiniteSet(AtIt(t)')
  <2>1. AtIt(t) \subseteq Worker /\ AtIt(t)' \subseteq Worker
    BY DEF AtIt
  <2>2. QED
    BY <2>1, FS_Subset, ConstantsAssumption
<1>2. /\ Cardinality(AtIt(t)) \in Nat /\ Cardinality(AtIt(t)') \in Nat
      /\ AtIt(t) = {} => Cardinality(AtIt(t)) = 0
  BY <1>1, FS_CardinalityType, FS_EmptySet
<1>3. AtIt(t) \subseteq AtIt(t)' =>
        Cardinality(AtIt(t)) <= Cardinality(AtIt(t)')
  BY <1>1, FS_Subset
<1>4. \A w \in Worker : w \notin AtIt(t) /\ AtIt(t)' = AtIt(t) \cup {w}
        => Cardinality(AtIt(t)') = Cardinality(AtIt(t)) + 1
  BY <1>1, FS_AddElement
<1>5. ASSUME NEW w \in Worker, AtIt(t) \subseteq AtIt(t)' \cup {w}
      PROVE  Cardinality(AtIt(t)) <= Cardinality(AtIt(t)') + 1
  <2>1. /\ IsFiniteSet(AtIt(t)' \cup {w})
        /\ Cardinality(AtIt(t)' \cup {w}) =
             IF w \in AtIt(t)' THEN Cardinality(AtIt(t)')
                               ELSE Cardinality(AtIt(t)') + 1
    BY <1>1, FS_AddElement
  <2>2. Cardinality(AtIt(t)) <= Cardinality(AtIt(t)' \cup {w})
    BY <1>5, <2>1, FS_Subset
  <2>3. QED
    BY <1>2, <2>1, <2>2
<1>6. QED
  BY <1>2, <1>3, <1>4, <1>5

LEMMA PatienceNext ==
  ASSUME TypeOK, Control, PatienceEnds, [Next]_vars
  PROVE  PatienceEnds'
<1> DEFINE Goal == PatienceEnds'
<1> USE DEF redis, db, locals, env
<1>t. /\ pc \in [Worker -> PC] /\ cur \in [Worker -> Trace \cup {None}]
      /\ bounces \in [Trace -> Nat] /\ crashes \in Nat /\ faults \in Nat
      /\ MaxBounces \in Nat /\ None \notin Trace
      /\ \A w \in Worker : pc[w] \in Focused => cur[w] \in Trace
  BY ConstantsAssumption DEF TypeOK, Control, Orderly
\* A step that counts nothing, and takes no worker off a trace.
<1>q. ASSUME UNCHANGED <<bounces, crashes, faults>>,
             \A t \in Trace : AtIt(t) \subseteq AtIt(t)'
      PROVE  Goal
  <2> SUFFICES ASSUME NEW t \in Trace
               PROVE  bounces[t] <= MaxBounces + Cardinality(AtIt(t))'
                                      + crashes + faults
    BY <1>q DEF PatienceEnds
  <2>1. /\ Cardinality(AtIt(t)) \in Nat /\ Cardinality(AtIt(t))' \in Nat
        /\ Cardinality(AtIt(t)) <= Cardinality(AtIt(t))'
    BY <1>q, AtItGrows
  <2>2. /\ bounces[t] <= MaxBounces + Cardinality(AtIt(t)) + crashes + faults
        /\ bounces[t] \in Nat
    BY <1>t DEF PatienceEnds
  <2>3. QED
    BY <1>t, <2>1, <2>2
<1>1. ASSUME UNCHANGED <<bounces, crashes, faults, pc, cur>> PROVE Goal
  BY <1>1, <1>q DEF AtIt
<1>2. ASSUME NEW w \in Worker, UNCHANGED <<bounces, crashes, faults>>,
             \A v \in Worker \ {w} : pc'[v] = pc[v] /\ cur'[v] = cur[v],
             pc[w] \in Late => pc'[w] \in Late /\ cur'[w] = cur[w]
      PROVE  Goal
  BY <1>2, <1>q DEF AtIt
\* A kill or an error takes at most one worker off, and is counted.
<1>3. ASSUME NEW w \in Worker, (Abort(w) /\ crashes' = crashes) \/ Crash(w),
             bounces' = bounces
      PROVE  Goal
  <2> SUFFICES ASSUME NEW t \in Trace
               PROVE  bounces[t] <= MaxBounces + Cardinality(AtIt(t))'
                                      + crashes' + faults'
    BY <1>3 DEF PatienceEnds
  <2>1. /\ crashes' \in Nat /\ faults' \in Nat
        /\ crashes' + faults' = crashes + faults + 1
    <3>1. CASE Abort(w) /\ crashes' = crashes
      BY <1>t, <3>1 DEF Abort, Fault
    <3>2. CASE Crash(w)
      <4>1. crashes' = crashes + 1 /\ faults' = faults
        BY <3>2 DEF Crash
      <4>2. QED
        BY <1>t, <4>1
    <3>3. QED
      BY <1>3, <3>1, <3>2
  <2>2. \A v \in Worker \ {w} : pc'[v] = pc[v] /\ cur'[v] = cur[v]
    <3>1. Forget(w, "read") \/ Forget(w, "down")
      BY <1>3 DEF Abort, Crash
    <3>2. QED
      BY <3>1, ForgetFacts
  <2>3. AtIt(t) \subseteq AtIt(t)' \cup {w}
    BY <2>2 DEF AtIt
  <2>4. Cardinality(AtIt(t)) <= Cardinality(AtIt(t))' + 1
    BY <2>3, AtItGrows
  <2>5. /\ bounces[t] <= MaxBounces + Cardinality(AtIt(t)) + crashes + faults
        /\ bounces[t] \in Nat
    BY <1>t DEF PatienceEnds
  <2>6. Cardinality(AtIt(t)) \in Nat /\ Cardinality(AtIt(t))' \in Nat
    <3>1. IsFiniteSet(AtIt(t)')
      <4>1. AtIt(t)' \subseteq Worker
        BY DEF AtIt
      <4>2. QED
        BY <4>1, FS_Subset, ConstantsAssumption
    <3>2. QED
      BY <3>1, FS_CardinalityType, AtItGrows
  <2>7. \A c, d, x, y \in Nat :
          bounces[t] <= MaxBounces + c + crashes + faults /\ c <= d + 1
            /\ x + y = crashes + faults + 1
          => bounces[t] <= MaxBounces + d + x + y
    BY <1>t, <2>5
  <2>8. QED
    BY <2>1, <2>4, <2>5, <2>6, <2>7, Zenon
<1>4. ASSUME NEW w \in Worker,
             \/ Restart(w) \/ Read(w) \/ Ack(w) \/ Drain(w) \/ LeaseEntry(w)
             \/ Defer(w) \/ Load(w) \/ ClaimRule(w) \/ Zrem(w)
             \/ (Check(w) /\ ~ Abort(w)) \/ (Judge(w) /\ ~ Abort(w))
             \/ (CommitJobs(w) /\ ~ (Abort(w) /\ UNCHANGED <<jobs, scores, judged>>))
      PROVE  Goal
  <2>1. UNCHANGED <<bounces, crashes, faults>>
    BY <1>4 DEF Restart, Read, Ack, Drain, LeaseEntry, Defer, Load, ClaimRule,
                Zrem, Check, Judge, CommitJobs
  <2>2. \A v \in Worker \ {w} : pc'[v] = pc[v] /\ cur'[v] = cur[v]
    <3>1. CASE Defer(w) \/ Drain(w) \/ LeaseEntry(w) \/ ClaimRule(w)
      BY <1>t, <3>1 DEF Defer, Continue, Drain, LeaseEntry, ClaimRule, Goto
    <3>2. QED
      BY <1>4, <1>t, <3>1 DEF Restart, Read, Ack, Load, Zrem, Check, Judge,
                              CommitJobs, Goto
  <2>3. pc[w] \in Late => pc'[w] \in Late /\ cur'[w] = cur[w]
    BY <1>4, <1>t DEF Restart, Read, Ack, Drain, LeaseEntry, Defer, Load,
                      ClaimRule, Zrem, Check, Judge, CommitJobs, Goto, Late
  <2>4. QED
    BY <1>2, <2>1, <2>2, <2>3
<1>5. ASSUME NEW w \in Worker, Schedule(w) PROVE Goal
  <2>1. /\ pc[w] = "schedule" /\ UNCHANGED <<bounces, crashes, cur>>
        /\ pc' = [pc EXCEPT ![w] = "ack"]
    BY <1>5 DEF Schedule, Goto
  <2>2. faults' \in Nat /\ faults <= faults'
    BY <1>5, <1>t DEF Schedule, Fault
  <2>3. \A t \in Trace : AtIt(t)' = AtIt(t)
    BY <1>t, <2>1 DEF AtIt, Late
  <2> SUFFICES ASSUME NEW t \in Trace
               PROVE  bounces[t] <= MaxBounces + Cardinality(AtIt(t))'
                                      + crashes + faults'
    BY <2>1 DEF PatienceEnds
  <2>4. /\ bounces[t] <= MaxBounces + Cardinality(AtIt(t)) + crashes + faults
        /\ bounces[t] \in Nat /\ Cardinality(AtIt(t)) \in Nat
        /\ Cardinality(AtIt(t))' = Cardinality(AtIt(t))
    BY <1>t, <2>3, AtItGrows DEF PatienceEnds
  <2>5. QED
    BY <1>t, <2>2, <2>4
\* The check is counted: past MAX_BOUNCES, w is one of those at it.
<1>6. ASSUME NEW w \in Worker, Bounce(w) PROVE Goal
  <2>1. /\ pc[w] = "bounce" /\ cur[w] \in Trace
        /\ bounces' = [bounces EXCEPT ![cur[w]] = @ + 1]
        /\ pc' = [pc EXCEPT ![w] = IF bounces[cur[w]] + 1 <= MaxBounces
                                   THEN "defer" ELSE "load"]
        /\ UNCHANGED <<cur, crashes, faults>>
    BY <1>6, <1>t DEF Bounce, Goto, Focused
  <2> SUFFICES ASSUME NEW t \in Trace
               PROVE  bounces'[t] <= MaxBounces + Cardinality(AtIt(t))'
                                       + crashes + faults
    BY <2>1 DEF PatienceEnds
  <2>2. /\ bounces[t] <= MaxBounces + Cardinality(AtIt(t)) + crashes + faults
        /\ bounces[t] \in Nat /\ Cardinality(AtIt(t)) \in Nat
    BY <1>t, AtItGrows DEF PatienceEnds
  <2>3. CASE t # cur[w]
    <3>1. AtIt(t)' = AtIt(t) /\ bounces'[t] = bounces[t]
      BY <1>t, <2>1, <2>3 DEF AtIt
    <3>2. QED
      BY <2>2, <3>1, AtItGrows
  <2>4. CASE t = cur[w] /\ bounces[t] + 1 <= MaxBounces
    <3>1. bounces'[t] = bounces[t] + 1
      BY <1>t, <2>1, <2>4
    <3>2. AtIt(t) = AtIt(t)'
      BY <1>t, <2>1, <2>4 DEF AtIt, Late
    <3>3. Cardinality(AtIt(t))' = Cardinality(AtIt(t))
      BY <3>2
    <3>4. QED
      BY <1>t, <2>2, <2>4, <3>1, <3>3
  <2>5. CASE t = cur[w] /\ ~ (bounces[t] + 1 <= MaxBounces)
    <3>1. bounces'[t] = bounces[t] + 1
      BY <1>t, <2>1, <2>5
    <3>2. w \notin AtIt(t) /\ AtIt(t)' = AtIt(t) \cup {w}
      BY <1>t, <2>1, <2>5 DEF AtIt, Late
    <3>3. Cardinality(AtIt(t))' = Cardinality(AtIt(t)) + 1
      BY <3>2, AtItGrows
    <3>4. QED
      BY <1>t, <2>2, <3>1, <3>2, <3>3
  <2>6. QED
    BY <2>3, <2>4, <2>5
\* The counter is deleted when the first of them is done.
<1>7. ASSUME NEW w \in Worker, Hdel(w) PROVE Goal
  <2>1. /\ pc[w] = "hdel" /\ cur[w] \in Trace
        /\ bounces' = [bounces EXCEPT ![cur[w]] = 0]
        /\ cur' = [cur EXCEPT ![w] = None]
        /\ \A v \in Worker \ {w} : pc'[v] = pc[v]
        /\ UNCHANGED <<crashes, faults>>
    BY <1>7, <1>t DEF Hdel, Continue, Goto, Focused
  <2> SUFFICES ASSUME NEW t \in Trace
               PROVE  bounces'[t] <= MaxBounces + Cardinality(AtIt(t))'
                                       + crashes + faults
    BY <2>1 DEF PatienceEnds
  <2>2. bounces[t] <= MaxBounces + Cardinality(AtIt(t)) + crashes + faults
    BY DEF PatienceEnds
  <2>3. CASE t # cur[w]
    <3>1. AtIt(t)' = AtIt(t) /\ bounces'[t] = bounces[t]
      BY <1>t, <2>1, <2>3 DEF AtIt
    <3>2. QED
      BY <2>2, <3>1, AtItGrows
  <2>4. CASE t = cur[w]
    <3>1. bounces'[t] = 0
      BY <1>t, <2>1, <2>4
    <3>2. Cardinality(AtIt(t))' \in Nat
      <4>1. IsFiniteSet(AtIt(t)')
        <5>1. AtIt(t)' \subseteq Worker
          BY DEF AtIt
        <5>2. QED
          BY <5>1, FS_Subset, ConstantsAssumption
      <4>2. QED
        BY <4>1, FS_CardinalityType
    <3>3. QED
      BY <1>t, <3>1, <3>2
  <2>5. QED
    BY <2>3, <2>4
<1>8. QED
  <2>1. CASE \/ \E t \in Trace : Write(t) \/ AnnounceTrace(t)
             \/ Tick \/ UNCHANGED vars
    BY <1>1, <2>1 DEF Write, AnnounceTrace, Tick, vars
  <2>2. ASSUME NEW w \in Worker, Check(w) \/ Judge(w) \/ CommitJobs(w)
        PROVE  Goal
    <3>1. bounces' = bounces /\ crashes' = crashes
      BY <2>2 DEF Check, Judge, CommitJobs
    <3>2. CASE Abort(w)
      BY <1>3, <3>1, <3>2
    <3>3. CASE ~ Abort(w)
      BY <1>4, <2>2, <3>3
    <3>4. QED
      BY <3>2, <3>3
  <2>3. ASSUME NEW w \in Worker, Crash(w) PROVE Goal
    <3>1. bounces' = bounces
      BY <2>3 DEF Crash
    <3>2. QED
      BY <1>3, <2>3, <3>1
  <2>4. ASSUME NEW w \in Worker, Step(w) \/ Restart(w) PROVE Goal
    BY <1>4, <1>5, <1>6, <1>7, <2>2, <2>4, Zenon DEF Step
  <2>5. QED
    BY <2>1, <2>3, <2>4, Zenon DEF Next

\* However long a trace is being written, workers stop waiting for it after
\* MAX_BOUNCES checks (eval_worker.py:88-90, 394-400): with any number of
\* workers, kills and errors the count goes past that by no more than those
\* that are evaluating the trace, and those that were stopped at it.
THEOREM WaitingEnds == Spec => []PatienceEnds
<1>1. Init => Inv /\ PatienceEnds
  <2> SUFFICES ASSUME Init PROVE PatienceEnds
    BY InitInv
  <2>1. /\ \A t \in Trace : AtIt(t) = {} /\ bounces[t] = 0
        /\ MaxBounces \in Nat /\ crashes = 0 /\ faults = 0
    BY ConstantsAssumption DEF Init, AtIt, Late
  <2>2. QED
    BY <2>1, AtItGrows DEF PatienceEnds
<1>2. Inv /\ PatienceEnds /\ [Next]_vars => (Inv /\ PatienceEnds)'
  BY NextInv, PatienceNext DEF Inv
<1>3. QED
  BY <1>1, <1>2, PTL DEF Spec
=============================================================================
