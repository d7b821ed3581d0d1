------------------------- MODULE IngestWorkerProofs -------------------------
(***************************************************************************)
(* Proofs about IngestWorker, for any number of workers, entries, traces,  *)
(* kills, signals and failures.  IInv is shown inductive one part at a     *)
(* time; the safety properties and the refinement of Delivery follow.      *)
(***************************************************************************)
EXTENDS IngestWorker, FiniteSetTheorems, TLAPS

LEMMA LowestSubset == \A S, n : Lowest(S, n) \subseteq S
  BY DEF Lowest

LEMMA Labels ==
  /\ "loop" \in PC /\ "claim" \in PC /\ "read" \in PC /\ "parse" \in PC
  /\ "batch" \in PC /\ "each" \in PC /\ "count" \in PC /\ "dlq" \in PC
  /\ "dlq_xack" \in PC /\ "dlq_hdel" \in PC /\ "xack" \in PC
  /\ "hdel" \in PC /\ "announce" \in PC /\ "down" \in PC
  /\ "stopped" \in PC
  BY DEF PC

\* What Touched yields is a set of traces, and grows with its argument.
LEMMA TouchedTraces ==
  ASSUME TypeOK, NEW S \in SUBSET Id PROVE Touched(S) \subseteq Trace
  BY ConstantsAssumption DEF Touched, TypeOK

\* Variables keep their types: the base of everything below.
LEMMA TypeInit == Init => TypeOK
<1> SUFFICES ASSUME Init PROVE TypeOK
  OBVIOUS
<1>1. added \in 0..MaxEvents
  BY ConstantsAssumption DEF Init
<1>2. kind \in [Id -> Kind] /\ pc \in [Worker -> PC]
  BY Labels DEF Init, Kind
<1>3. QED
  BY <1>1, <1>2 DEF Init, TypeOK

LEMMA TypeNext == TypeOK /\ [Next]_vars => TypeOK'
<1> SUFFICES ASSUME TypeOK, [Next]_vars PROVE TypeOK'
  OBVIOUS
<1> USE DEF TypeOK, redis, db, locals, env
<1>1. CASE UNCHANGED vars
  BY <1>1 DEF vars
<1>2. ASSUME NEW k \in Kinds, Xadd(k) PROVE TypeOK'
  <2>1. added + 1 \in Id /\ added + 1 \in 0..MaxEvents /\ k \in Kind
    BY <1>2, ConstantsAssumption DEF Xadd, Id
  <2>2. added' \in 0..MaxEvents /\ kind' \in [Id -> Kind]
    BY <1>2, <2>1 DEF Xadd
  <2>3. stream' \in SUBSET Id /\ unread' \in SUBSET Id
    BY <1>2, <2>1 DEF Xadd
  <2>4. QED
    BY <1>2, <2>2, <2>3 DEF Xadd
<1>3. ASSUME NEW m \in Id, GoesIdle(m) PROVE TypeOK'
  BY <1>3 DEF GoesIdle
<1>4. ASSUME NEW w \in Worker, Crash(w) \/ Sigterm(w) \/ Restart(w)
      PROVE TypeOK'
  <2>1. CASE Crash(w)
    BY <2>1, Labels DEF Crash
  <2>2. CASE Sigterm(w)
    BY <2>2 DEF Sigterm
  <2>3. CASE Restart(w)
    BY <2>3, Labels DEF Restart
  <2>4. QED
    BY <1>4, <2>1, <2>2, <2>3
<1>5. ASSUME NEW w \in Worker, Step(w) PROVE TypeOK'
  <2> USE Labels DEF Goto
  <2>1. CASE LoopTop(w)
    <3>1. loops' \in [Worker -> Nat]
      BY <2>1, ConstantsAssumption DEF LoopTop
    <3>2. QED
      BY <2>1, <3>1 DEF LoopTop
  <2>2. CASE Claim(w)
    <3> DEFINE seen == Lowest({m \in pel : m \notin stream \/ m \in idle},
                              BatchSize)
    <3>1. seen \in SUBSET Id
      BY LowestSubset
    <3> HIDE DEF seen
    <3>2. pel' \in SUBSET Id /\ idle' \in SUBSET Id
          /\ seen \cap stream \in SUBSET Id
      BY <2>2, <3>1 DEF Claim, seen
    <3>3. Handle(w, seen \cap stream, "read")
      BY <2>2 DEF Claim, seen
    <3>4. QED
      BY <2>2, <3>2, <3>3 DEF Claim, Handle
  <2>3. CASE Read(w)
    <3> DEFINE new == Lowest(unread, BatchSize)
    <3>1. new \in SUBSET Id
      BY LowestSubset
    <3> HIDE DEF new
    <3>2. pel' \in SUBSET Id /\ unread' \in SUBSET Id
      BY <2>3, <3>1 DEF Read, new
    <3>3. Handle(w, new, "loop")
      BY <2>3 DEF Read, new
    <3>4. QED
      BY <2>3, <3>1, <3>2, <3>3 DEF Read, Handle
  <2>4. CASE Parse(w)
    BY <2>4 DEF Parse
  <2>5. CASE BatchCommit(w)
    <3>1. PICK S \in SUBSET Id : Commit(S)
      BY <2>5 DEF BatchCommit
    <3>2. applied' \in SUBSET Id /\ fresh' \in SUBSET Trace
      BY <3>1, TouchedTraces DEF Commit
    <3>3. QED
      BY <2>5, <3>2 DEF BatchCommit
  <2>6. CASE BatchAbort(w)
    <3>1. PICK S \in SUBSET Id : Abort(S)
      BY <2>6 DEF BatchAbort
    <3>2. applied' \in SUBSET Id /\ fresh' \in SUBSET Trace
          /\ faults' \in Nat
      BY <3>1, TouchedTraces DEF Abort, Commit, Fault
    <3>3. QED
      BY <2>6, <3>2 DEF BatchAbort
  <2>7. CASE EachCommit(w)
    <3>1. PICK S \in SUBSET Id : Commit(S)
      BY <2>7 DEF EachCommit
    <3>2. applied' \in SUBSET Id /\ fresh' \in SUBSET Trace
      BY <3>1, TouchedTraces DEF Commit
    <3>3. QED
      BY <2>7, <3>2 DEF EachCommit
  <2>8. CASE EachAbort(w)
    <3>1. PICK S \in SUBSET Id : Abort(S)
      BY <2>8 DEF EachAbort
    <3>2. applied' \in SUBSET Id /\ fresh' \in SUBSET Trace
          /\ faults' \in Nat
      BY <3>1, TouchedTraces DEF Abort, Commit, Fault
    <3>3. QED
      BY <2>8, <3>2 DEF EachAbort
  <2>9. CASE Count(w)
    BY <2>9 DEF Count, Continue
  <2>10. CASE DeadLetter(w)
    BY <2>10 DEF DeadLetter, Fault
  <2>11. CASE Xack(w) \/ Hdel(w)
    BY <2>11 DEF Xack, Hdel, Continue
  <2>12. CASE Announce(w)
    <3>1. evals' \in SUBSET Trace /\ fresh' \in SUBSET Trace
          /\ faults' \in Nat
      BY <2>12, TouchedTraces DEF Announce, Fault
    <3>2. QED
      BY <2>12, <3>1 DEF Announce, Continue
  <2>13. QED
    BY <1>5, <2>1, <2>2, <2>3, <2>4, <2>5, <2>6, <2>7, <2>8, <2>9, <2>10,
       <2>11, <2>12
    DEF Step
<1>6. QED
  BY <1>1, <1>2, <1>3, <1>4, <1>5 DEF Next

\* Every variable keeps its type, in every instance of the worker group.
THEOREM TypeCorrect == Spec => []TypeOK
  BY TypeInit, TypeNext, PTL DEF Spec
-----------------------------------------------------------------------------
\* Where entries can be.  An entry is unread, or in the hands of workers and
\* on the pending list, never both.
LEMMA PlacesNext == TypeOK /\ Places /\ [Next]_vars => Places'
<1> SUFFICES ASSUME TypeOK, Places, [Next]_vars PROVE Places'
  OBVIOUS
<1> USE DEF Places, redis, db, locals, env
<1>1. CASE UNCHANGED vars
  BY <1>1 DEF vars
<1>2. ASSUME NEW k \in Kinds, Xadd(k) PROVE Places'
  <2>1. added + 1 \notin 1..added /\ 1..added' = (1..added) \cup {added + 1}
    BY <1>2, ConstantsAssumption DEF Xadd, TypeOK
  <2>2. stream' \subseteq 1..added' /\ unread' \subseteq stream'
        /\ unread' \subseteq unread \cup {added + 1}
    BY <1>2, <2>1 DEF Xadd
  <2>3. QED
    BY <1>2, <2>1, <2>2 DEF Xadd
<1>3. ASSUME NEW m \in Id, GoesIdle(m) PROVE Places'
  BY <1>3 DEF GoesIdle
<1>4. ASSUME NEW w \in Worker, Crash(w) \/ Sigterm(w) \/ Restart(w)
      PROVE Places'
  <2>1. CASE Crash(w)
    BY <2>1 DEF Crash, TypeOK
  <2>2. CASE Sigterm(w)
    BY <2>2 DEF Sigterm
  <2>3. CASE Restart(w)
    BY <2>3 DEF Restart
  <2>4. QED
    BY <1>4, <2>1, <2>2, <2>3
<1>5. ASSUME NEW w \in Worker, Step(w) PROVE Places'
  <2>1. CASE LoopTop(w)
    BY <2>1 DEF LoopTop
  <2>2. CASE Claim(w)
    <3> DEFINE seen == Lowest({m \in pel : m \notin stream \/ m \in idle},
                              BatchSize)
    <3>1. seen \subseteq pel
      BY LowestSubset
    <3> HIDE DEF seen
    <3>2. pel' \subseteq pel
          /\ hand' = [hand EXCEPT ![w] = seen \cap stream]
      BY <2>2 DEF Claim, Handle, seen
    <3>3. QED
      BY <2>2, <3>1, <3>2 DEF Claim, TypeOK
  <2>3. CASE Read(w)
    <3> DEFINE new == Lowest(unread, BatchSize)
    <3>1. new \subseteq unread
      BY LowestSubset
    <3> HIDE DEF new
    <3>2. pel' = pel \cup new /\ unread' = unread \ new
          /\ hand' = [hand EXCEPT ![w] = new]
      BY <2>3 DEF Read, Handle, new
    <3>3. QED
      BY <2>3, <3>1, <3>2 DEF Read, TypeOK
  <2>4. CASE Parse(w)
    BY <2>4 DEF Parse, TypeOK
  <2>5. CASE BatchCommit(w)
    BY <2>5 DEF BatchCommit, Commit, TypeOK
  <2>6. CASE BatchAbort(w)
    BY <2>6 DEF BatchAbort, Abort, Commit, TypeOK
  <2>7. CASE EachCommit(w)
    BY <2>7 DEF EachCommit, Commit, TypeOK
  <2>8. CASE EachAbort(w)
    <3>1. PICK m \in hand[w] :
            /\ Abort({m})
            /\ cur' = [cur EXCEPT ![w] = {m}]
            /\ hand' = [hand EXCEPT ![w] = @ \ {m}]
      BY <2>8 DEF EachAbort
    <3>2. hand[w] \cup cur[w] \subseteq (1..added) \ unread
      OBVIOUS
    <3>3. applied' \subseteq 1..added
      BY <3>1, <3>2 DEF Abort, Commit
    <3>4. \A v \in Worker : hand'[v] \cup cur'[v] \subseteq (1..added) \ unread
      BY <3>1, <3>2 DEF TypeOK
    <3>5. QED
      BY <2>8, <3>3, <3>4 DEF EachAbort
  <2>9. CASE Count(w)
    BY <2>9 DEF Count, Continue, TypeOK
  <2>10. CASE DeadLetter(w)
    <3>1. dlq' \cup written_off' \subseteq dlq \cup written_off \cup cur[w]
      BY <2>10 DEF DeadLetter
    <3>2. cur[w] \subseteq 1..added
      OBVIOUS
    <3>3. /\ added' = added /\ hand' = hand /\ cur' = cur /\ stream' = stream
          /\ unread' = unread /\ pel' = pel /\ applied' = applied
      BY <2>10 DEF DeadLetter
    <3>4. QED
      BY <3>1, <3>2, <3>3
  <2>11. CASE Xack(w)
    BY <2>11 DEF Xack, TypeOK
  <2>12. CASE Hdel(w)
    BY <2>12 DEF Hdel, Continue, TypeOK
  <2>13. CASE Announce(w)
    BY <2>13 DEF Announce, Continue, TypeOK
  <2>14. QED
    BY <1>5, <2>1, <2>2, <2>3, <2>4, <2>5, <2>6, <2>7, <2>8, <2>9, <2>10,
       <2>11, <2>12, <2>13
    DEF Step
<1>6. QED
  BY <1>1, <1>2, <1>3, <1>4, <1>5 DEF Next
-----------------------------------------------------------------------------
\* Entries keep their kind, and what is committed, parked or written off
\* stays so: what a worker knows remains true while others take steps.
LEMMA Monotone ==
  ASSUME TypeOK, Places, [Next]_vars
  PROVE  /\ applied \subseteq applied' /\ dlq \subseteq dlq'
         /\ written_off \subseteq written_off'
         /\ \A m \in 1..added : kind'[m] = kind[m]
         /\ \A m \in Id : fails'[m] >= fails[m]
<1> USE DEF redis, db, locals, env
<1>1. CASE UNCHANGED vars
  BY <1>1 DEF vars, TypeOK
<1>2. ASSUME NEW k \in Kinds, Xadd(k)
      PROVE  /\ UNCHANGED <<applied, dlq, written_off, fails>>
             /\ \A m \in 1..added : kind'[m] = kind[m]
  BY <1>2, ConstantsAssumption DEF Xadd, TypeOK, Id
<1>3. ASSUME NEW m \in Id, GoesIdle(m)
      PROVE  UNCHANGED <<applied, dlq, written_off, fails, kind>>
  BY <1>3 DEF GoesIdle
<1>4. ASSUME NEW w \in Worker, Crash(w) \/ Sigterm(w) \/ Restart(w)
      PROVE  UNCHANGED <<applied, dlq, written_off, fails, kind>>
  BY <1>4 DEF Crash, Sigterm, Restart
<1>5. ASSUME NEW w \in Worker, Step(w)
      PROVE  /\ applied \subseteq applied' /\ dlq \subseteq dlq'
             /\ written_off \subseteq written_off' /\ kind' = kind
             /\ \A m \in Id : fails'[m] >= fails[m]
  <2>1. kind' = kind
    BY <1>5 DEF Step, LoopTop, Claim, Read, Parse, BatchCommit, BatchAbort,
       EachCommit, EachAbort, Count, DeadLetter, Xack, Hdel, Announce
  <2>2. \A m \in Id : fails'[m] >= fails[m]
    <3>1. CASE EachAbort(w)
      BY <3>1 DEF EachAbort, TypeOK
    <3>2. CASE ~EachAbort(w)
      <4>1. fails' = fails
        BY <1>5, <3>2 DEF Step, LoopTop, Claim, Read, Parse, BatchCommit,
           BatchAbort, EachCommit, Count, DeadLetter, Xack, Hdel, Announce
      <4>2. QED
        BY <4>1 DEF TypeOK
    <3>3. QED
      BY <3>1, <3>2
  <2>3. dlq \subseteq dlq' /\ written_off \subseteq written_off'
    BY <1>5 DEF Step, LoopTop, Claim, Read, Parse, BatchCommit, BatchAbort,
       EachCommit, EachAbort, Count, DeadLetter, Xack, Hdel, Announce
  <2>4. applied \subseteq applied'
    BY <1>5 DEF Step, LoopTop, Claim, Read, Parse, BatchCommit, BatchAbort,
       EachCommit, EachAbort, Count, DeadLetter, Xack, Hdel, Announce,
       Commit, Abort
  <2>5. QED
    BY <2>1, <2>2, <2>3, <2>4
<1>6. QED
  BY <1>1, <1>2, <1>3, <1>4, <1>5 DEF Next, TypeOK

\* No acknowledgement comes before its outcome.
LEMMA NoSilentLossNext ==
  TypeOK /\ Places /\ Outcomes /\ NoSilentLoss /\ [Next]_vars => NoSilentLoss'
<1> SUFFICES ASSUME TypeOK, Places, Outcomes, NoSilentLoss, [Next]_vars
             PROVE  NoSilentLoss'
  OBVIOUS
<1> DEFINE Closed == applied \cup dlq \cup written_off \cup Trimmed
<1> USE DEF redis, db, locals, env
<1>1. CASE \E k \in Kinds : Xadd(k)
  <2>1. added + 1 \notin 1..added /\ 1..added' = (1..added) \cup {added + 1}
    BY <1>1, ConstantsAssumption DEF Xadd, TypeOK
  <2>2. /\ stream' \subseteq stream \cup {added + 1}
        /\ unread' = (unread \cup {added + 1}) \cap stream'
        /\ UNCHANGED <<pel, applied, dlq, written_off>>
    BY <1>1 DEF Xadd
  <2>3. QED
    BY <2>1, <2>2 DEF NoSilentLoss, Trimmed
<1>2. CASE UNCHANGED <<stream, added>>
  <2>1. Closed \subseteq Closed'
    BY <1>2, Monotone DEF Trimmed
  <2>2. unread \cup pel \subseteq unread' \cup pel' \cup Closed
    <3>1. CASE \E w \in Worker : Claim(w)
      BY <3>1, LowestSubset DEF Claim, Trimmed, Places
    <3>2. CASE \E w \in Worker : Read(w)
      BY <3>2 DEF Read
    <3>3. CASE \E w \in Worker : Xack(w)
      BY <3>3 DEF Xack, Outcomes, Knows
    <3>4. CASE UNCHANGED <<unread, pel>>
      BY <3>4
    <3>5. CASE UNCHANGED vars
      BY <3>5 DEF vars
    <3>6. ASSUME NEW w \in Worker, Step(w), ~Claim(w), ~Read(w), ~Xack(w)
          PROVE  UNCHANGED <<unread, pel>>
      BY <3>6 DEF Step, LoopTop, Parse, BatchCommit, BatchAbort,
         EachCommit, EachAbort, Count, DeadLetter, Hdel, Announce
    <3>7. ASSUME NEW w \in Worker, Crash(w) \/ Sigterm(w) \/ Restart(w)
          PROVE  UNCHANGED <<unread, pel>>
      BY <3>7 DEF Crash, Sigterm, Restart
    <3>8. ASSUME NEW m \in Id, GoesIdle(m) PROVE UNCHANGED <<unread, pel>>
      BY <3>8 DEF GoesIdle
    <3>9. ASSUME NEW k \in Kinds, Xadd(k) PROVE FALSE
      BY <1>2, <3>9 DEF Xadd, TypeOK
    <3>10. QED
      BY <3>1, <3>2, <3>3, <3>4, <3>5, <3>6, <3>7, <3>8, <3>9 DEF Next
  <2>3. QED
    BY <1>2, <2>1, <2>2 DEF NoSilentLoss
<1>3. ASSUME ~(\E k \in Kinds : Xadd(k)) PROVE UNCHANGED <<stream, added>>
  <2>1. ASSUME NEW w \in Worker, Step(w) PROVE UNCHANGED <<stream, added>>
    BY <2>1 DEF Step, LoopTop, Claim, Read, Parse, BatchCommit, BatchAbort,
       EachCommit, EachAbort, Count, DeadLetter, Xack, Hdel, Announce
  <2>2. ASSUME NEW w \in Worker, Crash(w) \/ Sigterm(w) \/ Restart(w)
        PROVE  UNCHANGED <<stream, added>>
    BY <2>2 DEF Crash, Sigterm, Restart
  <2>3. ASSUME NEW m \in Id, GoesIdle(m) PROVE UNCHANGED <<stream, added>>
    BY <2>3 DEF GoesIdle
  <2>4. QED
    BY <1>3, <2>1, <2>2, <2>3 DEF Next, vars
<1>4. QED
  BY <1>1, <1>2, <1>3

-----------------------------------------------------------------------------
\* While other workers take steps, what this one knows stays true.
LEMMA KnowsStable ==
  ASSUME TypeOK, Places, [Next]_vars, NEW v \in Worker, Knows(v),
         pc'[v] = pc[v], cur'[v] = cur[v]
  PROVE  Knows(v)'
<1>1. cur[v] \subseteq 1..added /\ cur[v] \subseteq Id
  BY DEF Places, TypeOK
<1>2. ASSUME NEW m \in cur[v], kind[m] # "garbled" => fails[m] >= MaxRetries
      PROVE  kind'[m] # "garbled" => fails'[m] >= MaxRetries
  <2>1. kind'[m] = kind[m] /\ fails'[m] >= fails[m]
    BY <1>1, Monotone
  <2>2. fails[m] \in Nat /\ fails'[m] \in Nat /\ MaxRetries \in Nat
    BY <1>1, TypeNext, ConstantsAssumption DEF TypeOK
  <2>3. QED
    BY <1>2, <2>1, <2>2
<1>3. applied \subseteq applied' /\ dlq \subseteq dlq'
      /\ written_off \subseteq written_off'
  BY Monotone
<1>4. QED
  BY <1>2, <1>3 DEF Knows

\* A worker that is about to give an entry up has seen it fail MaxRetries
\* times, because RETRY_KEY never counts more than the failures there were.
LEMMA OutcomesNext ==
  TypeOK /\ Places /\ Outcomes /\ Attempts /\ [Next]_vars => Outcomes'
<1> SUFFICES ASSUME TypeOK, Places, Outcomes, Attempts, [Next]_vars,
                    NEW v \in Worker
             PROVE  Knows(v)'
  BY DEF Outcomes
<1>1. Knows(v)
  BY DEF Outcomes
<1> USE DEF redis, db, locals, env, Goto
<1>2. CASE pc'[v] = pc[v] /\ cur'[v] = cur[v]
  BY <1>1, <1>2, KnowsStable
<1>3. CASE UNCHANGED <<pc, cur>>
  BY <1>2, <1>3
<1>4. ASSUME NEW w \in Worker, Crash(w) \/ Restart(w) \/ Sigterm(w)
      PROVE  Knows(v)'
  <2>1. pc' = [pc EXCEPT ![w] = pc'[w]] /\ cur' = [cur EXCEPT ![w] = cur'[w]]
    BY <1>4 DEF Crash, Restart, Sigterm, TypeOK
  <2>2. CASE v # w
    BY <1>2, <2>1, <2>2 DEF TypeOK
  <2>3. CASE v = w /\ ~Sigterm(w)
    <3>1. pc'[v] \in {"down", "loop"}
      BY <1>4, <2>3 DEF Crash, Restart, TypeOK
    <3>2. QED
      BY <3>1 DEF Knows
  <2>4. CASE Sigterm(w)
    BY <1>3, <2>4 DEF Sigterm
  <2>5. QED
    BY <2>2, <2>3, <2>4
<1>5. ASSUME NEW w \in Worker, Step(w) PROVE Knows(v)'
  <2>1. /\ pc' = [pc EXCEPT ![w] = pc'[w]]
        /\ cur' = [cur EXCEPT ![w] = cur'[w]]
    <3>1. pc' = [pc EXCEPT ![w] = pc'[w]]
      BY <1>5 DEF Step, LoopTop, Claim, Read, Handle, Parse, BatchCommit,
         BatchAbort, EachCommit, EachAbort, Count, DeadLetter, Xack, Hdel,
         Announce, Continue, TypeOK
    <3>2. cur' = [cur EXCEPT ![w] = cur'[w]]
      BY <1>5 DEF Step, LoopTop, Claim, Read, Parse, BatchCommit,
         BatchAbort, EachCommit, EachAbort, Count, DeadLetter, Xack, Hdel,
         Announce, Continue, TypeOK
    <3>3. QED
      BY <3>1, <3>2
  <2>2. CASE v # w
    BY <1>2, <2>1, <2>2 DEF TypeOK
  <2>3. ASSUME v = w, pc'[w] \in {"stopped", "claim", "read", "loop", "parse",
                                 "batch", "each"}
        PROVE  Knows(v)'
    BY <2>3 DEF Knows
  <2>4. after[w] \in {"read", "loop"} /\ pc \in [Worker -> PC]
        /\ cur \in [Worker -> SUBSET Id]
    BY DEF TypeOK
  <2>5. CASE v = w /\ (LoopTop(w) \/ Claim(w) \/ Read(w) \/ BatchAbort(w))
    BY <2>3, <2>4, <2>5 DEF LoopTop, Claim, Read, Handle, BatchAbort
  <2>6. CASE v = w /\ Parse(w)
    <3>1. CASE hand[w] \cap Garbled = {} /\ pc'[w] # "dlq"
      BY <2>3, <2>4, <2>6, <3>1 DEF Parse
    <3>2. CASE \E m \in hand[w] :
                 /\ m \in Garbled /\ cur' = [cur EXCEPT ![w] = {m}]
                 /\ pc' = [pc EXCEPT ![w] = "dlq"]
      BY <2>4, <2>6, <3>2 DEF Parse, Knows, Garbled
    <3>3. QED
      BY <2>4, <2>6, <3>1, <3>2 DEF Parse, IsFirst
  <2>7. CASE v = w /\ BatchCommit(w)
    BY <2>4, <2>7 DEF BatchCommit, Commit, Knows
  <2>8. CASE v = w /\ EachCommit(w)
    BY <2>4, <2>8 DEF EachCommit, Commit, Knows
  <2>9. CASE v = w /\ EachAbort(w)
    <3>1. \E m \in Id : cur'[w] = {m}
      BY <2>4, <2>9 DEF EachAbort, TypeOK
    <3>2. pc'[w] = "count"
      BY <2>4, <2>9 DEF EachAbort
    <3>3. QED
      BY <2>9, <3>1, <3>2 DEF Knows
  <2>10. CASE v = w /\ Count(w)
    <3>1. PICK m \in Id : cur[w] = {m}
      BY <1>1, <2>10 DEF Count, Knows
    <3>2. retry' = [retry EXCEPT ![m] = @ + 1]
      BY <2>10, <3>1 DEF Count
    <3>3. CASE retry'[m] >= MaxRetries
      <4>1. cur' = cur /\ fails' = fails /\ kind' = kind /\ pc'[w] = "dlq"
        BY <2>4, <2>10, <3>1, <3>3 DEF Count
      <4>2. IsFiniteSet(Counting(m)) /\ w \in Counting(m)
        BY <2>10, <3>1, FS_Subset, ConstantsAssumption DEF Count, Counting
      <4>3. Cardinality(Counting(m)) \in Nat /\ Cardinality(Counting(m)) # 0
        BY <4>2, FS_CardinalityType, FS_EmptySet
      <4>4. fails[m] >= MaxRetries
        <5>1. retry[m] \in Nat /\ fails[m] \in Nat /\ MaxRetries \in Nat
              /\ retry'[m] = retry[m] + 1
          BY <3>2, ConstantsAssumption DEF TypeOK
        <5>2. retry[m] + Cardinality(Counting(m)) <= fails[m]
          BY DEF Attempts
        <5>3. QED
          BY <3>3, <4>3, <5>1, <5>2
      <4>5. QED
        BY <2>10, <3>1, <4>1, <4>4 DEF Knows
    <3>4. CASE ~(retry'[m] >= MaxRetries)
      <4>1. pc'[w] \in {"read", "loop", "each"}
        BY <2>4, <2>10, <3>1, <3>4 DEF Count, Continue
      <4>2. QED
        BY <2>3, <2>10, <4>1
    <3>5. QED
      BY <3>3, <3>4
  <2>11. CASE v = w /\ DeadLetter(w)
    <3>1. pc'[w] = "dlq_xack" /\ cur'[w] \subseteq dlq' \cup written_off'
      BY <2>4, <2>11 DEF DeadLetter
    <3>2. QED
      BY <2>11, <3>1 DEF Knows
  <2>12. CASE v = w /\ Xack(w)
    <3>1. \/ pc[w] = "xack" /\ pc'[w] = "hdel"
          \/ pc[w] = "dlq_xack" /\ pc'[w] = "dlq_hdel"
      BY <2>4, <2>12 DEF Xack
    <3>2. UNCHANGED <<cur, applied, dlq, written_off>>
      BY <2>12 DEF Xack
    <3>3. QED
      BY <1>1, <2>12, <3>1, <3>2 DEF Knows
  <2>13. CASE v = w /\ Hdel(w)
    <3>1. CASE pc[w] = "hdel"
      <4>1. pc'[w] = "announce" /\ UNCHANGED <<cur, applied>>
        BY <2>4, <2>13, <3>1 DEF Hdel
      <4>2. QED
        BY <1>1, <2>13, <3>1, <4>1 DEF Knows
    <3>2. CASE pc[w] # "hdel"
      <4>1. pc'[w] \in {"read", "loop", "each", "parse"}
        BY <2>4, <2>13, <3>2 DEF Hdel, Continue
      <4>2. QED
        BY <2>3, <2>13, <4>1
    <3>3. QED
      BY <3>1, <3>2
  <2>14. CASE v = w /\ Announce(w)
    <3>1. pc'[w] \in {"read", "loop", "each"}
      BY <2>4, <2>14 DEF Announce, Continue
    <3>2. QED
      BY <2>3, <2>14, <3>1
  <2>15. QED
    BY <1>5, <2>2, <2>5, <2>6, <2>7, <2>8, <2>9, <2>10, <2>11, <2>12, <2>13,
       <2>14 DEF Step
<1>6. QED
  BY <1>3, <1>4, <1>5 DEF Next, Xadd, GoesIdle, vars

-----------------------------------------------------------------------------
\* Counts and failures: whoever is about to count a failure has caused it.
LEMMA CountingFinite ==
  ASSUME NEW m PROVE IsFiniteSet(Counting(m)) /\ Cardinality(Counting(m)) \in Nat
  BY FS_Subset, FS_CardinalityType, ConstantsAssumption DEF Counting

\* A step after which nobody new is counting keeps the balance.
LEMMA AttemptsWeaken ==
  ASSUME TypeOK, TypeOK', Attempts, NEW m \in Id,
         retry'[m] <= retry[m], fails'[m] >= fails[m],
         Counting(m)' \subseteq Counting(m)
  PROVE  retry'[m] + Cardinality(Counting(m)') <= fails'[m]
<1>1. Cardinality(Counting(m)') <= Cardinality(Counting(m))
      /\ Cardinality(Counting(m)') \in Nat
  BY CountingFinite, FS_Subset, FS_CardinalityType
<1>2. retry[m] + Cardinality(Counting(m)) <= fails[m]
  BY DEF Attempts
<1>3. retry[m] \in Nat /\ retry'[m] \in Nat /\ fails[m] \in Nat
      /\ fails'[m] \in Nat /\ Cardinality(Counting(m)) \in Nat
  BY CountingFinite DEF TypeOK
<1>4. QED
  BY <1>1, <1>2, <1>3

LEMMA AttemptsNext ==
  TypeOK /\ Places /\ Outcomes /\ Attempts /\ [Next]_vars => Attempts'
<1> SUFFICES ASSUME TypeOK, Places, Outcomes, Attempts, [Next]_vars,
                    NEW m \in Id
             PROVE  retry'[m] + Cardinality(Counting(m)') <= fails'[m]
  BY DEF Attempts
<1>0. TypeOK' /\ fails'[m] >= fails[m]
  BY TypeNext, Monotone
<1> USE DEF redis, db, locals, env, Goto
<1>1. CASE Counting(m)' \subseteq Counting(m) /\ retry'[m] <= retry[m]
  BY <1>0, <1>1, AttemptsWeaken
<1>2. CASE UNCHANGED <<pc, cur, retry>>
  <2>1. Counting(m)' \subseteq Counting(m) /\ retry'[m] <= retry[m]
    BY <1>2 DEF Counting, TypeOK
  <2>2. QED
    BY <1>1, <2>1
<1>3. ASSUME NEW w \in Worker, Crash(w) \/ Sigterm(w) \/ Restart(w)
      PROVE  Counting(m)' \subseteq Counting(m) /\ retry'[m] <= retry[m]
  BY <1>3 DEF Crash, Sigterm, Restart, Counting, TypeOK
<1>4. ASSUME NEW w \in Worker, EachAbort(w)
      PROVE  retry'[m] + Cardinality(Counting(m)') <= fails'[m]
  <2>1. PICK k \in hand[w] : fails' = [fails EXCEPT ![k] = @ + 1]
                           /\ cur' = [cur EXCEPT ![w] = {k}]
    BY <1>4 DEF EachAbort
  <2>2. retry' = retry /\ pc' = [pc EXCEPT ![w] = "count"] /\ pc[w] = "each"
    BY <1>4 DEF EachAbort
  <2>3. CASE m # k
    <3>1. Counting(m)' \subseteq Counting(m)
      BY <2>1, <2>2, <2>3 DEF Counting, TypeOK
    <3>2. QED
      BY <1>1, <2>2, <3>1 DEF TypeOK
  <2>4. CASE m = k
    <3>1. Counting(m)' = Counting(m) \cup {w} /\ w \notin Counting(m)
      BY <2>1, <2>2, <2>4 DEF Counting, TypeOK
    <3>2. Cardinality(Counting(m)') = Cardinality(Counting(m)) + 1
      BY <3>1, CountingFinite, FS_AddElement
    <3>3. fails'[m] = fails[m] + 1
      BY <2>1, <2>4 DEF TypeOK
    <3>4. retry[m] \in Nat /\ fails[m] \in Nat
          /\ Cardinality(Counting(m)) \in Nat
      BY CountingFinite DEF TypeOK
    <3>5. QED
      BY <2>2, <3>2, <3>3, <3>4 DEF Attempts
  <2>5. QED
    BY <2>3, <2>4
<1>5. ASSUME NEW w \in Worker, Count(w)
      PROVE  retry'[m] + Cardinality(Counting(m)') <= fails'[m]
  <2>1. PICK k \in Id : cur[w] = {k}
    BY <1>5 DEF Outcomes, Knows, Count
  <2>2. retry' = [retry EXCEPT ![k] = @ + 1] /\ fails' = fails
        /\ pc[w] = "count"
    BY <1>5, <2>1 DEF Count
  <2>3. Counting(m)' \subseteq Counting(m) \ {w}
    <3>1. pc'[w] # "count"
      BY <1>5, <2>1 DEF Count, Continue, TypeOK
    <3>2. \A v \in Worker \ {w} : pc'[v] = pc[v] /\ cur'[v] = cur[v]
      BY <1>5 DEF Count, Continue, TypeOK
    <3>3. QED
      BY <3>1, <3>2 DEF Counting
  <2>4. CASE m # k
    BY <1>1, <2>2, <2>3, <2>4 DEF TypeOK
  <2>5. CASE m = k
    <3>1. w \in Counting(m)
      BY <2>1, <2>2, <2>5 DEF Counting
    <3>2. Cardinality(Counting(m) \ {w}) = Cardinality(Counting(m)) - 1
          /\ IsFiniteSet(Counting(m) \ {w})
      BY <3>1, CountingFinite, FS_RemoveElement
    <3>3. Cardinality(Counting(m)') <= Cardinality(Counting(m) \ {w})
          /\ Cardinality(Counting(m)') \in Nat
      BY <2>3, <3>2, FS_Subset, FS_CardinalityType
    <3>4. retry[m] \in Nat /\ fails[m] \in Nat
          /\ Cardinality(Counting(m)) \in Nat /\ retry'[m] = retry[m] + 1
      BY CountingFinite, <2>2, <2>5 DEF TypeOK
    <3>5. QED
      BY <2>2, <3>2, <3>3, <3>4 DEF Attempts
  <2>6. QED
    BY <2>4, <2>5
<1>6. ASSUME NEW w \in Worker, Hdel(w)
      PROVE  Counting(m)' \subseteq Counting(m) /\ retry'[m] <= retry[m]
  <2>1. retry'[m] <= retry[m]
    BY <1>6 DEF Hdel, TypeOK
  <2>2. pc'[w] # "count"
    BY <1>6 DEF Hdel, Continue, TypeOK
  <2>3. \A v \in Worker \ {w} : pc'[v] = pc[v] /\ cur'[v] = cur[v]
    BY <1>6 DEF Hdel, Continue, TypeOK
  <2>4. QED
    BY <2>1, <2>2, <2>3 DEF Counting
<1>7. ASSUME NEW w \in Worker, Step(w), ~EachAbort(w), ~Count(w), ~Hdel(w)
      PROVE  Counting(m)' \subseteq Counting(m) /\ retry'[m] <= retry[m]
  <2>1. retry' = retry
    BY <1>7 DEF Step, LoopTop, Claim, Read, Parse, BatchCommit, BatchAbort,
       EachCommit, DeadLetter, Xack, Announce
  <2>2. pc'[w] # "count"
    BY <1>7 DEF Step, LoopTop, Claim, Read, Handle, Parse, BatchCommit,
       BatchAbort, EachCommit, DeadLetter, Xack, Announce, Continue, TypeOK
  <2>3. \A v \in Worker \ {w} : pc'[v] = pc[v]
    BY <1>7 DEF Step, LoopTop, Claim, Read, Handle, Parse, BatchCommit,
       BatchAbort, EachCommit, DeadLetter, Xack, Announce, Continue, TypeOK
  <2>4. \A v \in Worker \ {w} : cur'[v] = cur[v]
    BY <1>7 DEF Step, LoopTop, Claim, Read, Parse, BatchCommit, BatchAbort,
       EachCommit, DeadLetter, Xack, Announce, Continue, TypeOK
  <2>5. QED
    BY <2>1, <2>2, <2>3, <2>4 DEF Counting, TypeOK
<1>8. QED
  BY <1>1, <1>2, <1>3, <1>4, <1>5, <1>6, <1>7
  DEF Next, Xadd, GoesIdle, vars

LEMMA GivenUpNext ==
  TypeOK /\ Places /\ Outcomes /\ GivenUpOnlyAfterRetries /\ [Next]_vars
    => GivenUpOnlyAfterRetries'
<1> SUFFICES ASSUME TypeOK, Places, Outcomes, GivenUpOnlyAfterRetries,
                    [Next]_vars, NEW m \in dlq' \cup written_off',
                    kind'[m] # "garbled"
             PROVE  fails'[m] >= MaxRetries
  BY DEF GivenUpOnlyAfterRetries
<1>1. ASSUME m \in 1..added, kind[m] # "garbled" => fails[m] >= MaxRetries
      PROVE  fails'[m] >= MaxRetries
  <2>1. m \in Id
    BY <1>1, ConstantsAssumption DEF TypeOK, Id
  <2>2. kind'[m] = kind[m] /\ fails'[m] >= fails[m]
    BY <1>1, <2>1, Monotone
  <2>3. fails[m] \in Nat /\ fails'[m] \in Nat /\ MaxRetries \in Nat
    BY <2>1, TypeNext, ConstantsAssumption DEF TypeOK
  <2>4. QED
    BY <1>1, <2>2, <2>3
<1>2. CASE m \in dlq \cup written_off
  BY <1>1, <1>2 DEF GivenUpOnlyAfterRetries, Places
<1>3. CASE m \notin dlq \cup written_off
  <2>1. PICK w \in Worker : DeadLetter(w)
    BY <1>3 DEF Next, vars, Step, Xadd, GoesIdle, Crash, Sigterm, Restart,
       LoopTop, Claim, Read, Parse, BatchCommit, BatchAbort, EachCommit,
       EachAbort, Count, Xack, Hdel, Announce, redis, db, locals, env
  <2>2. m \in cur[w] /\ pc[w] = "dlq"
    BY <1>3, <2>1 DEF DeadLetter
  <2>3. m \in 1..added
    BY <2>2 DEF Places
  <2>4. QED
    BY <1>1, <2>2, <2>3 DEF Outcomes, Knows
<1>4. QED
  BY <1>2, <1>3

LEMMA AnnouncedNext ==
  TypeOK /\ Places /\ Outcomes /\ AnnouncedAfterCommit /\ [Next]_vars
    => AnnouncedAfterCommit'
<1> SUFFICES ASSUME TypeOK, Places, Outcomes, AnnouncedAfterCommit, [Next]_vars
             PROVE  AnnouncedAfterCommit'
  OBVIOUS
<1>1. Touched(applied) \subseteq Touched(applied)'
  <2>1. applied \subseteq applied' /\ \A m \in applied : kind'[m] = kind[m]
    BY Monotone DEF Places
  <2>2. QED
    BY <2>1 DEF Touched
<1>2. CASE evals' = evals
  BY <1>1, <1>2 DEF AnnouncedAfterCommit
<1>3. CASE \E w \in Worker : Announce(w)
  <2>1. PICK w \in Worker : Announce(w)
    BY <1>3
  <2>2. evals' \subseteq evals \cup Touched(cur[w])
    BY <2>1 DEF Announce
  <2>3. cur[w] \subseteq applied
    BY <2>1 DEF Announce, Outcomes, Knows
  <2>4. Touched(cur[w]) \subseteq Touched(applied)
    BY <2>3 DEF Touched
  <2>5. QED
    BY <1>1, <2>2, <2>4 DEF AnnouncedAfterCommit
<1>4. QED
  BY <1>2, <1>3 DEF Next, vars, Step, Xadd, GoesIdle, Crash, Sigterm, Restart,
     LoopTop, Claim, Read, Parse, BatchCommit, BatchAbort, EachCommit,
     EachAbort, Count, DeadLetter, Xack, Hdel, redis, db, locals, env
-----------------------------------------------------------------------------
LEMMA IInvInit == Init => IInv
<1> SUFFICES ASSUME Init PROVE IInv
  OBVIOUS
<1>1. TypeOK
  BY TypeInit
<1>2. Places /\ Outcomes /\ GivenUpOnlyAfterRetries /\ AnnouncedAfterCommit
  BY DEF Init, Places, Outcomes, Knows, GivenUpOnlyAfterRetries,
     AnnouncedAfterCommit
<1>3. NoSilentLoss
  BY DEF Init, NoSilentLoss
<1>4. Attempts
  <2> SUFFICES ASSUME NEW m \in Id
               PROVE  retry[m] + Cardinality(Counting(m)) <= fails[m]
    BY DEF Attempts
  <2>1. Counting(m) = {}
    BY DEF Init, Counting
  <2>2. Cardinality(Counting(m)) = 0
    BY <2>1, FS_EmptySet
  <2>3. QED
    BY <2>2 DEF Init
<1>5. QED
  BY <1>1, <1>2, <1>3, <1>4 DEF IInv

LEMMA IInvNext == IInv /\ [Next]_vars => IInv'
  BY TypeNext, PlacesNext, OutcomesNext, AttemptsNext, NoSilentLossNext,
     GivenUpNext, AnnouncedNext DEF IInv

\* The inductive invariant of the worker group.
THEOREM Invariant == Spec => []IInv
  BY IInvInit, IInvNext, PTL DEF Spec

\* No kill, abort or takeover makes a worker acknowledge an entry whose
\* outcome is not durable.
THEOREM NothingLostSilently == Spec => []NoSilentLoss
<1>1. IInv => NoSilentLoss
  BY DEF IInv
<1>2. QED
  BY <1>1, Invariant, PTL

\* An entry that parses is given up only after MaxRetries failures of its own.
THEOREM GivenUpLate == Spec => []GivenUpOnlyAfterRetries
<1>1. IInv => GivenUpOnlyAfterRetries
  BY DEF IInv
<1>2. QED
  BY <1>1, Invariant, PTL

\* Every trace announced for evaluation has committed data.
THEOREM AnnouncementsFollowCommits == Spec => []AnnouncedAfterCommit
<1>1. IInv => AnnouncedAfterCommit
  BY DEF IInv
<1>2. QED
  BY <1>1, Invariant, PTL
-----------------------------------------------------------------------------
(* Bad events and the others: an entry that can be applied fails alone only *)
(* when Postgres does.                                                      *)

Blamed ==
  /\ \A m \in Id : m > added => kind[m] = "span"
  /\ \A m \in Id : kind[m] \in {"span", "score"} => fails[m] <= faults

LEMMA BlamedNext ==
  TypeOK /\ Places /\ Blamed /\ [Next]_vars => Blamed'
<1> SUFFICES ASSUME TypeOK, Places, Blamed, [Next]_vars PROVE Blamed'
  OBVIOUS
<1> USE DEF redis, db, locals, env
<1>1. faults \in Nat /\ added \in Nat /\ fails \in [Id -> Nat] /\ kind \in [Id -> Kind]
  BY ConstantsAssumption DEF TypeOK
<1>2. CASE UNCHANGED <<added, kind, fails>> /\ faults' \in {faults, faults + 1}
  BY <1>1, <1>2 DEF Blamed
<1>3. ASSUME NEW k \in Kinds, Xadd(k) PROVE Blamed'
  <2>1. /\ added + 1 \in Id /\ added' = added + 1 /\ kind' = [kind EXCEPT ![added + 1] = k]
        /\ UNCHANGED <<fails, faults>>
    BY <1>1, <1>3, ConstantsAssumption DEF Xadd, Id
  <2>2. \A m \in Id : m \in Nat
    BY DEF Id
  <2>3. fails[added + 1] <= faults
    BY <1>1, <2>1, <2>2 DEF Blamed
  <2>4. QED
    BY <1>1, <2>1, <2>2, <2>3 DEF Blamed
<1>4. ASSUME NEW w \in Worker, EachAbort(w) PROVE Blamed'
  <2>1. PICK m \in hand[w] : Abort({m}) /\ fails' = [fails EXCEPT ![m] = @ + 1]
    BY <1>4 DEF EachAbort
  <2>2. m \in Id /\ UNCHANGED <<added, kind>>
    BY <1>4 DEF EachAbort, TypeOK
  <2>3. faults' \in {faults, faults + 1}
    BY <2>1 DEF Abort, Fault
  <2>4. kind[m] \in {"span", "score"} => faults' = faults + 1
    BY <2>1 DEF Abort, Fault, Fails
  <2>5. QED
    BY <1>1, <2>1, <2>2, <2>3, <2>4 DEF Blamed
<1>5. CASE \E w \in Worker : BatchAbort(w)
  BY <1>2, <1>5 DEF BatchAbort, Abort, Fault
<1>6. CASE \E w \in Worker : DeadLetter(w)
  BY <1>2, <1>6 DEF DeadLetter, Fault
<1>7. CASE \E w \in Worker : Announce(w)
  BY <1>2, <1>7 DEF Announce, Fault
<1>8. QED
  BY <1>2, <1>3, <1>4, <1>5, <1>6, <1>7 DEF Next, vars, Step, GoesIdle, Crash,
     Sigterm, Restart, LoopTop, Claim, Read, Parse, BatchCommit, EachCommit,
     Count, Xack, Hdel

\* Bad events cost no other one: an entry that can be applied is given up only
\* if Postgres failed MaxRetries times (worker.py 452-474).
THEOREM BadEventsCostNoOther == Spec => []BadEventsAreIsolated
<1>1. Init => Blamed
  BY DEF Init, Blamed
<1>2. IInv /\ Blamed /\ [Next]_vars => Blamed'
  BY BlamedNext DEF IInv
<1>3. IInv /\ Blamed => BadEventsAreIsolated
  <2> SUFFICES ASSUME IInv, Blamed, NEW m \in dlq \cup written_off,
                      kind[m] \in {"span", "score"}
               PROVE  faults >= MaxRetries
    BY DEF BadEventsAreIsolated
  <2>1. /\ m \in Id /\ fails[m] \in Nat /\ faults \in Nat /\ MaxRetries \in Nat
    BY ConstantsAssumption DEF IInv, TypeOK
  <2>2. fails[m] >= MaxRetries /\ fails[m] <= faults
    BY <2>1 DEF IInv, GivenUpOnlyAfterRetries, Blamed
  <2>3. QED
    BY <2>1, <2>2
<1>4. QED
  BY <1>1, <1>2, <1>3, Invariant, PTL DEF Spec

-----------------------------------------------------------------------------
(* What a worker has in hand: nothing between two batches, and nothing      *)
(* pending once it is acknowledged.                                         *)

Hands(w) ==
  /\ pc[w] \in {"loop", "claim", "read", "down", "stopped"} =>
       hand[w] = {} /\ cur[w] = {}
  /\ pc[w] \in {"parse", "batch", "each"} => cur[w] = {}
  /\ pc[w] \in {"hdel", "dlq_hdel", "announce"} => cur[w] \cap pel = {}

\* A step is one worker's, and changes what that one has in hand.
LEMMA OneWorker ==
  ASSUME TypeOK, NEW w \in Worker,
         Step(w) \/ Crash(w) \/ Restart(w) \/ Sigterm(w)
  PROVE  \A v \in Worker \ {w} :
           pc'[v] = pc[v] /\ cur'[v] = cur[v] /\ hand'[v] = hand[v]
<1> USE DEF redis, db, locals, env, Goto
<1>1. pc' = [pc EXCEPT ![w] = pc'[w]]
  BY DEF Step, LoopTop, Claim, Read, Handle, Parse, BatchCommit, BatchAbort,
     EachCommit, EachAbort, Count, DeadLetter, Xack, Hdel, Announce, Continue,
     Crash, Restart, Sigterm, TypeOK
<1>2. cur' = [cur EXCEPT ![w] = cur'[w]]
  BY DEF Step, LoopTop, Claim, Read, Parse, BatchCommit, BatchAbort,
     EachCommit, EachAbort, Count, DeadLetter, Xack, Hdel, Announce, Continue,
     Crash, Restart, Sigterm, TypeOK
<1>3. hand' = [hand EXCEPT ![w] = hand'[w]]
  BY DEF Step, LoopTop, Claim, Read, Handle, Parse, BatchCommit, BatchAbort,
     EachCommit, EachAbort, Count, DeadLetter, Xack, Hdel, Announce,
     Crash, Restart, Sigterm, TypeOK
<1>4. QED
  BY <1>1, <1>2, <1>3 DEF TypeOK

\* Only Read adds to the pending list, and what it adds nobody has in hand.
LEMMA PendingGrows ==
  ASSUME TypeOK, Places, [Next]_vars
  PROVE  /\ pel' \subseteq pel \cup unread
         /\ \A v \in Worker : cur[v] \cap pel = {} => cur[v] \cap pel' = {}
<1>1. pel' \subseteq pel \cup unread
  BY LowestSubset
     DEF Next, vars, Step, Xadd, GoesIdle, Crash, Sigterm, Restart, LoopTop,
     Claim, Read, Parse, BatchCommit, BatchAbort, EachCommit, EachAbort, Count,
     DeadLetter, Xack, Hdel, Announce, redis, db, locals, env
<1>2. QED
  BY <1>1 DEF Places

LEMMA HandsNext ==
  TypeOK /\ Places /\ (\A v \in Worker : Hands(v)) /\ [Next]_vars
    => (\A v \in Worker : Hands(v))'
<1> SUFFICES ASSUME TypeOK, Places, \A v \in Worker : Hands(v), [Next]_vars,
                    NEW v \in Worker
             PROVE  Hands(v)'
  OBVIOUS
<1> USE DEF redis, db, locals, env, Goto
<1>0. /\ pc \in [Worker -> PC] /\ hand \in [Worker -> SUBSET Id]
      /\ cur \in [Worker -> SUBSET Id] /\ after[v] \in {"read", "loop"}
  BY DEF TypeOK
<1>1. CASE pc'[v] = pc[v] /\ cur'[v] = cur[v] /\ hand'[v] = hand[v]
  BY <1>1, PendingGrows DEF Hands
<1>2. ASSUME NEW w \in Worker \ {v}, Step(w) \/ Crash(w) \/ Restart(w) \/ Sigterm(w)
      PROVE  Hands(v)'
  BY <1>1, <1>2, OneWorker
<1>3. CASE Crash(v)
  BY <1>0, <1>3 DEF Crash, Hands
<1>4. CASE Restart(v)
  BY <1>0, <1>4 DEF Restart, Hands
<1>5. CASE Sigterm(v)
  BY <1>1, <1>5 DEF Sigterm
<1>6. CASE LoopTop(v)
  BY <1>0, <1>6 DEF LoopTop, Hands
<1>7. CASE Claim(v) \/ Read(v)
  <2>1. cur' = cur /\ cur[v] = {}
    BY <1>7 DEF Claim, Read, Hands
  <2>2. pc'[v] = "parse" \/ (pc'[v] \in {"read", "loop"} /\ hand'[v] = {})
    BY <1>0, <1>7 DEF Claim, Read, Handle
  <2>3. QED
    BY <2>1, <2>2 DEF Hands
<1>8. CASE Parse(v)
  <2>1. CASE pc'[v] = "dlq"
    BY <2>1 DEF Hands
  <2>2. CASE pc'[v] # "dlq"
    <3>1. /\ cur' = cur /\ hand' = hand /\ cur[v] = {}
          /\ pc'[v] = IF hand[v] = {} THEN after[v] ELSE "batch"
      BY <1>0, <1>8, <2>2 DEF Parse, Hands
    <3>2. QED
      BY <1>0, <3>1 DEF Hands
  <2>3. QED
    BY <2>1, <2>2
<1>9. CASE BatchAbort(v)
  BY <1>0, <1>9 DEF BatchAbort, Hands
<1>10. CASE BatchCommit(v) \/ EachCommit(v) \/ EachAbort(v) \/ DeadLetter(v)
  <2>1. pc'[v] \in {"xack", "count", "dlq_xack"}
    BY <1>0, <1>10 DEF BatchCommit, EachCommit, EachAbort, DeadLetter
  <2>2. QED
    BY <2>1 DEF Hands
<1>11. CASE Xack(v)
  <2>1. pc'[v] \in {"hdel", "dlq_hdel"} /\ cur' = cur /\ pel' = pel \ cur[v]
    BY <1>0, <1>11 DEF Xack
  <2>2. QED
    BY <2>1 DEF Hands
<1>12. ASSUME Continue(v), hand' = hand PROVE Hands(v)'
  <2>1. cur'[v] = {} /\ pc'[v] = IF hand[v] = {} THEN after[v] ELSE "each"
    BY <1>0, <1>12 DEF Continue
  <2>2. QED
    BY <1>0, <1>12, <2>1 DEF Hands
<1>13. CASE Count(v)
  <2>1. CASE Continue(v)
    BY <1>12, <1>13, <2>1 DEF Count
  <2>2. CASE pc'[v] = "dlq"
    BY <2>2 DEF Hands
  <2>3. QED
    BY <1>0, <1>13, <2>1, <2>2 DEF Count
<1>14. CASE Hdel(v)
  <2>1. CASE Continue(v)
    BY <1>12, <1>14, <2>1 DEF Hdel
  <2>2. CASE pc[v] = "hdel" /\ pc'[v] = "announce" /\ cur' = cur
    BY <1>14, <2>2 DEF Hdel, Hands
  <2>3. CASE pc'[v] = "parse" /\ cur'[v] = {}
    BY <2>3 DEF Hands
  <2>4. QED
    BY <1>0, <1>14, <2>1, <2>2, <2>3 DEF Hdel
<1>15. CASE Announce(v)
  BY <1>12, <1>15 DEF Announce
<1>16. CASE UNCHANGED <<pc, cur, hand>>
  BY <1>1, <1>16
<1>17. QED
  BY <1>2, <1>3, <1>4, <1>5, <1>6, <1>7, <1>8, <1>9, <1>10, <1>11, <1>13, <1>14,
     <1>15, <1>16 DEF Next, Step, Xadd, GoesIdle, vars

LEMMA StrandNext ==
  IInv /\ (\A v \in Worker : Hands(v)) /\ OnlyKillsStrand /\ [Next]_vars
    => OnlyKillsStrand'
<1> SUFFICES ASSUME IInv, \A v \in Worker : Hands(v), OnlyKillsStrand, [Next]_vars,
                    crashes' = 0, NEW m \in pel'
             PROVE  Held(m)' \/ retry'[m] > 0
  BY DEF OnlyKillsStrand
<1> USE DEF redis, db, locals, env, Goto
<1>0. /\ TypeOK /\ TypeOK' /\ Places /\ Outcomes /\ m \in Id
      /\ hand \in [Worker -> SUBSET Id] /\ cur \in [Worker -> SUBSET Id]
      /\ retry \in [Id -> Nat]
  BY TypeNext DEF IInv, TypeOK
<1>1. crashes = 0 /\ \A w \in Worker : ~Crash(w)
  <2>1. crashes \in Nat /\ crashes' \in {crashes, crashes + 1}
    BY <1>0 DEF TypeOK, Next, vars, Step, Xadd, GoesIdle, Crash, Sigterm,
       Restart, LoopTop, Claim, Read, Parse, BatchCommit, BatchAbort,
       EachCommit, EachAbort, Count, DeadLetter, Xack, Hdel, Announce
  <2>2. QED
    BY <2>1 DEF Crash
<1>2. CASE m \notin pel
  <2>1. PICK w \in Worker : Read(w)
    BY <1>2 DEF Next, vars, Step, Xadd, GoesIdle, Crash, Sigterm,
       Restart, LoopTop, Claim, Parse, BatchCommit, BatchAbort,
       EachCommit, EachAbort, Count, DeadLetter, Xack, Hdel, Announce
  <2>2. m \in hand'[w]
    BY <1>0, <1>2, <2>1 DEF Read, Handle
  <2>3. QED
    BY <2>2 DEF Held
<1>3. ASSUME m \in pel, retry[m] > 0 PROVE retry'[m] > 0
  <2>1. CASE retry' = retry
    BY <1>3, <2>1
  <2>2. ASSUME NEW w \in Worker, Count(w) PROVE retry'[m] > 0
    <3>1. PICK k : k \in cur[w] /\ retry' = [retry EXCEPT ![k] = @ + 1]
      BY <2>2 DEF Count
    <3>2. k \in Id
      BY <1>0, <3>1
    <3>3. QED
      BY <1>0, <1>3, <3>1, <3>2
  <2>3. ASSUME NEW w \in Worker, Hdel(w) PROVE retry'[m] > 0
    <3>1. m \notin cur[w]
      BY <1>3, <2>3 DEF Hdel, Hands
    <3>2. QED
      BY <1>0, <1>3, <2>3, <3>1 DEF Hdel
  <2>4. QED
    BY <2>1, <2>2, <2>3 DEF Next, vars, Step, Xadd, GoesIdle, Crash, Sigterm,
       Restart, LoopTop, Claim, Read, Parse, BatchCommit, BatchAbort,
       EachCommit, EachAbort, DeadLetter, Xack, Announce
<1>4. ASSUME m \in pel, NEW v \in Worker, m \in hand[v] \cup cur[v]
      PROVE  m \in hand'[v] \cup cur'[v] \/ retry'[m] > 0
  <2>1. CASE UNCHANGED <<hand, cur>>
    BY <1>4, <2>1
  <2>2. ASSUME NEW w \in Worker \ {v}, Step(w) \/ Restart(w) \/ Sigterm(w)
        PROVE  m \in hand'[v] \cup cur'[v]
    BY <1>0, <1>4, <2>2, OneWorker
  <2>3. CASE Claim(v) \/ Read(v)
    BY <1>4, <2>3 DEF Claim, Read, Hands
  <2>4. CASE Parse(v)
    BY <1>0, <1>4, <2>4 DEF Parse, Hands
  <2>5. CASE BatchCommit(v)
    BY <1>0, <1>4, <2>5 DEF BatchCommit, Hands
  <2>6. CASE EachCommit(v) \/ EachAbort(v)
    <3>1. PICK k : /\ cur' = [cur EXCEPT ![v] = {k}] /\ cur[v] = {}
                   /\ hand' = [hand EXCEPT ![v] = @ \ {k}]
      BY <2>6 DEF EachCommit, EachAbort, Hands
    <3>2. QED
      BY <1>0, <1>4, <3>1
  <2>7. CASE Count(v)
    <3>1. PICK k \in Id : cur[v] = {k}
      BY <1>0, <2>7 DEF Count, Outcomes, Knows
    <3>2. hand' = hand /\ retry' = [retry EXCEPT ![k] = @ + 1]
      BY <2>7, <3>1 DEF Count
    <3>3. QED
      BY <1>0, <1>4, <3>1, <3>2
  <2>8. CASE Hdel(v)
    <3>1. m \notin cur[v] /\ hand' = hand
      BY <1>4, <2>8 DEF Hdel, Hands
    <3>2. QED
      BY <1>4, <3>1
  <2>9. CASE Announce(v)
    <3>1. m \notin cur[v] /\ hand' = hand
      BY <1>4, <2>9 DEF Announce, Hands
    <3>2. QED
      BY <1>4, <3>1
  <2>10. QED
    BY <1>1, <2>1, <2>2, <2>3, <2>4, <2>5, <2>6, <2>7, <2>8, <2>9
       DEF Next, vars, Step, Xadd, GoesIdle, Sigterm, Restart, LoopTop,
       BatchAbort, DeadLetter, Xack
<1>5. CASE m \in pel
  <2>1. Held(m) \/ retry[m] > 0
    BY <1>1, <1>5 DEF OnlyKillsStrand
  <2>2. QED
    BY <1>3, <1>4, <1>5, <2>1 DEF Held
<1>6. QED
  BY <1>2, <1>5

\* Only a kill strands an entry: until there is one, whatever the signals and
\* failures, a pending entry is in some worker's hand or waits for its retry
\* (worker.py 543-577).
THEOREM SignalsStrandNothing == Spec => []OnlyKillsStrand
<1>1. Init => (\A v \in Worker : Hands(v)) /\ OnlyKillsStrand
  BY DEF Init, Hands, OnlyKillsStrand
<1>2. IInv /\ (\A v \in Worker : Hands(v)) /\ OnlyKillsStrand /\ [Next]_vars
        => (\A v \in Worker : Hands(v))' /\ OnlyKillsStrand'
  BY HandsNext, StrandNext DEF IInv
<1>3. QED
  BY <1>1, <1>2, Invariant, PTL DEF Spec
-----------------------------------------------------------------------------
\* Every step of the worker group is a step of Delivery, or stutters.
LEMMA PromiseInit == Init => Promise!Init
<1> SUFFICES ASSUME Init PROVE Promise!Init
  OBVIOUS
<1>1. 1..added = {}
  BY DEF Init
<1>2. QED
  BY <1>1 DEF Init, Promise!Init, Trimmed

LEMMA PromiseXadd ==
  ASSUME TypeOK, Places, NEW k \in Kinds, Xadd(k)
  PROVE  Promise!Accept(added + 1)
<1> DEFINE given_up == written_off \cup Trimmed
<1>1. /\ added + 1 \notin 1..added /\ 1..added' = (1..added) \cup {added + 1}
      /\ added + 1 \in stream' /\ stream' \subseteq stream \cup {added + 1}
      /\ unread' = (unread \cup {added + 1}) \cap stream'
      /\ UNCHANGED <<pel, applied, dlq, written_off>>
  BY ConstantsAssumption DEF Xadd, TypeOK, redis, db
<1>2. given_up \subseteq given_up' /\ given_up' \subseteq given_up \cup 1..added
  BY <1>1 DEF Trimmed
<1>3. unread' \cup pel'
        = ((unread \cup pel) \cup {added + 1}) \ ((unread \ stream') \ pel)
  BY <1>1 DEF Places
<1>4. (unread \ stream') \ pel \in SUBSET given_up'
  BY <1>1 DEF Places, Trimmed
<1>5. QED
  BY <1>1, <1>2, <1>3, <1>4 DEF Promise!Accept

LEMMA PromiseNext ==
  TypeOK /\ Places /\ Outcomes /\ [Next]_vars
    => [Promise!Next]_(Promise!vars)
<1> SUFFICES ASSUME TypeOK, Places, Outcomes, [Next]_vars
             PROVE  Promise!Next \/ UNCHANGED Promise!vars
  OBVIOUS
<1> USE DEF redis, db, locals, env
<1>1. ASSUME NEW k \in Kinds, Xadd(k) PROVE Promise!Next
  <2>1. added + 1 \in Id
    BY <1>1, ConstantsAssumption DEF Xadd, TypeOK, Id
  <2>2. QED
    BY <1>1, <2>1, PromiseXadd DEF Promise!Next
<1>2. ASSUME NEW w \in Worker, Claim(w) PROVE Promise!Next
  <2> DEFINE seen == Lowest({m \in pel : m \notin stream \/ m \in idle},
                            BatchSize)
  <2>1. seen \subseteq pel
    BY LowestSubset
  <2> HIDE DEF seen
  <2>2. /\ pel' = pel \ (seen \ stream)
        /\ UNCHANGED <<unread, stream, added, applied, dlq, written_off>>
    BY <1>2 DEF Claim, seen
  <2>3. seen \ stream \in SUBSET Id /\ seen \ stream \subseteq Trimmed
    BY <2>1 DEF Places, Trimmed, TypeOK
  <2>4. Promise!Close(seen \ stream)
    BY <2>2, <2>3 DEF Promise!Close, Promise!Settled, Places, Trimmed
  <2>5. QED
    BY <2>3, <2>4 DEF Promise!Next
<1>3. ASSUME NEW w \in Worker, Xack(w) PROVE Promise!Next
  <2>1. cur[w] \in SUBSET Id /\ cur[w] \cap unread = {}
    BY DEF TypeOK, Places
  <2>2. cur[w] \subseteq applied \cup dlq \cup written_off
    BY <1>3 DEF Xack, Outcomes, Knows
  <2>3. Promise!Close(cur[w])
    BY <1>3, <2>1, <2>2 DEF Xack, Promise!Close, Promise!Settled, Trimmed
  <2>4. QED
    BY <2>1, <2>3 DEF Promise!Next
<1>4. ASSUME NEW S \in SUBSET Id, S \subseteq 1..added, Commit(S),
             UNCHANGED <<stream, unread, pel, added, dlq, written_off>>
      PROVE  Promise!Next
  BY <1>4 DEF Commit, Promise!Next, Promise!Store, Trimmed
<1>5. ASSUME NEW w \in Worker,
             BatchCommit(w) \/ BatchAbort(w) \/ EachCommit(w) \/ EachAbort(w)
      PROVE  Promise!Next \/ UNCHANGED Promise!vars
  <2>1. UNCHANGED <<stream, unread, pel, added, dlq, written_off>>
    BY <1>5 DEF BatchCommit, BatchAbort, EachCommit, EachAbort
  <2>2. hand[w] \in SUBSET Id /\ hand[w] \subseteq 1..added
    BY DEF TypeOK, Places
  <2>3. \/ \E S \in SUBSET hand[w] : Commit(S)
        \/ UNCHANGED applied
    BY <1>5 DEF BatchCommit, BatchAbort, EachCommit, EachAbort, Abort
  <2>4. QED
    BY <1>4, <2>1, <2>2, <2>3 DEF Promise!vars, Trimmed
<1>6. ASSUME NEW w \in Worker, DeadLetter(w) PROVE Promise!Next
  <2>1. PICK m \in Id : cur[w] = {m}
    BY <1>6 DEF DeadLetter, Outcomes, Knows
  <2>2. m \in 1..added
    BY <2>1 DEF Places
  <2>3. UNCHANGED <<stream, unread, pel, added, applied>>
    BY <1>6 DEF DeadLetter
  <2>4. CASE dlq' = dlq \cup {m} /\ written_off' = written_off
    BY <2>2, <2>3, <2>4 DEF Promise!Next, Promise!Park, Trimmed
  <2>5. CASE dlq' = dlq /\ written_off' = written_off \cup {m}
    <3>1. Promise!GiveUp(m)
      BY <2>2, <2>3, <2>5 DEF Promise!GiveUp, Trimmed
    <3>2. QED
      BY <3>1 DEF Promise!Next
  <2>6. QED
    BY <1>6, <2>1, <2>4, <2>5 DEF DeadLetter
<1>7. ASSUME NEW w \in Worker, Read(w) PROVE UNCHANGED Promise!vars
  <2>1. Lowest(unread, BatchSize) \subseteq unread
    BY LowestSubset
  <2>2. QED
    BY <1>7, <2>1 DEF Read, Promise!vars, Trimmed
<1>8. CASE UNCHANGED <<stream, unread, pel, added, applied, dlq, written_off>>
  BY <1>8 DEF Promise!vars, Trimmed
<1>9. QED
  BY <1>1, <1>2, <1>3, <1>5, <1>6, <1>7, <1>8
  DEF Next, vars, Step, GoesIdle, Crash, Sigterm, Restart, LoopTop, Parse,
      Count, Hdel, Announce

\* The worker group implements the delivery promise.
THEOREM Refinement == Spec => KeepsPromise
<1>1. IInv => TypeOK /\ Places /\ Outcomes
  BY DEF IInv
<1>2. QED
  BY <1>1, Invariant, PromiseInit, PromiseNext, PTL
  DEF Spec, KeepsPromise, Promise!Spec
=============================================================================
