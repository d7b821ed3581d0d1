-------------------------- MODULE EventMergeProofs --------------------------
(***************************************************************************)
(* Proofs about EventMerge, for any traces, observations, column sets and  *)
(* number of events and deliveries.  The first lemmas say what the choices *)
(* Last, First and LastOfGroups return; then every merged column is either *)
(* carried by an event of the batch or what it was before, from which the  *)
(* invariants follow, and what creates and retries leave alone.            *)
(***************************************************************************)
EXTENDS EventMerge, WellFoundedInduction, TLAPS

\* A set of event numbers that is not empty has a greatest and a least one.
LEMMA GreatestExists ==
  ASSUME NEW N \in Nat, NEW S \in SUBSET (1..N), S # {}
  PROVE  \E n \in S : \A k \in S : k <= n
<1> DEFINE T == {N - n : n \in S}
<1>1. T \subseteq Nat /\ T # {}
  <2>1. \A n \in S : N - n \in Nat
    OBVIOUS
  <2>2. QED
    BY <2>1
<1>2. \E x \in T : \A y \in T : ~ (<<y, x>> \in OpToRel(<, Nat))
  <2> HIDE DEF T
  <2> QED
    BY <1>1, WFMin, NatLessThanWellFounded, Zenon
<1>3. PICK x \in T : \A y \in T : ~ (y < x)
  <2> HIDE DEF T
  <2> QED
    BY <1>1, <1>2 DEF OpToRel
<1>4. PICK n \in S : x = N - n
  OBVIOUS
<1>5. ASSUME NEW k \in S PROVE k <= n
  BY <1>3, <1>4
<1>6. QED
  BY <1>5

LEMMA LeastExists ==
  ASSUME NEW S \in SUBSET Nat, S # {}
  PROVE  \E n \in S : \A k \in S : n <= k
<1>1. \E n \in S : \A k \in S : ~ (<<k, n>> \in OpToRel(<, Nat))
  BY WFMin, NatLessThanWellFounded, Zenon
<1>2. PICK n \in S : \A k \in S : ~ (k < n)
  BY <1>1 DEF OpToRel
<1>3. \A k \in S : n <= k
  <2> TAKE k \in S
  <2>1. k \in Nat /\ n \in Nat /\ ~ (k < n)
    BY <1>2
  <2>2. QED
    BY <2>1
<1>4. QED
  BY <1>3

LEMMA GreatestId ==
  ASSUME NEW S \in SUBSET Id, S # {}
  PROVE  \E n \in S : \A k \in S : k <= n
<1>1. MaxEvents \in Nat
  BY ConstantsAssumption
<1>2. S \in SUBSET (1..MaxEvents)
  BY DEF Id
<1>3. QED
  BY <1>1, <1>2, GreatestExists, Zenon

LEMMA LastIn ==
  ASSUME NEW S \in SUBSET Id, S # {} PROVE Last(S) \in S
<1>1. \E n \in S : \A k \in S : k <= n
  BY GreatestId
<1>2. QED
  BY <1>1 DEF Last

LEMMA FirstIn ==
  ASSUME NEW S \in SUBSET Id, S # {} PROVE First(S) \in S
<1>1. S \in SUBSET Nat
  BY ConstantsAssumption DEF Id
<1>2. \E n \in S : \A k \in S : n <= k
  BY <1>1, LeastExists
<1>3. QED
  BY <1>2 DEF First

LEMMA LastOfGroupsIn ==
  ASSUME NEW S \in SUBSET Id, NEW C \in SUBSET S, C # {}
  PROVE  LastOfGroups(S, C) \in C
<1> DEFINE O == {Opened(S, n) : n \in C}
<1>1. \A n \in C : Opened(S, n) \in Id
  <2> TAKE n \in C
  <2> DEFINE G == {k \in S : event[k].cols = event[n].cols}
  <2>1. G \in SUBSET Id /\ G # {}
    OBVIOUS
  <2> HIDE DEF G
  <2>2. First(G) \in Id
    BY <2>1, FirstIn
  <2>3. QED
    BY <2>2 DEF Opened, G
<1>2. PICK o \in O : \A p \in O : p <= o
  <2>1. O \subseteq Id /\ O # {}
    BY <1>1, Zenon
  <2> HIDE DEF O
  <2> QED
    BY <2>1, GreatestId
<1> DEFINE D == {n \in C : Opened(S, n) = o}
<1>3. PICK n \in D : \A k \in D : k <= n
  <2>1. D \subseteq Id
    OBVIOUS
  <2>2. D # {}
    BY <1>2, Zenon
  <2> HIDE DEF D
  <2> QED
    BY <2>1, <2>2, GreatestId
<1>4. ASSUME NEW k \in C
      PROVE  \/ Opened(S, k) < Opened(S, n)
             \/ Opened(S, k) = Opened(S, n) /\ k <= n
  <2>1. Opened(S, k) <= o /\ Opened(S, n) = o
    BY <1>2, <1>3
  <2>2. Opened(S, k) \in Nat /\ Opened(S, n) \in Nat
    BY <1>1, <1>3, ConstantsAssumption DEF Id
  <2>3. QED
    BY <1>3, <2>1, <2>2
<1>5. QED
  BY <1>3, <1>4, Zenon DEF LastOfGroups

\* Where a column of a row comes from: from an event of the batch that
\* carries it, or, when there is none, from the row as it was.
LEMMA TraceColumns ==
  ASSUME NEW S \in SUBSET Id, NEW t \in Trace, NEW c \in TraceColumn
  PROVE  LET who == Carry(Of("trace_create", S, t), c)
         IN IF who = {} THEN NewTrace(S, t)[c] = trace[t][c]
                        ELSE NewTrace(S, t)[c] \in who
<1> DEFINE new == Of("trace_create", S, t)
<1>1. new \in SUBSET Id /\ Carry(new, c) \in SUBSET new
  BY DEF Of, Carry
<1>2. CASE Carry(new, c) = {}
  BY <1>2 DEF NewTrace
<1>3. CASE Carry(new, c) # {}
  <2>1. LastOfGroups(new, Carry(new, c)) \in Carry(new, c)
    BY <1>1, <1>3, LastOfGroupsIn
  <2>2. QED
    BY <1>3, <2>1 DEF NewTrace
<1>4. QED
  BY <1>2, <1>3

LEMMA ObsColumns ==
  ASSUME NEW S \in SUBSET Id, NEW o \in Obs, NEW c \in ObsColumn
  PROVE  LET who == Carry(Creates(S, o) \cup Updates(S, o), c)
         IN IF who = {} THEN NewObs(S, o)[c] = obs[o][c]
                        ELSE NewObs(S, o)[c] \in who
<1> DEFINE C == Carry(Creates(S, o), c)
           U == Carry(Updates(S, o), c)
<1>1. C \in SUBSET Id /\ U \in SUBSET Id
  BY DEF Creates, Updates, Of, Carry
<1>2. Carry(Creates(S, o) \cup Updates(S, o), c) = C \cup U
  BY DEF Carry
<1>3. NewObs(S, o)[c] = IF U # {} THEN Last(U)
                        ELSE IF C # {} THEN Last(C) ELSE obs[o][c]
  BY DEF NewObs
<1>4. (U # {} => Last(U) \in U) /\ (C # {} => Last(C) \in C)
  <2> HIDE DEF C, U
  <2> QED
    BY <1>1, LastIn
<1> HIDE DEF C, U
<1>5. QED
  BY <1>2, <1>3, <1>4
-----------------------------------------------------------------------------
(* The inductive invariant.                                                *)

\* Only events that were sent are committed.
CommittedWereSent == committed \subseteq Sent

\* A row exists once an event of its observation is committed, not before.
RowsAreCommitted == \A o \in Obs : o \in rows <=> ObsEvents(o) # {}

\* A span starts before anything else happens to it, and starts once.
StartedFirst ==
  \A n \in Sent : event[n].op = "observation_update" =>
    \E k \in Sent : /\ k < n
                    /\ event[k].op = "observation_create"
                    /\ event[k].id = event[n].id
StartedOnce ==
  \A k, n \in Sent : /\ event[k].op = "observation_create"
                     /\ event[n].op = "observation_create"
                     /\ event[k].id = event[n].id
                     => k = n

\* The create of a span has the last word on when it began.
BeganWithItsCreate ==
  \A o \in Obs : \A k \in Committed("observation_create", o) :
    began[o] = Proposed(k)

Inv ==
  /\ TypeOK
  /\ CommittedWereSent
  /\ StartedFirst
  /\ StartedOnce
  /\ RowsAreCommitted
  /\ BeganWithItsCreate
  /\ SentBeatsPlaceholder
  /\ EveryObservationHasATrace
  /\ CostFollowsTheRow

LEMMA InitInv == Init => Inv
<1> SUFFICES ASSUME Init PROVE Inv
  OBVIOUS
<1> USE DEF Init
<1>1. TypeOK
  <2>1. MaxEvents \in Nat /\ MaxDeliveries \in Nat
    BY ConstantsAssumption
  <2>2. 0 \in Value /\ NoEvent \in Event
    BY DEF Value, Null, Event
  <2>3. QED
    BY <2>1, <2>2 DEF TypeOK, Null
<1>2. Sent = {}
  BY DEF Sent
<1>3. \A op, i : Committed(op, i) = {}
  BY DEF Committed, Of
<1>4. CommittedWereSent /\ StartedFirst /\ StartedOnce
  BY <1>2 DEF CommittedWereSent, StartedFirst, StartedOnce
<1>5. RowsAreCommitted /\ BeganWithItsCreate /\ EveryObservationHasATrace
  BY <1>3 DEF RowsAreCommitted, BeganWithItsCreate,
              EveryObservationHasATrace, ObsEvents
<1>6. SentBeatsPlaceholder
  BY <1>3 DEF SentBeatsPlaceholder, ObsEvents, Carry
<1>7. CostFollowsTheRow
  BY ConstantsAssumption DEF CostFollowsTheRow, ObsColumn
<1>8. QED
  BY <1>1, <1>4, <1>5, <1>6, <1>7 DEF Inv

-----------------------------------------------------------------------------
(* A client makes an event: nothing that is committed changes.             *)

LEMMA MakeFacts ==
  ASSUME Inv, NEW e \in Event, Make(e)
  PROVE  /\ made \in Nat /\ made' = made + 1 /\ made + 1 \in Id
         /\ Sent \subseteq Id /\ made + 1 \notin Sent
         /\ Sent' = Sent \cup {made + 1}
         /\ event' \in [Id -> Event] /\ event'[made + 1] = e
         /\ \A n \in Sent : event'[n] = event[n] /\ n < made + 1
         /\ \A op, i : Committed(op, i)' = Committed(op, i)
<1>1. /\ made \in 0..MaxEvents /\ MaxEvents \in Nat /\ made < MaxEvents
      /\ event \in [Id -> Event] /\ made' = made + 1
      /\ event' = [event EXCEPT ![made + 1] = e]
      /\ committed' = committed /\ committed \subseteq Sent
  BY ConstantsAssumption DEF Inv, TypeOK, Make, CommittedWereSent
<1>2. /\ made \in Nat /\ made + 1 \in Id
      /\ Sent \subseteq Id /\ made + 1 \notin Sent
  BY <1>1 DEF Id, Sent
<1>3. Sent' = Sent \cup {made + 1}
  BY <1>1 DEF Sent
<1>4. event' \in [Id -> Event] /\ event'[made + 1] = e
  BY <1>1, <1>2
<1>5. \A n \in Sent : event'[n] = event[n] /\ n < made + 1
  <2> TAKE n \in Sent
  <2>1. n < made + 1
    BY <1>1 DEF Sent
  <2>2. QED
    BY <1>1, <1>2, <2>1
<1>6. \A op, i : Committed(op, i)' = Committed(op, i)
  BY <1>1, <1>5 DEF Committed, Of
<1>7. QED
  BY <1>1, <1>2, <1>3, <1>4, <1>5, <1>6

\* Whatever event it is, as long as it keeps to the order of a span's life.
LEMMA MakeInv ==
  ASSUME Inv, NEW e \in Event, Make(e),
         e.op = "observation_update" =>
           Of("observation_create", Sent, e.id) # {},
         e.op = "observation_create" =>
           Of("observation_create", Sent, e.id) = {}
  PROVE  Inv'
<1>1. PICK n \in Nat : n = made + 1
  BY MakeFacts
<1>2. /\ made' = n /\ n \in Id /\ Sent \subseteq Id /\ n \notin Sent
      /\ Sent' = Sent \cup {n} /\ event' \in [Id -> Event] /\ event'[n] = e
      /\ \A k \in Sent : event'[k] = event[k] /\ k < n
      /\ \A op, i : Committed(op, i)' = Committed(op, i)
  BY <1>1, MakeFacts
<1>3. /\ committed' = committed /\ traces' = traces /\ trace' = trace
      /\ rows' = rows /\ obs' = obs /\ began' = began /\ total' = total
      /\ score' = score /\ deliveries' = deliveries
  BY DEF Make, tables
<1>4. committed \subseteq Sent
  BY DEF Inv, CommittedWereSent
<1>5. TypeOK'
  <2>1. made' \in 0..MaxEvents
    BY <1>2, ConstantsAssumption DEF Id
  <2>2. QED
    BY <1>2, <1>3, <2>1 DEF Inv, TypeOK
<1>6. CommittedWereSent'
  BY <1>2, <1>3, <1>4 DEF CommittedWereSent
<1>7. StartedFirst'
  <2> SUFFICES ASSUME NEW m \in Sent', event'[m].op = "observation_update"
               PROVE  \E k \in Sent' : /\ k < m
                        /\ event'[k].op = "observation_create"
                        /\ event'[k].id = event'[m].id
    BY DEF StartedFirst
  <2>1. CASE m \in Sent
    <3>1. PICK k \in Sent : /\ k < m
                            /\ event[k].op = "observation_create"
                            /\ event[k].id = event[m].id
      BY <1>2, <2>1 DEF Inv, StartedFirst
    <3>2. QED
      BY <1>2, <2>1, <3>1
  <2>2. CASE m = n
    <3>1. PICK k \in Sent : /\ event[k].op = "observation_create"
                            /\ event[k].id = e.id
      BY <1>2, <2>2 DEF Of
    <3>2. QED
      BY <1>2, <2>2, <3>1
  <2>3. QED
    BY <1>2, <2>1, <2>2
<1>8. StartedOnce'
  <2> SUFFICES ASSUME NEW k \in Sent', NEW m \in Sent',
                      event'[k].op = "observation_create",
                      event'[m].op = "observation_create",
                      event'[k].id = event'[m].id
               PROVE  k = m
    BY DEF StartedOnce
  <2>1. CASE k \in Sent /\ m \in Sent
    BY <1>2, <2>1 DEF Inv, StartedOnce
  <2>2. CASE k \in Sent /\ m = n
    BY <1>2, <2>2 DEF Of
  <2>3. CASE k = n /\ m \in Sent
    BY <1>2, <2>3 DEF Of
  <2>4. CASE k = n /\ m = n
    BY <2>4
  <2>5. QED
    BY <1>2, <2>1, <2>2, <2>3, <2>4
<1>9. RowsAreCommitted' /\ EveryObservationHasATrace' /\ CostFollowsTheRow'
  BY <1>2, <1>3 DEF Inv, RowsAreCommitted, EveryObservationHasATrace,
                    CostFollowsTheRow, ObsEvents
<1>10. \A k \in committed : event'[k] = event[k]
  BY <1>2, <1>4
<1>11. \A op, i : Committed(op, i) \subseteq committed
  BY DEF Committed, Of
<1>12. BeganWithItsCreate'
  BY <1>2, <1>3, <1>10, <1>11
     DEF Inv, BeganWithItsCreate, Proposed, At, Ts
<1>13. SentBeatsPlaceholder'
  <2>1. \A op, i, c : Carry(Committed(op, i), c)' = Carry(Committed(op, i), c)
    BY <1>2, <1>10, <1>11 DEF Carry
  <2>2. \A o, c : Carry(ObsEvents(o), c)' = Carry(ObsEvents(o), c)
    BY <1>2, <1>10, <1>11 DEF Carry, ObsEvents
  <2>3. ASSUME NEW o \in Obs, NEW k \in Committed("observation_create", o)',
               "start_time" \in event'[k].cols
        PROVE  began'[o] = At(k)
    BY <1>2, <1>3, <1>10, <1>11, <2>3 DEF Inv, SentBeatsPlaceholder
  <2>4. QED
    BY <1>2, <1>3, <2>1, <2>2, <2>3 DEF Inv, SentBeatsPlaceholder
<1>14. QED
  BY <1>5, <1>6, <1>7, <1>8, <1>9, <1>12, <1>13 DEF Inv
-----------------------------------------------------------------------------
(* A batch is committed.                                                   *)

LEMMA CommitFacts ==
  ASSUME Inv, NEW S \in SUBSET Sent, Commit(S)
  PROVE  /\ S \subseteq Id /\ Sent \subseteq Id
         /\ committed \subseteq Id
         /\ made' = made /\ event' = event /\ committed' = committed \cup S
         /\ \A op, i : Committed(op, i)' = Committed(op, i) \cup Of(op, S, i)
         /\ \A o : ObsEvents(o)' =
                     ObsEvents(o) \cup (Creates(S, o) \cup Updates(S, o))
         /\ \A A, c : Carry(A, c)' = Carry(A', c)
<1>1. made \in 0..MaxEvents /\ committed \subseteq Sent
  BY DEF Inv, TypeOK, CommittedWereSent
<1>2. Sent \subseteq Id
  BY <1>1, ConstantsAssumption DEF Sent, Id
<1>3. made' = made /\ event' = event /\ committed' = committed \cup S
  BY DEF Commit
<1>4. \A op, i : Committed(op, i)' = Committed(op, i) \cup Of(op, S, i)
  BY <1>3 DEF Committed, Of
<1>5. \A o : ObsEvents(o)' =
               ObsEvents(o) \cup (Creates(S, o) \cup Updates(S, o))
  BY <1>4 DEF ObsEvents, Creates, Updates
<1>6. QED
  BY <1>1, <1>2, <1>3, <1>4, <1>5 DEF Carry

LEMMA NewTraceType ==
  ASSUME TypeOK, NEW S \in SUBSET Id, NEW t \in Trace
  PROVE  NewTrace(S, t) \in [TraceColumn -> Value]
<1>1. ASSUME NEW c \in TraceColumn PROVE NewTrace(S, t)[c] \in Value
  <2>1. trace[t][c] \in Value
    BY DEF TypeOK
  <2>2. Carry(Of("trace_create", S, t), c) \subseteq Id
    BY DEF Carry, Of
  <2>3. QED
    BY <2>1, <2>2, TraceColumns DEF Value
<1>2. QED
  BY <1>1 DEF NewTrace

LEMMA NewObsType ==
  ASSUME TypeOK, NEW S \in SUBSET Id, NEW o \in Obs
  PROVE  NewObs(S, o) \in [ObsColumn -> Value]
<1>1. ASSUME NEW c \in ObsColumn PROVE NewObs(S, o)[c] \in Value
  <2>1. obs[o][c] \in Value
    BY DEF TypeOK
  <2>2. Carry(Creates(S, o) \cup Updates(S, o), c) \subseteq Id
    BY DEF Carry, Of, Creates, Updates
  <2>3. QED
    BY <2>1, <2>2, ObsColumns DEF Value
<1>2. QED
  BY <1>1 DEF NewObs

LEMMA ProposedType == ASSUME NEW n \in Id PROVE Proposed(n) \in Nat
<1>1. n \in Nat
  BY ConstantsAssumption DEF Id
<1>2. QED
  BY <1>1 DEF Proposed, At, Ts

LEMMA NewBeganType ==
  ASSUME TypeOK, NEW S \in SUBSET Id, NEW o \in Obs
  PROVE  NewBegan(S, o) \in Nat
<1>1. Creates(S, o) \in SUBSET Id /\ Updates(S, o) \in SUBSET Id
  BY DEF Creates, Updates, Of
<1>2. /\ Creates(S, o) # {} => Last(Creates(S, o)) \in Id
      /\ Updates(S, o) # {} => First(Updates(S, o)) \in Id
  BY <1>1, LastIn, FirstIn
<1>3. began[o] \in Nat
  BY DEF TypeOK
<1>4. QED
  BY <1>2, <1>3, ProposedType DEF NewBegan

Total == {<<>>} \cup {<<c>> : c \in Id} \cup {<<m, u>> : m \in Id, u \in Id}

LEMMA NewTotalType ==
  ASSUME TypeOK, NEW S \in SUBSET Id, NEW o \in Obs
  PROVE  NewTotal(S, o) \in Total
<1> DEFINE new == NewObs(S, o)
<1>1. new \in [ObsColumn -> Value]
  BY NewObsType
<1>2. /\ new["cost"] # Null => new["cost"] \in Id
      /\ new["model"] # Null => new["model"] \in Id
      /\ new["usage"] # Null => new["usage"] \in Id
  BY <1>1 DEF ObsColumn, Value
<1>3. total[o] \in Total
  BY DEF TypeOK, Total
<1>4. QED
  BY <1>2, <1>3 DEF NewTotal, Total

LEMMA CommitTypeOK ==
  ASSUME Inv, NEW S \in SUBSET Sent, Commit(S) PROVE TypeOK'
<1>1. S \in SUBSET Id /\ TypeOK
  BY CommitFacts DEF Inv
<1>2. made' = made /\ event' = event /\ committed' = committed \cup S
  BY DEF Commit
<1>3. traces' \in SUBSET Trace
  BY <1>1, ConstantsAssumption DEF Commit, TypeOK, Referenced, TouchedObs
<1>4. trace' \in [Trace -> [TraceColumn -> Value]]
  BY <1>1, NewTraceType DEF Commit
<1>5. rows' \in SUBSET Obs
  BY <1>1 DEF Commit, TypeOK, TouchedObs
<1>6. obs' \in [Obs -> [ObsColumn -> Value]]
  BY <1>1, NewObsType DEF Commit
<1>7. began' \in [Obs -> Nat]
  BY <1>1, NewBeganType DEF Commit
<1>8. total' \in [Obs -> Total]
  <2>1. total \in [Obs -> Total]
    BY <1>1 DEF TypeOK, Total
  <2>2. QED
    BY <1>1, <2>1, NewTotalType DEF Commit
<1>9. score' \in [Score -> Value]
  <2>1. ASSUME NEW s \in Score PROVE score'[s] \in Value
    <3>1. /\ Of("score_create", S, s) \in SUBSET Id
          /\ score[s] \in Value
      BY <1>1 DEF Of, TypeOK
    <3>2. Of("score_create", S, s) # {} =>
            First(Of("score_create", S, s)) \in Id
      BY <3>1, FirstIn
    <3>3. QED
      BY <3>1, <3>2 DEF Commit, Value
  <2>2. QED
    BY <2>1 DEF Commit
<1>10. deliveries' \in 0..MaxDeliveries
  BY <1>1, ConstantsAssumption DEF TypeOK, Commit
<1>11. QED
  BY <1>1, <1>2, <1>3, <1>4, <1>5, <1>6, <1>7, <1>8, <1>9, <1>10
     DEF TypeOK, Total

LEMMA CommitBegan ==
  ASSUME Inv, NEW S \in SUBSET Sent, Commit(S) PROVE BeganWithItsCreate'
<1> SUFFICES ASSUME NEW o \in Obs,
                    NEW k \in Committed("observation_create", o)'
             PROVE  began'[o] = Proposed(k)'
  BY DEF BeganWithItsCreate
<1>1. Proposed(k)' = Proposed(k)
  BY CommitFacts DEF Proposed, At, Ts
<1>2. k \in Committed("observation_create", o) \cup Creates(S, o)
  BY CommitFacts DEF Creates
<1>3. began'[o] = NewBegan(S, o)
  BY DEF Commit
<1>4. CASE Creates(S, o) # {}
  <2>1. Creates(S, o) \in SUBSET Id
    BY CommitFacts DEF Creates, Of
  <2>2. Last(Creates(S, o)) \in Creates(S, o)
    BY <1>4, <2>1, LastIn
  <2>3. k \in Sent /\ event[k].op = "observation_create" /\ event[k].id = o
    BY <1>2 DEF Committed, Creates, Of, Inv, CommittedWereSent
  <2>4. /\ Last(Creates(S, o)) \in Sent
        /\ event[Last(Creates(S, o))].op = "observation_create"
        /\ event[Last(Creates(S, o))].id = o
    BY <2>2 DEF Creates, Of
  <2>5. k = Last(Creates(S, o))
    BY <2>3, <2>4 DEF Inv, StartedOnce
  <2>6. QED
    BY <1>1, <1>3, <1>4, <2>5 DEF NewBegan
<1>5. CASE Creates(S, o) = {}
  <2>1. k \in Committed("observation_create", o)
    BY <1>2, <1>5
  <2>2. o \in rows /\ began[o] = Proposed(k)
    BY <2>1 DEF Inv, RowsAreCommitted, BeganWithItsCreate, ObsEvents
  <2>3. QED
    BY <1>1, <1>3, <1>5, <2>2 DEF NewBegan
<1>6. QED
  BY <1>4, <1>5

LEMMA CommitBeats ==
  ASSUME Inv, NEW S \in SUBSET Sent, Commit(S), BeganWithItsCreate'
  PROVE  SentBeatsPlaceholder'
<1>1. S \in SUBSET Id /\ event' = event /\ SentBeatsPlaceholder
  BY CommitFacts DEF Inv
<1>2. ASSUME NEW t \in Trace, NEW c \in TraceColumn
      PROVE  LET who == Carry(Committed("trace_create", t), c)'
             IN trace'[t][c] \in (IF who = {} THEN {Null} ELSE who)
  <2> DEFINE old == Carry(Committed("trace_create", t), c)
             new == Carry(Of("trace_create", S, t), c)
  <2>1. Carry(Committed("trace_create", t), c)' = old \cup new
    BY CommitFacts DEF Carry
  <2>2. trace'[t][c] = NewTrace(S, t)[c]
    BY DEF Commit
  <2>3. trace[t][c] \in (IF old = {} THEN {Null} ELSE old)
    BY <1>1 DEF SentBeatsPlaceholder
  <2>4. NewTrace(S, t)[c] \in (IF new = {} THEN {trace[t][c]} ELSE new)
    BY <1>1, TraceColumns
  <2> HIDE DEF old, new
  <2>5. QED
    BY <2>1, <2>2, <2>3, <2>4
<1>3. ASSUME NEW o \in Obs, NEW c \in ObsColumn
      PROVE  LET who == Carry(ObsEvents(o), c)'
             IN obs'[o][c] \in (IF who = {} THEN {Null} ELSE who)
  <2> DEFINE old == Carry(ObsEvents(o), c)
             new == Carry(Creates(S, o) \cup Updates(S, o), c)
  <2>1. Carry(ObsEvents(o), c)' = old \cup new
    BY CommitFacts DEF Carry
  <2>2. obs'[o][c] = NewObs(S, o)[c]
    BY DEF Commit
  <2>3. obs[o][c] \in (IF old = {} THEN {Null} ELSE old)
    BY <1>1 DEF SentBeatsPlaceholder
  <2>4. NewObs(S, o)[c] \in (IF new = {} THEN {obs[o][c]} ELSE new)
    BY <1>1, ObsColumns
  <2> HIDE DEF old, new
  <2>5. QED
    BY <2>1, <2>2, <2>3, <2>4
<1>4. ASSUME NEW o \in Obs, NEW n \in Committed("observation_create", o)',
             "start_time" \in event'[n].cols
      PROVE  began'[o] = At(n)
  BY <1>1, <1>4 DEF BeganWithItsCreate, Proposed
<1>5. ASSUME NEW s \in Score
      PROVE  LET who == Committed("score_create", s)'
             IN score'[s] \in (IF who = {} THEN {Null} ELSE who)
  <2> DEFINE old == Committed("score_create", s)
             new == Of("score_create", S, s)
  <2>1. Committed("score_create", s)' = old \cup new
    BY CommitFacts
  <2>2. score'[s] = IF score[s] = Null /\ new # {} THEN First(new)
                                                  ELSE score[s]
    BY DEF Commit
  <2>3. score[s] \in (IF old = {} THEN {Null} ELSE old)
    BY <1>1 DEF SentBeatsPlaceholder
  <2>4. new # {} => First(new) \in new
    BY <1>1, FirstIn DEF Of
  <2>5. old \subseteq Id
    BY CommitFacts DEF Committed, Of
  <2>6. Null \notin Id
    BY ConstantsAssumption DEF Null, Id
  <2> HIDE DEF old, new
  <2>7. QED
    BY <2>1, <2>2, <2>3, <2>4, <2>5, <2>6
<1>6. QED
  BY <1>2, <1>3, <1>4, <1>5 DEF SentBeatsPlaceholder

LEMMA CommitCost ==
  ASSUME Inv, NEW S \in SUBSET Sent, Commit(S) PROVE CostFollowsTheRow'
<1> SUFFICES ASSUME NEW o \in Generation
             PROVE  /\ obs'[o]["cost"] # Null =>
                         total'[o] = <<obs'[o]["cost"]>>
                    /\ /\ obs'[o]["cost"] = Null /\ obs'[o]["type"] # Null
                       /\ obs'[o]["usage"] # Null
                       /\ obs'[o]["model"] \notin Unpriced \cup {Null}
                       => total'[o] = <<obs'[o]["model"], obs'[o]["usage"]>>
  BY DEF CostFollowsTheRow
<1>1. o \in Obs
  BY ConstantsAssumption
<1>2. obs'[o] = NewObs(S, o)
  BY <1>1 DEF Commit
<1>3. CASE o \in TouchedObs(S)
  <2>1. total'[o] = NewTotal(S, o)
    BY <1>1, <1>3 DEF Commit
  <2>2. QED
    BY <1>2, <2>1 DEF NewTotal
<1>4. CASE o \notin TouchedObs(S)
  <2>1. total'[o] = total[o]
    BY <1>1, <1>4 DEF Commit
  <2>2. Creates(S, o) \cup Updates(S, o) = {}
    BY <1>1, <1>4 DEF TouchedObs
  <2>3. \A c \in ObsColumn : NewObs(S, o)[c] = obs[o][c]
    BY <2>2 DEF NewObs, Carry
  <2>4. QED
    BY <1>2, <2>1, <2>3 DEF Inv, CostFollowsTheRow, ObsColumn
<1>5. QED
  BY <1>3, <1>4

LEMMA CommitInv ==
  ASSUME Inv, NEW S \in SUBSET Sent, Commit(S) PROVE Inv'
<1>1. TypeOK'
  BY CommitTypeOK
<1>2. CommittedWereSent' /\ StartedFirst' /\ StartedOnce'
  <2>1. Sent' = Sent
    BY DEF Commit, Sent
  <2>2. QED
    BY <2>1, CommitFacts
       DEF Inv, CommittedWereSent, StartedFirst, StartedOnce
<1>3. RowsAreCommitted'
  <2>1. \A o \in Obs : o \in TouchedObs(S) <=>
                         Creates(S, o) \cup Updates(S, o) # {}
    BY DEF TouchedObs
  <2>2. rows' = rows \cup TouchedObs(S)
    BY DEF Commit
  <2>3. QED
    BY <2>1, <2>2, CommitFacts DEF Inv, RowsAreCommitted
<1>4. EveryObservationHasATrace'
  BY DEF Inv, EveryObservationHasATrace, Commit, Referenced
<1>5. BeganWithItsCreate'
  BY CommitBegan
<1>6. SentBeatsPlaceholder'
  BY <1>5, CommitBeats
<1>7. CostFollowsTheRow'
  BY CommitCost
<1>8. QED
  BY <1>1, <1>2, <1>3, <1>4, <1>5, <1>6, <1>7 DEF Inv
-----------------------------------------------------------------------------
(* The theorems.                                                           *)

LEMMA NextInv == Inv /\ [Next]_vars => Inv'
<1> SUFFICES ASSUME Inv, [Next]_vars PROVE Inv'
  OBVIOUS
<1>1. ASSUME NEW t \in Trace, NEW cols \in TraceShapes, TraceCreate(t, cols)
      PROVE  Inv'
  <2> DEFINE e == [op |-> "trace_create", id |-> t, cols |-> cols]
  <2>1. e \in Event
    BY DEF Event
  <2>2. Make(e) /\ e.op = "trace_create"
    BY <1>1 DEF TraceCreate
  <2> HIDE DEF e
  <2>3. QED
    BY <2>1, <2>2, MakeInv
<1>2. ASSUME NEW o \in Obs, NEW cols \in CreateShapes, StartSpan(o, cols)
      PROVE  Inv'
  <2> DEFINE e == [op |-> "observation_create", id |-> o, cols |-> cols]
  <2>1. e \in Event
    BY DEF Event
  <2>2. /\ Make(e) /\ e.op = "observation_create" /\ e.id = o
        /\ Of("observation_create", Sent, o) = {}
    BY <1>2 DEF StartSpan
  <2> HIDE DEF e
  <2>3. QED
    BY <2>1, <2>2, MakeInv
<1>3. ASSUME NEW o \in Obs, NEW cols \in UpdateShapes, UpdateSpan(o, cols)
      PROVE  Inv'
  <2> DEFINE e == [op |-> "observation_update", id |-> o, cols |-> cols]
  <2>1. e \in Event
    BY DEF Event
  <2>2. /\ Make(e) /\ e.op = "observation_update" /\ e.id = o
        /\ Of("observation_create", Sent, o) # {}
    BY <1>3 DEF UpdateSpan
  <2> HIDE DEF e
  <2>3. QED
    BY <2>1, <2>2, MakeInv
<1>4. ASSUME NEW s \in Score, SendScore(s) PROVE Inv'
  <2> DEFINE e == [op |-> "score_create", id |-> s]
  <2>1. e \in Event
    BY DEF Event
  <2>2. Make(e) /\ e.op = "score_create"
    BY <1>4 DEF SendScore
  <2> HIDE DEF e
  <2>3. QED
    BY <2>1, <2>2, MakeInv
<1>5. ASSUME NEW S \in SUBSET Sent, Commit(S) PROVE Inv'
  BY <1>5, CommitInv
<1>6. CASE UNCHANGED vars
  <2>1. /\ made' = made /\ event' = event /\ committed' = committed
        /\ traces' = traces /\ trace' = trace /\ rows' = rows
        /\ obs' = obs /\ began' = began /\ total' = total
        /\ score' = score /\ deliveries' = deliveries
    BY <1>6 DEF vars, tables
  <2>2. TypeOK'
    BY <2>1 DEF Inv, TypeOK
  <2>3. CommittedWereSent' /\ StartedFirst' /\ StartedOnce'
    BY <2>1 DEF Inv, CommittedWereSent, StartedFirst, StartedOnce, Sent
  <2>4. RowsAreCommitted' /\ BeganWithItsCreate'
    BY <2>1 DEF Inv, RowsAreCommitted, BeganWithItsCreate, ObsEvents,
                Committed, Of, Proposed
  <2>5. SentBeatsPlaceholder'
    <3>1. \A op, i : Committed(op, i)' = Committed(op, i)
      BY <2>1 DEF Committed, Of
    <3>2. \A op, i, c : Carry(Committed(op, i), c)' = Carry(Committed(op, i), c)
      BY <2>1, <3>1 DEF Carry
    <3>3. \A o, c : Carry(ObsEvents(o), c)' = Carry(ObsEvents(o), c)
      BY <2>1, <3>1 DEF Carry, ObsEvents
    <3>4. QED
      BY <2>1, <3>1, <3>2, <3>3 DEF Inv, SentBeatsPlaceholder
  <2>6. EveryObservationHasATrace' /\ CostFollowsTheRow'
    BY <2>1 DEF Inv, EveryObservationHasATrace, CostFollowsTheRow
  <2>7. QED
    BY <2>2, <2>3, <2>4, <2>5, <2>6 DEF Inv
<1>7. QED
  BY <1>1, <1>2, <1>3, <1>4, <1>5, <1>6 DEF Next

\* What was committed and what the rows hold belong together: the inductive
\* invariant holds in every state of the specification.
THEOREM Invariant == Spec => []Inv
BY InitInv, NextInv, PTL DEF Spec

\* Every variable keeps its type.
THEOREM TypeCorrect == Spec => []TypeOK
<1>1. Inv => TypeOK
  BY DEF Inv
<1>2. QED
  BY <1>1, Invariant, PTL

\* A value some event carried is never lost to a NULL or a placeholder, in
\* whatever order the events of a row are committed, and however often.
THEOREM SentBeats == Spec => []SentBeatsPlaceholder
<1>1. Inv => SentBeatsPlaceholder
  BY DEF Inv
<1>2. QED
  BY <1>1, Invariant, PTL

\* The stub of a trace is committed with the observation that needs it.
THEOREM TraceForEveryObservation == Spec => []EveryObservationHasATrace
<1>1. Inv => EveryObservationHasATrace
  BY DEF Inv
<1>2. QED
  BY <1>1, Invariant, PTL

\* The total cost of a generation agrees with the model and the usage in its
\* row, or with the cost the client sent.
THEOREM CostIsOfTheRow == Spec => []CostFollowsTheRow
<1>1. Inv => CostFollowsTheRow
  BY DEF Inv
<1>2. QED
  BY <1>1, Invariant, PTL

\* The start_time of a create is the earliest time of its span.
LEMMA InvAccepts == Inv => OnceCreatedNothingIsRejected
<1> SUFFICES ASSUME Inv, NEW o \in Obs,
                    NEW k \in Committed("observation_create", o),
                    NEW n \in Sent,
                    event[n].op = "observation_update", event[n].id = o
             PROVE  Accepted({n})
  BY DEF OnceCreatedNothingIsRejected
<1>1. Sent \subseteq Nat /\ committed \subseteq Sent
  BY DEF Sent, Inv, CommittedWereSent
<1>2. /\ k \in Sent
      /\ event[k].op = "observation_create" /\ event[k].id = o
  BY <1>1 DEF Committed, Of
<1>3. \A m \in Sent :
        event[m].op = "observation_update" /\ event[m].id = o => k < m
  <2> TAKE m \in Sent
  <2> HAVE event[m].op = "observation_update" /\ event[m].id = o
  <2>1. PICK j \in Sent : /\ j < m /\ event[j].op = "observation_create"
                          /\ event[j].id = o
    BY DEF Inv, StartedFirst
  <2>2. j = k
    BY <1>2, <2>1 DEF Inv, StartedOnce
  <2>3. QED
    BY <2>1, <2>2
<1>4. o \in rows /\ began[o] = Proposed(k)
  BY DEF Inv, RowsAreCommitted, BeganWithItsCreate, ObsEvents
<1>5. /\ \A p \in Obs : Creates({n}, p) = {}
      /\ Updates({n}, o) = {n}
      /\ TouchedObs({n}) = {o}
  BY DEF TouchedObs, Creates, Updates, Of
<1>6. NewBegan({n}, o) = Proposed(k)
  BY <1>4, <1>5 DEF NewBegan
<1>7. \A m \in Sent : k < m => Proposed(k) <= At(m)
  BY <1>1, <1>2 DEF Proposed, At, Ts
<1>8. CheckHolds({n})
  <2> SUFFICES ASSUME "end_time" \in event[n].cols
               PROVE  Proposed(n) <= At(n) /\ NewBegan({n}, o) <= At(n)
    BY <1>5 DEF CheckHolds, Carry
  <2>1. Proposed(n) = At(n) /\ At(n) \in Nat
    BY <1>1 DEF Proposed, At
  <2>2. QED
    BY <1>3, <1>6, <1>7, <2>1
<1>9. EndHolds({n})
  <2> SUFFICES ASSUME obs[o]["end_time"] # Null
               PROVE  Proposed(k) <= At(obs[o]["end_time"])
    BY <1>5, <1>6 DEF EndHolds
  <2>1. PICK m \in Carry(ObsEvents(o), "end_time") : m = obs[o]["end_time"]
    BY DEF Inv, SentBeatsPlaceholder, ObsColumn
  <2>2. m \in Sent /\ event[m].id = o /\ "end_time" \in event[m].cols
    BY <1>1 DEF Carry, ObsEvents, Committed, Of
  <2>3. CASE event[m].op = "observation_update"
    BY <1>3, <1>7, <2>1, <2>2, <2>3
  <2>4. CASE event[m].op = "observation_create"
    <3>1. m = k
      BY <1>2, <2>2, <2>4 DEF Inv, StartedOnce
    <3>2. Proposed(k) = At(k) /\ At(k) \in Nat
      BY <1>1, <1>2, <2>2, <3>1 DEF Proposed, At
    <3>3. QED
      BY <2>1, <3>1, <3>2
  <2>5. event[m].op \in {"observation_create", "observation_update"}
    BY <2>1 DEF Carry, ObsEvents, Committed, Of
  <2>6. QED
    BY <2>3, <2>4, <2>5
<1>10. QED
  BY <1>8, <1>9 DEF Accepted

\* Once the create of a span is committed, ck_obs_end_after_start rejects no
\* update of it, late or early, by itself.
THEOREM NothingRejected == Spec => []OnceCreatedNothingIsRejected
BY InvAccepts, Invariant, PTL

-----------------------------------------------------------------------------
(* What an update has set.                                                 *)

LEMMA CarriedColumns ==
  ASSUME TypeOK, NEW n \in Id
  PROVE  /\ event[n].op = "observation_create" => event[n].cols \in CreateShapes
         /\ event[n].op = "observation_update" => event[n].cols \in UpdateShapes
<1>1. event[n] \in Event
  BY DEF TypeOK
<1>2. QED
  BY <1>1 DEF Event, NoEvent

\* The value of an update in a column no create can carry: what replaces it
\* comes from an update again.
LEMMA CommitKeepsUpdates ==
  ASSUME Inv, NEW S \in SUBSET Sent, Commit(S),
         NEW o \in Obs, NEW c \in UpdateColumn,
         SetByUpdate(o, c)
  PROVE  SetByUpdate(o, c)'
<1> DEFINE new == Carry(Creates(S, o) \cup Updates(S, o), c)
<1>1. TypeOK /\ S \in SUBSET Id /\ event' = event /\ c \in ObsColumn
  BY CommitFacts DEF Inv, UpdateColumn
<1>2. \A k \in Creates(S, o) : c \notin event[k].cols
  BY <1>1, CarriedColumns DEF Creates, Of, UpdateColumn
<1>3. obs'[o][c] = NewObs(S, o)[c]
  BY DEF Commit
<1>4. CASE new = {}
  <2>1. NewObs(S, o)[c] = obs[o][c]
    BY <1>1, <1>4, ObsColumns
  <2>2. QED
    BY <1>1, <1>3, <2>1 DEF SetByUpdate
<1>5. CASE new # {}
  <2>1. NewObs(S, o)[c] \in new
    BY <1>1, <1>5, ObsColumns
  <2>2. new \subseteq Updates(S, o)
    BY <1>2 DEF Carry
  <2>3. obs'[o][c] # Null
    BY <1>1, <1>3, <2>1, <2>2 DEF Updates, Of, Id, Null
  <2>4. QED
    BY <1>1, <1>3, <2>1, <2>2, <2>3 DEF SetByUpdate, Updates, Of
<1>6. QED
  BY <1>4, <1>5

\* Making an event changes no row and no event there is.
LEMMA MakeKeepsUpdates ==
  ASSUME Inv, NEW e \in Event, Make(e), NEW o \in Obs, NEW c \in ObsColumn,
         obs[o][c] # Null
  PROVE  obs' = obs /\ event'[obs[o][c]] = event[obs[o][c]]
<1>1. obs[o][c] \in committed
  BY DEF Inv, SentBeatsPlaceholder, Carry, ObsEvents, Committed, Of
<1>2. obs[o][c] \in Sent /\ obs' = obs
  BY <1>1 DEF Inv, CommittedWereSent, Make, tables
<1>3. QED
  BY <1>2, MakeFacts

LEMMA StepKeepsUpdates ==
  ASSUME Inv, Next, NEW o \in Obs, NEW c \in UpdateColumn,
         SetByUpdate(o, c)
  PROVE  SetByUpdate(o, c)'
<1>1. c \in ObsColumn
  BY DEF UpdateColumn
<1>2. ASSUME NEW e \in Event, Make(e)
      PROVE  SetByUpdate(o, c)'
  BY <1>1, <1>2, MakeKeepsUpdates DEF SetByUpdate
<1>3. CASE \E S \in SUBSET Sent : Commit(S)
  BY <1>3, CommitKeepsUpdates
<1>4. CASE ~ \E S \in SUBSET Sent : Commit(S)
  <2>1. /\ \A t \in Trace, cols \in TraceShapes :
             [op |-> "trace_create", id |-> t, cols |-> cols] \in Event
        /\ \A p \in Obs, cols \in CreateShapes :
             [op |-> "observation_create", id |-> p, cols |-> cols] \in Event
        /\ \A p \in Obs, cols \in UpdateShapes :
             [op |-> "observation_update", id |-> p, cols |-> cols] \in Event
        /\ \A s \in Score : [op |-> "score_create", id |-> s] \in Event
    BY DEF Event
  <2>2. \E e \in Event : Make(e)
    BY <1>4, <2>1 DEF Next, TraceCreate, StartSpan, UpdateSpan, SendScore
  <2>3. QED
    BY <1>2, <2>2
<1>5. QED
  BY <1>3, <1>4

\* In a column that only updates carry, a value an update set is never taken back
\* by a create or a stub, whatever comes late or again (worker.py 30-31).
THEOREM UpdateColumnsAreKept == Spec => UpdatesAreKept
<1>1. Inv /\ [Next]_vars =>
        [\A o \in Obs, c \in UpdateColumn :
           SetByUpdate(o, c) => SetByUpdate(o, c)']_vars
  BY StepKeepsUpdates
<1>2. QED
  BY <1>1, InitInv, NextInv, PTL DEF Spec, UpdatesAreKept
-----------------------------------------------------------------------------
(* Retries.                                                                *)

\* A commit changes no event, so that what a batch T writes depends on it only
\* through the rows.
LEMMA SameEvents ==
  ASSUME event' = event, NEW T
  PROVE  /\ \A op, i : Of(op, T, i)' = Of(op, T, i)
         /\ \A o : /\ Creates(T, o)' = Creates(T, o)
                   /\ Updates(T, o)' = Updates(T, o)
         /\ TouchedObs(T)' = TouchedObs(T)
         /\ TouchedTraces(T)' = TouchedTraces(T)
         /\ TouchedScores(T)' = TouchedScores(T)
         /\ Referenced(T)' = Referenced(T)
<1>1. \A op, i : Of(op, T, i)' = Of(op, T, i)
  BY DEF Of
<1>2. \A o : /\ Creates(T, o)' = Creates(T, o)
             /\ Updates(T, o)' = Updates(T, o)
  BY <1>1 DEF Creates, Updates
<1>3. TouchedObs(T)' = TouchedObs(T)
  BY <1>2 DEF TouchedObs
<1>4. /\ TouchedTraces(T)' = TouchedTraces(T)
      /\ TouchedScores(T)' = TouchedScores(T)
  BY <1>1 DEF TouchedTraces, TouchedScores
<1>5. Referenced(T)' = Referenced(T)
  BY <1>3 DEF Referenced
<1>6. QED
  BY <1>1, <1>2, <1>3, <1>4, <1>5

LEMMA TraceAgain ==
  ASSUME event' = event, NEW T, NEW t,
         \A c \in TraceColumn :
           Carry(Of("trace_create", T, t), c) = {} => trace'[t][c] = trace[t][c]
  PROVE  NewTrace(T, t)' = NewTrace(T, t)
<1> DEFINE new == Of("trace_create", T, t)
<1>1. Of("trace_create", T, t)' = new
  BY SameEvents
<1>2. ASSUME NEW c \in TraceColumn
      PROVE  /\ Carry(new, c)' = Carry(new, c)
             /\ LastOfGroups(new, Carry(new, c))' =
                  LastOfGroups(new, Carry(new, c))
  <2>1. Carry(new, c)' = Carry(new, c)
    BY <1>1 DEF Carry
  <2>2. \A n : Opened(new, n)' = Opened(new, n)
    BY <1>1 DEF Opened
  <2>3. QED
    BY <1>1, <2>1, <2>2 DEF LastOfGroups
<1>3. ASSUME NEW c \in TraceColumn
      PROVE  (IF Carry(new, c) # {} THEN LastOfGroups(new, Carry(new, c))
                                    ELSE trace[t][c])'
             = (IF Carry(new, c) # {} THEN LastOfGroups(new, Carry(new, c))
                                      ELSE trace[t][c])
  BY <1>2, <1>3
<1>4. QED
  BY <1>3, Zenon DEF NewTrace

LEMMA ObsAgain ==
  ASSUME event' = event, NEW T, NEW o,
         \A c \in ObsColumn :
           Carry(Creates(T, o) \cup Updates(T, o), c) = {} =>
             obs'[o][c] = obs[o][c]
  PROVE  NewObs(T, o)' = NewObs(T, o)
<1>1. Creates(T, o)' = Creates(T, o) /\ Updates(T, o)' = Updates(T, o)
  BY SameEvents
<1>2. ASSUME NEW c \in ObsColumn
      PROVE  /\ Carry(Creates(T, o), c)' = Carry(Creates(T, o), c)
             /\ Carry(Updates(T, o), c)' = Carry(Updates(T, o), c)
             /\ Carry(Creates(T, o) \cup Updates(T, o), c) =
                  Carry(Creates(T, o), c) \cup Carry(Updates(T, o), c)
  BY <1>1 DEF Carry
<1>3. ASSUME NEW c \in ObsColumn
      PROVE  (IF Carry(Updates(T, o), c) # {} THEN Last(Carry(Updates(T, o), c))
              ELSE IF Carry(Creates(T, o), c) # {} THEN Last(Carry(Creates(T, o), c))
              ELSE obs[o][c])'
             = (IF Carry(Updates(T, o), c) # {} THEN Last(Carry(Updates(T, o), c))
                ELSE IF Carry(Creates(T, o), c) # {} THEN Last(Carry(Creates(T, o), c))
                ELSE obs[o][c])
  BY <1>2, <1>3
<1>4. QED
  BY <1>3, Zenon DEF NewObs

LEMMA BeganAgain ==
  ASSUME event' = event, NEW T, NEW o,
         \/ began'[o] = began[o] /\ (o \in rows' <=> o \in rows)
         \/ began'[o] = NewBegan(T, o) /\ o \in rows'
  PROVE  NewBegan(T, o)' = NewBegan(T, o)
<1>1. Creates(T, o)' = Creates(T, o) /\ Updates(T, o)' = Updates(T, o)
  BY SameEvents
<1>2. Proposed(Last(Creates(T, o)))' = Proposed(Last(Creates(T, o)))
  BY <1>1 DEF Proposed
<1>3. Proposed(First(Updates(T, o)))' = Proposed(First(Updates(T, o)))
  BY <1>1 DEF Proposed
<1>4. QED
  BY <1>1, <1>2, <1>3 DEF NewBegan

LEMMA TotalAgain ==
  ASSUME NEW T, NEW o, NewObs(T, o)' = NewObs(T, o),
         total'[o] = total[o] \/ total'[o] = NewTotal(T, o)
  PROVE  NewTotal(T, o)' = NewTotal(T, o)
BY DEF NewTotal

\* Postgres accepts again what it has accepted, as long as the rows are those
\* that the batch left behind.
LEMMA AcceptedAgain ==
  ASSUME event' = event, NEW T \in SUBSET Id, Accepted(T),
         \A o \in TouchedObs(T) :
           /\ NewBegan(T, o)' = NewBegan(T, o)
           /\ \/ obs'[o] = obs[o]
              \/ obs'[o] = NewObs(T, o)
  PROVE  Accepted(T)'
<1>1. TouchedObs(T)' = TouchedObs(T) /\ TouchedObs(T) \subseteq Obs
  BY SameEvents DEF TouchedObs
<1>2. CheckHolds(T)'
  <2>1. ASSUME NEW o \in TouchedObs(T)
        PROVE  Carry(Creates(T, o) \cup Updates(T, o), "end_time")' =
                 Carry(Creates(T, o) \cup Updates(T, o), "end_time")
    BY SameEvents DEF Carry
  <2>2. \A n : Proposed(n)' = Proposed(n)
    BY DEF Proposed
  <2>3. CheckHolds(T)
    BY DEF Accepted
  <2>4. QED
    BY <1>1, <2>1, <2>2, <2>3 DEF CheckHolds
<1>3. ASSUME NEW o \in TouchedObs(T), obs'[o]["end_time"] # Null
      PROVE  NewBegan(T, o) <= At(obs'[o]["end_time"])
  <2>1. CASE obs'[o] = obs[o]
    BY <1>3, <2>1 DEF Accepted, EndHolds
  <2>2. CASE obs'[o] = NewObs(T, o)
    <3> DEFINE who == Carry(Creates(T, o) \cup Updates(T, o), "end_time")
    <3>1. IF who = {} THEN NewObs(T, o)["end_time"] = obs[o]["end_time"]
                      ELSE NewObs(T, o)["end_time"] \in who
      BY <1>1, ObsColumns DEF ObsColumn
    <3>2. CASE who = {}
      BY <1>3, <2>2, <3>1, <3>2 DEF Accepted, EndHolds
    <3>3. CASE who # {}
      BY <2>2, <3>1, <3>3 DEF Accepted, CheckHolds
    <3>4. QED
      BY <3>2, <3>3
  <2>3. QED
    BY <1>3, <2>1, <2>2
<1>4. EndHolds(T)'
  BY <1>1, <1>3 DEF EndHolds
<1>5. QED
  BY <1>2, <1>4 DEF Accepted

\* What has been committed can be committed again.
LEMMA AbsorbedAfter ==
  ASSUME Inv, NEW S \in SUBSET Sent, Commit(S) PROVE Absorbed(S)'
<1>1. S \in SUBSET Id /\ event' = event
  BY CommitFacts
<1>2. /\ Accepted(S)
      /\ traces' = traces \cup Referenced(S) \cup TouchedTraces(S)
      /\ rows' = rows \cup TouchedObs(S)
      /\ \A t \in Trace : trace'[t] = NewTrace(S, t)
      /\ \A o \in Obs : obs'[o] = NewObs(S, o) /\ began'[o] = NewBegan(S, o)
      /\ \A o \in TouchedObs(S) : total'[o] = NewTotal(S, o)
      /\ TouchedObs(S) \subseteq Obs /\ TouchedTraces(S) \subseteq Trace
  BY DEF Commit, TouchedObs, TouchedTraces
<1>3. ASSUME NEW t \in TouchedTraces(S) PROVE NewTrace(S, t)' = trace'[t]
  <2>1. t \in Trace /\ trace'[t] = NewTrace(S, t)
    BY <1>2
  <2>2. \A c \in TraceColumn :
          Carry(Of("trace_create", S, t), c) = {} => trace'[t][c] = trace[t][c]
    BY <1>1, <2>1, TraceColumns
  <2>3. QED
    BY <1>1, <2>1, <2>2, TraceAgain
<1>4. ASSUME NEW o \in TouchedObs(S)
      PROVE  /\ NewObs(S, o)' = obs'[o]
             /\ NewBegan(S, o)' = NewBegan(S, o)
             /\ NewBegan(S, o)' = began'[o]
             /\ NewTotal(S, o)' = total'[o]
  <2>1. /\ o \in Obs /\ o \in rows'
        /\ obs'[o] = NewObs(S, o) /\ began'[o] = NewBegan(S, o)
        /\ total'[o] = NewTotal(S, o)
    BY <1>2
  <2>2. \A c \in ObsColumn :
          Carry(Creates(S, o) \cup Updates(S, o), c) = {} =>
            obs'[o][c] = obs[o][c]
    BY <1>1, <2>1, ObsColumns
  <2>3. NewObs(S, o)' = NewObs(S, o)
    BY <1>1, <2>2, ObsAgain
  <2>4. NewBegan(S, o)' = NewBegan(S, o)
    BY <1>1, <2>1, BeganAgain
  <2>5. NewTotal(S, o)' = NewTotal(S, o)
    BY <2>1, <2>3, TotalAgain
  <2>6. QED
    BY <2>1, <2>3, <2>4, <2>5
<1>5. Accepted(S)'
  BY <1>1, <1>2, <1>4, AcceptedAgain
<1>6. ASSUME NEW s \in TouchedScores(S) PROVE score'[s] # Null
  <2> DEFINE new == Of("score_create", S, s)
  <2>1. s \in Score /\ new # {} /\ new \in SUBSET Id
    BY <1>1 DEF TouchedScores, Of
  <2>2. score'[s] = IF score[s] = Null /\ new # {} THEN First(new)
                                                   ELSE score[s]
    BY <2>1 DEF Commit
  <2>3. First(new) \in Id
    <3> HIDE DEF new
    <3> QED
      BY <2>1, FirstIn
  <2>4. \A n \in Id : n # Null
    BY ConstantsAssumption DEF Id, Null
  <2>5. QED
    BY <2>1, <2>2, <2>3, <2>4
<1>7. QED
  BY <1>1, <1>2, <1>3, <1>4, <1>5, <1>6, SameEvents DEF Absorbed

\* ... and stays so as long as the rows it writes are left alone.
LEMMA AbsorbedStays ==
  ASSUME Inv, NEW S \in SUBSET Sent, Commit(S),
         NEW T \in SUBSET Sent, Absorbed(T), ~ Meet(S, T)
  PROVE  Absorbed(T)'
<1>1. S \in SUBSET Id /\ T \in SUBSET Id /\ event' = event
  BY CommitFacts
<1>2. /\ traces \subseteq traces' /\ rows \subseteq rows'
      /\ TouchedObs(T) \subseteq Obs /\ TouchedTraces(T) \subseteq Trace
      /\ TouchedScores(T) \subseteq Score
  BY DEF Commit, TouchedObs, TouchedTraces, TouchedScores
<1>3. ASSUME NEW t \in TouchedTraces(T)
      PROVE  NewTrace(T, t)' = NewTrace(T, t) /\ trace'[t] = trace[t]
  <2>1. t \in Trace /\ Of("trace_create", S, t) = {}
    BY <1>3 DEF Meet, TouchedTraces
  <2>2. trace'[t] = NewTrace(S, t) /\ trace[t] \in [TraceColumn -> Value]
    BY <2>1 DEF Commit, Inv, TypeOK
  <2>3. NewTrace(S, t) = [c \in TraceColumn |-> trace[t][c]]
    BY <2>1 DEF NewTrace, Carry
  <2>4. trace'[t] = trace[t]
    BY <2>2, <2>3
  <2>5. QED
    BY <1>1, <2>4, TraceAgain
<1>4. ASSUME NEW o \in TouchedObs(T)
      PROVE  /\ obs'[o] = obs[o] /\ began'[o] = began[o]
             /\ total'[o] = total[o]
             /\ NewObs(T, o)' = NewObs(T, o)
             /\ NewBegan(T, o)' = NewBegan(T, o)
             /\ NewTotal(T, o)' = NewTotal(T, o)
  <2>1. /\ o \in Obs /\ o \notin TouchedObs(S) /\ o \in rows
        /\ Creates(S, o) = {} /\ Updates(S, o) = {}
    BY <1>4 DEF Meet, TouchedObs, Absorbed
  <2>2. /\ obs'[o] = NewObs(S, o) /\ began'[o] = NewBegan(S, o)
        /\ total'[o] = total[o]
        /\ obs[o] \in [ObsColumn -> Value]
    BY <2>1 DEF Commit, Inv, TypeOK
  <2>3. NewObs(S, o) = [c \in ObsColumn |-> obs[o][c]]
    BY <2>1 DEF NewObs, Carry
  <2>4. obs'[o] = obs[o] /\ began'[o] = began[o]
    BY <2>1, <2>2, <2>3 DEF NewBegan
  <2>5. NewObs(T, o)' = NewObs(T, o)
    BY <1>1, <2>4, ObsAgain
  <2>6. NewBegan(T, o)' = NewBegan(T, o)
    BY <1>1, <1>2, <2>1, <2>4, BeganAgain
  <2>7. NewTotal(T, o)' = NewTotal(T, o)
    BY <2>2, <2>5, TotalAgain
  <2>8. QED
    BY <2>2, <2>4, <2>5, <2>6, <2>7
<1>5. Accepted(T)'
  BY <1>1, <1>4, AcceptedAgain DEF Absorbed
<1>6. ASSUME NEW s \in TouchedScores(T) PROVE score'[s] # Null
  BY <1>2, <1>6 DEF Absorbed, Commit
<1>7. QED
  BY <1>1, <1>2, <1>3, <1>4, <1>5, <1>6, SameEvents DEF Absorbed

\* What is absorbed changes nothing.
LEMMA AbsorbedIsIdle ==
  ASSUME Inv, NEW S \in SUBSET Sent, Commit(S), Absorbed(S)
  PROVE  UNCHANGED tables
<1>t. /\ trace \in [Trace -> [TraceColumn -> Value]]
      /\ obs \in [Obs -> [ObsColumn -> Value]] /\ began \in [Obs -> Nat]
      /\ DOMAIN total = Obs /\ total = [o \in Obs |-> total[o]]
      /\ score \in [Score -> Value]
  BY DEF Inv, TypeOK
<1>1. traces' = traces /\ rows' = rows
  BY DEF Commit, Absorbed, TouchedTraces
<1>2. ASSUME NEW t \in Trace PROVE NewTrace(S, t) = trace[t]
  <2>1. CASE t \in TouchedTraces(S)
    BY <2>1 DEF Absorbed
  <2>2. CASE t \notin TouchedTraces(S)
    <3>1. NewTrace(S, t) = [c \in TraceColumn |-> trace[t][c]]
      BY <2>2 DEF TouchedTraces, NewTrace, Carry
    <3>2. QED
      BY <1>t, <3>1
  <2>3. QED
    BY <2>1, <2>2
<1>3. ASSUME NEW o \in Obs
      PROVE  NewObs(S, o) = obs[o] /\ NewBegan(S, o) = began[o]
  <2>1. CASE o \in TouchedObs(S)
    BY <2>1 DEF Absorbed
  <2>2. CASE o \notin TouchedObs(S)
    <3>1. Creates(S, o) = {} /\ Updates(S, o) = {}
      BY <2>2 DEF TouchedObs
    <3>2. NewObs(S, o) = [c \in ObsColumn |-> obs[o][c]]
      BY <3>1 DEF NewObs, Carry
    <3>3. QED
      BY <1>t, <3>1, <3>2 DEF NewBegan
  <2>3. QED
    BY <2>1, <2>2
<1>4. trace' = trace /\ obs' = obs /\ began' = began
  BY <1>t, <1>2, <1>3 DEF Commit
<1>5. total' = total
  BY <1>t DEF Commit, Absorbed
<1>6. score' = score
  <2>1. ASSUME NEW s \in Score, Of("score_create", S, s) # {}
        PROVE  score[s] # Null
    BY <2>1 DEF Absorbed, TouchedScores
  <2>2. score' = [s \in Score |-> score[s]]
    BY <2>1 DEF Commit
  <2>3. QED
    BY <1>t, <2>2
<1>7. QED
  BY <1>1, <1>4, <1>5, <1>6 DEF tables

\* The half of "retried batches are safe" (openweave.proto 15) that the code
\* keeps: a batch redelivered after a crash before its XACK is accepted again
\* and changes no row, unless another batch has written one of its rows since.
THEOREM RetriesAreIdempotent == Spec => RetriesAreSafeUntilOvertaken
<1>1. Inv /\ [Next]_vars =>
        [\A S \in SUBSET Sent :
           Commit(S) =>
             /\ Absorbed(S)'
             /\ Absorbed(S) => UNCHANGED tables
             /\ \A T \in SUBSET Sent :
                  Absorbed(T) /\ ~ Meet(S, T) => Absorbed(T)']_vars
  BY AbsorbedAfter, AbsorbedStays, AbsorbedIsIdle
<1>2. QED
  BY <1>1, InitInv, NextInv, PTL DEF Spec, RetriesAreSafeUntilOvertaken
=============================================================================
