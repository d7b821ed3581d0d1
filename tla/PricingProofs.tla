---------------------------- MODULE PricingProofs ----------------------------
(***************************************************************************)
(* Proofs about Pricing, for any workers, observations, events and prices: *)
(* the client's cost stays, a price cache is never older than TTL and the  *)
(* time of its SELECT, and a cost is the price in force at the start, of   *)
(* the model the row names.                                                *)
(***************************************************************************)
EXTENDS Pricing, TLAPS

\* What the upsert makes of a row is a row.
LEMMA MergedRow ==
  ASSUME NEW r \in Row \cup {None}, NEW e \in Event
  PROVE  Merge(r, e) \in Row
<1> DEFINE old == IF r = None
                  THEN [type |-> "SPAN", model |-> None, usage |-> FALSE,
                        client |-> FALSE, start |-> Says[e].at, cost |-> None]
                  ELSE r
<1>1. Says[e] \in Sent /\ StartOf[ObsOf[e]] \in Time
  BY PricingAssumption
<1>2. old \in Row
  BY <1>1 DEF Row, Sent
<1>3. Merge(r, e) =
        [type   |-> IF Says[e].create THEN "GENERATION" ELSE old.type,
         start  |-> IF Says[e].create THEN StartOf[ObsOf[e]] ELSE old.start,
         model  |-> IF Says[e].model = None THEN old.model ELSE Says[e].model,
         usage  |-> old.usage \/ Says[e].usage,
         client |-> old.client \/ Says[e].client,
         cost   |-> IF Says[e].client THEN Client ELSE old.cost]
  BY DEF Merge
<1> HIDE DEF old
<1>4. QED
  BY <1>1, <1>2, <1>3 DEF Row, Sent

\* A cost that Resolve finds is a row of the worker's cache.
LEMMA ComputedPrices ==
  ASSUME NEW rows, NEW r, NEW o PROVE Computed(rows, r, o) \subseteq rows
BY DEF Computed, Match

-----------------------------------------------------------------------------
LEMMA TypeInit == Init => TypeOK
BY PricingAssumption DEF Init, TypeOK, Time, Cache, Fetched, NoAnswer

LEMMA TypeNext == TypeOK /\ Busy /\ [Next]_vars => TypeOK'
<1> SUFFICES ASSUME TypeOK, Busy, [Next]_vars PROVE TypeOK'
  OBVIOUS
<1>n. NoAnswer \in Fetched
  BY PricingAssumption DEF NoAnswer, Fetched, Time
<1> USE DEF TypeOK
<1>1. CASE UNCHANGED vars
  BY <1>1 DEF vars
<1>2. CASE Tick
  <2>1. now + 1 \in Time
    BY <1>2, PricingAssumption DEF Tick, Time
  <2>2. QED
    BY <1>2, <2>1 DEF Tick
<1>3. ASSUME NEW p \in Price, AddPrice(p) PROVE TypeOK'
  BY <1>3 DEF AddPrice
<1>4. ASSUME NEW w \in Worker, NEW e \in Event, Write(w, e) PROVE TypeOK'
  <2>1. ObsOf[e] \in Generation
    BY PricingAssumption
  <2>2. Merge(obs[ObsOf[e]], e) \in Row
    BY <2>1, MergedRow
  <2>3. QED
    BY <1>4, <2>2 DEF Write
<1>5. ASSUME NEW w \in Worker, Refresh(w) PROVE TypeOK'
  <2>1. [rows |-> table, read |-> now] \in Fetched
    BY DEF Fetched
  <2>2. QED
    BY <1>5, <2>1 DEF Refresh
<1>a. ASSUME NEW w \in Worker, Load(w) PROVE TypeOK'
  <2>1. [rows |-> fetched[w].rows \ Invalid, at |-> now,
         read |-> fetched[w].read] \in Cache
    BY <1>a DEF Fetched, Cache
  <2>2. QED
    BY <1>a, <1>n, <2>1 DEF Load
<1>6. ASSUME NEW w \in Worker, Resolve(w) PROVE TypeOK'
  <2>1. CASE draft' = draft
    BY <1>6, <2>1 DEF Resolve
  <2>2. CASE draft' # draft
    <3>1. PICK p \in cache[w].rows :
             draft' = [draft EXCEPT ![w].cost = p] /\ Selected(draft[w])
      BY <1>6, <2>2, ComputedPrices DEF Resolve
    <3>2. p \in Price
      BY <3>1 DEF Cache
    <3>3. draft[w] \in Row /\ draft' = [draft EXCEPT ![w] = [draft[w] EXCEPT !.cost = p]]
      BY <1>6, <3>1 DEF Resolve, Busy
    <3>4. [draft[w] EXCEPT !.cost = p] \in Row
      BY <3>2, <3>3 DEF Row
    <3>5. QED
      BY <1>6, <3>3, <3>4 DEF Resolve
  <2>3. QED
    BY <2>1, <2>2
<1>7. ASSUME NEW w \in Worker, Commit(w) PROVE TypeOK'
  BY <1>7, <1>n DEF Commit, End, Cache
<1>8. ASSUME NEW w \in Worker, Rollback(w) PROVE TypeOK'
  BY <1>8, <1>n DEF Rollback, End
<1>9. QED
  BY <1>1, <1>2, <1>3, <1>4, <1>5, <1>a, <1>6, <1>7, <1>8
     DEF Next

LEMMA BusyNext == TypeOK /\ Busy /\ [Next]_vars => Busy'
<1> SUFFICES ASSUME TypeOK, Busy, [Next]_vars, NEW v \in Worker, pc'[v] # "idle"
             PROVE  draft'[v] \in Row
  BY DEF Busy
<1> USE DEF TypeOK
<1>1. CASE pc'[v] = pc[v] /\ draft'[v] = draft[v]
  BY <1>1 DEF Busy
<1>2. ASSUME NEW w \in Worker, NEW e \in Event, Write(w, e) PROVE draft'[v] \in Row
  <2>1. Merge(obs[ObsOf[e]], e) \in Row
    BY MergedRow, PricingAssumption
  <2>2. QED
    BY <1>1, <1>2, <2>1 DEF Write
<1>3. ASSUME NEW w \in Worker, Refresh(w) \/ Load(w) PROVE draft'[v] \in Row
  BY <1>3 DEF Refresh, Load, Busy
<1>4. ASSUME NEW w \in Worker, Resolve(w) PROVE draft'[v] \in Row
  <2>1. draft[w] \in Row
    BY <1>4 DEF Resolve, Busy
  <2>2. \/ draft' = draft
        \/ \E p \in Price : draft' = [draft EXCEPT ![w] = [draft[w] EXCEPT !.cost = p]]
    BY <1>4, ComputedPrices DEF Resolve, Cache
  <2>3. \A p \in Price : [draft[w] EXCEPT !.cost = p] \in Row
    BY <2>1 DEF Row
  <2>4. CASE v = w
    BY <2>1, <2>2, <2>3, <2>4
  <2>5. CASE v # w
    BY <1>1, <1>4, <2>2, <2>5 DEF Resolve
  <2>6. QED
    BY <2>4, <2>5
<1>5. ASSUME NEW w \in Worker, Commit(w) \/ Rollback(w) PROVE draft'[v] \in Row
  <2>1. End(w)
    BY <1>5 DEF Commit, Rollback
  <2>2. QED
    BY <1>1, <2>1 DEF End
<1>6. CASE UNCHANGED <<pc, draft>>
  BY <1>1, <1>6
<1>7. QED
  BY <1>2, <1>3, <1>4, <1>5, <1>6 DEF Next, Tick, AddPrice, vars

-----------------------------------------------------------------------------
\* Merging and resolving keep a client's cost, and give no other row one.
LEMMA MergeOwns ==
  ASSUME NEW r \in Row \cup {None}, NEW e \in Event, OwnCost(r)
  PROVE  OwnCost(Merge(r, e))
<1> DEFINE old == IF r = None
                  THEN [type |-> "SPAN", model |-> None, usage |-> FALSE,
                        client |-> FALSE, start |-> Says[e].at, cost |-> None]
                  ELSE r
<1>1. Says[e] \in Sent /\ None # Client
  BY PricingAssumption
<1>2. old.client \in BOOLEAN /\ (old.client <=> old.cost = Client)
  <2>1. CASE r = None
    BY <1>1, <2>1
  <2>2. CASE r # None
    BY <2>2 DEF OwnCost, Row
  <2>3. QED
    BY <2>1, <2>2
<1>3. /\ Merge(r, e).client = (old.client \/ Says[e].client)
      /\ Merge(r, e).cost = IF Says[e].client THEN Client ELSE old.cost
  BY DEF Merge
<1> HIDE DEF old
<1>4. Says[e].client \in BOOLEAN
  BY <1>1 DEF Sent
<1>5. QED
  BY <1>2, <1>3, <1>4 DEF OwnCost

LEMMA OwnedNext == TypeOK /\ Busy /\ Owned /\ [Next]_vars => Owned'
<1> SUFFICES ASSUME TypeOK, Busy, Owned, [Next]_vars PROVE Owned'
  OBVIOUS
<1> USE DEF TypeOK
<1>1. CASE UNCHANGED <<obs, draft>>
  BY <1>1 DEF Owned
<1>2. ASSUME NEW w \in Worker, NEW e \in Event, Write(w, e) PROVE Owned'
  <2>1. OwnCost(Merge(obs[ObsOf[e]], e))
    BY MergeOwns, PricingAssumption DEF Owned
  <2>2. QED
    BY <1>2, <2>1 DEF Write, Owned
<1>3. ASSUME NEW w \in Worker, Resolve(w) PROVE Owned'
  <2>1. draft[w] \in Row
    BY <1>3 DEF Resolve, Busy
  <2>2. CASE draft' = draft
    BY <1>1, <1>3, <2>2 DEF Resolve
  <2>3. ASSUME NEW p \in Price, Selected(draft[w]),
               draft' = [draft EXCEPT ![w] = [draft[w] EXCEPT !.cost = p]]
        PROVE  Owned'
    <3>1. /\ draft'[w].cost = p /\ draft'[w].client = draft[w].client
          /\ draft[w].client = FALSE
      BY <2>1, <2>3 DEF Selected, Row
    <3>2. OwnCost(draft'[w])
      BY <3>1, PricingAssumption DEF OwnCost
    <3>3. \A v \in Worker \ {w} : draft'[v] = draft[v]
      BY <2>3
    <3>4. QED
      BY <1>3, <3>2, <3>3 DEF Owned, Resolve
  <2>4. QED
    BY <1>3, <2>2, <2>3, ComputedPrices DEF Resolve, Cache
<1>4. ASSUME NEW w \in Worker, Commit(w) PROVE Owned'
  <2>1. \A o \in Generation : obs'[o] = obs[o] \/ obs'[o] = draft[w]
    BY <1>4 DEF Commit
  <2>2. \A v \in Worker : draft'[v] = draft[v] \/ draft'[v] = None
    BY <1>4 DEF Commit, End
  <2>3. QED
    BY <2>1, <2>2 DEF Owned, OwnCost
<1>5. ASSUME NEW w \in Worker, Rollback(w) PROVE Owned'
  BY <1>5 DEF Rollback, End, Owned, OwnCost
<1>6. QED
  BY <1>1, <1>2, <1>3, <1>4, <1>5 DEF Next, Tick, AddPrice, Refresh, Load, vars

-----------------------------------------------------------------------------
LEMMA LoadedNext ==
  ASSUME TypeOK, [Next]_vars, NEW v \in Worker, Loaded(v)
  PROVE  Loaded(v)'
<1>0. /\ \A t \in Time : t \in Nat /\ t # None
      /\ TTL \in Nat \ {0} /\ now \in Nat /\ now # None
      /\ table \subseteq Price /\ added \in [Price -> Time]
      /\ pc \in [Worker -> {"idle", "refresh", "load", "resolve", "commit"}]
      /\ cache \in [Worker -> Cache] /\ asked \in [Worker -> Time \cup {None}]
      /\ fetched \in [Worker -> Fetched]
      /\ \A p \in Price : added[p] \in Nat
  BY PricingAssumption DEF TypeOK, Time
<1>t. /\ cache[v].at \in Time \cup {None} /\ cache[v].read \in Nat
      /\ cache[v].at # None =>
           cache[v].at \in Nat /\ cache[v].read <= now /\ cache[v].at <= now
      /\ fetched[v].read \in Nat
  BY <1>0 DEF Cache, Fetched, Loaded
<1> USE <1>0
\* The table and the worker stay as they are; time may pass.
<1>1. CASE /\ UNCHANGED <<table, added>> /\ now' \in {now, now + 1}
           /\ cache'[v] = cache[v]
           /\ \/ /\ asked'[v] = asked[v] /\ fetched'[v] = fetched[v]
                 /\ \/ pc'[v] = pc[v]
                    \/ pc[v] = "resolve" /\ pc'[v] = "commit"
              \/ pc'[v] \in {"idle", "refresh"}
  <2>1. /\ cache[v].at # None => cache[v].at <= now'
        /\ fetched[v].read <= now => fetched[v].read <= now'
    BY <1>1, <1>t
  <2>2. table' = table /\ added' = added
    BY <1>1
  <2>3. \/ /\ asked'[v] = asked[v] /\ fetched'[v] = fetched[v]
           /\ pc'[v] = "load" => pc[v] = "load"
           /\ pc'[v] \in {"resolve", "commit"} => pc[v] \in {"resolve", "commit"}
        \/ pc'[v] \in {"idle", "refresh"}
    BY <1>1
  <2>4. cache'[v] = cache[v]
    BY <1>1
  <2>5. QED
    BY <2>1, <2>2, <2>3, <2>4 DEF Loaded
<1>2. CASE Tick
  BY <1>1, <1>2 DEF Tick
\* A row that is added now was not there before any SELECT.
<1>3. ASSUME NEW p \in Price, AddPrice(p) PROVE Loaded(v)'
  <2>1. /\ table' = table \cup {p} /\ p \notin table
        /\ added'[p] = now /\ \A q \in Price \ {p} : added'[q] = added[q]
        /\ UNCHANGED <<now, pc, cache, fetched, asked>>
    BY <1>3 DEF AddPrice
  <2>2. ASSUME NEW q \in table', NEW read \in Nat, added'[q] < read, read <= now
        PROVE  q \in table /\ added[q] < read
    <3>1. q # p
      BY <2>1, <2>2
    <3>2. QED
      BY <2>1, <2>2, <3>1
  <2>3. QED
    BY <1>t, <2>1, <2>2 DEF Loaded
<1>4. ASSUME NEW w \in Worker, Refresh(w) PROVE Loaded(v)'
  <2>1. UNCHANGED <<now, table, added, cache>>
    BY <1>4 DEF Refresh
  <2>2. CASE v # w
    BY <1>1, <1>4, <2>1, <2>2 DEF Refresh
  <2>3. CASE v = w /\ Young(v)
    <3>1. pc'[v] = "resolve" /\ asked'[v] = now
      BY <1>4, <2>3 DEF Refresh
    <3>2. cache[v].at # None /\ now < cache[v].at + TTL
      BY <2>3 DEF Young
    <3>3. QED
      BY <2>1, <3>1, <3>2 DEF Loaded
  <2>4. CASE v = w /\ ~Young(v)
    <3>1. /\ pc'[v] = "load" /\ asked'[v] = now
          /\ fetched'[v] = [rows |-> table, read |-> now]
      BY <1>4, <2>4 DEF Refresh
    <3>2. fetched'[v].rows = table /\ fetched'[v].read = now
      BY <3>1
    <3>3. QED
      BY <2>1, <3>1, <3>2 DEF Loaded
  <2>5. QED
    BY <2>2, <2>3, <2>4
<1>5. ASSUME NEW w \in Worker, Load(w) PROVE Loaded(v)'
  <2>1. UNCHANGED <<now, table, added, asked>> /\ pc[w] = "load"
    BY <1>5 DEF Load
  <2>2. CASE v # w
    BY <1>1, <1>5, <2>1, <2>2 DEF Load
  <2>3. CASE v = w
    <3>1. /\ pc'[v] = "resolve" /\ cache'[v].rows = fetched[v].rows \ Invalid
          /\ cache'[v].at = now /\ cache'[v].read = fetched[v].read
      BY <1>5, <2>3 DEF Load
    <3>2. /\ fetched[v].read \in Nat /\ fetched[v].read <= now
          /\ asked[v] = fetched[v].read /\ asked[v] # None
          /\ \A p \in table : added[p] < fetched[v].read => p \in fetched[v].rows
      BY <1>t, <2>1, <2>3 DEF Loaded, Fetched
    <3>3. now # None /\ asked[v] < now + TTL
      BY <3>2
    <3>4. QED
      BY <2>1, <3>1, <3>2, <3>3 DEF Loaded
  <2>4. QED
    BY <2>2, <2>3
<1>6. ASSUME NEW w \in Worker, Commit(w) \/ Rollback(w) PROVE Loaded(v)'
  <2>1. End(w)
    BY <1>6 DEF Commit, Rollback
  <2>2. QED
    BY <1>1, <2>1 DEF End
<1>7. ASSUME NEW w \in Worker, Resolve(w) PROVE Loaded(v)'
  BY <1>1, <1>7 DEF Resolve
<1>8. ASSUME NEW w \in Worker, NEW e \in Event, Write(w, e) PROVE Loaded(v)'
  BY <1>1, <1>8 DEF Write
<1>9. CASE UNCHANGED vars
  BY <1>1, <1>9 DEF vars
<1>10. QED
  BY <1>2, <1>3, <1>4, <1>5, <1>6, <1>7, <1>8, <1>9 DEF Next

-----------------------------------------------------------------------------
LEMMA InvInit == Init => IInv
<1> SUFFICES ASSUME Init PROVE IInv
  OBVIOUS
<1>1. TypeOK
  BY TypeInit
<1>2. Busy /\ Owned /\ \A w \in Worker : Loaded(w)
  BY DEF Init, Busy, Owned, OwnCost, Loaded
<1>3. QED
  BY <1>1, <1>2 DEF IInv

LEMMA InvNext == IInv /\ [Next]_vars => IInv'
  BY TypeNext, BusyNext, OwnedNext, LoadedNext DEF IInv

\* The variables keep their types.
THEOREM TypeCorrect == Spec => []TypeOK
<1>1. IInv => TypeOK
  BY DEF IInv
<1>2. QED
  BY <1>1, InvInit, InvNext, PTL DEF Spec

\* Whatever the workers, the order of the events and the retries, a cost the
\* client sent is what the row keeps (pricing.py 189-193).
THEOREM ClientCostsStay == Spec => []ClientCostStays
<1>1. IInv => ClientCostStays
  BY DEF IInv, Owned, OwnCost, ClientCostStays
<1>2. QED
  BY <1>1, InvInit, InvNext, PTL DEF Spec

\* No worker prices with a table older than PRICE_CACHE_TTL and the time the
\* SELECT took that it came from (pricing.py 75-114).
THEOREM CachesAreFresh == Spec => []CacheIsFresh
<1>1. IInv => CacheIsFresh
  <2> SUFFICES ASSUME IInv, NEW w \in Worker, pc[w] \in {"resolve", "commit"},
                      NEW p \in table \ Invalid,
                      added[p] + TTL + (cache[w].at - cache[w].read) <= asked[w]
               PROVE  p \in cache[w].rows
    BY DEF CacheIsFresh
  <2>1. /\ asked[w] \in Nat /\ cache[w].at \in Nat /\ cache[w].read \in Nat
        /\ added[p] \in Nat /\ TTL \in Nat /\ cache[w].at # None
    BY PricingAssumption DEF IInv, TypeOK, Time, Cache, Loaded
  <2>2. asked[w] < cache[w].at + TTL
    BY DEF IInv, Loaded
  <2>3. added[p] < cache[w].read
    BY <2>1, <2>2
  <2>4. QED
    BY <2>1, <2>3 DEF IInv, Loaded
<1>2. QED
  BY <1>1, InvInit, InvNext, PTL DEF Spec

-----------------------------------------------------------------------------
(* The price of its time.                                                  *)

\* Merging puts the start right with the create and leaves it then.
LEMMA MergeBegins ==
  ASSUME NEW r \in Row \cup {None}, NEW e \in Event,
         r # None => Begun(r, ObsOf[e])
  PROVE  Begun(Merge(r, e), ObsOf[e])
<1>1. /\ Merge(r, e).type = IF Says[e].create THEN "GENERATION"
                            ELSE IF r = None THEN "SPAN" ELSE r.type
      /\ Merge(r, e).start = IF Says[e].create THEN StartOf[ObsOf[e]]
                             ELSE IF r = None THEN Says[e].at ELSE r.start
  BY DEF Merge
<1>2. QED
  BY <1>1 DEF Begun

\* The price a row is given does not bear on which prices it may be given.
LEMMA CostIsNoInput ==
  ASSUME NEW r \in Row, NEW p \in Price, NEW o, NEW rows
  PROVE  LET s == [r EXCEPT !.cost = p]
         IN /\ Computed(rows, s, o) = Computed(rows, r, o)
            /\ Selected(s) = Selected(r) /\ s.cost = p
            /\ Begun(s, o) = Begun(r, o)
<1> DEFINE s == [r EXCEPT !.cost = p]
<1>1. /\ s.type = r.type /\ s.model = r.model /\ s.usage = r.usage
      /\ s.client = r.client /\ s.start = r.start /\ s.cost = p
  BY DEF Row
<1> HIDE DEF s
<1>2. QED
  BY <1>1 DEF Computed, Selected, Begun

LEMMA PriceInit == Init => PriceInv
<1> SUFFICES ASSUME Init PROVE PriceInv
  OBVIOUS
<1>1. IInv
  BY InvInit
<1>2. QED
  BY <1>1 DEF Init, PriceInv, InHand, Kept

\* A worker whose part of the state a step leaves alone, or who is idle after it.
LEMMA InHandStays ==
  ASSUME NEW w \in Worker, InHand(w),
         \/ pc'[w] = "idle"
         \/ /\ pc'[w] = pc[w] /\ event'[w] = event[w] /\ draft'[w] = draft[w]
            /\ cache'[w] = cache[w]
  PROVE  InHand(w)'
BY DEF InHand

LEMMA PriceNext == PriceInv /\ [Next]_vars => PriceInv'
<1> SUFFICES ASSUME PriceInv, [Next]_vars PROVE PriceInv'
  OBVIOUS
<1>0. /\ IInv' /\ TypeOK /\ Busy /\ TypeOK' /\ Busy'
      /\ \A w \in Worker : InHand(w)
      /\ \A o \in Generation : Kept(o)
  BY InvNext DEF PriceInv, IInv
<1>a. /\ pc \in [Worker -> {"idle", "refresh", "load", "resolve", "commit"}]
      /\ event \in [Worker -> Event \cup {None}] /\ draft \in [Worker -> Row \cup {None}]
      /\ cache \in [Worker -> Cache] /\ obs \in [Generation -> Row \cup {None}]
      /\ basis \in [Generation -> SUBSET Price]
  BY <1>0 DEF TypeOK
<1> DEFINE Holds == /\ \A w \in Worker : InHand(w)'
                    /\ \A o \in Generation : Kept(o)'
<1>1. ASSUME UNCHANGED <<obs, basis>> PROVE \A o \in Generation : Kept(o)'
  BY <1>0, <1>1 DEF Kept
<1>2. ASSUME UNCHANGED <<obs, pc, event, draft, cache, basis>> PROVE Holds
  BY <1>0, <1>1, <1>2, InHandStays
<1>3. ASSUME NEW w \in Worker, NEW e \in Event, Write(w, e) PROVE Holds
  <2>1. /\ pc'[w] = "refresh" /\ event'[w] = e
        /\ draft'[w] = Merge(obs[ObsOf[e]], e)
        /\ \A v \in Worker \ {w} : /\ pc'[v] = pc[v] /\ event'[v] = event[v]
                                   /\ draft'[v] = draft[v]
        /\ UNCHANGED <<obs, basis, cache>>
    BY <1>3, <1>a DEF Write
  <2>2. ObsOf[e] \in Generation
    BY PricingAssumption
  <2>3. Begun(Merge(obs[ObsOf[e]], e), ObsOf[e])
    BY <1>0, <1>a, <2>2, MergeBegins DEF Kept
  <2>4. InHand(w)'
    BY <2>1, <2>3 DEF InHand, Begun
  <2>5. QED
    BY <1>0, <1>1, <2>1, <2>4, InHandStays
<1>4. ASSUME NEW w \in Worker, Refresh(w) PROVE Holds
  <2>1. /\ pc[w] = "refresh" /\ pc'[w] \in {"load", "resolve"}
        /\ \A v \in Worker \ {w} : pc'[v] = pc[v] /\ cache'[v] = cache[v]
        /\ UNCHANGED <<obs, basis, event, draft>>
    BY <1>4, <1>a DEF Refresh
  <2>2. InHand(w)'
    BY <1>0, <2>1 DEF InHand, Begun
  <2>3. QED
    BY <1>0, <1>1, <2>1, <2>2, InHandStays
<1>b. ASSUME NEW w \in Worker, Load(w) PROVE Holds
  <2>1. /\ pc[w] = "load" /\ pc'[w] = "resolve"
        /\ \A v \in Worker \ {w} : pc'[v] = pc[v] /\ cache'[v] = cache[v]
        /\ UNCHANGED <<obs, basis, event, draft>>
    BY <1>b, <1>a DEF Load
  <2>2. InHand(w)'
    BY <1>0, <2>1 DEF InHand, Begun
  <2>3. QED
    BY <1>0, <1>1, <2>1, <2>2, InHandStays
<1>5. ASSUME NEW w \in Worker, Resolve(w) PROVE Holds
  <2> DEFINE o == ObsOf[event[w]]
             rows == cache[w].rows
  <2>1. /\ pc[w] = "resolve" /\ pc'[w] = "commit"
        /\ \A v \in Worker \ {w} : pc'[v] = pc[v] /\ draft'[v] = draft[v]
        /\ UNCHANGED <<obs, basis, event, cache>>
    BY <1>5, <1>a DEF Resolve
  <2>2. draft[w] \in Row /\ event[w] \in Event /\ Begun(draft[w], o)
    BY <1>0, <2>1 DEF Busy, InHand
  <2>3. Begun(draft'[w], o) /\ Priced(draft'[w], o, rows)
    <3>1. CASE Selected(draft[w]) /\ Computed(rows, draft[w], o) # {}
      <4>1. PICK p \in Computed(rows, draft[w], o) : draft' = [draft EXCEPT ![w].cost = p]
        BY <1>5, <3>1 DEF Resolve
      <4>2. p \in Price
        BY <1>a, ComputedPrices DEF Cache
      <4>3. draft'[w] = [draft[w] EXCEPT !.cost = p]
        BY <1>a, <4>1
      <4>4. QED
        BY <2>2, <4>2, <4>3, CostIsNoInput DEF Priced
    <3>2. CASE ~(Selected(draft[w]) /\ Computed(rows, draft[w], o) # {})
      <4>1. draft' = draft
        BY <1>5, <3>2 DEF Resolve
      <4>2. QED
        BY <2>2, <3>2, <4>1 DEF Priced
    <3>3. QED
      BY <3>1, <3>2
  <2>4. InHand(w)'
    BY <2>1, <2>2, <2>3 DEF InHand
  <2>5. QED
    BY <1>0, <1>1, <2>1, <2>4, InHandStays
<1>6. ASSUME NEW w \in Worker, Commit(w) PROVE Holds
  <2>0. PICK o \in Generation : o = ObsOf[event[w]]
    BY <1>0, <1>6, PricingAssumption DEF InHand, Commit
  <2>1. /\ pc[w] = "commit" /\ pc'[w] = "idle" /\ cache' = cache
        /\ obs' = [obs EXCEPT ![o] = draft[w]]
        /\ basis' = [basis EXCEPT ![o] = cache[w].rows]
        /\ \A v \in Worker \ {w} : /\ pc'[v] = pc[v] /\ event'[v] = event[v]
                                   /\ draft'[v] = draft[v]
    BY <1>6, <1>a, <2>0 DEF Commit, End
  <2>2. Begun(draft[w], o) /\ Priced(draft[w], o, cache[w].rows)
    BY <1>0, <2>0, <2>1 DEF InHand
  <2>3. Kept(o)'
    <3>1. obs'[o] = draft[w] /\ basis'[o] = cache[w].rows
      BY <1>a, <2>1
    <3>2. QED
      BY <2>2, <3>1 DEF Kept
  <2>4. ASSUME NEW g \in Generation \ {o} PROVE Kept(g)'
    <3>1. obs'[g] = obs[g] /\ basis'[g] = basis[g]
      BY <1>a, <2>1
    <3>2. QED
      BY <1>0, <3>1 DEF Kept
  <2>5. QED
    BY <1>0, <2>1, <2>3, <2>4, InHandStays
<1>7. ASSUME NEW w \in Worker, Rollback(w) PROVE Holds
  <2>1. /\ pc'[w] = "idle" /\ UNCHANGED <<obs, basis, cache>>
        /\ \A v \in Worker \ {w} : /\ pc'[v] = pc[v] /\ event'[v] = event[v]
                                   /\ draft'[v] = draft[v]
    BY <1>7, <1>a DEF Rollback, End
  <2>2. QED
    BY <1>0, <1>1, <2>1, InHandStays
<1>8. Holds
  BY <1>2, <1>3, <1>4, <1>b, <1>5, <1>6, <1>7 DEF Next, Tick, AddPrice, vars
<1>9. QED
  BY <1>0, <1>8 DEF PriceInv

\* match() orders the rows as the property does: of the rows that fit, those of
\* the project before those for all, then the newest.
LEMMA BestIsMatched ==
  ASSUME TypeOK, NEW o \in Generation, obs[o] # None, obs[o].start = StartOf[o],
         NEW rows \in SUBSET Price
  PROVE  LET known == {p \in rows : InForce(p, o)}
         IN Match(rows, obs[o].model, o, obs[o].start) =
              {p \in known : \A q \in known :
                 /\ ScopeOf[q] # None => ScopeOf[p] # None
                 /\ ScopeOf[q] = ScopeOf[p] => SinceOf[q] <= SinceOf[p]}
<1> DEFINE known == {p \in rows : InForce(p, o)}
           fit == {p \in rows : Fits(p, obs[o].model, o, obs[o].start)}
<1>1. fit = known
  BY DEF Fits, InForce
<1>2. \A p \in known : /\ ScopeOf[p] \in {None, ProjectOf[o]} /\ SinceOf[p] \in Nat
  BY PricingAssumption DEF InForce, Time
<1> HIDE DEF known, fit
<1>3. \A p, q \in known :
        ~Beats(q, p) <=> /\ ScopeOf[q] # None => ScopeOf[p] # None
                         /\ ScopeOf[q] = ScopeOf[p] => SinceOf[q] <= SinceOf[p]
  BY <1>2 DEF Beats
<1>4. Match(rows, obs[o].model, o, obs[o].start) =
        {p \in fit : \A q \in fit : ~Beats(q, p)}
  BY DEF Match, fit
<1>5. QED
  BY <1>1, <1>3, <1>4 DEF known

\* Whatever the order of its events, the workers that applied them and the
\* prices that were added meanwhile, a generation's cost is that of the price in
\* force when it started, as far as the worker knew the table (pricing.py 96-118
\* and 181-239).
THEOREM PricesAreRight == Spec => []PriceOfItsTime
<1>1. PriceInv => PriceOfItsTime
  <2> SUFFICES ASSUME PriceInv, NEW o \in Generation
               PROVE  LET known == {p \in basis[o] : InForce(p, o)}
                          best == {p \in known : \A q \in known :
                             /\ ScopeOf[q] # None => ScopeOf[p] # None
                             /\ ScopeOf[q] = ScopeOf[p] => SinceOf[q] <= SinceOf[p]}
                      IN /\ obs[o] # None
                         /\ obs[o].type = "GENERATION" /\ obs[o].usage
                         /\ ~obs[o].client
                         /\ best # {} /\ best \subseteq HasPrices
                         => obs[o].cost \in best
    BY DEF PriceOfItsTime
  <2> DEFINE known == {p \in basis[o] : InForce(p, o)}
             best == {p \in known : \A q \in known :
                        /\ ScopeOf[q] # None => ScopeOf[p] # None
                        /\ ScopeOf[q] = ScopeOf[p] => SinceOf[q] <= SinceOf[p]}
  <2>1. TypeOK /\ Kept(o) /\ basis[o] \in SUBSET Price
    BY DEF PriceInv, IInv, TypeOK
  <2>2. ASSUME obs[o] # None, Selected(obs[o]), best # {}, best \subseteq HasPrices
        PROVE  obs[o].cost \in best
    <3>1. obs[o].start = StartOf[o] /\ Priced(obs[o], o, basis[o])
      BY <2>1, <2>2 DEF Kept, Begun, Selected
    <3>2. Match(basis[o], obs[o].model, o, obs[o].start) = best
      BY <2>1, <2>2, <3>1, BestIsMatched
    <3> HIDE DEF best
    <3>3. Computed(basis[o], obs[o], o) = best
      BY <2>2, <3>2 DEF Computed
    <3>4. QED
      BY <2>2, <3>1, <3>3 DEF Priced
  <2>3. QED
    BY <2>2 DEF Selected
<1>2. QED
  BY <1>1, PriceInit, PriceNext, PTL DEF Spec

-----------------------------------------------------------------------------
(* One model name for each observation.                                    *)

\* Clients whose events about an observation agree on its model name.
OneModel ==
  \A e, f \in Event :
    /\ ObsOf[e] = ObsOf[f]
    /\ Says[e].model # None
    /\ Says[f].model # None
    => Says[e].model = Says[f].model

\* The model name of a row was sent for it, and a computed cost is of that model.
Named(r, o) ==
  /\ r.model # None => \E e \in Event : ObsOf[e] = o /\ Says[e].model = r.model
  /\ r.cost \in Price => <<r.cost, r.model>> \in Matches
NamedAll ==
  /\ \A o \in Generation : obs[o] # None => Named(obs[o], o)
  /\ \A w \in Worker : pc[w] # "idle" =>
       event[w] \in Event /\ Named(draft[w], ObsOf[event[w]])

LEMMA MergeNames ==
  ASSUME OneModel, NEW r \in Row \cup {None}, NEW e \in Event,
         r # None => Named(r, ObsOf[e])
  PROVE  Named(Merge(r, e), ObsOf[e])
<1>1. /\ Merge(r, e).model = IF Says[e].model # None THEN Says[e].model
                             ELSE IF r = None THEN None ELSE r.model
      /\ Merge(r, e).cost = IF Says[e].client THEN Client
                            ELSE IF r = None THEN None ELSE r.cost
  BY DEF Merge
<1>2. Client \notin Price /\ None \notin Price /\ None \notin Model
      /\ Matches \subseteq Price \X Model
  BY PricingAssumption
<1>3. ASSUME Merge(r, e).model # None
      PROVE  \E f \in Event : ObsOf[f] = ObsOf[e] /\ Says[f].model = Merge(r, e).model
  BY <1>1, <1>3 DEF Named
<1>4. ASSUME Merge(r, e).cost \in Price
      PROVE  <<Merge(r, e).cost, Merge(r, e).model>> \in Matches
  <2>1. r # None /\ Merge(r, e).cost = r.cost /\ <<r.cost, r.model>> \in Matches
    BY <1>1, <1>2, <1>4 DEF Named
  <2>2. r.model # None
    BY <1>2, <2>1
  <2>3. PICK f \in Event : ObsOf[f] = ObsOf[e] /\ Says[f].model = r.model
    BY <2>1, <2>2 DEF Named
  <2>4. Merge(r, e).model = r.model
    BY <1>1, <2>1, <2>2, <2>3 DEF OneModel
  <2>5. QED
    BY <2>1, <2>4
<1>5. QED
  BY <1>3, <1>4 DEF Named

\* The costs resolve_costs may choose are of the model the row names.
LEMMA ComputedMatches ==
  ASSUME NEW rows, NEW r, NEW o, NEW p \in Computed(rows, r, o)
  PROVE  <<p, r.model>> \in Matches
BY DEF Computed, Match, Fits

LEMMA NamedNext ==
  ASSUME OneModel, IInv, NamedAll, [Next]_vars PROVE NamedAll'
<1>a. /\ pc \in [Worker -> {"idle", "refresh", "load", "resolve", "commit"}]
      /\ event \in [Worker -> Event \cup {None}] /\ draft \in [Worker -> Row \cup {None}]
      /\ cache \in [Worker -> Cache] /\ obs \in [Generation -> Row \cup {None}]
  BY DEF IInv, TypeOK
<1>b. \A w \in Worker : pc[w] # "idle" => draft[w] \in Row
  BY DEF IInv, Busy
<1>1. ASSUME UNCHANGED <<obs, pc, event, draft>> PROVE NamedAll'
  BY <1>1 DEF NamedAll
\* A step of w alone, that leaves the table as it is.
<1>2. ASSUME NEW w \in Worker, obs' = obs,
             \A v \in Worker \ {w} : /\ pc'[v] = pc[v] /\ event'[v] = event[v]
                                     /\ draft'[v] = draft[v],
             pc'[w] # "idle" =>
               event'[w] \in Event /\ Named(draft'[w], ObsOf[event'[w]])
      PROVE  NamedAll'
  <2>1. ASSUME NEW v \in Worker, pc'[v] # "idle"
        PROVE  event'[v] \in Event /\ Named(draft'[v], ObsOf[event'[v]])
    <3>1. CASE v = w
      BY <1>2, <2>1, <3>1
    <3>2. CASE v # w
      BY <1>2, <2>1, <3>2 DEF NamedAll
    <3>3. QED
      BY <3>1, <3>2
  <2>2. \A o \in Generation : obs'[o] # None => Named(obs'[o], o)
    BY <1>2 DEF NamedAll
  <2>3. QED
    BY <2>1, <2>2 DEF NamedAll, Named
<1>3. ASSUME NEW w \in Worker, NEW e \in Event, Write(w, e) PROVE NamedAll'
  <2>1. /\ event'[w] = e /\ draft'[w] = Merge(obs[ObsOf[e]], e) /\ obs' = obs
        /\ \A v \in Worker \ {w} : /\ pc'[v] = pc[v] /\ event'[v] = event[v]
                                   /\ draft'[v] = draft[v]
    BY <1>3, <1>a DEF Write
  <2>2. ObsOf[e] \in Generation
    BY PricingAssumption
  <2>3. Named(Merge(obs[ObsOf[e]], e), ObsOf[e])
    BY <1>a, <2>2, MergeNames DEF NamedAll
  <2>4. QED
    BY <1>2, <2>1, <2>3
<1>4. ASSUME NEW w \in Worker, Refresh(w) \/ Load(w) PROVE NamedAll'
  <2>1. /\ pc[w] # "idle" /\ UNCHANGED <<obs, event, draft>>
        /\ \A v \in Worker \ {w} : pc'[v] = pc[v]
    BY <1>4, <1>a DEF Refresh, Load
  <2>2. event[w] \in Event /\ Named(draft[w], ObsOf[event[w]])
    BY <2>1 DEF NamedAll
  <2>3. QED
    BY <1>2, <2>1, <2>2
<1>5. ASSUME NEW w \in Worker, Resolve(w) PROVE NamedAll'
  <2>1. /\ pc[w] # "idle" /\ UNCHANGED <<obs, event>>
        /\ \A v \in Worker \ {w} : pc'[v] = pc[v] /\ draft'[v] = draft[v]
    BY <1>5, <1>a DEF Resolve
  <2>2. event[w] \in Event /\ Named(draft[w], ObsOf[event[w]]) /\ draft[w] \in Row
    BY <1>b, <2>1 DEF NamedAll
  <2>3. Named(draft'[w], ObsOf[event[w]])
    <3>1. CASE draft' = draft
      BY <2>2, <3>1
    <3>2. CASE draft' # draft
      <4>1. PICK p \in Computed(cache[w].rows, draft[w], ObsOf[event[w]]) :
              draft' = [draft EXCEPT ![w].cost = p]
        BY <1>5, <3>2 DEF Resolve
      <4>2. /\ draft'[w].model = draft[w].model /\ draft'[w].cost = p
        <5>1. draft'[w] = [draft[w] EXCEPT !.cost = p]
          BY <1>a, <4>1
        <5>2. QED
          BY <2>2, <5>1 DEF Row
      <4>3. QED
        BY <2>2, <4>2, ComputedMatches DEF Named
    <3>3. QED
      BY <3>1, <3>2
  <2>4. QED
    BY <1>2, <2>1, <2>2, <2>3
<1>6. ASSUME NEW w \in Worker, Commit(w) PROVE NamedAll'
  <2>1. /\ pc[w] = "commit" /\ pc'[w] = "idle"
        /\ obs' = [obs EXCEPT ![ObsOf[event[w]]] = draft[w]]
        /\ \A v \in Worker \ {w} : /\ pc'[v] = pc[v] /\ event'[v] = event[v]
                                   /\ draft'[v] = draft[v]
    BY <1>6, <1>a DEF Commit, End
  <2>2. Named(draft[w], ObsOf[event[w]])
    BY <2>1 DEF NamedAll
  <2>3. ASSUME NEW o \in Generation, obs'[o] # None PROVE Named(obs'[o], o)
    BY <1>a, <2>1, <2>2, <2>3 DEF NamedAll
  <2>4. ASSUME NEW v \in Worker, pc'[v] # "idle"
        PROVE  event'[v] \in Event /\ Named(draft'[v], ObsOf[event'[v]])
    <3>1. v # w
      BY <2>1, <2>4
    <3>2. QED
      BY <2>1, <2>4, <3>1 DEF NamedAll
  <2>5. QED
    BY <2>3, <2>4 DEF NamedAll, Named
<1>7. ASSUME NEW w \in Worker, Rollback(w) PROVE NamedAll'
  BY <1>2, <1>7, <1>a DEF Rollback, End
<1>8. QED
  BY <1>1, <1>3, <1>4, <1>5, <1>6, <1>7 DEF Next, Tick, AddPrice, vars

\* A computed cost is one of the model the row names (pricing.py 148), provided
\* that no event renames the model: the code leaves the cost of the old one.
THEOREM CostsAreOfTheModel ==
  ASSUME OneModel PROVE Spec => []CostIsOfItsModel
<1>1. Init => IInv /\ NamedAll
  BY InvInit DEF Init, NamedAll, Named
<1>2. IInv /\ NamedAll /\ [Next]_vars => (IInv /\ NamedAll)'
  BY InvNext, NamedNext
<1>3. NamedAll => CostIsOfItsModel
  BY DEF NamedAll, Named, CostIsOfItsModel
<1>4. QED
  BY <1>1, <1>2, <1>3, PTL DEF Spec
=============================================================================
