-------------------------------- MODULE Pricing --------------------------------
(***************************************************************************)
(* What a generation is said to have cost (shared/pricing.py): each worker *)
(* process keeps the models and prices tables for a while (ModelPriceCache),*)
(* and prices the observations it touches in the transaction that wrote    *)
(* them (resolve_costs).  The events of one observation come in any order, *)
(* more than once and to different workers, while prices are added and the *)
(* clock goes on.  A cost is the price row it was computed with, or        *)
(* Client, the client's own.                                               *)
(***************************************************************************)
EXTENDS Integers

CONSTANTS
  Worker,       \* ingest worker processes
  Generation,   \* observations
  Event,        \* what is sent about them
  Price,        \* models rows, with their prices
  Project, Model,
  None, Client,
  Matches,      \* <<p, m>>: the pattern of p matches the name m
  ScopeOf,      \* project_id of a models row; None is every project
  SinceOf,      \* start_date; 0 is NULL
  HasPrices,    \* rows with a price for what is used
  Seeded,       \* rows there are from the start
  Invalid,      \* rows whose pattern does not compile
  ObsOf,        \* the observation of an event
  Says,         \* what an event carries: see Sent
  ProjectOf, StartOf,  \* of an observation
  TTL,          \* PRICE_CACHE_TTL in ticks
  MaxTime       \* bound: ticks of the clock

Time == 0..MaxTime

\* kind; the model name and a client's cost, if sent; whether usage is sent;
\* and for an update its time.
Sent == [create : BOOLEAN, model : Model \cup {None}, usage : BOOLEAN,
         client : BOOLEAN, at : Time]

ASSUME PricingAssumption ==
  /\ MaxTime \in Nat /\ TTL \in Nat \ {0}
  /\ Matches \subseteq Price \X Model
  /\ ScopeOf \in [Price -> Project \cup {None}] /\ SinceOf \in [Price -> Time]
  /\ HasPrices \subseteq Price /\ Invalid \subseteq Price
  /\ Seeded \subseteq Price
  /\ ObsOf \in [Event -> Generation] /\ Says \in [Event -> Sent]
  /\ ProjectOf \in [Generation -> Project] /\ StartOf \in [Generation -> Time]
  /\ None \notin Price \cup {Client} \cup Project \cup Model
  /\ Client \notin Price /\ None \notin Time

VARIABLES
  now,     \* the clock
  table,   \* models rows there are
  added,   \* history: when each was added
  obs,     \* the observations table
  pc,      \* the next statement of each worker's transaction
  event,   \* the event it applies
  draft,   \* the row as its transaction sees it: it holds the row's lock
  cache,   \* its ModelPriceCache: rows, _loaded_at and (history) read, when
           \* the SELECT saw those rows
  fetched, \* the table as refresh()'s SELECT saw it, until it is stored
  asked,   \* history: when its transaction called refresh()
  basis    \* history: the rows each observation was last resolved with

vars == <<now, table, added, obs, pc, event, draft, cache, fetched, asked,
          basis>>

\* A row of observations; type is GENERATION once the create is in.
Row == [type : {"SPAN", "GENERATION"}, model : Model \cup {None},
        usage : BOOLEAN, client : BOOLEAN, start : Time,
        cost : Price \cup {None, Client}]
Cache == [rows : SUBSET Price, at : Time \cup {None}, read : Time]
Fetched == [rows : SUBSET Price, read : Time]
NoAnswer == [rows |-> {}, read |-> 0]

TypeOK ==
  /\ now \in Time /\ table \subseteq Price
  /\ added \in [Price -> Time]
  /\ obs \in [Generation -> Row \cup {None}]
  /\ pc \in [Worker -> {"idle", "refresh", "load", "resolve", "commit"}]
  /\ event \in [Worker -> Event \cup {None}]
  /\ draft \in [Worker -> Row \cup {None}]
  /\ cache \in [Worker -> Cache] /\ fetched \in [Worker -> Fetched]
  /\ asked \in [Worker -> Time \cup {None}]
  /\ basis \in [Generation -> SUBSET Price]

Init ==
  /\ now = 0 /\ table = Seeded
  /\ added = [p \in Price |-> 0]
  /\ obs = [o \in Generation |-> None]
  /\ pc = [w \in Worker |-> "idle"] /\ event = [w \in Worker |-> None]
  /\ draft = [w \in Worker |-> None]
  /\ cache = [w \in Worker |-> [rows |-> {}, at |-> None, read |-> 0]]
  /\ fetched = [w \in Worker |-> NoAnswer]
  /\ asked = [w \in Worker |-> None]
  /\ basis = [o \in Generation |-> {}]
-----------------------------------------------------------------------------
(* match() and compute_cost().                                             *)

\* Faulty variant: the price as of now.
FitsNow(p, m, o, t) ==
  <<p, m>> \in Matches /\ ScopeOf[p] \in {None, ProjectOf[o]}

Fits(p, m, o, t) ==
  /\ <<p, m>> \in Matches /\ ScopeOf[p] \in {None, ProjectOf[o]}
  /\ SinceOf[p] <= t

\* A row of the project beats one for all; then the newest does.
Beats(p, q) ==
  \/ ScopeOf[p] # None /\ ScopeOf[q] = None
  \/ (ScopeOf[p] = None) = (ScopeOf[q] = None) /\ SinceOf[p] > SinceOf[q]

\* The rows match() may return: one, unless two tie.
Match(rows, m, o, t) ==
  LET fit == {p \in rows : Fits(p, m, o, t)}
  IN {p \in fit : \A q \in fit : ~Beats(q, p)}

\* Costs an observation may be given: none if its model is not known or the
\* best row prices nothing that was used.
Computed(rows, r, o) == Match(rows, r.model, o, r.start) \cap HasPrices
-----------------------------------------------------------------------------
Tick ==
  /\ now < MaxTime
  /\ now' = now + 1
  /\ UNCHANGED <<table, added, obs, pc, event, draft, cache, fetched, asked,
                 basis>>

AddPrice(p) ==
  /\ p \notin table
  /\ table' = table \cup {p}
  /\ added' = [added EXCEPT ![p] = now]
  /\ UNCHANGED <<now, obs, pc, event, draft, cache, fetched, asked, basis>>

\* Faulty variant: the insert has no placeholder for start_time.
MergeWithoutStart(r, e) ==
  LET old == IF r = None
             THEN [type |-> "SPAN", model |-> None, usage |-> FALSE,
                   client |-> FALSE, start |-> None, cost |-> None]
             ELSE r
      sent == Says[e]
  IN [old EXCEPT !.type = IF sent.create THEN "GENERATION" ELSE @,
                 !.start = IF sent.create THEN StartOf[ObsOf[e]] ELSE @]

\* What the upsert makes of a row: see EventMerge.  A row that an update makes
\* is a SPAN that started when the update was sent.
Merge(r, e) ==
  LET old == IF r = None
             THEN [type |-> "SPAN", model |-> None, usage |-> FALSE,
                   client |-> FALSE, start |-> Says[e].at, cost |-> None]
             ELSE r
      sent == Says[e]
  IN [type   |-> IF sent.create THEN "GENERATION" ELSE old.type,
      start  |-> IF sent.create THEN StartOf[ObsOf[e]] ELSE old.start,
      model  |-> IF sent.model = None THEN old.model ELSE sent.model,
      usage  |-> old.usage \/ sent.usage,
      client |-> old.client \/ sent.client,
      cost   |-> IF sent.client THEN Client ELSE old.cost]

Locked(o) == \E w \in Worker : event[w] # None /\ ObsOf[event[w]] = o

\* A worker begins a transaction with the upsert, which locks the row.
Write(w, e) ==
  /\ pc[w] = "idle" /\ ~Locked(ObsOf[e])
  /\ event' = [event EXCEPT ![w] = e]
  /\ draft' = [draft EXCEPT ![w] = Merge(obs[ObsOf[e]], e)]
  /\ pc' = [pc EXCEPT ![w] = "refresh"]
  /\ UNCHANGED <<now, table, added, obs, cache, fetched, asked, basis>>

\* Faulty variant: what was loaded once is kept.
RefreshOnce(w) ==
  /\ pc[w] = "refresh"
  /\ asked' = [asked EXCEPT ![w] = now]
  /\ \/ /\ cache[w].at # None
        /\ pc' = [pc EXCEPT ![w] = "resolve"]
        /\ UNCHANGED fetched
     \/ /\ cache[w].at = None
        /\ fetched' = [fetched EXCEPT ![w] = [rows |-> table, read |-> now]]
        /\ pc' = [pc EXCEPT ![w] = "load"]
  /\ UNCHANGED <<now, table, added, obs, event, draft, cache, basis>>

Young(w) == cache[w].at # None /\ now < cache[w].at + TTL

\* refresh(): what was loaded less than TTL ago will do; else the tables are
\* selected, and the answer takes its time.
Refresh(w) ==
  /\ pc[w] = "refresh"
  /\ asked' = [asked EXCEPT ![w] = now]
  /\ \/ /\ Young(w)
        /\ pc' = [pc EXCEPT ![w] = "resolve"]
        /\ UNCHANGED fetched
     \/ /\ ~Young(w)
        /\ fetched' = [fetched EXCEPT ![w] = [rows |-> table, read |-> now]]
        /\ pc' = [pc EXCEPT ![w] = "load"]
  /\ UNCHANGED <<now, table, added, obs, event, draft, cache, basis>>

\* The rest of refresh(), once the answer is there: a pattern that does not
\* compile is left out, and the time of loading is now.
Load(w) ==
  /\ pc[w] = "load"
  /\ cache' = [cache EXCEPT ![w] = [rows |-> fetched[w].rows \ Invalid,
                                    at |-> now, read |-> fetched[w].read]]
  /\ fetched' = [fetched EXCEPT ![w] = NoAnswer]
  /\ pc' = [pc EXCEPT ![w] = "resolve"]
  /\ UNCHANGED <<now, table, added, obs, event, draft, asked, basis>>

\* Faulty variant: RESOLVE_SELECT takes rows the client has priced, too.
SelectedAny(r) == r.type = "GENERATION" /\ r.usage

\* RESOLVE_SELECT.
Selected(r) == r.type = "GENERATION" /\ r.usage /\ ~r.client

\* RESOLVE_UPDATE: what cannot be priced is left as it is.  The basis is noted.
Resolve(w) ==
  LET o == ObsOf[event[w]]
      r == draft[w]
      costs == Computed(cache[w].rows, r, o)
  IN /\ pc[w] = "resolve"
     /\ IF Selected(r) /\ costs # {}
        THEN \E p \in costs : draft' = [draft EXCEPT ![w].cost = p]
        ELSE UNCHANGED draft
     /\ pc' = [pc EXCEPT ![w] = "commit"]
     /\ UNCHANGED <<now, table, added, obs, event, cache, fetched, asked,
                    basis>>

End(w) ==
  /\ pc' = [pc EXCEPT ![w] = "idle"]
  /\ event' = [event EXCEPT ![w] = None]
  /\ draft' = [draft EXCEPT ![w] = None]
  /\ fetched' = [fetched EXCEPT ![w] = NoAnswer]
  /\ asked' = [asked EXCEPT ![w] = None]
  /\ UNCHANGED <<now, table, added, cache>>

Commit(w) ==
  LET o == ObsOf[event[w]]
  IN /\ pc[w] = "commit"
     /\ obs' = [obs EXCEPT ![o] = draft[w]]
     /\ basis' = [basis EXCEPT ![o] = cache[w].rows]
     /\ End(w)

\* An error, here or with another event of the batch, or a crash: the event
\* will be delivered again.
Rollback(w) ==
  /\ pc[w] # "idle"
  /\ End(w)
  /\ UNCHANGED <<obs, basis>>

Next ==
  \/ Tick
  \/ \E p \in Price : AddPrice(p)
  \/ \E w \in Worker :
       \/ \E e \in Event : Write(w, e)
       \/ Refresh(w) \/ Load(w) \/ Resolve(w) \/ Commit(w) \/ Rollback(w)

Spec == Init /\ [][Next]_vars
-----------------------------------------------------------------------------
\* The client's own cost stays, whatever order the events come in.
ClientCostStays ==
  \A o \in Generation : obs[o] # None =>
    (obs[o].client <=> obs[o].cost = Client)

\* Whether row p could have priced o: it is of its project or of all, matches
\* the model name and was in force when o started.
InForce(p, o) ==
  /\ ScopeOf[p] \in {None, ProjectOf[o]}
  /\ <<p, obs[o].model>> \in Matches /\ SinceOf[p] <= StartOf[o]

\* A generation with usage and without a client's cost has the price that was in
\* force when it started: the project's if it has one, and the newest.  Neither
\* the order of its events, nor the worker, nor a price that came into force
\* later makes a difference, only what the worker knew of the table ...
PriceOfItsTime ==
  \A o \in Generation :
    LET known == {p \in basis[o] : InForce(p, o)}
        best == {p \in known : \A q \in known :
                   /\ ScopeOf[q] # None => ScopeOf[p] # None
                   /\ ScopeOf[q] = ScopeOf[p] => SinceOf[q] <= SinceOf[p]}
    IN /\ obs[o] # None
       /\ obs[o].type = "GENERATION" /\ obs[o].usage /\ ~obs[o].client
       /\ best # {} /\ best \subseteq HasPrices
       => obs[o].cost \in best

\* ... which is every row that was there TTL before it asked, and before that
\* the time the SELECT it still relies on took to answer: a row that is added
\* between the SELECT and the stamp is missed for that much longer.
CacheIsFresh ==
  \A w \in Worker : pc[w] \in {"resolve", "commit"} =>
    \A p \in table \ Invalid :
      added[p] + TTL + (cache[w].at - cache[w].read) <= asked[w]
        => p \in cache[w].rows

\* The inductive invariant behind ClientCostStays and CacheIsFresh: a worker at
\* work has a row in hand, ...
Busy == \A w \in Worker : pc[w] # "idle" => draft[w] \in Row
\* ... the client's cost is in every row it was sent for and in no other, ...
OwnCost(r) == r # None => (r.client <=> r.cost = Client)
Owned == (\A o \in Generation : OwnCost(obs[o])) /\ (\A w \in Worker : OwnCost(draft[w]))
\* ... and a cache holds what there was before its SELECT, as does the answer
\* to one under way.
Loaded(w) ==
  /\ cache[w].at # None =>
       /\ cache[w].read <= cache[w].at /\ cache[w].at <= now
       /\ \A p \in table \ Invalid :
            added[p] < cache[w].read => p \in cache[w].rows
  /\ pc[w] = "load" =>
       /\ asked[w] = fetched[w].read /\ fetched[w].read <= now
       /\ \A p \in table : added[p] < fetched[w].read => p \in fetched[w].rows
  /\ pc[w] \in {"resolve", "commit"} =>
       /\ asked[w] # None /\ cache[w].at # None
       /\ asked[w] < cache[w].at + TTL

IInv == TypeOK /\ Busy /\ Owned /\ \A w \in Worker : Loaded(w)

\* The inductive invariant behind PriceOfItsTime: a generation starts when its
\* create says, ...
Begun(r, o) == r.type = "GENERATION" => r.start = StartOf[o]
\* ... and whenever a price can be computed from the rows a worker knows, the row
\* it is about to commit, and what it has committed, has one of those.
Priced(r, o, rows) ==
  Selected(r) /\ Computed(rows, r, o) # {} => r.cost \in Computed(rows, r, o)
InHand(w) ==
  pc[w] # "idle" =>
    /\ event[w] \in Event /\ Begun(draft[w], ObsOf[event[w]])
    /\ pc[w] = "commit" => Priced(draft[w], ObsOf[event[w]], cache[w].rows)
Kept(o) == obs[o] # None => Begun(obs[o], o) /\ Priced(obs[o], o, basis[o])

PriceInv == IInv /\ (\A w \in Worker : InHand(w)) /\ \A o \in Generation : Kept(o)

\* A cost is one of the model the row names; one that cannot be priced has none
\* (pricing.py:148).
CostIsOfItsModel ==
  \A o \in Generation : obs[o] # None /\ obs[o].cost \in Price =>
    <<obs[o].cost, obs[o].model>> \in Matches

\* Nothing is priced by a table more than TTL old (pricing.py:60), the SELECT's
\* time included: not so, see CacheIsFresh.
StaleForTTLOnly ==
  \A w \in Worker : pc[w] \in {"resolve", "commit"} =>
    \A p \in table \ Invalid :
      added[p] + TTL <= asked[w] => p \in cache[w].rows
=============================================================================
