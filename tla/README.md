# openWeave: TLA+ models, checks and proofs

openWeave (`src/agent-observability/`) collects traces of LLM applications. A client library turns the blocks
of a program into events and sends them over gRPC; a server appends them to a Redis stream; workers fold them into
Postgres rows; a second stream tells an evaluation worker which traces to judge with an LLM; a REST API reads the
rows, and an experiment runner drives the whole with datasets. This directory models the parts whose
correctness depends on the order in which several processes, threads or tasks take their steps.

    program --trace()/span()--> SDK queue --gRPC IngestBatch--> ingestion server --XADD--> stream `events`
            Tracing             SdkClient                       IngestServer                   |
                                                                + ApiKeyAuth                   v  group `workers`
                                                                                          ingest worker(s)
    runner --HTTP--> API server --SELECT--> Postgres <-- apply_events, one transaction --  IngestWorker
    Experiment       TraceTree, ApiKeyAuth     ^         EventMerge, Pricing                   |
                                               |                                               | after the commit
                           eval worker(s) -----+  <--group `evaluators`-- stream `evals` <-----+
                           EvalWorker --> judge (LLM)

## 1. Inventory

| part | state it keeps | operations | what is hard | what makes it correct |
|---|---|---|---|---|
| SDK, transport (`sdk/openweave.py` 215-327) | bounded queue, flush thread | enqueue, drain, send, flush, shutdown | two threads drain one queue; drop when full; a call that fails or times out; a channel closed under a call | every event is in one place; what is counted as sent was accepted; the flush thread survives |
| SDK, tracing (332-489) | two context variables | trace, span, observe, update | nesting, exceptions, tasks and threads started inside blocks | the context is the call stack; events agree on trace and parent |
| Ingestion server (`ingestion-server/server.py`) | none of its own | authenticate, validate, pipeline of XADDs, SIGTERM | half a pipeline, cancellation, kill | accepted events are in the stream |
| API keys (`shared/auth.py`) | Redis cache with TTL, table | verify, cache get and put, invalidate | stale cache; expiry; failures of the cache | grants are earned, revocation takes effect, good keys are not denied |
| Ingest worker, stream side (`worker/worker.py` 399-573) | consumer group, pending list, `worker:retries`, dead letters | read, batch, fallback, count, dead-letter, reclaim, announce | kills, two holders of one entry, aborted transactions, trimming | nothing lost silently; bad events cost no good ones |
| Ingest worker, row side (`apply_events`, 124-393) | `traces`, `observations`, `scores` | stubs, merging creates, sparse updates | any order, any batches, redelivery | what was sent beats what was made up |
| Prices (`shared/pricing.py`) | price cache per worker with TTL | refresh, match, resolve_costs | model, usage, type and the client's cost arrive apart; caches of different age | the price in force at the start; the client's cost stays |
| Evaluation worker (`evaluator/eval_worker.py`) | `eval:due`, `eval:bounces`, SETNX keys, `job_executions` | schedule, lease, settle check, bounce, evaluate | two workers, leases running out, kills between Redis and Postgres, traces written for ever | evaluated once, not forgotten, and not waited for without end |
| Judge client (`evaluator/judge.py`) | none | render, call, validate | a verdict of the wrong shape | failures are recorded |
| API server (`api-server/main.py`) | the demo project's id | trace tree, datasets, runs, links, comparison | missing parents; two runners upserting one link; scores counted by row | no observation disappears; a run's numbers are its own |
| Experiment runner (`sdk/experiment.py`) | none: run and links are in Postgres | run, wait for scores | failing requests and tasks; a run repeated or shared | counted scores knew the expected answer |

Parts without interesting behaviour (scripts, the generated migration, the load test, the page) are listed in
`PROJECT.json` with the reason they are left out.

## 2. The modules

| module | what it is | proofs |
|---|---|---|
| `Handover` | abstract: what the way from the program to the stream promises about an event | |
| `IngestRpc` | the events and the IngestBatch calls the next two share | |
| `SdkClient` | the SDK's queue, flush thread, `flush()` and `shutdown()` | |
| `IngestServer` | the ingestion server | |
| `IngestPath` | client and server composed; implements `Handover` | `IngestPathProofs` |
| `Delivery` | abstract: what ingestion promises about an entry of the stream | |
| `IngestWorker` | the consumer-group side of the ingest worker; implements `Delivery` | `IngestWorkerProofs` |
| `EventMerge` | what committed batches do to the rows, with cost resolution | `EventMergeProofs` |
| `Pricing` | the price caches and the choice of a price | `PricingProofs` |
| `EvalWorker` | the evaluation worker | `EvalWorkerProofs` |
| `ApiKeyAuth` | keys, their cache, and who may read or write | `ApiKeyAuthProofs` |
| `Tracing` | the context variables of the SDK and the events read from them | |
| `TraceTree` | `Tracing` composed with the table and the assembly of a trace | `TraceTreeProofs` |
| `Experiment` | runners, datasets, runs, links, the rules' reading of them, and the scores that count | `ExperimentProofs` |
| `MC...` | small instances for TLC: functions on model values, event shapes, symmetry | |

The modules meet at these interfaces. `TraceTree` makes the events that `SdkClient` takes as numbers. `IngestPath`
shows that the stream holds events that were made, each perhaps more than once if a pipeline was started
again, and every event reported as sent; `IngestWorker` takes any sequence of entries. `IngestWorker` treats an
event as committed or not and shows that any batch of accepted events may be committed, in any order, any number of times;
`EventMerge` takes exactly that as its `Commit(S)`, and `TraceTree` and `Pricing` as landing in any order.
`IngestWorker` announces a trace after its commit (`AnnouncedAfterCommit`); `EvalWorker` takes `Write` followed by
`AnnounceTrace` as its environment. `Experiment` has the pipeline and the evaluation worker as three steps that may
come at any time or never, one for each rule that reads the link.

Operators commented "Faulty variant" are plausible bugs in one definition, used to confirm that every property
can fail. No specification refers to them.

### Handover, IngestRpc, SdkClient, IngestServer, IngestPath
An event is *offered*, then *kept* by the stream or *refused*; what is *confirmed* is kept. The client never sends twice, so an
event that is neither confirmed nor refused stays in doubt.

`pc[t]` is where a thread is: the flush thread loops `top`, `wait`, `drain`, `call`, `await` (`_run`, `_drain`,
`_send`), an application thread in `flush()` goes `check`, `drain`, `call`, `await`, `recheck`, and in `shutdown()`
on to `stopping` and `closing`. `get_nowait` is a step, so two threads share the queue out event by event. A closed channel
raises ValueError (`CallRaises`), a call may time out while the server still works on it (`CallTimesOut`). `late[t]`
is the deadline of `flush()`. In the server each XADD of the pipeline is a step (`Append`): the pipeline is not a transaction.
`PipeBreaks` covers both a Redis client that starts it again and one that gives up. `Ends` is a kill or the end of the grace
of `stop()`. Left out: `Health`, `stats`, `enabled=False` (nothing happens), which rule of `_validate` an event in
`Bad` breaks, the trimming of the stream (in `IngestWorker`).

### Delivery, IngestWorker
An accepted event is *open* until someone has taken responsibility: `stored` in Postgres, `parked` in
`ingestion_dead_letters`, or `forgone` (trimmed by `MAXLEN`, or even the dead-letter write failed). `Close` is
allowed only then. Delivery is at-least-once.

One step per Redis command and per transaction, so a kill, a SIGTERM, another worker or the idle timeout can fall
between any two. `pc[w]` names the next command: `loop`, `claim` (`reclaim_stranded`, XAUTOCLAIM), `read`
(XREADGROUP), `parse` (entries that are not JSON), `batch` (the batch transaction), `each` (the fallback, one event per
transaction), `count` (HINCRBY), `dlq`, `dlq_xack`, `dlq_hdel` (`dead_letter`), `xack`, `hdel`, `announce`. `hand` and
`cur` are the local lists of `handle_batch`, lost in a crash. `unread`, `pel`, `idle` and `retry` are Redis'; `applied`
and `dlq` are Postgres'. Entry kinds say what will happen to the entry: it applies, with or without a trace to
announce; it fails in `apply_events`; it fails there and in the dead-letter table; it does not parse. A
transaction may also break for reasons of its own, before or after the server committed (`Abort`). Left out: a Redis that does not
know XAUTOCLAIM, for which `reclaim_stranded` returns 0 (`worker.py:528-530`). With one, nothing is ever reclaimed: no safety property
depends on it, and `EveryEntrySettles` is about servers from 6.2 on; the compose file starts version 7.

### EventMerge
Events are numbered in the order the client made them, and the value an event carries is represented by its number,
so "which event does this column come from" can be read off the row. 0 is NULL, or a placeholder a row builder
puts into a NOT NULL column. `Commit(S)` is the whole of `apply_events`: stub traces first, trace creates grouped by
column set, creates merged, updates one by one, scores, `resolve_costs`, and the CHECK `ck_obs_end_after_start`
(a batch it rejects changes nothing). The time an event carries is `2n`, the envelope's `ts` `2n+1`.
Left out: project ids (each is part of the key), the columns no property tells apart (they merge like `name`, `level` or `output`),
clients whose clocks run backwards, and updates that carry a type or a start time. The proto has the two fields and the server takes them, but
nothing in the repository sends them: `Span.update` and `_end_span` have no such argument. `ConstantsAssumption` says so.

### Pricing
Where `EventMerge` has one price per model, here a transaction is four steps or five: `Write` (the upsert, which locks the row),
`Refresh` (the cache is young enough, or the price tables are selected), `Load` (the answer is there, and only now the cache gets its rows and its time),
`Resolve`, `Commit`, with `Rollback` at any point. Rows may be added and time may pass between the SELECT and `Load`. A cost is represented by the price row it was computed with, or
`Client`. `Fits` and `Beats` are the filter and the sort of `match()`; `basis` remembers which rows the worker knew.
Left out: which token counts make up the amount, decimal arithmetic, and changes of an existing price row in place.

### EvalWorker
One step per Redis command and per transaction, like the ingest worker. Time is kept as ticks left until a check is due
and ticks since a row was written; `elapsed` is how old the clock reading of the current pass is (`drain_due` reads it
once, so a lease may be shorter than `CLAIM_LEASE_SECONDS`). An evaluation is one transaction, `load` to `CommitJobs`;
SETNX keys are not part of it. A judge call gives a verdict or a recorded error, or raises something `run_rule` does not
catch, which aborts the pass. A trace without a row (`Missing`) is settled at its first check, since `is_settled` takes the epoch for the time of its
last row (`COALESCE`); `evaluate_trace` returns for it, and `judged` holds it too. With `Endless` the ages of rows matter and their
number does not: a trace may be written at any time, for ever.
Left out: `DONE_TTL` (a day, longer than a behaviour of the model), trimming of `evals`, and SIGTERM, which in this worker
only ends the loop between two passes.

### ApiKeyAuth
`pc[r]` is the next command of a request: `get`, `del`, `fetch`, `put`. The clock counts ticks; `Tick` forgets entries as Redis
does. The cache is keyed by the secret (its hash), so an entry serves requests with another public key too, unless checked
(`Hit`). An answer keeps, besides the verdict, when the row it rests on was read, when it was cached and when the answer was
given: that is what the three properties are about. `Browse` is the API server's public demo. Left out: `touch_last_used`
and key generation, which change nothing that is read here.

### Tracing, TraceTree
`ctx[t]` is the pair of context variables of a task; `frames[t]` are the tokens its open blocks hold, and `within[t]` the place a
task was started at (a copied context, or none for a plain thread). `Here(t)` says where the program is without
looking at the context variables: `ContextIsTheCallStack` compares the two. `TraceTree` adds `landed`, the events that have
reached the table, and evaluates `get_trace` in every state: `Roots`, `Children`, and `Shown`, which is what a reader of the
response comes by. It is the least set that is `Closed`: it has the roots and, with a row, its children. That is
what appending each node to its parent's list amounts to, and it can be reasoned about without counting levels.
Left out: generators that are closed in another context, and parents named by hand through the proto (the SDK sends none; a
cycle of parents therefore cannot come up).

### Experiment
`pc[r]` is the next call of a runner: `create`, `list`, `link`, `emit`, `task`, `flush`, `wait`. Requests may fail before or after they
were carried out (`Raises`). `link` is `dataset_run_items` of one run; runners share it. `score` is the table: a row has the trace or the run item it is anchored to, the
name it counts under, and who gave it, a rule or a client (`Feedback`, the SDK's `score()`). `knew` in a rule's row is the item whose expected output the rule
found through the link. Rows a rule writes wait in `heard` until `evaluate_trace` commits them all (`JudgeAnswers`). No two rows have one id, while many may have
one anchor and name: two rules can share a name and a client can score what a rule has scored. `Compared` counts rows for each name as
`compare_runs` does, and `Poll` takes the largest count. Left out: descriptions, metadata, averages of scores, what a task returns (`done` holds items
that are ok and items that failed), and a rule that judges a trace again a day later, when `DONE_TTL` has passed.

## 3. The runs

Twelve runs; each `.cfg` has the name of its run.

| run | bounds | what it shows |
|---|---|---|
| `IngestWorker_workers` | 2 workers, 2 entries, good or bad in two ways, retries 2, 1 kill, 1 SIGTERM, 1 failure of Postgres, stream of 1 | `TypeOK`, `NoSilentLoss`, `GivenUpOnlyAfterRetries`, `OnlyKillsStrand`, `BadEventsAreIsolated`, `AnnouncedAfterCommit`, and `KeepsPromise` (implements `Delivery`) |
| `IngestWorker_fair` | 2 workers, 2 entries, 1 kill, fairness | `EveryEntrySettles`, `CommitsAreAnnounced` |
| `EvalWorker_workers` | 2 workers, 1 trace, 2 rules, 2 writes, 1 kill, 1 failure, a lease of 2 ticks | `TypeOK`, `EvaluatedOnce`, `RecordedUnlessCutShort`, `NothingForgotten`, `PatienceEnds` |
| `EvalWorker_settles` | 1 worker, 2 traces (one missing) written for ever, 1 announcement of each waiting at most, 1 kill, fairness | `EventuallyEvaluated` |
| `EventMerge_clients` | 1 trace, 1 generation, 1 score, 4 events, the SDK's creates and partial ones, 3 commits | `TypeOK`, `SentBeatsPlaceholder`, `EveryObservationHasATrace`, `OnceCreatedNothingIsRejected`, `CostFollowsTheRow`, `UpdatesAreKept` |
| `IngestPath` | flush thread, 1 application thread, 3 events (one bad), queue of 2, batch of 3, calls of at most 2, 1 failure, fairness | `TypeOK`, `Accounted`, `RoomIsMade`, and `KeepsPromise` (implements `Handover`) |
| `ApiKeyAuth` | 2 requests, 1 key, 5 kinds of request, TTL of 2 and 4 ticks, 1 failure | `TypeOK`, `GrantsAreEarned`, `RevokedFadesOut`, `NoFalseDenial` |
| `TraceTree` | 2 tasks, 2 traces, 3 spans, depth 2 | `TypeOK`, `ContextIsTheCallStack`, `EventsAgree`, `TreeIsHonest` |
| `Experiment` | 2 runners, 2 items, 1 rule, 2 names, 1 score of a client, 1 failed request | `CountedScoresKnewTheAnswer`, `RunIsComplete`, `WaitIsHonest` |
| `Pricing` | 2 workers, 1 generation, 4 events, 4 price rows, TTL of 2, times 0 to 3 | `TypeOK`, `ClientCostStays`, `PriceOfItsTime`, `CacheIsFresh` |
| `EventMerge_retry` | 1 observation, 3 events | refutes `RetriedBatchesAreSafe`, see 6 |
| `EvalWorker_crash` | 2 workers, 1 kill | refutes `EveryEvaluationIsRecorded`, see 6 |

Why the bounds are enough. A batch with one good and one bad entry is the smallest that exercises the fallback; retries of 2
separate "the first failure" from "the last"; two workers and one idle timeout give every takeover, including of an entry
whose first holder is still at work; a stream of length 1 trims entries that are unread, pending and in hand. `IngestWorker_fair` has the
bad entry that can be parked (`poison`); one that has no trace to announce (`score`) takes the steps of a good one and is left to
the theorems. For the merge,
two events on one row in two batches give each order; the third and fourth bring in the stub and the update after the
end; three commits allow the redelivery of an old batch after a newer one. For the evaluation worker a lease as short as the
pass lets a second worker take over one that is still judging. In `EvalWorker_settles` writes are not bounded, and a queue of one only
makes announcements wait. A trace then runs into `MAX_BOUNCES`: without the cap (`BounceAlways`) TLC finds
`EventuallyEvaluated` violated. On the way in, a queue of 2 fills with 3 events, a batch of 3
is larger than what the server takes, and one failure anywhere meets every state of the other side. For keys, an entry
cached at any tick sees the expiry at tick 3 and a revocation before and after; more keys would share no entry. For tracing, two
blocks in one task with a second task started inside or outside them show every way to restore a context, and
three spans give a grandchild. For prices, the four rows are the four ways to win or lose: a default, one that starts
later, one of the project, one that does not compile; the fourth event renames the model to one without a price. With times up to 3 and a TTL of 2
a row can be added while a SELECT takes a tick, be missed for the whole TTL, and be loaded after it. For experiments, two names and a score of
a client make the rows of one name enough while those of the other are not, and one item scored twice pass for two. Beyond these
bounds the theorems of section 5 take over: they hold for all values.

Deadlock is checked except where the modelled program really stops: in `EventMerge` when the clients have made `MaxEvents` and
`MaxDeliveries` are used up, in `TraceTree` when all blocks are left and the ids are used up, in `Experiment` when the
runners have returned. Symmetry is used only where no liveness is checked.

`NothingForgotten` and `EventuallyEvaluated` except two ways in which the code does lose an announcement: it was read by a
process that died before acknowledging it (nothing reclaims pending entries of `evals`), or its ZADD failed (the error is
logged and the announcement acknowledged). The exceptions are named variables, `stranded` and `missed`.
`EventuallyEvaluated` also excepts a trace that is `Neglected`: written again and again and, from some time on, never checked, since each announcement puts
its check off (finding 4). A trace that is written for ever and checked now and then must be evaluated: that is what `MAX_BOUNCES` is for.
`PatienceEnds` is the safety half. A trace is counted past `MAX_BOUNCES` only by workers that are about to evaluate it, or were until a kill or an error.
`CommitsAreAnnounced` excepts kills and failed pipelines, since a worker announces after it has acknowledged.
`RecordedUnlessCutShort` is the part of `EveryEvaluationIsRecorded` that survives the finding in section 6.
`RevokedFadesOut` grants the TTL plus the time one request took between reading a row and caching it: a slow request caches a row
that has been revoked meanwhile. `CacheIsFresh` grants the TTL plus the time the SELECT took (finding 10). `UpdatesAreKept` is about the columns no create
carries: of the SDK's the end time, the output, the model, the usage and the cost. The level comes with every create of the SDK, as the run has it, and is
clobbered (finding 3). `WaitIsHonest` says what a count of rows is worth: under one name each item has a row, or some item has two
(finding 11). `RunIsComplete` and `WaitIsHonest` except items another runner has linked since (`superseded`), and
`WaitIsHonest` items of the run that the waiting runner never listed, since `wait_for_scores` counts and does not compare.

## 4. Fairness

`FairSpec` of both workers is weak fairness of: each worker's own next step (a process that runs keeps running; it waits only in
blocking reads that time out after `BLOCK_MS`), the restart of a process that ended, and the passing of time (`GoesIdle`,
`Tick`). `EvalWorker` adds that what is written is announced, which is `CommitsAreAnnounced` of the ingest worker.
Restarting is an assumption about the deployment: Kubernetes does it, while the repository's compose file
states no restart policy. Nothing is assumed of kills, signals, failures, clients or the server. Within `Step` weak fairness
does not favour an outcome: a transaction may fail as long as the bound on failures allows.

`FairSpec` of `IngestPath` is weak fairness of the flush thread's own steps (a daemon thread that waits at most `flush_interval`)
and of the ten-second timeout of its calls. The server is not assumed to answer, nor the application to flush.

## 5. What is proved

The theorems hold for every value of the constants: any number of workers, threads, tasks, entries, kills and failures, any ids,
shapes and times. They assume only the named assumptions of the modules, except two that state a condition of their own because
without it they are false; the list at the end of this section has each with what breaks it.
All proofs are machine-checked to the last leaf.

`IngestPathProofs`: `TypeCorrect`, `EveryEventAccounted`, `PathKeepsPromise`. That a reported event is in the stream depends on what the
two sides know of a call, so `IInv` adds *Hands* (what a thread holds, by `pc`), *Calls* (a call is awaited by the thread that
holds its batch or its events are settled; an answered one has its accepted events in the stream), *Handlers* (what a handler no longer
has to append is appended) and *Kept* (the stream holds nothing dropped or bad). Each step maps to one of `Handover`'s or a stutter.

`IngestWorkerProofs`: `TypeCorrect`, `NothingLostSilently`, `GivenUpLate`, `AnnouncementsFollowCommits`, `BadEventsCostNoOther`,
`SignalsStrandNothing`, `Refinement`. That an acknowledged entry is settled depends on what the worker knows when it acknowledges:
`IInv` adds *Places* (where entries can be; nothing unread is in hand), *Outcomes* (by `pc`: at `xack`, `cur` is
committed; at `dlq_xack` parked or written off; at `dlq` it does not parse or has failed often enough) and *Attempts* (the
counter in Redis plus the workers about to increment it never exceeds the failures that happened: this survives two
workers holding one entry). *Blamed* charges each failure of a good entry to Postgres, one by one; *Hands* says that what is pending and
in nobody's hands has been counted.

`EventMergeProofs`: `TypeCorrect`, `SentBeats`, `TraceForEveryObservation`, `CostIsOfTheRow`, `NothingRejected`. The first
lemmas say that the choices `Last`, `First` and `LastOfGroups` return a member of what they choose from (by well-foundedness of
the naturals), hence that every merged column is carried by an event of the batch or else what it was (`TraceColumns`,
`ObsColumns`). The inductive invariant adds that a row exists exactly when an event of it is committed, that a span starts once
and first, and that `began` is the time of the create once that is committed. The last gives `NothingRejected`: every later event of
the span carries a later time. Two more are about steps. `UpdateColumnsAreKept` is `UpdatesAreKept`, for any clients: in a column
no create carries, what replaces an update's value is an update's, since the row shows an event that carries the column. `RetriesAreIdempotent` is the half of
"retried batches are safe" that holds: `Absorbed(S)` says that every row `S` would write already is what `S` would make of it; a commit of `S`
makes it true, the CHECK then accepts `S` again without changing a row, and it stays true under batches that write other rows. The property
`RetriesAreSafeUntilOvertaken` has no run of its own: it quantifies over pairs of batches. TLC confirms it with the constants of
`EventMerge_retry`, and with those of `EventMerge_clients` and three events.

`EvalWorkerProofs`: `TypeCorrect`, `Once`, `Recorded`, `NoneForgotten`, `WaitingEnds`. *Control* ties a worker's locals to its `pc` (no rule and no
open rows outside the transaction; at `zrem` the trace is judged; at `ack` the trace at hand is safe). *Claimed* says a job
row implies its key, work implies a key without a row, and two workers never work on the same rule of a trace; *SafeStays* that a check in
`eval:due` leaves it only for a trace that was judged. `WaitingEnds` is `PatienceEnds` for any number of workers, kills and errors: a count beyond
`MAX_BOUNCES` is made by a worker that goes on to evaluate, so each of the counts beyond it is charged to a worker at it, or to the kill or the error that
stopped one. It is the safety half of "evaluated eventually": checks that come due cannot be postponed for ever, while a check that never
comes due is finding 4.

`ApiKeyAuthProofs`: `TypeCorrect`, `EveryGrantIsEarned`, `RevocationTakesEffect`, `GoodKeysAreNotDenied`. `IInv` adds *Cached* (an entry's
row was in the table when it was read, is of that secret, and is younger than its TTL), *Requests* (so is the row a request is about
to cache, whatever has happened to the key since) and *Table* (the table agrees with its history).

`TraceTreeProofs`: `TypeCorrect`, `ContextIsRight`, `EventsAreRight`, `TreeIsRight`. *Nested* says that what each open block saved is the context inside the block
around it, down to the place the task was started at, and that every span on a stack was started in the trace of that
context; *Told* that an event says what is known of its span. For the tree, *Rooted* says that a started span has its create
among the events and its parent in the same trace, and *NoCircle* that any set of started spans has one whose parent is outside it. So the
rows of a trace that are not shown would have one whose parent is shown or missing, hence shown itself: no induction over the depth.

`PricingProofs`: `TypeCorrect`, `ClientCostsStay`, `CachesAreFresh`, `PricesAreRight`, `CostsAreOfTheModel`. *Owned* holds of the table and of the rows in transactions; *Loaded* says
that a cache holds what was there before its SELECT, that the answer to a SELECT under way holds what was there before it, and that a cache in use was younger
than its TTL, counted from the answer, when asked. `CachesAreFresh` adds the two up. `PriceInv` adds that a
generation starts when its create says (*Begun*) and that the row about to be committed, and the committed one, has a cost the
worker could compute from the cache it had, whenever there was one (*InHand*, *Kept*); that such a cost is the best in force
is then a matter of the sort, `Beats`. `NamedAll` says that the model in a row, and the one its cost is of, was named by an event of the row.

`ExperimentProofs`: `TypeCorrect`, `ScoresKnewTheAnswer`, `RunsAreComplete`, `WaitsAreHonest`, `SmallDatasetsRunWhole`. *Linked* says that an item is linked to a
trace some runner made for it, and that a rule that has read that trace found the link; *Opened* that what is scored was opened before; *Ahead* and *Behind*
say which items of a runner have traces and links. `WaitsAreHonest` counts: if no item had two rows of a name and some item none, the rows of that
name that reach the run would map one to one into the other items, and be fewer than the runner has items (`EnoughIsEnough`).

The conditions. Each is spelled out in the theorem or named beside it, and each holds in ordinary use of what the repository ships.

| theorem | condition | without it |
|---|---|---|
| `CostsAreOfTheModel` | `OneModel`: the events of a generation name one model, if any (a program that calls `update(model=...)` with one name per span) | false: item 8 |
| `SmallDatasetsRunWhole` | the items are finitely many and no more than `Limit` | false: item 9 |

Only model-checked: the liveness properties `EveryEntrySettles`, `CommitsAreAnnounced`, `EventuallyEvaluated` and `RoomIsMade`. They
rest on fairness and hence on ENABLED, which is out of TLAPS' reach here. Every safety invariant, action property and refinement that a
passing run checks is a theorem. That a definition computes what a recursive one would is not proved anywhere: the modules with theorems have no
recursive operator.

## 6. Where code and documentation disagree

Two are shown by a run that must find a violation; `PROJECT.json` has the quotes.

1. `EventMerge_retry`: retried batches are said to be safe (`openweave.proto:15`), but `event_id` is stored nowhere; a batch that
   is redelivered after a newer one restores the older values, be they a create's or an update's. In TLC's trace a redelivered create takes back
   the level an update set. Redelivered before, it is safe: `RetriesAreIdempotent`.
2. `EvalWorker_crash`: a crash during an evaluation is said to be retried (`eval_worker.py:384`), but the SETNX key survives it
   and the rule is skipped; no row says so.

The following are stated in the modules and refuted by TLC under the configurations given here. They have no configuration
file of their own.

3. `CreateNeverClobbers` of `EventMerge` with the constants of `EventMerge_clients`: a create committed after an update is said
   never to clobber it (`worker.py:30-31`), but the SDK sends `level` with every create, so the ERROR an update set becomes DEFAULT. The same goes for
   `metadata` where the program gives it both to `span()` and to `update()`. The other columns are safe: `UpdatesAreKept`.
4. `NeverQuietIsEvaluated` of `EvalWorker` with the constants of `EvalWorker_settles`: a trace that never goes quiet is said to be evaluated eventually
   (`eval_worker.py:88-89`), but each announcement pushes its check back, so it may have no checks to count. One that does have checks is evaluated:
   `EventuallyEvaluated`, `PatienceEnds`.
5. `ChecksAreApart` of `EvalWorker` with the constants of `EvalWorker_workers`: checks are said to be `SETTLE_SECONDS` apart (`eval_worker.py:88`); two workers
   that have read the same due entry count it side by side, so a trace still being written is judged earlier.
6. `NothingRaises` of `IngestPath`: nothing is said to raise out of the SDK (`openweave.py:25`), but `flush()` calls a
   channel that `shutdown()` has closed, in this thread or another, whose ValueError is not an RpcError.
7. `CacheNeverRejects` of `ApiKeyAuth`: cache failures are said never to reject a request (`auth.py:187`), but the delete of an entry that
   does not parse is outside the try (`auth.py:203`).
8. `CostIsOfItsModel` of `Pricing`: an observation that cannot be priced is said to have no cost (`pricing.py:148`), but one whose model is
   renamed to an unpriced one keeps the cost of the old. Without renaming: `CostsAreOfTheModel`.
9. `RunsEveryItem` of `Experiment` with `Limit` below the number of items: a run is said to execute every item (`experiment.py:79`),
   but `list_items` returns 500 by default and the runner asks for no more. Up to that number: `SmallDatasetsRunWhole`.
10. `StaleForTTLOnly` of `Pricing` with the constants of `Pricing`: a stale entry is said to cost at most `ttl` seconds of old pricing (`pricing.py:60`), but the
   time is taken after the SELECT was awaited (`pricing.py:78`, `114`). A row committed in between is missed for the TTL and the time of the SELECT.
   With that added: `CacheIsFresh`.
11. `WaitMeansScored` of `Experiment` with the constants of `Experiment`: polling is said to go on until the eval worker has scored the run
   (`experiment.py:125`), but rows are counted, whoever gave them and whichever item they are of (`main.py:542-553`, `experiment.py:143-145`); without any
   score of a client, the score of an item another runner has added to the run is enough. What enough rows do mean: `WaitIsHonest`.

## 7. Not modelled

- The judge client beyond its three outcomes, the listings, metrics and averages of the API: text, JSON and single SELECT
  statements without state of their own.
- Scripts that run once, the migration generated from `worker/models.py`, the load test, the page.
- What a verdict was based on: `is_settled` and `evaluate_trace` are two transactions, so rows written between them are judged half.
  `EvalWorker` has both steps; no document says what ought to hold.
- Order within a batch: `worker.py` groups rows by the columns they carry, so the older of two outputs can win. `EventMerge` models it
  (`LastOfGroups`); its properties hold for either outcome.

Possible next steps: a composition of `Tracing` with `EventMerge`, so that the tree is stated over merged rows, and one of `IngestWorker`
with `EventMerge`, so that `RetriesAreIdempotent` is about the redeliveries that `IngestWorker` produces.
