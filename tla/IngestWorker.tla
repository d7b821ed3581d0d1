---------------------------- MODULE IngestWorker ----------------------------
(***************************************************************************)
(* The ingest worker (worker/worker.py): a Redis consumer group that reads *)
(* the `events` stream in batches, writes each batch to Postgres in one    *)
(* transaction, acknowledges it and announces the touched traces on the    *)
(* `evals` stream.  Several workers share the group.  Every Redis command  *)
(* and every transaction is a step of its own, so that another worker, a   *)
(* kill, a SIGTERM or the passing of CLAIM_MIN_IDLE_MS can fall between    *)
(* any two of them.                                                        *)
(*                                                                         *)
(* Stream entries are numbered in XADD order, as Redis numbers them.       *)
(* The rows an event writes are the subject of module EventMerge; here an  *)
(* event is either committed or not.                                       *)
(***************************************************************************)
EXTENDS Naturals, FiniteSets

CONSTANTS
  Worker,       \* worker processes (pods) of the group
  Trace,        \* trace ids
  Kinds,        \* the kinds of entry the stream receives
  MaxEvents,    \* bound: entries ever added to the stream
  TraceOf,      \* the trace each entry belongs to
  BatchSize,    \* BATCH_SIZE
  MaxRetries,   \* MAX_RETRIES
  ClaimEvery,   \* CLAIM_EVERY_N_LOOPS
  StreamMaxLen, \* STREAM_MAXLEN
  EvalEnqueue,  \* EVAL_ENQUEUE
  MaxCrashes,   \* bound: processes killed
  MaxSignals,   \* bound: SIGTERMs delivered
  MaxFaults     \* bound: transient failures of Postgres or of a pipeline

Id == 1..MaxEvents

\* What becomes of an entry when the worker handles it.  "span" and "score"
\* apply cleanly, but only a span touches a trace; "poison" fails in
\* apply_events; "toxic" fails there and cannot be stored in the dead letter
\* table either; "garbled" is not JSON.
Kind == {"span", "score", "poison", "toxic", "garbled"}

ASSUME ConstantsAssumption ==
  /\ IsFiniteSet(Worker) /\ Kinds \subseteq Kind
  /\ MaxEvents \in Nat /\ TraceOf \in [Id -> Trace]
  /\ BatchSize \in Nat \ {0} /\ MaxRetries \in Nat \ {0}
  /\ ClaimEvery \in Nat \ {0} /\ StreamMaxLen \in Nat \ {0}
  /\ EvalEnqueue \in BOOLEAN
  /\ MaxCrashes \in Nat /\ MaxSignals \in Nat /\ MaxFaults \in Nat

VARIABLES
  \* Redis
  stream,     \* entries of `events` that have not been trimmed
  unread,     \* entries after the group's last-delivered id
  pel,        \* the group's pending entries list
  idle,       \* pending entries not delivered for CLAIM_MIN_IDLE_MS
  retry,      \* the RETRY_KEY hash; 0 is an absent field
  evals,      \* traces announced on `evals`
  \* Postgres
  applied,    \* entries whose rows are committed
  dlq,        \* entries with a row in ingestion_dead_letters
  \* worker processes
  pc,         \* the next command of each worker
  hand,       \* entries of the batch a worker has still to settle
  cur,        \* entries of its current ack, announcement or dead letter
  after,      \* where its loop continues when the batch is done
  loops,      \* `loops % CLAIM_EVERY_N_LOOPS`
  stop,       \* the stop event its signal handler sets
  \* history and bounds
  added,      \* number of entries ever added
  kind,       \* what each entry is
  written_off,\* entries acked although no dead letter row could be written
  fails,      \* per entry, transactions that tried it alone and failed
  fresh,      \* traces committed to since their last announcement
  crashes, signals, faults

redis == <<stream, unread, pel, idle, retry, evals>>
db    == <<applied, dlq>>
locals == <<pc, hand, cur, after, loops, stop>>
env   == <<added, kind, crashes, signals>>
vars  == <<stream, unread, pel, idle, retry, evals, applied, dlq,
           pc, hand, cur, after, loops, stop, added, kind, written_off,
           fails, fresh, crashes, signals, faults>>

PC == {"loop", "claim", "read", "parse", "batch", "each", "count",
       "dlq", "dlq_xack", "dlq_hdel", "xack", "hdel", "announce",
       "down", "stopped"}

Running == {w \in Worker : pc[w] \notin {"down", "stopped"}}
Fails   == {m \in Id : kind[m] \in {"poison", "toxic"}}
Garbled == {m \in Id : kind[m] = "garbled"}

\* The n smallest ids of S: what a command with COUNT n sees.
Lowest(S, n) == {m \in S : Cardinality({k \in S : k < m}) < n}
IsFirst(m, S) == m \in S /\ \A k \in S : m <= k

\* Faulty variant: entries are reported, not traces.
TouchedEntries(S) == {k \in S : kind[k] = "span"}

\* The traces apply_events reports as touched.
Touched(S) == {TraceOf[m] : m \in {k \in S : kind[k] = "span"}}

TypeOK ==
  /\ stream \in SUBSET Id /\ unread \in SUBSET Id /\ pel \in SUBSET Id
  /\ idle \in SUBSET Id /\ retry \in [Id -> Nat] /\ evals \in SUBSET Trace
  /\ applied \in SUBSET Id /\ dlq \in SUBSET Id /\ written_off \in SUBSET Id
  /\ pc \in [Worker -> PC]
  /\ hand \in [Worker -> SUBSET Id] /\ cur \in [Worker -> SUBSET Id]
  /\ after \in [Worker -> {"read", "loop"}]
  /\ loops \in [Worker -> Nat] /\ stop \in [Worker -> BOOLEAN]
  /\ added \in 0..MaxEvents /\ kind \in [Id -> Kind]
  /\ fails \in [Id -> Nat] /\ fresh \in SUBSET Trace
  /\ crashes \in Nat /\ signals \in Nat /\ faults \in Nat

Init ==
  /\ stream = {} /\ unread = {} /\ pel = {} /\ idle = {}
  /\ retry = [m \in Id |-> 0] /\ evals = {}
  /\ applied = {} /\ dlq = {} /\ written_off = {}
  /\ pc = [w \in Worker |-> "loop"]
  /\ hand = [w \in Worker |-> {}] /\ cur = [w \in Worker |-> {}]
  /\ after = [w \in Worker |-> "loop"]
  /\ loops = [w \in Worker |-> 0] /\ stop = [w \in Worker |-> FALSE]
  /\ added = 0 /\ kind = [m \in Id |-> "span"]
  /\ fails = [m \in Id |-> 0] /\ fresh = {}
  /\ crashes = 0 /\ signals = 0 /\ faults = 0
-----------------------------------------------------------------------------
(* The rest of the world: the ingestion server, the clock, the host.       *)

\* XADD ... MAXLEN ~: the server appends, and Redis may drop the oldest
\* entries, read or not, as long as StreamMaxLen remain.
Xadd(k) ==
  /\ added < MaxEvents
  /\ added' = added + 1
  /\ kind' = [kind EXCEPT ![added + 1] = k]
  /\ \E keep \in SUBSET (stream \cup {added + 1}) :
       /\ (keep = stream \cup {added + 1}) \/ Cardinality(keep) >= StreamMaxLen
       /\ \A m \in keep, n \in (stream \cup {added + 1}) \ keep : n < m
       /\ added + 1 \in keep
       /\ stream' = keep
       /\ unread' = (unread \cup {added + 1}) \cap keep
  /\ UNCHANGED <<pel, idle, retry, evals, db, locals, written_off, fails,
                 fresh, crashes, signals, faults>>

\* A pending entry has now been idle for CLAIM_MIN_IDLE_MS, whether its
\* consumer is dead or only slow.
GoesIdle(m) ==
  /\ m \in pel \ idle
  /\ idle' = idle \cup {m}
  /\ UNCHANGED <<stream, unread, pel, retry, evals, db, locals, env,
                 written_off, fails, fresh, faults>>

\* The process dies: killed, or a Redis command raised out of run().
Crash(w) ==
  /\ w \in Running /\ crashes < MaxCrashes
  /\ crashes' = crashes + 1
  /\ pc' = [pc EXCEPT ![w] = "down"]
  /\ hand' = [hand EXCEPT ![w] = {}] /\ cur' = [cur EXCEPT ![w] = {}]
  /\ UNCHANGED <<redis, db, after, loops, stop, added, kind, written_off,
                 fails, fresh, signals, faults>>

\* Faulty variant: no signal handler, the default action ends the process.
SigtermKills(w) ==
  /\ w \in Running /\ signals < MaxSignals
  /\ signals' = signals + 1
  /\ pc' = [pc EXCEPT ![w] = "stopped"]
  /\ hand' = [hand EXCEPT ![w] = {}] /\ cur' = [cur EXCEPT ![w] = {}]
  /\ UNCHANGED <<redis, db, after, loops, stop, added, kind, written_off,
                 fails, fresh, crashes, faults>>

\* SIGTERM only sets the stop event.
Sigterm(w) ==
  /\ w \in Running /\ ~stop[w] /\ signals < MaxSignals
  /\ signals' = signals + 1
  /\ stop' = [stop EXCEPT ![w] = TRUE]
  /\ UNCHANGED <<redis, db, pc, hand, cur, after, loops, added, kind,
                 written_off, fails, fresh, crashes, faults>>

Restart(w) ==
  /\ pc[w] \in {"down", "stopped"}
  /\ pc' = [pc EXCEPT ![w] = "loop"]
  /\ loops' = [loops EXCEPT ![w] = 0] /\ stop' = [stop EXCEPT ![w] = FALSE]
  /\ UNCHANGED <<redis, db, hand, cur, after, env, written_off, fails, fresh,
                 faults>>
-----------------------------------------------------------------------------
(* run(): the loop of one worker.                                          *)

Goto(w, l) == pc' = [pc EXCEPT ![w] = l]

\* A transient failure of Postgres or of a pipeline.
Fault == faults < MaxFaults /\ faults' = faults + 1

\* Faulty variant: the loop never reclaims.
LoopTopNeverClaims(w) ==
  /\ pc[w] = "loop"
  /\ Goto(w, IF stop[w] THEN "stopped" ELSE "read")
  /\ UNCHANGED <<redis, db, hand, cur, after, loops, stop, env, written_off,
                 fails, fresh, faults>>

\* `while not stop.is_set()`: every ClaimEvery-th turn reclaims first.
LoopTop(w) ==
  /\ pc[w] = "loop"
  /\ IF stop[w]
     THEN Goto(w, "stopped") /\ UNCHANGED loops
     ELSE /\ loops' = [loops EXCEPT ![w] = (@ + 1) % ClaimEvery]
          /\ Goto(w, IF loops'[w] = 0 THEN "claim" ELSE "read")
  /\ UNCHANGED <<redis, db, hand, cur, after, stop, env, written_off, fails,
                 fresh, faults>>

\* handle_batch(S), entered from run(), which continues at `next`.
Handle(w, S, next) ==
  /\ hand' = [hand EXCEPT ![w] = S]
  /\ after' = [after EXCEPT ![w] = next]
  /\ Goto(w, IF S = {} THEN next ELSE "parse")

\* reclaim_stranded(): XAUTOCLAIM from the start of the pending list.  Any
\* consumer's entries qualify.  Entries the stream no longer holds are
\* dropped from the list on the way.  Left out: a server that does not know the
\* command claims nothing, ever (worker.py:528-530).
Claim(w) ==
  LET seen == Lowest({m \in pel : m \notin stream \/ m \in idle}, BatchSize)
  IN /\ pc[w] = "claim"
     /\ pel' = pel \ (seen \ stream)
     /\ idle' = idle \ seen
     /\ Handle(w, seen \cap stream, "read")
     /\ UNCHANGED <<stream, unread, retry, evals, db, cur, loops, stop, env,
                    written_off, fails, fresh, faults>>

\* XREADGROUP ">": the next entries, or nothing once BLOCK_MS have passed.
Read(w) ==
  LET new == Lowest(unread, BatchSize)
  IN /\ pc[w] = "read"
     /\ unread' = unread \ new
     /\ pel' = pel \cup new
     /\ Handle(w, new, "loop")
     /\ UNCHANGED <<stream, idle, retry, evals, db, cur, loops, stop, env,
                    written_off, fails, fresh, faults>>
-----------------------------------------------------------------------------
(* handle_batch().                                                         *)

\* Unparseable entries are dead-lettered first, one by one; if nothing else
\* is left the batch is done.
Parse(w) ==
  /\ pc[w] = "parse"
  /\ \/ \E m \in hand[w] :
          /\ IsFirst(m, hand[w] \cap Garbled)
          /\ cur' = [cur EXCEPT ![w] = {m}]
          /\ hand' = [hand EXCEPT ![w] = @ \ {m}]
          /\ Goto(w, "dlq")
     \/ /\ hand[w] \cap Garbled = {}
        /\ Goto(w, IF hand[w] = {} THEN after[w] ELSE "batch")
        /\ UNCHANGED <<hand, cur>>
  /\ UNCHANGED <<redis, db, after, loops, stop, env, written_off, fails,
                 fresh, faults>>

\* A transaction that commits apply_events(S).
Commit(S) ==
  /\ S \cap Fails = {}
  /\ applied' = applied \cup S
  /\ fresh' = fresh \cup Touched(S)

\* A transaction over S that raises: an entry is bad and everything rolls
\* back, or the connection breaks, before or after the server committed.
Abort(S) ==
  \/ S \cap Fails # {} /\ UNCHANGED <<applied, fresh, faults>>
  \/ Fault /\ UNCHANGED <<applied, fresh>>
  \/ Fault /\ Commit(S)

\* The whole batch in one transaction.
BatchCommit(w) ==
  /\ pc[w] = "batch"
  /\ Commit(hand[w])
  /\ cur' = [cur EXCEPT ![w] = hand[w]]
  /\ hand' = [hand EXCEPT ![w] = {}]
  /\ Goto(w, "xack")
  /\ UNCHANGED <<redis, dlq, after, loops, stop, env, written_off, fails,
                 faults>>

\* Faulty variants: the batch that failed is acknowledged, or parked, as a
\* whole ...
BatchAbortAs(w, l) ==
  /\ pc[w] = "batch"
  /\ Abort(hand[w])
  /\ cur' = [cur EXCEPT ![w] = hand[w]]
  /\ hand' = [hand EXCEPT ![w] = {}]
  /\ Goto(w, l)
  /\ UNCHANGED <<redis, dlq, after, loops, stop, env, written_off, fails>>
BatchAbortAcks(w)  == BatchAbortAs(w, "xack")
BatchAbortParks(w) == BatchAbortAs(w, "dlq")

\* ... or announced before the commit that did not happen.
BatchAbortAnnounces(w) ==
  /\ pc[w] = "batch"
  /\ Abort(hand[w])
  /\ evals' = evals \cup Touched(hand[w])
  /\ Goto(w, "each")
  /\ UNCHANGED <<stream, unread, pel, idle, retry, dlq, hand, cur, after,
                 loops, stop, env, written_off, fails>>

\* The transaction failed: nothing is acknowledged yet.
BatchAbort(w) ==
  /\ pc[w] = "batch"
  /\ Abort(hand[w])
  /\ Goto(w, "each")
  /\ UNCHANGED <<redis, dlq, hand, cur, after, loops, stop, env, written_off,
                 fails>>

\* Faulty variant: the fallback forgets the announcement.
EachCommitSilent(w) ==
  /\ pc[w] = "each"
  /\ \E m \in hand[w] :
       /\ IsFirst(m, hand[w])
       /\ Commit({m})
       /\ cur' = [cur EXCEPT ![w] = {m}]
       /\ hand' = [hand EXCEPT ![w] = @ \ {m}]
  /\ Goto(w, "dlq_xack")
  /\ UNCHANGED <<redis, dlq, after, loops, stop, env, written_off, fails,
                 faults>>

\* The fallback: the entries one at a time, in order.
EachCommit(w) ==
  /\ pc[w] = "each"
  /\ \E m \in hand[w] :
       /\ IsFirst(m, hand[w])
       /\ Commit({m})
       /\ cur' = [cur EXCEPT ![w] = {m}]
       /\ hand' = [hand EXCEPT ![w] = @ \ {m}]
  /\ Goto(w, "xack")
  /\ UNCHANGED <<redis, dlq, after, loops, stop, env, written_off, fails,
                 faults>>

EachAbort(w) ==
  /\ pc[w] = "each"
  /\ \E m \in hand[w] :
       /\ IsFirst(m, hand[w])
       /\ Abort({m})
       /\ fails' = [fails EXCEPT ![m] = @ + 1]
       /\ cur' = [cur EXCEPT ![w] = {m}]
       /\ hand' = [hand EXCEPT ![w] = @ \ {m}]
  /\ Goto(w, "count")
  /\ UNCHANGED <<redis, dlq, after, loops, stop, env, written_off>>

\* Once an entry is dealt with, the next one of the batch, or the loop.
Continue(w) ==
  /\ cur' = [cur EXCEPT ![w] = {}]
  /\ Goto(w, IF hand[w] = {} THEN after[w] ELSE "each")

\* HINCRBY RETRY_KEY: give up at MaxRetries, otherwise leave it pending.
Count(w) ==
  /\ pc[w] = "count"
  /\ \E m \in cur[w] :
       /\ retry' = [retry EXCEPT ![m] = @ + 1]
       /\ IF retry'[m] >= MaxRetries
          THEN Goto(w, "dlq") /\ UNCHANGED cur
          ELSE Continue(w)
  /\ UNCHANGED <<stream, unread, pel, idle, evals, db, hand, after, loops,
                 stop, env, written_off, fails, fresh, faults>>

\* dead_letter(): the row, in a transaction of its own.  When even that
\* fails the entry is acknowledged all the same.
DeadLetter(w) ==
  /\ pc[w] = "dlq"
  /\ \/ /\ \A m \in cur[w] : kind[m] # "toxic"
        /\ dlq' = dlq \cup cur[w]
        /\ UNCHANGED <<written_off, faults>>
     \/ /\ \/ Fault
           \/ (\E m \in cur[w] : kind[m] = "toxic") /\ UNCHANGED faults
        /\ written_off' = written_off \cup cur[w]
        /\ UNCHANGED dlq
  /\ Goto(w, "dlq_xack")
  /\ UNCHANGED <<redis, applied, hand, cur, after, loops, stop, env, fails,
                 fresh>>

\* XACK, for a committed batch or entry and for a dead letter.
Xack(w) ==
  /\ pc[w] \in {"xack", "dlq_xack"}
  /\ pel' = pel \ cur[w]
  /\ idle' = idle \ cur[w]
  /\ Goto(w, IF pc[w] = "xack" THEN "hdel" ELSE "dlq_hdel")
  /\ UNCHANGED <<stream, unread, retry, evals, db, hand, cur, after, loops,
                 stop, env, written_off, fails, fresh, faults>>

\* HDEL RETRY_KEY.  After a dead letter the batch goes on: with the next
\* unparseable entry, or with the next one to try alone.
Hdel(w) ==
  /\ retry' = [m \in Id |-> IF m \in cur[w] THEN 0 ELSE retry[m]]
  /\ \/ pc[w] = "hdel" /\ Goto(w, "announce") /\ UNCHANGED cur
     \/ /\ pc[w] = "dlq_hdel" /\ cur[w] \cap Garbled = {}
        /\ Continue(w)
     \/ /\ pc[w] = "dlq_hdel" /\ cur[w] \cap Garbled # {}
        /\ cur' = [cur EXCEPT ![w] = {}] /\ Goto(w, "parse")
  /\ UNCHANGED <<stream, unread, pel, idle, evals, db, hand, after, loops,
                 stop, env, written_off, fails, fresh, faults>>

\* announce_for_eval(): a pipeline of XADDs, one per touched trace.  When it
\* fails some may have gone through; the error is only logged.
Announce(w) ==
  LET touched == IF EvalEnqueue THEN Touched(cur[w]) ELSE {}
  IN /\ pc[w] = "announce"
     /\ \E sent \in SUBSET touched :
          /\ (sent = touched /\ UNCHANGED faults) \/ Fault
          /\ evals' = evals \cup sent
          /\ fresh' = fresh \ sent
     /\ Continue(w)
     /\ UNCHANGED <<stream, unread, pel, idle, retry, db, hand, after, loops,
                    stop, env, written_off, fails>>
-----------------------------------------------------------------------------
Step(w) ==
  \/ LoopTop(w) \/ Claim(w) \/ Read(w) \/ Parse(w)
  \/ BatchCommit(w) \/ BatchAbort(w) \/ EachCommit(w) \/ EachAbort(w)
  \/ Count(w) \/ DeadLetter(w) \/ Xack(w) \/ Hdel(w) \/ Announce(w)

Next ==
  \/ \E k \in Kinds : Xadd(k)
  \/ \E m \in Id : GoesIdle(m)
  \/ \E w \in Worker : Step(w) \/ Crash(w) \/ Sigterm(w) \/ Restart(w)

Spec == Init /\ [][Next]_vars

\* A worker that is running keeps running its loop, time passes, and a
\* process that ended is started again.  The server, signals, kills and
\* failures are not fair.
FairSpec ==
  /\ Spec
  /\ \A w \in Worker : WF_vars(Step(w)) /\ WF_vars(Restart(w))
  /\ \A m \in Id : WF_vars(GoesIdle(m))
-----------------------------------------------------------------------------
(* Properties.                                                             *)

Trimmed == (1..added) \ stream

\* Nobody acknowledges an entry before its outcome is durable: an entry that
\* is neither waiting nor pending has its rows committed, is parked in the
\* dead letter table, was written off there, or was trimmed by Redis.  Kills,
\* aborted transactions and two workers holding the same entry included.
NoSilentLoss ==
  \A m \in 1..added :
    m \in unread \cup pel \cup applied \cup dlq \cup written_off \cup Trimmed

\* MAX_RETRIES counts the entry's own failures: one that parses is given up
\* only after it failed alone that often, however often its batch failed and
\* however many workers took turns with it.
GivenUpOnlyAfterRetries ==
  \A m \in dlq \cup written_off :
    kind[m] # "garbled" => fails[m] >= MaxRetries

\* One bad event costs no other (worker.py:459): an entry that can be applied
\* is given up only if Postgres itself failed MaxRetries times.
BadEventsAreIsolated ==
  (\E m \in dlq \cup written_off : kind[m] \in {"span", "score"})
    => faults >= MaxRetries

\* An announcement never runs ahead of the commit (worker.py:494): the eval
\* worker can read every trace it is told about.
AnnouncedAfterCommit == evals \subseteq Touched(applied)

\* Only a kill strands an entry: as long as no process was killed, a pending
\* entry that no worker has in hand has failed before and waits for its
\* retry.  A SIGTERM lets the batch in hand finish (fix #4).
Held(m) == \E w \in Worker : m \in hand[w] \cup cur[w]
OnlyKillsStrand ==
  crashes = 0 => \A m \in pel : Held(m) \/ retry[m] > 0

\* The inductive invariant behind these, and behind KeepsPromise.  Where
\* entries can be:
Places ==
  /\ stream \subseteq 1..added /\ unread \subseteq stream
  /\ pel \subseteq (1..added) \ unread
  /\ applied \cup dlq \cup written_off \subseteq 1..added
  /\ \A w \in Worker : hand[w] \cup cur[w] \subseteq (1..added) \ unread
\* What a worker knows of the entries it is about to acknowledge:
Knows(w) ==
  /\ pc[w] \in {"xack", "hdel", "announce"} => cur[w] \subseteq applied
  /\ pc[w] \in {"dlq_xack", "dlq_hdel"} => cur[w] \subseteq dlq \cup written_off
  /\ pc[w] \in {"count", "dlq"} => \E m \in Id : cur[w] = {m}
  /\ pc[w] = "dlq" =>
       \A m \in cur[w] : kind[m] # "garbled" => fails[m] >= MaxRetries
Outcomes == \A w \in Worker : Knows(w)
\* A failure is counted in RETRY_KEY, or about to be, at most once:
Counting(m) == {w \in Worker : pc[w] = "count" /\ m \in cur[w]}
Attempts == \A m \in Id : retry[m] + Cardinality(Counting(m)) <= fails[m]

IInv ==
  /\ TypeOK /\ Places /\ Outcomes /\ Attempts
  /\ NoSilentLoss /\ GivenUpOnlyAfterRetries /\ AnnouncedAfterCommit

\* The promise of module Delivery.
Promise == INSTANCE Delivery WITH
  Event    <- Id,
  accepted <- 1..added,
  open     <- unread \cup pel,
  stored   <- applied,
  parked   <- dlq,
  forgone  <- written_off \cup Trimmed
KeepsPromise == Promise!Spec

\* Every accepted entry leaves the pending list: applied, parked, written off
\* or trimmed.  Dead workers' entries are reclaimed and a poison entry cannot
\* stay for ever.
EveryEntrySettles ==
  \A m \in Id : (m \in unread \cup pel) ~> (m \notin unread \cup pel)

\* What a trace received is eventually announced, if nothing is killed and no
\* announcement fails.
CommitsAreAnnounced ==
  \A t \in Trace : (t \in fresh) ~> (t \notin fresh \/ crashes + faults > 0)
=============================================================================
