----------------------------- MODULE EvalWorker -----------------------------
(***************************************************************************)
(* The evaluation worker (evaluator/eval_worker.py).  It consumes the      *)
(* `evals` stream and schedules a settle check for every announced trace   *)
(* in the sorted set DUE_KEY; a check that is due is leased, and the trace *)
(* is judged, rule by rule, once its rows have been quiet for              *)
(* SETTLE_SECONDS or MAX_BOUNCES checks have passed.  A SETNX key per      *)
(* trace and rule keeps workers from judging twice.                        *)
(*                                                                         *)
(* Time is counted in ticks.  A score of DUE_KEY is kept as the ticks left *)
(* until it is due, and a row's updated_at as the ticks since, so that the *)
(* clock itself need not be a variable.  DONE_TTL is longer than a         *)
(* behaviour of the model, so a SETNX key never expires.                   *)
(***************************************************************************)
EXTENDS Integers, Sequences, FiniteSets

CONSTANTS
  Worker, Trace, Rule,
  Applies,      \* the <<trace, rule>> pairs that pass sampling and filter
  Missing,      \* traces whose row somebody deletes by hand whenever it is there
  BatchSize,    \* BATCH_SIZE
  Settle,       \* SETTLE_SECONDS, in ticks
  Lease,        \* CLAIM_LEASE_SECONDS, in ticks
  MaxBounces,   \* MAX_BOUNCES
  Endless,      \* whether traces go on being written for ever
  MaxWrites,    \* bound: writes, unless Endless
  MaxQueued,    \* bound: unread announcements
  MaxCrashes,   \* bound: processes killed
  MaxFaults,    \* bound: Redis or Postgres errors, and judge verdicts that
                \* raise something run_rule does not catch
  None          \* no trace, no rule

ASSUME ConstantsAssumption ==
  /\ Applies \subseteq Trace \X Rule /\ Missing \subseteq Trace
  /\ None \notin Trace \cup Rule /\ IsFiniteSet(Worker)
  /\ BatchSize \in Nat \ {0} /\ Settle \in Nat \ {0}
  /\ Lease \in Nat /\ Lease >= Settle
  /\ MaxBounces \in Nat /\ Endless \in BOOLEAN
  /\ MaxWrites \in Nat /\ MaxQueued \in Nat \ {0}
  /\ MaxCrashes \in Nat /\ MaxFaults \in Nat

Job == Trace \X Rule
Off == -1       \* not a member of DUE_KEY

VARIABLES
  \* Redis
  unread,     \* announcements nobody has read, oldest first
  stranded,   \* traces of announcements pending for a process that died
  missed,     \* traces of announcements acknowledged though ZADD failed
  due,        \* DUE_KEY: ticks left per trace, or Off
  bounces,    \* BOUNCE_KEY; 0 is an absent field
  done,       \* the SETNX keys
  \* Postgres
  age,        \* ticks since the trace's rows were last written
  jobs,       \* per trace and rule, the job_executions rows
  scores,     \* those with a score
  \* eval worker processes
  pc,
  hand,       \* announcements read and not handled yet
  members,    \* due traces this pass has still to check
  cur,        \* the trace it is checking
  todo,       \* rules still to run on it
  rule,       \* the rule being judged
  mine,       \* rules with a row in the open transaction, <<rule, status>>
  elapsed,    \* ticks since the pass read the clock
  \* the ingest worker, history and bounds
  unsaid,     \* traces written and not announced yet
  announced,  \* traces ever announced
  judged,     \* traces whose evaluation has been committed
  writes, crashes, faults

redis  == <<unread, stranded, missed, due, bounces, done>>
db     == <<age, jobs, scores>>
locals == <<pc, hand, members, cur, todo, rule, mine, elapsed>>
env    == <<unsaid, announced, writes>>
vars   == <<unread, stranded, missed, due, bounces, done, age, jobs, scores,
            pc, hand, members, cur, todo, rule, mine, elapsed,
            unsaid, announced, judged, writes, crashes, faults>>

PC == {"read", "schedule", "ack", "drain", "lease", "check", "bounce",
       "defer", "load", "rule", "judge", "zrem", "hdel", "down"}

TypeOK ==
  /\ unread \in Seq(Trace) /\ Len(unread) <= MaxQueued
  /\ stranded \in SUBSET Trace /\ missed \in SUBSET Trace
  /\ due \in [Trace -> Off..Lease]
  /\ bounces \in [Trace -> Nat] /\ done \in SUBSET Job
  /\ age \in [Trace -> 0..Settle] /\ jobs \in [Job -> Nat]
  /\ scores \in SUBSET Job
  /\ pc \in [Worker -> PC] /\ hand \in [Worker -> Seq(Trace)]
  /\ members \in [Worker -> SUBSET Trace]
  /\ cur \in [Worker -> Trace \cup {None}]
  /\ todo \in [Worker -> SUBSET Rule] /\ rule \in [Worker -> Rule \cup {None}]
  /\ mine \in [Worker -> SUBSET (Rule \X {"COMPLETED", "ERROR"})]
  /\ elapsed \in [Worker -> 0..Lease]
  /\ unsaid \in SUBSET Trace /\ announced \in SUBSET Trace
  /\ judged \in SUBSET Trace
  /\ writes \in 0..MaxWrites /\ crashes \in Nat /\ faults \in Nat

Init ==
  /\ unread = <<>> /\ stranded = {} /\ missed = {}
  /\ due = [t \in Trace |-> Off]
  /\ bounces = [t \in Trace |-> 0] /\ done = {}
  /\ age = [t \in Trace |-> Settle] /\ jobs = [j \in Job |-> 0]
  /\ scores = {}
  /\ pc = [w \in Worker |-> "read"] /\ hand = [w \in Worker |-> <<>>]
  /\ members = [w \in Worker |-> {}] /\ cur = [w \in Worker |-> None]
  /\ todo = [w \in Worker |-> {}] /\ rule = [w \in Worker |-> None]
  /\ mine = [w \in Worker |-> {}] /\ elapsed = [w \in Worker |-> 0]
  /\ unsaid = {} /\ announced = {} /\ judged = {}
  /\ writes = 0 /\ crashes = 0 /\ faults = 0
-----------------------------------------------------------------------------
(* The rest of the world.                                                  *)

\* The ingest worker commits rows of t, and announces t after that.
Write(t) ==
  /\ IF Endless THEN UNCHANGED writes
                ELSE writes < MaxWrites /\ writes' = writes + 1
  /\ age' = [age EXCEPT ![t] = 0]
  /\ unsaid' = unsaid \cup {t}
  /\ UNCHANGED <<redis, jobs, scores, locals, announced, judged,
                 crashes, faults>>

AnnounceTrace(t) ==
  /\ t \in unsaid /\ Len(unread) < MaxQueued
  /\ unsaid' = unsaid \ {t}
  /\ unread' = Append(unread, t)
  /\ announced' = announced \cup {t}
  /\ UNCHANGED <<stranded, missed, due, bounces, done, db, locals, judged,
                 writes, crashes, faults>>

Capped(n, cap) == IF n < cap THEN n + 1 ELSE cap

Tick ==
  /\ age' = [t \in Trace |-> Capped(age[t], Settle)]
  /\ due' = [t \in Trace |-> IF due[t] > 0 THEN due[t] - 1 ELSE due[t]]
  /\ elapsed' = [w \in Worker |->
                   IF members[w] # {} THEN Capped(elapsed[w], Lease) ELSE 0]
  /\ <<age, due, elapsed>>' # <<age, due, elapsed>>
  /\ UNCHANGED <<unread, stranded, missed, bounces, done, jobs, scores, pc,
                 hand, members, cur, todo, rule, mine, env, judged, crashes,
                 faults>>

Fault == faults < MaxFaults /\ faults' = faults + 1

\* The worker forgets everything it was doing; an open transaction is rolled
\* back with it.
Forget(w, l) ==
  /\ pc' = [pc EXCEPT ![w] = l]
  /\ members' = [members EXCEPT ![w] = {}]
  /\ cur' = [cur EXCEPT ![w] = None] /\ todo' = [todo EXCEPT ![w] = {}]
  /\ rule' = [rule EXCEPT ![w] = None] /\ mine' = [mine EXCEPT ![w] = {}]
  /\ elapsed' = [elapsed EXCEPT ![w] = 0]

Crash(w) ==
  /\ pc[w] # "down" /\ crashes < MaxCrashes
  /\ crashes' = crashes + 1
  /\ Forget(w, "down")
  /\ stranded' = stranded \cup {hand[w][i] : i \in DOMAIN hand[w]}
  /\ hand' = [hand EXCEPT ![w] = <<>>]
  /\ UNCHANGED <<unread, missed, due, bounces, done, db, env, judged,
                 faults>>

Restart(w) ==
  /\ pc[w] = "down"
  /\ pc' = [pc EXCEPT ![w] = "read"]
  /\ UNCHANGED <<redis, db, hand, members, cur, todo, rule, mine, elapsed, env,
                 judged, crashes, faults>>
-----------------------------------------------------------------------------
(* run() and handle_message().                                             *)

Goto(w, l) == pc' = [pc EXCEPT ![w] = l]

\* XREADGROUP: up to BatchSize announcements, or none once BLOCK_MS passed.
Read(w) ==
  LET n == IF Len(unread) < BatchSize THEN Len(unread) ELSE BatchSize
  IN /\ pc[w] = "read"
     /\ hand' = [hand EXCEPT ![w] = SubSeq(unread, 1, n)]
     /\ unread' = SubSeq(unread, n + 1, Len(unread))
     /\ Goto(w, IF n = 0 THEN "drain" ELSE "schedule")
     /\ UNCHANGED <<stranded, missed, due, bounces, done, db, members, cur,
                    todo, rule, mine, elapsed, env, judged, crashes,
                    faults>>

Later(a, b) == IF a > b THEN a ELSE b

\* ZADD GT: the check moves to Settle from now, never earlier.  An error is
\* logged, and the announcement acknowledged all the same.
Schedule(w) ==
  /\ pc[w] = "schedule"
  /\ \/ /\ due' = [due EXCEPT ![Head(hand[w])] = Later(@, Settle)]
        /\ UNCHANGED <<missed, faults>>
     \/ /\ Fault
        /\ missed' = missed \cup {Head(hand[w])}
        /\ UNCHANGED due
  /\ Goto(w, "ack")
  /\ UNCHANGED <<unread, stranded, bounces, done, db, hand, members, cur, todo,
                 rule, mine, elapsed, env, judged, crashes>>

Ack(w) ==
  /\ pc[w] = "ack"
  /\ hand' = [hand EXCEPT ![w] = Tail(@)]
  /\ Goto(w, IF Len(hand[w]) = 1 THEN "drain" ELSE "schedule")
  /\ UNCHANGED <<redis, db, members, cur, todo, rule, mine, elapsed, env,
                 judged, crashes, faults>>
-----------------------------------------------------------------------------
(* drain_due().                                                            *)

\* ZRANGEBYSCORE up to now: a pass checks at most BatchSize due members.
\* (Redis gives those due longest first; here they are any.)
Drain(w) ==
  LET ripe == {t \in Trace : due[t] = 0}
  IN /\ pc[w] = "drain"
     /\ \E S \in SUBSET ripe :
          /\ S = ripe \/ Cardinality(S) = BatchSize
          /\ Cardinality(S) <= BatchSize
          /\ members' = [members EXCEPT ![w] = S]
          /\ Goto(w, IF S = {} THEN "read" ELSE "lease")
     /\ elapsed' = [elapsed EXCEPT ![w] = 0]
     /\ UNCHANGED <<redis, db, hand, cur, todo, rule, mine, env, judged,
                    crashes, faults>>

\* Faulty variant: the entry is taken out of the set instead of leased.
LeaseTakesOut(w) ==
  /\ pc[w] = "lease"
  /\ \E t \in members[w] :
       /\ due' = [due EXCEPT ![t] = Off]
       /\ cur' = [cur EXCEPT ![w] = t]
  /\ Goto(w, "check")
  /\ UNCHANGED <<unread, stranded, missed, bounces, done, db, hand, members,
                 todo, rule, mine, elapsed, env, judged, crashes,
                 faults>>

\* ZADD XX: the entry is leased, from the time the pass began, if it is still
\* in the set; it is checked in any case.
LeaseEntry(w) ==
  /\ pc[w] = "lease"
  /\ \E t \in members[w] :
       /\ due' = [due EXCEPT ![t] = IF @ = Off THEN Off ELSE Lease - elapsed[w]]
       /\ cur' = [cur EXCEPT ![w] = t]
  /\ Goto(w, "check")
  /\ UNCHANGED <<unread, stranded, missed, bounces, done, db, hand, members,
                 todo, rule, mine, elapsed, env, judged, crashes,
                 faults>>

\* An exception leaves the pass; what it had not got to stays due.
Abort(w) ==
  /\ Fault
  /\ Forget(w, "read")

\* is_settled(), in a transaction of its own.  A trace whose row is gone
\* counts as last written at the epoch (the COALESCEs), so it is settled.
Check(w) ==
  /\ pc[w] = "check"
  /\ \/ /\ Goto(w, IF cur[w] \in Missing \/ age[cur[w]] >= Settle
                   THEN "load" ELSE "bounce")
        /\ UNCHANGED <<members, cur, todo, rule, mine, elapsed, faults>>
     \/ Abort(w)
  /\ UNCHANGED <<redis, db, hand, env, judged, crashes>>

\* Faulty variant: one check too many is postponed.
BounceOffByOne(w) ==
  /\ pc[w] = "bounce"
  /\ bounces' = [bounces EXCEPT ![cur[w]] = @ + 1]
  /\ Goto(w, IF bounces[cur[w]] <= MaxBounces THEN "defer" ELSE "load")
  /\ UNCHANGED <<unread, stranded, missed, due, done, db, hand, members, cur,
                 todo, rule, mine, elapsed, env, judged, crashes, faults>>

\* Faulty variant: there is no cap.
BounceAlways(w) ==
  /\ pc[w] = "bounce"
  /\ bounces' = [bounces EXCEPT ![cur[w]] = Capped(@, MaxBounces)]
  /\ Goto(w, "defer")
  /\ UNCHANGED <<unread, stranded, missed, due, done, db, hand, members, cur,
                 todo, rule, mine, elapsed, env, judged, crashes, faults>>

\* HINCRBY, and give up waiting after MaxBounces.
Bounce(w) ==
  /\ pc[w] = "bounce"
  /\ bounces' = [bounces EXCEPT ![cur[w]] = @ + 1]
  /\ Goto(w, IF bounces[cur[w]] + 1 <= MaxBounces THEN "defer" ELSE "load")
  /\ UNCHANGED <<unread, stranded, missed, due, done, db, hand, members, cur,
                 todo, rule, mine, elapsed, env, judged, crashes, faults>>

Continue(w) ==
  /\ members' = [members EXCEPT ![w] = @ \ {cur[w]}]
  /\ cur' = [cur EXCEPT ![w] = None]
  /\ Goto(w, IF members'[w] = {} THEN "read" ELSE "lease")

\* A plain ZADD: the lease gives way to the next check.
Defer(w) ==
  /\ pc[w] = "defer"
  /\ due' = [due EXCEPT ![cur[w]] = Settle]
  /\ Continue(w)
  /\ UNCHANGED <<unread, stranded, missed, bounces, done, db, hand, todo, rule,
                 mine, elapsed, env, judged, crashes, faults>>
-----------------------------------------------------------------------------
(* evaluate_trace(), in one transaction, and run_rule().                   *)

\* The rules to run; none for a trace that is not found.
Load(w) ==
  /\ pc[w] = "load"
  /\ todo' = [todo EXCEPT ![w] =
                {r \in Rule : <<cur[w], r>> \in Applies /\ cur[w] \notin Missing}]
  /\ Goto(w, "rule")
  /\ UNCHANGED <<redis, db, hand, members, cur, rule, mine, elapsed, env,
                 judged, crashes, faults>>

\* Faulty variant: the key is looked at first and set with the commit.
ClaimLooksOnly(w) ==
  /\ pc[w] = "rule"
  /\ \E r \in todo[w] :
       /\ todo' = [todo EXCEPT ![w] = @ \ {r}]
       /\ IF <<cur[w], r>> \in done
          THEN UNCHANGED <<rule, pc>>
          ELSE rule' = [rule EXCEPT ![w] = r] /\ Goto(w, "judge")
       /\ done' = IF todo'[w] = {} THEN done \cup {<<cur[w], r>>} ELSE done
  /\ UNCHANGED <<unread, stranded, missed, due, bounces, db, hand, members,
                 cur, mine, elapsed, env, judged, crashes, faults>>

\* already_evaluated(): SET NX, which is not part of the transaction.
ClaimRule(w) ==
  /\ pc[w] = "rule"
  /\ \E r \in todo[w] :
       /\ todo' = [todo EXCEPT ![w] = @ \ {r}]
       /\ IF <<cur[w], r>> \in done
          THEN UNCHANGED <<rule, pc>>
          ELSE rule' = [rule EXCEPT ![w] = r] /\ Goto(w, "judge")
       /\ done' = done \cup {<<cur[w], r>>}
  /\ UNCHANGED <<unread, stranded, missed, due, bounces, db, hand, members,
                 cur, mine, elapsed, env, judged, crashes, faults>>

\* Faulty variant: a failed judge is only logged.
JudgeSwallows(w) ==
  /\ pc[w] = "judge"
  /\ \/ mine' = [mine EXCEPT ![w] = @ \cup {<<rule[w], "COMPLETED">>}]
     \/ UNCHANGED mine
  /\ rule' = [rule EXCEPT ![w] = None]
  /\ Goto(w, "rule")
  /\ UNCHANGED <<redis, db, hand, members, cur, todo, elapsed, env, judged,
                 crashes, faults>>

\* The judge answers, or fails in a way that is recorded, or raises something
\* run_rule does not catch.
Judge(w) ==
  /\ pc[w] = "judge"
  /\ \/ /\ \E status \in {"COMPLETED", "ERROR"} :
             mine' = [mine EXCEPT ![w] = @ \cup {<<rule[w], status>>}]
        /\ rule' = [rule EXCEPT ![w] = None]
        /\ Goto(w, "rule")
        /\ UNCHANGED <<members, cur, todo, elapsed, faults>>
     \/ Abort(w)
  /\ UNCHANGED <<redis, db, hand, env, judged, crashes>>

\* The transaction commits once no rule is left.
CommitJobs(w) ==
  /\ pc[w] = "rule" /\ todo[w] = {}
  /\ \/ /\ jobs' = [j \in Job |->
              IF j[1] = cur[w] /\ \E s \in {"COMPLETED", "ERROR"} :
                                    <<j[2], s>> \in mine[w]
              THEN jobs[j] + 1 ELSE jobs[j]]
        /\ scores' = scores \cup
              {j \in Job : j[1] = cur[w] /\ <<j[2], "COMPLETED">> \in mine[w]}
        /\ judged' = judged \cup {cur[w]}
        /\ mine' = [mine EXCEPT ![w] = {}]
        /\ Goto(w, "zrem")
        /\ UNCHANGED <<members, cur, todo, rule, elapsed, faults>>
     \/ /\ Abort(w)
        /\ UNCHANGED <<jobs, scores, judged>>
  /\ UNCHANGED <<redis, age, hand, env, crashes>>

\* ZREM DUE_KEY, then HDEL BOUNCE_KEY.
Zrem(w) ==
  /\ pc[w] = "zrem"
  /\ due' = [due EXCEPT ![cur[w]] = Off]
  /\ Goto(w, "hdel")
  /\ UNCHANGED <<unread, stranded, missed, bounces, done, db, hand, members,
                 cur, todo, rule, mine, elapsed, env, judged, crashes,
                 faults>>

\* Faulty variant: the counter is taken down instead of deleted.
HdelSubtracts(w) ==
  /\ pc[w] = "hdel"
  /\ bounces' = [bounces EXCEPT ![cur[w]] = @ - MaxBounces]
  /\ Continue(w)
  /\ UNCHANGED <<unread, stranded, missed, due, done, db, hand, todo, rule,
                 mine, elapsed, env, judged, crashes, faults>>

Hdel(w) ==
  /\ pc[w] = "hdel"
  /\ bounces' = [bounces EXCEPT ![cur[w]] = 0]
  /\ Continue(w)
  /\ UNCHANGED <<unread, stranded, missed, due, done, db, hand, todo, rule,
                 mine, elapsed, env, judged, crashes, faults>>
-----------------------------------------------------------------------------
Step(w) ==
  \/ Read(w) \/ Schedule(w) \/ Ack(w) \/ Drain(w) \/ LeaseEntry(w)
  \/ Check(w) \/ Bounce(w) \/ Defer(w) \/ Load(w) \/ ClaimRule(w)
  \/ Judge(w) \/ CommitJobs(w) \/ Zrem(w) \/ Hdel(w)

Next ==
  \/ \E t \in Trace : Write(t) \/ AnnounceTrace(t)
  \/ Tick
  \/ \E w \in Worker : Step(w) \/ Crash(w) \/ Restart(w)

Spec == Init /\ [][Next]_vars

\* A worker that is running keeps running its loop, time passes, a process
\* that ended is started again, and what was written is announced.
FairSpec ==
  /\ Spec
  /\ \A w \in Worker : WF_vars(Step(w)) /\ WF_vars(Restart(w))
  /\ \A t \in Trace : WF_vars(AnnounceTrace(t))
  /\ WF_vars(Tick)
-----------------------------------------------------------------------------
(* Properties.                                                             *)

\* However often a trace is announced, however many workers check it and
\* however early a lease runs out, a rule is evaluated at most once on it.
EvaluatedOnce == \A j \in Job : jobs[j] <= 1

\* Every evaluation that was claimed leaves a job_executions row, or some
\* worker is still at it (eval_worker.py:19, models.py:895-898).
AtWork(w, t, r) ==
  cur[w] = t /\ (rule[w] = r \/ \E s \in {"COMPLETED", "ERROR"} :
                                   <<r, s>> \in mine[w])
EveryEvaluationIsRecorded ==
  \A t \in Trace, r \in Rule :
    <<t, r>> \in done =>
      jobs[<<t, r>>] > 0 \/ \E w \in Worker : AtWork(w, t, r)

\* As long as nothing dies and no pass aborts, that is so: a judge that fails
\* leaves a row that says why, for every rule of the trace.
RecordedUnlessCutShort ==
  crashes = 0 /\ faults = 0 => EveryEvaluationIsRecorded

\* An announced trace is not forgotten before it has been evaluated, though
\* processes are killed and passes abort: it is announced, pending, or in
\* DUE_KEY.  (Unless the ZADD itself failed.)
InHand(t) == \E w \in Worker : \E i \in DOMAIN hand[w] : hand[w][i] = t
NothingForgotten ==
  \A t \in announced \ judged :
    \/ due[t] # Off \/ InHand(t) \/ t \in stranded \cup missed
    \/ \E i \in DOMAIN unread : unread[i] = t

\* However long a trace is being written, workers stop waiting for it after
\* MAX_BOUNCES checks (eval_worker.py:88-90, 394-400): it is counted past
\* that only by workers that are evaluating it, or were until a kill or an
\* error stopped them.
Late  == {"load", "rule", "judge", "zrem", "hdel"}
AtIt(t) == {w \in Worker : pc[w] \in Late /\ cur[w] = t}
PatienceEnds ==
  \A t \in Trace :
    bounces[t] <= MaxBounces + Cardinality(AtIt(t)) + crashes + faults

\* A trace that is written for ever and, from some time on, never checked:
\* each announcement puts the check off before it comes due.
Neglected(t) ==
  /\ []<>(age[t] = 0)
  /\ <>[](\A w \in Worker : ~ (pc[w] = "check" /\ cur[w] = t))

\* Every announced trace is evaluated in the end, though it is being written
\* for ever ("a trace that never goes quiet is still evaluated eventually",
\* eval_worker.py:88-89), unless its announcement was read by a process that
\* died, or lost to an error, or it is neglected.
EventuallyEvaluated ==
  \A t \in Trace :
    \/ Neglected(t)
    \/ (t \in announced) ~> (t \in judged \cup stranded \cup missed)

(***************************************************************************)
(* What the comments of the code say, and the model does not bear out.     *)
(***************************************************************************)

\* The checks of a trace are SETTLE_SECONDS apart (eval_worker.py:88), so no
\* two of them are counted side by side.  Two workers that have read the
\* same due entry do that.
ChecksAreApart ==
  \A v, w \in Worker :
    pc[v] = "bounce" /\ pc[w] = "bounce" /\ cur[v] = cur[w] => v = w

\* A trace that never goes quiet is evaluated (eval_worker.py:88-89).  One
\* that is announced again before its check comes due never is.
NeverQuietIsEvaluated ==
  \A t \in Trace :
    (t \in announced) ~> (t \in judged \cup stranded \cup missed)
=============================================================================
