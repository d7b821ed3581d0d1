------------------------------ MODULE Experiment ------------------------------
(***************************************************************************)
(* Experiments (sdk/experiment.py) over the datasets of the API            *)
(* (main.py 292-615): runners that execute one dataset under one run name, *)
(* perhaps at the same time or again later, link each item to the trace    *)
(* they are about to make, and wait for the evaluation worker, which       *)
(* resolves the expected output through that link (build_variables,        *)
(* eval_worker.py 181-191).                                                *)
(***************************************************************************)
EXTENDS Naturals, Sequences, FiniteSets, SequencesExt

CONSTANTS
  Runner,      \* executions of run() and wait_for_scores()
  Item,        \* dataset items there may ever be
  Rule, Name,  \* evaluation rules, and the names scores go by
  NameOf,      \* score_name of each rule: not unique
  None,
  Limit,       \* what list_items() returns at most: 500
  MaxFeedback, \* bound: scores that clients give
  MaxTrouble   \* bound: HTTP requests that fail

ASSUME ExperimentAssumption ==
  /\ Limit \in Nat \ {0} /\ MaxTrouble \in Nat /\ MaxFeedback \in Nat
  /\ None \notin Item \cup (Runner \X Item)
  /\ NameOf \in [Rule -> Name] /\ Rule \cap Nat = {}

\* A runner mints one trace id for each item.
Trace == Runner \X Item

\* dataset_run_items is unique in the run and the item.
RunItem == [Item -> Trace \cup {None}]

\* A row of scores, anchored to a trace or to a run item.  No two have the same
\* id, but many may have the same anchor and name.
Score == [trace : Trace \cup {None}, item : Item \cup {None}, name : Name,
          by   : Rule \cup 1..MaxFeedback,  \* who gave it
          knew : Item \cup {None}]          \* history: the item whose answer it had

VARIABLES
  dataset,    \* active items, oldest first
  run,        \* the dataset_runs row exists
  link,       \* dataset_run_items: one row per item
  superseded, \* history: traces whose link was replaced
  pc,         \* the next call of each runner
  mine,       \* the items it was given
  todo,       \* those it has not finished
  done,       \* those it has, ok or failed
  trace,      \* how far each trace has come
  heard,      \* verdicts of rules, in transactions that are open
  score,      \* the rows of scores
  trouble     \* failed requests so far

vars == <<dataset, run, link, superseded, pc, mine, todo, done, trace,
          heard, score, trouble>>

TypeOK ==
  /\ dataset \in Seq(Item) /\ run \in BOOLEAN
  /\ link \in RunItem
  /\ superseded \subseteq Trace
  /\ pc \in [Runner -> {"create", "list", "link", "emit", "task", "flush",
                        "wait", "scored", "gave up", "raised"}]
  /\ \A r \in Runner : pc[r] \in {"link", "emit", "task"} => todo[r] # <<>>
  /\ mine \in [Runner -> Seq(Item)] /\ todo \in [Runner -> Seq(Item)]
  /\ done \in [Runner -> SUBSET Item]
  /\ trace \in [Trace -> {"none", "sent", "stored", "judging", "judged"}]
  /\ heard \subseteq Score /\ score \subseteq Score
  /\ trouble \in 0..MaxTrouble

Init ==
  /\ dataset = <<>> /\ run = FALSE
  /\ link = [i \in Item |-> None] /\ superseded = {}
  /\ pc = [r \in Runner |-> "create"]
  /\ mine = [r \in Runner |-> <<>>] /\ todo = [r \in Runner |-> <<>>]
  /\ done = [r \in Runner |-> {}]
  /\ trace = [t \in Trace |-> "none"]
  /\ heard = {} /\ score = {} /\ trouble = 0

runner == <<pc, mine, todo, done>>
judge == <<heard, score>>
-----------------------------------------------------------------------------
(* The API.                                                                *)

\* add_item(), or add_item_from_trace() for a trace that is there.
AddItem(i, from) ==
  /\ i \notin Range(dataset)
  /\ from # None => trace[from] \in {"stored", "judging", "judged"}
  /\ dataset' = Append(dataset, i)
  /\ UNCHANGED <<run, link, superseded, runner, trace, judge, trouble>>

\* create_run() and link_run_item(): upserts.
CreatesRun == run' = TRUE

Links(i, t) ==
  /\ run
  /\ link' = [link EXCEPT ![i] = t]
  /\ superseded' = IF link[i] = None THEN superseded
                   ELSE superseded \cup {link[i]}

\* list_items(), with its default limit.
Listed == SubSeq(dataset, 1, IF Len(dataset) < Limit THEN Len(dataset) ELSE Limit)

\* The rows that reach a run through its item i, under one name.
Reaching(i, n) ==
  {s \in score : /\ s.name = n /\ link[i] # None
                 /\ s.trace = link[i] \/ s.item = i}

\* Faulty variant: the rows of all names in one count.
ComparedInAll == [n \in Name |->
  Cardinality({x \in Item \X score : \E m \in Name : x[2] \in Reaching(x[1], m)})]

\* compare_runs(): how many rows of each name reach the run.
Compared == [n \in Name |->
  Cardinality({x \in Item \X score : x[2] \in Reaching(x[1], n)})]
-----------------------------------------------------------------------------
(* run().                                                                  *)

Goto(r, l) == pc' = [pc EXCEPT ![r] = l]

\* A request that fails raises out of run(), whether it was carried out or not.
Raises(r) ==
  /\ trouble < MaxTrouble /\ trouble' = trouble + 1
  /\ Goto(r, "raised")

CreateRun(r) ==
  /\ pc[r] = "create"
  /\ \/ CreatesRun /\ Goto(r, "list") /\ UNCHANGED trouble
     \/ (CreatesRun \/ UNCHANGED run) /\ Raises(r)
  /\ UNCHANGED <<dataset, link, superseded, mine, todo, done, trace, judge>>

\* list_items(); a dataset without any ends the run.
ListItems(r) ==
  /\ pc[r] = "list"
  /\ \/ /\ mine' = [mine EXCEPT ![r] = Listed]
        /\ todo' = [todo EXCEPT ![r] = Listed]
        /\ Goto(r, IF Listed = <<>> THEN "raised" ELSE "link")
        /\ UNCHANGED trouble
     \/ Raises(r) /\ UNCHANGED <<mine, todo>>
  /\ UNCHANGED <<dataset, run, link, superseded, done, trace, judge>>

Now(r) == <<r, Head(todo[r])>>

Link(r) ==
  /\ pc[r] = "link"
  /\ \/ Links(Head(todo[r]), Now(r)) /\ Goto(r, "emit") /\ UNCHANGED trouble
     \/ /\ Links(Head(todo[r]), Now(r)) \/ UNCHANGED <<link, superseded>>
        /\ Raises(r)
  /\ UNCHANGED <<dataset, run, mine, todo, done, trace, judge>>

\* Faulty variant: the trace is opened before the link is there.
EmitFirst(r) ==
  /\ pc[r] \in {"link", "emit"} /\ trace[Now(r)] = "none"
  /\ trace' = [trace EXCEPT ![Now(r)] = "sent"]
  /\ Goto(r, IF pc[r] = "link" THEN "link" ELSE "task")
  /\ UNCHANGED <<dataset, run, link, superseded, mine, todo, done, judge,
                 trouble>>

Emit(r) ==
  /\ pc[r] = "emit"
  /\ trace' = [trace EXCEPT ![Now(r)] = "sent"]
  /\ Goto(r, "task")
  /\ UNCHANGED <<dataset, run, link, superseded, mine, todo, done, judge,
                 trouble>>

TaskEnds(r, rest) ==
  /\ pc[r] = "task"
  /\ done' = [done EXCEPT ![r] = @ \cup {Head(todo[r])}]
  /\ todo' = [todo EXCEPT ![r] = rest]
  /\ Goto(r, IF rest = <<>> THEN "flush" ELSE "link")
  /\ UNCHANGED <<dataset, run, link, superseded, mine, trace, judge, trouble>>

\* Faulty variant: a failing task ends the run.
TaskAbandons(r) == TaskEnds(r, Tail(todo[r])) \/ TaskEnds(r, <<>>)

\* The task returns or raises; either way its item, and no other, is done with.
RunTask(r) == TaskEnds(r, Tail(todo[r]))

\* flush(), then the caller waits for as many scores as there were items.
Flush(r) ==
  /\ pc[r] = "flush" /\ Goto(r, "wait")
  /\ UNCHANGED <<dataset, run, link, superseded, mine, todo, done, trace,
                 judge, trouble>>

\* wait_for_scores(): a poll that finds enough rows of some name, or the deadline.
Poll(r) ==
  /\ pc[r] = "wait"
  /\ \/ /\ \E n \in Name : Compared[n] >= Len(mine[r])
        /\ Goto(r, "scored") /\ UNCHANGED trouble
     \/ Goto(r, "gave up") /\ UNCHANGED trouble
     \/ Raises(r)
  /\ UNCHANGED <<dataset, run, link, superseded, mine, todo, done, trace,
                 judge>>
-----------------------------------------------------------------------------
(* The pipeline and the evaluation worker: see IngestPath, IngestWorker and *)
(* EvalWorker.  A trace may stay on its way for good, and a judge may fail. *)

Store(t) ==
  /\ trace[t] = "sent" /\ trace' = [trace EXCEPT ![t] = "stored"]
  /\ UNCHANGED <<dataset, run, link, superseded, runner, judge, trouble>>

Verdict(t, e, k) ==
  [trace |-> t, item |-> None, name |-> NameOf[e], by |-> e, knew |-> k]

\* run_rule(): build_variables() looks dataset_item.expected_output up for each
\* rule anew, and the verdict stays in the transaction of evaluate_trace().  A
\* rule judges a trace once, as its key outlives the trace.
JudgeReads(t, e) ==
  /\ trace[t] \in {"stored", "judging"} /\ trace' = [trace EXCEPT ![t] = "judging"]
  /\ \A s \in heard : s.trace = t => s.by # e
  /\ \E k \in Item \cup {None} :
       /\ \/ k # None /\ link[k] = t
          \/ k = None /\ \A i \in Item : link[i] # t
       /\ heard' = heard \cup {Verdict(t, e, k)}
  /\ UNCHANGED <<dataset, run, link, superseded, runner, score, trouble>>

\* The commit: a rule whose judge failed leaves no score.
JudgeAnswers(t, rows) ==
  /\ trace[t] = "judging" /\ trace' = [trace EXCEPT ![t] = "judged"]
  /\ rows \subseteq {s \in heard : s.trace = t}
  /\ score' = score \cup rows
  /\ heard' = {s \in heard : s.trace # t}
  /\ UNCHANGED <<dataset, run, link, superseded, runner, trouble>>

Given(t, i, n, id) ==
  [trace |-> t, item |-> i, name |-> n, by |-> id, knew |-> None]

\* score(): a client's own, on a trace that was opened or on an item of the run.
Feedback(t, i, n, id) ==
  /\ \/ t # None /\ i = None /\ trace[t] # "none"
     \/ t = None /\ i # None /\ link[i] # None
  /\ \A s \in score : s.by # id
  /\ score' = score \cup {Given(t, i, n, id)}
  /\ UNCHANGED <<dataset, run, link, superseded, runner, trace, heard, trouble>>

Next ==
  \/ \E i \in Item, t \in Trace \cup {None} : AddItem(i, t)
  \/ \E r \in Runner :
       \/ CreateRun(r) \/ ListItems(r) \/ Link(r) \/ Emit(r) \/ RunTask(r)
       \/ Flush(r) \/ Poll(r)
  \/ \E t \in Trace :
       \/ Store(t)
       \/ \E e \in Rule : JudgeReads(t, e)
       \/ \E rows \in SUBSET {s \in heard : s.trace = t} : JudgeAnswers(t, rows)
  \/ \E t \in Trace \cup {None}, i \in Item \cup {None}, n \in Name,
        id \in 1..MaxFeedback : Feedback(t, i, n, id)

Spec == Init /\ [][Next]_vars
-----------------------------------------------------------------------------
\* A rule's score that counts for an item was given with that item's expected
\* output at hand, whoever runs the same run at the same time.
CountedScoresKnewTheAnswer ==
  \A i \in Item, s \in score :
    s.by \in Rule /\ link[i] # None /\ s.trace = link[i] => s.knew = i

\* A run that returns has made a trace for each of its items, whichever of its
\* tasks failed, and each is what the item is linked to, unless another runner
\* has linked the item since.
Returned(r) == pc[r] \in {"flush", "wait", "scored", "gave up"}
RunIsComplete ==
  \A r \in Runner : Returned(r) =>
    /\ done[r] = Range(mine[r])
    /\ \A i \in Range(mine[r]) :
         /\ trace[<<r, i>>] # "none"
         /\ link[i] = <<r, i>> \/ <<r, i>> \in superseded

\* When wait_for_scores() has seen enough, there is a name under which every item
\* of the run is scored, or some item twice; and the run's traces are this
\* runner's, or of one that has linked the item since.  Unless someone has added
\* items to the run that this runner did not know.
Enough(r, n) == \/ \A i \in Range(mine[r]) : Reaching(i, n) # {}
                \/ \E i \in Range(mine[r]) : \E s, u \in Reaching(i, n) : s # u
WaitIsHonest ==
  [][\A r \in Runner :
       /\ pc[r] = "wait" /\ pc'[r] = "scored"
       /\ {i \in Item : link[i] # None} \subseteq Range(mine[r])
       => /\ \E n \in Name : Enough(r, n)
          /\ \A i \in Range(mine[r]) : link[i] = <<r, i>> \/ <<r, i>> \in superseded]_vars

\* The inductive invariant behind the first two.  An item is linked to a trace
\* some runner minted for it, and a rule that has read that trace found the
\* link there; what is scored was opened.
Distinct(s) == \A j, k \in 1..Len(s) : s[j] = s[k] => j = k
Linked(i) == link[i] # None =>
  /\ \E r \in Runner : link[i] = <<r, i>>
  /\ \A s \in heard \cup score : s.by \in Rule /\ s.trace = link[i] => s.knew = i
Opened(s) == s.trace # None => trace[s.trace] # "none"
\* The traces of the items a runner has ahead are not there yet, ...
Ahead(r) ==
  /\ Distinct(todo[r])
  /\ pc[r] \in {"create", "list"} =>
       done[r] = {} /\ \A i \in Item : trace[<<r, i>>] = "none"
  /\ pc[r] \in {"link", "emit"} =>
       \A i \in Range(todo[r]) : trace[<<r, i>>] = "none"
  /\ pc[r] = "task" => \A i \in Range(Tail(todo[r])) : trace[<<r, i>>] = "none"
\* ... those of the others are, and were linked.
Made(r, i) == link[i] = <<r, i>> \/ <<r, i>> \in superseded
Behind(r) ==
  /\ pc[r] \in {"link", "emit", "task"} \/ Returned(r) =>
       /\ Range(mine[r]) = done[r] \cup Range(todo[r])
       /\ done[r] \cap Range(todo[r]) = {}
  /\ Returned(r) => todo[r] = <<>>
  /\ \A i \in done[r] : trace[<<r, i>>] # "none" /\ Made(r, i)
  /\ pc[r] \in {"emit", "task"} => Made(r, Head(todo[r]))
  /\ pc[r] = "task" => trace[Now(r)] # "none"

IInv ==
  /\ TypeOK /\ Distinct(dataset)
  /\ \A i \in Item : Linked(i)
  /\ \A s \in heard \cup score : Opened(s)
  /\ \A r \in Runner : Ahead(r) /\ Behind(r)

\* wait_for_scores() polls "until the eval worker has scored the run"
\* (experiment.py:125).
WaitMeansScored ==
  [][\A r \in Runner :
       pc[r] = "wait" /\ pc'[r] = "scored" =>
       \A i \in Range(mine[r]) : \E s \in score : s.by \in Rule /\ s.trace = link[i]]_vars

\* run() executes the task over every item in the dataset (experiment.py:79).
RunsEveryItem ==
  [][\A r \in Runner : pc[r] = "list" /\ pc'[r] = "link" =>
       Range(mine'[r]) = Range(dataset)]_vars
=============================================================================
