----------------------------- MODULE EventMerge -----------------------------
(***************************************************************************)
(* What a committed batch does to the rows (worker/worker.py,              *)
(* apply_events): stub traces, merging creates, sparse updates and the     *)
(* cost resolution of shared/pricing.py, in one transaction.               *)
(*                                                                         *)
(* Events are numbered in the order the client made them, and the value an *)
(* event carries for a column is represented by the event's number; 0 is   *)
(* NULL, or the placeholder a row builder puts in a NOT NULL column.       *)
(* Delivery is what module IngestWorker allows: any batch of the events    *)
(* sent so far, at any time, any number of times.  A batch Postgres        *)
(* rejects leaves no trace here.                                           *)
(***************************************************************************)
EXTENDS Naturals, FiniteSets

CONSTANTS
  Trace, Obs,     \* trace ids and observation ids
  Score,          \* score ids
  TraceOf,        \* the trace of each observation
  Generation,     \* the observations of type GENERATION
  Unpriced,       \* the events whose model name matches no price
  TraceShapes,    \* the column sets trace_create events carry,
  CreateShapes,   \* those of observation_create,
  UpdateShapes,   \* and those of observation_update
  MaxEvents,      \* bound: events a client makes
  MaxDeliveries   \* bound: committed transactions

TraceColumn == {"name", "output", "metadata", "timestamp", "is_experiment"}
ObsColumn   == {"type", "name", "level", "output", "start_time", "end_time",
                "model", "usage", "cost"}

\* A create has a type.  No client of the repository updates type or start_time,
\* though the server would take it.
ASSUME ConstantsAssumption ==
  /\ TraceOf \in [Obs -> Trace] /\ Generation \subseteq Obs
  /\ TraceShapes \subseteq SUBSET TraceColumn
  /\ CreateShapes \subseteq {S \in SUBSET ObsColumn : "type" \in S}
  /\ UpdateShapes \subseteq SUBSET (ObsColumn \ {"type", "start_time"})
  /\ MaxEvents \in Nat /\ MaxDeliveries \in Nat

Id == 1..MaxEvents
Null == 0
Value == {Null} \cup Id
NoEvent == [op |-> "none"]

VARIABLES
  made,       \* number of events made by the clients
  event,      \* the events
  committed,  \* those committed at least once
  traces,     \* ids with a row in `traces`
  trace,      \* its columns
  rows,       \* ids with a row in `observations`
  obs,        \* its columns
  began,      \* its start_time, as a time
  total,      \* its total_cost: <<>>, <<client's>> or <<model, usage>>
  score,      \* the event each score row was written by
  deliveries

tables == <<traces, trace, rows, obs, began, total, score>>
vars   == <<made, event, committed, traces, trace, rows, obs, began, total,
            score, deliveries>>

Event ==
  {NoEvent}
    \cup [op : {"trace_create"}, id : Trace, cols : TraceShapes]
    \cup [op : {"observation_create"}, id : Obs, cols : CreateShapes]
    \cup [op : {"observation_update"}, id : Obs, cols : UpdateShapes]
    \cup [op : {"score_create"}, id : Score]

\* The times event n carries, and the envelope's `ts`, taken just after.
At(n) == 2 * n
Ts(n) == 2 * n + 1

TypeOK ==
  /\ made \in 0..MaxEvents /\ event \in [Id -> Event]
  /\ committed \in SUBSET Id
  /\ traces \in SUBSET Trace /\ trace \in [Trace -> [TraceColumn -> Value]]
  /\ rows \in SUBSET Obs /\ obs \in [Obs -> [ObsColumn -> Value]]
  /\ began \in [Obs -> Nat] /\ score \in [Score -> Value]
  /\ total \in [Obs -> {<<>>} \cup {<<c>> : c \in Id}
                         \cup {<<m, u>> : m \in Id, u \in Id}]
  /\ deliveries \in 0..MaxDeliveries

Init ==
  /\ made = 0 /\ event = [n \in Id |-> NoEvent] /\ committed = {}
  /\ traces = {} /\ trace = [t \in Trace |-> [c \in TraceColumn |-> Null]]
  /\ rows = {} /\ obs = [o \in Obs |-> [c \in ObsColumn |-> Null]]
  /\ began = [o \in Obs |-> 0] /\ total = [o \in Obs |-> <<>>]
  /\ score = [s \in Score |-> Null] /\ deliveries = 0
-----------------------------------------------------------------------------
(* The clients.  A span starts once, before anything else happens to it.   *)

Of(op, S, i) == {n \in S : event[n].op = op /\ event[n].id = i}
Sent == 1..made

Make(e) ==
  /\ made < MaxEvents
  /\ made' = made + 1
  /\ event' = [event EXCEPT ![made + 1] = e]
  /\ UNCHANGED <<committed, tables, deliveries>>

TraceCreate(t, cols) ==
  Make([op |-> "trace_create", id |-> t, cols |-> cols])

StartSpan(o, cols) ==
  /\ Of("observation_create", Sent, o) = {}
  /\ Make([op |-> "observation_create", id |-> o, cols |-> cols])

UpdateSpan(o, cols) ==
  /\ Of("observation_create", Sent, o) # {}
  /\ Make([op |-> "observation_update", id |-> o, cols |-> cols])

SendScore(s) == Make([op |-> "score_create", id |-> s])
-----------------------------------------------------------------------------
(* apply_events(S).                                                        *)

Last(S)  == CHOOSE n \in S : \A k \in S : k <= n
First(S) == CHOOSE n \in S : \A k \in S : n <= k
Carry(S, c) == {n \in S : c \in event[n].cols}

Creates(S, o) == Of("observation_create", S, o)
Updates(S, o) == Of("observation_update", S, o)
TouchedObs(S) == {o \in Obs : Creates(S, o) \cup Updates(S, o) # {}}

\* _group_by_sent: one statement per column set, in the order the sets first
\* appear, so the event that comes last is the last of the last group.
Opened(S, n) == First({k \in S : event[k].cols = event[n].cols})
LastOfGroups(S, C) ==
  CHOOSE n \in C : \A k \in C :
    Opened(S, k) < Opened(S, n) \/ (Opened(S, k) = Opened(S, n) /\ k <= n)

\* Faulty variant: the placeholders of a stub overwrite a row that exists.
NewTraceStubsMerge(S, t) ==
  LET new  == Of("trace_create", S, t)
      stub == new = {} /\ \E o \in TouchedObs(S) : TraceOf[o] = t
  IN [c \in TraceColumn |->
        IF Carry(new, c) # {} THEN LastOfGroups(new, Carry(new, c))
        ELSE IF stub /\ c \in {"timestamp", "is_experiment"} THEN Null
        ELSE trace[t][c]]

\* trace_create events merge: only columns they carry are written.  A stub
\* row holds nothing but placeholders, and is only inserted into a gap.
NewTrace(S, t) ==
  LET new == Of("trace_create", S, t)
  IN [c \in TraceColumn |->
        IF Carry(new, c) # {} THEN LastOfGroups(new, Carry(new, c))
                              ELSE trace[t][c]]

\* Faulty variant: a create writes its whole row, NULL where it carries nothing.
NewObsWholeRow(S, o) ==
  [c \in ObsColumn |->
     IF Carry(Updates(S, o), c) # {} THEN Last(Carry(Updates(S, o), c))
     ELSE IF Carry(Creates(S, o), c) # {} THEN Last(Carry(Creates(S, o), c))
     ELSE IF Creates(S, o) # {} THEN Null
     ELSE obs[o][c]]

\* Creates merge first, then the updates overwrite one by one, in order.
NewObs(S, o) ==
  [c \in ObsColumn |->
     IF Carry(Updates(S, o), c) # {} THEN Last(Carry(Updates(S, o), c))
     ELSE IF Carry(Creates(S, o), c) # {} THEN Last(Carry(Creates(S, o), c))
     ELSE obs[o][c]]

\* Faulty variant: the placeholder is always the time of the event.
ProposedTs(n) == IF "start_time" \in event[n].cols THEN At(n) ELSE Ts(n)

\* The start_time a row builder proposes for INSERT: the one carried, else
\* end_time, else the time of the event.
Proposed(n) ==
  IF event[n].cols \cap {"start_time", "end_time"} # {} THEN At(n) ELSE Ts(n)

\* A create is authoritative for start_time; an update only supplies it with
\* the row.
NewBegan(S, o) ==
  IF Creates(S, o) # {} THEN Proposed(Last(Creates(S, o)))
  ELSE IF Updates(S, o) # {} /\ o \notin rows THEN Proposed(First(Updates(S, o)))
  ELSE began[o]

\* ck_obs_end_after_start, checked on every row proposed for INSERT and on
\* every row a statement leaves behind.
CheckHolds(S) ==
  \A o \in TouchedObs(S) :
    \A n \in Carry(Creates(S, o) \cup Updates(S, o), "end_time") :
      /\ Proposed(n) <= At(n)
      /\ NewBegan(S, o) <= At(n)
\* (an end_time already in the row)
EndHolds(S) ==
  \A o \in TouchedObs(S) :
    obs[o]["end_time"] # Null => NewBegan(S, o) <= At(obs[o]["end_time"])
Accepted(S) == CheckHolds(S) /\ EndHolds(S)

\* Faulty variant: the cost is computed while a row is built, from what one
\* event carries.
NewTotalEarly(S, o) ==
  LET new == NewObs(S, o)
      E   == Updates(S, o) \cup Creates(S, o)
  IN IF new["cost"] # Null THEN <<new["cost"]>>
     ELSE IF \E n \in E : {"model", "usage"} \subseteq event[n].cols
             /\ o \in Generation /\ new["model"] \notin Unpriced
          THEN <<new["model"], new["usage"]>>
     ELSE total[o]

\* resolve_costs, after the writes: a GENERATION with usage and no cost of
\* the client's own is priced by its model name.  The type is SPAN until a
\* create says otherwise.  What cannot be priced is left as it was.
NewTotal(S, o) ==
  LET new == NewObs(S, o)
  IN IF new["cost"] # Null THEN <<new["cost"]>>
     ELSE IF /\ o \in Generation /\ new["type"] # Null
             /\ new["usage"] # Null
             /\ new["model"] # Null /\ new["model"] \notin Unpriced
          THEN <<new["model"], new["usage"]>>
     ELSE total[o]

\* Faulty variants: stubs under the ids of observations, or only for the
\* traces of creates.
ReferencedObs(S) == TouchedObs(S)
ReferencedByCreates(S) == {TraceOf[o] : o \in {p \in Obs : Creates(S, p) # {}}}

\* Traces an observation event of the batch refers to: a stub if need be.
Referenced(S) == {TraceOf[o] : o \in TouchedObs(S)}

Commit(S) ==
  /\ S # {} /\ deliveries < MaxDeliveries
  /\ Accepted(S)
  /\ traces' = traces \cup Referenced(S)
                      \cup {t \in Trace : Of("trace_create", S, t) # {}}
  /\ trace' = [t \in Trace |-> NewTrace(S, t)]
  /\ rows' = rows \cup TouchedObs(S)
  /\ obs' = [o \in Obs |-> NewObs(S, o)]
  /\ began' = [o \in Obs |-> NewBegan(S, o)]
  /\ total' = [o \in Obs |->
                 IF o \in TouchedObs(S) THEN NewTotal(S, o) ELSE total[o]]
  /\ score' = [s \in Score |->
                 LET new == Of("score_create", S, s)
                 IN IF score[s] = Null /\ new # {} THEN First(new)
                    ELSE score[s]]
  /\ committed' = committed \cup S
  /\ deliveries' = deliveries + 1
  /\ UNCHANGED <<made, event>>
-----------------------------------------------------------------------------
Next ==
  \/ \E t \in Trace, cols \in TraceShapes : TraceCreate(t, cols)
  \/ \E o \in Obs, cols \in CreateShapes : StartSpan(o, cols)
  \/ \E o \in Obs, cols \in UpdateShapes : UpdateSpan(o, cols)
  \/ \E s \in Score : SendScore(s)
  \/ \E S \in SUBSET Sent : Commit(S)

Spec == Init /\ [][Next]_vars
-----------------------------------------------------------------------------
(* Properties.                                                             *)

Committed(op, i) == Of(op, committed, i)
ObsEvents(o) ==
  Committed("observation_create", o) \cup Committed("observation_update", o)

\* What was sent beats what was made up: once an event that carried a column
\* is committed, the column holds a value some committed event carried, never
\* again NULL or a placeholder - whatever the order, the batches, the stubs
\* and the redeliveries.  (`start_time` likewise, by its creates.)
SentBeatsPlaceholder ==
  /\ \A t \in Trace, c \in TraceColumn :
       LET who == Carry(Committed("trace_create", t), c)
       IN trace[t][c] \in (IF who = {} THEN {Null} ELSE who)
  /\ \A o \in Obs, c \in ObsColumn :
       LET who == Carry(ObsEvents(o), c)
       IN obs[o][c] \in (IF who = {} THEN {Null} ELSE who)
  /\ \A o \in Obs : \A n \in Committed("observation_create", o) :
       "start_time" \in event[n].cols => began[o] = At(n)
  /\ \A s \in Score :
       LET who == Committed("score_create", s)
       IN score[s] \in (IF who = {} THEN {Null} ELSE who)

\* An observation is never visible without a trace row to open it from.
EveryObservationHasATrace == \A o \in rows : TraceOf[o] \in traces

\* Once the create of a span is committed Postgres rejects no event of it:
\* not an update that was overtaken, not one made after the span ended.
OnceCreatedNothingIsRejected ==
  \A o \in Obs :
    Committed("observation_create", o) # {} =>
      \A n \in Sent : event[n].op = "observation_update" /\ event[n].id = o
        => Accepted({n})

\* The cost is that of the model and the usage the row ends up with, in
\* whatever order, and through whichever events, they arrived; a cost the
\* client sent is never replaced.
CostFollowsTheRow ==
  \A o \in Generation :
    /\ obs[o]["cost"] # Null => total[o] = <<obs[o]["cost"]>>
    /\ /\ obs[o]["cost"] = Null /\ obs[o]["type"] # Null
       /\ obs[o]["usage"] # Null
       /\ obs[o]["model"] \notin Unpriced \cup {Null}
       => total[o] = <<obs[o]["model"], obs[o]["usage"]>>

\* In a column that no create carries, what an update has set is never taken back
\* by a create or a stub, however late and however often that one is committed.
\* Of the SDK's these are the end time, the output, the model, the usage and the
\* cost; the level is not, since each create of the SDK carries it.
UpdateColumn == {c \in ObsColumn : \A A \in CreateShapes : c \notin A}
SetByUpdate(o, c) ==
  obs[o][c] # Null /\ event[obs[o][c]].op = "observation_update"
UpdatesAreKept ==
  [][\A o \in Obs, c \in UpdateColumn : SetByUpdate(o, c) => SetByUpdate(o, c)']_vars

\* An update that arrives before its create is filled in, never clobbered
\* (worker.py:30-31), whatever the column.
CreateNeverClobbers ==
  [][\A o \in Obs, c \in ObsColumn : SetByUpdate(o, c) => SetByUpdate(o, c)']_vars

\* Retried batches are safe (openweave.proto:15): committing again what is
\* committed changes no row.
RetriedBatchesAreSafe ==
  [][committed' = committed => UNCHANGED tables]_vars

\* What is true of retries: a batch committed again at once, as after a crash
\* before its XACK, is accepted and changes no row, and so it stays until
\* another batch writes one of the rows it writes.
TouchedTraces(S) == {t \in Trace : Of("trace_create", S, t) # {}}
TouchedScores(S) == {s \in Score : Of("score_create", S, s) # {}}
Absorbed(S) ==
  /\ Accepted(S)
  /\ Referenced(S) \cup TouchedTraces(S) \subseteq traces
  /\ \A t \in TouchedTraces(S) : NewTrace(S, t) = trace[t]
  /\ TouchedObs(S) \subseteq rows
  /\ \A o \in TouchedObs(S) : /\ NewObs(S, o) = obs[o]
                              /\ NewBegan(S, o) = began[o]
                              /\ NewTotal(S, o) = total[o]
  /\ \A s \in TouchedScores(S) : score[s] # Null
Meet(S, T) ==
  \/ TouchedTraces(S) \cap TouchedTraces(T) # {}
  \/ TouchedObs(S) \cap TouchedObs(T) # {}
RetriesAreSafeUntilOvertaken ==
  [][\A S \in SUBSET Sent :
       Commit(S) =>
         /\ Absorbed(S)'
         /\ Absorbed(S) => UNCHANGED tables
         /\ \A T \in SUBSET Sent :
              Absorbed(T) /\ ~ Meet(S, T) => Absorbed(T)']_vars
=============================================================================
