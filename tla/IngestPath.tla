------------------------------ MODULE IngestPath ------------------------------
(***************************************************************************)
(* The SDK client and the ingestion server together: an event's way from   *)
(* the program into the stream.  They share nothing but the calls.         *)
(***************************************************************************)
EXTENDS SdkClient, IngestServer

vars == <<rpc, clientVars, serverVars>>

Init == ClientInit /\ ServerInit

Next == (ClientNext /\ UNCHANGED serverVars) \/ (ServerNext /\ UNCHANGED clientVars)

Spec == Init /\ [][Next]_vars

\* The flush thread keeps running its loop, and a call ends with its timeout
\* at the latest.  The application and the server need not do anything.
FairSpec ==
  /\ Spec
  /\ WF_vars((FlusherTop \/ FlusherWakes \/ ThreadStep(Flusher))
             /\ UNCHANGED serverVars)
  /\ WF_vars((\E c \in Event : CallTimesOut(c)) /\ UNCHANGED serverVars)
-----------------------------------------------------------------------------
TypeOK == ClientTypeOK /\ ServerTypeOK

\* Where an event can be: the queue, a thread's hands, or one of four ends.
Held == UNION {batch[t] : t \in Thread}

\* Two threads drain one queue (_run and flush): every event made is in
\* exactly one place, so none is sent twice and none disappears uncounted.
Accounted ==
  /\ 1..made = queue \cup Held \cup dropped \cup sent \cup rejected \cup lost
  /\ queue \cap (Held \cup dropped \cup sent \cup rejected \cup lost) = {}
  /\ Held \cap (dropped \cup sent \cup rejected \cup lost) = {}
  /\ dropped \cap (sent \cup rejected \cup lost) = {}
  /\ sent \cap (rejected \cup lost) = {} /\ rejected \cap lost = {}
  /\ \A t, u \in Thread : t # u => batch[t] \cap batch[u] = {}

\* Rule 1 of the SDK (openweave.py:25): no exception reaches the application.
NothingRaises == raised = {}

\* The inductive invariant behind Accounted and KeepsPromise.  What a thread
\* holds, by where it is:
Hands == \A t \in Thread :
  /\ pc[t] \in {"call", "await"} => batch[t] # {}
  /\ pc[t] \notin {"drain", "call", "await"} => batch[t] = {}
\* A call is being waited for by the thread that holds its batch, or its
\* events are settled:
Settled == sent \cup rejected \cup lost
Awaited(c) == \E t \in Thread : pc[t] = "await" /\ batch[t] = rpc[c].batch
Calls == \A c \in Event :
  /\ rpc[c].state # "none" =>
       /\ IsOldest(c, rpc[c].batch)
       /\ Awaited(c) \/ rpc[c].batch \subseteq Settled
  /\ rpc[c].state = "ok" =>
       /\ rpc[c].accepted = rpc[c].batch \ Bad
       /\ rpc[c].accepted \subseteq stream
\* A handler has appended what it no longer has to do:
Handlers == \A c \in Event :
  /\ stage[c] # "none" => rpc[c].state # "none"
  /\ todo[c] \subseteq rpc[c].batch \ Bad
  /\ stage[c] = "pipe" => (rpc[c].batch \ Bad) \ todo[c] \subseteq stream
  /\ stage[c] # "pipe" => todo[c] = {}
\* The stream holds what was called with and is valid:
Kept ==
  /\ stream \subseteq (1..made) \ Bad
  /\ stream \cap (queue \cup dropped) = {}
  /\ sent \subseteq stream /\ rejected \subseteq Bad

IInv == TypeOK /\ Accounted /\ Hands /\ Calls /\ Handlers /\ Kept

Promise == INSTANCE Handover WITH
  offered   <- 1..made,
  kept      <- stream,
  confirmed <- sent,
  refused   <- dropped \cup rejected

\* _sent counts only events the stream holds, and what the queue dropped or
\* the server rejected is never in it, whatever fails on the way.
KeepsPromise == Promise!Spec

\* Until shutdown() the flush thread survives everything: it goes on making
\* room in the queue, even if the server never answers.
RoomIsMade == []<>(Cardinality(queue) < MaxQueue \/ stop)
=============================================================================
