------------------------------ MODULE Delivery ------------------------------
(***************************************************************************)
(* What ingestion promises about every event it has accepted.  An event is *)
(* open until somebody takes responsibility for it: its row is stored in   *)
(* Postgres, it is parked in the dead letter table, or it is given up for  *)
(* good (the stream trimmed it, or even the dead letter write failed).     *)
(* Only then may it be closed.  Closing is what XACK does.                 *)
(*                                                                         *)
(* The promise is at-least-once: an event may be stored again after it was *)
(* closed, by a worker that still holds a copy.                            *)
(***************************************************************************)
CONSTANT Event

VARIABLES
  accepted,   \* events the stream has ever held
  open,       \* accepted events nobody has taken responsibility for
  stored,     \* events committed to Postgres
  parked,     \* events with a dead letter row
  forgone     \* events given up: trimmed, or the dead letter write failed

vars == <<accepted, open, stored, parked, forgone>>

Settled == stored \cup parked \cup forgone

Init ==
  /\ accepted = {} /\ open = {}
  /\ stored = {} /\ parked = {} /\ forgone = {}

\* Accepting an event may push the oldest ones out of the stream.
Accept(e) ==
  /\ e \notin accepted
  /\ accepted' = accepted \cup {e}
  /\ forgone \subseteq forgone' /\ forgone' \subseteq forgone \cup accepted
  /\ \E pushed \in SUBSET forgone' : open' = (open \cup {e}) \ pushed
  /\ UNCHANGED <<stored, parked>>

Store(S) ==
  /\ S \subseteq accepted
  /\ stored' = stored \cup S
  /\ UNCHANGED <<accepted, open, parked, forgone>>

Park(e) ==
  /\ e \in accepted
  /\ parked' = parked \cup {e}
  /\ UNCHANGED <<accepted, open, stored, forgone>>

GiveUp(e) ==
  /\ e \in accepted
  /\ forgone' = forgone \cup {e}
  /\ UNCHANGED <<accepted, open, stored, parked>>

Close(S) ==
  /\ S \subseteq Settled
  /\ open' = open \ S
  /\ UNCHANGED <<accepted, stored, parked, forgone>>

Next ==
  \/ \E e \in Event : Accept(e) \/ Park(e) \/ GiveUp(e)
  \/ \E S \in SUBSET Event : Store(S) \/ Close(S)

Spec == Init /\ [][Next]_vars
=============================================================================
