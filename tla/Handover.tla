------------------------------- MODULE Handover -------------------------------
(***************************************************************************)
(* What the way from the program to the stream promises about an event: it *)
(* is refused, and then the stream never holds it, or it may be kept; and  *)
(* what is reported as accepted is kept.  An event that is neither is in   *)
(* doubt for ever: the client does not send twice.                         *)
(***************************************************************************)
CONSTANT Event

VARIABLES
  offered,    \* events the program made
  kept,       \* events in the stream
  confirmed,  \* events reported as accepted
  refused     \* events dropped by the full queue or rejected by the server

vars == <<offered, kept, confirmed, refused>>

Init == offered = {} /\ kept = {} /\ confirmed = {} /\ refused = {}

Offer(e) ==
  /\ e \notin offered
  /\ offered' = offered \cup {e}
  /\ refused' \in {refused, refused \cup {e}}
  /\ UNCHANGED <<kept, confirmed>>

Keep(e) ==
  /\ e \in offered \ refused
  /\ kept' = kept \cup {e}
  /\ UNCHANGED <<offered, confirmed, refused>>

\* The program learns what became of some events.
Report ==
  /\ confirmed \subseteq confirmed' /\ confirmed' \subseteq confirmed \cup kept
  /\ refused \subseteq refused'
  /\ refused' \subseteq refused \cup (offered \ kept)
  /\ UNCHANGED <<offered, kept>>

Next == Report \/ \E e \in Event : Offer(e) \/ Keep(e)

Spec == Init /\ [][Next]_vars
=============================================================================
