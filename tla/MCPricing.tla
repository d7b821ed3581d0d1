------------------------------- MODULE MCPricing -------------------------------
(* Small instances of Pricing for TLC. *)
EXTENDS Pricing, TLC

CONSTANTS w1, w2, o1, create, usage, cost, other, base, newer, mine, bad, a, m1, m2

\* A price for all, a newer one that comes into force after the start of o1, one
\* of the project, and a pattern that does not compile; none of them for m2.
MCMatches == {<<base, m1>>, <<newer, m1>>, <<mine, m1>>, <<bad, m1>>}
MCScopeOf == base :> None @@ newer :> None @@ mine :> a @@ bad :> a
MCSinceOf == base :> 0 @@ newer :> 2 @@ mine :> 1 @@ bad :> 1
MCObsOf   == [e \in Event |-> o1]
MCProjectOf == o1 :> a
MCStartOf   == o1 :> 1

\* The create carries the model, an update the usage, another a cost.
Nothing == [create |-> FALSE, model |-> None, usage |-> FALSE,
            client |-> FALSE, at |-> 3]
MCSays == [e \in Event |->
  IF e = create THEN [Nothing EXCEPT !.create = TRUE, !.model = m1]
  ELSE IF e = usage THEN [Nothing EXCEPT !.usage = TRUE]
  ELSE IF e = cost THEN [Nothing EXCEPT !.client = TRUE]
  ELSE [Nothing EXCEPT !.model = m2]]

WorkerSymmetry == Permutations(Worker)
=============================================================================
