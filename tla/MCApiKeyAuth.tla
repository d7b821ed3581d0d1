----------------------------- MODULE MCApiKeyAuth -----------------------------
(* Small instances of ApiKeyAuth for TLC. *)
EXTENDS ApiKeyAuth, TLC

CONSTANTS k1, p1, p2, s1, a, b

\* One key, which expires; p2 belongs to nobody.
MCPublicOf  == k1 :> p1
MCSecretOf  == k1 :> s1
MCProjectOf == k1 :> a
MCExpiryOf  == k1 :> 3

\* The right pair, and the right secret with another public key, as a read and
\* as a write; no credentials at all; and a header that does not parse.
MCAsks == {<<"write", [public |-> p1, secret |-> s1]>>,
           <<"read", [public |-> p2, secret |-> s1]>>,
           <<"read", None>>, <<"write", None>>, <<"read", Garbage>>}

\* Requests are interchangeable.
RequestSymmetry == Permutations(Request)
=============================================================================
