------------------------------ MODULE MCTokens ------------------------------
(***************************************************************************)
(* A small instance of module Tokens: ann has a configured token.          *)
(***************************************************************************)
EXTENDS Tokens, TLC

CONSTANTS ann, bob, s1, t1, t2, q1, q2, l1, l2

AnnStatic == [u \in {ann} |-> s1]

\* Generated tokens, requests and logins are interchangeable.
Interchangeable ==
    Permutations(TokenStrings \ {s1}) \cup Permutations(Requests)
        \cup Permutations(Logins)
=============================================================================
