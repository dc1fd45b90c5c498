---------------------------- MODULE MCSessionStore ----------------------------
(* Instances of SessionStore small enough for TLC.                          *)
EXTENDS SessionStore, TLC

\* Calls, tokens and users are interchangeable.
Symmetry == Permutations(Calls) \cup Permutations(Tokens) \cup Permutations(Users)
              \cup Permutations(Tenants)
==============================================================================
