---------------------------- MODULE MCMfaChallenge ----------------------------
(* Instances of MfaChallenge small enough for TLC.                           *)
EXTENDS MfaChallenge, TLC

CONSTANTS Tenants, Users

\* Every user in every tenant.
MCAccounts == [tenant : Tenants, user : Users]

\* Calls, secrets, challenges, tenants and users are interchangeable.
Symmetry == Permutations(Calls) \cup Permutations(Secrets) \cup Permutations(Challenges)
              \cup Permutations(Tenants) \cup Permutations(Users)
==============================================================================
