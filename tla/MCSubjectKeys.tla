---------------------------- MODULE MCSubjectKeys ----------------------------
(* Instances of SubjectKeys small enough for TLC.                           *)
EXTENDS SubjectKeys, TLC

CONSTANTS Tenants, Ids

\* Every id in every tenant.
MCSubjects == [tenant : Tenants, id : Ids]

\* Calls, keys, tenants and ids are interchangeable.
Symmetry == Permutations(Calls) \cup Permutations(Keys) \cup Permutations(Tenants)
              \cup Permutations(Ids)
==============================================================================
