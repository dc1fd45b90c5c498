----------------------------- MODULE AuthzProofs -----------------------------
(***************************************************************************)
(* The decision point and the guard, for every set of requests, routes,    *)
(* grants and policies.                                                    *)
(*                                                                         *)
(* A check decides from the table of the instant each query is answered.   *)
(* The inductive invariant brackets that instant: what was in the table    *)
(* then is at least what stayed all along, and at most what ever was.      *)
(***************************************************************************)
EXTENDS AuthzGuard, TLAPS

----------------------------------------------------------------------------
(* The functions                                                           *)

\* More rows never take a right away.
LEMMA MoreGrants ==
    ASSUME NEW S, NEW T, S \subseteq T, NEW r, NEW req, NEW rel, NEW t,
           IsAuthorized(LoadGrants(S, r), req, rel, t)
    PROVE  IsAuthorized(LoadGrants(T, r), req, rel, t)
  BY DEF IsAuthorized, LoadGrants, ToGrants

LEMMA MoreRules ==
    ASSUME NEW S, NEW T, S \subseteq T, NEW r
    PROVE  ToRules(RuleRows(S, r)) \subseteq ToRules(RuleRows(T, r))
<1>1. RuleRows(S, r) \subseteq RuleRows(T, r)
  BY DEF RuleRows
<1> QED
  BY <1>1 DEF ToRules

LEMMA VerdictType ==
    ASSUME NEW rules, NEW rel, NEW ctx
    PROVE  PolicyVerdict(rules, rel, ctx) \in Effects
  BY DEF PolicyVerdict, Effects

\* What a verdict other than "deny" says of the rules.
LEMMA VerdictGrants ==
    ASSUME NEW rules, NEW rel, NEW ctx, PolicyVerdict(rules, rel, ctx) \in Granted
    PROVE  /\ \A r \in rules : ~Throws(r, rel, ctx)
           /\ \A r \in rules : r.effect = "deny" => ~Applies(r, rel, ctx)
           /\ (\E r \in rules : r.effect = "allow")
                 => \E r \in rules : r.effect = "allow" /\ Applies(r, rel, ctx)
  BY DEF PolicyVerdict, Granted

LEMMA ResolvedType ==
    ASSUME NEW r, NEW resolved \in Resolved(r)
    PROVE  TenantScopedRelation(r.principal.tenant, r.resource.tenant, resolved)
              \in Relations
  BY DEF Resolved, PrincipalRelation, TenantScopedRelation, Relations

\* No scope but the widest covers the relation of a stranger.
LEMMA OnlyGlobalCoversNone ==
    ASSUME NEW s \in Scopes, ScopeCoversRelation(s, "none")
    PROVE  s = "global"
  BY DEF Scopes, ScopeCoversRelation, RelationRank, SCOPE_RANK

----------------------------------------------------------------------------
(* The inductive invariant of the decision point                           *)

\* What was read lies between what stayed and what was seen.
BracketOK(k) ==
    pc[k] # "idle" =>
        /\ request[k] \in Requests
        /\ grants \subseteq grantsSeen[k]
        /\ policiesKept[k] \subseteq policies
        /\ policies \subseteq policiesSeen[k]

Related(k) == pc[k] \in {"grants", "policies", "log", "decided"}

RelationOK(k) ==
    Related(k) /\ request[k].resource.tenant # request[k].principal.tenant
        => relation[k] = "none"

PastRbac(k) == pc[k] = "policies" \/ (Decided(k) /\ effect[k] \in Granted)

RbacOK(k) ==
    PastRbac(k) =>
        IsAuthorized(LoadGrants(grantsSeen[k], request[k]), Required(request[k]),
                     relation[k], now[k])

\* The policies that decided, whichever they were.
DecidedBy(k, P) ==
    /\ policiesKept[k] \subseteq P
    /\ P \subseteq policiesSeen[k]
    /\ PolicyVerdict(ToRules(RuleRows(P, request[k])), relation[k],
                     Context(request[k], now[k])) \in Granted

RulesOK(k) ==
    Decided(k) /\ layered[k] /\ effect[k] \in Granted =>
        \E P \in SUBSET PolicyRows : DecidedBy(k, P)

CheckInv(k) == BracketOK(k) /\ RelationOK(k) /\ RbacOK(k) /\ RulesOK(k)

PdpInv == TypeOK /\ \A k \in Checks : CheckInv(k)

LEMMA IdleIsFine ==
    ASSUME NEW k, pc[k] = "idle"
    PROVE  CheckInv(k)
  BY DEF CheckInv, BracketOK, RelationOK, RbacOK, RulesOK, Related, PastRbac, Decided

LEMMA InitInv == Init => PdpInv
<1> SUFFICES ASSUME Init
             PROVE  PdpInv
  OBVIOUS
<1>1. TypeOK
  BY PdpConstants DEF Init, TypeOK, PCs, Relations, Effects
<1>2. \A k \in Checks : pc[k] = "idle"
  BY DEF Init
<1> QED
  BY <1>1, <1>2, IdleIsFine DEF PdpInv

\* A check of which nothing changes keeps its invariant through a change of another.
Untouched(j) ==
    /\ pc'[j] = pc[j] /\ layered'[j] = layered[j] /\ request'[j] = request[j]
    /\ now'[j] = now[j] /\ relation'[j] = relation[j] /\ effect'[j] = effect[j]
    /\ grantsSeen'[j] = grantsSeen[j]
    /\ policiesSeen'[j] = policiesSeen[j] /\ policiesKept'[j] = policiesKept[j]

LEMMA UntouchedInv ==
    ASSUME NEW j, CheckInv(j), Untouched(j), UNCHANGED <<grants, policies>>
    PROVE  CheckInv(j)'
<1>1. BracketOK(j)'
  BY DEF CheckInv, BracketOK, Untouched
<1>2. RelationOK(j)' /\ RbacOK(j)'
  BY DEF CheckInv, RelationOK, RbacOK, Related, PastRbac, Decided, Untouched
<1>3. RulesOK(j)'
  BY DEF CheckInv, RulesOK, DecidedBy, Decided, Untouched
<1> QED
  BY <1>1, <1>2, <1>3 DEF CheckInv

LEMMA BeginInv ==
    ASSUME PdpInv, NEW k \in Checks, NEW r \in Requests, Begin(k, r)
    PROVE  PdpInv'
<1>1. TypeOK'
  BY DEF PdpInv, TypeOK, Begin, tables, results, PCs, Awaits
<1>2. CheckInv(k)'
  BY <1>1 DEF PdpInv, TypeOK, Begin, tables, CheckInv, BracketOK, RelationOK, RbacOK,
              RulesOK, Related, PastRbac, Decided
<1>3. \A j \in Checks \ {k} : Untouched(j)
  BY DEF PdpInv, TypeOK, Begin, results, Untouched
<1>4. \A j \in Checks \ {k} : CheckInv(j)'
  BY <1>3, UntouchedInv DEF PdpInv, Begin, tables
<1> QED
  BY <1>1, <1>2, <1>4 DEF PdpInv

LEMMA RelateInv ==
    ASSUME PdpInv, NEW k \in Checks, Relate(k)
    PROVE  PdpInv'
<1>1. pc[k] = "relation" /\ request[k] \in Requests
  BY DEF PdpInv, Relate, CheckInv, BracketOK
<1>2. PICK resolved \in Resolved(request[k]) :
          relation' = [relation EXCEPT ![k] =
              TenantScopedRelation(request[k].principal.tenant,
                                   request[k].resource.tenant, resolved)]
  BY DEF Relate
<1>3. TypeOK'
  BY <1>2, ResolvedType DEF PdpInv, TypeOK, Relate, tables, history, PCs, Awaits
<1>4. CheckInv(k)'
  <2>1. pc'[k] = "grants" /\ request'[k] = request[k]
    BY DEF PdpInv, TypeOK, Relate
  <2>2. BracketOK(k)'
    BY <1>1, <2>1 DEF PdpInv, CheckInv, BracketOK, Relate, tables, history
  <2>3. RelationOK(k)'
    BY <1>2, <2>1 DEF PdpInv, TypeOK, RelationOK, TenantScopedRelation
  <2> QED
    BY <2>1, <2>2, <2>3 DEF CheckInv, RbacOK, RulesOK, PastRbac, Decided
<1>5. \A j \in Checks \ {k} : Untouched(j)
  BY DEF PdpInv, TypeOK, Relate, history, Untouched
<1>6. \A j \in Checks \ {k} : CheckInv(j)'
  BY <1>5, UntouchedInv DEF PdpInv, Relate, tables
<1> QED
  BY <1>3, <1>4, <1>6 DEF PdpInv

LEMMA AnswerGrantsInv ==
    ASSUME PdpInv, NEW k \in Checks, AnswerGrants(k)
    PROVE  PdpInv'
<1> DEFINE covered == IsAuthorized(LoadGrants(grants, request[k]),
                                   Required(request[k]), relation[k], now[k])
<1>1. /\ pc[k] = "grants"
      /\ UNCHANGED <<tables, clock, layered, request, now, relation, history>>
      /\ IF covered /\ layered[k]
         THEN pc' = [pc EXCEPT ![k] = "policies"] /\ UNCHANGED effect
         ELSE Emit(k, IF covered THEN "allow" ELSE "deny")
  BY DEF AnswerGrants
<1> HIDE DEF covered
<1>2. TypeOK'
  BY <1>1 DEF PdpInv, TypeOK, Emit, tables, history, PCs, Awaits, Effects
<1>3. ASSUME covered, layered[k]
      PROVE  CheckInv(k)'
  <2>1. pc'[k] = "policies" /\ effect' = effect
    BY <1>1, <1>3 DEF PdpInv, TypeOK
  <2>2. BracketOK(k)' /\ RelationOK(k)'
    BY <1>1, <2>1 DEF PdpInv, CheckInv, BracketOK, RelationOK, Related, tables, history
  <2>3. RbacOK(k)'
    <3>1. grants \subseteq grantsSeen[k]
      BY <1>1 DEF PdpInv, CheckInv, BracketOK
    <3>2. IsAuthorized(LoadGrants(grantsSeen[k], request[k]), Required(request[k]),
                       relation[k], now[k])
      BY <1>3, <3>1, MoreGrants DEF covered
    <3> QED
      BY <1>1, <3>2 DEF RbacOK, history
  <2>4. RulesOK(k)'
    BY <2>1 DEF RulesOK, Decided
  <2> QED
    BY <2>2, <2>3, <2>4 DEF CheckInv
<1>4. ASSUME ~(covered /\ layered[k])
      PROVE  CheckInv(k)'
  <2>1. /\ pc'[k] = "log"
        /\ effect'[k] = IF covered THEN "allow" ELSE "deny"
    BY <1>1, <1>4 DEF PdpInv, TypeOK, Emit
  <2>2. BracketOK(k)' /\ RelationOK(k)'
    BY <1>1, <2>1 DEF PdpInv, CheckInv, BracketOK, RelationOK, Related, tables, history
  <2>3. RbacOK(k)'
    <3>1. CASE covered
      <4>1. grants \subseteq grantsSeen[k]
        BY <1>1 DEF PdpInv, CheckInv, BracketOK
      <4>2. IsAuthorized(LoadGrants(grantsSeen[k], request[k]), Required(request[k]),
                         relation[k], now[k])
        BY <3>1, <4>1, MoreGrants DEF covered
      <4> QED
        BY <1>1, <4>2 DEF RbacOK, history
    <3>2. CASE ~covered
      BY <2>1, <3>2 DEF RbacOK, PastRbac, Granted
    <3> QED
      BY <3>1, <3>2
  <2>4. RulesOK(k)'
    BY <1>1, <1>4, <2>1 DEF RulesOK, Granted
  <2> QED
    BY <2>2, <2>3, <2>4 DEF CheckInv
<1>5. \A j \in Checks \ {k} : Untouched(j)
  BY <1>1 DEF PdpInv, TypeOK, Emit, history, Untouched
<1>6. \A j \in Checks \ {k} : CheckInv(j)'
  BY <1>1, <1>5, UntouchedInv DEF PdpInv, tables
<1> QED
  BY <1>2, <1>3, <1>4, <1>6 DEF PdpInv

LEMMA AnswerPoliciesInv ==
    ASSUME PdpInv, NEW k \in Checks, AnswerPolicies(k)
    PROVE  PdpInv'
<1> DEFINE verdict == PolicyVerdict(ToRules(RuleRows(policies, request[k])), relation[k],
                                    Context(request[k], now[k]))
<1>1. /\ pc[k] = "policies"
      /\ pc' = [pc EXCEPT ![k] = "log"]
      /\ effect' = [effect EXCEPT ![k] = verdict]
      /\ UNCHANGED <<tables, clock, layered, request, now, relation, history>>
  BY DEF AnswerPolicies, Emit
<1>2. verdict \in Effects
  BY VerdictType
<1>3. TypeOK'
  BY <1>1, <1>2 DEF PdpInv, TypeOK, tables, history, PCs, Awaits
<1>4. CheckInv(k)'
  <2>1. pc'[k] = "log" /\ effect'[k] = verdict
    BY <1>1 DEF PdpInv, TypeOK
  <2>2. BracketOK(k)' /\ RelationOK(k)'
    BY <1>1, <2>1 DEF PdpInv, CheckInv, BracketOK, RelationOK, Related, tables, history
  <2>3. RbacOK(k)'
    BY <1>1 DEF PdpInv, CheckInv, RbacOK, PastRbac, history
  <2>4. RulesOK(k)'
    <3>1. policies \in SUBSET PolicyRows
      BY DEF PdpInv, TypeOK
    <3>2. policiesKept[k] \subseteq policies /\ policies \subseteq policiesSeen[k]
      BY <1>1 DEF PdpInv, CheckInv, BracketOK
    <3>3. verdict \in Granted => DecidedBy(k, policies)'
      BY <1>1, <3>2 DEF DecidedBy, tables, history
    <3> QED
      BY <1>1, <2>1, <3>1, <3>3 DEF RulesOK, tables
  <2> QED
    BY <2>2, <2>3, <2>4 DEF CheckInv
<1>5. \A j \in Checks \ {k} : Untouched(j)
  BY <1>1 DEF PdpInv, TypeOK, history, Untouched
<1>6. \A j \in Checks \ {k} : CheckInv(j)'
  BY <1>1, <1>5, UntouchedInv DEF PdpInv, tables
<1> QED
  BY <1>3, <1>4, <1>6 DEF PdpInv

LEMMA RecordInv ==
    ASSUME PdpInv, NEW k \in Checks, Record(k)
    PROVE  PdpInv'
<1>1. TypeOK'
  BY DEF PdpInv, TypeOK, Record, tables, history, results, PCs, Awaits
<1>2. CheckInv(k)'
  <2>1. pc[k] = "log" /\ pc'[k] = "decided"
    BY DEF PdpInv, TypeOK, Record
  <2>2. BracketOK(k)' /\ RelationOK(k)'
    BY <2>1 DEF PdpInv, CheckInv, BracketOK, RelationOK, Related, Record, tables, history,
                  results
  <2>3. RbacOK(k)'
    BY <2>1 DEF PdpInv, CheckInv, RbacOK, PastRbac, Decided, Record, history, results
  <2>4. RulesOK(k)'
    BY <2>1 DEF PdpInv, CheckInv, RulesOK, DecidedBy, Decided, Record, history, results
  <2> QED
    BY <2>1, <2>2, <2>3, <2>4 DEF CheckInv
<1>3. \A j \in Checks \ {k} : Untouched(j)
  BY DEF PdpInv, TypeOK, Record, history, results, Untouched
<1>4. \A j \in Checks \ {k} : CheckInv(j)'
  BY <1>3, UntouchedInv DEF PdpInv, Record, tables
<1> QED
  BY <1>1, <1>2, <1>4 DEF PdpInv

LEMMA SettleInv ==
    ASSUME PdpInv, NEW k \in Checks, Settle(k)
    PROVE  PdpInv'
<1>1. TypeOK'
  BY PdpConstants DEF PdpInv, TypeOK, Settle, tables, PCs, Relations, Effects
<1>2. pc'[k] = "idle"
  BY DEF PdpInv, TypeOK, Settle
<1>3. CheckInv(k)'
  BY <1>2 DEF CheckInv, BracketOK, RelationOK, RbacOK, RulesOK, Related, PastRbac,
              Decided
<1>4. \A j \in Checks \ {k} : Untouched(j)
  BY DEF PdpInv, TypeOK, Settle, Untouched
<1>5. \A j \in Checks \ {k} : CheckInv(j)'
  BY <1>4, UntouchedInv DEF PdpInv, Settle, tables
<1> QED
  BY <1>1, <1>3, <1>5 DEF PdpInv

\* The edits move the brackets apart, never together.
LEMMA EditGrantInv ==
    ASSUME PdpInv, EditGrant
    PROVE  PdpInv'
<1>1. TypeOK'
  <2>1. edits' \in 0 .. MaxEdits
    BY PdpConstants DEF PdpInv, TypeOK, EditGrant
  <2> QED
    BY <2>1 DEF PdpInv, TypeOK, EditGrant, results
<1>2. ASSUME NEW k \in Checks
      PROVE  CheckInv(k)'
  <2>1. CASE pc[k] = "idle"
    BY <2>1 DEF EditGrant, CheckInv, BracketOK, RelationOK, RbacOK, RulesOK, Related,
                PastRbac, Decided
  <2>2. CASE pc[k] # "idle"
    <3>1. grantsSeen'[k] = grantsSeen[k] \cup grants'
      BY <2>2 DEF EditGrant, Running
    <3>2. BracketOK(k)'
      BY <2>2, <3>1 DEF PdpInv, CheckInv, BracketOK, EditGrant
    <3>3. RelationOK(k)'
      BY DEF PdpInv, CheckInv, RelationOK, Related, EditGrant, results
    <3>4. RbacOK(k)'
      <4>1. grantsSeen[k] \subseteq grantsSeen'[k]
        BY <3>1
      <4>2. PastRbac(k)' => PastRbac(k)
        BY DEF PastRbac, Decided, EditGrant, results
      <4> QED
        BY <4>1, <4>2, MoreGrants DEF PdpInv, CheckInv, RbacOK, EditGrant, results
    <3>5. RulesOK(k)'
      BY DEF PdpInv, CheckInv, RulesOK, DecidedBy, Decided, EditGrant, results
    <3> QED
      BY <3>2, <3>3, <3>4, <3>5 DEF CheckInv
  <2> QED
    BY <2>1, <2>2
<1> QED
  BY <1>1, <1>2 DEF PdpInv

LEMMA EditPolicyInv ==
    ASSUME PdpInv, EditPolicy
    PROVE  PdpInv'
<1>1. TypeOK'
  <2>1. edits' \in 0 .. MaxEdits
    BY PdpConstants DEF PdpInv, TypeOK, EditPolicy
  <2> QED
    BY <2>1 DEF PdpInv, TypeOK, EditPolicy, results
<1>2. ASSUME NEW k \in Checks
      PROVE  CheckInv(k)'
  <2>1. CASE pc[k] = "idle"
    BY <2>1 DEF EditPolicy, CheckInv, BracketOK, RelationOK, RbacOK, RulesOK,
                Related, PastRbac, Decided
  <2>2. CASE pc[k] # "idle"
    <3>1. /\ policiesSeen'[k] = policiesSeen[k] \cup policies'
          /\ policiesKept'[k] = policiesKept[k] \cap policies'
      BY <2>2 DEF EditPolicy, Running
    <3>2. BracketOK(k)'
      BY <2>2, <3>1 DEF PdpInv, CheckInv, BracketOK, EditPolicy
    <3>3. RelationOK(k)' /\ RbacOK(k)'
      BY DEF PdpInv, CheckInv, RelationOK, RbacOK, Related, PastRbac, Decided,
             EditPolicy, results
    <3>4. RulesOK(k)'
      <4>1. \A P \in SUBSET PolicyRows : DecidedBy(k, P) => DecidedBy(k, P)'
        BY <3>1 DEF DecidedBy, EditPolicy, results
      <4> QED
        BY <4>1 DEF PdpInv, CheckInv, RulesOK, Decided, EditPolicy, results
    <3> QED
      BY <3>2, <3>3, <3>4 DEF CheckInv
  <2> QED
    BY <2>1, <2>2
<1> QED
  BY <1>1, <1>2 DEF PdpInv

LEMMA TickInv ==
    ASSUME PdpInv, Tick
    PROVE  PdpInv'
<1>1. TypeOK'
  BY PdpConstants DEF PdpInv, TypeOK, Tick, tables, results, history
<1>2. \A k \in Checks : Untouched(k)
  BY DEF Tick, results, history, Untouched
<1> QED
  BY <1>1, <1>2, UntouchedInv DEF PdpInv, Tick, tables

LEMMA NextInv == PdpInv /\ [Next]_vars => PdpInv'
<1> SUFFICES ASSUME PdpInv, [Next]_vars
             PROVE  PdpInv'
  OBVIOUS
<1>1. CASE UNCHANGED vars
  <2>1. TypeOK'
    BY <1>1 DEF PdpInv, TypeOK, vars
  <2>2. \A k \in Checks : Untouched(k)
    BY <1>1 DEF vars, Untouched
  <2> QED
    BY <1>1, <2>1, <2>2, UntouchedInv DEF PdpInv, vars
<1>2. ASSUME NEW k \in Checks, Leave(k) \/ Reject(k)
      PROVE  PdpInv'
  BY <1>2, SettleInv DEF Leave, Reject
<1> QED
  BY <1>1, <1>2, BeginInv, RelateInv, AnswerGrantsInv, AnswerPoliciesInv, RecordInv,
     EditGrantInv, EditPolicyInv, TickInv DEF Next, Step, Environment

\* The decision point keeps its invariant in every run.
THEOREM PdpInvariance == Spec => []PdpInv
  BY InitInv, NextInv, PTL DEF Spec

\* Access is never given to a check during which no grant covered the request.
THEOREM AccessNeedsGrant == Spec => []AccessWasGranted
<1>1. PdpInv => AccessWasGranted
  BY DEF PdpInv, CheckInv, RbacOK, PastRbac, AccessWasGranted
<1> QED
  BY <1>1, PdpInvariance, PTL

\* Whatever the resolver answers, another tenant's resource takes a global grant.
THEOREM TenantIsolation == Spec => []TenantsIsolated
<1>1. PdpInv => TenantsIsolated
  <2> SUFFICES ASSUME PdpInv, NEW k \in Checks, Decided(k), effect[k] \in Granted,
                      request[k].resource.tenant # request[k].principal.tenant
               PROVE  \E g \in LoadGrants(grantsSeen[k], request[k]) :
                         g.scope = "global"
                         /\ PermissionCovers(g.permission, Required(request[k]))
    BY DEF TenantsIsolated
  <2>1. relation[k] = "none"
    BY DEF PdpInv, CheckInv, RelationOK, Related, Decided
  <2>2. PICK g \in LoadGrants(grantsSeen[k], request[k]) :
            GrantCovers(g, Required(request[k]), "none")
    BY <2>1 DEF PdpInv, CheckInv, RbacOK, PastRbac, IsAuthorized
  <2>3. g.scope \in Scopes
    BY DEF LoadGrants, ToGrants
  <2> QED
    BY <2>2, <2>3, OnlyGlobalCoversNone DEF GrantCovers
<1> QED
  BY <1>1, PdpInvariance, PTL

LEMMA ContextIsTrue ==
    ASSUME NEW k
    PROVE  TrueContext(k) = Context(request[k], now[k])
  BY DEF TrueContext, Context

\* Deny wins, and a condition that cannot be evaluated closes.
THEOREM DenyWins == Spec => []DenialsHold
<1>1. PdpInv => DenialsHold
  <2> SUFFICES ASSUME PdpInv, NEW k \in Checks, Decided(k), layered[k],
                      effect[k] \in Granted, NEW r \in KeptRules(k)
               PROVE  /\ ~Throws(r, relation[k], TrueContext(k))
                      /\ r.effect = "deny" => ~Applies(r, relation[k], TrueContext(k))
    BY DEF DenialsHold
  <2>1. PICK P \in SUBSET PolicyRows : DecidedBy(k, P)
    BY DEF PdpInv, CheckInv, RulesOK
  <2>2. r \in ToRules(RuleRows(P, request[k]))
    BY <2>1, MoreRules DEF DecidedBy, KeptRules
  <2> QED
    BY <2>1, <2>2, VerdictGrants, ContextIsTrue DEF DecidedBy
<1> QED
  BY <1>1, PdpInvariance, PTL

\* Allow rules are a gate: one of them has to match.
THEOREM PositiveGate == Spec => []GateHolds
<1>1. PdpInv => GateHolds
  <2> SUFFICES ASSUME PdpInv, NEW k \in Checks, Decided(k), layered[k],
                      effect[k] \in Granted,
                      \E r \in KeptRules(k) : r.effect = "allow"
               PROVE  \E r \in SeenRules(k) : r.effect = "allow"
                                              /\ Applies(r, relation[k], TrueContext(k))
    BY DEF GateHolds
  <2>1. PICK P \in SUBSET PolicyRows : DecidedBy(k, P)
    BY DEF PdpInv, CheckInv, RulesOK
  <2>2. /\ KeptRules(k) \subseteq ToRules(RuleRows(P, request[k]))
        /\ ToRules(RuleRows(P, request[k])) \subseteq SeenRules(k)
    BY <2>1, MoreRules DEF DecidedBy, KeptRules, SeenRules
  <2>3. \E r \in ToRules(RuleRows(P, request[k])) :
            r.effect = "allow" /\ Applies(r, relation[k], TrueContext(k))
    BY <2>1, <2>2, VerdictGrants, ContextIsTrue DEF DecidedBy
  <2> QED
    BY <2>2, <2>3
<1> QED
  BY <1>1, PdpInvariance, PTL

----------------------------------------------------------------------------
(* The guard                                                               *)

\* The guard only uses the decision point: its runs are runs of the decision point.
LEMMA GuardUsesPdp == GuardSpec => Spec
<1>1. GuardInit => Init
  BY DEF GuardInit
<1>2. [GuardNext]_guardVars => [Next]_vars
  <2> SUFFICES ASSUME [GuardNext]_guardVars
               PROVE  Next \/ UNCHANGED vars
    OBVIOUS
  <2>1. ASSUME NEW k \in Checks, Ask(k) \/ Serve(k)
        PROVE  \E r \in Requests : Begin(k, r)
    <3>1. CASE Ask(k)
      <4>1. PICK rt \in Routes, p \in Principals :
                Needed(rt) # Unset /\ Begin(k, GuardRequest(p, Needed(rt)))
        BY <3>1 DEF Ask
      <4>2. GuardRequest(p, Needed(rt)) \in GuardRequests
        BY <4>1 DEF GuardRequests, Needed
      <4> QED
        BY <4>1, <4>2, GuardRequestsAreRequests
    <3>2. CASE Serve(k)
      BY <3>2 DEF Serve
    <3> QED
      BY <2>1, <3>1, <3>2
  <2>2. ASSUME NEW k \in Checks, Open(k) \/ Activate(k)
        PROVE  UNCHANGED vars
    BY <2>2 DEF Open, Activate
  <2>3. ASSUME NEW k \in Checks,
               Refuse(k) \/ Finish(k) \/ RejectRoute(k) \/ ServiceLeave(k) \/ Progress(k)
        PROVE  Step(k) \/ UNCHANGED vars
    BY <2>3 DEF Refuse, Finish, RejectRoute, ServiceLeave, Progress, Step
  <2>4. CASE GuardEnvironment \/ UNCHANGED guardVars
    BY <2>4 DEF GuardEnvironment, Next, guardVars
  <2> QED
    BY <2>1, <2>2, <2>3, <2>4 DEF GuardNext, Next
<1> QED
  BY <1>1, <1>2, PTL DEF GuardSpec, Spec

\* What the guard asked is what the route needs, and nothing else lets a handler run.
RouteOK(k) ==
    /\ route[k] \in Routes \cup {NoRoute}
    /\ running[k] \in BOOLEAN
    /\ route[k] # NoRoute /\ pc[k] # "idle" =>
          /\ Needed(route[k]) # Unset
          /\ request[k].resource.type = Needed(route[k]).type
          /\ request[k].action = Needed(route[k]).action
    /\ running[k] =>
          /\ route[k] # NoRoute
          /\ \/ pc[k] = "decided" /\ effect[k] = "allow"
             \/ /\ pc[k] = "idle" /\ Needed(route[k]) = Unset
                /\ route[k].handlerPublic \/ route[k].classPublic
    /\ pc[k] = "idle" /\ ~running[k] => route[k] = NoRoute

GuardInv ==
    /\ route = [k \in Checks |-> route[k]]
    /\ running = [k \in Checks |-> running[k]]
    /\ \A k \in Checks : RouteOK(k)

LEMMA RouteKept ==
    ASSUME NEW k, RouteOK(k), pc'[k] = pc[k], request'[k] = request[k],
           effect'[k] = effect[k], route'[k] = route[k], running'[k] = running[k]
    PROVE  RouteOK(k)'
  BY DEF RouteOK

\* Begin, Settle and the answers change one check.
OnlyCheck(k) ==
    \A j \in Checks \ {k} :
        pc'[j] = pc[j] /\ request'[j] = request[j] /\ effect'[j] = effect[j]

OnlyRoute(k) ==
    \A j \in Checks \ {k} : route'[j] = route[j] /\ running'[j] = running[j]

LEMMA GuardStep ==
    ASSUME GuardInv, NEW k \in Checks, OnlyCheck(k), OnlyRoute(k), RouteOK(k)',
           route' = [j \in Checks |-> route'[j]], running' = [j \in Checks |-> running'[j]]
    PROVE  GuardInv'
  BY RouteKept DEF GuardInv, OnlyCheck, OnlyRoute

LEMMA GuardInitInv == GuardInit => GuardInv
  BY DEF GuardInit, Init, GuardInv, RouteOK

LEMMA GuardNextInv == TypeOK /\ GuardInv /\ [GuardNext]_guardVars => GuardInv'
<1> SUFFICES ASSUME TypeOK, GuardInv, [GuardNext]_guardVars
             PROVE  GuardInv'
  OBVIOUS
<1>1. ASSUME NEW k \in Checks, Ask(k)
      PROVE  GuardInv'
  <2>1. PICK rt \in Routes, p \in Principals :
            /\ Needed(rt) # Unset
            /\ Begin(k, GuardRequest(p, Needed(rt)))
            /\ route' = [route EXCEPT ![k] = rt]
    BY <1>1 DEF Ask
  <2>2. /\ pc'[k] = "relation" /\ route'[k] = rt /\ ~running[k] /\ running' = running
        /\ request'[k].resource.type = Needed(rt).type
        /\ request'[k].action = Needed(rt).action
    BY <1>1, <2>1 DEF TypeOK, Begin, GuardRequest, GuardInv, Ask, Free
  <2>3. RouteOK(k)'
    BY <2>1, <2>2 DEF RouteOK, GuardInv
  <2>4. OnlyCheck(k) /\ OnlyRoute(k)
    BY <2>1, <2>2 DEF Begin, results, TypeOK, OnlyCheck, OnlyRoute, GuardInv
  <2>5. route' = [j \in Checks |-> route'[j]]
    BY <2>1 DEF GuardInv
  <2> QED
    BY <2>2, <2>3, <2>4, <2>5, GuardStep DEF GuardInv
<1>2. ASSUME NEW k \in Checks, Open(k)
      PROVE  GuardInv'
  <2>1. PICK rt \in Routes :
            /\ Needed(rt) = Unset
            /\ rt.handlerPublic \/ rt.classPublic
            /\ route' = [route EXCEPT ![k] = rt]
    BY <1>2 DEF Open
  <2>2. /\ pc[k] = "idle" /\ UNCHANGED <<pc, request, effect>>
        /\ running' = [running EXCEPT ![k] = TRUE]
    BY <1>2 DEF Open, Free, vars
  <2>3. RouteOK(k)'
    BY <2>1, <2>2, GuardConstants DEF RouteOK, GuardInv
  <2>4. OnlyCheck(k) /\ OnlyRoute(k)
    BY <2>1, <2>2 DEF OnlyCheck, OnlyRoute, GuardInv
  <2>5. route' = [j \in Checks |-> route'[j]] /\ running' = [j \in Checks |-> running'[j]]
    BY <2>1, <2>2 DEF GuardInv
  <2> QED
    BY <2>3, <2>4, <2>5, GuardStep
<1>3. ASSUME NEW k \in Checks, Activate(k)
      PROVE  GuardInv'
  <2>1. /\ route[k] # NoRoute /\ pc[k] = "decided" /\ effect[k] = "allow"
        /\ UNCHANGED <<pc, request, effect, route>>
        /\ running' = [running EXCEPT ![k] = TRUE]
    BY <1>3 DEF Activate, vars
  <2>2. RouteOK(k)'
    BY <2>1 DEF RouteOK, GuardInv
  <2>3. OnlyCheck(k) /\ OnlyRoute(k)
    BY <2>1 DEF OnlyCheck, OnlyRoute, GuardInv
  <2>4. running' = [j \in Checks |-> running'[j]]
    BY <2>1 DEF GuardInv
  <2> QED
    BY <2>1, <2>2, <2>3, <2>4, GuardStep DEF GuardInv
<1>4. ASSUME NEW k \in Checks, Refuse(k) \/ RejectRoute(k)
      PROVE  GuardInv'
  <2>1. /\ Settle(k) /\ ~running[k]
        /\ route' = [route EXCEPT ![k] = NoRoute] /\ running' = running
    BY <1>4 DEF Refuse, RejectRoute, Leave, Reject, Awaits, GuardInv, RouteOK
  <2>2. RouteOK(k)'
    BY <2>1 DEF RouteOK, GuardInv, Settle
  <2>3. OnlyCheck(k) /\ OnlyRoute(k)
    BY <2>1 DEF OnlyCheck, OnlyRoute, GuardInv, Settle, TypeOK
  <2>4. route' = [j \in Checks |-> route'[j]]
    BY <2>1 DEF GuardInv
  <2> QED
    BY <2>1, <2>2, <2>3, <2>4, GuardStep DEF GuardInv
<1>5. ASSUME NEW k \in Checks, Finish(k)
      PROVE  GuardInv'
  <2>1. /\ running[k] /\ route' = [route EXCEPT ![k] = NoRoute]
        /\ running' = [running EXCEPT ![k] = FALSE]
        /\ Settle(k) \/ (pc[k] = "idle" /\ UNCHANGED <<pc, request, effect>>)
    BY <1>5 DEF Finish, Leave, vars, GuardInv, RouteOK
  <2>2. RouteOK(k)'
    BY <2>1 DEF RouteOK, GuardInv, Settle
  <2>3. OnlyCheck(k) /\ OnlyRoute(k)
    BY <2>1 DEF OnlyCheck, OnlyRoute, GuardInv, Settle, TypeOK
  <2>4. route' = [j \in Checks |-> route'[j]] /\ running' = [j \in Checks |-> running'[j]]
    BY <2>1 DEF GuardInv
  <2> QED
    BY <2>2, <2>3, <2>4, GuardStep
<1>6. ASSUME NEW k \in Checks, Serve(k)
      PROVE  GuardInv'
  <2>1. /\ ~running[k] /\ route[k] = NoRoute /\ UNCHANGED <<route, running>>
        /\ \E r \in Requests : Begin(k, r)
    BY <1>6 DEF Serve, Free, GuardInv, RouteOK
  <2>2. RouteOK(k)'
    BY <2>1 DEF RouteOK, GuardInv, Begin, TypeOK
  <2>3. OnlyCheck(k) /\ OnlyRoute(k)
    BY <2>1 DEF OnlyCheck, OnlyRoute, Begin, results, TypeOK
  <2> QED
    BY <2>1, <2>2, <2>3, GuardStep DEF GuardInv
<1>7. ASSUME NEW k \in Checks, ServiceLeave(k)
      PROVE  GuardInv'
  <2>1. /\ Settle(k) /\ ~running[k] /\ route[k] = NoRoute /\ UNCHANGED <<route, running>>
    BY <1>7 DEF ServiceLeave, Leave, GuardInv, RouteOK
  <2>2. RouteOK(k)'
    BY <2>1 DEF RouteOK, GuardInv
  <2>3. OnlyCheck(k) /\ OnlyRoute(k)
    BY <2>1 DEF OnlyCheck, OnlyRoute, Settle, TypeOK
  <2> QED
    BY <2>1, <2>2, <2>3, GuardStep DEF GuardInv
<1>8. ASSUME NEW k \in Checks, Progress(k)
      PROVE  GuardInv'
  <2>1. /\ UNCHANGED <<route, running, request>>
        /\ pc[k] \in Awaits /\ pc'[k] # "idle" /\ ~running[k]
        /\ OnlyCheck(k)
    BY <1>8 DEF Progress, Relate, AnswerGrants, AnswerPolicies, Record, results, Emit, TypeOK,
                Awaits, OnlyCheck, GuardInv, RouteOK
  <2>2. RouteOK(k)'
    BY <2>1 DEF RouteOK, GuardInv, Awaits
  <2> QED
    BY <2>1, <2>2, GuardStep DEF GuardInv, OnlyRoute
<1>9. CASE UNCHANGED <<pc, request, effect, route, running>>
  BY <1>9, RouteKept DEF GuardInv
<1> QED
  BY <1>1, <1>2, <1>3, <1>4, <1>5, <1>6, <1>7, <1>8, <1>9
     DEF GuardNext, GuardEnvironment, Environment, EditGrant, EditPolicy, Tick, results,
         guardVars, vars

\* A handler runs only as its annotations say, and past a granted check where they
\* call for a permission.
THEOREM GuardCloses == GuardSpec => []HandlersGuarded
<1>1. PdpInv /\ GuardInv => HandlersGuarded
  <2> SUFFICES ASSUME PdpInv, GuardInv, NEW k \in Checks, running[k]
               PROVE  LET rt == route[k]
                      IN  /\ rt # NoRoute
                          /\ rt.handlerNeeds # Unset => Passed(k, rt.handlerNeeds)
                          /\ rt.handlerNeeds = Unset /\ ~rt.handlerPublic
                             /\ rt.classNeeds # Unset => Passed(k, rt.classNeeds)
                          /\ \/ rt.handlerNeeds # Unset \/ rt.handlerPublic
                             \/ rt.classNeeds # Unset \/ rt.classPublic
    BY DEF HandlersGuarded
  <2>1. RouteOK(k) /\ CheckInv(k)
    BY DEF GuardInv, PdpInv
  <2>2. Needed(route[k]) # Unset => Passed(k, Needed(route[k]))
    BY <2>1 DEF RouteOK, CheckInv, RbacOK, PastRbac, Decided, Granted, Passed
  <2> QED
    BY <2>1, <2>2 DEF RouteOK, Needed
<1>2. PdpInv => TypeOK
  BY DEF PdpInv
<1> QED
  BY <1>1, <1>2, PdpInvariance, GuardUsesPdp, GuardInitInv, GuardNextInv, PTL DEF GuardSpec

\* Every variable of the guard and of the decision point keeps its type.
THEOREM GuardTypeCorrect == GuardSpec => []GuardTypeOK
<1>1. PdpInv /\ GuardInv => GuardTypeOK
  <2> SUFFICES ASSUME PdpInv, GuardInv
               PROVE  GuardTypeOK
    OBVIOUS
  <2>1. \A k \in Checks : route[k] \in Routes \cup {NoRoute} /\ running[k] \in BOOLEAN
    BY DEF GuardInv, RouteOK
  <2>2. /\ route = [k \in Checks |-> route[k]]
        /\ running = [k \in Checks |-> running[k]]
    BY DEF GuardInv
  <2>3. route \in [Checks -> Routes \cup {NoRoute}]
    BY <2>1, <2>2
  <2>4. running \in [Checks -> BOOLEAN]
    BY <2>1, <2>2
  <2> QED
    BY <2>3, <2>4 DEF GuardTypeOK, PdpInv
<1>2. PdpInv => TypeOK
  BY DEF PdpInv
<1> QED
  BY <1>1, <1>2, PdpInvariance, GuardUsesPdp, GuardInitInv, GuardNextInv, PTL DEF GuardSpec
=============================================================================
