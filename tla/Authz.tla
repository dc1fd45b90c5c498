-------------------------------- MODULE Authz --------------------------------
(***************************************************************************)
(* The vocabulary of authorization and the functions that decide, all      *)
(* synchronous: permissions, scopes and relations (authz-core), the        *)
(* verdict of a set of policy rules, and the narrowing of grant and rule   *)
(* rows read from the database (adapter-persistence-prisma).               *)
(*                                                                         *)
(* A permission is a sequence of segments; "*" is a segment like another.  *)
(* A rule's condition is one of a few names, each with a meaning over the  *)
(* context, the same in every rule; the CEL vendor stays outside.          *)
(***************************************************************************)
EXTENDS Naturals, Sequences

CONSTANTS
    Unset,     \* an absent optional property
    FreshFor   \* the age at which condition "stale" starts to hold

ASSUME AuthzConstants ==
    /\ FreshFor \in Nat
    /\ Unset \notin Nat

----------------------------------------------------------------------------
(* Scopes and relations                                                    *)

Scopes    == {"own", "unit", "subtree", "tenant", "global"}
Relations == {"self", "unit", "subtree", "tenant", "none"}

SCOPE_RANK == [own |-> 0, unit |-> 1, subtree |-> 2, tenant |-> 3, global |-> 4]

RelationRank(relation) ==
    IF relation = "self" THEN SCOPE_RANK["own"]
    ELSE IF relation = "none" THEN SCOPE_RANK["global"]
    ELSE SCOPE_RANK[relation]

ScopeCoversRelation(scope, relation) == SCOPE_RANK[scope] >= RelationRank(relation)

\* A bug: the organisation chart is trusted for isolation.
ResolvedRelation(principalTenant, resourceTenant, resolved) == resolved

\* Across tenants there is no relation, whatever the resolver found.
TenantScopedRelation(principalTenant, resourceTenant, resolved) ==
    IF principalTenant = resourceTenant THEN resolved ELSE "none"

\* PrincipalRelationResolver: the relation proved by the principal and the
\* attributes of the resource.
PrincipalRelation(principal, resource) ==
    IF resource.tenant # principal.tenant THEN "none"
    ELSE IF principal.user \in {resource.owner, resource.id} THEN "self"
    ELSE IF resource.unit = Unset THEN "tenant"
    ELSE IF resource.unit \in principal.units THEN "unit"
    ELSE IF resource.unit \in principal.covers THEN "subtree"
    ELSE "tenant"

----------------------------------------------------------------------------
(* Grants                                                                  *)

\* A last segment "*" covers any continuation, none included; an inner one covers
\* exactly one segment.
PermissionCovers(grant, required) ==
    LET n == Len(grant)
        Fits(i) == i <= Len(required) /\ grant[i] \in {"*", required[i]}
    IN  IF grant[n] = "*"
        THEN \A i \in 1 .. n - 1 : Fits(i)
        ELSE n = Len(required) /\ \A i \in 1 .. n : Fits(i)

Active(grant, now) == grant.expiresAt = Unset \/ grant.expiresAt > now

GrantCovers(grant, required, relation) ==
    /\ PermissionCovers(grant.permission, required)
    /\ ScopeCoversRelation(grant.scope, relation)

IsAuthorized(grants, required, relation, now) ==
    \E g \in grants : Active(g, now) /\ GrantCovers(g, required, relation)

----------------------------------------------------------------------------
(* Policy rules                                                            *)

Effects == {"allow", "deny", "step_up"}

\* evaluateBoolean throws when the expression reads what the context lacks.
Evaluate(when, ctx) ==
    CASE when = "always"   -> "true"
      [] when = "stale"    -> IF ctx.now > ctx.authTime + FreshFor THEN "true" ELSE "false"
      [] when = "highRisk" -> IF ctx.risk = Unset THEN "throws"
                              ELSE IF ctx.risk = "high" THEN "true" ELSE "false"
      [] when = "ownUnit"  -> IF ctx.unit = Unset THEN "throws"
                              ELSE IF ctx.unit \in ctx.units THEN "true" ELSE "false"

\* The scope of a rule is looked at first: out of scope nothing is evaluated.
InScope(rule, relation) == rule.scope = Unset \/ ScopeCoversRelation(rule.scope, relation)
Applies(rule, relation, ctx) == InScope(rule, relation) /\ Evaluate(rule.when, ctx) = "true"
Throws(rule, relation, ctx)  == InScope(rule, relation) /\ Evaluate(rule.when, ctx) = "throws"

\* A bug: no positive gate, as if allow rules were mere comments.
UngatedVerdict(rules, relation, ctx) ==
    LET matched == {r \in rules : Applies(r, relation, ctx)}
    IN  IF \/ \E r \in rules : Throws(r, relation, ctx)
           \/ \E r \in matched : r.effect = "deny"
        THEN "deny"
        ELSE IF \E r \in matched : r.effect = "step_up" /\ r.obligations # {}
        THEN "step_up"
        ELSE "allow"

\* What the rules make of a request that RBAC lets through.
PolicyVerdict(rules, relation, ctx) ==
    LET matched == {r \in rules : Applies(r, relation, ctx)}
        Matched(effect) == \E r \in matched : r.effect = effect
    IN  IF \/ \E r \in rules : Throws(r, relation, ctx)
           \/ Matched("deny")
           \/ (\E r \in rules : r.effect = "allow") /\ ~Matched("allow")
        THEN "deny"
        ELSE IF \E r \in matched : r.effect = "step_up" /\ r.obligations # {}
        THEN "step_up"
        ELSE "allow"

\* A resource type is a sequence of segments; the wildcard one stands for "*".
PolicyMatchesRequest(policy, type, action) ==
    policy.resource \in {<<"*">>, type} /\ policy.action \in {"*", action}

----------------------------------------------------------------------------
(* Rows                                                                    *)

Sources         == {"MANUAL", "IDP", "DELEGATION"}
ObligationTypes == {"require_mfa", "require_passkey", "reauthenticate", "notify"}

\* toGrant, over all rows: one with an unknown scope or source is dropped.
ToGrants(rows) == {g \in rows : g.scope \in Scopes /\ g.source \in Sources}

Readable(rule) == rule.effect \in Effects /\ rule.scope \in Scopes \cup {Unset}

Narrowed(rule) == [rule EXCEPT !.obligations = @ \cap ObligationTypes]

\* toPolicyRule, over all rows: an unreadable rule is dropped, and unreadable
\* obligations out of a rule that is kept.
ToRules(rows) == {Narrowed(r) : r \in {x \in rows : Readable(x)}}
==============================================================================
