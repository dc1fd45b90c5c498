--------------------------------- MODULE Pdp ---------------------------------
(***************************************************************************)
(* RbacDecisionPoint and LayeredDecisionPoint: checks that run while the   *)
(* grants and the policies they read are being edited.                     *)
(*                                                                         *)
(* A check reads the clock once, then awaits in turn the relation, the     *)
(* grants, the policies (layered only) and the decision log, which an      *)
(* application may do without.  pc[k] names the await check k is suspended *)
(* at; between two of them anything else may happen.  There is no        *)
(* snapshot: the grants and the policies a check decides from need never   *)
(* have been in the database together.                                     *)
(***************************************************************************)
EXTENDS Authz

CONSTANTS
    Checks,       \* slots for checks in flight
    Requests,     \* the access requests callers make
    GrantRows,    \* the grant rows administrators put in and take out
    PolicyRows,   \* the policy rows, each with its joined rules
    MaxTime,      \* bound on the clock
    MaxEdits,     \* bound on the edits of the two tables
    AnyResolver,  \* FALSE: PrincipalRelationResolver; TRUE: whatever the application injects
    NoRequest

ASSUME PdpConstants ==
    /\ MaxTime \in Nat
    /\ MaxEdits \in Nat
    /\ AnyResolver \in BOOLEAN
    /\ NoRequest \notin Requests

VARIABLES
    grants,    \* the grant table
    policies,  \* the policy table
    clock,
    edits,     \* how many edits the tables have seen
    pc,        \* where each check is suspended
    layered,   \* which of the two decision points runs the check
    request,   \* the request of a check
    now,       \* the instant the check began, as it read the clock
    relation,  \* the relation it decides with
    effect,    \* the decision
    \* History, read by no guard of the code's own steps:
    grantsSeen,    \* the grant rows that were in the table at some time since it began
    policiesSeen,  \* the policy rows that were
    policiesKept   \* the policy rows that were there all the time

tables  == <<grants, policies, edits>>
history == <<grantsSeen, policiesSeen, policiesKept>>
results == <<relation, effect>>
vars    == <<grants, policies, clock, edits, pc, layered, request, now,
             relation, effect, grantsSeen, policiesSeen, policiesKept>>

Awaits == {"relation", "grants", "policies", "log"}
PCs    == Awaits \cup {"idle", "decided"}

Granted == {"allow", "step_up"}

----------------------------------------------------------------------------
(* What a check computes from what it was answered                         *)

Required(r) == Append(r.resource.type, r.action)

Override(base, own) == IF own = Unset THEN base ELSE own

\* A bug: what the caller says of its environment is spread last, now included.
CallerContext(r, at) ==
    [authTime |-> Override(r.principal.authTime, r.env.authTime),
     risk     |-> Override(r.principal.risk, r.env.risk),
     now      |-> Override(at, r.env.now),
     unit     |-> r.resource.unit,
     units    |-> r.principal.units]

\* The context of the conditions: the caller's environment overrides the
\* principal's, and the instant of the check overrides both.
Context(r, at) ==
    [authTime |-> Override(r.principal.authTime, r.env.authTime),
     risk     |-> Override(r.principal.risk, r.env.risk),
     now      |-> at,
     unit     |-> r.resource.unit,
     units    |-> r.principal.units]

\* loadGrantsForUser(userId, tenantId).
LoadGrants(rows, r) ==
    ToGrants({g \in rows : /\ g.user = r.principal.user
                           /\ g.tenant = r.principal.tenant})

\* The policies of the principal's tenant that speak of the request, as stored.
RuleRows(rows, r) ==
    UNION {p.rules : p \in {q \in rows :
              /\ q.tenant = r.principal.tenant
              /\ PolicyMatchesRequest(q, r.resource.type, r.action)}}

Init ==
    /\ grants \in SUBSET GrantRows
    /\ policies \in SUBSET PolicyRows
    /\ clock = 0
    /\ edits = 0
    /\ pc = [k \in Checks |-> "idle"]
    /\ layered = [k \in Checks |-> FALSE]
    /\ request = [k \in Checks |-> NoRequest]
    /\ now = [k \in Checks |-> 0]
    /\ relation = [k \in Checks |-> "none"]
    /\ effect = [k \in Checks |-> "deny"]
    /\ grantsSeen = [k \in Checks |-> {}]
    /\ policiesSeen = [k \in Checks |-> {}]
    /\ policiesKept = [k \in Checks |-> {}]

----------------------------------------------------------------------------
(* A check                                                                 *)

\* check(request) up to its first await.
Begin(k, r) ==
    /\ pc[k] = "idle"
    /\ pc' = [pc EXCEPT ![k] = "relation"]
    /\ \E l \in BOOLEAN : layered' = [layered EXCEPT ![k] = l]
    /\ request' = [request EXCEPT ![k] = r]
    /\ now' = [now EXCEPT ![k] = clock]
    /\ grantsSeen' = [grantsSeen EXCEPT ![k] = grants]
    /\ policiesSeen' = [policiesSeen EXCEPT ![k] = policies]
    /\ policiesKept' = [policiesKept EXCEPT ![k] = policies]
    /\ UNCHANGED <<tables, clock, results>>

\* What the injected resolver may answer.
Resolved(r) ==
    IF AnyResolver THEN Relations ELSE {PrincipalRelation(r.principal, r.resource)}

\* The relation is resolved, and kept to the principal's tenant.
Relate(k) ==
    /\ pc[k] = "relation"
    /\ pc' = [pc EXCEPT ![k] = "grants"]
    /\ \E resolved \in Resolved(request[k]) :
          relation' = [relation EXCEPT ![k] =
              TenantScopedRelation(request[k].principal.tenant,
                                   request[k].resource.tenant, resolved)]
    /\ UNCHANGED <<tables, clock, layered, request, now, effect, history>>

\* #emit: the decision is handed to the log, if there is one, and awaits that
\* before it is returned.
Emit(k, decision) ==
    /\ pc' = [pc EXCEPT ![k] = "log"]
    /\ effect' = [effect EXCEPT ![k] = decision]

\* A bug: the roles carried by the principal stand in for the stored grants.
AnswerGrantsStale(k) ==
    /\ pc[k] = "grants"
    /\ IF layered[k]
       THEN pc' = [pc EXCEPT ![k] = "policies"] /\ UNCHANGED effect
       ELSE Emit(k, "allow")
    /\ UNCHANGED <<tables, clock, layered, request, now, relation, history>>

\* A bug: the reason of the denial is passed where its effect belongs.
AnswerGrantsSwapped(k) ==
    LET covered == IsAuthorized(LoadGrants(grants, request[k]),
                                Required(request[k]), relation[k], now[k])
    IN  /\ pc[k] = "grants"
        /\ IF covered /\ layered[k]
           THEN pc' = [pc EXCEPT ![k] = "policies"] /\ UNCHANGED effect
           ELSE Emit(k, IF covered THEN "allow" ELSE "no_grant")
        /\ UNCHANGED <<tables, clock, layered, request, now, relation, history>>

\* The grants are loaded.  Without one that covers, the check denies; with one
\* the RBAC decision point allows and the layered one loads the policies.
AnswerGrants(k) ==
    LET covered == IsAuthorized(LoadGrants(grants, request[k]),
                                Required(request[k]), relation[k], now[k])
    IN  /\ pc[k] = "grants"
        /\ IF covered /\ layered[k]
           THEN pc' = [pc EXCEPT ![k] = "policies"] /\ UNCHANGED effect
           ELSE Emit(k, IF covered THEN "allow" ELSE "deny")
        /\ UNCHANGED <<tables, clock, layered, request, now, relation, history>>

\* The policies are loaded, and the rules that speak of the request decide; no
\* rule at all is the verdict "allow".
AnswerPolicies(k) ==
    /\ pc[k] = "policies"
    /\ Emit(k, PolicyVerdict(ToRules(RuleRows(policies, request[k])), relation[k],
                             Context(request[k], now[k])))
    /\ UNCHANGED <<tables, clock, layered, request, now, relation, history>>

\* The log sink has recorded the decision, or there is none: the await is over
\* either way, and check resolves with the decision.
Record(k) ==
    /\ pc[k] = "log"
    /\ pc' = [pc EXCEPT ![k] = "decided"]
    /\ UNCHANGED <<tables, clock, layered, request, now, results, history>>

\* The caller has acted on the decision, or on the rejection.
Settle(k) ==
    /\ pc' = [pc EXCEPT ![k] = "idle"]
    /\ layered' = [layered EXCEPT ![k] = FALSE]
    /\ request' = [request EXCEPT ![k] = NoRequest]
    /\ now' = [now EXCEPT ![k] = 0]
    /\ relation' = [relation EXCEPT ![k] = "none"]
    /\ effect' = [effect EXCEPT ![k] = "deny"]
    /\ grantsSeen' = [grantsSeen EXCEPT ![k] = {}]
    /\ policiesSeen' = [policiesSeen EXCEPT ![k] = {}]
    /\ policiesKept' = [policiesKept EXCEPT ![k] = {}]
    /\ UNCHANGED <<tables, clock>>

Leave(k) == pc[k] = "decided" /\ Settle(k)

\* Whatever a check awaits may reject, a log included: so does the check.
Reject(k) == pc[k] \in Awaits /\ Settle(k)

----------------------------------------------------------------------------
(* The environment                                                         *)

Running(k) == pc[k] # "idle"

\* An administrator puts a grant in or takes one out.
EditGrant ==
    /\ edits < MaxEdits
    /\ edits' = edits + 1
    /\ \E g \in GrantRows :
          /\ grants' = IF g \in grants THEN grants \ {g} ELSE grants \cup {g}
          /\ grantsSeen' = [k \in Checks |-> IF Running(k) THEN grantsSeen[k] \cup grants'
                                             ELSE {}]
    /\ UNCHANGED <<policies, clock, pc, layered, request, now, results,
                   policiesSeen, policiesKept>>

EditPolicy ==
    /\ edits < MaxEdits
    /\ edits' = edits + 1
    /\ \E p \in PolicyRows :
          /\ policies' = IF p \in policies THEN policies \ {p} ELSE policies \cup {p}
          /\ policiesSeen' = [k \in Checks |-> IF Running(k)
                                               THEN policiesSeen[k] \cup policies' ELSE {}]
          /\ policiesKept' = [k \in Checks |-> policiesKept[k] \cap policies']
    /\ UNCHANGED <<grants, clock, pc, layered, request, now, results, grantsSeen>>

Tick ==
    /\ clock < MaxTime
    /\ clock' = clock + 1
    /\ UNCHANGED <<tables, pc, layered, request, now, results, history>>

Step(k) ==
    \/ Relate(k) \/ AnswerGrants(k) \/ AnswerPolicies(k)
    \/ Record(k) \/ Leave(k) \/ Reject(k)

Environment == EditGrant \/ EditPolicy \/ Tick

Next == \/ \E k \in Checks : Step(k) \/ \E r \in Requests : Begin(k, r)
        \/ Environment

Spec == Init /\ [][Next]_vars

----------------------------------------------------------------------------
(* Properties                                                              *)

TypeOK ==
    /\ grants \in SUBSET GrantRows
    /\ policies \in SUBSET PolicyRows
    /\ clock \in 0 .. MaxTime
    /\ edits \in 0 .. MaxEdits
    /\ pc \in [Checks -> PCs]
    /\ layered \in [Checks -> BOOLEAN]
    /\ request \in [Checks -> Requests \cup {NoRequest}]
    /\ now \in [Checks -> 0 .. MaxTime]
    /\ relation \in [Checks -> Relations]
    /\ effect \in [Checks -> Effects]
    /\ grantsSeen \in [Checks -> SUBSET GrantRows]
    /\ policiesSeen \in [Checks -> SUBSET PolicyRows]
    /\ policiesKept \in [Checks -> SUBSET PolicyRows]

Decided(k) == pc[k] \in {"log", "decided"}

\* A revoked right stops acting: access is never given to a check during which no
\* grant row of its principal covered the request, unexpired when it began.  A
\* right taken away before the check began gives nothing, whatever is edited
\* while it runs.
AccessWasGranted ==
    \A k \in Checks : Decided(k) /\ effect[k] \in Granted =>
        IsAuthorized(LoadGrants(grantsSeen[k], request[k]), Required(request[k]),
                     relation[k], now[k])

\* Tenants are isolated: whatever relation the application's resolver claims, only
\* a grant of global scope gives access to a resource of another tenant.
TenantsIsolated ==
    \A k \in Checks :
        /\ Decided(k) /\ effect[k] \in Granted
        /\ request[k].resource.tenant # request[k].principal.tenant
        => \E g \in LoadGrants(grantsSeen[k], request[k]) :
              g.scope = "global" /\ PermissionCovers(g.permission, Required(request[k]))

\* The rules of policies that stood in the table during the whole check.
KeptRules(k) == ToRules(RuleRows(policiesKept[k], request[k]))
SeenRules(k) == ToRules(RuleRows(policiesSeen[k], request[k]))

\* The context the documentation promises the conditions: the clock of the
\* decision point is not the caller's to set.
TrueContext(k) == [Context(request[k], now[k]) EXCEPT !.now = now[k]]

\* Deny wins and errors close: a check gives no access against a deny rule that
\* matched, or past a condition that could not be evaluated, all through the check.
DenialsHold ==
    \A k \in Checks : Decided(k) /\ layered[k] /\ effect[k] \in Granted =>
        \A r \in KeptRules(k) :
            /\ ~Throws(r, relation[k], TrueContext(k))
            /\ r.effect = "deny" => ~Applies(r, relation[k], TrueContext(k))

\* The positive gate: where a policy with allow rules stood all through the check,
\* access needs an allow rule that matched at some time during it.
GateHolds ==
    \A k \in Checks :
        /\ Decided(k) /\ layered[k] /\ effect[k] \in Granted
        /\ \E r \in KeptRules(k) : r.effect = "allow"
        => \E r \in SeenRules(k) : r.effect = "allow"
                                   /\ Applies(r, relation[k], TrueContext(k))

\* All the rules a row could have been meant to hold.
Readings(row) ==
    {[row EXCEPT !.effect = e, !.scope = s] :
        e \in IF row.effect \in Effects THEN {row.effect} ELSE Effects,
        s \in IF row.scope \in Scopes \cup {Unset} THEN {row.scope} ELSE Scopes}

\* What the adapter says of values it cannot read: the rule falls rather than
\* widens, "never a phantom allow".  Here, with the policies left alone during the
\* check, some reading of the stored rules gives what the check allowed.
NoPhantomAllow ==
    \A k \in Checks :
        /\ Decided(k) /\ layered[k] /\ effect[k] = "allow"
        /\ policiesSeen[k] = policiesKept[k]
        => LET rows == RuleRows(policiesKept[k], request[k])
           IN  \E meant \in [rows -> UNION {Readings(row) : row \in rows}] :
                  /\ \A row \in rows : meant[row] \in Readings(row)
                  /\ PolicyVerdict({meant[row] : row \in rows}, relation[k],
                                   TrueContext(k)) = "allow"
==============================================================================
