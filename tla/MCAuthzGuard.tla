----------------------------- MODULE MCAuthzGuard -----------------------------
(* A tenant with one user, two documents' worth of requests, grants of several *)
(* scopes and policies of each kind.                                          *)
EXTENDS AuthzGuard

NoEnv == [authTime |-> Unset, risk |-> Unset, now |-> Unset]

Alice == [user |-> "alice", tenant |-> "n1", units |-> {"x"}, covers |-> {"y"},
          authTime |-> 0, risk |-> "low"]

Doc(tenant, owner, unit) ==
    [type |-> <<"doc">>, id |-> Unset, tenant |-> tenant, owner |-> owner, unit |-> unit]

Read(doc, env) == [principal |-> Alice, action |-> "read", resource |-> doc, env |-> env]

ReadDoc == [type |-> <<"doc">>, action |-> "read"]
EditDoc == [type |-> <<"doc">>, action |-> "edit"]

\* A document of alice's unit, one of another tenant, and one read by a service
\* that claims to know the environment better.
MCServiceRequests ==
    {Read(Doc("n1", "bob", "x"), NoEnv),
     Read(Doc("n2", Unset, "y"), NoEnv),
     Read(Doc("n1", Unset, "y"), [authTime |-> Unset, risk |-> "high", now |-> 0])}

Route(hn, hp, cn, cp) ==
    [handlerNeeds |-> hn, handlerPublic |-> hp, classNeeds |-> cn, classPublic |-> cp]

\* A route of each kind, and one with annotations that contradict each other.
MCRoutes ==
    {Route(ReadDoc, FALSE, Unset, TRUE), Route(Unset, TRUE, EditDoc, FALSE),
     Route(Unset, FALSE, EditDoc, TRUE), Route(Unset, FALSE, Unset, FALSE)}

MCPrincipals == {Alice}

MCRequests ==
    MCServiceRequests
      \cup {[principal |-> Alice, action |-> n.action,
             resource |-> Doc("n1", Unset, Unset), env |-> NoEnv] :
               n \in {ReadDoc, EditDoc}}

Grant(tenant, permission, scope, expiresAt) ==
    [user |-> "alice", tenant |-> tenant, permission |-> permission, scope |-> scope,
     source |-> "MANUAL", expiresAt |-> expiresAt]

MCGrantRows ==
    {Grant("n1", <<"doc", "*">>, "tenant", Unset),
     Grant("n1", <<"doc", "read">>, "global", 1),
     Grant("n1", <<"*", "read">>, "agency", Unset)}

Rule(e, scope, when, obligations) ==
    [effect |-> e, scope |-> scope, when |-> when, obligations |-> obligations]

Policy(resource, action, rules) ==
    [tenant |-> "n1", resource |-> resource, action |-> action, rules |-> rules]

Gate     == Policy(<<"doc">>, "read", {Rule("allow", Unset, "ownUnit", {})})
Risk     == Policy(<<"*">>, "*", {Rule("deny", Unset, "highRisk", {})})
Fresh    == Policy(<<"*">>, "*", {Rule("deny", "subtree", "stale", {}),
                              Rule("step_up", "tenant", "stale", {"reauthenticate"})})
Agencies == Policy(<<"doc">>, "read", {Rule("allow", "agency", "ownUnit", {})})

MCPolicyRows == {Gate, Risk, Fresh}
\* With a rule whose scope the adapter cannot read.
AgencyRows   == {Gate, Agencies}
==============================================================================
