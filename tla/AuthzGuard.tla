------------------------------ MODULE AuthzGuard ------------------------------
(***************************************************************************)
(* KengelaAuthzGuard (nestjs) in front of the decision point: every HTTP   *)
(* request passes canActivate, which reads the annotations of the route,   *)
(* asks the decision point where they call for a permission, and lets the  *)
(* handler run or throws.  Services also call the decision point directly. *)
(***************************************************************************)
EXTENDS Pdp

CONSTANTS
    Routes,      \* the annotations of the routes of the application
    Principals,  \* what an earlier guard may have put on the request
    NoRoute

ASSUME GuardConstants == NoRoute \notin Routes

VARIABLES
    route,    \* the route of the HTTP request a slot serves, NoRoute for a service call
    running   \* is its handler running?

guardVars == <<vars, route, running>>

\* A bug: the two levels are merged, and public at any level opens the route.
NeededMerged(rt) ==
    IF rt.handlerPublic \/ rt.classPublic THEN Unset
    ELSE IF rt.handlerNeeds # Unset THEN rt.handlerNeeds ELSE rt.classNeeds

\* The annotation of the handler, then that of its class: the permission needed.
Needed(rt) ==
    IF rt.handlerNeeds # Unset THEN rt.handlerNeeds
    ELSE IF rt.handlerPublic THEN Unset ELSE rt.classNeeds

\* Only the type of the resource is known here; its tenant is the principal's.
GuardRequest(p, needs) ==
    [principal |-> p, action |-> needs.action,
     resource  |-> [type |-> needs.type, id |-> Unset, tenant |-> p.tenant,
                    owner |-> Unset, unit |-> Unset],
     env       |-> [authTime |-> Unset, risk |-> Unset, now |-> Unset]]

GuardRequests ==
    {GuardRequest(p, n) : p \in Principals,
        n \in ({rt.handlerNeeds : rt \in Routes} \cup {rt.classNeeds : rt \in Routes}) \ {Unset}}

ASSUME GuardRequestsAreRequests == GuardRequests \subseteq Requests

Free(k) == pc[k] = "idle" /\ ~running[k]

GuardInit ==
    /\ Init
    /\ route = [k \in Checks |-> NoRoute]
    /\ running = [k \in Checks |-> FALSE]

\* canActivate on a route that needs a permission: the decision point is asked.
\* (Without a principal it throws, as it does on a route with no annotation: a
\* stuttering step.)
Ask(k) ==
    /\ Free(k)
    /\ \E rt \in Routes, p \in Principals :
          /\ Needed(rt) # Unset
          /\ Begin(k, GuardRequest(p, Needed(rt)))
          /\ route' = [route EXCEPT ![k] = rt]
    /\ UNCHANGED running

\* canActivate on a public route: the handler runs, with or without a principal.
Open(k) ==
    /\ Free(k)
    /\ \E rt \in Routes :
          /\ Needed(rt) = Unset
          /\ rt.handlerPublic \/ rt.classPublic
          /\ route' = [route EXCEPT ![k] = rt]
    /\ running' = [running EXCEPT ![k] = TRUE]
    /\ UNCHANGED vars

\* The decision is "allow": the handler runs.
Activate(k) ==
    /\ route[k] # NoRoute /\ ~running[k]
    /\ pc[k] = "decided"
    /\ effect[k] = "allow"
    /\ running' = [running EXCEPT ![k] = TRUE]
    /\ UNCHANGED <<vars, route>>

\* The decision is "deny" or "step_up": canActivate throws.
Refuse(k) ==
    /\ route[k] # NoRoute /\ ~running[k]
    /\ effect[k] # "allow"
    /\ Leave(k)
    /\ route' = [route EXCEPT ![k] = NoRoute]
    /\ UNCHANGED running

\* The handler is done.
Finish(k) ==
    /\ running[k]
    /\ IF pc[k] = "decided" THEN Leave(k) ELSE UNCHANGED vars
    /\ route' = [route EXCEPT ![k] = NoRoute]
    /\ running' = [running EXCEPT ![k] = FALSE]

\* The check rejects: canActivate has no catch, and rejects with it.
RejectRoute(k) ==
    /\ Reject(k)
    /\ route' = [route EXCEPT ![k] = NoRoute]
    /\ UNCHANGED running

\* A service calls check with a resource it has loaded.
Serve(k) ==
    /\ Free(k)
    /\ \E r \in Requests : Begin(k, r)
    /\ UNCHANGED <<route, running>>

ServiceLeave(k) ==
    /\ route[k] = NoRoute
    /\ Leave(k)
    /\ UNCHANGED <<route, running>>

Progress(k) ==
    /\ Relate(k) \/ AnswerGrants(k) \/ AnswerPolicies(k) \/ Record(k)
    /\ UNCHANGED <<route, running>>

GuardEnvironment == Environment /\ UNCHANGED <<route, running>>

GuardNext ==
    \/ \E k \in Checks :
          \/ Ask(k) \/ Open(k) \/ Activate(k) \/ Refuse(k) \/ Finish(k)
          \/ RejectRoute(k) \/ Serve(k) \/ ServiceLeave(k) \/ Progress(k)
    \/ GuardEnvironment

GuardSpec == GuardInit /\ [][GuardNext]_guardVars

----------------------------------------------------------------------------
(* Properties                                                              *)

GuardTypeOK ==
    /\ TypeOK
    /\ route \in [Checks -> Routes \cup {NoRoute}]
    /\ running \in [Checks -> BOOLEAN]

\* An access check stands between the request and the handler: "allow", for this
\* permission, and a grant that covered it while the check ran.
Passed(k, needs) ==
    /\ pc[k] = "decided"
    /\ effect[k] = "allow"
    /\ request[k].resource.type = needs.type /\ request[k].action = needs.action
    /\ IsAuthorized(LoadGrants(grantsSeen[k], request[k]), Required(request[k]),
                    relation[k], now[k])

\* Annotations close by default: a handler with a requirement of its own runs only
\* past it, even in a public class; one that is silent runs only past the requirement
\* of its class; and one nobody annotated does not run.
HandlersGuarded ==
    \A k \in Checks : running[k] =>
        LET rt == route[k]
        IN  /\ rt # NoRoute
            /\ rt.handlerNeeds # Unset => Passed(k, rt.handlerNeeds)
            /\ rt.handlerNeeds = Unset /\ ~rt.handlerPublic /\ rt.classNeeds # Unset
                  => Passed(k, rt.classNeeds)
            /\ \/ rt.handlerNeeds # Unset \/ rt.handlerPublic
               \/ rt.classNeeds # Unset \/ rt.classPublic
==============================================================================
