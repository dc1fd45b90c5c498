---------------------------- MODULE MCCredentials ----------------------------
(* Instances of Credentials small enough for TLC.                            *)
EXTENDS Credentials, TLC

CONSTANTS t1, t2, u1, u2, p1, p2, r1, r2

MCTenantOf == u1 :> t1 @@ u2 :> t2

Row(permission, token) == [permission |-> permission, token |-> token]

\* A known scope, an unknown one, and the same permission with a wider one.
MCRows == {Row("ship", "agency"), Row("ship", "planet"), Row("ship", "global")}

\* Two users who can sign in, or one.
MCInit ==
    /\ accounts \in {t1 :> [user |-> u1, hash |-> p1] @@ t2 :> second
                       : second \in {[user |-> u2, hash |-> p1], NoAccount}}
    /\ users = [u \in Users |-> [isActive |-> TRUE, deleted |-> FALSE, mfaEnabled |-> FALSE,
                                  role |-> IF u = u1 THEN r1 ELSE NoRole]]
    /\ rights = r1 :> {Row("ship", "agency"), Row("ship", "planet")} @@ r2 :> {Row("ship", "global")}
    /\ login = NoCall /\ load = NoCall /\ edits = 0
    /\ seen = At(accounts, users, rights)

MCSpec == MCInit /\ [][Next]_vars

\* One user whose second factor and role an admin changes, and one who comes and goes;
\* the second password is nobody's, and the second role stays as it is.
Calm ==
    /\ users[u2] # NoUser => ~users[u2].mfaEnabled /\ users[u2].role = NoRole
    /\ \A t \in Tenants : accounts[t] # NoAccount => accounts[t].hash # p2
    /\ rights[r2] = {Row("ship", "global")}
==============================================================================
