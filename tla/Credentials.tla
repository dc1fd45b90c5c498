----------------------------- MODULE Credentials -----------------------------
(***************************************************************************)
(* Signing in with a password, and what a TransLog user may then do.       *)
(*                                                                         *)
(* NativeCredentialAuthenticator over the credential stores of the Prisma  *)
(* adapter and of the TransLog connector, which read alike, and            *)
(* TranslogAuthorizationRepository.  All of them only read: a call is a    *)
(* sequence of awaited reads and compares, with no transaction, and an     *)
(* admin edits the rows in between.  Calls do not disturb each other, so   *)
(* one is followed at a time.                                              *)
(*                                                                         *)
(* The accounts are those of one email, one at most in a tenant.  Its user *)
(* may be of another: an account and its user each carry a tenantId, and   *)
(* only findByEmail compares them.  Of a hash only the password it was     *)
(* made from is kept.                                                      *)
(***************************************************************************)
EXTENDS Naturals, FiniteSets

CONSTANTS
    Tenants, Users, Passwords, Roles,
    TenantOf,    \* the tenant of each user
    Rows,        \* RolePermission rows: [permission, token]
    MaxEdits,    \* edits of the rows, a bound
    Everywhere,  \* the tenant of authenticateCrossTenant
    NoAccount, NoUser, NoHash, NoRole, NoCall

ASSUME TenantsAssumption == IsFiniteSet(Tenants) /\ Everywhere \notin Tenants

ASSUME TenantOfAssumption == TenantOf \in [Users -> Tenants]

ASSUME MaxEditsAssumption == MaxEdits \in Nat

ASSUME NothingAssumption ==
    /\ NoHash \notin Passwords /\ NoRole \notin Roles /\ NoUser \notin Users
    /\ NoUser \notin [isActive : BOOLEAN, deleted : BOOLEAN, mfaEnabled : BOOLEAN,
                      role : Roles \cup {NoRole}]
    /\ NoAccount \notin [user : Users, hash : Passwords \cup {NoHash}]

VARIABLES
    accounts,  \* of each tenant, the credential account of the email
    users,
    rights,    \* the RolePermission rows of each role
    login,     \* the authenticate, or authenticateCrossTenant, in progress
    load,      \* the loadGrantsForUser in progress
    seen,      \* what was true of the rows while the call was in progress
    edits

rows == <<accounts, users, rights, seen, edits>>
vars == <<accounts, users, rights, login, load, seen, edits>>

UserRows == [isActive : BOOLEAN, deleted : BOOLEAN, mfaEnabled : BOOLEAN, role : Roles \cup {NoRole}]
AccountRows == [user : Users, hash : Passwords \cup {NoHash}]
AccountsRead == [tenantId : Tenants, userId : Users, password : Passwords \cup {NoHash}]
Records ==
    [userId : Users, tenantId : Tenants, passwordHash : Passwords \cup {NoHash},
     isActive : BOOLEAN, mfaEnabled : BOOLEAN, roles : SUBSET Roles]

----------------------------------------------------------------------------
(* What is true of the rows, for the properties to refer to                *)

Held(as) == {<<t, as[t].user, as[t].hash>> : t \in {x \in Tenants : as[x] # NoAccount}}

Live(us) == {u \in Users : us[u] # NoUser /\ us[u].isActive /\ ~us[u].deleted}

Existing(us) == {u \in Users : us[u] # NoUser}

Unarmed(us) == {u \in Users : us[u] # NoUser /\ ~us[u].mfaEnabled}

RoleOf(us, u) == IF us[u] = NoUser THEN NoRole ELSE us[u].role

At(as, us, rs) ==
    [accounts |-> Held(as), live |-> Live(us), unarmed |-> Unarmed(us),
     roles |-> {<<u, RoleOf(us, u)>> : u \in Users},
     rows |-> {<<r, rs[r]>> : r \in Roles},
     existing |-> Existing(us),
     kept |-> {s \in Held(as) : s[2] \in Existing(us)},
     steady |-> {s \in Held(as) : s[2] \in Live(us)}]

\* What was true at some moment; and, of accounts, whose user was there at every moment,
\* and active at every moment.
Watched(now) ==
    [accounts |-> seen.accounts \cup now.accounts, live |-> seen.live \cup now.live,
     unarmed |-> seen.unarmed \cup now.unarmed, roles |-> seen.roles \cup now.roles,
     rows |-> seen.rows \cup now.rows, existing |-> seen.existing \cup now.existing,
     kept |-> seen.kept \cap now.kept, steady |-> seen.steady \cap now.steady]

----------------------------------------------------------------------------
(* The credential stores                                                   *)

\* A bug: an account of TransLog has the role of its user even where that is null.
ToRecordAnyRole(account, user) ==
    [userId |-> account.userId, tenantId |-> account.tenantId, passwordHash |-> account.password,
     isActive |-> user.isActive /\ ~user.deleted, mfaEnabled |-> user.mfaEnabled,
     roles |-> {user.role}]

\* A bug: a user removed softly is active still.
ToRecordUndeleted(account, user) ==
    [userId |-> account.userId, tenantId |-> account.tenantId, passwordHash |-> account.password,
     isActive |-> user.isActive, mfaEnabled |-> user.mfaEnabled,
     roles |-> {user.role} \ {NoRole}]

ToRecord(account, user) ==
    [userId |-> account.userId, tenantId |-> account.tenantId, passwordHash |-> account.password,
     isActive |-> user.isActive /\ ~user.deleted, mfaEnabled |-> user.mfaEnabled,
     roles |-> {user.role} \ {NoRole}]

\* The accounts the first read asks for, and the users the second does: across tenants
\* it does not ask whose tenant the user is of.
Asked(t)   == login.tenant \in {t, Everywhere}
Reached(u) == login.tenant \in {TenantOf[u], Everywhere}

\* account.findFirst, or findMany of every tenant.
ReadAccounts ==
    /\ login # NoCall /\ login.at = "accounts"
    /\ LET read == {[tenantId |-> t, userId |-> accounts[t].user, password |-> accounts[t].hash]
                      : t \in {x \in Tenants : Asked(x) /\ accounts[x] # NoAccount}}
       IN  login' = [login EXCEPT !.read = read, !.at = IF read = {} THEN "compare" ELSE "users"]
    /\ UNCHANGED <<rows, load>>

\* user.findFirst in the tenant, or findMany by id in any; an orphan is dropped.
ReadUsers ==
    /\ login # NoCall /\ login.at = "users"
    /\ LET found == {a \in login.read : users[a.userId] # NoUser /\ Reached(a.userId)}
           records == {ToRecord(a, users[a.userId]) : a \in found}
       IN  login' = [login EXCEPT !.records = records, !.todo = records, !.at = "compare"]
    /\ UNCHANGED <<rows, load>>

----------------------------------------------------------------------------
(* The authenticator                                                       *)

Refused == [kind |-> "invalid_credentials", tenants |-> {}, userId |-> NoUser, roles |-> {}]

Thrown == [Refused EXCEPT !.kind = "throws"]

OutcomeFor(record) ==
    [kind |-> IF record.mfaEnabled THEN "mfa_required" ELSE "authenticated",
     tenants |-> {record.tenantId}, userId |-> record.userId, roles |-> record.roles]

\* A bug: the first match signs in.
DecideFirst(matches) ==
    IF matches = {} THEN Refused ELSE OutcomeFor(CHOOSE m \in matches : TRUE)

Decide(matches) ==
    IF matches = {} THEN Refused
    ELSE IF \E m \in matches : matches = {m} THEN OutcomeFor(CHOOSE m \in matches : TRUE)
    ELSE [Refused EXCEPT !.kind = "tenant_choice", !.tenants = {m.tenantId : m \in matches}]

\* authenticate, or with Everywhere authenticateCrossTenant.
Authenticate(tenant, password) ==
    /\ login = NoCall /\ load = NoCall
    /\ login' = [tenant |-> tenant, password |-> password, at |-> "accounts", read |-> {},
                 records |-> {}, todo |-> {}, matches |-> {}, compares |-> 0, outcome |-> Refused]
    /\ seen' = At(accounts, users, rights)
    /\ UNCHANGED <<accounts, users, rights, load, edits>>

\* The decoy is the hash of a password nobody has.
CompareDecoy ==
    /\ login # NoCall /\ login.at = "compare" /\ login.records = {}
    /\ login' = [login EXCEPT !.compares = @ + 1, !.outcome = Refused, !.at = "done"]
    /\ UNCHANGED <<rows, load>>

Matches(record) == record.passwordHash = login.password /\ record.isActive

\* A bug: the loop ends with the first match.
CompareUntilMatch(record) ==
    /\ login # NoCall /\ login.at = "compare" /\ record \in login.todo
    /\ LET matches == IF Matches(record) THEN login.matches \cup {record} ELSE login.matches
           left == IF Matches(record) THEN {} ELSE login.todo \ {record}
       IN  login' = [login EXCEPT !.compares = @ + 1, !.todo = left, !.matches = matches,
                        !.at = IF left = {} THEN "done" ELSE "compare",
                        !.outcome = IF left = {} THEN Decide(matches) ELSE @]
    /\ UNCHANGED <<rows, load>>

\* With the decoy where the record has no hash, which no password matches.
Compare(record) ==
    /\ login # NoCall /\ login.at = "compare" /\ record \in login.todo
    /\ LET matches == IF Matches(record) THEN login.matches \cup {record} ELSE login.matches
           left == login.todo \ {record}
       IN  login' = [login EXCEPT !.compares = @ + 1, !.todo = left, !.matches = matches,
                        !.at = IF left = {} THEN "done" ELSE "compare",
                        !.outcome = IF left = {} THEN Decide(matches) ELSE @]
    /\ UNCHANGED <<rows, load>>

\* Any of the awaits may throw.
LoginFails ==
    /\ login # NoCall /\ login.at # "done"
    /\ login' = [login EXCEPT !.at = "done", !.outcome = Thrown]
    /\ UNCHANGED <<rows, load>>

LoginReturns ==
    /\ login # NoCall /\ login.at = "done"
    /\ login' = NoCall
    /\ UNCHANGED <<rows, load>>

----------------------------------------------------------------------------
(* The rights of a TransLog user                                           *)

ScopeTokenMap == [own |-> "own", agency |-> "unit", tenant |-> "tenant", global |-> "global"]

\* A bug: a scope nobody knows is the user's own.
PermissionToGrantOwn(row) ==
    {[permission |-> row.permission,
      scope |-> IF row.token \in DOMAIN ScopeTokenMap THEN ScopeTokenMap[row.token] ELSE "own"]}

\* Nothing for a scope nobody knows, or for a string with no scope.
PermissionToGrant(row) ==
    {[permission |-> row.permission, scope |-> ScopeTokenMap[token]]
       : token \in {row.token} \cap DOMAIN ScopeTokenMap}

PermissionsToGrants(rs) == UNION {PermissionToGrant(row) : row \in rs}

LoadGrantsForUser(user, tenant) ==
    /\ login = NoCall /\ load = NoCall
    /\ load' = [user |-> user, tenant |-> tenant, at |-> "user", role |-> NoRole, grants |-> {}]
    /\ seen' = At(accounts, users, rights)
    /\ UNCHANGED <<accounts, users, rights, login, edits>>

\* loadRole, which asks for no tenant.
LoadRole(role) ==
    /\ login = NoCall /\ load = NoCall
    /\ load' = [user |-> NoUser, tenant |-> Everywhere, at |-> "rows", role |-> role, grants |-> {}]
    /\ seen' = At(accounts, users, rights)
    /\ UNCHANGED <<accounts, users, rights, login, edits>>

ReadRole ==
    /\ load # NoCall /\ load.at = "user"
    /\ LET role == IF load.tenant = TenantOf[load.user] THEN RoleOf(users, load.user) ELSE NoRole
       IN  load' = [load EXCEPT !.role = role, !.at = IF role = NoRole THEN "done" ELSE "rows"]
    /\ UNCHANGED <<rows, login>>

ReadRights ==
    /\ load # NoCall /\ load.at = "rows"
    /\ load' = [load EXCEPT !.grants = PermissionsToGrants(rights[load.role]), !.at = "done"]
    /\ UNCHANGED <<rows, login>>

\* An await throws, or the call is over: it is not awaited any more.
LoadEnds ==
    /\ load # NoCall
    /\ load' = NoCall
    /\ UNCHANGED <<rows, login>>

----------------------------------------------------------------------------
(* The admin                                                               *)

Edited ==
    /\ edits < MaxEdits
    /\ edits' = edits + 1
    /\ seen' = Watched(At(accounts', users', rights'))
    /\ UNCHANGED <<login, load>>

SetAccount(tenant, account) ==
    /\ accounts' = [accounts EXCEPT ![tenant] = account]
    /\ UNCHANGED <<users, rights>>
    /\ Edited

SetUser(user, row) ==
    /\ users' = [users EXCEPT ![user] = row]
    /\ UNCHANGED <<accounts, rights>>
    /\ Edited

SetRights(role, rs) ==
    /\ rights' = [rights EXCEPT ![role] = rs]
    /\ UNCHANGED <<accounts, users>>
    /\ Edited

Init ==
    /\ accounts \in [Tenants -> AccountRows \cup {NoAccount}]
    /\ users \in [Users -> UserRows \cup {NoUser}]
    /\ rights \in [Roles -> SUBSET Rows]
    /\ login = NoCall /\ load = NoCall
    /\ seen = At(accounts, users, rights)
    /\ edits = 0

LoginSteps ==
    \/ \E tenant \in Tenants \cup {Everywhere}, password \in Passwords : Authenticate(tenant, password)
    \/ ReadAccounts \/ ReadUsers \/ CompareDecoy
    \/ login # NoCall /\ \E record \in login.todo : Compare(record)
    \/ LoginFails \/ LoginReturns

LoadSteps ==
    \/ \E user \in Users, tenant \in Tenants : LoadGrantsForUser(user, tenant)
    \/ \E role \in Roles : LoadRole(role)
    \/ ReadRole \/ ReadRights \/ LoadEnds

Edits ==
    \/ \E tenant \in Tenants, account \in AccountRows \cup {NoAccount} : SetAccount(tenant, account)
    \/ \E user \in Users, row \in UserRows \cup {NoUser} : SetUser(user, row)
    \/ \E role \in Roles, rs \in SUBSET Rows : SetRights(role, rs)

Next == LoginSteps \/ LoadSteps \/ Edits

Spec == Init /\ [][Next]_vars

----------------------------------------------------------------------------
(* What must hold                                                          *)

Outcomes ==
    [kind : {"invalid_credentials", "throws", "tenant_choice", "mfa_required", "authenticated"},
     tenants : SUBSET Tenants, userId : Users \cup {NoUser}, roles : SUBSET Roles]

Logins ==
    [tenant : Tenants \cup {Everywhere}, password : Passwords,
     at : {"accounts", "users", "compare", "done"}, read : SUBSET AccountsRead,
     records : SUBSET Records, todo : SUBSET Records, matches : SUBSET Records,
     compares : Nat, outcome : Outcomes]

Loads ==
    [user : Users \cup {NoUser}, tenant : Tenants \cup {Everywhere}, at : {"user", "rows", "done"},
     role : Roles \cup {NoRole},
     grants : SUBSET [permission : {row.permission : row \in Rows},
                      scope : {"own", "unit", "tenant", "global"}]]

TypeOK ==
    /\ accounts \in [Tenants -> AccountRows \cup {NoAccount}]
    /\ users \in [Users -> UserRows \cup {NoUser}]
    /\ rights \in [Roles -> SUBSET Rows]
    /\ login = NoCall \/ login \in Logins
    /\ load = NoCall \/ load \in Loads
    /\ edits \in 0 .. MaxEdits

Done == login # NoCall /\ login.at = "done"

\* Whoever a sign-in lets in, asks for a code or offers a tenant to had that password in
\* that tenant, and was active and not removed, at some moment while it was in progress;
\* who is let in without a code had no second factor, and has the roles the user had, at
\* some such moment; and authenticate lets in only users of its tenant.  (The moments may
\* differ: account and user are two reads.)
IdentityWasValid ==
    Done =>
        \A t \in login.outcome.tenants : \E u \in Users :
            /\ <<t, u, login.password>> \in seen.accounts /\ u \in seen.live /\ Reached(u)
            /\ login.outcome.kind \in {"authenticated", "mfa_required"} => u = login.outcome.userId
            /\ login.outcome.kind = "authenticated" =>
                 /\ u \in seen.unarmed
                 /\ \E role \in Roles \cup {NoRole} :
                      <<u, role>> \in seen.roles /\ login.outcome.roles = {role} \ {NoRole}

\* Whoever had that password and was active all the while a sign-in was in progress is not
\* refused by it: it is let in, asked for a code, or offered its tenant; so with two of them
\* in two tenants authenticateCrossTenant offers both and lets in neither.  (authenticate
\* refuses the account of a user of another tenant.)
ValidIsNotRefused ==
    Done /\ login.outcome.kind # "throws" =>
        \A s \in seen.steady :
            s[3] = login.password /\ Asked(s[1]) /\ Reached(s[2]) => s[1] \in login.outcome.tenants

\* The tenants in which the email had an account, and the account its user, all the while,
\* or each at some moment.
KeptIn == {t \in Tenants : Asked(t) /\ \E s \in seen.kept : s[1] = t /\ Reached(s[2])}
EverIn ==
    {t \in Tenants :
       Asked(t) /\ \E s \in seen.accounts : s[1] = t /\ Reached(s[2]) /\ s[2] \in seen.existing}

AtLeastOne(n) == IF n = 0 THEN 1 ELSE n

\* "A bcrypt compare is ALWAYS performed [...].  Cross-tenant, we do not short-circuit on
\* the first match."  One hash is compared for each tenant in which there is an account to
\* find, and one where there is none: neither the password given nor the hashes, the
\* activity or a match make it more or less.  In one tenant that is one compare, account or
\* no account.  Across tenants the number does tell in how many there is an account, if in
\* two or more.
ComparesEveryAccount ==
    Done /\ login.outcome.kind # "throws" =>
        /\ login.compares \in AtLeastOne(Cardinality(KeptIn)) .. AtLeastOne(Cardinality(EverIn))
        /\ login.tenant # Everywhere => login.compares = 1

\* The scopes of TransLog, and what they are worth here.
Worth == {<<"own", "own">>, <<"agency", "unit">>, <<"tenant", "tenant">>, <<"global", "global">>}

\* The grants loadGrantsForUser gives are, row by row and scope by scope, those of one role
\* the user had, as the rows of that role were: each at some moment of the call, for the two
\* are two reads.  It gives none only for such a role, or to a user who had none or is not of
\* that tenant.  A scope nobody knows grants nothing.
GrantsOfHeldRole ==
    load # NoCall /\ load.at = "done" =>
        \/ /\ load.grants = {} /\ load.user # NoUser
           /\ load.tenant # TenantOf[load.user] \/ <<load.user, NoRole>> \in seen.roles
        \/ \E r \in seen.rows :
             /\ load.user # NoUser => <<load.user, r[1]>> \in seen.roles
             /\ load.grants = {[permission |-> p[1].permission, scope |-> p[2][2]]
                                  : p \in {q \in r[2] \X Worth : q[1].token = q[2][1]}}
==============================================================================
