--------------------------- MODULE CredentialsProofs ---------------------------
(* Theorems about Credentials.                                                *)
EXTENDS Credentials, FiniteSetTheorems, TLAPS

\* What was seen while a call is in progress has what is there now, and who is steady is
\* there now.
SeenNow ==
    /\ Held(accounts) \subseteq seen.accounts
    /\ Live(users) \subseteq seen.live
    /\ Unarmed(users) \subseteq seen.unarmed
    /\ \A u \in Users : <<u, RoleOf(users, u)>> \in seen.roles
    /\ \A r \in Roles : <<r, rights[r]>> \in seen.rows
    /\ Existing(users) \subseteq seen.existing
    /\ \A s \in seen.kept : s \in Held(accounts) /\ s[2] \in Existing(users)
    /\ \A s \in seen.steady : s \in seen.kept /\ s[2] \in Live(users)

\* The accounts a sign-in has read: one of a tenant, and none that was kept is missing.
ReadInv ==
    login # NoCall =>
        /\ IsFiniteSet(login.read)
        /\ \A a \in login.read :
             <<a.tenantId, a.userId, a.password>> \in seen.accounts /\ Asked(a.tenantId)
        /\ \A a, b \in login.read : a.tenantId = b.tenantId => a = b
        /\ login.at \in {"accounts", "users"} =>
             login.records = {} /\ login.todo = {} /\ login.matches = {} /\ login.compares = 0
        /\ login.at = "users" =>
             \A s \in seen.kept : Asked(s[1]) =>
                 [tenantId |-> s[1], userId |-> s[2], password |-> s[3]] \in login.read

\* A record is put together from rows that were there.
Witnessed(r) ==
    /\ <<r.tenantId, r.userId, r.passwordHash>> \in seen.accounts
    /\ Asked(r.tenantId) /\ Reached(r.userId) /\ r.userId \in seen.existing
    /\ r.isActive => r.userId \in seen.live
    /\ ~r.mfaEnabled => r.userId \in seen.unarmed
    /\ \E role \in Roles \cup {NoRole} :
          <<r.userId, role>> \in seen.roles /\ r.roles = {role} \ {NoRole}

RecordInv ==
    login # NoCall =>
        /\ IsFiniteSet(login.records)
        /\ \A r \in login.records : Witnessed(r)
        /\ \A r, q \in login.records : r.tenantId = q.tenantId => r = q

\* Every account that was kept has its record, and the record of one that was steady matches
\* its password.
Complete(records) ==
    /\ \A s \in seen.kept : Asked(s[1]) /\ Reached(s[2]) =>
         \E r \in records : r.tenantId = s[1]
    /\ \A s \in seen.steady : Asked(s[1]) /\ Reached(s[2]) =>
         \E r \in records : r.tenantId = s[1] /\ r.passwordHash = s[3] /\ r.isActive

\* The loop has compared every record that is not left, and kept those that match.
CompareInv ==
    login # NoCall /\ login.at = "compare" =>
        /\ login.todo \subseteq login.records /\ login.matches \subseteq login.records
        /\ login.records # {} => login.todo # {}
        /\ login.compares + Cardinality(login.todo) = Cardinality(login.records)
        /\ \A m \in login.matches : Matches(m)
        /\ \A r \in login.records \ login.todo : Matches(r) => r \in login.matches
        /\ Complete(login.records)

OutcomeInv == IdentityWasValid /\ ValidIsNotRefused /\ ComparesEveryAccount

\* A role that was read is one the user had.
LoadInv ==
    load # NoCall =>
        /\ load.at = "user" => load.user \in Users /\ load.grants = {}
        /\ load.at = "rows" =>
             load.role \in Roles /\ (load.user # NoUser => <<load.user, load.role>> \in seen.roles)

IInv ==
    /\ TypeOK
    /\ SeenNow
    /\ ReadInv
    /\ RecordInv
    /\ CompareInv
    /\ OutcomeInv
    /\ LoadInv
    /\ GrantsOfHeldRole

----------------------------------------------------------------------------
(* What is seen                                                             *)

SeenGrows ==
    /\ seen.accounts \subseteq seen'.accounts
    /\ seen.live \subseteq seen'.live
    /\ seen.unarmed \subseteq seen'.unarmed
    /\ seen.roles \subseteq seen'.roles
    /\ seen.rows \subseteq seen'.rows
    /\ seen.existing \subseteq seen'.existing
    /\ seen'.kept \subseteq seen.kept
    /\ seen'.steady \subseteq seen.steady

LEMMA LiveExist == Live(users) \subseteq Existing(users) /\ Live(users') \subseteq Existing(users')
  BY DEF Live, Existing

\* A call that begins sees what is there.
LEMMA SeenBegins ==
    ASSUME seen' = At(accounts, users, rights), UNCHANGED <<accounts, users, rights>>
    PROVE  SeenNow'
  BY LiveExist DEF SeenNow, At

\* An edit adds to what was seen, and leaves the calls alone.
LEMMA EditsAreSeen ==
    ASSUME SeenNow, Edits
    PROVE  SeenNow' /\ SeenGrows /\ login' = login /\ load' = load
<1>1. Edited
  BY DEF Edits, SetAccount, SetUser, SetRights
<1>2. seen' = Watched(At(accounts', users', rights')) /\ login' = login /\ load' = load
  BY <1>1 DEF Edited
<1>3. /\ seen'.accounts = seen.accounts \cup Held(accounts')
      /\ seen'.live = seen.live \cup Live(users')
      /\ seen'.unarmed = seen.unarmed \cup Unarmed(users')
      /\ seen'.roles = seen.roles \cup {<<u, RoleOf(users', u)>> : u \in Users}
      /\ seen'.rows = seen.rows \cup {<<r, rights'[r]>> : r \in Roles}
      /\ seen'.existing = seen.existing \cup Existing(users')
      /\ seen'.kept = seen.kept \cap {s \in Held(accounts') : s[2] \in Existing(users')}
      /\ seen'.steady = seen.steady \cap {s \in Held(accounts') : s[2] \in Live(users')}
  BY <1>2 DEF Watched, At
<1>4. SeenGrows
  BY <1>3 DEF SeenGrows
<1>5. SeenNow'
  BY <1>3, LiveExist DEF SeenNow
<1> QED
  BY <1>2, <1>4, <1>5

\* The steps of a call leave the rows alone.
LEMMA StepsReadOnly ==
    ASSUME LoginSteps \/ LoadSteps
    PROVE  UNCHANGED <<accounts, users, rights, edits>>
  BY DEF LoginSteps, LoadSteps, Authenticate, ReadAccounts, ReadUsers, CompareDecoy, Compare,
         LoginFails, LoginReturns, LoadGrantsForUser, LoadRole, ReadRole, ReadRights, LoadEnds, rows

LEMMA SeenNowStep ==
    ASSUME SeenNow, [Next]_vars
    PROVE  SeenNow'
<1>1. CASE Edits
  BY <1>1, EditsAreSeen
<1>2. CASE LoginSteps \/ LoadSteps
  <2>1. UNCHANGED <<accounts, users, rights>>
    BY <1>2, StepsReadOnly
  <2>2. CASE seen' = At(accounts, users, rights)
    BY <2>1, <2>2, SeenBegins
  <2>3. CASE UNCHANGED seen
    BY <2>1, <2>3 DEF SeenNow
  <2>4. seen' = At(accounts, users, rights) \/ UNCHANGED seen
    BY <1>2 DEF LoginSteps, LoadSteps, Authenticate, ReadAccounts, ReadUsers, CompareDecoy, Compare,
         LoginFails, LoginReturns, LoadGrantsForUser, LoadRole, ReadRole, ReadRights, LoadEnds, rows
  <2> QED
    BY <2>2, <2>3, <2>4
<1>3. CASE UNCHANGED vars
  BY <1>3 DEF SeenNow, vars
<1> QED
  BY <1>1, <1>2, <1>3 DEF Next

----------------------------------------------------------------------------
(* Types                                                                    *)

LEMMA RecordTyped ==
    ASSUME NEW a \in AccountsRead, NEW u \in UserRows
    PROVE  ToRecord(a, u) \in Records
  BY DEF ToRecord, Records, AccountsRead, UserRows

LEMMA OutcomeTyped ==
    ASSUME NEW ms \in SUBSET Records
    PROVE  Decide(ms) \in Outcomes /\ Refused \in Outcomes /\ Thrown \in Outcomes
<1>1. Refused \in Outcomes /\ Thrown \in Outcomes
  BY DEF Refused, Thrown, Outcomes
<1>2. ASSUME NEW m \in ms
      PROVE  OutcomeFor(m) \in Outcomes
  BY <1>2 DEF OutcomeFor, Outcomes, Records
<1>3. CASE ms = {}
  BY <1>1, <1>3 DEF Decide
<1>4. CASE ms # {} /\ \E m \in ms : ms = {m}
  BY <1>1, <1>2, <1>4 DEF Decide
<1>5. CASE ms # {} /\ ~\E m \in ms : ms = {m}
  <2>1. Decide(ms) = [kind |-> "tenant_choice", tenants |-> {m.tenantId : m \in ms},
                      userId |-> NoUser, roles |-> {}]
    BY <1>5 DEF Decide, Refused
  <2>2. {m.tenantId : m \in ms} \in SUBSET Tenants
    BY DEF Records
  <2> QED
    BY <1>1, <2>1, <2>2 DEF Outcomes
<1> QED
  BY <1>1, <1>3, <1>4, <1>5

LEMMA GrantsTyped ==
    ASSUME NEW rs \in SUBSET Rows
    PROVE  PermissionsToGrants(rs) \in
             SUBSET [permission : {row.permission : row \in Rows},
                     scope : {"own", "unit", "tenant", "global"}]
  BY DEF PermissionsToGrants, PermissionToGrant, ScopeTokenMap

LEMMA AccountTyped ==
    ASSUME NEW t \in Tenants, NEW a \in AccountRows
    PROVE  [tenantId |-> t, userId |-> a.user, password |-> a.hash] \in AccountsRead
  BY DEF AccountRows, AccountsRead

\* What the rows answer to the two reads of a sign-in.
AccountsNow ==
    {[tenantId |-> t, userId |-> accounts[t].user, password |-> accounts[t].hash]
       : t \in {x \in Tenants : Asked(x) /\ accounts[x] # NoAccount}}

FoundNow == {a \in login.read : users[a.userId] # NoUser /\ Reached(a.userId)}

RecordsNow == {ToRecord(a, users[a.userId]) : a \in FoundNow}

LEMMA AccountsNowTyped ==
    ASSUME accounts \in [Tenants -> AccountRows \cup {NoAccount}]
    PROVE  AccountsNow \in SUBSET AccountsRead
<1> SUFFICES ASSUME NEW t \in Tenants, accounts[t] # NoAccount
             PROVE  [tenantId |-> t, userId |-> accounts[t].user, password |-> accounts[t].hash]
                      \in AccountsRead
  BY DEF AccountsNow
<1>1. accounts[t] \in AccountRows
  OBVIOUS
<1> QED
  BY <1>1, AccountTyped

LEMMA RecordsNowTyped ==
    ASSUME users \in [Users -> UserRows \cup {NoUser}], login.read \in SUBSET AccountsRead
    PROVE  RecordsNow \in SUBSET Records
<1> SUFFICES ASSUME NEW a \in login.read, users[a.userId] # NoUser
             PROVE  ToRecord(a, users[a.userId]) \in Records
  BY DEF RecordsNow, FoundNow
<1>1. a \in AccountsRead /\ a.userId \in Users
  BY DEF AccountsRead
<1>2. users[a.userId] \in UserRows
  BY <1>1
<1> QED
  BY <1>1, <1>2, RecordTyped

\* What the steps of a sign-in do to it, field by field.
LEMMA AfterReadAccounts ==
    ASSUME TypeOK, ReadAccounts
    PROVE  /\ login \in Logins /\ login.at = "accounts"
           /\ login' = [login EXCEPT !.read = AccountsNow,
                                     !.at = IF AccountsNow = {} THEN "compare" ELSE "users"]
           /\ login' \in Logins
           /\ login'.read = AccountsNow
           /\ login'.at = IF AccountsNow = {} THEN "compare" ELSE "users"
           /\ UNCHANGED <<accounts, users, rights, seen, edits, load>>
<1>1. login \in Logins /\ login.at = "accounts"
  BY DEF ReadAccounts, TypeOK
<1>2. login' = [login EXCEPT !.read = AccountsNow,
                             !.at = IF AccountsNow = {} THEN "compare" ELSE "users"]
  BY DEF ReadAccounts, AccountsNow
<1>3. AccountsNow \in SUBSET AccountsRead
  BY AccountsNowTyped DEF TypeOK
<1>4. UNCHANGED <<accounts, users, rights, seen, edits, load>>
  BY DEF ReadAccounts, rows
<1> QED
  BY <1>1, <1>2, <1>3, <1>4 DEF Logins

LEMMA AfterReadUsers ==
    ASSUME TypeOK, ReadUsers
    PROVE  /\ login \in Logins /\ login.at = "users"
           /\ login' = [login EXCEPT !.records = RecordsNow, !.todo = RecordsNow, !.at = "compare"]
           /\ login' \in Logins
           /\ UNCHANGED <<accounts, users, rights, seen, edits, load>>
<1>1. login \in Logins /\ login.at = "users"
  BY DEF ReadUsers, TypeOK
<1>2. login' = [login EXCEPT !.records = RecordsNow, !.todo = RecordsNow, !.at = "compare"]
  BY DEF ReadUsers, RecordsNow, FoundNow
<1>3. RecordsNow \in SUBSET Records
  BY <1>1, RecordsNowTyped DEF TypeOK, Logins
<1>4. UNCHANGED <<accounts, users, rights, seen, edits, load>>
  BY DEF ReadUsers, rows
<1> QED
  BY <1>1, <1>2, <1>3, <1>4 DEF Logins

LeftAfter(record) == login.todo \ {record}

MatchesAfter(record) ==
    IF Matches(record) THEN login.matches \cup {record} ELSE login.matches

LEMMA AfterCompare ==
    ASSUME TypeOK, NEW record, login # NoCall, record \in login.todo, Compare(record)
    PROVE  /\ login \in Logins /\ login.at = "compare" /\ record \in Records
           /\ login' = [login EXCEPT !.compares = @ + 1, !.todo = LeftAfter(record), !.matches = MatchesAfter(record),
                            !.at = IF LeftAfter(record) = {} THEN "done" ELSE "compare",
                            !.outcome = IF LeftAfter(record) = {} THEN Decide(MatchesAfter(record)) ELSE @]
           /\ login' \in Logins
           /\ UNCHANGED <<accounts, users, rights, seen, edits, load>>
<1>1. login \in Logins /\ login.at = "compare" /\ record \in Records
  BY DEF Compare, TypeOK, Logins
<1>2. login' = [login EXCEPT !.compares = @ + 1, !.todo = LeftAfter(record), !.matches = MatchesAfter(record),
                            !.at = IF LeftAfter(record) = {} THEN "done" ELSE "compare",
                            !.outcome = IF LeftAfter(record) = {} THEN Decide(MatchesAfter(record)) ELSE @]
  BY DEF Compare, LeftAfter, MatchesAfter
<1>3. LeftAfter(record) \in SUBSET Records /\ MatchesAfter(record) \in SUBSET Records
  BY <1>1 DEF Logins, LeftAfter, MatchesAfter
<1>4. Decide(MatchesAfter(record)) \in Outcomes
  BY <1>3, OutcomeTyped
<1>5. UNCHANGED <<accounts, users, rights, seen, edits, load>>
  BY DEF Compare, rows
<1>6. login.compares + 1 \in Nat
  BY <1>1 DEF Logins
<1>7. (IF LeftAfter(record) = {} THEN Decide(MatchesAfter(record)) ELSE login.outcome) \in Outcomes
  BY <1>1, <1>4 DEF Logins
<1>8. (IF LeftAfter(record) = {} THEN "done" ELSE "compare") \in {"accounts", "users", "compare", "done"}
  OBVIOUS
<1>9. ASSUME NEW n \in Nat, NEW o \in Outcomes, NEW at \in {"accounts", "users", "compare", "done"},
             login' = [login EXCEPT !.compares = n, !.todo = LeftAfter(record), !.matches = MatchesAfter(record),
                          !.at = at, !.outcome = o]
      PROVE  login' \in Logins
  BY <1>1, <1>3, <1>9 DEF Logins
<1> QED
  BY <1>1, <1>2, <1>5, <1>6, <1>7, <1>8, <1>9

LEMMA TypeStep ==
    ASSUME IInv, [Next]_vars
    PROVE  TypeOK'
<1> USE DEF TypeOK
<1>0. TypeOK
  BY DEF IInv
<1>1. ASSUME NEW tenant \in Tenants \cup {Everywhere}, NEW password \in Passwords,
             Authenticate(tenant, password)
      PROVE  TypeOK'
  <2>1. Refused \in Outcomes
    BY OutcomeTyped
  <2>2. login' \in Logins
    BY <1>1, <2>1 DEF Authenticate, Logins
  <2> QED
    BY <1>0, <1>1, <2>2 DEF Authenticate
<1>2. CASE ReadAccounts
  BY <1>0, <1>2, AfterReadAccounts
<1>3. CASE ReadUsers
  BY <1>0, <1>3, AfterReadUsers
<1>4. CASE CompareDecoy
  <2>1. Refused \in Outcomes /\ login \in Logins
    BY <1>0, <1>4, OutcomeTyped DEF CompareDecoy
  <2>2. login.compares + 1 \in Nat
    BY <2>1 DEF Logins
  <2>3. login' \in Logins
    BY <1>4, <2>1, <2>2 DEF CompareDecoy, Logins
  <2> QED
    BY <1>0, <1>4, <2>3 DEF CompareDecoy, rows
<1>5. ASSUME NEW record \in login.todo, login # NoCall, Compare(record)
      PROVE  TypeOK'
  BY <1>0, <1>5, AfterCompare
<1>6. CASE LoginFails
  BY <1>0, <1>6, OutcomeTyped DEF LoginFails, Logins, rows
<1>7. CASE LoginReturns
  BY <1>0, <1>7 DEF LoginReturns, rows
<1>8. CASE LoadSteps
  <2>1. ASSUME NEW user \in Users, NEW tenant \in Tenants, LoadGrantsForUser(user, tenant)
        PROVE  TypeOK'
    BY <1>0, <2>1 DEF LoadGrantsForUser, Loads
  <2>2. ASSUME NEW role \in Roles, LoadRole(role)
        PROVE  TypeOK'
    BY <1>0, <2>2 DEF LoadRole, Loads
  <2>3. CASE ReadRole
    <3>1. load.user \in Users
      BY <2>3 DEF ReadRole, LoadInv, IInv
    <3>2. RoleOf(users, load.user) \in Roles \cup {NoRole}
      BY <1>0, <3>1 DEF RoleOf, UserRows
    <3> QED
      BY <1>0, <2>3, <3>2 DEF ReadRole, Loads, rows
  <2>4. CASE ReadRights
    <3>1. rights[load.role] \in SUBSET Rows
      BY <1>0, <2>4 DEF ReadRights, LoadInv, IInv
    <3>2. PermissionsToGrants(rights[load.role]) \in
             SUBSET [permission : {row.permission : row \in Rows},
                     scope : {"own", "unit", "tenant", "global"}]
      BY <3>1, GrantsTyped
    <3> QED
      BY <1>0, <2>4, <3>2 DEF ReadRights, Loads, rows
  <2>5. CASE LoadEnds
    BY <1>0, <2>5 DEF LoadEnds, rows
  <2> QED
    BY <1>8, <2>1, <2>2, <2>3, <2>4, <2>5 DEF LoadSteps
<1>9. CASE Edits
  BY <1>0, <1>9, MaxEditsAssumption DEF Edits, SetAccount, SetUser, SetRights, Edited
<1>10. CASE UNCHANGED vars
  BY <1>0, <1>10 DEF vars
<1> QED
  BY <1>1, <1>2, <1>3, <1>4, <1>5, <1>6, <1>7, <1>8, <1>9, <1>10 DEF Next, LoginSteps

----------------------------------------------------------------------------
(* Finiteness                                                               *)

LEMMA FiniteImage ==
    ASSUME NEW S, IsFiniteSet(S), NEW f, f = [x \in S |-> f[x]]
    PROVE  IsFiniteSet({f[x] : x \in S})
<1> DEFINE T == {f[x] : x \in S}
<1>1. f \in Surjection(S, T)
  BY DEF Surjection
<1> QED
  BY <1>1, FS_Surjection

LEMMA AccountsNowFinite == IsFiniteSet(AccountsNow)
<1> DEFINE asked == {x \in Tenants : Asked(x) /\ accounts[x] # NoAccount}
           f == [t \in asked |->
                   [tenantId |-> t, userId |-> accounts[t].user, password |-> accounts[t].hash]]
<1>1. IsFiniteSet(asked)
  BY TenantsAssumption, FS_Subset
<1>2. IsFiniteSet({f[t] : t \in asked})
  <2>1. f = [t \in asked |-> f[t]]
    OBVIOUS
  <2> HIDE DEF f, asked
  <2> QED
    BY <1>1, <2>1, FiniteImage
<1>3. AccountsNow = {f[t] : t \in asked}
  <2>1. \A t \in asked :
          f[t] = [tenantId |-> t, userId |-> accounts[t].user, password |-> accounts[t].hash]
    OBVIOUS
  <2> HIDE DEF f
  <2> QED
    BY <2>1, Zenon DEF AccountsNow
<1> QED
  BY <1>2, <1>3

LEMMA RecordsNowFinite ==
    ASSUME IsFiniteSet(login.read)
    PROVE  IsFiniteSet(RecordsNow)
<1> DEFINE f == [a \in FoundNow |-> ToRecord(a, users[a.userId])]
<1>1. IsFiniteSet(FoundNow)
  BY FS_Subset DEF FoundNow
<1>2. IsFiniteSet({f[a] : a \in FoundNow})
  BY <1>1, FiniteImage
<1> QED
  BY <1>2 DEF RecordsNow

----------------------------------------------------------------------------
(* What the reads find                                                      *)

LEMMA AccountsNowHeld ==
    ASSUME SeenNow
    PROVE  /\ \A a \in AccountsNow :
                <<a.tenantId, a.userId, a.password>> \in seen.accounts /\ Asked(a.tenantId)
           /\ \A a, b \in AccountsNow : a.tenantId = b.tenantId => a = b
           /\ \A s \in seen.kept : Asked(s[1]) =>
                 [tenantId |-> s[1], userId |-> s[2], password |-> s[3]] \in AccountsNow
<1>1. ASSUME NEW a \in AccountsNow
      PROVE  \E t \in Tenants :
               /\ Asked(t) /\ accounts[t] # NoAccount
               /\ a = [tenantId |-> t, userId |-> accounts[t].user, password |-> accounts[t].hash]
  BY DEF AccountsNow
<1>2. ASSUME NEW a \in AccountsNow
      PROVE  <<a.tenantId, a.userId, a.password>> \in seen.accounts /\ Asked(a.tenantId)
  BY <1>1 DEF SeenNow, Held
<1>3. ASSUME NEW a \in AccountsNow, NEW b \in AccountsNow, a.tenantId = b.tenantId
      PROVE  a = b
  BY <1>1, <1>3
<1>4. ASSUME NEW s \in seen.kept, Asked(s[1])
      PROVE  [tenantId |-> s[1], userId |-> s[2], password |-> s[3]] \in AccountsNow
  <2>1. PICK t \in Tenants : accounts[t] # NoAccount /\ s = <<t, accounts[t].user, accounts[t].hash>>
    BY DEF SeenNow, Held
  <2>2. s[1] = t /\ s[2] = accounts[t].user /\ s[3] = accounts[t].hash
    BY <2>1
  <2> QED
    BY <1>4, <2>1, <2>2 DEF AccountsNow
<1> QED
  BY <1>2, <1>3, <1>4

LEMMA RecordsNowWitnessed ==
    ASSUME TypeOK, SeenNow, ReadInv, login \in Logins, login # NoCall
    PROVE  /\ \A r \in RecordsNow : Witnessed(r)
           /\ \A r, q \in RecordsNow : r.tenantId = q.tenantId => r = q
<1>1. ASSUME NEW r \in RecordsNow
      PROVE  \E a \in login.read : /\ users[a.userId] # NoUser /\ Reached(a.userId)
                                  /\ r = ToRecord(a, users[a.userId])
  BY DEF RecordsNow, FoundNow
<1>2. ASSUME NEW r \in RecordsNow
      PROVE  Witnessed(r)
  <2>1. PICK a \in login.read : /\ users[a.userId] # NoUser /\ Reached(a.userId)
                                /\ r = ToRecord(a, users[a.userId])
    BY <1>1
  <2>2. a.userId \in Users
    BY DEF Logins, AccountsRead
  <2>3. users[a.userId] \in UserRows
    BY <2>1, <2>2 DEF TypeOK
  <2>4. /\ r.tenantId = a.tenantId /\ r.userId = a.userId /\ r.passwordHash = a.password
        /\ r.isActive = (users[a.userId].isActive /\ ~users[a.userId].deleted)
        /\ r.mfaEnabled = users[a.userId].mfaEnabled
        /\ r.roles = {users[a.userId].role} \ {NoRole}
    BY <2>1 DEF ToRecord
  <2>5. <<r.tenantId, r.userId, r.passwordHash>> \in seen.accounts /\ Asked(r.tenantId)
    BY <2>4 DEF ReadInv
  <2>6. r.isActive => r.userId \in seen.live
    BY <2>1, <2>2, <2>4 DEF SeenNow, Live
  <2>7. ~r.mfaEnabled => r.userId \in seen.unarmed
    BY <2>1, <2>2, <2>4 DEF SeenNow, Unarmed
  <2>8. <<r.userId, users[a.userId].role>> \in seen.roles
    BY <2>1, <2>2, <2>4 DEF SeenNow, RoleOf
  <2>9. users[a.userId].role \in Roles \cup {NoRole}
    BY <2>3 DEF UserRows
  <2>10. Reached(r.userId) /\ r.userId \in seen.existing
    BY <2>1, <2>2, <2>4 DEF SeenNow, Existing
  <2> QED
    BY <2>4, <2>5, <2>6, <2>7, <2>8, <2>9, <2>10 DEF Witnessed
<1>3. ASSUME NEW r \in RecordsNow, NEW q \in RecordsNow, r.tenantId = q.tenantId
      PROVE  r = q
  <2>1. PICK a \in login.read : r = ToRecord(a, users[a.userId])
    BY <1>1
  <2>2. PICK b \in login.read : q = ToRecord(b, users[b.userId])
    BY <1>1
  <2>3. a.tenantId = b.tenantId
    BY <1>3, <2>1, <2>2 DEF ToRecord
  <2>4. a = b
    BY <2>3 DEF ReadInv
  <2> QED
    BY <2>1, <2>2, <2>4
<1> QED
  BY <1>2, <1>3

\* None that was kept is missing among the records.
LEMMA RecordsNowComplete ==
    ASSUME TypeOK, SeenNow, ReadInv, login \in Logins, login # NoCall, login.at = "users"
    PROVE  Complete(RecordsNow)
<1>1. ASSUME NEW s \in seen.kept, Asked(s[1]), Reached(s[2])
      PROVE  \E r \in RecordsNow :
               /\ r.tenantId = s[1] /\ r.passwordHash = s[3]
               /\ r.isActive = (users[s[2]].isActive /\ ~users[s[2]].deleted)
  <2> DEFINE a == [tenantId |-> s[1], userId |-> s[2], password |-> s[3]]
             r == ToRecord(a, users[a.userId])
  <2>1. a \in login.read
    BY <1>1 DEF ReadInv
  <2>2. users[s[2]] # NoUser
    BY DEF SeenNow, Existing
  <2>3. r \in RecordsNow
    BY <1>1, <2>1, <2>2 DEF RecordsNow, FoundNow
  <2>4. /\ r.tenantId = s[1] /\ r.passwordHash = s[3]
        /\ r.isActive = (users[s[2]].isActive /\ ~users[s[2]].deleted)
    BY DEF ToRecord
  <2> QED
    BY <2>3, <2>4
<1>2. ASSUME NEW s \in seen.steady
      PROVE  s \in seen.kept /\ users[s[2]].isActive /\ ~users[s[2]].deleted
  BY DEF SeenNow, Live
<1> QED
  BY <1>1, <1>2 DEF Complete

\* So there are as many records as there are accounts to find.
LEMMA RecordsCounted ==
    ASSUME NEW records, IsFiniteSet(records), Complete(records), \A r \in records : Witnessed(r),
           \A r, q \in records : r.tenantId = q.tenantId => r = q,
           records \subseteq Records
    PROVE  /\ Cardinality(KeptIn) \in Nat /\ Cardinality(EverIn) \in Nat
           /\ Cardinality(KeptIn) <= Cardinality(records)
           /\ Cardinality(records) <= Cardinality(EverIn)
<1> DEFINE f == [r \in records |-> r.tenantId]
           T == {f[r] : r \in records}
<1>1. IsFiniteSet(KeptIn) /\ IsFiniteSet(EverIn)
  BY TenantsAssumption, FS_Subset DEF KeptIn, EverIn
<1>2. IsFiniteSet(T) /\ Cardinality(T) <= Cardinality(records)
  <2>1. f \in Surjection(records, T)
    BY DEF Surjection
  <2> QED
    BY <2>1, FS_Surjection
<1>3. KeptIn \subseteq T
  BY DEF KeptIn, Complete
<1>4. f \in Injection(records, EverIn)
  <2>1. ASSUME NEW r \in records
        PROVE  r.tenantId \in EverIn
    <3>1. <<r.tenantId, r.userId, r.passwordHash>>[1] = r.tenantId
          /\ <<r.tenantId, r.userId, r.passwordHash>>[2] = r.userId
      OBVIOUS
    <3>2. r.tenantId \in Tenants
      BY DEF Records
    <3> QED
      BY <3>1, <3>2 DEF Witnessed, EverIn
  <2> QED
    BY <2>1 DEF Injection, IsInjective
<1>5. Cardinality(KeptIn) <= Cardinality(T)
  BY <1>2, <1>3, FS_Subset
<1>6. Cardinality(records) <= Cardinality(EverIn)
  BY <1>1, <1>4, FS_Injection
<1> HIDE DEF T
<1> QED
  BY <1>1, <1>2, <1>5, <1>6, FS_CardinalityType

----------------------------------------------------------------------------
(* Steps: a sign-in                                                         *)

\* What a sign-in knows holds of it however the rows are edited.
LEMMA EditsKeepLogin ==
    ASSUME IInv, SeenGrows, login' = login
    PROVE  ReadInv' /\ RecordInv' /\ CompareInv' /\ OutcomeInv'
<1>1. ReadInv'
  BY DEF IInv, ReadInv, SeenGrows, Asked
<1>2. ASSUME NEW r, Witnessed(r)
      PROVE  Witnessed(r)'
  BY <1>2 DEF Witnessed, SeenGrows, Asked, Reached
<1>3. RecordInv'
  BY <1>2 DEF IInv, RecordInv
<1>4. CompareInv'
  BY DEF IInv, CompareInv, Complete, SeenGrows, Asked, Reached, Matches
<1>5. IdentityWasValid'
  <2> SUFFICES ASSUME Done, NEW t \in login.outcome.tenants
               PROVE  \E u \in Users :
                 /\ <<t, u, login.password>> \in seen'.accounts /\ u \in seen'.live /\ Reached(u)
                 /\ login.outcome.kind \in {"authenticated", "mfa_required"}
                      => u = login.outcome.userId
                 /\ login.outcome.kind = "authenticated" =>
                      /\ u \in seen'.unarmed
                      /\ \E role \in Roles \cup {NoRole} :
                           <<u, role>> \in seen'.roles /\ login.outcome.roles = {role} \ {NoRole}
    BY DEF IdentityWasValid, Done, Reached
  <2>1. PICK u \in Users :
                 /\ <<t, u, login.password>> \in seen.accounts /\ u \in seen.live /\ Reached(u)
                 /\ login.outcome.kind \in {"authenticated", "mfa_required"}
                      => u = login.outcome.userId
                 /\ login.outcome.kind = "authenticated" =>
                      /\ u \in seen.unarmed
                      /\ \E role \in Roles \cup {NoRole} :
                           <<u, role>> \in seen.roles /\ login.outcome.roles = {role} \ {NoRole}
    BY DEF IInv, OutcomeInv, IdentityWasValid
  <2> QED
    BY <2>1 DEF SeenGrows
<1>6. ValidIsNotRefused'
  BY DEF IInv, OutcomeInv, ValidIsNotRefused, Done, SeenGrows, Asked, Reached
<1>7. ComparesEveryAccount'
  <2> SUFFICES ASSUME Done, login.outcome.kind # "throws"
               PROVE  /\ login.compares \in AtLeastOne(Cardinality(KeptIn')) .. AtLeastOne(Cardinality(EverIn'))
                      /\ login.tenant # Everywhere => login.compares = 1
    BY DEF ComparesEveryAccount, Done
  <2>1. /\ login.compares \in AtLeastOne(Cardinality(KeptIn)) .. AtLeastOne(Cardinality(EverIn))
        /\ login.tenant # Everywhere => login.compares = 1
    BY DEF IInv, OutcomeInv, ComparesEveryAccount
  <2>2. KeptIn' \subseteq KeptIn /\ EverIn \subseteq EverIn'
    BY DEF KeptIn, EverIn, SeenGrows, Asked, Reached
  <2>3. IsFiniteSet(KeptIn) /\ IsFiniteSet(EverIn')
    BY TenantsAssumption, FS_Subset DEF KeptIn, EverIn
  <2>4. IsFiniteSet(KeptIn') /\ IsFiniteSet(EverIn)
    BY <2>2, <2>3, FS_Subset
  <2>5. Cardinality(KeptIn') <= Cardinality(KeptIn) /\ Cardinality(EverIn) <= Cardinality(EverIn')
    BY <2>2, <2>3, FS_Subset
  <2>6. /\ Cardinality(KeptIn') \in Nat /\ Cardinality(KeptIn) \in Nat
        /\ Cardinality(EverIn) \in Nat /\ Cardinality(EverIn') \in Nat
    BY <2>3, <2>4, FS_CardinalityType
  <2> QED
    BY <2>1, <2>5, <2>6 DEF AtLeastOne
<1> QED
  BY <1>1, <1>3, <1>4, <1>5, <1>6, <1>7 DEF OutcomeInv

LEMMA AuthenticateKeeps ==
    ASSUME NEW tenant \in Tenants \cup {Everywhere}, NEW password \in Passwords,
           Authenticate(tenant, password)
    PROVE  ReadInv' /\ RecordInv' /\ CompareInv' /\ OutcomeInv'
<1>1. /\ login'.at = "accounts" /\ login'.read = {} /\ login'.records = {}
      /\ login'.todo = {} /\ login'.matches = {} /\ login'.compares = 0
  BY DEF Authenticate
<1>2. ReadInv' /\ RecordInv' /\ CompareInv'
  BY <1>1, FS_EmptySet DEF ReadInv, RecordInv, CompareInv
<1>3. ~Done'
  BY <1>1 DEF Done
<1> QED
  BY <1>2, <1>3 DEF OutcomeInv, IdentityWasValid, ValidIsNotRefused, ComparesEveryAccount

LEMMA ReadAccountsKeeps ==
    ASSUME IInv, ReadAccounts
    PROVE  ReadInv' /\ RecordInv' /\ CompareInv' /\ OutcomeInv'
<1>0. TypeOK /\ SeenNow /\ login # NoCall
  BY DEF IInv, ReadAccounts
<1>1. /\ login \in Logins /\ login.at = "accounts"
      /\ login'.read = AccountsNow
      /\ login'.at = IF AccountsNow = {} THEN "compare" ELSE "users"
      /\ login'.tenant = login.tenant
      /\ login'.records = login.records /\ login'.todo = login.todo
      /\ login'.matches = login.matches /\ login'.compares = login.compares
      /\ UNCHANGED seen
  BY <1>0, AfterReadAccounts DEF Logins
<1>2. login.records = {} /\ login.todo = {} /\ login.matches = {} /\ login.compares = 0
  BY <1>0, <1>1 DEF IInv, ReadInv
<1>3. ReadInv'
  BY <1>0, <1>1, <1>2, AccountsNowHeld, AccountsNowFinite DEF ReadInv, Asked
<1>4. RecordInv'
  BY <1>1, <1>2, FS_EmptySet DEF RecordInv
<1>5. CompareInv'
  <2> SUFFICES ASSUME login'.at = "compare"
               PROVE  CompareInv'
    BY DEF CompareInv
  <2>1. AccountsNow = {}
    BY <1>1
  <2>2. \A s \in seen.kept : ~Asked(s[1])
    BY <1>0, <2>1, AccountsNowHeld
  <2>3. /\ \A s \in seen'.kept : ~Asked(s[1])'
        /\ \A s \in seen'.steady : ~Asked(s[1])'
    BY <1>0, <1>1, <2>2 DEF Asked, SeenNow
  <2>4. Complete({})'
    BY <2>3 DEF Complete
  <2> QED
    BY <1>1, <1>2, <2>4, FS_EmptySet DEF CompareInv
<1>6. ~Done'
  BY <1>1 DEF Done
<1> QED
  BY <1>3, <1>4, <1>5, <1>6 DEF OutcomeInv, IdentityWasValid, ValidIsNotRefused, ComparesEveryAccount

LEMMA ReadUsersKeeps ==
    ASSUME IInv, ReadUsers
    PROVE  ReadInv' /\ RecordInv' /\ CompareInv' /\ OutcomeInv'
<1>0. TypeOK /\ SeenNow /\ ReadInv /\ login # NoCall
  BY DEF IInv, ReadUsers
<1>1. /\ login \in Logins /\ login.at = "users"
      /\ login'.at = "compare" /\ login'.records = RecordsNow /\ login'.todo = RecordsNow
      /\ login'.tenant = login.tenant /\ login'.password = login.password
      /\ login'.read = login.read
      /\ login'.matches = login.matches /\ login'.compares = login.compares
      /\ UNCHANGED seen
  BY <1>0, AfterReadUsers DEF Logins
<1>2. login.matches = {} /\ login.compares = 0 /\ IsFiniteSet(login.read)
  BY <1>0, <1>1 DEF ReadInv
<1>3. IsFiniteSet(RecordsNow) /\ Cardinality(RecordsNow) \in Nat
  BY <1>2, RecordsNowFinite, FS_CardinalityType
<1>4. ReadInv'
  BY <1>0, <1>1 DEF ReadInv, Asked
<1>5. RecordInv'
  <2>1. ASSUME NEW r, Witnessed(r)
        PROVE  Witnessed(r)'
    BY <1>1, <2>1 DEF Witnessed, Asked, Reached
  <2> QED
    BY <1>0, <1>1, <1>3, <2>1, RecordsNowWitnessed DEF RecordInv
<1>6. CompareInv'
  <2>1. Complete(RecordsNow)
    BY <1>0, <1>1, RecordsNowComplete
  <2>2. Complete(login.records)'
    BY <1>1, <2>1 DEF Complete, Asked, Reached
  <2> QED
    BY <1>1, <1>2, <1>3, <2>2 DEF CompareInv
<1>7. ~Done'
  BY <1>1 DEF Done
<1> QED
  BY <1>4, <1>5, <1>6, <1>7 DEF OutcomeInv, IdentityWasValid, ValidIsNotRefused, ComparesEveryAccount

LEMMA CompareDecoyKeeps ==
    ASSUME IInv, CompareDecoy
    PROVE  ReadInv' /\ RecordInv' /\ CompareInv' /\ OutcomeInv'
<1>0. login \in Logins /\ login # NoCall /\ login.at = "compare" /\ login.records = {}
  BY DEF IInv, TypeOK, CompareDecoy
<1>1. /\ login'.at = "done" /\ login'.records = {} /\ login'.outcome = Refused
      /\ login'.tenant = login.tenant /\ login'.read = login.read
      /\ login'.compares = login.compares + 1
      /\ UNCHANGED seen
  BY <1>0 DEF CompareDecoy, Logins, rows
<1>2. ReadInv' /\ RecordInv' /\ CompareInv'
  BY <1>0, <1>1, FS_EmptySet DEF IInv, ReadInv, RecordInv, CompareInv, Asked
<1>3. IdentityWasValid'
  BY <1>1 DEF IdentityWasValid, Refused
<1>4. ValidIsNotRefused'
  BY <1>0, <1>1 DEF IInv, CompareInv, Complete, ValidIsNotRefused, Asked, Reached
<1>5. login.compares = 0
  BY <1>0, FS_EmptySet DEF IInv, CompareInv, Logins
<1>6. ComparesEveryAccount'
  <2>1. Complete({})
    BY <1>0 DEF IInv, CompareInv
  <2>2. KeptIn = {} /\ KeptIn' = KeptIn /\ EverIn' = EverIn
    BY <1>1, <2>1 DEF KeptIn, EverIn, Complete, Asked, Reached
  <2>3. Cardinality(EverIn) \in Nat
    BY TenantsAssumption, FS_Subset, FS_CardinalityType DEF EverIn
  <2>4. 1 \in AtLeastOne(Cardinality(KeptIn)) .. AtLeastOne(Cardinality(EverIn))
    BY <2>2, <2>3, FS_EmptySet DEF AtLeastOne
  <2> QED
    BY <1>1, <1>5, <2>2, <2>4 DEF ComparesEveryAccount
<1> QED
  BY <1>2, <1>3, <1>4, <1>6 DEF OutcomeInv

\* A compare that is not the last leaves the loop as it was, with one record less to go.
LEMMA CompareKeeps ==
    ASSUME IInv, NEW record \in login.todo, login # NoCall, Compare(record)
    PROVE  ReadInv' /\ RecordInv' /\ CompareInv' /\ OutcomeInv'
<1> DEFINE left == LeftAfter(record)
           matches == MatchesAfter(record)
<1>0. /\ login \in Logins /\ login.at = "compare" /\ record \in Records
      /\ login' = [login EXCEPT !.compares = @ + 1, !.todo = left, !.matches = matches,
                       !.at = IF left = {} THEN "done" ELSE "compare",
                       !.outcome = IF left = {} THEN Decide(matches) ELSE @]
      /\ UNCHANGED seen
  BY AfterCompare DEF IInv
<1> HIDE DEF left, matches
<1>1. /\ login'.at = (IF left = {} THEN "done" ELSE "compare")
      /\ login'.outcome = (IF left = {} THEN Decide(matches) ELSE login.outcome)
      /\ login'.compares = login.compares + 1
      /\ login'.todo = left /\ login'.matches = matches
      /\ login'.tenant = login.tenant /\ login'.password = login.password
      /\ login'.read = login.read /\ login'.records = login.records
      /\ UNCHANGED seen
  BY <1>0 DEF Logins
<1>2. /\ IsFiniteSet(login.records) /\ login.todo \subseteq login.records
      /\ \A r \in login.records : Witnessed(r)
      /\ \A r, q \in login.records : r.tenantId = q.tenantId => r = q
      /\ login.compares + Cardinality(login.todo) = Cardinality(login.records)
  BY <1>0 DEF IInv, RecordInv, CompareInv
<1>3. /\ Cardinality(left) = Cardinality(login.todo) - 1
      /\ Cardinality(login.todo) \in Nat /\ Cardinality(login.records) \in Nat
      /\ login.compares \in Nat
  <2>1. IsFiniteSet(login.todo)
    BY <1>2, FS_Subset
  <2> QED
    BY <1>0, <1>2, <2>1, FS_RemoveElement, FS_CardinalityType DEF left, LeftAfter, Logins
<1>4. /\ left \subseteq login.records /\ matches \subseteq login.records
      /\ \A m \in matches : Matches(m)
      /\ \A r \in login.records \ left : Matches(r) => r \in matches
      /\ login.compares + 1 + Cardinality(left) = Cardinality(login.records)
      /\ Complete(login.records)
  <2>1. CompareInv /\ login # NoCall /\ login.at = "compare"
    BY <1>0 DEF IInv
  <2>2. /\ login.matches \subseteq login.records
        /\ \A m \in login.matches : Matches(m)
        /\ \A r \in login.records \ login.todo : Matches(r) => r \in login.matches
        /\ Complete(login.records)
    BY <2>1 DEF CompareInv
  <2>3. left \subseteq login.records /\ matches \subseteq login.records
    BY <1>2, <2>2 DEF left, matches, LeftAfter, MatchesAfter
  <2>4. \A m \in matches : Matches(m)
    BY <2>2 DEF matches, MatchesAfter
  <2>5. \A r \in login.records \ left : Matches(r) => r \in matches
    BY <2>2 DEF left, matches, LeftAfter, MatchesAfter
  <2> QED
    BY <1>2, <1>3, <2>2, <2>3, <2>4, <2>5
<1>5. ReadInv'
  <2>1. ReadInv /\ login'.at \notin {"accounts", "users"}
    BY <1>1 DEF IInv
  <2> QED
    BY <1>0, <1>1, <2>1 DEF ReadInv, Asked
<1>6. RecordInv'
  <2>1. ASSUME NEW r, Witnessed(r)
        PROVE  Witnessed(r)'
    BY <1>1, <2>1 DEF Witnessed, Asked, Reached
  <2> QED
    BY <1>1, <1>2, <2>1 DEF RecordInv
<1>7. CompareInv'
  BY <1>1, <1>4 DEF CompareInv, Complete, Matches, Asked, Reached
<1>8. CASE left # {}
  <2>1. ~Done'
    BY <1>1, <1>8 DEF Done
  <2> QED
    BY <1>5, <1>6, <1>7, <2>1 DEF OutcomeInv, IdentityWasValid, ValidIsNotRefused, ComparesEveryAccount
<1>9. CASE left = {}
  <2>1. login'.outcome = Decide(matches)
    BY <1>1, <1>9
  <2>2. \A r \in login.records : Matches(r) => r \in matches
    BY <1>4, <1>9
  <2>3. ASSUME NEW m \in matches
        PROVE  /\ m \in Records /\ <<m.tenantId, m.userId, login.password>> \in seen.accounts
               /\ m.userId \in seen.live /\ Reached(m.userId) /\ (~m.mfaEnabled => m.userId \in seen.unarmed)
               /\ \E role \in Roles \cup {NoRole} :
                     <<m.userId, role>> \in seen.roles /\ m.roles = {role} \ {NoRole}
    BY <1>0, <1>2, <1>4 DEF Logins, Witnessed, Matches
  <2>4. IdentityWasValid'
    <3> SUFFICES ASSUME NEW t \in Decide(matches).tenants
                 PROVE  \E u \in Users :
                   /\ <<t, u, login.password>> \in seen.accounts /\ u \in seen.live /\ Reached(u)
                   /\ Decide(matches).kind \in {"authenticated", "mfa_required"}
                        => u = Decide(matches).userId
                   /\ Decide(matches).kind = "authenticated" =>
                        /\ u \in seen.unarmed
                        /\ \E role \in Roles \cup {NoRole} :
                             <<u, role>> \in seen.roles /\ Decide(matches).roles = {role} \ {NoRole}
      BY <1>1, <2>1 DEF IdentityWasValid, Reached
    <3>1. matches # {}
      BY DEF Decide, Refused
    <3>2. CASE \E m \in matches : matches = {m}
      <4>1. PICK m \in matches : matches = {m}
        BY <3>2
      <4>2. Decide(matches) = OutcomeFor(m)
        BY <3>1, <4>1 DEF Decide
      <4>3. /\ OutcomeFor(m).tenants = {m.tenantId} /\ OutcomeFor(m).userId = m.userId
            /\ OutcomeFor(m).roles = m.roles
            /\ OutcomeFor(m).kind = IF m.mfaEnabled THEN "mfa_required" ELSE "authenticated"
        BY DEF OutcomeFor
      <4>4. t = m.tenantId /\ m.userId \in Users
        BY <2>3, <4>2, <4>3 DEF Records
      <4> QED
        BY <2>3, <4>2, <4>3, <4>4
    <3>3. CASE ~\E m \in matches : matches = {m}
      <4>1. /\ Decide(matches).kind = "tenant_choice"
            /\ Decide(matches).tenants = {m.tenantId : m \in matches}
        BY <3>1, <3>3 DEF Decide, Refused
      <4>2. PICK m \in matches : t = m.tenantId
        BY <4>1
      <4>3. m.userId \in Users
        BY <2>3 DEF Records
      <4> QED
        BY <2>3, <4>1, <4>2, <4>3
    <3> QED
      BY <3>2, <3>3
  <2>5. ValidIsNotRefused'
    <3> SUFFICES ASSUME NEW s \in seen.steady, s[3] = login.password, Asked(s[1]), Reached(s[2])
                 PROVE  s[1] \in Decide(matches).tenants
      BY <1>1, <2>1 DEF ValidIsNotRefused, Asked, Reached
    <3>1. PICK r \in matches : r.tenantId = s[1]
      BY <1>4, <2>2 DEF Matches, Complete
    <3>2. CASE \E m \in matches : matches = {m}
      BY <3>1, <3>2 DEF Decide, OutcomeFor
    <3>3. CASE ~\E m \in matches : matches = {m}
      BY <3>1, <3>3 DEF Decide, Refused
    <3> QED
      BY <3>2, <3>3
  <2>6. ComparesEveryAccount'
    <3>1. login'.compares = Cardinality(login.records) /\ login.records # {}
      BY <1>1, <1>2, <1>3, <1>4, <1>9, FS_EmptySet
    <3>2. ASSUME login.tenant # Everywhere
          PROVE  Cardinality(login.records) = 1
      <4>1. \A r \in login.records : r.tenantId = login.tenant
        BY <1>2, <3>2 DEF Witnessed, Asked
      <4>2. login.records = {record}
        BY <1>2, <4>1
      <4> QED
        BY <4>2, FS_Singleton
    <3>3. /\ Cardinality(KeptIn) \in Nat /\ Cardinality(EverIn) \in Nat
          /\ Cardinality(KeptIn) <= Cardinality(login.records)
          /\ Cardinality(login.records) <= Cardinality(EverIn)
      BY <1>0, <1>2, <1>4, RecordsCounted DEF Logins
    <3>4. Cardinality(login.records) \in Nat \ {0}
      BY <1>2, <1>3, <3>1, FS_EmptySet
    <3>5. Cardinality(login.records)
            \in AtLeastOne(Cardinality(KeptIn)) .. AtLeastOne(Cardinality(EverIn))
      BY <3>3, <3>4 DEF AtLeastOne
    <3>6. KeptIn' = KeptIn /\ EverIn' = EverIn
      BY <1>1 DEF KeptIn, EverIn, Asked, Reached
    <3> QED
      BY <1>1, <3>1, <3>2, <3>5, <3>6 DEF ComparesEveryAccount
  <2> QED
    BY <1>5, <1>6, <1>7, <2>4, <2>5, <2>6 DEF OutcomeInv
<1> QED
  BY <1>8, <1>9

LEMMA LoginFailsKeeps ==
    ASSUME IInv, LoginFails
    PROVE  ReadInv' /\ RecordInv' /\ CompareInv' /\ OutcomeInv'
<1>1. login \in Logins /\ login # NoCall
  BY DEF IInv, TypeOK, LoginFails
<1>2. /\ login'.at = "done" /\ login'.outcome = Thrown
      /\ login'.tenant = login.tenant /\ login'.password = login.password
      /\ login'.read = login.read /\ login'.records = login.records
      /\ UNCHANGED seen
  BY <1>1 DEF LoginFails, Logins, rows
<1>3. ReadInv' /\ CompareInv'
  BY <1>1, <1>2 DEF IInv, ReadInv, CompareInv, Asked
<1>4. RecordInv'
  BY <1>1, <1>2 DEF IInv, RecordInv, Witnessed, Asked, Reached
<1>5. Thrown.tenants = {} /\ Thrown.kind = "throws"
  BY DEF Thrown, Refused
<1> QED
  BY <1>2, <1>3, <1>4, <1>5 DEF OutcomeInv, IdentityWasValid, ValidIsNotRefused, ComparesEveryAccount

LEMMA LoginStep ==
    ASSUME IInv, [Next]_vars
    PROVE  ReadInv' /\ RecordInv' /\ CompareInv' /\ OutcomeInv'
<1>1. CASE UNCHANGED <<login, seen>>
  BY <1>1, EditsKeepLogin DEF SeenGrows
<1>2. CASE login' = NoCall
  BY <1>2 DEF ReadInv, RecordInv, CompareInv, OutcomeInv, Done,
     IdentityWasValid, ValidIsNotRefused, ComparesEveryAccount
<1>3. CASE LoginSteps
  <2>1. CASE LoginReturns
    BY <1>2, <2>1 DEF LoginReturns
  <2> QED
    BY <1>3, <2>1, AuthenticateKeeps, ReadAccountsKeeps, ReadUsersKeeps, CompareDecoyKeeps,
       CompareKeeps, LoginFailsKeeps DEF LoginSteps
<1>4. CASE LoadSteps
  <2>1. login' = NoCall \/ UNCHANGED <<login, seen>>
    BY <1>4 DEF LoadSteps, LoadGrantsForUser, LoadRole, ReadRole, ReadRights, LoadEnds, rows
  <2> QED
    BY <1>1, <1>2, <2>1
<1>5. CASE Edits
  BY <1>5, EditsAreSeen, EditsKeepLogin DEF IInv
<1>6. CASE UNCHANGED vars
  BY <1>1, <1>6 DEF vars
<1> QED
  BY <1>3, <1>4, <1>5, <1>6 DEF Next

----------------------------------------------------------------------------
(* Steps: the rights of a TransLog user                                     *)

\* The rows of a role are worth, scope by scope, what GrantsOfHeldRole says.
LEMMA GrantsOfRows ==
    ASSUME NEW rs \in SUBSET Rows
    PROVE  PermissionsToGrants(rs) =
             {[permission |-> p[1].permission, scope |-> p[2][2]]
                : p \in {q \in rs \X Worth : q[1].token = q[2][1]}}
<1> DEFINE Grant(row, w) == [permission |-> row.permission, scope |-> w[2]]
           pairs == {q \in rs \X Worth : q[1].token = q[2][1]}
<1>1. ASSUME NEW g
      PROVE  g \in PermissionsToGrants(rs)
               <=> \E row \in rs, w \in Worth : row.token = w[1] /\ g = Grant(row, w)
  <2>1. g \in PermissionsToGrants(rs) <=> \E row \in rs : g \in PermissionToGrant(row)
    BY DEF PermissionsToGrants
  <2>2. ASSUME NEW row
        PROVE  g \in PermissionToGrant(row) <=> \E w \in Worth : row.token = w[1] /\ g = Grant(row, w)
    <3>1. DOMAIN ScopeTokenMap = {"own", "agency", "tenant", "global"}
      BY DEF ScopeTokenMap
    <3>2. /\ ScopeTokenMap["own"] = "own" /\ ScopeTokenMap["agency"] = "unit"
          /\ ScopeTokenMap["tenant"] = "tenant" /\ ScopeTokenMap["global"] = "global"
      BY DEF ScopeTokenMap
    <3>3. \A t \in DOMAIN ScopeTokenMap : <<t, ScopeTokenMap[t]>> \in Worth
      BY <3>1, <3>2 DEF Worth
    <3>4. \A w \in Worth : w[1] \in DOMAIN ScopeTokenMap /\ ScopeTokenMap[w[1]] = w[2]
      BY <3>1, <3>2 DEF Worth
    <3>5. g \in PermissionToGrant(row) <=>
            row.token \in DOMAIN ScopeTokenMap
              /\ g = [permission |-> row.permission, scope |-> ScopeTokenMap[row.token]]
      BY DEF PermissionToGrant
    <3> QED
      BY <3>3, <3>4, <3>5
  <2> QED
    BY <2>1, <2>2
<1>2. ASSUME NEW g
      PROVE  g \in {[permission |-> p[1].permission, scope |-> p[2][2]] : p \in pairs}
               <=> \E row \in rs, w \in Worth : row.token = w[1] /\ g = Grant(row, w)
  <2>1. ASSUME NEW p \in pairs, g = [permission |-> p[1].permission, scope |-> p[2][2]]
        PROVE  \E row \in rs, w \in Worth : row.token = w[1] /\ g = Grant(row, w)
    BY <2>1
  <2>2. ASSUME NEW row \in rs, NEW w \in Worth, row.token = w[1], g = Grant(row, w)
        PROVE  \E p \in pairs : g = [permission |-> p[1].permission, scope |-> p[2][2]]
    <3>1. <<row, w>> \in pairs
      BY <2>2
    <3> QED
      BY <2>2, <3>1
  <2> QED
    BY <2>1, <2>2
<1> QED
  BY <1>1, <1>2

LEMMA ReadRoleKeeps ==
    ASSUME IInv, ReadRole
    PROVE  LoadInv' /\ GrantsOfHeldRole'
<1>1. load \in Loads /\ load.at = "user" /\ load.user \in Users /\ load.grants = {}
  BY DEF IInv, TypeOK, LoadInv, ReadRole
<1> DEFINE role == IF load.tenant = TenantOf[load.user] THEN RoleOf(users, load.user) ELSE NoRole
<1>2. <<load.user, RoleOf(users, load.user)>> \in seen.roles
  BY <1>1 DEF IInv, SeenNow
<1>3. RoleOf(users, load.user) \in Roles \cup {NoRole}
  BY <1>1 DEF IInv, TypeOK, RoleOf, UserRows
<1>4. /\ load'.role = role /\ load'.at = (IF role = NoRole THEN "done" ELSE "rows")
      /\ load'.user = load.user /\ load'.tenant = load.tenant /\ load'.grants = {}
      /\ UNCHANGED seen
  BY <1>1 DEF ReadRole, Loads, rows
<1>5. load.user # NoUser
  BY <1>1, NothingAssumption
<1>6. CASE role = NoRole
  BY <1>1, <1>2, <1>4, <1>5, <1>6 DEF LoadInv, GrantsOfHeldRole
<1>7. CASE role # NoRole
  <2>1. role = RoleOf(users, load.user) /\ role \in Roles
    BY <1>3, <1>7
  <2> HIDE DEF role
  <2>2. load'.at = "rows" /\ load'.role \in Roles /\ <<load'.user, load'.role>> \in seen'.roles
    BY <1>2, <1>4, <1>7, <2>1
  <2> QED
    BY <2>2 DEF LoadInv, GrantsOfHeldRole
<1> QED
  BY <1>6, <1>7

LEMMA ReadRightsKeeps ==
    ASSUME IInv, ReadRights
    PROVE  LoadInv' /\ GrantsOfHeldRole'
<1>1. /\ load \in Loads /\ load.role \in Roles
      /\ load.user # NoUser => <<load.user, load.role>> \in seen.roles
  BY DEF IInv, TypeOK, LoadInv, ReadRights
<1> DEFINE rs == rights[load.role]
<1>2. <<load.role, rs>> \in seen.rows /\ rs \in SUBSET Rows
  BY <1>1 DEF IInv, SeenNow, TypeOK
<1>3. /\ load'.grants = PermissionsToGrants(rs) /\ load'.at = "done" /\ load'.user = load.user
      /\ UNCHANGED seen
  BY <1>1 DEF ReadRights, Loads, rows
<1> HIDE DEF rs
<1>4. \E r \in seen'.rows :
        /\ load'.user # NoUser => <<load'.user, r[1]>> \in seen'.roles
        /\ load'.grants = {[permission |-> p[1].permission, scope |-> p[2][2]]
                             : p \in {q \in r[2] \X Worth : q[1].token = q[2][1]}}
  <2>1. <<load.role, rs>>[1] = load.role /\ <<load.role, rs>>[2] = rs
    OBVIOUS
  <2> QED
    BY <1>1, <1>2, <1>3, <2>1, GrantsOfRows
<1> QED
  BY <1>3, <1>4 DEF LoadInv, GrantsOfHeldRole

LEMMA LoadStep ==
    ASSUME IInv, [Next]_vars
    PROVE  LoadInv' /\ GrantsOfHeldRole'
<1>1. CASE SeenGrows /\ load' = load
  <2>1. LoadInv /\ GrantsOfHeldRole
    BY DEF IInv
  <2>2. LoadInv'
    BY <1>1, <2>1 DEF LoadInv, SeenGrows
  <2>3. GrantsOfHeldRole'
    BY <1>1, <2>1 DEF GrantsOfHeldRole, SeenGrows
  <2> QED
    BY <2>2, <2>3
<1>2. CASE load' = NoCall
  BY <1>2 DEF LoadInv, GrantsOfHeldRole
<1>3. CASE LoginSteps
  <2>1. load' = NoCall \/ UNCHANGED <<load, seen>>
    BY <1>3 DEF LoginSteps, Authenticate, ReadAccounts, ReadUsers, CompareDecoy, Compare,
       LoginFails, LoginReturns, rows
  <2> QED
    BY <1>1, <1>2, <2>1 DEF SeenGrows
<1>4. CASE LoadSteps
  <2>1. ASSUME NEW user \in Users, NEW tenant \in Tenants, LoadGrantsForUser(user, tenant)
        PROVE  LoadInv' /\ GrantsOfHeldRole'
    BY <2>1 DEF LoadGrantsForUser, LoadInv, GrantsOfHeldRole
  <2>2. ASSUME NEW role \in Roles, LoadRole(role)
        PROVE  LoadInv' /\ GrantsOfHeldRole'
    BY <2>2 DEF LoadRole, LoadInv, GrantsOfHeldRole
  <2>3. CASE LoadEnds
    BY <1>2, <2>3 DEF LoadEnds
  <2> QED
    BY <1>4, <2>1, <2>2, <2>3, ReadRoleKeeps, ReadRightsKeeps DEF LoadSteps
<1>5. CASE Edits
  BY <1>1, <1>5, EditsAreSeen DEF IInv
<1>6. CASE UNCHANGED vars
  BY <1>1, <1>6 DEF vars, SeenGrows
<1> QED
  BY <1>3, <1>4, <1>5, <1>6 DEF Next

----------------------------------------------------------------------------
(* The theorems                                                             *)

LEMMA InitEstablishes == Init => IInv
<1> SUFFICES ASSUME Init
             PROVE  IInv
  OBVIOUS
<1>1. TypeOK
  BY MaxEditsAssumption DEF Init, TypeOK
<1>2. SeenNow
  BY LiveExist DEF Init, SeenNow, At
<1>3. login = NoCall /\ load = NoCall
  BY DEF Init
<1> QED
  BY <1>1, <1>2, <1>3 DEF IInv, ReadInv, RecordInv, CompareInv, OutcomeInv, Done,
     IdentityWasValid, ValidIsNotRefused, ComparesEveryAccount, LoadInv, GrantsOfHeldRole

\* The invariant behind the theorems below.
THEOREM Invariance == Spec => []IInv
<1>1. IInv /\ [Next]_vars => IInv'
  BY TypeStep, SeenNowStep, LoginStep, LoadStep DEF IInv
<1> QED
  BY <1>1, InitEstablishes, PTL DEF Spec

\* Every variable keeps its type.
THEOREM TypeCorrect == Spec => []TypeOK
  BY Invariance, PTL DEF IInv

\* However the rows are edited between the two reads and the compares, a sign-in lets in,
\* asks for a code or offers a tenant to nobody who was not, at some moment of it, active
\* with that password; in one tenant, to nobody of another.
THEOREM SignInWitnessed == Spec => []IdentityWasValid
  BY Invariance, PTL DEF IInv, OutcomeInv

\* Whoever could sign in all the while is not refused.
THEOREM SignInFinds == Spec => []ValidIsNotRefused
  BY Invariance, PTL DEF IInv, OutcomeInv

\* As many hashes are compared as there are accounts to find, and one where there is none,
\* whatever the password given and whatever matches.
THEOREM SignInCompares == Spec => []ComparesEveryAccount
  BY Invariance, PTL DEF IInv, OutcomeInv

\* The grants loaded for a TransLog user are those of a role the user had.
THEOREM GrantsWitnessed == Spec => []GrantsOfHeldRole
  BY Invariance, PTL DEF IInv
==============================================================================
