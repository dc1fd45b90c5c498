----------------------------- MODULE MfaChallenge -----------------------------
(***************************************************************************)
(* TotpMfaService over PrismaMfaSecretStore and PrismaMfaChallengeStore:   *)
(* enroll stores a sealed TOTP secret, challenge issues a one-shot id, and *)
(* verify consumes the id and compares a code with the stored secret.      *)
(*                                                                         *)
(* No two statements of these methods share a transaction: save is a       *)
(* deleteMany and a create, consume a findUnique and a delete.  pc[c]      *)
(* names the await call c is suspended at; between two of them the other   *)
(* calls run and the clock moves, one TOTP step at a time.                 *)
(***************************************************************************)
EXTENDS KeyManagement, Naturals

CONSTANTS
    Calls,       \* slots for calls in flight
    Accounts,    \* the users: records with a tenant and a user
    Secrets,     \* values generateSecret can produce
    Challenges,  \* values randomBytes can produce
    Ttl,         \* challengeTtlMs, in TOTP steps
    MaxTime,     \* bound on the clock
    NoAccount, NoSecret, NoChallenge, NoRow, NoCode

ASSUME MfaConstants ==
    /\ Ttl \in Nat
    /\ MaxTime \in Nat
    /\ \A a \in Accounts : a = [tenant |-> a.tenant, user |-> a.user]
    /\ NoAccount \notin Accounts
    /\ NoSecret \notin Secrets
    /\ NoChallenge \notin Challenges

VARIABLES
    secrets,     \* the table of sealed secrets: a set of rows
    challenges,  \* the challenge table: primary key id
    clock,
    pc,          \* where each call is suspended
    account,     \* the (tenantId, userId) a call works for
    secret,      \* the TOTP secret a call has in hand
    target,      \* the challenge a call issues or verifies
    code,        \* the code argument of verify
    held,        \* the challenge row a call has read, or will insert
    verdict,     \* what verify resolved to
    \* History, read by no guard of the code's own steps:
    drawnFor,    \* drawnFor[s]: the account secret s was generated for
    issued,      \* issued[i]: the row of challenge i as it was inserted
    attempts,    \* attempts[i]: the codes compared on the strength of challenge i
    shown,       \* the secrets handed to a user whom no other enrolment touched since
    crossed,     \* has another enrolment of the account written since the call began?
    replaced,    \* the secrets a later enrolment of their account deleted
    stale,       \* was the code's secret replaced before the call began?
    steady       \* was the code right when the call began, and has nothing changed since?

history == <<drawnFor, issued, attempts, shown, crossed, replaced, stale, steady>>
locals  == <<account, secret, target, code, held, verdict>>
vars    == <<secrets, challenges, clock, pc, account, secret, target, code, held,
             verdict, drawnFor, issued, attempts, shown, crossed, replaced, stale,
             steady>>

ChallengeRows == [account : Accounts, expiresAt : 0 .. MaxTime + Ttl]
Codes         == [secret : Secrets, step : 0 .. MaxTime]

ASSUME NoRowNorCode == NoRow \notin ChallengeRows /\ NoCode \notin Codes

Awaits == {"enroll.delete", "enroll.create", "enroll.resume", "challenge.create",
           "verify.find", "verify.delete", "verify.resume", "verify.secret",
           "verify.compare"}
PCs    == Awaits \cup {"idle", "answered"}

----------------------------------------------------------------------------
(* The tables                                                              *)

Context == "kengela:mfa"

SecretRow(a, s) ==
    [tenant |-> a.tenant, user |-> a.user, secret |-> Seal(Context, a.tenant, s)]

\* A bug: the user is left out of the condition.
RowsOfTenant(a) == {r \in secrets : r.tenant = a.tenant}

\* where: {tenantId, userId}.
RowsOf(a) == {r \in secrets : r.tenant = a.tenant /\ r.user = a.user}

Opened(a, r) == Unseal(Context, a.tenant, r.secret, NoSecret)

Init ==
    /\ secrets = {}
    /\ challenges = [i \in Challenges |-> NoRow]
    /\ clock = 0
    /\ pc = [c \in Calls |-> "idle"]
    /\ account = [c \in Calls |-> NoAccount]
    /\ secret = [c \in Calls |-> NoSecret]
    /\ target = [c \in Calls |-> NoChallenge]
    /\ code = [c \in Calls |-> NoCode]
    /\ held = [c \in Calls |-> NoRow]
    /\ verdict = [c \in Calls |-> FALSE]
    /\ drawnFor = [s \in Secrets |-> NoAccount]
    /\ issued = [i \in Challenges |-> NoRow]
    /\ attempts = [i \in Challenges |-> 0]
    /\ shown = {}
    /\ crossed = [c \in Calls |-> FALSE]
    /\ replaced = {}
    /\ stale = [c \in Calls |-> FALSE]
    /\ steady = [c \in Calls |-> FALSE]

Goto(c, at) == pc' = [pc EXCEPT ![c] = at]

\* The call settles: nothing of it is left.
Settle(c) ==
    /\ Goto(c, "idle")
    /\ account' = [account EXCEPT ![c] = NoAccount]
    /\ secret' = [secret EXCEPT ![c] = NoSecret]
    /\ target' = [target EXCEPT ![c] = NoChallenge]
    /\ code' = [code EXCEPT ![c] = NoCode]
    /\ held' = [held EXCEPT ![c] = NoRow]
    /\ verdict' = [verdict EXCEPT ![c] = FALSE]
    /\ stale' = [stale EXCEPT ![c] = FALSE]
    /\ steady' = [steady EXCEPT ![c] = FALSE]

\* verify resolves.
Answer(c, accepted) ==
    /\ Goto(c, "answered")
    /\ verdict' = [verdict EXCEPT ![c] = accepted]

----------------------------------------------------------------------------
(* enroll                                                                  *)

\* A secret is generated and sealed; save sends its deleteMany.
Enroll(c) ==
    /\ pc[c] = "idle"
    /\ Goto(c, "enroll.delete")
    /\ \E a \in Accounts, s \in {x \in Secrets : drawnFor[x] = NoAccount} :
          /\ account' = [account EXCEPT ![c] = a]
          /\ secret' = [secret EXCEPT ![c] = s]
          /\ drawnFor' = [drawnFor EXCEPT ![s] = a]
    /\ crossed' = [crossed EXCEPT ![c] = FALSE]
    /\ UNCHANGED <<secrets, challenges, clock, target, code, held, verdict, issued,
                   attempts, shown, replaced, stale, steady>>

\* A write of call c to the secrets of its account: other enrolments of the account
\* can no longer tell what is stored.
Crosses(c) ==
    /\ shown' = {s \in shown : drawnFor[s] # account[c]}
    /\ crossed' = [d \in Calls |-> crossed[d] \/ (d # c /\ account[d] = account[c])]
    /\ steady' = [d \in Calls |-> steady[d] /\ drawnFor[code[d].secret] # account[c]]

\* A bug: save is a plain insert.
EnrollDeleteNothing(c) ==
    /\ pc[c] = "enroll.delete"
    /\ replaced' = replaced \cup {Opened(account[c], r) : r \in RowsOf(account[c])}
    /\ Crosses(c)
    /\ Goto(c, "enroll.create")
    /\ UNCHANGED <<secrets, challenges, clock, locals, drawnFor, issued, attempts, stale>>

\* save, first statement: the secrets of the account are deleted.
EnrollDelete(c) ==
    /\ pc[c] = "enroll.delete"
    /\ secrets' = secrets \ RowsOf(account[c])
    /\ replaced' = replaced \cup {Opened(account[c], r) : r \in RowsOf(account[c])}
    /\ Crosses(c)
    /\ Goto(c, "enroll.create")
    /\ UNCHANGED <<challenges, clock, locals, drawnFor, issued, attempts, stale>>

\* save, second statement.
EnrollCreate(c) ==
    /\ pc[c] = "enroll.create"
    /\ secrets' = secrets \cup {SecretRow(account[c], secret[c])}
    /\ Crosses(c)
    /\ Goto(c, "enroll.resume")
    /\ UNCHANGED <<challenges, clock, locals, drawnFor, issued, attempts, replaced, stale>>

\* enroll resolves: the user is shown the secret.
EnrollResume(c) ==
    /\ pc[c] = "enroll.resume"
    /\ shown' = IF crossed[c] THEN shown ELSE shown \cup {secret[c]}
    /\ Settle(c)
    /\ UNCHANGED <<secrets, challenges, clock, drawnFor, issued, attempts, crossed, replaced>>

----------------------------------------------------------------------------
(* challenge                                                               *)

\* A bug: the time to live is counted twice.
ChallengeTwiceTtl(c) ==
    /\ pc[c] = "idle"
    /\ Goto(c, "challenge.create")
    /\ \E a \in Accounts, i \in Challenges :
          /\ issued[i] = NoRow /\ \A d \in Calls : target[d] # i
          /\ target' = [target EXCEPT ![c] = i]
          /\ held' = [held EXCEPT ![c] = [account |-> a, expiresAt |-> clock + Ttl + Ttl]]
    /\ UNCHANGED <<secrets, challenges, clock, account, secret, code, verdict, history>>

\* issue: the id is drawn and the clock read before the row is sent.
Challenge(c) ==
    /\ pc[c] = "idle"
    /\ Goto(c, "challenge.create")
    /\ \E a \in Accounts, i \in Challenges :
          /\ issued[i] = NoRow /\ \A d \in Calls : target[d] # i
          /\ target' = [target EXCEPT ![c] = i]
          /\ held' = [held EXCEPT ![c] = [account |-> a, expiresAt |-> clock + Ttl]]
    /\ UNCHANGED <<secrets, challenges, clock, account, secret, code, verdict, history>>

ChallengeCreate(c) ==
    /\ pc[c] = "challenge.create"
    /\ challenges' = [challenges EXCEPT ![target[c]] = held[c]]
    /\ issued' = [issued EXCEPT ![target[c]] = held[c]]
    /\ Settle(c)
    /\ UNCHANGED <<secrets, clock, drawnFor, attempts, shown, crossed, replaced>>

----------------------------------------------------------------------------
(* verify                                                                  *)

\* The code is the one the owner of challenge i would read off now, having been shown
\* its secret; the challenge is there and in time, and no other call works on it.
Rightful(i, s, step) ==
    /\ challenges[i] # NoRow /\ issued[i].expiresAt > clock
    /\ \A d \in Calls : target[d] # i
    /\ s \in shown /\ drawnFor[s] = issued[i].account
    /\ step = clock

\* Call c takes up challenge i, which other calls may be at work on.
Steady(c, i, s, step) ==
    [d \in Calls |-> IF d = c THEN Rightful(i, s, step)
                              ELSE steady[d] /\ target[d] # i]

\* Any challenge that was issued, with any code read off an authenticator by now.
Verify(c) ==
    /\ pc[c] = "idle"
    /\ Goto(c, "verify.find")
    /\ \E i \in Challenges, s \in Secrets, step \in 0 .. clock :
          /\ issued[i] # NoRow /\ drawnFor[s] # NoAccount
          /\ target' = [target EXCEPT ![c] = i]
          /\ code' = [code EXCEPT ![c] = [secret |-> s, step |-> step]]
          /\ stale' = [stale EXCEPT ![c] = s \in replaced]
          /\ steady' = Steady(c, i, s, step)
    /\ UNCHANGED <<secrets, challenges, clock, account, secret, held, verdict, drawnFor,
                   issued, attempts, shown, crossed, replaced>>

\* consume: findUnique answers; without a row verify resolves to false.
VerifyFind(c) ==
    /\ pc[c] = "verify.find"
    /\ \/ /\ challenges[target[c]] = NoRow
          /\ Answer(c, FALSE)
          /\ UNCHANGED held
       \/ /\ challenges[target[c]] # NoRow
          /\ held' = [held EXCEPT ![c] = challenges[target[c]]]
          /\ Goto(c, "verify.delete")
          /\ UNCHANGED verdict
    /\ UNCHANGED <<secrets, challenges, clock, account, secret, target, code, history>>

\* A bug: deleteMany in place of delete, which does not mind a missing row.
VerifyDeleteForgiving(c) ==
    /\ pc[c] = "verify.delete"
    /\ challenges' = [challenges EXCEPT ![target[c]] = NoRow]
    /\ Goto(c, "verify.resume")
    /\ UNCHANGED <<secrets, clock, locals, history>>

\* consume: the row is deleted, whether or not it has expired.
VerifyDelete(c) ==
    /\ pc[c] = "verify.delete"
    /\ challenges[target[c]] # NoRow
    /\ challenges' = [challenges EXCEPT ![target[c]] = NoRow]
    /\ Goto(c, "verify.resume")
    /\ UNCHANGED <<secrets, clock, locals, history>>

\* delete throws when the row is gone: verify rejects.
VerifyConflict(c) ==
    /\ pc[c] = "verify.delete"
    /\ challenges[target[c]] = NoRow
    /\ Settle(c)
    /\ UNCHANGED <<secrets, challenges, clock, drawnFor, issued, attempts, shown, crossed,
                   replaced>>

\* The continuation of consume reads the clock: expired is false.
VerifyResume(c) ==
    /\ pc[c] = "verify.resume"
    /\ \/ /\ held[c].expiresAt <= clock
          /\ Answer(c, FALSE)
          /\ UNCHANGED account
       \/ /\ held[c].expiresAt > clock
          /\ account' = [account EXCEPT ![c] = held[c].account]
          /\ Goto(c, "verify.secret")
          /\ UNCHANGED verdict
    /\ UNCHANGED <<secrets, challenges, clock, secret, target, code, held, history>>

\* secretStore.get: findFirst answers any row of the account, which decrypt opens.
VerifySecret(c) ==
    /\ pc[c] = "verify.secret"
    /\ \/ /\ RowsOf(account[c]) = {}
          /\ Answer(c, FALSE)
          /\ UNCHANGED secret
       \/ /\ \E r \in RowsOf(account[c]) :
                secret' = [secret EXCEPT ![c] = Opened(account[c], r)]
          /\ Goto(c, "verify.compare")
          /\ UNCHANGED verdict
    /\ UNCHANGED <<secrets, challenges, clock, account, target, code, held, history>>

\* The code is compared with the one of the secret at this step of the clock.
VerifyCompare(c) ==
    /\ pc[c] = "verify.compare"
    /\ secret[c] # NoSecret
    /\ Answer(c, code[c] = [secret |-> secret[c], step |-> clock])
    /\ attempts' = [attempts EXCEPT ![target[c]] = @ + 1]
    /\ UNCHANGED <<secrets, challenges, clock, account, secret, target, code, held,
                   drawnFor, issued, shown, crossed, replaced, stale, steady>>

\* The caller has taken note of the answer.
Answered(c) ==
    /\ pc[c] = "answered"
    /\ Settle(c)
    /\ UNCHANGED <<secrets, challenges, clock, drawnFor, issued, attempts, shown, crossed,
                   replaced>>

----------------------------------------------------------------------------
(* The environment                                                         *)

\* The database or the key management rejects, or the process dies.
Fail(c) ==
    /\ pc[c] \in Awaits
    /\ Settle(c)
    /\ UNCHANGED <<secrets, challenges, clock, drawnFor, issued, attempts, shown, crossed,
                   replaced>>

Tick ==
    /\ clock < MaxTime
    /\ clock' = clock + 1
    /\ steady' = [c \in Calls |-> FALSE]
    /\ UNCHANGED <<secrets, challenges, pc, locals, drawnFor, issued, attempts, shown,
                   crossed, replaced, stale>>

Step(c) ==
    \/ Enroll(c) \/ EnrollDelete(c) \/ EnrollCreate(c) \/ EnrollResume(c)
    \/ Challenge(c) \/ ChallengeCreate(c)
    \/ Verify(c) \/ VerifyFind(c) \/ VerifyDelete(c) \/ VerifyConflict(c)
    \/ VerifyResume(c) \/ VerifySecret(c) \/ VerifyCompare(c) \/ Answered(c)
    \/ Fail(c)

Next == (\E c \in Calls : Step(c)) \/ Tick

Spec == Init /\ [][Next]_vars

----------------------------------------------------------------------------
(* Properties                                                              *)

SecretRows == {SecretRow(a, s) : a \in Accounts, s \in Secrets}

TypeOK ==
    /\ secrets \in SUBSET SecretRows
    /\ challenges \in [Challenges -> ChallengeRows \cup {NoRow}]
    /\ clock \in 0 .. MaxTime
    /\ pc \in [Calls -> PCs]
    /\ account \in [Calls -> Accounts \cup {NoAccount}]
    /\ secret \in [Calls -> Secrets \cup {NoSecret}]
    /\ target \in [Calls -> Challenges \cup {NoChallenge}]
    /\ code \in [Calls -> Codes \cup {NoCode}]
    /\ held \in [Calls -> ChallengeRows \cup {NoRow}]
    /\ verdict \in [Calls -> BOOLEAN]
    /\ drawnFor \in [Secrets -> Accounts \cup {NoAccount}]
    /\ issued \in [Challenges -> ChallengeRows \cup {NoRow}]
    /\ attempts \in [Challenges -> Nat]
    /\ shown \in SUBSET Secrets
    /\ crossed \in [Calls -> BOOLEAN]
    /\ replaced \in SUBSET Secrets
    /\ stale \in [Calls -> BOOLEAN]
    /\ steady \in [Calls -> BOOLEAN]

\* A challenge is one-shot: however many verify calls present it at the same time,
\* one code is compared on the strength of it.
OneGuess == \A i \in Challenges : attempts[i] <= 1

\* A code is accepted for the account the challenge was issued to, and no other.
RightAccount ==
    \A c \in Calls : verdict[c] =>
        drawnFor[code[c].secret] = issued[target[c]].account

\* Re-enrolling retires the old secret: from the moment it is replaced, no verify
\* call that starts accepts a code of it.
ReplacedIsDead == \A c \in Calls : stale[c] => ~verdict[c]

\* The secret a user was shown is the one that is stored, alone, as long as no other
\* enrolment of the account has run over it.
ShownIsStored ==
    \A s \in shown : {Opened(drawnFor[s], r) : r \in RowsOf(drawnFor[s])} = {s}

\* The right code is not refused: whoever was shown the secret, presents a challenge
\* in time and alone, and sees neither a step of the clock nor an enrolment of the
\* account during the call, is answered true unless a statement fails.  In
\* particular the deletion of the challenge does not throw.
RightCodeAccepted ==
    \A c \in Calls : steady[c] =>
        /\ pc[c] = "verify.delete" => challenges[target[c]] # NoRow
        /\ pc[c] = "answered" => verdict[c]
==============================================================================
