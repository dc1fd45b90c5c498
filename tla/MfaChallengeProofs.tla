-------------------------- MODULE MfaChallengeProofs --------------------------
(* Theorems about MfaChallenge.                                              *)
EXTENDS MfaChallenge, TLAPS

HasRow(a, s) == SecretRow(a, s) \in secrets

Enrolling == {"enroll.delete", "enroll.create", "enroll.resume"}
\* Calls that have deleted a challenge and not used it up yet.
Past      == {"verify.resume", "verify.secret", "verify.compare"}
Verifying == Past \cup {"verify.find", "verify.delete", "answered"}

\* What a suspended call knows.
CallOK(c) ==
    /\ pc[c] \in Enrolling =>
          account[c] \in Accounts /\ secret[c] \in Secrets /\ drawnFor[secret[c]] = account[c]
    /\ pc[c] = "challenge.create" => target[c] \in Challenges /\ held[c] \in ChallengeRows
    /\ pc[c] \in Verifying => /\ target[c] \in Challenges
                              /\ issued[target[c]] \in ChallengeRows
                              /\ code[c] \in Codes
    /\ pc[c] \in Past \cup {"verify.delete"} => held[c] = issued[target[c]]
    /\ pc[c] \in {"verify.secret", "verify.compare"} =>
          account[c] = issued[target[c]].account
    /\ pc[c] = "verify.compare" =>
          secret[c] \in Secrets /\ drawnFor[secret[c]] = account[c]
    /\ verdict[c] => /\ pc[c] = "answered"
                     /\ drawnFor[code[c].secret] = issued[target[c]].account

CallInv == \A c \in Calls : CallOK(c)

\* A challenge id that has been drawn is in the hands of one call.
IssueInv ==
    /\ \A c \in Calls : pc[c] = "challenge.create" =>
          /\ issued[target[c]] = NoRow
          /\ \A d \in Calls \ {c} : target[d] # target[c]
    /\ \A i \in Challenges : challenges[i] # NoRow => challenges[i] = issued[i]

\* A challenge is in its row, or in the hands of one call, or has been used.
GuessInv ==
    \A i \in Challenges :
        /\ attempts[i] \in {0, 1}
        /\ challenges[i] # NoRow \/ issued[i] = NoRow =>
              attempts[i] = 0 /\ \A c \in Calls : pc[c] \in Past => target[c] # i
        /\ attempts[i] = 1 => \A c \in Calls : pc[c] \in Past => target[c] # i
        /\ \A c, d \in Calls : pc[c] \in Past /\ pc[d] \in Past
                                 /\ target[c] = i /\ target[d] = i => c = d

\* A secret that has been drawn and not stored is in no row, and in the hands of one
\* enrolment.
PendingInv ==
    \A c \in Calls : pc[c] \in {"enroll.delete", "enroll.create"} =>
        /\ \A a \in Accounts : ~HasRow(a, secret[c])
        /\ secret[c] \notin replaced
        /\ \A d \in Calls \ {c} : pc[d] \in Enrolling => secret[d] # secret[c]

OwnerInv ==
    /\ \A a \in Accounts, s \in Secrets : HasRow(a, s) => drawnFor[s] = a
    /\ \A s \in replaced \cup shown : drawnFor[s] \in Accounts

\* A replaced secret is in no row, and in the hands of no verify call that started
\* after it was replaced.
ReplacedInv ==
    /\ \A s \in replaced, a \in Accounts : ~HasRow(a, s)
    /\ \A c \in Calls : stale[c] =>
          /\ pc[c] \in Verifying
          /\ code[c].secret \in replaced
          /\ pc[c] = "verify.compare" => secret[c] # code[c].secret
          /\ ~verdict[c]

\* Alone(a, s): s is the one secret stored for a.
Alone(a, s) == \A k \in Secrets : HasRow(a, k) <=> k = s

ShownInv ==
    /\ \A s \in shown : Alone(drawnFor[s], s)
    /\ \A c \in Calls : ~crossed[c] =>
          /\ pc[c] = "enroll.create" => \A k \in Secrets : ~HasRow(account[c], k)
          /\ pc[c] = "enroll.resume" => Alone(account[c], secret[c])

\* What is known of a call that nothing has come in the way of.
SteadyOK(c) ==
    steady[c] =>
        /\ pc[c] \in Verifying
        /\ code[c].secret \in shown
        /\ drawnFor[code[c].secret] = issued[target[c]].account
        /\ code[c].step = clock
        /\ issued[target[c]].expiresAt > clock
        /\ \A d \in Calls \ {c} : target[d] # target[c]
        /\ pc[c] \in {"verify.find", "verify.delete"} => challenges[target[c]] # NoRow
        /\ pc[c] = "verify.compare" => secret[c] = code[c].secret
        /\ pc[c] = "answered" => verdict[c]

SteadyInv == \A c \in Calls : SteadyOK(c)

IInv ==
    /\ TypeOK
    /\ CallInv
    /\ IssueInv
    /\ GuessInv
    /\ PendingInv
    /\ OwnerInv
    /\ ReplacedInv
    /\ ShownInv
    /\ SteadyInv

----------------------------------------------------------------------------
(* Rows                                                                     *)

LEMMA OpenedIsSealed ==
    ASSUME NEW a \in Accounts, NEW s
    PROVE  Opened(a, SecretRow(a, s)) = s
  BY DEF Opened, SecretRow, Seal, Unseal

LEMMA RowIdentity ==
    ASSUME NEW a \in Accounts, NEW b \in Accounts, NEW s, NEW t
    PROVE  /\ SecretRow(a, s) = SecretRow(b, t) => a = b /\ s = t
           /\ (SecretRow(a, s).tenant = b.tenant /\ SecretRow(a, s).user = b.user) <=> a = b
<1>1. a = [tenant |-> a.tenant, user |-> a.user] /\ b = [tenant |-> b.tenant, user |-> b.user]
  BY MfaConstants
<1>2. /\ SecretRow(a, s).tenant = a.tenant
      /\ SecretRow(a, s).user = a.user
      /\ SecretRow(b, t).tenant = b.tenant
      /\ SecretRow(b, t).user = b.user
  BY DEF SecretRow
<1>3. SecretRow(a, s) = SecretRow(b, t) => a = b
  BY <1>1, <1>2
<1>4. SecretRow(a, s) = SecretRow(b, t) => s = t
  BY <1>3, OpenedIsSealed
<1> QED
  BY <1>1, <1>2, <1>3, <1>4

LEMMA RowsAreOfAccounts ==
    ASSUME secrets \in SUBSET SecretRows, NEW a \in Accounts, NEW r
    PROVE  r \in RowsOf(a) <=> \E s \in Secrets : r = SecretRow(a, s) /\ HasRow(a, s)
<1>1. ASSUME r \in RowsOf(a)
      PROVE  \E s \in Secrets : r = SecretRow(a, s) /\ HasRow(a, s)
  <2>1. PICK b \in Accounts, s \in Secrets : r = SecretRow(b, s)
    BY <1>1 DEF RowsOf, SecretRows
  <2>2. a = b
    BY <1>1, <2>1, RowIdentity DEF RowsOf
  <2> QED
    BY <1>1, <2>1, <2>2 DEF RowsOf, HasRow
<1>2. ASSUME NEW s \in Secrets, r = SecretRow(a, s), HasRow(a, s)
      PROVE  r \in RowsOf(a)
  BY <1>2 DEF RowsOf, HasRow, SecretRow
<1> QED
  BY <1>1, <1>2

\* What is opened of the rows of an account is what is stored for it.
LEMMA OpenedRows ==
    ASSUME secrets \in SUBSET SecretRows, NEW a \in Accounts
    PROVE  {Opened(a, r) : r \in RowsOf(a)} = {s \in Secrets : HasRow(a, s)}
<1>1. ASSUME NEW r \in RowsOf(a)
      PROVE  Opened(a, r) \in {s \in Secrets : HasRow(a, s)}
  BY RowsAreOfAccounts, OpenedIsSealed
<1>2. ASSUME NEW s \in Secrets, HasRow(a, s)
      PROVE  s \in {Opened(a, r) : r \in RowsOf(a)}
  BY <1>2, RowsAreOfAccounts, OpenedIsSealed
<1> QED
  BY <1>1, <1>2

\* What EnrollCreate and EnrollDelete do to the table.
LEMMA CreateAddsRow ==
    ASSUME NEW a \in Accounts, NEW s \in Secrets, secrets' = secrets \cup {SecretRow(a, s)},
           NEW b \in Accounts, NEW t \in Secrets
    PROVE  HasRow(b, t)' <=> HasRow(b, t) \/ (b = a /\ t = s)
  BY RowIdentity DEF HasRow

LEMMA DeleteRemovesRows ==
    ASSUME NEW a \in Accounts, secrets' = secrets \ RowsOf(a),
           NEW b \in Accounts, NEW t \in Secrets
    PROVE  HasRow(b, t)' <=> HasRow(b, t) /\ b # a
<1>1. SecretRow(b, t) \in RowsOf(a) <=> HasRow(b, t) /\ b = a
  BY RowIdentity DEF RowsOf, HasRow
<1> QED
  BY <1>1 DEF HasRow

----------------------------------------------------------------------------
(* Type correctness                                                         *)

LEMMA SettleType ==
    ASSUME TypeOK, NEW c \in Calls, Settle(c)
    PROVE  /\ pc' \in [Calls -> PCs]
           /\ account' \in [Calls -> Accounts \cup {NoAccount}]
           /\ secret' \in [Calls -> Secrets \cup {NoSecret}]
           /\ target' \in [Calls -> Challenges \cup {NoChallenge}]
           /\ code' \in [Calls -> Codes \cup {NoCode}]
           /\ held' \in [Calls -> ChallengeRows \cup {NoRow}]
           /\ verdict' \in [Calls -> BOOLEAN]
           /\ stale' \in [Calls -> BOOLEAN]
           /\ steady' \in [Calls -> BOOLEAN]
  BY DEF TypeOK, Settle, Goto, PCs

LEMMA TypeStep ==
    ASSUME TypeOK, CallInv, [Next]_vars
    PROVE  TypeOK'
<1> USE DEF TypeOK, PCs, Awaits, Goto
<1>1. ASSUME NEW c \in Calls, Enroll(c)
      PROVE  TypeOK'
  <2>1. PICK a \in Accounts, s \in Secrets : /\ account' = [account EXCEPT ![c] = a]
                                             /\ secret' = [secret EXCEPT ![c] = s]
                                             /\ drawnFor' = [drawnFor EXCEPT ![s] = a]
    BY <1>1 DEF Enroll
  <2> QED
    BY <1>1, <2>1 DEF Enroll
<1>2. ASSUME NEW c \in Calls, EnrollDelete(c)
      PROVE  TypeOK'
  <2>1. {Opened(account[c], r) : r \in RowsOf(account[c])} \subseteq Secrets
    BY <1>2, OpenedRows DEF EnrollDelete, CallInv, CallOK, Enrolling
  <2> QED
    BY <1>2, <2>1 DEF EnrollDelete, Crosses, locals
<1>3. ASSUME NEW c \in Calls, EnrollCreate(c)
      PROVE  TypeOK'
  <2>1. SecretRow(account[c], secret[c]) \in SecretRows
    BY <1>3 DEF EnrollCreate, CallInv, CallOK, Enrolling, SecretRows
  <2> QED
    BY <1>3, <2>1 DEF EnrollCreate, Crosses, locals
<1>4. ASSUME NEW c \in Calls, EnrollResume(c)
      PROVE  TypeOK'
  BY <1>4, SettleType DEF EnrollResume, CallInv, CallOK, Enrolling
<1>5. ASSUME NEW c \in Calls, Challenge(c)
      PROVE  TypeOK'
  <2>1. PICK a \in Accounts, i \in Challenges :
            /\ target' = [target EXCEPT ![c] = i]
            /\ held' = [held EXCEPT ![c] = [account |-> a, expiresAt |-> clock + Ttl]]
    BY <1>5 DEF Challenge
  <2>2. [account |-> a, expiresAt |-> clock + Ttl] \in ChallengeRows
    BY MfaConstants DEF ChallengeRows
  <2> QED
    BY <1>5, <2>1, <2>2 DEF Challenge, history
<1>6. ASSUME NEW c \in Calls, ChallengeCreate(c)
      PROVE  TypeOK'
  BY <1>6, SettleType DEF ChallengeCreate, CallInv, CallOK
<1>7. ASSUME NEW c \in Calls, Verify(c)
      PROVE  TypeOK'
  <2>1. PICK i \in Challenges, s \in Secrets, step \in 0 .. clock :
            /\ target' = [target EXCEPT ![c] = i]
            /\ code' = [code EXCEPT ![c] = [secret |-> s, step |-> step]]
            /\ stale' = [stale EXCEPT ![c] = s \in replaced]
            /\ steady' = Steady(c, i, s, step)
    BY <1>7 DEF Verify
  <2>3. steady' \in [Calls -> BOOLEAN]
    BY <2>1 DEF Rightful, Steady
  <2>2. [secret |-> s, step |-> step] \in Codes
    BY MfaConstants DEF Codes
  <2>4. /\ target' \in [Calls -> Challenges \cup {NoChallenge}]
        /\ code' \in [Calls -> Codes \cup {NoCode}]
    BY <2>1, <2>2
  <2>5. stale' \in [Calls -> BOOLEAN]
    BY <2>1
  <2>6. pc' \in [Calls -> PCs]
    BY <1>7 DEF Verify
  <2> QED
    BY <1>7, <2>3, <2>4, <2>5, <2>6 DEF Verify
<1>8. ASSUME NEW c \in Calls, VerifyFind(c)
      PROVE  TypeOK'
  <2>1. challenges[target[c]] \in ChallengeRows \cup {NoRow}
    BY <1>8 DEF VerifyFind, CallInv, CallOK, Verifying
  <2>2. held' \in [Calls -> ChallengeRows \cup {NoRow}] /\ verdict' \in [Calls -> BOOLEAN]
    BY <1>8, <2>1 DEF VerifyFind, Answer
  <2>3. pc' \in [Calls -> PCs]
    BY <1>8 DEF VerifyFind, Answer
  <2> QED
    BY <1>8, <2>2, <2>3 DEF VerifyFind, history
<1>9. ASSUME NEW c \in Calls, VerifyDelete(c)
      PROVE  TypeOK'
  BY <1>9 DEF VerifyDelete, locals, history
<1>10. ASSUME NEW c \in Calls, VerifyConflict(c) \/ Answered(c) \/ Fail(c)
       PROVE  TypeOK'
  BY <1>10, SettleType DEF VerifyConflict, Answered, Fail
<1>11. ASSUME NEW c \in Calls, VerifyResume(c)
       PROVE  TypeOK'
  <2>1. held[c].account \in Accounts
    BY <1>11 DEF VerifyResume, CallInv, CallOK, Past, Verifying, ChallengeRows
  <2> QED
    BY <1>11, <2>1 DEF VerifyResume, Answer, history
<1>12. ASSUME NEW c \in Calls, VerifySecret(c)
       PROVE  TypeOK'
  <2>1. account[c] \in Accounts
    BY <1>12 DEF VerifySecret, CallInv, CallOK, Verifying, Past, ChallengeRows
  <2>2. \A r \in RowsOf(account[c]) : Opened(account[c], r) \in Secrets
    BY <2>1, OpenedRows
  <2> QED
    <3>1. secret' \in [Calls -> Secrets \cup {NoSecret}]
      <4>1. CASE UNCHANGED secret
        BY <4>1
      <4>2. ASSUME NEW r \in RowsOf(account[c]),
                   secret' = [secret EXCEPT ![c] = Opened(account[c], r)]
            PROVE  secret' \in [Calls -> Secrets \cup {NoSecret}]
        BY <2>2, <4>2
      <4> QED
        BY <1>12, <4>1, <4>2 DEF VerifySecret
    <3>2. pc' \in [Calls -> PCs] /\ verdict' \in [Calls -> BOOLEAN]
      BY <1>12 DEF VerifySecret, Answer
    <3> QED
      BY <1>12, <3>1, <3>2 DEF VerifySecret, history
<1>13. ASSUME NEW c \in Calls, VerifyCompare(c)
       PROVE  TypeOK'
  <2>1. \A i \in Challenges : attempts[i] + 1 \in Nat
    OBVIOUS
  <2>2. attempts' \in [Challenges -> Nat]
    BY <1>13, <2>1 DEF VerifyCompare
  <2>3. pc' \in [Calls -> PCs] /\ verdict' \in [Calls -> BOOLEAN]
    BY <1>13 DEF VerifyCompare, Answer
  <2> QED
    BY <1>13, <2>2, <2>3 DEF VerifyCompare
<1>14. CASE Tick
  <2>1. clock' \in 0 .. MaxTime
    BY <1>14, MfaConstants DEF Tick
  <2>2. steady' \in [Calls -> BOOLEAN]
    BY <1>14 DEF Tick
  <2> QED
    BY <1>14, <2>1, <2>2 DEF Tick, locals
<1>15. CASE UNCHANGED vars
  BY <1>15 DEF vars
<1> QED
  BY <1>1, <1>2, <1>3, <1>4, <1>5, <1>6, <1>7, <1>8, <1>9, <1>10, <1>11, <1>12, <1>13, <1>14,
     <1>15 DEF Next, Step

----------------------------------------------------------------------------
(* What calls know                                                          *)

\* A step is a step of one call: the others keep their state.
Undisturbed(d) ==
    /\ pc'[d] = pc[d] /\ account'[d] = account[d] /\ secret'[d] = secret[d]
    /\ target'[d] = target[d] /\ code'[d] = code[d] /\ held'[d] = held[d]
    /\ verdict'[d] = verdict[d] /\ stale'[d] = stale[d]

LEMMA OneMoves ==
    ASSUME TypeOK, NEW c \in Calls, Step(c), NEW d \in Calls \ {c}
    PROVE  Undisturbed(d)
  BY DEF TypeOK, Step, Undisturbed, Enroll, EnrollDelete, EnrollCreate, EnrollResume,
         Challenge, ChallengeCreate, Verify, VerifyFind, VerifyDelete, VerifyConflict,
         VerifyResume, VerifySecret, VerifyCompare, Answered, Fail, Settle, Answer, Goto,
         locals, history

LEMMA NoneMoves ==
    ASSUME Tick \/ UNCHANGED vars
    PROVE  /\ \A d \in Calls : Undisturbed(d)
           /\ UNCHANGED <<secrets, challenges, drawnFor, issued, attempts, shown, crossed,
                          replaced, stale>>
  BY DEF Tick, vars, locals, history, Undisturbed

\* Histories only grow.
LEMMA HistoryGrows ==
    ASSUME TypeOK, CallInv, IssueInv, [Next]_vars
    PROVE  /\ \A s \in Secrets : drawnFor[s] \in Accounts => drawnFor'[s] = drawnFor[s]
           /\ \A i \in Challenges : issued[i] \in ChallengeRows => issued'[i] = issued[i]
           /\ replaced \subseteq replaced'
<1>1. ASSUME NEW c \in Calls, Enroll(c)
      PROVE  /\ \A s \in Secrets : drawnFor[s] \in Accounts => drawnFor'[s] = drawnFor[s]
             /\ UNCHANGED <<issued, replaced>>
  BY <1>1, MfaConstants DEF Enroll, TypeOK
<1>2. ASSUME NEW c \in Calls, ChallengeCreate(c)
      PROVE  /\ \A i \in Challenges : issued[i] \in ChallengeRows => issued'[i] = issued[i]
             /\ UNCHANGED <<drawnFor, replaced>>
  BY <1>2, NoRowNorCode DEF ChallengeCreate, IssueInv, TypeOK
<1>3. ASSUME NEW c \in Calls, Step(c), ~Enroll(c), ~ChallengeCreate(c)
      PROVE  UNCHANGED <<drawnFor, issued>> /\ replaced \subseteq replaced'
  BY <1>3
     DEF Step, EnrollDelete, EnrollCreate, EnrollResume, Challenge, Verify, VerifyFind,
         VerifyDelete, VerifyConflict, VerifyResume, VerifySecret, VerifyCompare, Answered,
         Fail, locals, history
<1>4. CASE Tick \/ UNCHANGED vars
  BY <1>4 DEF Tick, vars, history
<1> QED
  BY <1>1, <1>2, <1>3, <1>4 DEF Next

LEMMA CallFrame ==
    ASSUME TypeOK, NEW d \in Calls, CallOK(d), Undisturbed(d),
           \A s \in Secrets : drawnFor[s] \in Accounts => drawnFor'[s] = drawnFor[s],
           \A i \in Challenges : issued[i] \in ChallengeRows => issued'[i] = issued[i]
    PROVE  CallOK(d)'
<1>1. /\ \A r \in ChallengeRows : r.account \in Accounts
      /\ \A x \in Codes : x.secret \in Secrets
  BY DEF ChallengeRows, Codes
<1> QED
  BY <1>1 DEF CallOK, Undisturbed, Enrolling, Past, Verifying

LEMMA SettledCall ==
    ASSUME TypeOK, NEW c \in Calls, Settle(c)
    PROVE  CallOK(c)'
  BY DEF TypeOK, Settle, Goto, CallOK, Enrolling, Past, Verifying

LEMMA CallStep ==
    ASSUME TypeOK, CallInv, IssueInv, OwnerInv, [Next]_vars
    PROVE  CallInv'
<1> SUFFICES ASSUME NEW d \in Calls
             PROVE  CallOK(d)'
  BY DEF CallInv
<1>0. CallOK(d)
  BY DEF CallInv
<1>1. CASE \/ Tick \/ UNCHANGED vars
           \/ \E c \in Calls \ {d} : Step(c)
  BY <1>0, <1>1, OneMoves, NoneMoves, HistoryGrows, CallFrame
<1>2. CASE Step(d)
  <2> USE DEF TypeOK, Goto, Enrolling, Past, Verifying
  <2>1. CASE Enroll(d)
    BY <1>0, <2>1 DEF Enroll, CallOK
  <2>2. CASE EnrollDelete(d) \/ EnrollCreate(d)
    BY <1>0, <2>2 DEF EnrollDelete, EnrollCreate, CallOK, locals
  <2>3. CASE Challenge(d)
    <3>1. \A a \in Accounts : [account |-> a, expiresAt |-> clock + Ttl] \in ChallengeRows
      BY MfaConstants DEF ChallengeRows
    <3> QED
      BY <1>0, <2>3, <3>1 DEF Challenge, CallOK
  <2>4. CASE Verify(d)
    <3>1. PICK i \in Challenges, s \in Secrets, step \in 0 .. clock :
              /\ issued[i] # NoRow /\ drawnFor[s] # NoAccount
              /\ target' = [target EXCEPT ![d] = i]
              /\ code' = [code EXCEPT ![d] = [secret |-> s, step |-> step]]
              /\ stale' = [stale EXCEPT ![d] = s \in replaced]
      BY <2>4 DEF Verify
    <3>2. [secret |-> s, step |-> step] \in Codes
      BY MfaConstants DEF Codes
    <3>3. /\ pc' = [pc EXCEPT ![d] = "verify.find"]
          /\ UNCHANGED <<issued, verdict>> /\ ~verdict[d]
      BY <1>0, <2>4 DEF Verify, CallOK
    <3> QED
      BY <3>1, <3>2, <3>3 DEF CallOK
  <2>5. CASE VerifyFind(d)
    BY <1>0, <2>5 DEF VerifyFind, Answer, CallOK, IssueInv, history
  <2>6. CASE VerifyDelete(d)
    BY <1>0, <2>6 DEF VerifyDelete, CallOK, locals, history
  <2>7. CASE VerifyResume(d)
    BY <1>0, <2>7 DEF VerifyResume, Answer, CallOK, history
  <2>8. CASE VerifySecret(d)
    <3>1. account[d] \in Accounts /\ account[d] = issued[target[d]].account
      BY <1>0, <2>8 DEF VerifySecret, CallOK, ChallengeRows
    <3>2. \A r \in RowsOf(account[d]) :
             Opened(account[d], r) \in Secrets /\ drawnFor[Opened(account[d], r)] = account[d]
      BY <3>1, OpenedRows DEF OwnerInv
    <3> QED
      BY <1>0, <2>8, <3>1, <3>2 DEF VerifySecret, Answer, CallOK, history
  <2>9. CASE VerifyCompare(d)
    BY <1>0, <2>9 DEF VerifyCompare, Answer, CallOK
  <2>10. CASE Settle(d)
    BY <2>10, SettledCall
  <2> QED
    BY <1>2, <2>1, <2>2, <2>3, <2>4, <2>5, <2>6, <2>7, <2>8, <2>9, <2>10
       DEF Step, EnrollResume, ChallengeCreate, VerifyConflict, Answered, Fail
<1> QED
  BY <1>1, <1>2 DEF Next

----------------------------------------------------------------------------
(* Challenges                                                               *)

\* Which actions write what.
LEMMA Frames ==
    ASSUME NEW c \in Calls, Step(c)
    PROVE  /\ ChallengeCreate(c) \/ UNCHANGED issued
           /\ ChallengeCreate(c) \/ VerifyDelete(c) \/ UNCHANGED challenges
           /\ VerifyCompare(c) \/ UNCHANGED attempts
           /\ Enroll(c) \/ UNCHANGED drawnFor
           /\ EnrollDelete(c) \/ EnrollCreate(c) \/ UNCHANGED secrets
           /\ EnrollDelete(c) \/ UNCHANGED replaced
           /\ EnrollDelete(c) \/ EnrollCreate(c) \/ EnrollResume(c) \/ UNCHANGED shown
           /\ Enroll(c) \/ EnrollDelete(c) \/ EnrollCreate(c) \/ UNCHANGED crossed
  BY DEF Step, Enroll, EnrollDelete, EnrollCreate, EnrollResume, Challenge, ChallengeCreate,
         Verify, VerifyFind, VerifyDelete, VerifyConflict, VerifyResume, VerifySecret,
         VerifyCompare, Answered, Fail, locals, history

\* A call takes up a challenge in Challenge and Verify only.
LEMMA TargetMoves ==
    ASSUME TypeOK, NEW c \in Calls, Step(c)
    PROVE  Challenge(c) \/ Verify(c) \/ target'[c] \in {target[c], NoChallenge}
  BY DEF TypeOK, Step, Enroll, EnrollDelete, EnrollCreate, EnrollResume, ChallengeCreate,
         VerifyFind, VerifyDelete, VerifyConflict, VerifyResume, VerifySecret,
         VerifyCompare, Answered, Fail, Settle, locals

\* A call gets past the deletion of a challenge by VerifyDelete, and keeps its target.
LEMMA PastMoves ==
    ASSUME TypeOK, NEW c \in Calls, Step(c), pc'[c] \in Past
    PROVE  target'[c] = target[c] /\ (pc[c] \in Past \/ VerifyDelete(c))
  BY DEF TypeOK, Past, Step, Enroll, EnrollDelete, EnrollCreate, EnrollResume, Challenge,
         ChallengeCreate, Verify, VerifyFind, VerifyDelete, VerifyConflict, VerifyResume,
         VerifySecret, VerifyCompare, Answered, Fail, Settle, Answer, Goto, locals

LEMMA IssueStep ==
    ASSUME TypeOK, CallInv, IssueInv, [Next]_vars
    PROVE  IssueInv'
<1>1. CASE Tick \/ UNCHANGED vars
  BY <1>1, NoneMoves DEF IssueInv, Undisturbed
<1>2. ASSUME NEW e \in Calls, Step(e)
      PROVE  IssueInv'
  <2>1. ASSUME NEW c \in Calls, pc'[c] = "challenge.create", c # e
        PROVE  /\ issued'[target'[c]] = NoRow
               /\ \A d \in Calls \ {c} : target'[d] # target'[c]
    <3>1. /\ pc[c] = "challenge.create" /\ target'[c] = target[c]
          /\ target[c] \in Challenges
          /\ issued[target[c]] = NoRow
          /\ \A d \in Calls \ {c} : target[d] # target[c]
      BY <1>2, <2>1, OneMoves DEF Undisturbed, IssueInv, CallInv, CallOK
    <3>2. issued'[target[c]] = NoRow
      BY <1>2, <2>1, <3>1, Frames DEF ChallengeCreate, TypeOK
    <3>3. target'[e] # target[c]
      <4>1. CASE Challenge(e)
        BY <2>1, <3>1, <4>1 DEF Challenge, TypeOK
      <4>2. CASE Verify(e)
        BY <2>1, <3>1, <4>2 DEF Verify, TypeOK
      <4> QED
        BY <1>2, <2>1, <3>1, <4>1, <4>2, TargetMoves, MfaConstants
    <3> QED
      BY <1>2, <3>1, <3>2, <3>3, OneMoves DEF Undisturbed
  <2>2. ASSUME pc'[e] = "challenge.create"
        PROVE  /\ issued'[target'[e]] = NoRow
               /\ \A d \in Calls \ {e} : target'[d] # target'[e]
    <3>1. Challenge(e)
      BY <1>2, <2>2
         DEF TypeOK, Step, Enroll, EnrollDelete, EnrollCreate, EnrollResume, ChallengeCreate,
             Verify, VerifyFind, VerifyDelete, VerifyConflict, VerifyResume, VerifySecret,
             VerifyCompare, Answered, Fail, Settle, Answer, Goto
    <3>2. issued[target'[e]] = NoRow /\ \A d \in Calls : target[d] # target'[e]
      BY <3>1 DEF Challenge, TypeOK
    <3>3. UNCHANGED issued
      BY <3>1 DEF Challenge, history
    <3> QED
      BY <1>2, <3>2, <3>3, OneMoves DEF Undisturbed
  <2>3. ASSUME NEW i \in Challenges, challenges'[i] # NoRow
        PROVE  challenges'[i] = issued'[i]
    <3>1. CASE ChallengeCreate(e)
      BY <2>3, <3>1 DEF ChallengeCreate, TypeOK, IssueInv
    <3>2. CASE VerifyDelete(e)
      BY <2>3, <3>2 DEF VerifyDelete, TypeOK, IssueInv, history
    <3> QED
      BY <1>2, <2>3, <3>1, <3>2, Frames DEF IssueInv
  <2> QED
    BY <2>1, <2>2, <2>3 DEF IssueInv
<1> QED
  BY <1>1, <1>2 DEF Next

LEMMA GuessStep ==
    ASSUME TypeOK, CallInv, IssueInv, GuessInv, [Next]_vars
    PROVE  GuessInv'
<1>1. CASE Tick \/ UNCHANGED vars
  BY <1>1, NoneMoves DEF GuessInv, Undisturbed
<1>2. ASSUME NEW e \in Calls, Step(e)
      PROVE  GuessInv'
  <2>1. \A d \in Calls : pc'[d] \in Past =>
            target'[d] = target[d] /\ (pc[d] \in Past \/ (d = e /\ VerifyDelete(e)))
    BY <1>2, PastMoves, OneMoves DEF Undisturbed
  <2>2. CASE ChallengeCreate(e)
    <3>1. /\ target[e] \in Challenges /\ issued[target[e]] = NoRow
          /\ ~VerifyDelete(e)
      BY <2>2 DEF ChallengeCreate, VerifyDelete, IssueInv, CallInv, CallOK
    <3>2. /\ \A i \in Challenges \ {target[e]} :
                challenges'[i] = challenges[i] /\ issued'[i] = issued[i]
          /\ UNCHANGED attempts
      BY <2>2 DEF ChallengeCreate, TypeOK
    <3> QED
      BY <2>1, <3>1, <3>2 DEF GuessInv
  <2>3. CASE VerifyDelete(e)
    <3>1. /\ target[e] \in Challenges /\ challenges[target[e]] # NoRow
          /\ issued[target[e]] # NoRow
      BY <2>3 DEF VerifyDelete, IssueInv, CallInv, CallOK, Verifying
    <3>2. /\ challenges' = [challenges EXCEPT ![target[e]] = NoRow]
          /\ UNCHANGED <<issued, attempts>>
      BY <2>3 DEF VerifyDelete, history
    <3> QED
      BY <2>1, <3>1, <3>2 DEF GuessInv, TypeOK
  <2>4. CASE VerifyCompare(e)
    <3>1. /\ target[e] \in Challenges /\ pc[e] \in Past
          /\ pc'[e] \notin Past
          /\ ~VerifyDelete(e)
      BY <2>4 DEF VerifyCompare, VerifyDelete, Answer, Goto, TypeOK, CallInv, CallOK,
                  Verifying, Past
    <3>2. /\ UNCHANGED <<challenges, issued>>
          /\ attempts' = [attempts EXCEPT ![target[e]] = @ + 1]
      BY <2>4 DEF VerifyCompare
    <3>3. attempts[target[e]] = 0
      BY <3>1 DEF GuessInv
    <3>4. \A i \in Challenges : attempts'[i] = IF i = target[e] THEN 1 ELSE attempts[i]
      BY <3>1, <3>2, <3>3 DEF TypeOK
    <3> QED
      BY <2>1, <3>1, <3>2, <3>4 DEF GuessInv
  <2>5. CASE ~ChallengeCreate(e) /\ ~VerifyDelete(e) /\ ~VerifyCompare(e)
    <3>1. UNCHANGED <<challenges, issued, attempts>>
      BY <1>2, <2>5, Frames
    <3> QED
      BY <2>1, <2>5, <3>1 DEF GuessInv
  <2> QED
    BY <2>2, <2>3, <2>4, <2>5
<1> QED
  BY <1>1, <1>2 DEF Next

----------------------------------------------------------------------------
(* Secrets                                                                  *)

\* A call that is enrolling after a step was enrolling before, or has just begun.
LEMMA EnrolMoves ==
    ASSUME TypeOK, NEW c \in Calls, Step(c), pc'[c] \in Enrolling
    PROVE  \/ Enroll(c)
           \/ /\ account'[c] = account[c] /\ secret'[c] = secret[c]
              /\ \/ EnrollDelete(c) /\ pc[c] = "enroll.delete" /\ pc'[c] = "enroll.create"
                 \/ EnrollCreate(c) /\ pc[c] = "enroll.create" /\ pc'[c] = "enroll.resume"
  BY DEF TypeOK, Enrolling, Step, Enroll, EnrollDelete, EnrollCreate, EnrollResume, Challenge,
         ChallengeCreate, Verify, VerifyFind, VerifyDelete, VerifyConflict, VerifyResume,
         VerifySecret, VerifyCompare, Answered, Fail, Settle, Answer, Goto, locals

\* What the two writing steps of save do to the stored and the replaced secrets.
LEMMA DeleteEffect ==
    ASSUME TypeOK, CallInv, OwnerInv, NEW c \in Calls, EnrollDelete(c)
    PROVE  /\ pc[c] = "enroll.delete" /\ account[c] \in Accounts /\ secret[c] \in Secrets
           /\ \A a \in Accounts, s \in Secrets :
                 HasRow(a, s)' <=> HasRow(a, s) /\ a # account[c]
           /\ replaced' = replaced \cup {s \in Secrets : HasRow(account[c], s)}
           /\ shown' = {s \in shown : drawnFor[s] # account[c]}
           /\ \A d \in Calls : crossed'[d] <=>
                 crossed[d] \/ (d # c /\ account[d] = account[c])
           /\ UNCHANGED drawnFor
<1>1. pc[c] = "enroll.delete" /\ account[c] \in Accounts /\ secret[c] \in Secrets
  BY DEF EnrollDelete, CallInv, CallOK, Enrolling
<1>2. secrets' = secrets \ RowsOf(account[c])
  BY DEF EnrollDelete
<1>3. \A a \in Accounts, s \in Secrets : HasRow(a, s)' <=> HasRow(a, s) /\ a # account[c]
  BY <1>1, <1>2, DeleteRemovesRows
<1>4. replaced' = replaced \cup {s \in Secrets : HasRow(account[c], s)}
  BY <1>1, OpenedRows DEF EnrollDelete, TypeOK
<1> QED
  BY <1>1, <1>3, <1>4 DEF EnrollDelete, Crosses, TypeOK

LEMMA CreateEffect ==
    ASSUME TypeOK, CallInv, NEW c \in Calls, EnrollCreate(c)
    PROVE  /\ pc[c] = "enroll.create" /\ account[c] \in Accounts /\ secret[c] \in Secrets
           /\ drawnFor[secret[c]] = account[c]
           /\ \A a \in Accounts, s \in Secrets :
                 HasRow(a, s)' <=> HasRow(a, s) \/ (a = account[c] /\ s = secret[c])
           /\ shown' = {s \in shown : drawnFor[s] # account[c]}
           /\ \A d \in Calls : crossed'[d] <=>
                 crossed[d] \/ (d # c /\ account[d] = account[c])
           /\ UNCHANGED <<drawnFor, replaced>>
<1>1. /\ pc[c] = "enroll.create" /\ account[c] \in Accounts /\ secret[c] \in Secrets
      /\ drawnFor[secret[c]] = account[c]
  BY DEF EnrollCreate, CallInv, CallOK, Enrolling
<1>2. \A a \in Accounts, s \in Secrets :
          HasRow(a, s)' <=> HasRow(a, s) \/ (a = account[c] /\ s = secret[c])
  <2>1. secrets' = secrets \cup {SecretRow(account[c], secret[c])}
    BY DEF EnrollCreate
  <2> QED
    BY <1>1, <2>1, CreateAddsRow
<1> QED
  BY <1>1, <1>2 DEF EnrollCreate, Crosses, TypeOK

LEMMA EnrollEffect ==
    ASSUME TypeOK, NEW c \in Calls, Enroll(c)
    PROVE  /\ pc[c] = "idle" /\ pc'[c] = "enroll.delete"
           /\ account'[c] \in Accounts /\ secret'[c] \in Secrets
           /\ drawnFor[secret'[c]] = NoAccount /\ drawnFor'[secret'[c]] = account'[c]
           /\ \A d \in Calls \ {c} : crossed'[d] = crossed[d]
           /\ UNCHANGED <<secrets, replaced, shown>>
<1>1. PICK a \in Accounts, s \in Secrets : /\ account' = [account EXCEPT ![c] = a]
                                           /\ secret' = [secret EXCEPT ![c] = s]
                                           /\ drawnFor' = [drawnFor EXCEPT ![s] = a]
                                           /\ drawnFor[s] = NoAccount
  BY DEF Enroll
<1> QED
  BY <1>1 DEF Enroll, TypeOK, Goto

\* Every other step leaves the tables of secrets alone.
LEMMA SecretsAlone ==
    ASSUME NEW c \in Calls, Step(c), ~Enroll(c), ~EnrollDelete(c), ~EnrollCreate(c)
    PROVE  UNCHANGED <<secrets, drawnFor, replaced, crossed>>
  BY Frames

LEMMA PendingStep ==
    ASSUME TypeOK, CallInv, PendingInv, OwnerInv, [Next]_vars
    PROVE  PendingInv'
<1>1. CASE Tick \/ UNCHANGED vars
  BY <1>1, NoneMoves DEF PendingInv, Undisturbed, HasRow
<1>2. ASSUME NEW e \in Calls, Step(e),
             NEW c \in Calls, pc'[c] \in {"enroll.delete", "enroll.create"}
      PROVE  /\ \A a \in Accounts : ~HasRow(a, secret[c])'
             /\ secret'[c] \notin replaced'
             /\ \A d \in Calls \ {c} : pc'[d] \in Enrolling => secret'[d] # secret'[c]
  <2>0. \A d \in Calls : pc[d] \in Enrolling =>
            secret[d] \in Secrets /\ drawnFor[secret[d]] \in Accounts
    BY DEF CallInv, CallOK
  <2>1. CASE Enroll(e) /\ c = e
    <3>1. /\ secret'[c] \in Secrets /\ drawnFor[secret'[c]] = NoAccount
          /\ UNCHANGED <<secrets, replaced>>
      BY <2>1, EnrollEffect
    <3>2. \A a \in Accounts : ~HasRow(a, secret[c])'
      BY <3>1, MfaConstants DEF OwnerInv, HasRow
    <3>3. secret'[c] \notin replaced'
      BY <3>1, MfaConstants DEF OwnerInv
    <3> QED
      BY <1>2, <2>0, <2>1, <3>1, <3>2, <3>3, OneMoves, MfaConstants DEF Undisturbed
  <2>2. CASE ~(Enroll(e) /\ c = e)
    <3>1. /\ pc[c] \in {"enroll.delete", "enroll.create"} /\ secret'[c] = secret[c]
          /\ secret[c] \in Secrets
          /\ ~(EnrollCreate(e) /\ c = e)
      <4>1. CASE c = e
        BY <1>2, <2>0, <2>2, <4>1, EnrolMoves, CreateEffect DEF Enrolling
      <4>2. CASE c # e
        BY <1>2, <2>0, <4>2, OneMoves DEF Undisturbed, Enrolling
      <4> QED
        BY <4>1, <4>2
    <3>2. /\ \A a \in Accounts : ~HasRow(a, secret[c])
          /\ secret[c] \notin replaced
          /\ \A d \in Calls \ {c} : pc[d] \in Enrolling => secret[d] # secret[c]
      BY <3>1 DEF PendingInv
    <3>3. \A d \in Calls \ {c} : pc'[d] \in Enrolling => secret'[d] # secret[c]
      <4>1. ASSUME NEW d \in Calls \ {c}, pc'[d] \in Enrolling, Enroll(d)
            PROVE  secret'[d] # secret[c]
        BY <2>0, <3>1, <4>1, EnrollEffect, MfaConstants DEF Enrolling
      <4> QED
        BY <1>2, <3>2, <4>1, OneMoves, EnrolMoves DEF Undisturbed, Enrolling
    <3>4. CASE Enroll(e)
      BY <3>1, <3>2, <3>3, <3>4, EnrollEffect DEF HasRow
    <3>5. CASE EnrollDelete(e)
      BY <3>1, <3>2, <3>3, <3>5, DeleteEffect
    <3>6. CASE EnrollCreate(e)
      <4>1. secret[e] # secret[c]
        BY <3>1, <3>2, <3>6, CreateEffect DEF Enrolling
      <4> QED
        BY <3>1, <3>2, <3>3, <3>6, <4>1, CreateEffect
    <3> QED
      BY <1>2, <3>1, <3>2, <3>3, <3>4, <3>5, <3>6, SecretsAlone DEF HasRow
  <2> QED
    BY <2>1, <2>2
<1> QED
  BY <1>1, <1>2 DEF Next, PendingInv

LEMMA OwnerStep ==
    ASSUME TypeOK, CallInv, IssueInv, OwnerInv, [Next]_vars
    PROVE  OwnerInv'
<1>0. \A s \in Secrets : drawnFor[s] \in Accounts => drawnFor'[s] = drawnFor[s]
  BY HistoryGrows
<1>1. CASE Tick \/ UNCHANGED vars
  BY <1>1, NoneMoves DEF OwnerInv, HasRow
<1>2. ASSUME NEW e \in Calls, Step(e)
      PROVE  OwnerInv'
  <2>1. CASE EnrollDelete(e)
    BY <2>1, DeleteEffect DEF OwnerInv
  <2>2. CASE EnrollCreate(e)
    BY <2>2, CreateEffect DEF OwnerInv
  <2>3. CASE EnrollResume(e)
    <3>1. /\ shown' \subseteq shown \cup {secret[e]}
          /\ drawnFor[secret[e]] \in Accounts
          /\ UNCHANGED <<secrets, drawnFor, replaced>>
      BY <2>3 DEF EnrollResume, CallInv, CallOK, Enrolling
    <3> QED
      BY <3>1 DEF OwnerInv, HasRow
  <2>4. CASE ~EnrollDelete(e) /\ ~EnrollCreate(e) /\ ~EnrollResume(e)
    <3>1. UNCHANGED <<secrets, replaced, shown>>
      BY <1>2, <2>4, Frames
    <3> QED
      BY <1>0, <3>1 DEF OwnerInv, HasRow, TypeOK
  <2> QED
    BY <2>1, <2>2, <2>3, <2>4
<1> QED
  BY <1>1, <1>2 DEF Next

LEMMA ReplacedStep ==
    ASSUME TypeOK, CallInv, IssueInv, PendingInv, OwnerInv, ReplacedInv, [Next]_vars
    PROVE  ReplacedInv'
<1>0. replaced \subseteq replaced'
  BY HistoryGrows
<1>1. CASE Tick \/ UNCHANGED vars
  BY <1>1, NoneMoves DEF ReplacedInv, Undisturbed, HasRow
<1>2. ASSUME NEW e \in Calls, Step(e)
      PROVE  ReplacedInv'
  <2>1. ASSUME NEW s \in replaced', NEW a \in Accounts
        PROVE  ~HasRow(a, s)'
    <3>1. CASE EnrollDelete(e)
      <4>1. s \in Secrets /\ (s \in replaced \/ HasRow(account[e], s))
        BY <2>1, <3>1, DeleteEffect DEF TypeOK
      <4>2. HasRow(a, s) => a = account[e]
        BY <3>1, <4>1, DeleteEffect DEF ReplacedInv, OwnerInv
      <4> QED
        BY <3>1, <4>1, <4>2, DeleteEffect
    <3>2. CASE EnrollCreate(e)
      <4>1. s \in replaced /\ s \in Secrets /\ secret[e] \notin replaced
        BY <2>1, <3>2, CreateEffect DEF PendingInv, TypeOK
      <4> QED
        BY <3>2, <4>1, CreateEffect DEF ReplacedInv
    <3>3. CASE ~EnrollDelete(e) /\ ~EnrollCreate(e)
      BY <1>2, <2>1, <3>3, Frames DEF ReplacedInv, HasRow
    <3> QED
      BY <3>1, <3>2, <3>3
  <2>2. ASSUME NEW c \in Calls, stale'[c], c # e
        PROVE  /\ pc'[c] \in Verifying
               /\ code'[c].secret \in replaced'
               /\ pc'[c] = "verify.compare" => secret'[c] # code'[c].secret
               /\ ~verdict'[c]
    BY <1>0, <1>2, <2>2, OneMoves DEF ReplacedInv, Undisturbed
  <2>3. ASSUME stale'[e]
        PROVE  /\ pc'[e] \in Verifying
               /\ code'[e].secret \in replaced'
               /\ pc'[e] = "verify.compare" => secret'[e] # code'[e].secret
               /\ ~verdict'[e]
    <3> USE DEF TypeOK, Goto, Verifying, Past
    <3>1. ASSUME stale[e]
          PROVE  /\ pc[e] \in Verifying
                 /\ code[e].secret \in replaced
                 /\ pc[e] = "verify.compare" => secret[e] # code[e].secret
                 /\ ~verdict[e]
      BY <3>1 DEF ReplacedInv
    <3>2. CASE Verify(e)
      <4>1. PICK s \in Secrets, step \in 0 .. clock :
                /\ code' = [code EXCEPT ![e] = [secret |-> s, step |-> step]]
                /\ stale' = [stale EXCEPT ![e] = s \in replaced]
        BY <3>2 DEF Verify
      <4>2. code'[e].secret = s /\ s \in replaced
        BY <2>3, <4>1
      <4>3. pc'[e] = "verify.find" /\ ~verdict'[e]
        BY <3>2 DEF Verify, CallInv, CallOK
      <4> QED
        BY <1>0, <4>2, <4>3
    <3>3. CASE VerifyFind(e)
      BY <1>0, <2>3, <3>1, <3>3 DEF VerifyFind, Answer, history
    <3>4. CASE VerifyDelete(e)
      BY <1>0, <2>3, <3>1, <3>4 DEF VerifyDelete, locals, history
    <3>5. CASE VerifyResume(e)
      BY <1>0, <2>3, <3>1, <3>5 DEF VerifyResume, Answer, history
    <3>6. CASE VerifySecret(e)
      <4>1. /\ stale[e] /\ account[e] \in Accounts
            /\ UNCHANGED <<code, replaced>>
        BY <2>3, <3>6 DEF VerifySecret, history, CallInv, CallOK, ChallengeRows
      <4>2. \A r \in RowsOf(account[e]) : Opened(account[e], r) # code[e].secret
        BY <3>1, <4>1, OpenedRows DEF ReplacedInv
      <4>3. /\ pc'[e] = "verify.compare" => secret'[e] # code[e].secret
            /\ pc'[e] \in {"verify.compare", "answered"}
            /\ ~verdict'[e]
        <5>1. ASSUME NEW r \in RowsOf(account[e]),
                     secret' = [secret EXCEPT ![e] = Opened(account[e], r)]
              PROVE  secret'[e] # code[e].secret
          BY <4>2, <5>1
        <5> QED
          BY <3>1, <3>6, <4>1, <5>1 DEF VerifySecret, Answer
      <4> QED
        BY <1>0, <3>1, <4>1, <4>3
    <3>7. CASE VerifyCompare(e)
      <4>1. code[e] # [secret |-> secret[e], step |-> clock]
        BY <2>3, <3>1, <3>7 DEF VerifyCompare
      <4> QED
        BY <1>0, <2>3, <3>1, <3>7, <4>1 DEF VerifyCompare, Answer
    <3>8. CASE Enroll(e) \/ EnrollDelete(e) \/ EnrollCreate(e) \/ Challenge(e)
      BY <2>3, <3>1, <3>8 DEF Enroll, EnrollDelete, EnrollCreate, Challenge, history
    <3>9. CASE Settle(e)
      BY <2>3, <3>9 DEF Settle
    <3> QED
      BY <1>2, <3>2, <3>3, <3>4, <3>5, <3>6, <3>7, <3>8, <3>9
         DEF Step, EnrollResume, ChallengeCreate, VerifyConflict, Answered, Fail
  <2> QED
    BY <2>1, <2>2, <2>3 DEF ReplacedInv
<1> QED
  BY <1>1, <1>2 DEF Next

LEMMA ShownStep ==
    ASSUME TypeOK, CallInv, IssueInv, OwnerInv, ShownInv, [Next]_vars
    PROVE  ShownInv'
<1>0. \A s \in Secrets : drawnFor[s] \in Accounts => drawnFor'[s] = drawnFor[s]
  BY HistoryGrows
<1>1. CASE Tick \/ UNCHANGED vars
  BY <1>1, NoneMoves DEF ShownInv, Alone, Undisturbed, HasRow
<1>2. ASSUME NEW e \in Calls, Step(e)
      PROVE  ShownInv'
  <2>1. ASSUME NEW s \in shown'
        PROVE  Alone(drawnFor[s], s)'
    <3>1. CASE EnrollDelete(e)
      BY <2>1, <3>1, DeleteEffect DEF ShownInv, OwnerInv, Alone
    <3>2. CASE EnrollCreate(e)
      BY <2>1, <3>2, CreateEffect DEF ShownInv, OwnerInv, Alone
    <3>3. CASE EnrollResume(e)
      <4>1. /\ pc[e] = "enroll.resume"
            /\ s \in shown \/ (~crossed[e] /\ s = secret[e])
            /\ drawnFor[secret[e]] = account[e]
            /\ UNCHANGED <<secrets, drawnFor>>
        BY <2>1, <3>3 DEF EnrollResume, CallInv, CallOK, Enrolling
      <4> QED
        BY <4>1 DEF ShownInv, Alone, HasRow
    <3>4. CASE ~EnrollDelete(e) /\ ~EnrollCreate(e) /\ ~EnrollResume(e)
      <4>1. UNCHANGED <<secrets, shown>>
        BY <1>2, <3>4, Frames
      <4>2. drawnFor'[s] = drawnFor[s]
        BY <1>0, <2>1, <4>1 DEF OwnerInv, TypeOK
      <4> QED
        BY <2>1, <4>1, <4>2 DEF ShownInv, Alone, HasRow
    <3> QED
      BY <3>1, <3>2, <3>3, <3>4
  <2>2. ASSUME NEW c \in Calls, ~crossed'[c], pc'[c] \in {"enroll.create", "enroll.resume"}
        PROVE  /\ pc'[c] = "enroll.create" => \A k \in Secrets : ~HasRow(account[c], k)'
               /\ pc'[c] = "enroll.resume" => Alone(account[c], secret[c])'
    <3>1. CASE c = e
      <4>1. CASE EnrollDelete(e)
        BY <1>2, <2>2, <3>1, <4>1, DeleteEffect, EnrolMoves, EnrollEffect
           DEF Enrolling, HasRow
      <4>2. CASE EnrollCreate(e)
        BY <1>2, <2>2, <3>1, <4>2, CreateEffect, EnrolMoves, EnrollEffect
           DEF Enrolling, HasRow, Alone, ShownInv
      <4> QED
        BY <1>2, <2>2, <3>1, <4>1, <4>2, EnrolMoves, EnrollEffect DEF Enrolling
    <3>2. CASE c # e
      <4>1. /\ pc'[c] = pc[c] /\ account'[c] = account[c] /\ secret'[c] = secret[c]
            /\ account[c] \in Accounts
        BY <1>2, <2>2, <3>2, OneMoves DEF Undisturbed, CallInv, CallOK, Enrolling
      <4>2. /\ ~crossed[c]
            /\ \A k \in Secrets : HasRow(account[c], k)' <=> HasRow(account[c], k)
        <5>1. CASE EnrollDelete(e)
          BY <2>2, <3>2, <4>1, <5>1, DeleteEffect DEF HasRow
        <5>2. CASE EnrollCreate(e)
          BY <2>2, <3>2, <4>1, <5>2, CreateEffect DEF HasRow
        <5>3. CASE Enroll(e)
          BY <2>2, <3>2, <4>1, <5>3, EnrollEffect DEF HasRow
        <5> QED
          BY <1>2, <2>2, <4>1, <5>1, <5>2, <5>3, SecretsAlone DEF HasRow
      <4> QED
        BY <2>2, <4>1, <4>2 DEF ShownInv, Alone, HasRow
    <3> QED
      BY <3>1, <3>2
  <2> QED
    BY <2>1, <2>2 DEF ShownInv
<1> QED
  BY <1>1, <1>2 DEF Next

----------------------------------------------------------------------------
(* Right codes                                                              *)

\* A call becomes steady by beginning with the right code, and stops being so when it
\* settles.
LEMMA SteadyMoves ==
    ASSUME TypeOK, NEW e \in Calls, Step(e), NEW c \in Calls, steady'[c]
    PROVE  /\ steady[c] \/ (c = e /\ Verify(e))
           /\ c = e => ~Settle(e)
           /\ clock' = clock
<1>1. CASE Settle(e)
  BY <1>1 DEF TypeOK, Settle, Step, Enroll, EnrollDelete, EnrollCreate, EnrollResume,
         Challenge, ChallengeCreate, Verify, VerifyFind, VerifyDelete, VerifyConflict,
         VerifyResume, VerifySecret, VerifyCompare, Answered, Fail, Answer, Goto
<1>2. CASE Verify(e)
  BY <1>2 DEF Verify, Steady, Settle, Goto, TypeOK
<1>3. CASE EnrollDelete(e) \/ EnrollCreate(e)
  BY <1>3 DEF EnrollDelete, EnrollCreate, Crosses, Settle, Goto, TypeOK
<1>4. CASE \/ Enroll(e) \/ Challenge(e) \/ VerifyFind(e) \/ VerifyDelete(e)
           \/ VerifyResume(e) \/ VerifySecret(e) \/ VerifyCompare(e)
  <2>1. UNCHANGED <<steady, clock>>
    BY <1>4 DEF Enroll, Challenge, VerifyFind, VerifyDelete, VerifyResume, VerifySecret,
                VerifyCompare, history
  <2>2. pc'[e] # "idle"
    BY <1>4 DEF Enroll, Challenge, VerifyFind, VerifyDelete, VerifyResume, VerifySecret,
                VerifyCompare, Answer, Goto, TypeOK
  <2> QED
    BY <2>1, <2>2 DEF Settle, Goto, TypeOK
<1> QED
  BY <1>1, <1>2, <1>3, <1>4 DEF Step, EnrollResume, ChallengeCreate, VerifyConflict, Answered,
                                Fail

\* The rows of an account of which s alone is stored.
LEMMA AloneRows ==
    ASSUME secrets \in SUBSET SecretRows, NEW a \in Accounts, NEW s \in Secrets, Alone(a, s)
    PROVE  RowsOf(a) # {} /\ \A r \in RowsOf(a) : Opened(a, r) = s
<1>1. SecretRow(a, s) \in RowsOf(a)
  BY RowsAreOfAccounts DEF Alone
<1>2. {Opened(a, r) : r \in RowsOf(a)} = {s}
  BY OpenedRows DEF Alone
<1> QED
  BY <1>1, <1>2

\* A right code gets through the steps of its own call.
LEMMA SteadyOwnStep ==
    ASSUME TypeOK, CallInv, ShownInv, NEW c \in Calls, SteadyOK(c), steady[c], Step(c),
           ~Settle(c)
    PROVE  /\ pc'[c] \in Verifying
           /\ code'[c] = code[c] /\ target'[c] = target[c]
           /\ pc'[c] \in {"verify.find", "verify.delete"} => challenges'[target[c]] # NoRow
           /\ pc'[c] = "verify.compare" => secret'[c] = code[c].secret
           /\ pc'[c] = "answered" => verdict'[c]
<1> USE DEF TypeOK, Goto, Past, Verifying
<1>1. /\ pc[c] \in Verifying
      /\ target[c] \in Challenges /\ issued[target[c]] \in ChallengeRows
      /\ code[c] \in Codes
  BY DEF SteadyOK, CallInv, CallOK
<1>2. CASE VerifyFind(c)
  BY <1>2 DEF VerifyFind, Answer, SteadyOK
<1>3. CASE VerifyDelete(c)
  BY <1>3 DEF VerifyDelete, locals
<1>4. CASE VerifyResume(c)
  <2>1. held[c].expiresAt > clock /\ held[c].expiresAt \in Nat /\ clock \in Nat
    BY <1>1, <1>4, MfaConstants DEF VerifyResume, SteadyOK, CallInv, CallOK, ChallengeRows
  <2>2. ~(held[c].expiresAt <= clock)
    BY <2>1
  <2> QED
    BY <1>4, <2>2 DEF VerifyResume
<1>5. CASE VerifySecret(c)
  <2>1. /\ account[c] \in Accounts /\ code[c].secret \in Secrets
        /\ Alone(account[c], code[c].secret)
    BY <1>1, <1>5 DEF VerifySecret, SteadyOK, ShownInv, CallInv, CallOK, ChallengeRows
  <2>2. RowsOf(account[c]) # {} /\ \A r \in RowsOf(account[c]) :
            Opened(account[c], r) = code[c].secret
    BY <2>1, AloneRows
  <2>3. PICK r \in RowsOf(account[c]) :
            /\ secret' = [secret EXCEPT ![c] = Opened(account[c], r)]
            /\ pc' = [pc EXCEPT ![c] = "verify.compare"]
    BY <1>5, <2>2 DEF VerifySecret
  <2>4. UNCHANGED <<target, code>>
    BY <1>5 DEF VerifySecret
  <2> QED
    BY <2>2, <2>3, <2>4
<1>6. CASE VerifyCompare(c)
  <2>1. code[c] = [secret |-> secret[c], step |-> clock]
    BY <1>1, <1>6 DEF VerifyCompare, SteadyOK, Codes
  <2> QED
    BY <1>6, <2>1 DEF VerifyCompare, Answer
<1> QED
  BY <1>1, <1>2, <1>3, <1>4, <1>5, <1>6
     DEF Step, Enroll, EnrollDelete, EnrollCreate, EnrollResume, Challenge, ChallengeCreate,
         Verify, VerifyConflict, Answered, Fail

LEMMA SteadyStep ==
    ASSUME TypeOK, CallInv, IssueInv, OwnerInv, ShownInv, SteadyInv, [Next]_vars
    PROVE  SteadyInv'
<1>1. CASE Tick
  BY <1>1 DEF Tick, SteadyInv, SteadyOK
<1>2. CASE UNCHANGED vars
  BY <1>2 DEF vars, SteadyInv, SteadyOK
<1>3. ASSUME NEW e \in Calls, Step(e), NEW c \in Calls, steady'[c]
      PROVE  SteadyOK(c)'
  <2>0. clock' = clock
    BY <1>3, SteadyMoves
  <2>1. CASE c = e /\ Verify(e)
    <3>1. PICK i \in Challenges, s \in Secrets, step \in 0 .. clock :
              /\ target' = [target EXCEPT ![c] = i]
              /\ code' = [code EXCEPT ![c] = [secret |-> s, step |-> step]]
              /\ steady' = Steady(c, i, s, step)
      BY <2>1 DEF Verify
    <3>2. Rightful(i, s, step)
      BY <1>3, <3>1 DEF Steady
    <3>3. /\ target'[c] = i /\ \A d \in Calls \ {c} : target'[d] = target[d]
          /\ code'[c].secret = s /\ code'[c].step = step
      BY <3>1 DEF TypeOK
    <3>4. /\ pc'[c] = "verify.find"
          /\ UNCHANGED <<challenges, issued, shown, drawnFor>>
      BY <2>1 DEF Verify, Goto, TypeOK
    <3> QED
      BY <2>0, <3>2, <3>3, <3>4 DEF Rightful, SteadyOK, Verifying
  <2>2. CASE steady[c] /\ ~(c = e /\ Verify(e))
    <3>1. /\ SteadyOK(c) /\ steady[c] /\ pc[c] \in Verifying
          /\ target[c] \in Challenges /\ issued[target[c]] \in ChallengeRows
          /\ code[c].secret \in shown /\ code[c].secret \in Secrets
          /\ drawnFor[code[c].secret] \in Accounts
      BY <2>2 DEF SteadyInv, SteadyOK, CallInv, CallOK, OwnerInv, TypeOK
    <3>2. /\ issued'[target[c]] = issued[target[c]]
          /\ drawnFor'[code[c].secret] = drawnFor[code[c].secret]
      BY <1>3, <3>1, HistoryGrows DEF Next
    <3>3. code[c].secret \in shown'
      <4>1. CASE EnrollDelete(e) \/ EnrollCreate(e)
        <5>1. drawnFor[code[c].secret] # account[e]
          BY <1>3, <4>1 DEF EnrollDelete, EnrollCreate, Crosses
        <5> QED
          BY <3>1, <4>1, <5>1, DeleteEffect, CreateEffect
      <4>2. CASE EnrollResume(e)
        BY <3>1, <4>2 DEF EnrollResume
      <4> QED
        BY <1>3, <3>1, <4>1, <4>2, Frames
    <3>4. \A d \in Calls \ {c} : target'[d] # target[c]
      <4>1. ASSUME e # c
            PROVE  target'[e] # target[c]
        <5>1. CASE Challenge(e)
          BY <3>1, <5>1, NoRowNorCode DEF Challenge, TypeOK
        <5>2. CASE Verify(e)
          BY <1>3, <4>1, <5>2 DEF Verify, Steady, TypeOK
        <5>3. target[e] # target[c] /\ target[c] # NoChallenge
          BY <3>1, <4>1, MfaConstants DEF SteadyOK
        <5> QED
          BY <1>3, <5>1, <5>2, <5>3, TargetMoves
      <4>2. \A d \in Calls \ {c} : target[d] # target[c]
        BY <3>1 DEF SteadyOK
      <4> QED
        BY <1>3, <4>1, <4>2, OneMoves DEF Undisturbed
    <3>5. /\ pc'[c] \in Verifying
          /\ code'[c] = code[c] /\ target'[c] = target[c]
          /\ pc'[c] \in {"verify.find", "verify.delete"} => challenges'[target[c]] # NoRow
          /\ pc'[c] = "verify.compare" => secret'[c] = code[c].secret
          /\ pc'[c] = "answered" => verdict'[c]
      <4>1. CASE c = e
        BY <1>3, <3>1, <4>1, SteadyMoves, SteadyOwnStep
      <4>2. CASE c # e
        <5>1. target[e] # target[c]
          BY <3>1, <4>2 DEF SteadyOK
        <5>2. challenges'[target[c]] = challenges[target[c]]
          BY <1>3, <3>1, <5>1, Frames DEF ChallengeCreate, VerifyDelete, TypeOK
        <5> QED
          BY <1>3, <3>1, <4>2, <5>2, OneMoves DEF Undisturbed, SteadyOK
      <4> QED
        BY <4>1, <4>2
    <3> QED
      BY <2>0, <3>1, <3>2, <3>3, <3>4, <3>5 DEF SteadyOK
  <2> QED
    BY <1>3, <2>1, <2>2, SteadyMoves
<1> QED
  BY <1>1, <1>2, <1>3 DEF Next, SteadyInv, SteadyOK

----------------------------------------------------------------------------
(* The theorems                                                             *)

LEMMA InitInv == Init => IInv
<1> SUFFICES ASSUME Init
             PROVE  IInv
  OBVIOUS
<1>1. TypeOK
  BY MfaConstants DEF Init, TypeOK, PCs
<1>2. CallInv /\ IssueInv /\ GuessInv /\ PendingInv
  BY DEF Init, CallInv, CallOK, IssueInv, GuessInv, PendingInv, Enrolling, Past, Verifying
<1>3. OwnerInv /\ ReplacedInv /\ ShownInv /\ SteadyInv
  BY DEF Init, OwnerInv, ReplacedInv, ShownInv, SteadyInv, SteadyOK, HasRow
<1> QED
  BY <1>1, <1>2, <1>3 DEF IInv

\* The inductive invariant of the challenge and secret stores, for any number of
\* calls, accounts, secrets and challenges, any Ttl and any clock.
THEOREM Invariance == Spec => []IInv
<1>1. IInv /\ [Next]_vars => IInv'
  BY TypeStep, CallStep, IssueStep, GuessStep, PendingStep, OwnerStep, ReplacedStep, ShownStep,
     SteadyStep DEF IInv
<1> QED
  BY <1>1, InitInv, PTL DEF Spec

\* Every variable keeps its type.
THEOREM TypeCorrect == Spec => []TypeOK
  BY Invariance, PTL DEF IInv

\* consume lets one verify call through per challenge: delete throws for the rest.
THEOREM OneShot == Spec => []OneGuess
<1>1. IInv => OneGuess
  BY DEF IInv, GuessInv, OneGuess
<1> QED
  BY <1>1, Invariance, PTL

\* verify answers for the account the challenge was issued to, whoever the code is of.
THEOREM AnswersForOwner == Spec => []RightAccount
<1>1. IInv => RightAccount
  BY DEF IInv, CallInv, CallOK, RightAccount
<1> QED
  BY <1>1, Invariance, PTL

\* No verify call that starts after a secret was replaced accepts a code of it,
\* however the statements of racing enrolments interleave.
THEOREM ReplacementIsFinal == Spec => []ReplacedIsDead
<1>1. IInv => ReplacedIsDead
  BY DEF IInv, ReplacedInv, ReplacedIsDead
<1> QED
  BY <1>1, Invariance, PTL

\* The secret a user is shown is the one stored, until another enrolment of the
\* account writes.
THEOREM EnrolmentHolds == Spec => []ShownIsStored
<1>1. IInv => ShownIsStored
  <2> SUFFICES ASSUME IInv, NEW s \in shown
               PROVE  {Opened(drawnFor[s], r) : r \in RowsOf(drawnFor[s])} = {s}
    BY DEF ShownIsStored
  <2>1. drawnFor[s] \in Accounts /\ s \in Secrets /\ secrets \in SUBSET SecretRows
    BY DEF IInv, OwnerInv, TypeOK
  <2>2. {Opened(drawnFor[s], r) : r \in RowsOf(drawnFor[s])}
            = {k \in Secrets : HasRow(drawnFor[s], k)}
    BY <2>1, OpenedRows
  <2>3. \A k \in Secrets : HasRow(drawnFor[s], k) <=> k = s
    BY DEF IInv, ShownInv, Alone
  <2> QED
    BY <2>1, <2>2, <2>3
<1> QED
  BY <1>1, Invariance, PTL

\* Whoever was shown the secret and has the right code is not refused by anything but
\* a failure: neither a racing call, nor the one-shot deletion, nor another secret of
\* the account stands in the way.
THEOREM RightCodePasses == Spec => []RightCodeAccepted
<1>1. IInv => RightCodeAccepted
  BY DEF IInv, SteadyInv, SteadyOK, RightCodeAccepted
<1> QED
  BY <1>1, Invariance, PTL
==============================================================================
