-------------------------- MODULE SessionStoreProofs --------------------------
(* Theorems about SessionStore.                                              *)
EXTENDS SessionStore, TLAPS

\* The row carries the user, tenant, expiry and authentication of a login.
SameLogin(row, lg) ==
    /\ row \in Rows
    /\ lg \in Rows
    /\ row.user = lg.user
    /\ row.tenant = lg.tenant
    /\ row.expiresAt = lg.expiresAt
    /\ row.authTime = lg.authTime

\* What a suspended call knows.
CallOK(c) ==
    /\ pc[c] = "create.insert" => fresh[c] \in Tokens /\ held[c] \in Rows
    /\ pc[c] \in {"get.find", "rotate.find", "revoke"} => target[c] \in issued
    /\ pc[c] \in {"get.resume", "served", "rotate.resume",
                  "rotate.delete", "rotate.insert"}
          => target[c] \in issued /\ SameLogin(held[c], login[root[target[c]]])
    /\ pc[c] \in {"rotate.delete", "rotate.insert"} => fresh[c] \in Tokens
    /\ pc[c] = "revokeAll" => subject[c] \in Users

CallInv == \A c \in Calls : CallOK(c)

\* What a running deleteMany has found are rows of its user.
MatchedInv ==
    \A c \in Calls : /\ matched[c] \subseteq issued
                     /\ \A t \in matched[c] : login[root[t]].user = subject[c]

\* A token drawn and not inserted yet belongs to one call, and to no row.
FreshInv ==
    \A c \in Calls : fresh[c] # NoToken =>
        /\ fresh[c] \notin issued
        /\ \A d \in Calls : d # c => fresh[d] # fresh[c]

\* Every row was issued and carries its login.
TableInv ==
    /\ Live \subseteq issued
    /\ \A t \in issued : root[t] \in issued /\ login[root[t]] \in Rows
    /\ \A t \in Live : SameLogin(sessions[t], login[root[t]])

\* A session is carried by one row, or by one rotation between its two statements,
\* or, in a transaction, by both: the row is then the one the rotation has taken.
LineageInv ==
    /\ \A t1, t2 \in Live : root[t1] = root[t2] => t1 = t2
    /\ \A t \in Live, c \in Between :
          root[t] = root[target[c]] => HasTransaction /\ t = target[c]
    /\ HasTransaction => \A c \in Between : target[c] \in Live
    /\ \A c, d \in Between : root[target[c]] = root[target[d]] => c = d

\* The sessions whose rows a running deleteMany has found.
Found(c) == {root[t] : t \in matched[c]}

\* A session that was ended is nowhere; one that a deleteMany is about to end is in
\* the row it found, or has been crossed by a rotation.
RevokedInv ==
    /\ ended \subseteq issued
    /\ \A t \in Live : root[t] \notin ended
    /\ \A c \in Between : root[target[c]] \notin ended
    /\ \A c \in Calls, t \in Live :
          root[t] \in Found(c) => t \in matched[c] \/ root[t] \in crossed[c]
    /\ \A c \in Calls, d \in Between :
          root[target[d]] \in Found(c) => root[target[d]] \in crossed[c]

IInv ==
    /\ TypeOK
    /\ CallInv
    /\ MatchedInv
    /\ FreshInv
    /\ TableInv
    /\ LineageInv
    /\ RevokedInv

----------------------------------------------------------------------------
(* Type correctness                                                         *)

LEMMA SettleType ==
    ASSUME TypeOK, NEW c \in Calls, Settle(c)
    PROVE  /\ pc' \in [Calls -> PCs]
           /\ target' \in [Calls -> Tokens \cup {NoToken}]
           /\ subject' \in [Calls -> Users \cup {NoUser}]
           /\ fresh' \in [Calls -> Tokens \cup {NoToken}]
           /\ held' \in [Calls -> Rows \cup {NoRow}]
           /\ matched' \in [Calls -> SUBSET Tokens]
           /\ crossed' \in [Calls -> SUBSET Tokens]
  BY DEF TypeOK, Settle, PCs

LEMMA CreateDraws ==
    ASSUME TypeOK, NEW c \in Calls, Create(c)
    PROVE  \E row \in Rows, t \in Tokens :
              /\ held' = [held EXCEPT ![c] = row]
              /\ fresh' = [fresh EXCEPT ![c] = t]
<1>1. PICK t \in Drawable : fresh' = [fresh EXCEPT ![c] = t]
  BY DEF Create
<1>2. PICK u \in Users, n \in Tenants, ttl \in Ttls, a \in 0 .. clock :
          held' = [held EXCEPT ![c] =
                      [user |-> u, tenant |-> n, createdAt |-> clock,
                       expiresAt |-> clock + ttl, authTime |-> a]]
  BY DEF Create
<1>3. [user |-> u, tenant |-> n, createdAt |-> clock,
       expiresAt |-> clock + ttl, authTime |-> a] \in Rows
  BY SessionConstants DEF TypeOK, Times, Rows
<1> QED
  BY <1>1, <1>2, <1>3 DEF Drawable

LEMMA FoundIssued ==
    ASSUME MatchedInv, TableInv, NEW c \in Calls
    PROVE  Found(c) \subseteq issued
  BY DEF Found, MatchedInv, TableInv

LEMMA TypeStep ==
    ASSUME TypeOK, CallInv, MatchedInv, TableInv, [Next]_vars
    PROVE  TypeOK'
<1> USE DEF TypeOK
<1>1. ASSUME NEW c \in Calls, NEW at \in Awaits, BeginOnToken(c, at)
      PROVE  TypeOK'
  BY <1>1 DEF BeginOnToken, tables, PCs
<1>2. ASSUME NEW c \in Calls, Create(c)
      PROVE  TypeOK'
  <2>1. /\ held' \in [Calls -> Rows \cup {NoRow}]
        /\ fresh' \in [Calls -> Tokens \cup {NoToken}]
    BY <1>2, CreateDraws
  <2> QED
    BY <1>2, <2>1 DEF Create, tables, PCs, Awaits
<1>3. ASSUME NEW c \in Calls, CreateInsert(c)
      PROVE  TypeOK'
  BY <1>3, SettleType DEF CreateInsert, CallInv, CallOK
<1>4. ASSUME NEW c \in Calls, GetFind(c) \/ RotateFind(c)
      PROVE  TypeOK'
  <2>1. CASE Settle(c) /\ UNCHANGED <<tables, clock>>
    BY <2>1, SettleType DEF tables
  <2>2. CASE /\ pc' \in {[pc EXCEPT ![c] = "get.resume"],
                         [pc EXCEPT ![c] = "rotate.resume"]}
             /\ sessions[target[c]] # NoRow
             /\ pc[c] \in {"get.find", "rotate.find"}
             /\ held' = [held EXCEPT ![c] = sessions[target[c]]]
             /\ UNCHANGED <<target, subject, fresh, matched, crossed, tables, clock>>
    <3>1. sessions[target[c]] \in Rows
      BY <2>2 DEF CallInv, CallOK
    <3> QED
      BY <2>2, <3>1 DEF tables, PCs, Awaits
  <2> QED
    BY <1>4, <2>1, <2>2 DEF GetFind, RotateFind
<1>5. ASSUME NEW c \in Calls, GetResume(c)
      PROVE  TypeOK'
  BY <1>5, SettleType DEF GetResume, tables, locals, PCs
<1>6. ASSUME NEW c \in Calls, RotateResume(c)
      PROVE  TypeOK'
  <2>1. held[c] \in Rows
    BY <1>6 DEF RotateResume, CallInv, CallOK, SameLogin
  <2>2. [held[c] EXCEPT !.createdAt = clock] \in Rows
    BY <2>1 DEF Rows
  <2>3. held' = [held EXCEPT ![c] = [held[c] EXCEPT !.createdAt = clock]]
    BY <1>6 DEF RotateResume
  <2>4. held' \in [Calls -> Rows \cup {NoRow}]
    BY <2>2, <2>3
  <2>5. fresh' \in [Calls -> Tokens \cup {NoToken}]
    BY <1>6 DEF RotateResume, Drawable
  <2> QED
    BY <1>6, <2>4, <2>5 DEF RotateResume, tables, PCs, Awaits
<1>7. ASSUME NEW c \in Calls, RotateInsert(c)
      PROVE  TypeOK'
  <2>1. /\ fresh[c] \in Tokens
        /\ target[c] \in Tokens
        /\ held[c] \in Rows
    BY <1>7 DEF RotateInsert, CallInv, CallOK, SameLogin
  <2>2. /\ sessions' \in [Tokens -> Rows \cup {NoRow}]
        /\ issued' \in SUBSET Tokens
        /\ root' \in [Tokens -> Tokens \cup {NoToken}]
        /\ UNCHANGED <<login, ended, spared, clock>>
    BY <1>7, <2>1 DEF RotateInsert
  <2>3. Settle(c)
    BY <1>7 DEF RotateInsert
  <2> QED
    BY <2>2, <2>3, SettleType
<1>8. ASSUME NEW c \in Calls, RotateDelete(c)
      PROVE  TypeOK'
  <2>1. target[c] \in issued /\ root[target[c]] \in Tokens
    BY <1>8 DEF RotateDelete, CallInv, CallOK, TableInv
  <2>2. crossed' \in [Calls -> SUBSET Tokens]
    BY <1>8, <2>1 DEF RotateDelete, Crosses
  <2>3. sessions' \in [Tokens -> Rows \cup {NoRow}]
    BY <1>8 DEF RotateDelete
  <2> QED
    BY <1>8, <2>2, <2>3 DEF RotateDelete, PCs, Awaits
<1>9. ASSUME NEW c \in Calls, RotateConflict(c) \/ Fail(c) \/ Served(c)
      PROVE  TypeOK'
  BY <1>9, SettleType DEF RotateConflict, Fail, Served, tables
<1>10. ASSUME NEW c \in Calls, RevokeDelete(c)
       PROVE  TypeOK'
  BY <1>10, SettleType DEF RevokeDelete
<1>11. ASSUME NEW c \in Calls, RevokeAll(c)
       PROVE  TypeOK'
  <2>1. \A u : InExchange(u) \subseteq Tokens
    BY DEF InExchange, Between, CallInv, CallOK, TableInv
  <2> QED
    BY <1>11, <2>1 DEF RevokeAll, tables, PCs, Awaits, Live
<1>12. ASSUME NEW c \in Calls, RevokeAllDelete(c)
       PROVE  TypeOK'
  <2>1. ended' \in SUBSET Tokens /\ spared' \in SUBSET Tokens
    BY <1>12, FoundIssued DEF RevokeAllDelete, Found
  <2>2. sessions' \in [Tokens -> Rows \cup {NoRow}]
    BY <1>12 DEF RevokeAllDelete
  <2> QED
    BY <1>12, <2>1, <2>2, SettleType DEF RevokeAllDelete
<1>13. CASE Sweep
  BY <1>13 DEF Sweep, locals
<1>14. CASE Tick
  BY <1>14, SessionConstants DEF Tick, tables, locals, Times
<1>15. CASE UNCHANGED vars
  BY <1>15 DEF vars
<1> QED
  BY <1>1, <1>2, <1>3, <1>4, <1>5, <1>6, <1>7, <1>8, <1>9, <1>10, <1>11, <1>12,
     <1>13, <1>14, <1>15
     DEF Next, Step, Get, Rotate, Revoke, Awaits

----------------------------------------------------------------------------
(* Frames: what a step leaves alone                                         *)

\* A step of one call does not touch the variables of another.
LEMMA OtherCalls ==
    ASSUME TypeOK, NEW c \in Calls, Step(c), NEW d \in Calls, d # c
    PROVE  /\ pc'[d] = pc[d]
           /\ target'[d] = target[d]
           /\ subject'[d] = subject[d]
           /\ fresh'[d] = fresh[d]
           /\ held'[d] = held[d]
           /\ matched'[d] = matched[d]
<1> USE DEF TypeOK
<1>1. CASE Settle(c)
  BY <1>1 DEF Settle
<1>2. CASE UNCHANGED locals /\ \E at \in PCs : pc' = [pc EXCEPT ![c] = at]
  BY <1>2 DEF locals
<1>3. CASE Create(c)
  BY <1>3 DEF Create
<1>4. CASE RotateResume(c)
  BY <1>4 DEF RotateResume
<1>5. CASE RevokeAll(c)
  BY <1>5 DEF RevokeAll
<1>6. CASE \E at : BeginOnToken(c, at)
  BY <1>6 DEF BeginOnToken
<1>7. CASE GetFind(c) \/ RotateFind(c)
  BY <1>1, <1>7 DEF GetFind, RotateFind
<1>8. CASE GetResume(c)
  BY <1>1, <1>8 DEF GetResume, locals
<1>9. CASE RotateDelete(c)
  BY <1>9 DEF RotateDelete
<1> QED
  BY <1>1, <1>3, <1>4, <1>5, <1>6, <1>7, <1>8, <1>9
     DEF Step, Get, Rotate, Revoke, CreateInsert, Served, RotateInsert,
         RotateConflict, RevokeDelete, RevokeAllDelete, Fail

\* The two steps that insert a row add one fresh token to the history; no
\* other step changes it.
LEMMA HistoryStep ==
    ASSUME IInv, NEW c \in Calls, Step(c)
    PROVE  \/ UNCHANGED <<issued, root, login>>
           \/ /\ fresh[c] \in Tokens \ issued
              /\ issued' = issued \cup {fresh[c]}
              /\ \A t \in issued : root'[t] = root[t] /\ login'[t] = login[t]
<1> USE DEF IInv, TypeOK
<1>1. CASE CreateInsert(c)
  <2>1. /\ fresh[c] \in Tokens
        /\ fresh[c] \notin issued
    BY <1>1, SessionConstants DEF CreateInsert, CallInv, CallOK, FreshInv
  <2> QED
    BY <1>1, <2>1 DEF CreateInsert
<1>2. CASE RotateInsert(c)
  <2>1. /\ fresh[c] \in Tokens
        /\ fresh[c] \notin issued
    BY <1>2, SessionConstants DEF RotateInsert, CallInv, CallOK, FreshInv
  <2> QED
    BY <1>2, <2>1 DEF RotateInsert
<1> QED
  BY <1>1, <1>2
     DEF Step, Get, Rotate, Revoke, BeginOnToken, Create, GetFind, GetResume, Served,
         RotateFind, RotateResume, RotateDelete, RotateConflict, RevokeDelete,
         RevokeAll, RevokeAllDelete, Fail, tables

\* So the session an issued token belongs to is settled once and for all.
LEMMA HistoryStable ==
    ASSUME IInv, [Next]_vars, NEW t \in issued
    PROVE  /\ t \in issued'
           /\ root'[t] = root[t]
           /\ root[t] \in issued
           /\ login'[root[t]] = login[root[t]]
<1>1. root[t] \in issued
  BY DEF IInv, TableInv
<1>2. CASE UNCHANGED <<issued, root, login>>
  BY <1>1, <1>2
<1>3. ASSUME NEW c \in Calls, Step(c)
      PROVE  /\ t \in issued'
             /\ root'[t] = root[t]
             /\ login'[root[t]] = login[root[t]]
  BY <1>1, <1>3, HistoryStep
<1> QED
  BY <1>1, <1>2, <1>3 DEF Next, Sweep, Tick, vars, tables

\* A call none of whose variables change still knows what it knew.
LEMMA CallFrame ==
    ASSUME IInv, [Next]_vars, NEW d \in Calls,
           pc'[d] = pc[d], target'[d] = target[d], subject'[d] = subject[d],
           fresh'[d] = fresh[d], held'[d] = held[d]
    PROVE  CallOK(d)'
<1>1. CallOK(d)
  BY DEF IInv, CallInv
<1>2. ASSUME target[d] \in issued
      PROVE  /\ target[d] \in issued'
             /\ login'[root'[target[d]]] = login[root[target[d]]]
  BY <1>2, HistoryStable
<1> QED
  BY <1>1, <1>2 DEF CallOK

LEMMA CallStep ==
    ASSUME IInv, [Next]_vars
    PROVE  CallInv'
<1>1. ASSUME NEW c \in Calls, Step(c)
      PROVE  CallInv'
  <2>1. ASSUME NEW d \in Calls, d # c
        PROVE  CallOK(d)'
    BY <1>1, <2>1, OtherCalls, CallFrame DEF IInv
  <2>2. CallOK(c)'
    <3>1. CallOK(c) /\ TypeOK
      BY DEF IInv, CallInv
    <3>2. ASSUME target[c] \in issued
          PROVE  /\ target[c] \in issued'
                 /\ login'[root'[target[c]]] = login[root[target[c]]]
      BY <3>2, HistoryStable
    <3>3. CASE pc'[c] = "idle"
      BY <3>3 DEF CallOK
    <3>4. ASSUME NEW at \in {"get.find", "rotate.find", "revoke"}, BeginOnToken(c, at)
          PROVE  CallOK(c)'
      BY <3>1, <3>4 DEF BeginOnToken, CallOK, TypeOK, tables
    <3>5. CASE Create(c)
      <4>1. PICK row \in Rows, t \in Tokens :
                /\ held' = [held EXCEPT ![c] = row]
                /\ fresh' = [fresh EXCEPT ![c] = t]
        BY <3>1, <3>5, CreateDraws
      <4>2. /\ pc'[c] = "create.insert"
            /\ fresh'[c] \in Tokens
            /\ held'[c] \in Rows
        BY <3>1, <3>5, <4>1 DEF Create, TypeOK
      <4> QED
        BY <4>2 DEF CallOK
    <3>6. CASE GetFind(c) \/ RotateFind(c)
      <4>1. CASE Settle(c)
        BY <3>1, <3>3, <4>1 DEF Settle, TypeOK
      <4>2. CASE ~Settle(c)
        <5>1. /\ target[c] \in issued
              /\ sessions[target[c]] # NoRow
              /\ pc'[c] \in {"get.resume", "rotate.resume"}
              /\ held'[c] = sessions[target[c]]
              /\ target'[c] = target[c]
          BY <3>1, <3>6, <4>2 DEF GetFind, RotateFind, CallOK, TypeOK
        <5>2. SameLogin(sessions[target[c]], login[root[target[c]]])
          BY <5>1 DEF IInv, TypeOK, TableInv, Live
        <5> QED
          BY <3>2, <5>1, <5>2 DEF CallOK
      <4> QED
        BY <4>1, <4>2
    <3>7. CASE GetResume(c)
      <4>1. CASE Settle(c)
        BY <3>1, <3>3, <4>1 DEF Settle, TypeOK
      <4>2. CASE ~Settle(c)
        BY <3>1, <3>2, <3>7, <4>2 DEF GetResume, CallOK, TypeOK, locals, tables
      <4> QED
        BY <4>1, <4>2
    <3>8. CASE RotateResume(c)
      <4>1. /\ pc'[c] = "rotate.delete"
            /\ target'[c] = target[c]
            /\ fresh'[c] \in Tokens
            /\ held'[c] = [held[c] EXCEPT !.createdAt = clock]
        BY <3>1, <3>8 DEF RotateResume, Drawable, TypeOK
      <4>2. /\ target[c] \in issued
            /\ SameLogin(held[c], login[root[target[c]]])
        BY <3>1, <3>8 DEF RotateResume, CallOK
      <4>3. SameLogin(held'[c], login[root[target[c]]])
        BY <3>1, <4>1, <4>2 DEF SameLogin, Rows, TypeOK
      <4> QED
        BY <3>2, <4>1, <4>2, <4>3 DEF CallOK
    <3>9. CASE RotateDelete(c)
      BY <3>1, <3>2, <3>9 DEF RotateDelete, CallOK, TypeOK
    <3>10. CASE RevokeAll(c)
      BY <3>1, <3>10 DEF RevokeAll, CallOK, TypeOK
    <3>11. CASE Settle(c)
      BY <3>1, <3>3, <3>11 DEF Settle, TypeOK
    <3> QED
      BY <1>1, <3>4, <3>5, <3>6, <3>7, <3>8, <3>9, <3>10, <3>11
         DEF Step, Get, Rotate, Revoke, CreateInsert, Served, RotateInsert,
             RotateConflict, RevokeDelete, RevokeAllDelete, Fail
  <2> QED
    BY <2>1, <2>2 DEF CallInv
<1>2. CASE UNCHANGED <<pc, locals>>
  BY <1>2, CallFrame DEF CallInv, locals
<1> QED
  BY <1>1, <1>2 DEF Next, Sweep, Tick, vars, locals

\* A deleteMany keeps what it has found until it is over.
LEMMA MatchedFrame ==
    ASSUME TypeOK, [Next]_vars, NEW d \in Calls
    PROVE  \/ matched'[d] = {} /\ crossed'[d] = {}
           \/ /\ matched'[d] = matched[d] /\ subject'[d] = subject[d]
              /\ crossed'[d] = crossed[d] \/ \E c \in Calls : RotateDelete(c)
           \/ RevokeAll(d)
<1> USE DEF TypeOK
<1>1. ASSUME NEW c \in Calls, Step(c)
      PROVE  \/ matched'[d] = {} /\ crossed'[d] = {}
             \/ /\ matched'[d] = matched[d] /\ subject'[d] = subject[d]
                /\ crossed'[d] = crossed[d] \/ \E e \in Calls : RotateDelete(e)
             \/ RevokeAll(d)
  <2>1. CASE Settle(c)
    BY <2>1 DEF Settle
  <2>2. CASE RevokeAll(c)
    BY <2>2 DEF RevokeAll
  <2>3. CASE RotateDelete(c)
    BY <2>3 DEF RotateDelete
  <2>4. CASE UNCHANGED <<matched, crossed, subject>>
    BY <2>4
  <2> QED
    BY <1>1, <2>1, <2>2, <2>3, <2>4
       DEF Step, Get, Rotate, Revoke, BeginOnToken, Create, CreateInsert, GetFind,
           GetResume, Served, RotateFind, RotateResume, RotateInsert, RotateConflict,
           RevokeDelete, RevokeAllDelete, Fail, locals
<1>2. CASE UNCHANGED locals
  BY <1>2 DEF locals
<1> QED
  BY <1>1, <1>2 DEF Next, Sweep, Tick, vars, locals

LEMMA MatchedStep ==
    ASSUME IInv, [Next]_vars
    PROVE  MatchedInv'
<1> SUFFICES ASSUME NEW d \in Calls
             PROVE  /\ matched'[d] \subseteq issued'
                    /\ \A t \in matched'[d] : login'[root'[t]].user = subject'[d]
  BY DEF MatchedInv
<1>1. CASE matched'[d] = {}
  BY <1>1
<1>2. CASE matched'[d] = matched[d] /\ subject'[d] = subject[d]
  BY <1>2, HistoryStable DEF IInv, MatchedInv
<1>3. CASE RevokeAll(d)
  <2>1. \A t \in matched'[d] : t \in Live /\ sessions[t].user = subject'[d]
    BY <1>3 DEF RevokeAll, IInv, TypeOK
  <2>2. UNCHANGED <<issued, root, login>>
    BY <1>3 DEF RevokeAll, tables
  <2> QED
    BY <2>1, <2>2 DEF IInv, TableInv, SameLogin
<1> QED
  BY <1>1, <1>2, <1>3, MatchedFrame DEF IInv

----------------------------------------------------------------------------
(* Drawn tokens                                                             *)

LEMMA FreshStep ==
    ASSUME IInv, [Next]_vars
    PROVE  FreshInv'
<1>1. ASSUME NEW c \in Calls, Step(c)
      PROVE  FreshInv'
  <2>1. \/ fresh'[c] = NoToken
        \/ fresh'[c] = fresh[c] /\ issued' = issued
        \/ fresh'[c] \in Drawable /\ issued' = issued
    <3> USE DEF IInv, TypeOK
    <3>1. CASE Settle(c)
      BY <3>1 DEF Settle
    <3>2. CASE Create(c) \/ RotateResume(c)
      BY <3>2 DEF Create, RotateResume, Drawable, tables
    <3> QED
      BY <1>1, <3>1, <3>2
         DEF Step, Get, Rotate, Revoke, BeginOnToken, CreateInsert, GetFind, GetResume,
             Served, RotateFind, RotateDelete, RotateInsert, RotateConflict,
             RevokeDelete, RevokeAll, RevokeAllDelete, Fail, tables, locals
  <2>2. \A d \in Calls : d # c => fresh'[d] = fresh[d]
    BY <1>1, OtherCalls DEF IInv
  <2>3. \/ issued' = issued
        \/ issued' = issued \cup {fresh[c]} /\ fresh[c] # NoToken
    BY <1>1, HistoryStep, SessionConstants
  <2>4. FreshInv
    BY DEF IInv
  <2>5. CASE issued' = issued
    BY <2>1, <2>2, <2>4, <2>5 DEF FreshInv, Drawable
  <2>6. CASE issued' = issued \cup {fresh[c]} /\ fresh[c] # NoToken
    <3>1. fresh'[c] = NoToken \/ issued' = issued
      BY <2>1, <2>6 DEF FreshInv
    <3> QED
      BY <2>2, <2>4, <2>5, <2>6, <3>1 DEF FreshInv
  <2> QED
    BY <2>3, <2>5, <2>6
<1>2. CASE UNCHANGED <<fresh, issued>>
  BY <1>2 DEF IInv, FreshInv
<1> QED
  BY <1>1, <1>2 DEF Next, Sweep, Tick, vars, tables, locals

----------------------------------------------------------------------------
(* The table                                                                *)

\* What a step does to the rows.
Inserts(c) ==
    /\ fresh[c] \in Tokens \ issued
    /\ issued' = issued \cup {fresh[c]}
    /\ Live' \subseteq Live \cup {fresh[c]}
    /\ fresh[c] \in Live'
    /\ sessions'[fresh[c]] = held[c]
    /\ \A t \in Live' : t # fresh[c] => sessions'[t] = sessions[t]
    /\ \A t \in issued : root'[t] = root[t] /\ login'[t] = login[t]

\* No row appears, and no row changes.
Shrinks ==
    /\ Live' \subseteq Live
    /\ \A t \in Live' : sessions'[t] = sessions[t]
    /\ UNCHANGED <<issued, root, login>>

LEMMA CreateInserts ==
    ASSUME IInv, NEW c \in Calls, CreateInsert(c)
    PROVE  /\ Inserts(c)
           /\ root'[fresh[c]] = fresh[c]
           /\ login'[fresh[c]] = held[c]
           /\ held[c] \in Rows
           /\ ended' = ended
<1>1. /\ fresh[c] \in Tokens
      /\ fresh[c] \notin issued
      /\ held[c] \in Rows
  BY SessionConstants DEF IInv, CreateInsert, CallInv, CallOK, FreshInv
<1> QED
  BY <1>1, NoRowIsNoRow DEF IInv, TypeOK, CreateInsert, Inserts, Live

LEMMA RotationInserts ==
    ASSUME IInv, NEW c \in Calls, RotateInsert(c)
    PROVE  /\ Inserts(c)
           /\ target[c] \in issued
           /\ target[c] \notin Live'
           /\ root'[fresh[c]] = root[target[c]]
           /\ SameLogin(held[c], login[root[target[c]]])
           /\ ended' = ended
<1>1. /\ fresh[c] \in Tokens
      /\ fresh[c] \notin issued
      /\ target[c] \in issued
      /\ SameLogin(held[c], login[root[target[c]]])
  BY SessionConstants DEF IInv, RotateInsert, CallInv, CallOK, FreshInv
<1>2. held[c] \in Rows /\ target[c] \in Tokens
  BY <1>1 DEF SameLogin, IInv, TypeOK
<1> QED
  BY <1>1, <1>2, NoRowIsNoRow DEF IInv, TypeOK, RotateInsert, Inserts, Live

LEMMA OtherwiseShrinks ==
    ASSUME IInv, [Next]_vars,
           ~ \E c \in Calls : CreateInsert(c) \/ RotateInsert(c)
    PROVE  Shrinks
<1> USE DEF IInv, TypeOK, Shrinks, Live
<1>1. CASE UNCHANGED tables
  BY <1>1 DEF tables
<1>2. ASSUME NEW c \in Calls, RotateDelete(c)
      PROVE  Shrinks
  BY <1>2 DEF RotateDelete
<1>3. ASSUME NEW c \in Calls, RevokeDelete(c)
      PROVE  Shrinks
  BY <1>3 DEF RevokeDelete
<1>4. ASSUME NEW c \in Calls, RevokeAllDelete(c)
      PROVE  Shrinks
  BY <1>4 DEF RevokeAllDelete
<1>5. CASE Sweep
  BY <1>5 DEF Sweep
<1> QED
  BY <1>1, <1>2, <1>3, <1>4, <1>5
     DEF Next, Step, Get, Rotate, Revoke, BeginOnToken, Create, GetFind, GetResume,
         Served, RotateFind, RotateResume, RotateConflict, RevokeAll, Fail, Tick,
         vars, tables

LEMMA TableStep ==
    ASSUME IInv, [Next]_vars
    PROVE  TableInv'
<1> USE DEF IInv
<1>1. ASSUME NEW c \in Calls, CreateInsert(c)
      PROVE  TableInv'
  <2>1. SameLogin(held[c], held[c])
    BY <1>1, CreateInserts DEF SameLogin
  <2> QED
    BY <1>1, <2>1, CreateInserts DEF TableInv, Inserts
<1>2. ASSUME NEW c \in Calls, RotateInsert(c)
      PROVE  TableInv'
  <2>1. root[target[c]] \in issued /\ login[root[target[c]]] \in Rows
    BY <1>2, RotationInserts DEF TableInv
  <2> QED
    BY <1>2, <2>1, RotationInserts DEF TableInv, Inserts
<1>3. CASE Shrinks
  BY <1>3 DEF Shrinks, TableInv
<1> QED
  BY <1>1, <1>2, <1>3, OtherwiseShrinks

----------------------------------------------------------------------------
(* One bearer a session                                                     *)

\* A call enters the gap between the two statements by RotateDelete only.
LEMMA BetweenStep ==
    ASSUME IInv, NEW c \in Calls, Step(c), NEW d \in Between'
    PROVE  /\ d \in Calls
           /\ target'[d] = target[d]
           /\ d \in Between \/ (d = c /\ RotateDelete(c))
           /\ d = c => RotateDelete(c)
<1> USE DEF IInv, TypeOK, Between
<1>1. CASE d # c
  BY <1>1, OtherCalls
<1>2. CASE d = c
  <2>1. CASE Settle(c)
    BY <1>2, <2>1 DEF Settle
  <2>2. CASE RotateDelete(c)
    BY <1>2, <2>2 DEF RotateDelete
  <2> QED
    BY <1>2, <2>1, <2>2
       DEF Step, Get, Rotate, Revoke, BeginOnToken, Create, CreateInsert, GetFind,
           GetResume, Served, RotateFind, RotateResume, RotateInsert, RotateConflict,
           RevokeDelete, RevokeAll, RevokeAllDelete, Fail, locals
<1> QED
  BY <1>1, <1>2

\* A rotation that commits in a transaction puts its row in the place of the old one.
LEMMA InsertionSwaps ==
    ASSUME IInv, NEW c \in Calls, RotateInsert(c)
    PROVE  Live' = (Live \ {target[c]}) \cup {fresh[c]}
<1>1. Inserts(c) /\ target[c] \notin Live'
  BY RotationInserts
<1>2. \A x \in Tokens : x \notin {target[c], fresh[c]} => sessions'[x] = sessions[x]
  BY DEF RotateInsert, IInv, TypeOK
<1> QED
  BY <1>1, <1>2 DEF Inserts, Live

\* No row that a transaction has taken is deleted by another statement.
LEMMA LockedStay ==
    ASSUME IInv, [Next]_vars, NEW t \in Live, t \in Locked,
           ~ \E c \in Calls : RotateInsert(c)
    PROVE  t \in Live'
<1> USE DEF IInv, TypeOK, Live
<1>1. CASE UNCHANGED sessions
  BY <1>1
<1>2. ASSUME NEW c \in Calls, CreateInsert(c)
      PROVE  t \in Live'
  BY <1>2, NoRowIsNoRow DEF CreateInsert, CallInv, CallOK
<1>3. ASSUME NEW c \in Calls, RotateDelete(c)
      PROVE  t \in Live'
  BY <1>3 DEF RotateDelete, Locked
<1>4. ASSUME NEW c \in Calls, RevokeDelete(c)
      PROVE  t \in Live'
  BY <1>4 DEF RevokeDelete
<1>5. ASSUME NEW c \in Calls, RevokeAllDelete(c)
      PROVE  t \in Live'
  BY <1>5 DEF RevokeAllDelete
<1>6. CASE Sweep
  BY <1>6 DEF Sweep
<1> QED
  BY <1>1, <1>2, <1>3, <1>4, <1>5, <1>6
     DEF Next, Step, Get, Rotate, Revoke, BeginOnToken, Create, GetFind, GetResume,
         Served, RotateFind, RotateResume, RotateConflict, RevokeAll, Fail, Tick,
         vars, tables

LEMMA LineageStep ==
    ASSUME IInv, [Next]_vars
    PROVE  LineageInv'
<1> USE DEF IInv
<1>0. /\ \A t \in Live : t \in issued /\ root[t] \in issued
      /\ \A d \in Between : target[d] \in issued /\ root[target[d]] \in issued
  BY DEF TableInv, Between, CallInv, CallOK
<1>1. ASSUME NEW c \in Calls, CreateInsert(c)
      PROVE  LineageInv'
  <2>1. \A d \in Between' : d \in Between /\ target'[d] = target[d]
    <3>1. ~RotateDelete(c)
      BY <1>1 DEF CreateInsert, RotateDelete
    <3> QED
      BY <1>1, <3>1, BetweenStep DEF Step
  <2>2. /\ Inserts(c)
        /\ root'[fresh[c]] = fresh[c]
    BY <1>1, CreateInserts
  <2>3. Live \subseteq Live'
    BY <1>1, NoRowIsNoRow DEF CreateInsert, CallInv, CallOK, Live, TypeOK
  <2> QED
    BY <1>0, <2>1, <2>2, <2>3 DEF LineageInv, Inserts
<1>2. ASSUME NEW c \in Calls, RotateInsert(c)
      PROVE  LineageInv'
  <2>1. \A d \in Between' : d \in Between /\ d # c /\ target'[d] = target[d]
    <3>1. ~RotateDelete(c)
      BY <1>2 DEF RotateInsert, RotateDelete
    <3> QED
      BY <1>2, <3>1, BetweenStep DEF Step
  <2>2. /\ Inserts(c)
        /\ root'[fresh[c]] = root[target[c]]
    BY <1>2, RotationInserts
  <2>3. c \in Between
    BY <1>2 DEF RotateInsert, Between
  <2>4. Live' = (Live \ {target[c]}) \cup {fresh[c]}
    BY <1>2, InsertionSwaps
  <2>5. \A t \in Live \ {target[c]} : root[t] # root[target[c]] /\ root'[t] = root[t]
    BY <1>0, <2>2, <2>3 DEF LineageInv, Inserts
  <2>6. \A d \in Between' : /\ root'[target'[d]] = root[target[d]]
                            /\ root[target[d]] # root[target[c]]
                            /\ target[d] # fresh[c]
    BY <1>0, <2>1, <2>2, <2>3 DEF LineageInv, Inserts
  <2> QED
    BY <2>1, <2>2, <2>4, <2>5, <2>6 DEF LineageInv
<1>3. ASSUME NEW c \in Calls, RotateDelete(c)
      PROVE  LineageInv'
  <2>1. \A d \in Between' : /\ target'[d] = target[d]
                            /\ d \in Between \/ d = c
    BY <1>3, BetweenStep DEF Step
  <2>2. /\ target[c] \in Live
        /\ Live' = IF HasTransaction THEN Live ELSE Live \ {target[c]}
        /\ root' = root
        /\ target[c] \in issued
        /\ target[c] \notin Locked
    BY <1>3 DEF RotateDelete, Deletable, Live, TypeOK, CallInv, CallOK
  <2>3. \A d \in Between : root[target[d]] # root[target[c]]
    BY <2>2 DEF LineageInv, Locked
  <2> QED
    BY <1>0, <2>1, <2>2, <2>3 DEF LineageInv
<1>4. CASE ~ \E c \in Calls : CreateInsert(c) \/ RotateInsert(c) \/ RotateDelete(c)
  <2>1. Shrinks
    BY <1>4, OtherwiseShrinks
  <2>2. \A d \in Between' : d \in Between /\ target'[d] = target[d]
    <3>1. CASE UNCHANGED <<pc, locals>>
      BY <3>1 DEF Between, locals
    <3> QED
      BY <1>4, <3>1, BetweenStep DEF Next, Sweep, Tick, vars, locals
  <2>3. HasTransaction => \A d \in Between : target[d] \in Live'
    BY <1>4, LockedStay DEF LineageInv, Locked
  <2> QED
    BY <2>1, <2>2, <2>3 DEF Shrinks, LineageInv
<1> QED
  BY <1>1, <1>2, <1>3, <1>4

----------------------------------------------------------------------------
(* Revoked sessions                                                         *)

\* Where the sessions are that a step may bring back: in rows and in rotations.
LEMMA Whereabouts ==
    ASSUME IInv, [Next]_vars
    PROVE  /\ \A t \in Live' : \/ t \in Live /\ root'[t] = root[t]
                               \/ t \notin issued /\ root'[t] \notin issued
                               \/ /\ t \notin issued
                                  /\ \E c \in Between : root'[t] = root[target[c]]
           /\ \A d \in Between' :
                 /\ target'[d] = target[d] /\ target[d] \in issued
                 /\ root'[target[d]] = root[target[d]]
                 /\ d \in Between \/ RotateDelete(d)
<1> USE DEF IInv
<1>1. \A t \in Live : t \in issued /\ root[t] \in issued /\ root'[t] = root[t]
  BY HistoryStable DEF TableInv
<1>2. \A d \in Between' : /\ target'[d] = target[d]
                          /\ d \in Between \/ RotateDelete(d)
  <2>1. CASE UNCHANGED <<pc, locals>>
    BY <2>1 DEF Between, locals
  <2> QED
    BY <2>1, BetweenStep DEF Next, Sweep, Tick, vars, locals
<1>3. \A d \in Between' : target[d] \in issued /\ root'[target[d]] = root[target[d]]
  <2>1. \A d \in Calls : d \in Between \/ RotateDelete(d) => target[d] \in issued
    BY DEF Between, RotateDelete, CallInv, CallOK
  <2> QED
    BY <1>2, <2>1, HistoryStable DEF Between
<1>4. ASSUME NEW c \in Calls, CreateInsert(c), NEW t \in Live'
      PROVE  t \in Live \/ (t \notin issued /\ root'[t] \notin issued)
  BY <1>4, CreateInserts DEF Inserts
<1>5. ASSUME NEW c \in Calls, RotateInsert(c), NEW t \in Live'
      PROVE  t \in Live \/ (t \notin issued /\ c \in Between /\ root'[t] = root[target[c]])
  BY <1>5, RotationInserts DEF Inserts, RotateInsert, Between
<1>6. CASE Shrinks
  BY <1>1, <1>2, <1>3, <1>6 DEF Shrinks
<1> QED
  BY <1>1, <1>2, <1>3, <1>4, <1>5, <1>6, OtherwiseShrinks

\* What a deleteMany found keeps being where RevokedInv says, by a step that does
\* not begin one.
LEMMA RevokedStep ==
    ASSUME IInv, [Next]_vars
    PROVE  RevokedInv'
<1> USE DEF IInv
<1>1. \A d \in Calls : matched[d] \subseteq issued /\ Found(d) \subseteq issued
  BY FoundIssued DEF MatchedInv
<1>2. issued \subseteq issued' /\ \A t \in issued : root'[t] = root[t]
  BY HistoryStable
<1>3. \A t \in Live : t \in issued /\ root[t] \in issued
  BY DEF TableInv
<1>4. ASSUME NEW d \in Calls, matched'[d] = matched[d], crossed[d] \subseteq crossed'[d]
      PROVE  /\ \A t \in Live' : root'[t] \in Found(d)' =>
                                    t \in matched'[d] \/ root'[t] \in crossed'[d]
             /\ \A e \in Between' : root'[target'[e]] \in Found(d)' =>
                                       root'[target'[e]] \in crossed'[d]
  <2>1. Found(d)' = Found(d)
    BY <1>1, <1>2, <1>4 DEF Found
  <2>2. \A t \in Live' : root'[t] \in Found(d) =>
                            t \in matched[d] \/ root'[t] \in crossed[d]
    BY <1>1, Whereabouts DEF RevokedInv
  <2>3. ASSUME NEW e \in Between', root[target[e]] \in Found(d)
        PROVE  root[target[e]] \in crossed'[d]
    <3>1. CASE e \in Between
      BY <1>4, <2>3, <3>1 DEF RevokedInv
    <3>2. CASE RotateDelete(e)
      <4>1. e \in Calls /\ target[e] \in issued /\ sessions[target[e]] # NoRow
        BY <2>3, <3>2 DEF RotateDelete, Deletable, Between, CallInv, CallOK
      <4>1a. target[e] \in Live
        BY <4>1 DEF Live, TypeOK
      <4>2. target[e] \in matched[d] \/ root[target[e]] \in crossed[d]
        BY <2>3, <4>1, <4>1a DEF RevokedInv
      <4> QED
        BY <1>4, <3>2, <4>2 DEF RotateDelete, Crosses
    <3> QED
      BY <2>3, <3>1, <3>2, Whereabouts DEF Between
  <2> QED
    BY <1>4, <2>1, <2>2, <2>3, Whereabouts
<1>5. ASSUME NEW d \in Calls, RevokeAll(d)
      PROVE  /\ \A t \in Live' : root'[t] \in Found(d)' =>
                                    t \in matched'[d] \/ root'[t] \in crossed'[d]
             /\ \A e \in Between' : root'[target'[e]] \in Found(d)' =>
                                       root'[target'[e]] \in crossed'[d]
  <2>1. PICK u \in Users : /\ matched'[d] = {t \in Live : sessions[t].user = u}
                           /\ crossed'[d] = InExchange(u)
    BY <1>5 DEF RevokeAll, TypeOK
  <2>2. Live' = Live /\ root' = root
    BY <1>5 DEF RevokeAll, tables, Live
  <2>3. \A e \in Between' : e \in Between /\ target'[e] = target[e]
    BY <1>5, BetweenStep DEF Step, RevokeAll, RotateDelete
  <2>4. \A t1, t2 \in Live : root[t1] = root[t2] => t1 = t2
    BY DEF LineageInv
  <2>5. ASSUME NEW e \in Between, NEW t \in matched'[d], root[t] = root[target[e]]
        PROVE  root[target[e]] \in crossed'[d]
    <3>1. SameLogin(held[e], login[root[t]]) /\ SameLogin(sessions[t], login[root[t]])
      BY <2>1, <2>5 DEF Between, CallInv, CallOK, TableInv
    <3> QED
      BY <2>1, <2>5, <3>1 DEF SameLogin, InExchange
  <2>6. Found(d)' = {root[t] : t \in matched'[d]}
    BY <2>2 DEF Found
  <2> QED
    BY <2>1, <2>2, <2>3, <2>4, <2>5, <2>6
<1>6. ASSUME NEW d \in Calls
      PROVE  /\ \A t \in Live' : root'[t] \in Found(d)' =>
                                    t \in matched'[d] \/ root'[t] \in crossed'[d]
             /\ \A e \in Between' : root'[target'[e]] \in Found(d)' =>
                                       root'[target'[e]] \in crossed'[d]
  <2>1. CASE matched'[d] = {}
    BY <2>1 DEF Found
  <2>2. ASSUME NEW c \in Calls, RotateDelete(c)
        PROVE  crossed[d] \subseteq crossed'[d]
    BY <2>2 DEF RotateDelete, Crosses, TypeOK
  <2> QED
    BY <1>4, <1>5, <2>1, <2>2, MatchedFrame
<1>7. /\ ended' \subseteq issued
      /\ \A t \in Live' : root'[t] \notin ended'
      /\ \A e \in Between' : root'[target'[e]] \notin ended'
  <2>1. CASE ended' = ended
    <3>1. \A e \in Calls : RotateDelete(e) => target[e] \in Live
      BY DEF RotateDelete, Deletable, Live, TypeOK, CallInv, CallOK
    <3> QED
      BY <2>1, <3>1, Whereabouts DEF RevokedInv, Between
  <2>2. ASSUME NEW c \in Calls, RevokeAllDelete(c)
        PROVE  /\ ended' \subseteq issued
               /\ \A t \in Live' : root'[t] \notin ended'
               /\ \A e \in Between' : root'[target'[e]] \notin ended'
    <3>1. /\ Live' = Live \ matched[c]
          /\ root' = root
          /\ ended' = ended \cup (Found(c) \ crossed[c])
      BY <2>2 DEF RevokeAllDelete, Live, TypeOK, Found
    <3>2. \A e \in Between' : e \in Between /\ target'[e] = target[e]
      BY <2>2, BetweenStep DEF Step, RevokeAllDelete, RotateDelete
    <3> QED
      BY <1>1, <3>1, <3>2 DEF RevokedInv
  <2> QED
    BY <2>1, <2>2
       DEF Next, Step, Get, Rotate, Revoke, BeginOnToken, Create, CreateInsert, GetFind,
           GetResume, Served, RotateFind, RotateResume, RotateInsert, RotateDelete,
           RotateConflict, RevokeDelete, RevokeAll, Fail, Sweep, Tick, vars, tables
<1> QED
  BY <1>2, <1>6, <1>7 DEF RevokedInv

----------------------------------------------------------------------------
(* The theorems                                                             *)

LEMMA InitIInv == Init => IInv
  BY SessionConstants
     DEF Init, IInv, TypeOK, Times, PCs, CallInv, CallOK, MatchedInv, FreshInv, TableInv,
         Live, LineageInv, Between, RevokedInv, Found

\* The strengthened invariant is inductive, with and without transactions.
THEOREM Invariance == Spec => []IInv
<1>1. IInv /\ [Next]_vars => IInv'
  BY TypeStep, CallStep, MatchedStep, FreshStep, TableStep, LineageStep, RevokedStep
     DEF IInv
<1> QED
  BY <1>1, InitIInv, PTL DEF Spec

\* Every variable keeps its type, whatever calls interleave.
THEOREM TypeCorrect == Spec => []TypeOK
<1>1. IInv => TypeOK
  BY DEF IInv
<1> QED
  BY <1>1, Invariance, PTL

\* Rotation never forks a session, with or without $transaction: it is delete's
\* refusal to delete a missing row that decides between concurrent rotations.
THEOREM NoFork == Spec => []OneBearer
<1>1. IInv => OneBearer
  BY DEF IInv, LineageInv, OneBearer
<1> QED
  BY <1>1, Invariance, PTL

\* Rotation changes neither the identity nor the expiry of a session.
THEOREM RotationKeepsSession == Spec => []SessionOfLogin
<1>1. IInv => SessionOfLogin
  BY NoRowIsNoRow DEF IInv, TableInv, SameLogin, SessionOfLogin
<1> QED
  BY <1>1, Invariance, PTL

\* Where ctx is stored, the authentication time of a handle is that of the login.
THEOREM RotationKeepsAuthTime ==
    ASSUME HasCtxColumn = TRUE
    PROVE  Spec => []AuthTimeOfLogin
<1>1. IInv => AuthTimeOfLogin
  BY DEF IInv, TableInv, SameLogin, AuthTimeOfLogin, HandleAuthTime
<1> QED
  BY <1>1, Invariance, PTL

\* What revokeAllForUser found and no rotation crossed is gone for good, with or
\* without $transaction: a rotation that had only read its row comes too late.
THEOREM RevocationIsFinal == Spec => []RevokedForGood
<1>1. IInv => RevokedForGood
  BY DEF IInv, RevokedInv, RevokedForGood
<1> QED
  BY <1>1, Invariance, PTL

\* get never serves a handle past the expiry of the login.
THEOREM ServesInTime == Spec => ServedInTime
<1>1. IInv /\ [Next]_vars =>
         [\A c \in Calls : pc[c] # "served" /\ pc'[c] = "served"
                            => clock < login[root[target[c]]].expiresAt]_vars
  <2> SUFFICES ASSUME IInv, Next, NEW c \in Calls, pc[c] # "served", pc'[c] = "served"
               PROVE  clock < login[root[target[c]]].expiresAt
    OBVIOUS
  <2> USE DEF IInv
  <2>1. PICK d \in Calls : Step(d)
    BY DEF Next, Sweep, Tick
  <2>2. Step(c)
    BY <2>1, OtherCalls
  <2>3. ~Settle(c)
    BY DEF Settle, TypeOK
  <2>4. GetResume(c)
    BY <2>2, <2>3
       DEF Step, Get, Rotate, Revoke, BeginOnToken, Create, CreateInsert, GetFind, Served,
           RotateFind, RotateResume, RotateDelete, RotateInsert, RotateConflict,
           RevokeDelete, RevokeAll, RevokeAllDelete, Fail, TypeOK
  <2>5. /\ held[c].expiresAt > clock
        /\ SameLogin(held[c], login[root[target[c]]])
    BY <2>3, <2>4 DEF GetResume, CallInv, CallOK
  <2>6. held[c].expiresAt \in Nat /\ clock \in Nat
    BY <2>5, SessionConstants DEF SameLogin, Rows, TypeOK, Times
  <2> QED
    BY <2>5, <2>6 DEF SameLogin
<1> QED
  BY <1>1, Invariance, PTL DEF Spec, ServedInTime

\* With $transaction, a rotation that fails leaves the session with its old token.
THEOREM NothingLost ==
    ASSUME HasTransaction = TRUE
    PROVE  Spec => RotationLosesNothing
<1>1. IInv /\ [Next]_vars =>
         [\A c \in Calls :
             pc[c] \in {"rotate.delete", "rotate.insert"} /\ pc'[c] # pc[c]
               => {root[t] : t \in Live} = {root'[t] : t \in Live'}]_vars
  <2> SUFFICES ASSUME IInv, Next, NEW c \in Calls,
                      pc[c] \in {"rotate.delete", "rotate.insert"},
                      pc'[c] # pc[c]
               PROVE  {root[t] : t \in Live} = {root'[t] : t \in Live'}
    OBVIOUS
  <2> USE DEF IInv
  <2>1. Step(c)
    BY OtherCalls DEF Next, Sweep, Tick
  <2>2. CASE RotateInsert(c)
    <3>1. target[c] \in Live
      BY <2>2 DEF RotateInsert, Between, LineageInv
    <3>2. Live' = (Live \ {target[c]}) \cup {fresh[c]}
      BY <2>2, <3>1, InsertionSwaps
    <3>3. /\ root'[fresh[c]] = root[target[c]]
          /\ \A t \in Live \ {target[c]} : root'[t] = root[t]
      BY <2>2, RotationInserts DEF Inserts, TableInv
    <3> QED
      BY <3>1, <3>2, <3>3
  <2>3. CASE RotateConflict(c) \/ Fail(c) \/ RotateDelete(c)
    BY <2>3 DEF RotateConflict, Fail, RotateDelete, tables, Live
  <2> QED
    BY <2>1, <2>2, <2>3
       DEF Step, Get, Rotate, Revoke, BeginOnToken, Create, CreateInsert, GetFind,
           GetResume, Served, RotateFind, RotateResume, RevokeDelete, RevokeAll,
           RevokeAllDelete
<1> QED
  BY <1>1, Invariance, PTL DEF Spec, RotationLosesNothing

----------------------------------------------------------------------------
(* The store implements the ledger                                          *)

\* The entry a live token stands for.
EntryOf(t) == [token |-> t, identity |-> IdentityOf(sessions[t])]

LEMMA EntryIsOnly ==
    ASSUME IInv, NEW t \in Live
    PROVE  LedgerOf[root[t]] = {EntryOf(t)}
<1>1. root[t] \in Tokens
  BY DEF IInv, TypeOK, TableInv
<1>2. \A x \in Live : root[x] = root[t] => x = t
  BY DEF IInv, LineageInv
<1> QED
  BY <1>1, <1>2 DEF LedgerOf, EntryOf

\* Removing the row of one session ends that session and no other.
LEMMA DeletionEnds ==
    ASSUME IInv, NEW t \in Live, sessions' = [sessions EXCEPT ![t] = NoRow],
           UNCHANGED <<root, issued>>
    PROVE  Ledger!End(root[t])
<1>1. /\ Live' = Live \ {t}
      /\ \A x \in Live' : sessions'[x] = sessions[x]
      /\ root[t] \in Tokens
  BY DEF IInv, TypeOK, TableInv, Live
<1>2. LedgerOf[root[t]] # {}
  BY EntryIsOnly
<1>3. LedgerOf' = [LedgerOf EXCEPT ![root[t]] = {}]
  <2>1. \A x \in Live : root[x] = root[t] => x = t
    BY DEF IInv, LineageInv
  <2>2. ASSUME NEW s \in Tokens
        PROVE  LedgerOf'[s] = IF s = root[t] THEN {} ELSE LedgerOf[s]
    BY <1>1, <2>1 DEF LedgerOf
  <2>3. LedgerOf \in [Tokens -> {LedgerOf[s] : s \in Tokens}]
    BY DEF LedgerOf
  <2>4. LedgerOf' = [s \in Tokens |-> LedgerOf'[s]]
    BY DEF LedgerOf
  <2> QED
    BY <1>1, <2>2, <2>3, <2>4
<1> QED
  BY <1>2, <1>3 DEF Ledger!End

LEMMA LedgerStutters ==
    ASSUME UNCHANGED <<sessions, root, issued>>
    PROVE  UNCHANGED Ledger!ledgerVars
  BY DEF Ledger!ledgerVars, LedgerOf, Live

LEMMA CreationOpens ==
    ASSUME IInv, NEW c \in Calls, CreateInsert(c), HasCtxColumn = TRUE
    PROVE  Ledger!Open(fresh[c], IdentityOf(held[c])) /\ IdentityOf(held[c]) \in Identities
<1> DEFINE s0 == fresh[c]
<1>1. /\ Inserts(c)
      /\ root'[s0] = s0
      /\ held[c] \in Rows
  BY CreateInserts
<1>2. \A x \in Live : x # s0 /\ root[x] # s0 /\ root'[x] = root[x] /\ x \in Live'
  <2>1. \A x \in Live : x \in issued /\ root[x] \in issued
    BY DEF IInv, TableInv
  <2>2. \A x \in Live : sessions'[x] = sessions[x]
    BY <1>1, <2>1 DEF CreateInsert, IInv, TypeOK, Inserts, Live
  <2> QED
    BY <1>1, <2>1, <2>2 DEF Inserts, Live
<1>3. Live' = Live \cup {s0}
  BY <1>1, <1>2 DEF Inserts
<1>4. ASSUME NEW s \in Tokens
      PROVE  LedgerOf'[s] = IF s = s0
                            THEN {[token |-> s0, identity |-> IdentityOf(held[c])]}
                            ELSE LedgerOf[s]
  <2>1. CASE s = s0
    BY <1>1, <1>2, <1>3, <2>1 DEF LedgerOf, Inserts
  <2>2. CASE s # s0
    <3>1. {x \in Live' : root'[x] = s} = {x \in Live : root[x] = s}
      BY <1>1, <1>2, <1>3, <2>2
    <3>2. \A x \in Live : sessions'[x] = sessions[x]
      BY <1>1, <1>2 DEF Inserts
    <3> QED
      BY <2>2, <3>1, <3>2 DEF LedgerOf
  <2> QED
    BY <2>1, <2>2
<1>5. LedgerOf' = [LedgerOf EXCEPT ![s0] =
                      {[token |-> s0, identity |-> IdentityOf(held[c])]}]
  <2>1. LedgerOf' = [s \in Tokens |-> LedgerOf'[s]] /\ DOMAIN LedgerOf = Tokens
    BY DEF LedgerOf
  <2> QED
    BY <1>4, <2>1 DEF LedgerOf
<1>6. IdentityOf(held[c]) \in Identities
  BY <1>1 DEF IdentityOf, Identities, HandleAuthTime, Rows
<1> QED
  BY <1>1, <1>5, <1>6 DEF Ledger!Open, Inserts

LEMMA CommitReissues ==
    ASSUME IInv, NEW c \in Calls, RotateInsert(c),
           HasTransaction = TRUE, HasCtxColumn = TRUE
    PROVE  Ledger!Reissue(root[target[c]], fresh[c])
<1> DEFINE old == target[c]
           new == fresh[c]
           s0  == root[old]
<1>1. /\ Inserts(c)
      /\ old \in issued
      /\ old \notin Live'
      /\ root'[new] = s0
      /\ SameLogin(held[c], login[s0])
  BY RotationInserts
<1>2. /\ old \in Live
      /\ s0 \in Tokens
      /\ SameLogin(sessions[old], login[s0])
  <2>1. old \in Live
    BY DEF RotateInsert, Between, IInv, LineageInv
  <2> QED
    BY <2>1 DEF IInv, TypeOK, TableInv
<1>3. Live' = (Live \ {old}) \cup {new}
  BY <1>2, InsertionSwaps
<1>4. \A x \in Live \ {old} : /\ root'[x] = root[x]
                              /\ sessions'[x] = sessions[x]
                              /\ root[x] # s0
  <2>1. \A x \in Live : x \in issued
    BY DEF IInv, TableInv
  <2> QED
    BY <1>1, <1>2, <1>3, <2>1 DEF Inserts, IInv, LineageInv
<1>5. IdentityOf(held[c]) = IdentityOf(sessions[old])
  BY <1>1, <1>2 DEF SameLogin, IdentityOf, HandleAuthTime
<1>6. LedgerOf[s0] = {EntryOf(old)}
  BY <1>2, EntryIsOnly
<1>7. {[e EXCEPT !.token = new] : e \in LedgerOf[s0]}
        = {[token |-> new, identity |-> IdentityOf(held[c])]}
  BY <1>5, <1>6 DEF EntryOf
<1>8. ASSUME NEW s \in Tokens
      PROVE  LedgerOf'[s] = IF s = s0
                            THEN {[token |-> new, identity |-> IdentityOf(held[c])]}
                            ELSE LedgerOf[s]
  <2>1. CASE s = s0
    <3>1. {x \in Live' : root'[x] = s0} = {new}
      BY <1>1, <1>3, <1>4
    <3> QED
      BY <1>1, <2>1, <3>1 DEF LedgerOf, Inserts
  <2>2. CASE s # s0
    <3>1. {x \in Live' : root'[x] = s} = {x \in Live \ {old} : root[x] = s}
      BY <1>1, <1>3, <1>4, <2>2
    <3>2. {x \in Live \ {old} : root[x] = s} = {x \in Live : root[x] = s}
      BY <2>2
    <3> QED
      BY <1>4, <2>2, <3>1, <3>2 DEF LedgerOf
  <2> QED
    BY <2>1, <2>2
<1>9. LedgerOf' = [LedgerOf EXCEPT ![s0] =
                      {[token |-> new, identity |-> IdentityOf(held[c])]}]
  <2>1. LedgerOf' = [s \in Tokens |-> LedgerOf'[s]] /\ DOMAIN LedgerOf = Tokens
    BY DEF LedgerOf
  <2> QED
    BY <1>8, <2>1 DEF LedgerOf
<1> QED
  BY <1>1, <1>6, <1>7, <1>9 DEF Ledger!Reissue, Inserts

LEMMA RevocationEnds ==
    ASSUME IInv, NEW c \in Calls, RevokeAllDelete(c)
    PROVE  /\ Ledger!EndSomeOf(subject[c], {root[t] : t \in matched[c] \cap Live})
           /\ {root[t] : t \in matched[c] \cap Live} \subseteq Tokens
<1> DEFINE S == {root[t] : t \in matched[c] \cap Live}
<1>1. /\ Live' = Live \ matched[c]
      /\ \A t \in Live' : sessions'[t] = sessions[t]
      /\ root' = root /\ issued' = issued
  BY DEF RevokeAllDelete, Live, IInv, TypeOK
<1>2. \A t1, t2 \in Live : root[t1] = root[t2] => t1 = t2
  BY DEF IInv, LineageInv
<1>3. ASSUME NEW t \in matched[c] \cap Live
      PROVE  /\ sessions[t].user = subject[c]
             /\ LedgerOf[root[t]] = {EntryOf(t)}
             /\ root[t] \in Tokens
  BY EntryIsOnly DEF IInv, TypeOK, MatchedInv, TableInv, SameLogin
<1>4. \A t : EntryOf(t).identity.user = sessions[t].user
  BY DEF EntryOf, IdentityOf
<1>5. \A s \in S : \A e \in LedgerOf[s] : e.identity.user = subject[c]
  BY <1>3, <1>4
<1>6. ASSUME NEW s \in Tokens
      PROVE  LedgerOf'[s] = IF s \in S THEN {} ELSE LedgerOf[s]
  <2>1. LedgerOf[s] = {EntryOf(t) : t \in {x \in Live : root[x] = s}}
    BY DEF LedgerOf, EntryOf
  <2>2. LedgerOf'[s] = {EntryOf(t) : t \in {x \in Live' : root[x] = s}}
    BY <1>1 DEF LedgerOf, EntryOf
  <2>3. CASE s \in S
    <3>1. {x \in Live' : root[x] = s} = {}
      BY <1>1, <1>2, <2>3
    <3> QED
      BY <2>2, <2>3, <3>1
  <2>4. CASE s \notin S
    <3>1. {x \in Live' : root[x] = s} = {x \in Live : root[x] = s}
      BY <1>1, <2>4
    <3> QED
      BY <2>1, <2>2, <2>4, <3>1
  <2> QED
    BY <2>3, <2>4
<1>7. LedgerOf' = [s \in Tokens |-> LedgerOf'[s]]
  BY DEF LedgerOf
<1>8. LedgerOf' = [s \in Tokens |-> IF s \in S THEN {} ELSE LedgerOf[s]]
  BY <1>6, <1>7
<1> QED
  BY <1>1, <1>3, <1>5, <1>8 DEF Ledger!EndSomeOf

\* With $transaction and a column for ctx, the store implements the ledger.
THEOREM StoreImplementsLedger ==
    ASSUME HasTransaction = TRUE, HasCtxColumn = TRUE
    PROVE  Spec => ImplementsLedger
<1>1. Init => Ledger!LedgerInit
  BY DEF Init, Ledger!LedgerInit, LedgerOf, Live
<1>2. IInv /\ [Next]_vars => [Ledger!LedgerNext]_(Ledger!ledgerVars)
  <2> SUFFICES ASSUME IInv, [Next]_vars
               PROVE  Ledger!LedgerNext \/ UNCHANGED Ledger!ledgerVars
    OBVIOUS
  <2>1. ASSUME NEW c \in Calls, CreateInsert(c)
        PROVE  Ledger!LedgerNext
    <3>1. fresh[c] \in Tokens
      BY <2>1, CreateInserts DEF Inserts
    <3> QED
      BY <2>1, <3>1, CreationOpens DEF Ledger!LedgerNext
  <2>2. ASSUME NEW c \in Calls, RotateInsert(c)
        PROVE  Ledger!LedgerNext
    <3>1. fresh[c] \in Tokens /\ root[target[c]] \in Tokens
      BY <2>2, RotationInserts DEF Inserts, IInv, TypeOK, TableInv
    <3> QED
      BY <2>2, <3>1, CommitReissues DEF Ledger!LedgerNext
  <2>3. ASSUME NEW c \in Calls, RevokeDelete(c)
        PROVE  Ledger!LedgerNext \/ UNCHANGED Ledger!ledgerVars
    <3>1. /\ target[c] \in Tokens
          /\ sessions' = [sessions EXCEPT ![target[c]] = NoRow]
          /\ UNCHANGED <<root, issued>>
      BY <2>3 DEF RevokeDelete, IInv, TypeOK, CallInv, CallOK
    <3>2. CASE target[c] \in Live
      <4>1. root[target[c]] \in Tokens
        BY <3>2 DEF IInv, TypeOK, TableInv
      <4> QED
        BY <3>1, <3>2, <4>1, DeletionEnds DEF Ledger!LedgerNext
    <3>3. CASE target[c] \notin Live
      <4>1. sessions' = sessions
        BY <3>1, <3>3 DEF Live, IInv, TypeOK
      <4> QED
        BY <3>1, <4>1, LedgerStutters
    <3> QED
      BY <3>2, <3>3
  <2>4. ASSUME NEW c \in Calls, RevokeAllDelete(c)
        PROVE  Ledger!LedgerNext
    <3>1. subject[c] \in Users
      BY <2>4 DEF RevokeAllDelete, IInv, CallInv, CallOK
    <3> QED
      BY <2>4, <3>1, RevocationEnds DEF Ledger!LedgerNext
  <2>5. CASE Sweep
    <3>1. PICK t \in Live : sessions' = [sessions EXCEPT ![t] = NoRow]
      BY <2>5 DEF Sweep
    <3>2. root[t] \in Tokens
      BY DEF IInv, TypeOK, TableInv
    <3> QED
      BY <2>5, <3>1, <3>2, DeletionEnds DEF Sweep, Ledger!LedgerNext
  <2>6. ASSUME NEW c \in Calls
        PROVE  RotateDelete(c) => UNCHANGED <<sessions, root, issued>>
    BY DEF RotateDelete
  <2>7. CASE UNCHANGED <<sessions, root, issued>>
    BY <2>7, LedgerStutters
  <2> QED
    BY <2>1, <2>2, <2>3, <2>4, <2>5, <2>6, <2>7
       DEF Next, Step, Get, Rotate, Revoke, BeginOnToken, Create, GetFind, GetResume,
           Served, RotateFind, RotateResume, RotateConflict, RevokeAll, Fail, Tick,
           vars, tables
<1> QED
  BY <1>1, <1>2, Invariance, PTL DEF Spec, ImplementsLedger, Ledger!LedgerSpec
==============================================================================
