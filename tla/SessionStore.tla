----------------------------- MODULE SessionStore -----------------------------
(***************************************************************************)
(* PrismaSessionStore and TranslogSessionStore: opaque sessions kept in a  *)
(* table, served to any number of concurrent callers.                      *)
(*                                                                         *)
(* A call is an asynchronous method of the store.  It runs from one await  *)
(* to the next without interruption; while it awaits a database operation  *)
(* every other call may run, and so may the clock.  pc[c] names the await  *)
(* call c is suspended at.  A statement may also reject, or the process    *)
(* may die while it waits: both end the call there.                        *)
(*                                                                         *)
(* The database is PostgreSQL (schema.prisma) at the isolation level it    *)
(* has unless told otherwise, READ COMMITTED: a read sees what is          *)
(* committed; a statement that deletes a row an open transaction has       *)
(* deleted waits for its end, and then does without the row; a deleteMany  *)
(* deletes of the rows it found when it began those that are still there,  *)
(* and never sees one inserted meanwhile.                                  *)
(***************************************************************************)
EXTENDS Naturals

CONSTANTS
    Calls,           \* slots for calls in flight
    Tokens,          \* values randomBytes can produce
    Users,
    Tenants,
    Ttls,            \* values of ttlMs
    MaxTtl,          \* the longest of them
    MaxTime,         \* bound on the clock
    HasTransaction,  \* does the injected client provide $transaction?
    HasCtxColumn,    \* TRUE: ctx stored as JSON (Prisma); FALSE: dropped (TransLog)
    NoToken, NoUser, NoRow

ASSUME SessionConstants ==
    /\ MaxTtl \in Nat
    /\ Ttls \subseteq 0 .. MaxTtl
    /\ MaxTime \in Nat
    /\ HasTransaction \in BOOLEAN
    /\ HasCtxColumn \in BOOLEAN
    /\ NoToken \notin Tokens
    /\ NoUser \notin Users

VARIABLES
    sessions,   \* the session table: primary key token
    clock,      \* Clock.now(), in units of the ttl
    pc,         \* where each call is suspended
    target,     \* the token argument of a call
    subject,    \* the userId argument of a call
    fresh,      \* the token a call drew for the row it will insert
    held,       \* the row a call has read, or will insert
    matched,    \* the rows a running deleteMany has found
    \* History, read by no guard of the code's own steps:
    issued,     \* tokens under which a row was ever inserted
    root,       \* root[t]: the token create gave the session that t belongs to
    login,      \* login[s]: the row create inserted for session s
    crossed,    \* the sessions a rotation was exchanging while c's deleteMany ran
    ended,      \* sessions that a revokeAllForUser found, and no rotation crossed
    spared      \* sessions that a rotation was exchanging while one ran

tables == <<sessions, issued, root, login, ended, spared>>
locals == <<target, subject, fresh, held, matched, crossed>>
vars   == <<sessions, clock, pc, target, subject, fresh, held, matched,
            issued, root, login, crossed, ended, spared>>

----------------------------------------------------------------------------
(* Types                                                                   *)

Times == 0 .. MaxTime

\* ctx is reduced to the one signal a later decision compares with the clock.
Rows == [user : Users, tenant : Tenants, createdAt : Times,
         expiresAt : 0 .. MaxTime + MaxTtl, authTime : Times]

ASSUME NoRowIsNoRow == NoRow \notin Rows

Awaits == {"create.insert", "get.find", "get.resume",
           "rotate.find", "rotate.resume",
           "rotate.delete", "rotate.insert", "revoke", "revokeAll"}

PCs == Awaits \cup {"idle", "served"}

Live == {t \in Tokens : sessions[t] # NoRow}

\* Calls that have deleted the old row and not inserted the new one yet.
Between == {c \in Calls : pc[c] = "rotate.insert"}

\* The rows an open transaction has deleted: still there for whoever reads, and
\* whoever deletes waits.  Without transactions a deletion is committed at once.
Locked == IF HasTransaction THEN {target[c] : c \in Between} ELSE {}

\* What identifies the session a row stands for.  toSessionHandle of the TransLog
\* connector has no ctx to read and answers createdAt for authTime.
HandleAuthTime(row) == IF HasCtxColumn THEN row.authTime ELSE row.createdAt

IdentityOf(row) ==
    [user |-> row.user, tenant |-> row.tenant, expiresAt |-> row.expiresAt,
     authTime |-> HandleAuthTime(row)]

Identities == [user : Users, tenant : Tenants, expiresAt : 0 .. MaxTime + MaxTtl,
               authTime : Times]

----------------------------------------------------------------------------
(* Calls                                                                   *)

Init ==
    /\ sessions = [t \in Tokens |-> NoRow]
    /\ clock = 0
    /\ pc = [c \in Calls |-> "idle"]
    /\ target = [c \in Calls |-> NoToken]
    /\ subject = [c \in Calls |-> NoUser]
    /\ fresh = [c \in Calls |-> NoToken]
    /\ held = [c \in Calls |-> NoRow]
    /\ matched = [c \in Calls |-> {}]
    /\ issued = {}
    /\ root = [t \in Tokens |-> NoToken]
    /\ login = [t \in Tokens |-> NoRow]
    /\ crossed = [c \in Calls |-> {}]
    /\ ended = {}
    /\ spared = {}

\* The call settles, by returning or by throwing: nothing of it is left.
Settle(c) ==
    /\ pc' = [pc EXCEPT ![c] = "idle"]
    /\ target' = [target EXCEPT ![c] = NoToken]
    /\ subject' = [subject EXCEPT ![c] = NoUser]
    /\ fresh' = [fresh EXCEPT ![c] = NoToken]
    /\ held' = [held EXCEPT ![c] = NoRow]
    /\ matched' = [matched EXCEPT ![c] = {}]
    /\ crossed' = [crossed EXCEPT ![c] = {}]

\* 32 random bytes: never a token that is in use or has been.
Drawable == {t \in Tokens : t \notin issued /\ \A c \in Calls : fresh[c] # t}

\* A call that takes a token begins; callers only hold tokens they were given.
BeginOnToken(c, at) ==
    /\ pc[c] = "idle"
    /\ pc' = [pc EXCEPT ![c] = at]
    /\ \E t \in issued : target' = [target EXCEPT ![c] = t]
    /\ UNCHANGED <<tables, clock, subject, fresh, held, matched, crossed>>

----------------------------------------------------------------------------
(* create                                                                  *)

\* A bug: the ttl taken off the clock instead of added to it.
CreateBackdated(c) ==
    /\ pc[c] = "idle"
    /\ pc' = [pc EXCEPT ![c] = "create.insert"]
    /\ \E t \in Drawable : fresh' = [fresh EXCEPT ![c] = t]
    /\ \E u \in Users, n \in Tenants, ttl \in Ttls, a \in 0 .. clock :
          held' = [held EXCEPT ![c] =
                      [user |-> u, tenant |-> n, createdAt |-> clock,
                       expiresAt |-> clock - ttl, authTime |-> a]]
    /\ UNCHANGED <<tables, clock, target, subject, matched, crossed>>

\* create(input) up to its await: the clock is read and the token drawn before
\* the row is written; the caller authenticated the user now or earlier.
Create(c) ==
    /\ pc[c] = "idle"
    /\ pc' = [pc EXCEPT ![c] = "create.insert"]
    /\ \E t \in Drawable : fresh' = [fresh EXCEPT ![c] = t]
    /\ \E u \in Users, n \in Tenants, ttl \in Ttls, a \in 0 .. clock :
          held' = [held EXCEPT ![c] =
                      [user |-> u, tenant |-> n, createdAt |-> clock,
                       expiresAt |-> clock + ttl, authTime |-> a]]
    /\ UNCHANGED <<tables, clock, target, subject, matched, crossed>>

\* The insert is done: a new session, named by its first token.
CreateInsert(c) ==
    /\ pc[c] = "create.insert"
    /\ sessions' = [sessions EXCEPT ![fresh[c]] = held[c]]
    /\ issued' = issued \cup {fresh[c]}
    /\ root' = [root EXCEPT ![fresh[c]] = fresh[c]]
    /\ login' = [login EXCEPT ![fresh[c]] = held[c]]
    /\ Settle(c)
    /\ UNCHANGED <<clock, ended, spared>>

----------------------------------------------------------------------------
(* get                                                                     *)

Get(c) == BeginOnToken(c, "get.find")

\* findUnique answers: null ends the call, a row is kept for the continuation.
GetFind(c) ==
    /\ pc[c] = "get.find"
    /\ \/ /\ sessions[target[c]] = NoRow
          /\ Settle(c)
       \/ /\ sessions[target[c]] # NoRow
          /\ pc' = [pc EXCEPT ![c] = "get.resume"]
          /\ held' = [held EXCEPT ![c] = sessions[target[c]]]
          /\ UNCHANGED <<target, subject, fresh, matched, crossed>>
    /\ UNCHANGED <<tables, clock>>

\* A bug: the boundary instant still counts as valid.
GetResumeInclusive(c) ==
    /\ pc[c] = "get.resume"
    /\ \/ /\ held[c].expiresAt < clock
          /\ Settle(c)
       \/ /\ held[c].expiresAt >= clock
          /\ pc' = [pc EXCEPT ![c] = "served"]
          /\ UNCHANGED locals
    /\ UNCHANGED <<tables, clock>>

\* The continuation: expired answers null; otherwise the handle is served.
GetResume(c) ==
    /\ pc[c] = "get.resume"
    /\ \/ /\ held[c].expiresAt <= clock
          /\ Settle(c)
       \/ /\ held[c].expiresAt > clock
          /\ pc' = [pc EXCEPT ![c] = "served"]
          /\ UNCHANGED locals
    /\ UNCHANGED <<tables, clock>>

\* The caller of get is done with the handle.
Served(c) ==
    /\ pc[c] = "served"
    /\ Settle(c)
    /\ UNCHANGED <<tables, clock>>

----------------------------------------------------------------------------
(* rotate                                                                  *)

Rotate(c) == BeginOnToken(c, "rotate.find")

\* findUnique answers: without a row rotate throws.  Expiry is not looked at.
RotateFind(c) ==
    /\ pc[c] = "rotate.find"
    /\ \/ /\ sessions[target[c]] = NoRow
          /\ Settle(c)
       \/ /\ sessions[target[c]] # NoRow
          /\ pc' = [pc EXCEPT ![c] = "rotate.resume"]
          /\ held' = [held EXCEPT ![c] = sessions[target[c]]]
          /\ UNCHANGED <<target, subject, fresh, matched, crossed>>
    /\ UNCHANGED <<tables, clock>>

\* A bug: rotation grants a new lifetime (sliding expiry with no limit).
RotateResumeSliding(c) ==
    /\ pc[c] = "rotate.resume"
    /\ \E t \in Drawable : fresh' = [fresh EXCEPT ![c] = t]
    /\ held' = [held EXCEPT ![c].createdAt = clock,
                            ![c].expiresAt = clock + (@ - held[c].createdAt)]
    /\ pc' = [pc EXCEPT ![c] = "rotate.delete"]
    /\ UNCHANGED <<tables, clock, target, subject, matched, crossed>>

\* A bug: the rotated session is stamped as authenticated now.
RotateResumeReauthenticated(c) ==
    /\ pc[c] = "rotate.resume"
    /\ \E t \in Drawable : fresh' = [fresh EXCEPT ![c] = t]
    /\ held' = [held EXCEPT ![c].createdAt = clock, ![c].authTime = clock]
    /\ pc' = [pc EXCEPT ![c] = "rotate.delete"]
    /\ UNCHANGED <<tables, clock, target, subject, matched, crossed>>

\* The continuation builds the successor row: new token, createdAt now, the rest
\* copied from the row read; then the first statement of #rotateAtomic is sent.
RotateResume(c) ==
    /\ pc[c] = "rotate.resume"
    /\ \E t \in Drawable : fresh' = [fresh EXCEPT ![c] = t]
    /\ held' = [held EXCEPT ![c].createdAt = clock]
    /\ pc' = [pc EXCEPT ![c] = "rotate.delete"]
    /\ UNCHANGED <<tables, clock, target, subject, matched, crossed>>

\* The row is there to be deleted, and no transaction holds it.
Deletable(t) == sessions[t] # NoRow /\ t \notin Locked

\* History: the deleteMany that run and have found the row of c have c cross them.
Crosses(c) ==
    crossed' = [d \in Calls |-> IF target[c] \in matched[d]
                                THEN crossed[d] \cup {root[target[c]]}
                                ELSE crossed[d]]

\* A bug: deleteMany in place of delete, which does not mind a missing row.
RotateDeleteForgiving(c) ==
    /\ pc[c] = "rotate.delete"
    /\ target[c] \notin Locked
    /\ IF HasTransaction THEN UNCHANGED sessions
                         ELSE sessions' = [sessions EXCEPT ![target[c]] = NoRow]
    /\ pc' = [pc EXCEPT ![c] = "rotate.insert"]
    /\ Crosses(c)
    /\ UNCHANGED <<issued, root, login, ended, spared, clock,
                   target, subject, fresh, held, matched>>

\* A bug: the deletion goes to the client and not to the transaction.
RotateDeleteOutside(c) ==
    /\ pc[c] = "rotate.delete"
    /\ Deletable(target[c])
    /\ sessions' = [sessions EXCEPT ![target[c]] = NoRow]
    /\ pc' = [pc EXCEPT ![c] = "rotate.insert"]
    /\ Crosses(c)
    /\ UNCHANGED <<issued, root, login, ended, spared, clock,
                   target, subject, fresh, held, matched>>

\* The first statement of #rotateAtomic: delete, which waits for the row to be
\* free.  In a transaction it takes the row, and nobody sees that yet.
RotateDelete(c) ==
    /\ pc[c] = "rotate.delete"
    /\ Deletable(target[c])
    /\ IF HasTransaction THEN UNCHANGED sessions
                         ELSE sessions' = [sessions EXCEPT ![target[c]] = NoRow]
    /\ pc' = [pc EXCEPT ![c] = "rotate.insert"]
    /\ Crosses(c)
    /\ UNCHANGED <<issued, root, login, ended, spared, clock,
                   target, subject, fresh, held, matched>>

\* The second: create, and in a transaction the commit, with which the old row
\* goes when the new one comes.  Without one the old row is gone already.
RotateInsert(c) ==
    /\ pc[c] = "rotate.insert"
    /\ sessions' = [sessions EXCEPT ![target[c]] = NoRow, ![fresh[c]] = held[c]]
    /\ issued' = issued \cup {fresh[c]}
    /\ root' = [root EXCEPT ![fresh[c]] = root[target[c]]]
    /\ Settle(c)
    /\ UNCHANGED <<login, ended, spared, clock>>

\* delete throws when the row is gone.
RotateConflict(c) ==
    /\ pc[c] = "rotate.delete"
    /\ sessions[target[c]] = NoRow
    /\ Settle(c)
    /\ UNCHANGED <<tables, clock>>

----------------------------------------------------------------------------
(* revoke, revokeAllForUser                                                *)

Revoke(c) == BeginOnToken(c, "revoke")

\* deleteMany where token, which waits for the row to be free: no error when
\* there is nothing to delete.
RevokeDelete(c) ==
    /\ pc[c] = "revoke"
    /\ target[c] \notin Locked
    /\ sessions' = [sessions EXCEPT ![target[c]] = NoRow]
    /\ Settle(c)
    /\ UNCHANGED <<issued, root, login, ended, spared, clock>>

\* The sessions of u that are between two rows.
InExchange(u) == {root[target[c]] : c \in {x \in Between : held[x].user = u}}

\* deleteMany where userId, in every tenant, begins: it finds the rows of u.
RevokeAll(c) ==
    /\ pc[c] = "idle"
    /\ pc' = [pc EXCEPT ![c] = "revokeAll"]
    /\ \E u \in Users :
          /\ subject' = [subject EXCEPT ![c] = u]
          /\ matched' = [matched EXCEPT ![c] = {t \in Live : sessions[t].user = u}]
          /\ crossed' = [crossed EXCEPT ![c] = InExchange(u)]
    /\ UNCHANGED <<tables, clock, target, fresh, held>>

\* It ends: when none of the rows it found is held any more, those that are still
\* there are gone.
RevokeAllDelete(c) ==
    /\ pc[c] = "revokeAll"
    /\ matched[c] \cap Locked = {}
    /\ sessions' = [t \in Tokens |-> IF t \in matched[c] THEN NoRow ELSE sessions[t]]
    /\ ended' = ended \cup ({root[t] : t \in matched[c]} \ crossed[c])
    /\ spared' = spared \cup crossed[c]
    /\ Settle(c)
    /\ UNCHANGED <<issued, root, login, clock>>

----------------------------------------------------------------------------
(* The environment                                                         *)

\* The database rejects, or the process dies: the call ends at its await, and an
\* open transaction is rolled back, which frees the row it held.
Fail(c) ==
    /\ pc[c] \in Awaits
    /\ Settle(c)
    /\ UNCHANGED <<tables, clock>>

\* The deferred sweep the comment in get speaks of: purges an expired row.
Sweep ==
    /\ \E t \in Live \ Locked : /\ sessions[t].expiresAt <= clock
                                /\ sessions' = [sessions EXCEPT ![t] = NoRow]
    /\ UNCHANGED <<issued, root, login, ended, spared, clock, pc, locals>>

Tick ==
    /\ clock < MaxTime
    /\ clock' = clock + 1
    /\ UNCHANGED <<tables, pc, locals>>

Step(c) ==
    \/ Create(c) \/ CreateInsert(c)
    \/ Get(c) \/ GetFind(c) \/ GetResume(c) \/ Served(c)
    \/ Rotate(c) \/ RotateFind(c) \/ RotateResume(c)
    \/ RotateDelete(c) \/ RotateInsert(c) \/ RotateConflict(c)
    \/ Revoke(c) \/ RevokeDelete(c)
    \/ RevokeAll(c) \/ RevokeAllDelete(c)
    \/ Fail(c)

Next == (\E c \in Calls : Step(c)) \/ Sweep \/ Tick

Spec == Init /\ [][Next]_vars

----------------------------------------------------------------------------
(* Properties                                                              *)

TypeOK ==
    /\ sessions \in [Tokens -> Rows \cup {NoRow}]
    /\ clock \in Times
    /\ pc \in [Calls -> PCs]
    /\ target \in [Calls -> Tokens \cup {NoToken}]
    /\ subject \in [Calls -> Users \cup {NoUser}]
    /\ fresh \in [Calls -> Tokens \cup {NoToken}]
    /\ held \in [Calls -> Rows \cup {NoRow}]
    /\ matched \in [Calls -> SUBSET Tokens]
    /\ issued \in SUBSET Tokens
    /\ root \in [Tokens -> Tokens \cup {NoToken}]
    /\ login \in [Tokens -> Rows \cup {NoRow}]
    /\ crossed \in [Calls -> SUBSET Tokens]
    /\ ended \in SUBSET Tokens
    /\ spared \in SUBSET Tokens

\* Rotation never forks a session: whatever rotations of the same token run at
\* the same time, at most one token is accepted for a login.
OneBearer ==
    \A t1, t2 \in Live : root[t1] = root[t2] => t1 = t2

\* Through any chain of rotations a row keeps the user, the tenant and the expiry
\* create wrote: rotation is no way to change identity or to outlive the login.
SessionOfLogin ==
    \A t \in Live :
        /\ login[root[t]] # NoRow
        /\ sessions[t].user = login[root[t]].user
        /\ sessions[t].tenant = login[root[t]].tenant
        /\ sessions[t].expiresAt = login[root[t]].expiresAt

\* Nor does rotation make the authentication look more recent than the login:
\* the authTime of a handle (AuthContext: session freshness) does not move.
AuthTimeOfLogin ==
    \A t \in Live :
        HandleAuthTime(sessions[t]) = HandleAuthTime(login[root[t]])

\* What "`revokeAllForUser` effective" says: no session that existed when it began
\* is accepted once it is done, under the same token or one rotation gave it.
KillSwitchEffective ==
    \A t \in Live : root[t] \notin ended \cup spared

\* What it does: only a session that a rotation was exchanging, its deletion done
\* and its insertion not, at some time while the deleteMany ran can outlive it.  A
\* rotation that had only read its row comes too late, whenever it goes on, and no
\* chain of rotations brings the session back.
RevokedForGood ==
    \A t \in Live : root[t] \notin ended

\* get serves a handle only before the login itself expires, however often the
\* session was rotated and however long the database took to answer.
ServedInTime ==
    [][\A c \in Calls :
          pc[c] # "served" /\ pc'[c] = "served"
              => clock < login[root[target[c]]].expiresAt]_vars

\* A rotation that fails, by a conflict, an error or a crash, costs the user no
\* session: the logins with a live row are the same before and after its steps.
RotationLosesNothing ==
    [][\A c \in Calls :
          pc[c] \in {"rotate.delete", "rotate.insert"} /\ pc'[c] # pc[c]
              => {root[t] : t \in Live} = {root'[t] : t \in Live'}]_vars

----------------------------------------------------------------------------
(* The abstract promise                                                    *)

\* The live rows of a session are its entry in the ledger.
LedgerOf ==
    [s \in Tokens |-> {[token |-> t, identity |-> IdentityOf(sessions[t])] :
                       t \in {x \in Live : root[x] = s}}]

Ledger == INSTANCE SessionLedger WITH
              ledger <- LedgerOf, seen <- issued

\* With transactions, the store is a ledger: one token a session, replaced by
\* rotation with nothing else changed, gone for good once rotated or revoked.
ImplementsLedger == Ledger!LedgerSpec
==============================================================================
