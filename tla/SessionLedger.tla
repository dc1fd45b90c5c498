---------------------------- MODULE SessionLedger ----------------------------
(***************************************************************************)
(* What a session store promises its callers, with no database in sight.   *)
(*                                                                         *)
(* A login opens a session.  The session is named by the first token it    *)
(* was given; its entry holds the ONE token that is accepted for it now,   *)
(* and the identity and expiry it was opened with.  Reissuing replaces the *)
(* token and nothing else.  Ending is final.  Ending the sessions of a     *)
(* user ends some of them and nobody else's: which are left behind is for  *)
(* RevokedForGood to say, because the database does not leave none.        *)
(*                                                                         *)
(* SessionStore.tla implements this specification when the client gives it *)
(* transactions.                                                           *)
(***************************************************************************)
CONSTANTS Tokens,     \* opaque tokens; also the names of sessions
          Users,
          Identities  \* what a session is opened with: a record with a field user

VARIABLES ledger,     \* ledger[s]: the entry of session s, as a set of at most one
          seen        \* the tokens that have been accepted at some time

ledgerVars == <<ledger, seen>>

Entries == [token : Tokens, identity : Identities]

LedgerTypeOK ==
    /\ ledger \in [Tokens -> SUBSET Entries]
    /\ seen \in SUBSET Tokens

LedgerInit ==
    /\ ledger = [s \in Tokens |-> {}]
    /\ seen = {}

Open(s, id) ==
    /\ s \notin seen
    /\ seen' = seen \cup {s}
    /\ ledger' = [ledger EXCEPT ![s] = {[token |-> s, identity |-> id]}]

Reissue(s, t) ==
    /\ t \notin seen
    /\ seen' = seen \cup {t}
    /\ ledger[s] # {}
    /\ ledger' = [ledger EXCEPT ![s] = {[e EXCEPT !.token = t] : e \in ledger[s]}]

End(s) ==
    /\ UNCHANGED seen
    /\ ledger[s] # {}
    /\ ledger' = [ledger EXCEPT ![s] = {}]

EndSomeOf(u, S) ==
    /\ UNCHANGED seen
    /\ \A s \in S : \A e \in ledger[s] : e.identity.user = u
    /\ ledger' = [s \in Tokens |-> IF s \in S THEN {} ELSE ledger[s]]

LedgerNext ==
    \/ \E s \in Tokens, id \in Identities : Open(s, id)
    \/ \E s \in Tokens, t \in Tokens : Reissue(s, t)
    \/ \E s \in Tokens : End(s)
    \/ \E u \in Users, S \in SUBSET Tokens : EndSomeOf(u, S)

LedgerSpec == LedgerInit /\ [][LedgerNext]_ledgerVars
==============================================================================
