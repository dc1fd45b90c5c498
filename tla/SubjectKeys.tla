------------------------------ MODULE SubjectKeys ------------------------------
(***************************************************************************)
(* Crypto-shredding: SubjectFieldCipher encrypts each subject's fields     *)
(* under a key of their own, PrismaSubjectKeyStore keeps the keys in a     *)
(* table, and SubjectCryptoShredder erases a subject by deleting the key.  *)
(*                                                                         *)
(* encryptFor, decryptFor and eraseSubject run concurrently for the same   *)
(* subject.  getOrCreateKey is a find and, two awaits later, a create;     *)
(* only the table's unique constraint, if it has one, stands between two   *)
(* of them.  pc[c] names the await call c is suspended at.                 *)
(***************************************************************************)
EXTENDS KeyManagement

CONSTANTS
    Calls,      \* slots for calls in flight
    Keys,       \* values randomBytes can produce
    Subjects,   \* the data subjects: records with a tenant and an id
    HasUnique,  \* has the key table a unique constraint on (tenantId, subjectId)?
    HasKms,     \* are keys sealed before they are stored?
    NoKey, NoSubject, NoText

ASSUME SubjectConstants ==
    /\ HasUnique \in BOOLEAN
    /\ HasKms \in BOOLEAN
    /\ \A s \in Subjects : s = [tenant |-> s.tenant, id |-> s.id]
    /\ NoKey \notin Keys
    /\ NoSubject \notin Subjects

VARIABLES
    keys,      \* the key table: a set of rows
    pc,        \* where each call is suspended
    subject,   \* the (tenantId, subjectId) arguments of a call
    text,      \* the ciphertext argument of decryptFor
    raw,       \* the subject key a call has in hand
    answer,    \* what decryptFor resolved to
    \* History, read by no guard of the code's own steps:
    drawnFor,  \* drawnFor[k]: the subject key k was generated for
    written,   \* the ciphertexts encryptFor returned
    readable,  \* those of them no erasure of the subject overlapped or followed
    shredded,  \* those that were there when an erasure of the subject ran
    overtaken, \* has an erasure of its subject run since the call began?
    late       \* was the ciphertext shredded before the call began?

history == <<drawnFor, written, readable, shredded>>
vars    == <<keys, pc, subject, text, raw, answer,
             drawnFor, written, readable, shredded, overtaken, late>>

\* A ciphertext opens under one key; what is in it is known by whom it is about.
Texts == [key : Keys, about : Subjects]

ASSUME NoTextIsNoText == NoText \notin Texts

Awaits == {"encrypt.find", "encrypt.create", "encrypt.resume",
           "decrypt.find", "decrypt.resume", "erase"}
PCs    == Awaits \cup {"idle", "answered"}

----------------------------------------------------------------------------
(* The key table                                                           *)

Context == "kengela:pii"

Wrap(tenant, key) == IF HasKms THEN Seal(Context, tenant, key) ELSE key

Unwrap(tenant, stored) == IF HasKms THEN Unseal(Context, tenant, stored, NoKey) ELSE stored

Row(s, key) == [tenant |-> s.tenant, id |-> s.id, key |-> Wrap(s.tenant, key)]

\* A bug: the subject is left out of the condition.
RowsOfTenant(s) == {r \in keys : r.tenant = s.tenant}

\* where: {tenantId, subjectId}.
RowsOf(s) == {r \in keys : r.tenant = s.tenant /\ r.id = s.id}

Init ==
    /\ keys = {}
    /\ pc = [c \in Calls |-> "idle"]
    /\ subject = [c \in Calls |-> NoSubject]
    /\ text = [c \in Calls |-> NoText]
    /\ raw = [c \in Calls |-> NoKey]
    /\ answer = [c \in Calls |-> "none"]
    /\ drawnFor = [k \in Keys |-> NoSubject]
    /\ written = {}
    /\ readable = {}
    /\ shredded = {}
    /\ overtaken = [c \in Calls |-> FALSE]
    /\ late = [c \in Calls |-> FALSE]

\* A call starts, on a subject and possibly a ciphertext.
Begin(c, at, s, x) ==
    /\ pc[c] = "idle"
    /\ pc' = [pc EXCEPT ![c] = at]
    /\ subject' = [subject EXCEPT ![c] = s]
    /\ text' = [text EXCEPT ![c] = x]
    /\ late' = [late EXCEPT ![c] = x \in shredded]
    /\ UNCHANGED <<keys, raw, answer, history, overtaken>>

\* The call settles: nothing of it is left.
Settle(c) ==
    /\ pc' = [pc EXCEPT ![c] = "idle"]
    /\ subject' = [subject EXCEPT ![c] = NoSubject]
    /\ text' = [text EXCEPT ![c] = NoText]
    /\ raw' = [raw EXCEPT ![c] = NoKey]
    /\ answer' = [answer EXCEPT ![c] = "none"]
    /\ late' = [late EXCEPT ![c] = FALSE]

\* A bug: the stored key is used as it is.
TakeKeyWrapped(c, resume) ==
    /\ \E r \in RowsOf(subject[c]) : raw' = [raw EXCEPT ![c] = r.key]
    /\ pc' = [pc EXCEPT ![c] = resume]

\* findFirst found rows: it answers any one of them, and the key is unwrapped.
TakeKey(c, resume) ==
    /\ \E r \in RowsOf(subject[c]) :
          raw' = [raw EXCEPT ![c] = Unwrap(subject[c].tenant, r.key)]
    /\ pc' = [pc EXCEPT ![c] = resume]

----------------------------------------------------------------------------
(* encryptFor                                                              *)

Encrypt(c) == \E s \in Subjects : Begin(c, "encrypt.find", s, NoText)

\* getOrCreateKey: findFirst answers.  Without a row a key is generated, at once.
EncryptFind(c) ==
    /\ pc[c] = "encrypt.find"
    /\ \/ /\ TakeKey(c, "encrypt.resume")
          /\ UNCHANGED drawnFor
       \/ /\ RowsOf(subject[c]) = {}
          /\ \E k \in {x \in Keys : drawnFor[x] = NoSubject} :
                /\ raw' = [raw EXCEPT ![c] = k]
                /\ drawnFor' = [drawnFor EXCEPT ![k] = subject[c]]
          /\ pc' = [pc EXCEPT ![c] = "encrypt.create"]
    /\ UNCHANGED <<keys, subject, text, answer, written, readable, shredded,
                   overtaken, late>>

\* A bug: an upsert that lets the last writer win.
EncryptReplace(c) ==
    /\ pc[c] = "encrypt.create"
    /\ keys' = (keys \ RowsOf(subject[c])) \cup {Row(subject[c], raw[c])}
    /\ pc' = [pc EXCEPT ![c] = "encrypt.resume"]
    /\ UNCHANGED <<subject, text, raw, answer, history, overtaken, late>>

\* create: the new key is stored.
EncryptCreate(c) ==
    /\ pc[c] = "encrypt.create"
    /\ ~(HasUnique /\ RowsOf(subject[c]) # {})
    /\ keys' = keys \cup {Row(subject[c], raw[c])}
    /\ pc' = [pc EXCEPT ![c] = "encrypt.resume"]
    /\ UNCHANGED <<subject, text, raw, answer, history, overtaken, late>>

\* create violates the unique constraint: encryptFor rejects.
EncryptConflict(c) ==
    /\ pc[c] = "encrypt.create"
    /\ HasUnique /\ RowsOf(subject[c]) # {}
    /\ Settle(c)
    /\ overtaken' = [overtaken EXCEPT ![c] = FALSE]
    /\ UNCHANGED <<keys, history>>

\* The field is encrypted and returned.
EncryptResume(c) ==
    /\ pc[c] = "encrypt.resume"
    /\ raw[c] # NoKey
    /\ LET x == [key |-> raw[c], about |-> subject[c]]
       IN  /\ written' = written \cup {x}
           /\ readable' = IF overtaken[c] THEN readable ELSE readable \cup {x}
    /\ Settle(c)
    /\ overtaken' = [overtaken EXCEPT ![c] = FALSE]
    /\ UNCHANGED <<keys, drawnFor, shredded>>

----------------------------------------------------------------------------
(* decryptFor                                                              *)

\* The caller names a subject; the ciphertext may be another's.
Decrypt(c) == \E s \in Subjects, x \in written : Begin(c, "decrypt.find", s, x)

\* getKey: findFirst answers.  Without a row decryptFor resolves to null.
DecryptFind(c) ==
    /\ pc[c] = "decrypt.find"
    /\ \/ /\ TakeKey(c, "decrypt.resume")
          /\ UNCHANGED answer
       \/ /\ RowsOf(subject[c]) = {}
          /\ pc' = [pc EXCEPT ![c] = "answered"]
          /\ answer' = [answer EXCEPT ![c] = "null"]
          /\ UNCHANGED raw
    /\ UNCHANGED <<keys, subject, text, history, overtaken, late>>

\* The ciphertext opens under its own key; under another final() throws.
DecryptResume(c) ==
    /\ pc[c] = "decrypt.resume"
    /\ pc' = [pc EXCEPT ![c] = "answered"]
    /\ answer' = [answer EXCEPT ![c] = IF raw[c] = text[c].key THEN "plain" ELSE "throws"]
    /\ UNCHANGED <<keys, subject, text, raw, history, overtaken, late>>

\* The caller has taken note of the answer.
Answered(c) ==
    /\ pc[c] = "answered"
    /\ Settle(c)
    /\ overtaken' = [overtaken EXCEPT ![c] = FALSE]
    /\ UNCHANGED <<keys, history>>

----------------------------------------------------------------------------
(* eraseSubject                                                            *)

Erase(c) == \E s \in Subjects : Begin(c, "erase", s, NoText)

\* What an erasure of s does to the record of who may read what.
Shred(c, s) ==
    /\ readable' = {x \in readable : x.about # s}
    /\ shredded' = shredded \cup {x \in written : x.about = s}
    /\ overtaken' = [d \in Calls |-> d # c /\ (overtaken[d] \/ subject[d] = s)]
    /\ UNCHANGED <<drawnFor, written>>

\* A bug: the rows are only marked as erased, and findFirst ignores the mark.
EraseMark(c) ==
    /\ pc[c] = "erase"
    /\ Shred(c, subject[c])
    /\ Settle(c)
    /\ UNCHANGED keys

\* deleteMany: every key of the subject goes.
EraseDelete(c) ==
    /\ pc[c] = "erase"
    /\ keys' = keys \ RowsOf(subject[c])
    /\ Shred(c, subject[c])
    /\ Settle(c)

----------------------------------------------------------------------------
(* The environment                                                         *)

\* The database or the key management rejects, or the process dies.
Fail(c) ==
    /\ pc[c] \in Awaits
    /\ Settle(c)
    /\ overtaken' = [overtaken EXCEPT ![c] = FALSE]
    /\ UNCHANGED <<keys, history>>

Next ==
    \E c \in Calls :
        \/ Encrypt(c) \/ EncryptFind(c) \/ EncryptCreate(c) \/ EncryptConflict(c)
        \/ EncryptResume(c)
        \/ Decrypt(c) \/ DecryptFind(c) \/ DecryptResume(c) \/ Answered(c)
        \/ Erase(c) \/ EraseDelete(c)
        \/ Fail(c)

Spec == Init /\ [][Next]_vars

----------------------------------------------------------------------------
(* Properties                                                              *)

KeyRows == {Row(s, k) : s \in Subjects, k \in Keys}

TypeOK ==
    /\ keys \in SUBSET KeyRows
    /\ pc \in [Calls -> PCs]
    /\ subject \in [Calls -> Subjects \cup {NoSubject}]
    /\ text \in [Calls -> Texts \cup {NoText}]
    /\ raw \in [Calls -> Keys \cup {NoKey}]
    /\ answer \in [Calls -> {"none", "null", "plain", "throws"}]
    /\ drawnFor \in [Keys -> Subjects \cup {NoSubject}]
    /\ written \in SUBSET Texts
    /\ readable \in SUBSET Texts
    /\ shredded \in SUBSET Texts
    /\ overtaken \in [Calls -> BOOLEAN]
    /\ late \in [Calls -> BOOLEAN]

\* Erasure is final: what was encrypted for a subject before eraseSubject ran is
\* never read again, whatever is encrypted for the subject afterwards.
ErasureFinal ==
    \A c \in Calls : late[c] => answer[c] # "plain"

\* And nothing is lost to anyone else: what was encrypted for a subject who has not
\* been erased since is readable, however many calls raced to make the first key.
ReadableUntilErased ==
    \A x \in readable :
        /\ RowsOf(x.about) # {}
        /\ \A r \in RowsOf(x.about) : Unwrap(x.about.tenant, r.key) = x.key

\* Nobody reads a field as another subject, of the same tenant or not.
NoForeignRead ==
    \A c \in Calls : answer[c] = "plain" => text[c].about = subject[c]
==============================================================================
