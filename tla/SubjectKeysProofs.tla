--------------------------- MODULE SubjectKeysProofs ---------------------------
(* Theorems about SubjectKeys.                                                *)
EXTENDS SubjectKeys, TLAPS

HasRow(s, k) == Row(s, k) \in keys

\* What a suspended call knows.
CallOK(c) ==
    /\ pc[c] \in PCs \ {"idle"} => subject[c] \in Subjects
    /\ pc[c] \in {"decrypt.find", "decrypt.resume", "answered"} => text[c] \in written
    /\ pc[c] \in {"encrypt.create", "encrypt.resume", "decrypt.resume"}
          => raw[c] \in Keys /\ drawnFor[raw[c]] = subject[c]
    /\ answer[c] # "none" => pc[c] = "answered"
    /\ answer[c] = "plain" => raw[c] = text[c].key /\ drawnFor[raw[c]] = subject[c]

CallInv == \A c \in Calls : CallOK(c)

\* Calls with a subject key in hand.
Holding == {"encrypt.create", "encrypt.resume", "decrypt.resume"}

\* A key that has been drawn and not stored is in no row and in no ciphertext, and
\* in the hands of one call.
PendingInv ==
    \A c \in Calls : pc[c] = "encrypt.create" =>
        /\ \A s \in Subjects : ~HasRow(s, raw[c])
        /\ \A x \in written : x.key # raw[c]
        /\ \A d \in Calls \ {c} : pc[d] \in Holding => raw[d] # raw[c]

\* Rows and ciphertexts are of the subject their key was drawn for.
OwnerInv ==
    /\ \A s \in Subjects, k \in Keys : HasRow(s, k) => drawnFor[k] = s
    /\ \A x \in written : drawnFor[x.key] = x.about

\* No row has the key of a shredded ciphertext, and no call that came after the
\* erasure has it in hand.
ShreddedInv ==
    /\ shredded \subseteq written
    /\ \A x \in shredded, s \in Subjects : ~HasRow(s, x.key)
    /\ \A c \in Calls : late[c] =>
          /\ text[c] \in shredded
          /\ pc[c] = "decrypt.resume" => raw[c] # text[c].key
          /\ answer[c] # "plain"

\* The key is there, for every readable ciphertext and for the next one.
ReadableInv ==
    /\ readable \subseteq written
    /\ \A x \in readable : HasRow(x.about, x.key)
    /\ \A c \in Calls : pc[c] = "encrypt.resume" /\ ~overtaken[c]
                            => HasRow(subject[c], raw[c])

UniqueInv ==
    HasUnique => \A s \in Subjects, k1, k2 \in Keys :
                    HasRow(s, k1) /\ HasRow(s, k2) => k1 = k2

IInv ==
    /\ TypeOK
    /\ CallInv
    /\ PendingInv
    /\ OwnerInv
    /\ ShreddedInv
    /\ ReadableInv
    /\ UniqueInv

----------------------------------------------------------------------------
(* Rows                                                                     *)

LEMMA UnwrapWrap ==
    ASSUME NEW t, NEW k
    PROVE  Unwrap(t, Wrap(t, k)) = k
  BY DEF Unwrap, Wrap, Seal, Unseal

LEMMA RowIdentity ==
    ASSUME NEW s1 \in Subjects, NEW s2 \in Subjects, NEW k1, NEW k2
    PROVE  /\ Row(s1, k1) = Row(s2, k2) => s1 = s2 /\ k1 = k2
           /\ (Row(s1, k1).tenant = s2.tenant /\ Row(s1, k1).id = s2.id) <=> s1 = s2
<1>1. s1 = [tenant |-> s1.tenant, id |-> s1.id] /\ s2 = [tenant |-> s2.tenant, id |-> s2.id]
  BY SubjectConstants
<1>2. /\ Row(s1, k1).tenant = s1.tenant
      /\ Row(s1, k1).id = s1.id
      /\ Row(s1, k1).key = Wrap(s1.tenant, k1)
      /\ Row(s2, k2).tenant = s2.tenant
      /\ Row(s2, k2).id = s2.id
      /\ Row(s2, k2).key = Wrap(s2.tenant, k2)
  BY DEF Row
<1>3. Row(s1, k1) = Row(s2, k2) => s1 = s2
  BY <1>1, <1>2
<1>4. Row(s1, k1) = Row(s2, k2) => k1 = k2
  BY <1>2, <1>3, UnwrapWrap
<1> QED
  BY <1>1, <1>2, <1>3, <1>4

LEMMA RowsAreOfSubjects ==
    ASSUME keys \in SUBSET KeyRows, NEW s \in Subjects, NEW r
    PROVE  r \in RowsOf(s) <=> \E k \in Keys : r = Row(s, k) /\ HasRow(s, k)
<1>1. ASSUME r \in RowsOf(s)
      PROVE  \E k \in Keys : r = Row(s, k) /\ HasRow(s, k)
  <2>1. PICK s0 \in Subjects, k \in Keys : r = Row(s0, k)
    BY <1>1 DEF RowsOf, KeyRows
  <2>2. s0 = s
    BY <1>1, <2>1, RowIdentity DEF RowsOf
  <2> QED
    BY <1>1, <2>1, <2>2 DEF RowsOf, HasRow
<1>2. ASSUME NEW k \in Keys, r = Row(s, k), HasRow(s, k)
      PROVE  r \in RowsOf(s)
  BY <1>2 DEF RowsOf, HasRow, Row
<1> QED
  BY <1>1, <1>2

\* findFirst answers a row, and with it a key.
LEMMA TakesKey ==
    ASSUME keys \in SUBSET KeyRows, NEW c, NEW at, subject[c] \in Subjects, TakeKey(c, at)
    PROVE  \E k \in Keys : HasRow(subject[c], k) /\ raw' = [raw EXCEPT ![c] = k]
<1>1. PICK r \in RowsOf(subject[c]) :
          raw' = [raw EXCEPT ![c] = Unwrap(subject[c].tenant, r.key)]
  BY DEF TakeKey
<1>2. PICK k \in Keys : r = Row(subject[c], k) /\ HasRow(subject[c], k)
  BY <1>1, RowsAreOfSubjects
<1>3. Unwrap(subject[c].tenant, r.key) = k
  BY <1>2, UnwrapWrap DEF Row
<1> QED
  BY <1>1, <1>2, <1>3

LEMMA NoRowsOf ==
    ASSUME keys \in SUBSET KeyRows, NEW s \in Subjects
    PROVE  RowsOf(s) = {} <=> \A k \in Keys : ~HasRow(s, k)
  BY RowsAreOfSubjects

\* What a create and a deleteMany do to the table.
LEMMA CreateAddsRow ==
    ASSUME NEW s \in Subjects, NEW k \in Keys, keys' = keys \cup {Row(s, k)},
           NEW s2 \in Subjects, NEW k2 \in Keys
    PROVE  HasRow(s2, k2)' <=> HasRow(s2, k2) \/ (s2 = s /\ k2 = k)
  BY RowIdentity DEF HasRow

LEMMA DeleteRemovesRows ==
    ASSUME NEW s \in Subjects, keys' = keys \ RowsOf(s),
           NEW s2 \in Subjects, NEW k2 \in Keys
    PROVE  HasRow(s2, k2)' <=> HasRow(s2, k2) /\ s2 # s
<1>1. Row(s2, k2) \in RowsOf(s) <=> HasRow(s2, k2) /\ s2 = s
  BY RowIdentity DEF RowsOf, HasRow
<1> QED
  BY <1>1 DEF HasRow

----------------------------------------------------------------------------
(* Type correctness                                                         *)

LEMMA TypeStep ==
    ASSUME TypeOK, CallInv, OwnerInv, ShreddedInv, [Next]_vars
    PROVE  TypeOK'
<1> USE DEF TypeOK, PCs, Awaits, history
<1>1. ASSUME NEW c \in Calls, NEW at \in Awaits, NEW s \in Subjects,
             NEW x \in written \cup {NoText}, Begin(c, at, s, x)
      PROVE  TypeOK'
  BY <1>1 DEF Begin
<1>2. ASSUME NEW c \in Calls, EncryptFind(c)
      PROVE  TypeOK'
  <2>1. subject[c] \in Subjects
    BY <1>2 DEF EncryptFind, CallInv, CallOK
  <2>2. CASE TakeKey(c, "encrypt.resume") /\ UNCHANGED drawnFor
    <3>1. PICK k \in Keys : raw' = [raw EXCEPT ![c] = k]
      BY <2>1, <2>2, TakesKey
    <3> QED
      BY <1>2, <2>2, <3>1 DEF EncryptFind, TakeKey
  <2> QED
    BY <1>2, <2>1, <2>2 DEF EncryptFind
<1>3. ASSUME NEW c \in Calls, EncryptCreate(c)
      PROVE  TypeOK'
  <2>1. Row(subject[c], raw[c]) \in KeyRows
    BY <1>3 DEF EncryptCreate, CallInv, CallOK, KeyRows
  <2> QED
    BY <1>3, <2>1 DEF EncryptCreate
<1>4. ASSUME NEW c \in Calls, EncryptConflict(c) \/ Answered(c) \/ Fail(c)
      PROVE  TypeOK'
  BY <1>4 DEF EncryptConflict, Answered, Fail, Settle
<1>5. ASSUME NEW c \in Calls, EncryptResume(c)
      PROVE  TypeOK'
  <2>1. [key |-> raw[c], about |-> subject[c]] \in Texts
    BY <1>5 DEF EncryptResume, CallInv, CallOK, Texts
  <2> QED
    BY <1>5, <2>1 DEF EncryptResume, Settle
<1>6. ASSUME NEW c \in Calls, DecryptFind(c)
      PROVE  TypeOK'
  <2>1. subject[c] \in Subjects
    BY <1>6 DEF DecryptFind, CallInv, CallOK
  <2>2. CASE TakeKey(c, "decrypt.resume") /\ UNCHANGED answer
    <3>1. PICK k \in Keys : raw' = [raw EXCEPT ![c] = k]
      BY <2>1, <2>2, TakesKey
    <3> QED
      BY <1>6, <2>2, <3>1 DEF DecryptFind, TakeKey
  <2> QED
    BY <1>6, <2>2 DEF DecryptFind
<1>7. ASSUME NEW c \in Calls, DecryptResume(c)
      PROVE  TypeOK'
  BY <1>7 DEF DecryptResume
<1>8. ASSUME NEW c \in Calls, EraseDelete(c)
      PROVE  TypeOK'
  BY <1>8 DEF EraseDelete, Shred, Settle
<1>9. CASE UNCHANGED vars
  BY <1>9 DEF vars
<1> QED
  BY <1>1, <1>2, <1>3, <1>4, <1>5, <1>6, <1>7, <1>8, <1>9
     DEF Next, Encrypt, Decrypt, Erase

----------------------------------------------------------------------------
(* What calls know                                                          *)

\* A call is not disturbed by a step that leaves its own state alone.
LEMMA CallFrame ==
    ASSUME TypeOK, NEW c \in Calls, CallOK(c),
           pc'[c] = pc[c], subject'[c] = subject[c], text'[c] = text[c],
           raw'[c] = raw[c], answer'[c] = answer[c],
           written \subseteq written',
           \A k \in Keys : drawnFor[k] \in Subjects => drawnFor'[k] = drawnFor[k]
    PROVE  CallOK(c)'
<1>1. /\ pc[c] \in PCs
      /\ pc[c] \in PCs \ {"idle"} => subject[c] \in Subjects
      /\ text[c] \in written => text[c].key \in Keys
  BY DEF TypeOK, Texts, CallOK
<1> QED
  BY <1>1 DEF CallOK, PCs, Awaits

LEMMA SettledCall ==
    ASSUME TypeOK, NEW c \in Calls, Settle(c)
    PROVE  CallOK(c)'
  BY DEF TypeOK, Settle, CallOK

LEMMA CallStep ==
    ASSUME TypeOK, CallInv, OwnerInv, [Next]_vars
    PROVE  CallInv'
<1> SUFFICES ASSUME NEW d \in Calls
             PROVE  CallOK(d)'
  BY DEF CallInv
<1> USE DEF CallInv
<1>0. CallOK(d)
  OBVIOUS
<1>1. ASSUME NEW c \in Calls, NEW at \in {"encrypt.find", "erase"}, NEW s \in Subjects,
             Begin(c, at, s, NoText)
      PROVE  CallOK(d)'
  <2>1. CASE d = c
    BY <1>0, <1>1, <2>1 DEF Begin, CallOK, history, TypeOK, PCs, Awaits
  <2>2. CASE d # c
    BY <1>0, <1>1, <2>2, CallFrame DEF Begin, history, TypeOK
  <2> QED
    BY <2>1, <2>2
<1>2. ASSUME NEW c \in Calls, NEW s \in Subjects, NEW x \in written,
             Begin(c, "decrypt.find", s, x)
      PROVE  CallOK(d)'
  <2>1. CASE d = c
    BY <1>0, <1>2, <2>1 DEF Begin, CallOK, history, TypeOK, PCs, Awaits
  <2>2. CASE d # c
    BY <1>0, <1>2, <2>2, CallFrame DEF Begin, history, TypeOK
  <2> QED
    BY <2>1, <2>2
<1>3. ASSUME NEW c \in Calls, EncryptFind(c)
      PROVE  CallOK(d)'
  <2>1. subject[c] \in Subjects
    BY <1>3 DEF EncryptFind, CallOK, PCs, Awaits
  <2>2. CASE TakeKey(c, "encrypt.resume") /\ UNCHANGED drawnFor
    <3>1. PICK k \in Keys : HasRow(subject[c], k) /\ raw' = [raw EXCEPT ![c] = k]
      BY <2>1, <2>2, TakesKey DEF TypeOK
    <3>2. drawnFor[k] = subject[c]
      BY <2>1, <3>1 DEF OwnerInv
    <3>3. CASE d = c
      BY <1>0, <1>3, <2>1, <2>2, <3>1, <3>2, <3>3 DEF EncryptFind, TakeKey, CallOK, TypeOK
    <3>4. CASE d # c
      BY <1>0, <1>3, <2>2, <3>1, <3>4, CallFrame DEF EncryptFind, TakeKey, TypeOK
    <3> QED
      BY <3>3, <3>4
  <2>3. CASE ~(TakeKey(c, "encrypt.resume") /\ UNCHANGED drawnFor)
    <3>1. PICK k \in Keys : /\ drawnFor[k] = NoSubject
                            /\ raw' = [raw EXCEPT ![c] = k]
                            /\ drawnFor' = [drawnFor EXCEPT ![k] = subject[c]]
      BY <1>3, <2>3 DEF EncryptFind
    <3>2. pc' = [pc EXCEPT ![c] = "encrypt.create"]
      BY <1>3, <2>3 DEF EncryptFind
    <3>3. CASE d = c
      BY <1>0, <1>3, <2>1, <3>1, <3>2, <3>3 DEF EncryptFind, CallOK, TypeOK
    <3>4. CASE d # c
      <4>1. \A j \in Keys : drawnFor[j] \in Subjects => drawnFor'[j] = drawnFor[j]
        BY <3>1, SubjectConstants DEF TypeOK
      <4> QED
        BY <1>0, <1>3, <3>1, <3>2, <3>4, <4>1, CallFrame DEF EncryptFind, TypeOK
    <3> QED
      BY <3>3, <3>4
  <2> QED
    BY <2>2, <2>3
<1>4. ASSUME NEW c \in Calls, EncryptCreate(c) \/ DecryptResume(c)
      PROVE  CallOK(d)'
  <2>1. CASE d = c
    BY <1>0, <1>4, <2>1 DEF EncryptCreate, DecryptResume, CallOK, history, TypeOK,
                             PCs, Awaits
  <2>2. CASE d # c
    BY <1>0, <1>4, <2>2, CallFrame DEF EncryptCreate, DecryptResume, history, TypeOK
  <2> QED
    BY <2>1, <2>2
<1>5. ASSUME NEW c \in Calls, Settle(c), UNCHANGED drawnFor, written \subseteq written'
      PROVE  CallOK(d)'
  <2>1. CASE d # c
    BY <1>0, <1>5, <2>1, CallFrame DEF Settle, TypeOK
  <2> QED
    BY <1>5, <2>1, SettledCall
<1>6. ASSUME NEW c \in Calls, DecryptFind(c)
      PROVE  CallOK(d)'
  <2>1. subject[c] \in Subjects
    BY <1>6 DEF DecryptFind, CallOK, PCs, Awaits
  <2>2. CASE TakeKey(c, "decrypt.resume") /\ UNCHANGED answer
    <3>1. PICK k \in Keys : HasRow(subject[c], k) /\ raw' = [raw EXCEPT ![c] = k]
      BY <2>1, <2>2, TakesKey DEF TypeOK
    <3>2. drawnFor[k] = subject[c]
      BY <2>1, <3>1 DEF OwnerInv
    <3>3. CASE d = c
      BY <1>0, <1>6, <2>1, <2>2, <3>1, <3>2, <3>3
         DEF DecryptFind, TakeKey, CallOK, TypeOK, history
    <3>4. CASE d # c
      BY <1>0, <1>6, <2>2, <3>1, <3>4, CallFrame DEF DecryptFind, TakeKey, TypeOK, history
    <3> QED
      BY <3>3, <3>4
  <2>3. CASE ~(TakeKey(c, "decrypt.resume") /\ UNCHANGED answer)
    <3>1. CASE d = c
      BY <1>0, <1>6, <2>1, <2>3, <3>1 DEF DecryptFind, CallOK, TypeOK, history, PCs, Awaits
    <3>2. CASE d # c
      BY <1>0, <1>6, <2>3, <3>2, CallFrame DEF DecryptFind, TypeOK, history
    <3> QED
      BY <3>1, <3>2
  <2> QED
    BY <2>2, <2>3
<1>7. CASE UNCHANGED vars
  BY <1>0, <1>7, CallFrame DEF vars
<1> QED
  BY <1>1, <1>2, <1>3, <1>4, <1>5, <1>6, <1>7
     DEF Next, Encrypt, Decrypt, Erase, EncryptConflict, EncryptResume, Answered,
         EraseDelete, Shred, Fail, history

----------------------------------------------------------------------------
(* The key table and the ciphertexts                                        *)

\* What a step can do to the rows of a subject.
LEMMA RowsChange ==
    ASSUME TypeOK, CallInv, [Next]_vars
    PROVE  \/ UNCHANGED keys
           \/ \E c \in Calls :
                 /\ EncryptCreate(c)
                 /\ \A s \in Subjects, k \in Keys :
                       HasRow(s, k)' <=> HasRow(s, k) \/ (s = subject[c] /\ k = raw[c])
           \/ \E c \in Calls :
                 /\ EraseDelete(c)
                 /\ \A s \in Subjects, k \in Keys :
                       HasRow(s, k)' <=> HasRow(s, k) /\ s # subject[c]
<1>1. ASSUME NEW c \in Calls, EncryptCreate(c)
      PROVE  \A s \in Subjects, k \in Keys :
                HasRow(s, k)' <=> HasRow(s, k) \/ (s = subject[c] /\ k = raw[c])
  <2>1. subject[c] \in Subjects /\ raw[c] \in Keys
    BY <1>1 DEF EncryptCreate, CallInv, CallOK, PCs, Awaits
  <2> QED
    BY <1>1, <2>1, CreateAddsRow DEF EncryptCreate
<1>2. ASSUME NEW c \in Calls, EraseDelete(c)
      PROVE  \A s \in Subjects, k \in Keys :
                HasRow(s, k)' <=> HasRow(s, k) /\ s # subject[c]
  <2>1. subject[c] \in Subjects
    BY <1>2 DEF EraseDelete, CallInv, CallOK, PCs, Awaits
  <2> QED
    BY <1>2, <2>1, DeleteRemovesRows DEF EraseDelete
<1> QED
  BY <1>1, <1>2
     DEF Next, Encrypt, Decrypt, Erase, Begin, EncryptFind, EncryptConflict, EncryptResume,
         DecryptFind, DecryptResume, Answered, Fail, vars

\* What a step can add to the ciphertexts.
LEMMA WrittenChange ==
    ASSUME TypeOK, CallInv, [Next]_vars
    PROVE  \/ UNCHANGED written
           \/ \E c \in Calls : /\ EncryptResume(c)
                               /\ raw[c] \in Keys /\ drawnFor[raw[c]] = subject[c]
                               /\ written' = written \cup {[key |-> raw[c], about |-> subject[c]]}
<1>1. ASSUME NEW c \in Calls, EncryptResume(c)
      PROVE  /\ raw[c] \in Keys /\ drawnFor[raw[c]] = subject[c]
             /\ written' = written \cup {[key |-> raw[c], about |-> subject[c]]}
  BY <1>1 DEF EncryptResume, CallInv, CallOK
<1> QED
  BY <1>1
     DEF Next, Encrypt, Decrypt, Erase, Begin, EncryptFind, EncryptCreate, EncryptConflict,
         DecryptFind, DecryptResume, Answered, EraseDelete, Shred, Fail, vars, history

\* A key is drawn once.
LEMMA DrawnChange ==
    ASSUME [Next]_vars, TypeOK, CallInv
    PROVE  \/ UNCHANGED drawnFor
           \/ \E c \in Calls, k \in Keys :
                 /\ EncryptFind(c)
                 /\ subject[c] \in Subjects
                 /\ drawnFor[k] = NoSubject
                 /\ drawnFor' = [drawnFor EXCEPT ![k] = subject[c]]
<1>1. ASSUME NEW c \in Calls, EncryptFind(c), drawnFor' # drawnFor
      PROVE  \E k \in Keys : /\ subject[c] \in Subjects
                             /\ drawnFor[k] = NoSubject
                             /\ drawnFor' = [drawnFor EXCEPT ![k] = subject[c]]
  BY <1>1 DEF EncryptFind, CallInv, CallOK, PCs, Awaits
<1> QED
  BY <1>1
     DEF Next, Encrypt, Decrypt, Erase, Begin, EncryptCreate, EncryptConflict, EncryptResume,
         DecryptFind, DecryptResume, Answered, EraseDelete, Shred, Fail, vars, history

LEMMA OwnerStep ==
    ASSUME TypeOK, CallInv, OwnerInv, [Next]_vars
    PROVE  OwnerInv'
<1>1. \A k \in Keys : drawnFor[k] \in Subjects => drawnFor'[k] = drawnFor[k]
  BY DrawnChange, SubjectConstants DEF TypeOK
<1>2. ASSUME NEW s \in Subjects, NEW k \in Keys, HasRow(s, k)'
      PROVE  drawnFor'[k] = s
  <2>1. CASE HasRow(s, k)
    BY <1>1, <2>1 DEF OwnerInv
  <2>2. CASE ~HasRow(s, k)
    <3>1. PICK c \in Calls : EncryptCreate(c) /\ s = subject[c] /\ k = raw[c]
      BY <1>2, <2>2, RowsChange DEF HasRow
    <3> QED
      BY <1>1, <3>1 DEF EncryptCreate, CallInv, CallOK
  <2> QED
    BY <2>1, <2>2
<1>3. ASSUME NEW x \in written'
      PROVE  drawnFor'[x.key] = x.about
  <2>1. CASE x \in written
    BY <1>1, <2>1 DEF OwnerInv, TypeOK, Texts
  <2>2. CASE x \notin written
    <3>1. PICK c \in Calls : /\ EncryptResume(c)
                             /\ raw[c] \in Keys /\ drawnFor[raw[c]] = subject[c]
                             /\ x = [key |-> raw[c], about |-> subject[c]]
      BY <1>3, <2>2, WrittenChange
    <3> QED
      BY <3>1 DEF EncryptResume
  <2> QED
    BY <2>1, <2>2
<1> QED
  BY <1>2, <1>3 DEF OwnerInv

\* A call gets its key from a row or from the generator, and then keeps it.
LEMMA HandChange ==
    ASSUME TypeOK, CallInv, [Next]_vars, NEW d \in Calls, pc'[d] \in Holding
    PROVE  \/ pc[d] \in Holding /\ raw'[d] = raw[d] /\ (pc'[d] = "encrypt.create" => pc'[d] = pc[d])
           \/ /\ UNCHANGED keys
              /\ pc'[d] # "encrypt.create"
              /\ subject[d] \in Subjects
              /\ \E k \in Keys : HasRow(subject[d], k) /\ raw'[d] = k
           \/ /\ EncryptFind(d)
              /\ drawnFor[raw'[d]] = NoSubject
              /\ raw'[d] \in Keys
<1>1. ASSUME NEW c \in Calls, NEW at, TakeKey(c, at), at \in Holding,
             EncryptFind(c) \/ DecryptFind(c)
      PROVE  \E k \in Keys : /\ HasRow(subject[c], k) /\ raw' = [raw EXCEPT ![c] = k]
                             /\ subject[c] \in Subjects
  <2>1. subject[c] \in Subjects
    BY <1>1 DEF EncryptFind, DecryptFind, CallInv, CallOK, PCs, Awaits
  <2> QED
    BY <1>1, <2>1, TakesKey DEF TypeOK
<1>2. CASE EncryptFind(d) /\ TakeKey(d, "encrypt.resume")
  BY <1>1, <1>2 DEF EncryptFind, TakeKey, TypeOK, Holding
<1>3. CASE EncryptFind(d) /\ ~TakeKey(d, "encrypt.resume")
  BY <1>3 DEF EncryptFind, TypeOK
<1>4. CASE DecryptFind(d)
  BY <1>1, <1>4 DEF DecryptFind, TakeKey, TypeOK, Holding
<1>5. CASE pc[d] \in Holding /\ raw'[d] = raw[d] /\ (pc'[d] = "encrypt.create" => pc'[d] = pc[d])
  BY <1>5
<1>6. ASSUME NEW c \in Calls, EncryptFind(c) \/ DecryptFind(c), c # d
      PROVE  pc[d] \in Holding /\ raw'[d] = raw[d] /\ (pc'[d] = "encrypt.create" => pc'[d] = pc[d])
  BY <1>6 DEF EncryptFind, DecryptFind, TakeKey, TypeOK
<1> QED
  BY <1>2, <1>3, <1>4, <1>5, <1>6
     DEF Next, Encrypt, Decrypt, Erase, Begin, EncryptCreate, EncryptConflict, EncryptResume,
         DecryptResume, Answered, EraseDelete, Fail, Settle, vars, Holding, TypeOK

LEMMA PendingStep ==
    ASSUME TypeOK, CallInv, OwnerInv, PendingInv, [Next]_vars
    PROVE  PendingInv'
<1> SUFFICES ASSUME NEW c \in Calls, pc'[c] = "encrypt.create"
             PROVE  /\ \A s \in Subjects : Row(s, raw'[c]) \notin keys'
                    /\ \A x \in written' : x.key # raw'[c]
                    /\ \A d \in Calls \ {c} : pc'[d] \in Holding => raw'[d] # raw'[c]
  BY DEF PendingInv, HasRow
<1>0. \A d \in Calls : pc[d] \in Holding =>
         raw[d] \in Keys /\ drawnFor[raw[d]] = subject[d] /\ subject[d] \in Subjects
  BY DEF Holding, CallInv, CallOK, PCs, Awaits
<1>1. CASE pc[c] = "encrypt.create" /\ raw'[c] = raw[c]
  <2>1. raw[c] \in Keys /\ drawnFor[raw[c]] = subject[c] /\ subject[c] \in Subjects
    BY <1>0, <1>1 DEF Holding
  <2>2. ASSUME NEW s \in Subjects
        PROVE  Row(s, raw[c]) \notin keys'
    <3>1. ~HasRow(s, raw[c])
      BY <1>1 DEF PendingInv
    <3>2. ASSUME NEW d \in Calls, EncryptCreate(d)
          PROVE  raw[d] # raw[c]
      <4>1. d # c
        BY <1>1, <3>2 DEF EncryptCreate, TypeOK
      <4> QED
        BY <1>1, <3>2, <4>1 DEF EncryptCreate, PendingInv, Holding
    <3> QED
      BY <2>1, <3>1, <3>2, RowsChange DEF HasRow
  <2>3. ASSUME NEW x \in written'
        PROVE  x.key # raw[c]
    <3>1. ASSUME NEW d \in Calls, EncryptResume(d)
          PROVE  raw[d] # raw[c]
      BY <1>1, <3>1 DEF PendingInv, EncryptResume, Holding
    <3> QED
      BY <1>1, <3>1, WrittenChange DEF PendingInv
  <2>4. ASSUME NEW d \in Calls \ {c}, pc'[d] \in Holding
        PROVE  raw'[d] # raw[c]
    <3>1. CASE pc[d] \in Holding /\ raw'[d] = raw[d]
      BY <1>1, <3>1 DEF PendingInv
    <3>2. ASSUME NEW k \in Keys, HasRow(subject[d], k), subject[d] \in Subjects
          PROVE  k # raw[c]
      BY <1>1, <3>2 DEF PendingInv
    <3>3. CASE drawnFor[raw'[d]] = NoSubject
      BY <2>1, <3>3, SubjectConstants
    <3> QED
      BY <2>4, <3>1, <3>2, <3>3, HandChange
  <2> QED
    BY <1>1, <2>2, <2>3, <2>4
<1>2. CASE EncryptFind(c) /\ drawnFor[raw'[c]] = NoSubject /\ raw'[c] \in Keys
  <2>1. keys' = keys /\ written' = written
    BY <1>2 DEF EncryptFind
  <2>2. ASSUME NEW s \in Subjects
        PROVE  Row(s, raw'[c]) \notin keys'
    BY <1>2, <2>1, SubjectConstants DEF HasRow, OwnerInv
  <2>3. ASSUME NEW x \in written'
        PROVE  x.key # raw'[c]
    BY <1>2, <2>1, SubjectConstants DEF OwnerInv, TypeOK, Texts
  <2>4. ASSUME NEW d \in Calls \ {c}, pc'[d] \in Holding
        PROVE  raw'[d] # raw'[c]
    <3>1. pc'[d] = pc[d] /\ raw'[d] = raw[d]
      BY <1>2 DEF EncryptFind, TakeKey, TypeOK
    <3> QED
      BY <1>0, <1>2, <2>4, <3>1, SubjectConstants
  <2> QED
    BY <2>2, <2>3, <2>4
<1> QED
  BY <1>1, <1>2, HandChange DEF Holding

LEMMA UniqueStep ==
    ASSUME TypeOK, CallInv, UniqueInv, [Next]_vars
    PROVE  UniqueInv'
<1> SUFFICES ASSUME HasUnique, NEW s \in Subjects, NEW k1 \in Keys, NEW k2 \in Keys,
                    HasRow(s, k1)', HasRow(s, k2)'
             PROVE  k1 = k2
  BY DEF UniqueInv, HasRow
<1>1. ASSUME NEW c \in Calls, EncryptCreate(c)
      PROVE  \A k \in Keys : ~HasRow(subject[c], k)
  <2>1. subject[c] \in Subjects
    BY <1>1 DEF EncryptCreate, CallInv, CallOK, PCs, Awaits
  <2> QED
    BY <1>1, <2>1, NoRowsOf DEF EncryptCreate, TypeOK
<1> QED
  BY <1>1, RowsChange DEF UniqueInv, HasRow

LEMMA ShreddedStep ==
    ASSUME TypeOK, CallInv, OwnerInv, PendingInv, ShreddedInv, [Next]_vars
    PROVE  ShreddedInv'
<1>1. \/ UNCHANGED shredded
      \/ \E c \in Calls : /\ EraseDelete(c)
                          /\ shredded' = shredded \cup {x \in written : x.about = subject[c]}
  BY DEF Next, Encrypt, Decrypt, Erase, Begin, EncryptFind, EncryptCreate, EncryptConflict,
         EncryptResume, DecryptFind, DecryptResume, Answered, EraseDelete, Shred, Fail, vars,
         history
<1>2. shredded' \subseteq written'
  BY <1>1, WrittenChange DEF ShreddedInv, EraseDelete, Shred
<1>3. ASSUME NEW x \in shredded', NEW s \in Subjects
      PROVE  ~HasRow(s, x.key)'
  <2>1. CASE x \in shredded
    <3>1. x \in written /\ x.key \in Keys /\ ~HasRow(s, x.key)
      BY <2>1 DEF ShreddedInv, TypeOK, Texts
    <3>2. ASSUME NEW c \in Calls, EncryptCreate(c)
          PROVE  raw[c] # x.key
      BY <3>1, <3>2 DEF EncryptCreate, PendingInv
    <3> QED
      BY <3>1, <3>2, RowsChange DEF HasRow
  <2>2. CASE x \notin shredded
    <3>1. PICK c \in Calls : EraseDelete(c) /\ x \in written /\ x.about = subject[c]
      BY <1>1, <1>3, <2>2
    <3>2. x.key \in Keys /\ subject[c] \in Subjects
      BY <3>1 DEF TypeOK, Texts, EraseDelete, CallInv, CallOK, PCs, Awaits
    <3>3. HasRow(s, x.key) => s = subject[c]
      BY <3>1, <3>2 DEF OwnerInv
    <3>4. HasRow(s, x.key)' <=> HasRow(s, x.key) /\ s # subject[c]
      BY <3>1, <3>2, DeleteRemovesRows DEF EraseDelete
    <3> QED
      BY <3>3, <3>4
  <2> QED
    BY <2>1, <2>2
<1>4. ASSUME NEW d \in Calls, late'[d]
      PROVE  /\ text'[d] \in shredded'
             /\ pc'[d] = "decrypt.resume" => raw'[d] # text'[d].key
             /\ answer'[d] # "plain"
  <2>1. shredded \subseteq shredded'
    BY <1>1
  <2>2. CASE late[d] /\ text'[d] = text[d]
    <3>1. text[d] \in shredded /\ text[d].key \in Keys
      BY <2>2 DEF ShreddedInv, TypeOK, Texts
    <3>2. ASSUME pc'[d] = "decrypt.resume"
          PROVE  raw'[d] # text[d].key
      <4>1. CASE pc[d] = "decrypt.resume" /\ raw'[d] = raw[d]
        BY <2>2, <4>1 DEF ShreddedInv
      <4>2. CASE DecryptFind(d) /\ TakeKey(d, "decrypt.resume")
        <5>1. subject[d] \in Subjects
          BY <4>2 DEF DecryptFind, CallInv, CallOK, PCs, Awaits
        <5>2. PICK k \in Keys : HasRow(subject[d], k) /\ raw' = [raw EXCEPT ![d] = k]
          BY <4>2, <5>1, TakesKey DEF TypeOK
        <5> QED
          BY <3>1, <5>1, <5>2 DEF ShreddedInv, TypeOK
      <4> QED
        BY <3>2, <4>1, <4>2
           DEF Next, Encrypt, Decrypt, Erase, Begin, EncryptFind, EncryptCreate,
               EncryptConflict, EncryptResume, DecryptFind, DecryptResume, Answered,
               EraseDelete, Fail, Settle, TakeKey, vars, TypeOK
    <3>3. answer'[d] # "plain"
      <4>1. answer[d] # "plain" /\ (pc[d] = "decrypt.resume" => raw[d] # text[d].key)
        BY <2>2 DEF ShreddedInv
      <4> QED
        BY <4>1
           DEF Next, Encrypt, Decrypt, Erase, Begin, EncryptFind, EncryptCreate,
               EncryptConflict, EncryptResume, DecryptFind, DecryptResume, Answered,
               EraseDelete, Fail, Settle, vars, TypeOK
    <3> QED
      BY <2>1, <2>2, <3>1, <3>2, <3>3
  <2>3. CASE ~late[d] \/ text'[d] # text[d]
    <3>1. PICK at \in {"encrypt.find", "decrypt.find", "erase"},
               s \in Subjects, x \in written \cup {NoText} : Begin(d, at, s, x)
      BY <1>4, <2>3
         DEF Next, Encrypt, Decrypt, Erase, Begin, EncryptFind, EncryptCreate,
             EncryptConflict, EncryptResume, DecryptFind, DecryptResume, Answered,
             EraseDelete, Fail, Settle, vars, TypeOK
    <3>2. answer[d] # "plain"
      BY <3>1 DEF Begin, CallInv, CallOK
    <3> QED
      BY <1>4, <3>1, <3>2 DEF Begin, history, TypeOK
  <2> QED
    BY <2>2, <2>3
<1> QED
  BY <1>2, <1>3, <1>4 DEF ShreddedInv, HasRow

LEMMA ReadableStep ==
    ASSUME TypeOK, CallInv, OwnerInv, PendingInv, ReadableInv, [Next]_vars
    PROVE  ReadableInv'
<1> DEFINE New(c) == [key |-> raw[c], about |-> subject[c]]
<1>1. \/ UNCHANGED readable
      \/ \E c \in Calls : /\ EncryptResume(c)
                          /\ readable' = IF overtaken[c] THEN readable
                                         ELSE readable \cup {New(c)}
      \/ \E c \in Calls : /\ EraseDelete(c)
                          /\ readable' = {x \in readable : x.about # subject[c]}
  BY DEF Next, Encrypt, Decrypt, Erase, Begin, EncryptFind, EncryptCreate, EncryptConflict,
         EncryptResume, DecryptFind, DecryptResume, Answered, EraseDelete, Shred, Fail, vars,
         history
<1>2. readable' \subseteq written'
  <2>1. written \subseteq written'
    BY WrittenChange
  <2>2. ASSUME NEW c \in Calls, EncryptResume(c)
        PROVE  New(c) \in written'
    BY <2>2 DEF EncryptResume
  <2> QED
    BY <1>1, <2>1, <2>2 DEF ReadableInv
<1>3. ASSUME NEW x \in readable'
      PROVE  Row(x.about, x.key) \in keys'
  <2>1. CASE UNCHANGED keys
    <3>1. CASE x \in readable
      BY <2>1, <3>1 DEF ReadableInv, HasRow
    <3>2. CASE x \notin readable
      <4>1. PICK c \in Calls : EncryptResume(c) /\ ~overtaken[c] /\ x = New(c)
        BY <1>1, <1>3, <3>2
      <4> QED
        BY <2>1, <4>1 DEF EncryptResume, ReadableInv, HasRow
    <3> QED
      BY <3>1, <3>2
  <2>2. ASSUME NEW c \in Calls, EncryptCreate(c)
        PROVE  Row(x.about, x.key) \in keys'
    <3>1. readable' = readable
      BY <2>2 DEF EncryptCreate, history
    <3> QED
      BY <1>3, <2>2, <3>1 DEF EncryptCreate, ReadableInv, HasRow
  <2>3. ASSUME NEW c \in Calls, EraseDelete(c)
        PROVE  Row(x.about, x.key) \in keys'
    <3>1. x \in readable /\ x.about # subject[c]
      BY <1>3, <2>3 DEF EraseDelete, Shred
    <3>2. x.about \in Subjects /\ x.key \in Keys /\ subject[c] \in Subjects
      BY <2>3, <3>1 DEF TypeOK, Texts, EraseDelete, CallInv, CallOK, PCs, Awaits
    <3> QED
      BY <2>3, <3>1, <3>2, DeleteRemovesRows DEF EraseDelete, ReadableInv, HasRow
  <2> QED
    BY <2>1, <2>2, <2>3, RowsChange
<1>4. ASSUME NEW d \in Calls, pc'[d] = "encrypt.resume", ~overtaken'[d]
      PROVE  Row(subject'[d], raw'[d]) \in keys'
  <2>1. CASE EncryptCreate(d)
    BY <2>1 DEF EncryptCreate
  <2>2. CASE EncryptFind(d)
    <3>1. TakeKey(d, "encrypt.resume") /\ subject[d] \in Subjects
      BY <1>4, <2>2 DEF EncryptFind, TypeOK, CallInv, CallOK, PCs, Awaits
    <3>2. PICK k \in Keys : HasRow(subject[d], k) /\ raw' = [raw EXCEPT ![d] = k]
      BY <3>1, TakesKey DEF TypeOK
    <3> QED
      BY <2>2, <3>2 DEF EncryptFind, TypeOK, HasRow
  <2>3. CASE /\ pc[d] = "encrypt.resume" /\ raw'[d] = raw[d] /\ subject'[d] = subject[d]
             /\ ~overtaken[d]
             /\ \A c \in Calls : EraseDelete(c) => subject[d] # subject[c]
    <3>1. HasRow(subject[d], raw[d]) /\ subject[d] \in Subjects /\ raw[d] \in Keys
      BY <2>3 DEF ReadableInv, CallInv, CallOK, PCs, Awaits
    <3> QED
      BY <2>3, <3>1, RowsChange DEF HasRow
  <2>4. ASSUME NEW c \in Calls, EraseDelete(c), c # d
        PROVE  /\ pc[d] = "encrypt.resume" /\ raw'[d] = raw[d] /\ subject'[d] = subject[d]
               /\ ~overtaken[d] /\ subject[d] # subject[c]
    BY <1>4, <2>4 DEF EraseDelete, Shred, Settle, TypeOK
  <2>5. ~EraseDelete(d)
    BY <1>4 DEF EraseDelete, Settle, TypeOK
  <2>6. CASE \E c \in Calls : EraseDelete(c)
    BY <2>3, <2>4, <2>5, <2>6
  <2>7. CASE ~\E c \in Calls : EraseDelete(c)
    <3>1. \/ EncryptCreate(d) \/ EncryptFind(d)
          \/ pc[d] = "encrypt.resume" /\ raw'[d] = raw[d] /\ subject'[d] = subject[d]
             /\ ~overtaken[d]
      BY <1>4, <2>7
         DEF Next, Encrypt, Decrypt, Erase, Begin, EncryptFind, EncryptCreate, EncryptConflict,
             EncryptResume, DecryptFind, DecryptResume, Answered, Fail, Settle, TakeKey, vars,
             TypeOK
    <3> QED
      BY <2>1, <2>2, <2>3, <2>7, <3>1
  <2> QED
    BY <2>6, <2>7
<1> QED
  BY <1>2, <1>3, <1>4 DEF ReadableInv, HasRow

----------------------------------------------------------------------------
(* Theorems                                                                 *)

\* The strengthening the safety properties follow from.
THEOREM Invariance == Spec => []IInv
<1>1. Init => IInv
  BY DEF Init, IInv, TypeOK, PCs, CallInv, CallOK, PendingInv, OwnerInv, ShreddedInv,
         ReadableInv, UniqueInv, HasRow
<1>2. IInv /\ [Next]_vars => IInv'
  BY TypeStep, CallStep, PendingStep, OwnerStep, ShreddedStep, ReadableStep, UniqueStep
     DEF IInv
<1> QED
  BY <1>1, <1>2, PTL DEF Spec

\* Every variable keeps its type.
THEOREM TypeCorrect == Spec => []TypeOK
  BY Invariance, PTL DEF IInv

\* eraseSubject makes what was encrypted before it unreadable for good, with or
\* without the unique constraint, whatever encryptFor does meanwhile.
THEOREM ErasureIsFinal == Spec => []ErasureFinal
<1>1. IInv => ErasureFinal
  BY DEF IInv, ShreddedInv, ErasureFinal
<1> QED
  BY <1>1, Invariance, PTL

\* With the unique constraint on the key table, racing first encryptions of a
\* subject lose no ciphertext: each one returned stays readable until an erasure.
THEOREM NothingLost ==
    ASSUME HasUnique = TRUE
    PROVE  Spec => []ReadableUntilErased
<1>1. IInv => ReadableUntilErased
  <2> SUFFICES ASSUME IInv, NEW x \in readable
               PROVE  /\ RowsOf(x.about) # {}
                      /\ \A r \in RowsOf(x.about) : Unwrap(x.about.tenant, r.key) = x.key
    BY DEF ReadableUntilErased
  <2>1. x.about \in Subjects /\ x.key \in Keys /\ keys \in SUBSET KeyRows
    BY DEF IInv, TypeOK, Texts
  <2>2. HasRow(x.about, x.key)
    BY DEF IInv, ReadableInv
  <2>3. RowsOf(x.about) # {}
    BY <2>1, <2>2, NoRowsOf
  <2>4. ASSUME NEW r \in RowsOf(x.about)
        PROVE  Unwrap(x.about.tenant, r.key) = x.key
    <3>1. PICK k \in Keys : r = Row(x.about, k) /\ HasRow(x.about, k)
      BY <2>1, RowsAreOfSubjects
    <3>2. k = x.key
      BY <2>1, <2>2, <3>1 DEF IInv, UniqueInv
    <3> QED
      BY <3>1, <3>2, UnwrapWrap DEF Row
  <2> QED
    BY <2>3, <2>4
<1> QED
  BY <1>1, Invariance, PTL

\* A field is read as the subject it was encrypted for, or not at all.
THEOREM FieldsStayApart == Spec => []NoForeignRead
<1>1. IInv => NoForeignRead
  <2> SUFFICES ASSUME IInv, NEW c \in Calls, answer[c] = "plain"
               PROVE  text[c].about = subject[c]
    BY DEF NoForeignRead
  <2>1. pc[c] = "answered" /\ raw[c] = text[c].key /\ drawnFor[raw[c]] = subject[c]
    BY DEF IInv, CallInv, CallOK
  <2>2. text[c] \in written
    BY <2>1 DEF IInv, CallInv, CallOK
  <2> QED
    BY <2>1, <2>2 DEF IInv, OwnerInv
<1> QED
  BY <1>1, Invariance, PTL
==============================================================================
