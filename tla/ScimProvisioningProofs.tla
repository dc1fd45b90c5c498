------------------------- MODULE ScimProvisioningProofs -------------------------
(* Theorems about ScimProvisioning: what is left of "never a duplicate", a walk    *)
(* through the pages, deprovisioning, the members of a group after a PATCH, and    *)
(* what is rendered of a row.                                                      *)
(*                                                                                 *)
(* A PATCH is a fold over its operations, and DataLemmas says what a fold goes     *)
(* through.  What an operation does is then shown one operation at a time, and     *)
(* what a whole PATCH does by induction on how many of them have been read.        *)
EXTENDS ScimProvisioning, DataLemmas

Words == Seq(STRING)
Texts == {Text(w) : w \in Words}

\* Texts that are not blank, what is read trimmed, and what is read as it comes.
FilledTexts == {v \in Texts : Filled(v)}
Filling     == FilledTexts \cup {Null}
Said        == Texts \cup {Null}

\* What Body makes of a value, and so what the handlers read fields of.
Bodies == Json \cup {Missing, Object(<<>>)}

\* The rows there can be.
Rows ==
    [userName : FilledTexts, externalId : Filling,
     firstName : Said, lastName : Said, displayName : Said, active : BOOLEAN]

\* What a PATCH makes of active, and of a row.
Switched == {Missing, Flag(TRUE), Flag(FALSE)}

Patches ==
    [active : Switched, firstName : Said \cup {Missing},
     lastName : Said \cup {Missing}, displayName : Said \cup {Missing}]

Members   == {m \in SUBSET Words : IsFiniteSet(m)}
GroupRows == [displayName : FilledTexts, externalId : Filling, members : Members]

\* The operations a PATCH of a group is normalised to.
GroupOperations == [kind : Verbs, members : Members]

RowsInv ==
    /\ users \in Seq(Rows)
    /\ knew \in Seq(Nat) /\ Len(knew) = Len(users)
    /\ renamed \subseteq DOMAIN users
    /\ pc \in [Calls -> {"idle", "find", "create"}]
    /\ input \in [Calls -> Rows \cup {NoInput}]
    /\ looked \in [Calls -> Nat]
    /\ \A c \in Calls : pc[c] # "idle" => input[c] \in Rows

\* A POST that is about to create saw every row there was when it looked, and none of
\* them has its email, unless a PUT gave it one since.
LookedInv ==
    \A c \in Calls : pc[c] = "create" =>
        /\ looked[c] <= Len(users)
        /\ \A i \in 1 .. looked[c] :
              i \notin renamed => ~SameName(users[i].userName, input[c].userName)

\* What a POST saw stays so after it created its row.
KnewInv ==
    \A j \in DOMAIN users :
        /\ knew[j] < j
        /\ \A i \in DOMAIN users : i <= knew[j] /\ {i, j} \cap renamed = {}
              => ~SameName(users[i].userName, users[j].userName)

WalkRecord ==
    walk = [filter |-> walk.filter, count |-> walk.count, next |-> walk.next,
            met |-> walk.met, there |-> walk.there, over |-> walk.over]

\* A walk without a filter has met everyone before its next startIndex.
WalkInv ==
    walk # NoWalk =>
        /\ WalkRecord
        /\ PageSize(walk.count) \in Nat
        /\ walk.there \subseteq DOMAIN users
        /\ walk.filter = Missing =>
             walk.next \in Nat \ {0} /\ 1 .. walk.next - 1 \subseteq walk.met
        /\ WalkMissesNobody

GroupsInv == groups \in Seq(GroupRows \cup {NoGroup})

IInv ==
    /\ RowsInv
    /\ LookedInv
    /\ KnewInv
    /\ WalkInv

----------------------------------------------------------------------------
(* Values                                                                   *)

\* A field of a value is a value.
LEMMA GetIsValue ==
    ASSUME NEW v \in Bodies, NEW k
    PROVE  Get(v, k) \in Json \cup {Missing}
<1>1. CASE v = Missing
  BY <1>1 DEF Get, Missing
<1>2. CASE v = Object(<<>>)
  BY <1>2 DEF Get, Object
<1>3. CASE v \in Json /\ v.is = "object"
  <2>1. \A j \in DOMAIN v.fields : v.fields[j] \in Json \cup {Missing}
    BY <1>3, JsonAssumption DEF IsJson, Null, Flag, Text, Number
  <2> QED
    BY <2>1 DEF Get
<1>4. CASE v \in Json /\ v.is # "object"
  BY <1>4 DEF Get
<1> QED
  BY <1>1, <1>2, <1>3, <1>4 DEF Bodies

\* A value that is a text is made of a word.
LEMMA TextIsText ==
    ASSUME NEW v \in Json \cup {Missing}, IsText(v)
    PROVE  v.word \in Words /\ v = Text(v.word) /\ v \in Texts
<1>1. v \in Json
  BY DEF IsText, Missing
<1>2. v.word \in Words /\ v = Text(v.word)
  BY <1>1, JsonAssumption DEF IsJson, IsText, Null, Flag, Text, Number, Words
<1> QED
  BY <1>2 DEF Texts

LEMMA BodyIsBody ==
    ASSUME NEW v \in Json \cup {Missing}
    PROVE  Body(v) \in Bodies
  BY DEF Body, Bodies

\* What is between the first and the last of some positions.
Between(w, kept) ==
    SubSeq(w, CHOOSE i \in kept : \A j \in kept : i <= j,
              CHOOSE i \in kept : \A j \in kept : j <= i)

\* It starts with the element at one of them.
LEMMA BetweenStarts ==
    ASSUME NEW S, NEW w \in Seq(S), NEW kept \in SUBSET DOMAIN w, kept # {}
    PROVE  /\ Between(w, kept) \in Seq(S) /\ 1 \in DOMAIN Between(w, kept)
           /\ \E i \in kept : Between(w, kept)[1] = w[i]
<1> DEFINE first == CHOOSE i \in kept : \A j \in kept : i <= j
           last  == CHOOSE i \in kept : \A j \in kept : j <= i
           cut   == SubSeq(w, first, last)
           n == Len(w)
<1>1. n \in Nat /\ DOMAIN w = 1 .. n /\ \A i \in 1 .. n : w[i] \in S
  BY LenProperties, ElementOfSeq
<1>2. kept \subseteq 1 .. n
  BY <1>1
<1> HIDE DEF n
<1>3. first \in kept /\ last \in kept /\ \A j \in kept : first <= j
  BY <1>1, <1>2, LeastOf, GreatestOf
<1>0. Between(w, kept) = cut
  BY DEF Between
<1> HIDE DEF first, last
<1>4. first \in 1 .. n /\ last \in 1 .. n /\ first <= last
  BY <1>2, <1>3
<1>5. first \in Int /\ last \in Int /\ \A i \in first .. last : w[i] \in S
  BY <1>1, <1>4
<1>6. /\ cut \in Seq(S) /\ Len(cut) = last - first + 1
      /\ \A i \in 1 .. last - first + 1 : cut[i] = w[first + i - 1]
  BY <1>4, <1>5, SubSeqProperties
<1> HIDE DEF cut
<1>7. cut[1] = w[first] /\ Len(cut) \in Nat \ {0}
  BY <1>1, <1>4, <1>6
<1>8. DOMAIN cut = 1 .. Len(cut)
  BY <1>6, LenProperties
<1>9. 1 \in DOMAIN cut
  BY <1>7, <1>8
<1> QED
  BY <1>0, <1>3, <1>6, <1>7, <1>9

\* A word that is not blank, trimmed, starts with something else than a space,
LEMMA TrimStarts ==
    ASSUME NEW S, NEW w \in Seq(S), NEW k \in DOMAIN w, w[k] # " "
    PROVE  /\ Trim(w) \in Seq(S)
           /\ 1 \in DOMAIN Trim(w) /\ Trim(w)[1] # " "
<1> DEFINE kept == {i \in DOMAIN w : w[i] # " "}
<1>1. kept # {} /\ Trim(w) = Between(w, kept)
  BY DEF Trim, Between
<1>2. kept \in SUBSET DOMAIN w /\ \A i \in kept : w[i] # " "
  OBVIOUS
<1> HIDE DEF kept
<1>3. /\ Between(w, kept) \in Seq(S) /\ 1 \in DOMAIN Between(w, kept)
      /\ \E i \in kept : Between(w, kept)[1] = w[i]
  BY <1>1, <1>2, BetweenStarts, Zenon
<1> QED
  BY <1>1, <1>2, <1>3, Zenon

\* and is not blank therefore.
LEMMA TrimIsFilled ==
    ASSUME NEW S, NEW w \in Seq(S)
    PROVE  Trim(w) \in Seq(S) /\ (Trim(w) # <<>> => Trim(Trim(w)) # <<>>)
<1>1. CASE \A i \in DOMAIN w : w[i] = " "
  <2>1. Trim(w) = <<>>
    BY <1>1 DEF Trim
  <2> QED
    BY <2>1, EmptySeq
<1>2. CASE \E i \in DOMAIN w : w[i] # " "
  <2>1. Trim(w) \in Seq(S) /\ 1 \in DOMAIN Trim(w) /\ Trim(w)[1] # " "
    BY <1>2, TrimStarts
  <2>2. 1 \in DOMAIN Trim(Trim(w))
    BY <2>1, TrimStarts
  <2>3. Trim(Trim(w)) # <<>>
    BY <2>2
  <2> QED
    BY <2>1, <2>3
<1> QED
  BY <1>1, <1>2

\* What is read trimmed is null or a text that is not blank.
LEMMA TrimmedIsFilled ==
    ASSUME NEW v \in Json \cup {Missing}
    PROVE  TrimmedOr(v, Null) \in FilledTexts \cup {Null}
<1>1. CASE Filled(v)
  <2>1. v.word \in Words /\ Trim(v.word) # <<>>
    BY <1>1, TextIsText DEF Filled
  <2>2. Trim(v.word) \in Words /\ Trim(Trim(v.word)) # <<>>
    BY <2>1, TrimIsFilled DEF Words
  <2> HIDE DEF Trim
  <2> QED
    BY <1>1, <2>2 DEF TrimmedOr, Filled, FilledTexts, Texts, Text, IsText
<1>2. CASE ~Filled(v)
  BY <1>2 DEF TrimmedOr
<1> QED
  BY <1>1, <1>2

----------------------------------------------------------------------------
(* What is read of a body                                                   *)

LEMMA TextAtIsFilling ==
    ASSUME NEW v \in Bodies, NEW k
    PROVE  TextAt(v, k) \in Filling
  BY GetIsValue, TrimmedIsFilled DEF TextAt, Filling

LEMMA NamesAreFilling ==
    ASSUME NEW v \in Bodies
    PROVE  GivenNameOf(v) \in Filling /\ FamilyNameOf(v) \in Filling
<1>1. Get(v, "name") \in Bodies
  BY GetIsValue DEF Bodies
<1> QED
  BY <1>1, TextAtIsFilling DEF GivenNameOf, FamilyNameOf

LEMMA WordIs ==
    ASSUME NEW x \in STRING
    PROVE  <<x>> \in Words
  BY OneIsSeq DEF Words

LEMMA JoinedIsSaid ==
    ASSUME NEW v \in Said, NEW w \in Said
    PROVE  Joined(v, w, Null) \in Said
<1>1. CASE IsText(v) /\ IsText(w)
  <2>1. v \in Texts /\ w \in Texts
    BY <1>1 DEF Said, IsText, Null
  <2>2. PICK a \in Words, b \in Words : v = Text(a) /\ w = Text(b)
    BY <2>1 DEF Texts
  <2>3. v.word = a /\ w.word = b
    BY <2>2 DEF Text
  <2>4. " " \in STRING
    BY LiteralsAreStrings
  <2>7. <<" ">> \in Words
    BY <2>4, WordIs, Zenon
  <2>6. (a \o <<" ">>) \o b \in Words
    BY <2>7, ConcatProperties DEF Words
  <2>5. Joined(v, w, Null) = Text(a \o <<" ">> \o b)
    BY <1>1, <2>3 DEF Joined
  <2> QED
    BY <2>5, <2>6 DEF Said, Texts
<1>2. CASE ~(IsText(v) /\ IsText(w))
  BY <1>2 DEF Joined, Said
<1> QED
  BY <1>1, <1>2

LEMMA EmailIsFilling ==
    ASSUME NEW v \in Bodies
    PROVE  EmailOf(v) \in Filling
<1>1. TextAt(v, "userName") \in Filling
  BY TextAtIsFilling
<1>2. PrimaryEmail(v) \in Filling
  <2> DEFINE emails == Get(v, "emails")
             Primary(e) == Get(e, "primary") = Flag(TRUE)
             first == FirstSuch(emails.items, Primary, emails.items[1])
  <2>1. CASE IsList(emails) /\ emails.items # <<>>
    <3>0. emails \in Json
      BY <2>1, GetIsValue DEF IsList, Missing
    <3>1. emails.items \in Seq(Json)
      BY <2>1, <3>0, JsonAssumption DEF IsJson, IsList, Null, Flag, Text, Number
    <3> DEFINE s == emails.items
               n == Len(s)
               where == {i \in DOMAIN s : Primary(s[i])}
               least == CHOOSE i \in where : \A j \in where : i <= j
    <3>2. n \in Nat /\ DOMAIN s = 1 .. n /\ \A i \in 1 .. n : s[i] \in Json
      BY <3>1, LenProperties, ElementOfSeq
    <3>3. n # 0
      BY <2>1, <3>1, EmptySeq
    <3>4. first = IF where = {} THEN s[1] ELSE s[least]
      BY DEF FirstSuch
    <3>5. where \subseteq 1 .. n
      BY <3>2
    <3> HIDE DEF n, where, s
    <3>6. where # {} => least \in where
      BY <3>2, <3>5, LeastOf
    <3> HIDE DEF least
    <3>7. first \in Json
      <4>1. CASE where = {}
        BY <3>2, <3>3, <3>4, <4>1
      <4>2. CASE where # {}
        BY <3>2, <3>4, <3>5, <3>6, <4>2
      <4> QED
        BY <4>1, <4>2
    <3> HIDE DEF first
    <3>8. Get(first, "value") \in Json \cup {Missing}
      BY <3>7, GetIsValue DEF Bodies
    <3>9. PrimaryEmail(v) = TrimmedOr(Get(first, "value"), Null)
      BY <2>1 DEF PrimaryEmail, first
    <3> QED
      BY <3>8, <3>9, TrimmedIsFilled DEF Filling
  <2>2. CASE ~(IsList(emails) /\ emails.items # <<>>)
    BY <2>2 DEF PrimaryEmail, Filling
  <2> QED
    BY <2>1, <2>2
<1> QED
  BY <1>1, <1>2 DEF EmailOf

LEMMA ActiveIsBoolean ==
    ASSUME NEW v
    PROVE  ActiveOf(v) \in BOOLEAN
  BY DEF ActiveOf, CoerceBool

LEMMA InputIsRow ==
    ASSUME NEW body \in UserBodies, EmailOf(Body(body)) # Null
    PROVE  /\ UserInput(Body(body)) \in Rows
           /\ UserInput(Body(body)).userName = EmailOf(Body(body))
<1> DEFINE v == Body(body)
<1>1. v \in Bodies
  BY JsonAssumption, BodyIsBody
<1> HIDE DEF v
<1>2. EmailOf(v) \in FilledTexts
  BY <1>1, EmailIsFilling DEF Filling, v
<1>3. TextAt(v, "externalId") \in Filling
  BY <1>1, TextAtIsFilling
<1>4. Filling \subseteq Said
  BY DEF Filling, Said, FilledTexts
<1>5. GivenNameOf(v) \in Said /\ FamilyNameOf(v) \in Said
  BY <1>1, <1>4, NamesAreFilling
<1>6. DisplayNameOf(v) \in Said
  BY <1>1, <1>4, <1>5, TextAtIsFilling, JoinedIsSaid DEF DisplayNameOf
<1>7. ActiveOf(v) \in BOOLEAN
  BY ActiveIsBoolean
<1> QED
  BY <1>2, <1>3, <1>5, <1>6, <1>7 DEF UserInput, Rows, v

----------------------------------------------------------------------------
(* PATCH /Users                                                             *)

\* What a PATCH of a user is parsed to, from one operation to the next.
LEMMA UserPatchPasses ==
    ASSUME NEW N \in Nat, NEW body, DOMAIN Operations(body) = 1 .. N,
           NEW V, NoPatch \in V,
           \A v \in V, n \in 1 .. N : ApplyUserOp(v, Operations(body)[n]) \in V
    PROVE  \E after \in [0 .. N -> V] :
              /\ after[0] = NoPatch
              /\ \A n \in 1 .. N : after[n] = ApplyUserOp(after[n - 1], Operations(body)[n])
              /\ after[N] = ParseUserPatch(body)
<1> DEFINE ops == Operations(body)
           step == [n \in 1 .. N |-> [v \in V |-> ApplyUserOp(v, ops[n])]]
           Defines(it) == it = [s \in SUBSET (1 .. N) |->
                                  IF s = {} THEN NoPatch
                                  ELSE ApplyUserOp(it[s \ {Max(s)}], ops[Max(s)])]
           fold == CHOOSE it : Defines(it)
<1>1. ParseUserPatch(body) = fold[1 .. N]
  BY DEF ParseUserPatch, FoldLeft, MapThenFoldSet
<1>2. step \in Steps(N, V)
  BY DEF Steps
<1>3. \A n \in 1 .. N, v \in V : step[n][v] = ApplyUserOp(v, ops[n])
  OBVIOUS
<1> HIDE DEF step, ops
<1>4. PICK it \in [SUBSET (1 .. N) -> V] : FoldsDown(it, N, NoPatch, step)
  BY <1>2, FoldExists
<1>5. ASSUME NEW s \in SUBSET (1 .. N)
      PROVE  it[s] = IF s = {} THEN NoPatch ELSE ApplyUserOp(it[s \ {Max(s)}], ops[Max(s)])
  <2>1. CASE s = {}
    BY <1>4, <2>1 DEF FoldsDown
  <2>2. CASE s # {}
    <3>1. Max(s) \in 1 .. N /\ it[s \ {Max(s)}] \in V
      BY <2>2, MaxOf
    <3> QED
      BY <1>3, <1>4, <2>2, <3>1 DEF FoldsDown
  <2> QED
    BY <2>1, <2>2
<1>6. Defines(it)
  BY <1>5
<1> HIDE DEF Defines
<1>7. Defines(fold)
  BY <1>6
<1> HIDE DEF fold
<1>8. \A s \in SUBSET (1 .. N) :
         fold[s] = IF s = {} THEN NoPatch ELSE ApplyUserOp(fold[s \ {Max(s)}], ops[Max(s)])
  BY <1>7 DEF Defines
<1>9. FoldsValues(fold, N, V, NoPatch, step)
  <2>1. ASSUME NEW s \in SUBSET (1 .. N), s # {}, fold[s \ {Max(s)}] \in V
        PROVE  fold[s] = step[Max(s)][fold[s \ {Max(s)}]]
    <3>1. Max(s) \in 1 .. N
      BY <2>1, MaxOf
    <3> QED
      BY <1>3, <1>8, <2>1, <3>1
  <2> QED
    BY <1>8, <2>1 DEF FoldsValues
<1>11. PICK after \in [0 .. N -> V] : Passes(after, N, NoPatch, step) /\ after[N] = fold[1 .. N]
  BY <1>2, <1>9, FoldPasses
<1>12. ASSUME NEW n \in 1 .. N
       PROVE  after[n] = ApplyUserOp(after[n - 1], ops[n])
  <2>1. after[n - 1] \in V
    OBVIOUS
  <2> QED
    BY <1>3, <1>11, <2>1 DEF Passes
<1> QED
  BY <1>1, <1>11, <1>12 DEF Passes, ops

LEMMA StrIsSaid ==
    ASSUME NEW v \in Json \cup {Missing}
    PROVE  StrOf(v) \in Said
<1>1. CASE v.is \in {"text", "number"}
  <2>1. v \in Json
    BY <1>1 DEF Missing
  <2>2. v.word \in Words
    BY <1>1, <2>1, JsonAssumption DEF IsJson, Null, Flag, Text, Number, Words
  <2> QED
    BY <1>1, <2>2 DEF StrOf, Said, Texts
<1>2. CASE v.is = "flag"
  <2>1. <<"true">> \in Words /\ <<"false">> \in Words
    <3>1. "true" \in STRING /\ "false" \in STRING
      BY LiteralsAreStrings
    <3> QED
      BY <3>1, WordIs, Zenon
  <2> QED
    BY <1>2, <2>1 DEF StrOf, Said, Texts
<1>3. CASE v.is \notin {"text", "number", "flag"}
  BY <1>3 DEF StrOf, Said
<1> QED
  BY <1>1, <1>2, <1>3

LEMMA PatchIs ==
    ASSUME NEW a \in Switched, NEW f \in Said \cup {Missing},
           NEW l \in Said \cup {Missing}, NEW d \in Said \cup {Missing}
    PROVE  [active |-> a, firstName |-> f, lastName |-> l, displayName |-> d] \in Patches
  BY DEF Patches

LEMMA PartialIsPatch ==
    ASSUME NEW patch \in Patches, NEW v \in Bodies
    PROVE  Partial(patch, v) \in Patches
<1> DEFINE given == GivenNameOf(v)
           family == FamilyNameOf(v)
           shown == Get(v, "displayName")
           on == Get(v, "active")
<1>1. given \in Said /\ family \in Said
  BY NamesAreFilling DEF Filling, Said, FilledTexts
<1>2. IsText(shown) => shown \in Said
  BY GetIsValue, TextIsText DEF Said
<1>3. CoerceBool(on) \in BOOLEAN
  BY DEF CoerceBool
<1>4. Flag(CoerceBool(on)) \in {Flag(TRUE), Flag(FALSE)}
  BY <1>3
<1>5. Partial(patch, v) =
        [active |-> IF on = Missing THEN patch.active ELSE Flag(CoerceBool(on)),
         firstName |-> IF given = Null THEN patch.firstName ELSE given,
         lastName |-> IF family = Null THEN patch.lastName ELSE family,
         displayName |-> IF IsText(shown) THEN shown ELSE patch.displayName]
  BY DEF Partial
<1> HIDE DEF given, family, shown, on
<1>6. /\ patch.active \in Switched /\ patch.firstName \in Said \cup {Missing}
      /\ patch.lastName \in Said \cup {Missing} /\ patch.displayName \in Said \cup {Missing}
  BY DEF Patches
<1> QED
  <2> DEFINE a == IF on = Missing THEN patch.active ELSE Flag(CoerceBool(on))
             f == IF given = Null THEN patch.firstName ELSE given
             l == IF family = Null THEN patch.lastName ELSE family
             d == IF IsText(shown) THEN shown ELSE patch.displayName
  <2>1. a \in Switched
    BY <1>4, <1>6 DEF Switched
  <2>2. f \in Said \cup {Missing} /\ l \in Said \cup {Missing} /\ d \in Said \cup {Missing}
    BY <1>1, <1>2, <1>6
  <2>3. Partial(patch, v) = [active |-> a, firstName |-> f, lastName |-> l, displayName |-> d]
    BY <1>5
  <2> HIDE DEF a, f, l, d
  <2> QED
    BY <2>1, <2>2, <2>3, PatchIs

LEMMA OperationIsPatch ==
    ASSUME NEW patch \in Patches, NEW op \in Json
    PROVE  ApplyUserOp(patch, op) \in Patches
<1> DEFINE value == Get(op, "value")
           removing == Kind(op) = <<"remove">>
           said == IF removing THEN Null ELSE StrOf(value)
           on == Flag(~removing /\ CoerceBool(value))
<1>1. value \in Json \cup {Missing}
  BY GetIsValue DEF Bodies
<1>2. said \in Said
  BY <1>1, StrIsSaid DEF Said
<1>3. on \in {Flag(TRUE), Flag(FALSE)}
  OBVIOUS
<1>4. Partial(patch, Body(value)) \in Patches
  BY <1>1, BodyIsBody, PartialIsPatch
<1>5. ApplyUserOp(patch, op) \in
        {patch, Partial(patch, Body(value)), [patch EXCEPT !.active = on],
         [patch EXCEPT !.displayName = said], [patch EXCEPT !.firstName = said],
         [patch EXCEPT !.lastName = said]}
  BY DEF ApplyUserOp
<1> HIDE DEF value, said, on
<1>6. /\ [patch EXCEPT !.active = on] \in Patches /\ [patch EXCEPT !.displayName = said] \in Patches
      /\ [patch EXCEPT !.firstName = said] \in Patches /\ [patch EXCEPT !.lastName = said] \in Patches
  BY <1>2, <1>3 DEF Patches, Switched
<1> QED
  BY <1>4, <1>5, <1>6

LEMMA OperationsAreJson ==
    ASSUME NEW v \in Bodies
    PROVE  Operations(v) \in Seq(Json)
<1> DEFINE ops == Get(v, "Operations")
<1>1. CASE IsList(ops)
  <2>1. ops \in Json
    BY <1>1, GetIsValue DEF IsList, Missing
  <2>2. ops.items \in Seq(Json)
    BY <1>1, <2>1, JsonAssumption DEF IsJson, IsList, Null, Flag, Text, Number
  <2> QED
    BY <1>1, <2>2 DEF Operations
<1>2. CASE ~IsList(ops)
  BY <1>2, EmptySeq DEF Operations
<1> QED
  BY <1>1, <1>2

LEMMA ParsedIsPatch ==
    ASSUME NEW body \in UserPatches
    PROVE  ParseUserPatch(Body(body)) \in Patches
<1> DEFINE ops == Operations(Body(body))
           n == Len(ops)
<1>1. ops \in Seq(Json)
  BY JsonAssumption, BodyIsBody, OperationsAreJson
<1>2. n \in Nat /\ DOMAIN ops = 1 .. n /\ \A i \in 1 .. n : ops[i] \in Json
  BY <1>1, LenProperties, ElementOfSeq
<1> HIDE DEF n
<1>3. NoPatch \in Patches
  BY DEF NoPatch, Patches, Switched
<1>4. \A v \in Patches, i \in 1 .. n : ApplyUserOp(v, ops[i]) \in Patches
  BY <1>2, OperationIsPatch
<1>5. PICK after \in [0 .. n -> Patches] : after[n] = ParseUserPatch(Body(body))
  BY <1>2, <1>3, <1>4, UserPatchPasses
<1>6. after[n] \in Patches
  BY <1>2
<1> QED
  BY <1>5, <1>6

LEMMA PatchedIsRow ==
    ASSUME NEW row \in Rows, NEW patch \in Patches
    PROVE  Patched(row, patch) \in Rows /\ Patched(row, patch).userName = row.userName
<1> DEFINE active == IF patch.active = Missing THEN row.active ELSE patch.active.on
           first  == Set(row.firstName, patch.firstName)
           last   == Set(row.lastName, patch.lastName)
           shown  == Set(row.displayName, patch.displayName)
<1>1. first \in Said /\ last \in Said /\ shown \in Said
  BY DEF Rows, Patches, Set
<1>2. active \in BOOLEAN
  <2>1. row.active \in BOOLEAN /\ patch.active \in Switched
    BY DEF Rows, Patches
  <2>2. Flag(TRUE).on \in BOOLEAN /\ Flag(FALSE).on \in BOOLEAN
    BY DEF Flag
  <2> QED
    BY <2>1, <2>2 DEF Switched
<1>3. Patched(row, patch) = [row EXCEPT !.active = active, !.firstName = first,
                                        !.lastName = last, !.displayName = shown]
  BY DEF Patched
<1> HIDE DEF active, first, last, shown
<1> QED
  BY <1>1, <1>2, <1>3 DEF Rows

\* An operation that leaves active on says so, or says nothing and found it on.
LEMMA OperationSwitches ==
    ASSUME NEW patch \in Patches, NEW op, ApplyUserOp(patch, op).active = Flag(TRUE)
    PROVE  \/ Affirms(SaysActive(op))
           \/ SaysActive(op) = Missing /\ patch.active = Flag(TRUE)
<1> DEFINE value == Get(op, "value")
           verb == Kind(op)
           removing == verb = <<"remove">>
           path == Path(op)
           said == IF removing THEN Null ELSE StrOf(value)
<1>0. Flag(FALSE) # Flag(TRUE)
  BY DEF Flag
<1>1. ApplyUserOp(patch, op) =
        IF verb \notin Verbs THEN patch
        ELSE CASE path = <<>> -> Partial(patch, Body(value))
               [] path = <<"active">> ->
                     [patch EXCEPT !.active = Flag(~removing /\ CoerceBool(value))]
               [] path = <<"displayName">> -> [patch EXCEPT !.displayName = said]
               [] path = <<"name.givenName">> -> [patch EXCEPT !.firstName = said]
               [] path = <<"name.familyName">> -> [patch EXCEPT !.lastName = said]
               [] OTHER -> patch
  BY DEF ApplyUserOp
<1>2. SaysActive(op) =
        IF verb \notin Verbs THEN Missing
        ELSE CASE path = <<>> -> Get(value, "active")
               [] path = <<"active">> -> IF removing THEN Flag(FALSE) ELSE value
               [] OTHER -> Missing
  BY DEF SaysActive
<1>3. \A x : CoerceBool(x) <=> Affirms(x)
  BY DEF CoerceBool, Affirms
<1>4. Get(Body(value), "active") = Get(value, "active")
  BY DEF Get, Body, Object
<1> HIDE DEF value, verb, path, said
<1>5. CASE verb \notin Verbs
  BY <1>1, <1>2, <1>5
<1>6. CASE verb \in Verbs /\ path = <<>>
  <2>1. Partial(patch, Body(value)).active =
          IF Get(value, "active") = Missing THEN patch.active
          ELSE Flag(CoerceBool(Get(value, "active")))
    BY <1>4 DEF Partial
  <2>2. ApplyUserOp(patch, op) = Partial(patch, Body(value))
    BY <1>1, <1>6
  <2>3. SaysActive(op) = Get(value, "active")
    BY <1>2, <1>6
  <2>4. CASE Get(value, "active") = Missing
    BY <2>1, <2>2, <2>3, <2>4
  <2>5. CASE Get(value, "active") # Missing /\ ~CoerceBool(Get(value, "active"))
    <3>1. CoerceBool(Get(value, "active")) = FALSE
      <4>1. CoerceBool(Get(value, "active")) \in BOOLEAN
        BY DEF CoerceBool
      <4> QED
        BY <2>5, <4>1
    <3> QED
      BY <1>0, <2>1, <2>2, <2>5, <3>1
  <2>6. CASE CoerceBool(Get(value, "active"))
    BY <1>3, <2>3, <2>6
  <2> QED
    BY <2>4, <2>5, <2>6
<1>7. CASE verb \in Verbs /\ path = <<"active">>
  <2>0. path # <<>>
    BY <1>7
  <2>1. /\ ApplyUserOp(patch, op) = [patch EXCEPT !.active = Flag(~removing /\ CoerceBool(value))]
        /\ SaysActive(op) = IF removing THEN Flag(FALSE) ELSE value
    BY <1>1, <1>2, <1>7, <2>0
  <2>2. ApplyUserOp(patch, op).active = Flag(~removing /\ CoerceBool(value))
    BY <2>1 DEF Patches
  <2>3. CASE removing \/ ~CoerceBool(value)
    <3>1. (~removing /\ CoerceBool(value)) = FALSE
      BY <2>3 DEF CoerceBool
    <3> QED
      BY <1>0, <2>2, <3>1
  <2>4. CASE ~removing /\ CoerceBool(value)
    BY <1>3, <2>1, <2>4
  <2> QED
    BY <2>3, <2>4
<1>8. CASE verb \in Verbs /\ path # <<>> /\ path # <<"active">>
  <2>1. SaysActive(op) = Missing
    BY <1>2, <1>8
  <2>2. ApplyUserOp(patch, op) \in {patch, [patch EXCEPT !.displayName = said],
                [patch EXCEPT !.firstName = said], [patch EXCEPT !.lastName = said]}
    BY <1>1, <1>8
  <2>3. ApplyUserOp(patch, op).active = patch.active
    BY <2>2 DEF Patches
  <2> QED
    BY <2>1, <2>3
<1> QED
  BY <1>5, <1>6, <1>7, <1>8

\* A PATCH that sets active to true says true last.
LEMMA PatchedOnAffirms ==
    ASSUME NEW body \in UserPatches, ParseUserPatch(Body(body)).active = Flag(TRUE)
    PROVE  Affirms(LastSaid(body))
<1> DEFINE ops == Operations(Body(body))
           n == Len(ops)
           Latest(k, i) == /\ Affirms(SaysActive(ops[k]))
                         /\ \A j \in k + 1 .. i : SaysActive(ops[j]) = Missing
           Backed(i) == \E k \in 1 .. i : Latest(k, i)
<1>1. ops \in Seq(Json)
  BY JsonAssumption, BodyIsBody, OperationsAreJson
<1>2. n \in Nat /\ DOMAIN ops = 1 .. n /\ \A i \in 1 .. n : ops[i] \in Json
  BY <1>1, LenProperties, ElementOfSeq
<1> HIDE DEF n
<1>3. NoPatch \in Patches /\ NoPatch.active # Flag(TRUE)
  BY DEF NoPatch, Patches, Switched, Missing, Flag
<1>4. \A v \in Patches, i \in 1 .. n : ApplyUserOp(v, ops[i]) \in Patches
  BY <1>2, OperationIsPatch
<1>5. PICK after \in [0 .. n -> Patches] :
          /\ after[0] = NoPatch
          /\ \A i \in 1 .. n : after[i] = ApplyUserOp(after[i - 1], ops[i])
          /\ after[n] = ParseUserPatch(Body(body))
  BY <1>2, <1>3, <1>4, UserPatchPasses
<1> HIDE DEF ops
<1> DEFINE S == {i \in 0 .. n : after[i].active = Flag(TRUE) => Backed(i)}
<1>6. 0 \in S
  <2> HIDE DEF Backed
  <2>1. 0 \in 0 .. n
    BY <1>2
  <2>2. after[0].active # Flag(TRUE)
    BY <1>3, <1>5
  <2> QED
    BY <2>1, <2>2
<1>7. ASSUME NEW i \in 0 .. n - 1, i \in S
      PROVE  i + 1 \in S
  <2>0. i + 1 \in 1 .. n /\ (i + 1) - 1 = i /\ i \in 0 .. n /\ i + 1 \in 0 .. n
    BY <1>2
  <2> SUFFICES ASSUME after[i + 1].active = Flag(TRUE)
               PROVE  Backed(i + 1)
    BY <2>0
  <2>1. after[i] \in Patches /\ after[i + 1] = ApplyUserOp(after[i], ops[i + 1])
    BY <1>5, <2>0
  <2>2. \/ Affirms(SaysActive(ops[i + 1]))
        \/ SaysActive(ops[i + 1]) = Missing /\ after[i].active = Flag(TRUE)
    BY <2>1, OperationSwitches
  <2>3. CASE Affirms(SaysActive(ops[i + 1]))
    <3>1. i + 1 \in 1 .. i + 1 /\ (i + 1) + 1 .. i + 1 = {}
      BY <2>0
    <3>2. Latest(i + 1, i + 1)
      BY <2>3, <3>1
    <3> HIDE DEF Latest
    <3> QED
      BY <3>1, <3>2
  <2>4. CASE SaysActive(ops[i + 1]) = Missing /\ after[i].active = Flag(TRUE)
    <3>1. PICK k \in 1 .. i : Latest(k, i)
      BY <1>7, <2>4
    <3>2. \A j \in k + 1 .. i + 1 : j \in k + 1 .. i \/ j = i + 1
      BY <2>0
    <3>3. k \in 1 .. i + 1 /\ Latest(k, i + 1)
      BY <2>4, <3>1, <3>2
    <3> HIDE DEF Latest
    <3> QED
      BY <3>3
  <2> QED
    BY <2>2, <2>3, <2>4
<1> HIDE DEF S
<1>8. 0 .. n \subseteq S
  BY <1>2, <1>6, <1>7, BoundedInduction
<1>9. PICK k \in 1 .. n : Latest(k, n)
  <2> HIDE DEF Backed
  <2>1. n \in 0 .. n
    BY <1>2
  <2>2. n \in S
    BY <1>8, <2>1
  <2>3. after[n].active = Flag(TRUE)
    BY <1>5
  <2>4. Backed(n)
    BY <2>2, <2>3 DEF S
  <2> QED
    BY <2>4 DEF Backed
<1> DEFINE speaking == {i \in DOMAIN ops : SaysActive(ops[i]) # Missing}
<1>10. speaking \subseteq 1 .. n /\ k \in speaking /\ \A j \in k + 1 .. n : j \notin speaking
  <2>1. SaysActive(ops[k]) # Missing
    BY <1>9 DEF Affirms, Missing, Flag, Text
  <2> QED
    BY <1>2, <1>9, <2>1
<1>11. LastSaid(body) = IF speaking = {} THEN Missing
                        ELSE SaysActive(ops[CHOOSE i \in speaking : \A m \in speaking : m <= i])
  BY DEF LastSaid, ops
<1> HIDE DEF speaking
<1>12. (CHOOSE i \in speaking : \A m \in speaking : m <= i) = k
  BY <1>2, <1>10, SpeaksLast
<1> QED
  BY <1>9, <1>10, <1>11, <1>12

----------------------------------------------------------------------------
(* What is rendered                                                         *)

\* A field of what is rendered is the one of the row, unless it is null.
LEMMA GetNonNull ==
    ASSUME NEW f, NEW k
    PROVE  Get(Object(NonNull(f)), k) = IF k \in DOMAIN f /\ f[k] # Null THEN f[k] ELSE Missing
  BY DEF Get, Object, NonNull

LEMMA FilledIs ==
    /\ \A v \in FilledTexts : Filled(v) /\ v # Null /\ v.is = "text"
    /\ \A v \in Said : v # Null => IsText(v) /\ v.is = "text"
    /\ \A v \in Filling : v # Null => Filled(v)
  BY DEF FilledTexts, Texts, Said, Filling, Filled, IsText, Text, Null

\* A row of users is rendered as the schema has it, but for a blank displayName.
LEMMA UserRenders ==
    ASSUME NEW row \in Rows
    PROVE  \/ UserErrors(ToScimUser(row)) = {}
           \/ /\ UserErrors(ToScimUser(row)) = {"displayName"}
              /\ IsText(row.displayName) /\ Trim(row.displayName.word) = <<>>
<1> DEFINE type == Text(<<"core:User">>)
           schemas == List(<<type>>)
           email == Object([value |-> row.userName, primary |-> Flag(TRUE)])
           names == [givenName |-> row.firstName, familyName |-> row.lastName]
           given == NonNull(names)
           fields == [schemas |-> schemas,
                      userName |-> row.userName,
                      emails |-> List(<<email>>),
                      active |-> Flag(row.active),
                      externalId |-> row.externalId,
                      name |-> IF DOMAIN given = {} THEN Null ELSE Object(given),
                      displayName |-> row.displayName]
           sent == ToScimUser(row)
<1>1. /\ row.userName \in FilledTexts /\ row.externalId \in Filling /\ row.firstName \in Said
      /\ row.lastName \in Said /\ row.displayName \in Said /\ row.active \in BOOLEAN
  BY DEF Rows
<1>2. sent = Object(NonNull(fields))
  BY DEF ToScimUser
<1>3. schemas # Null /\ List(<<email>>) # Null /\ Flag(row.active) # Null
  BY DEF List, Flag, Null
<1>4. /\ Get(sent, "schemas") = schemas
      /\ Get(sent, "userName") = row.userName
      /\ Get(sent, "emails") = List(<<email>>)
      /\ Get(sent, "active") = Flag(row.active)
      /\ Get(sent, "externalId") = IF row.externalId = Null THEN Missing ELSE row.externalId
      /\ Get(sent, "displayName") = IF row.displayName = Null THEN Missing ELSE row.displayName
      /\ Get(sent, "phoneNumbers") = Missing
      /\ Get(sent, "name") = IF DOMAIN given = {} THEN Missing ELSE Object(given)
  <2>0. row.userName # Null
    BY <1>1, FilledIs
  <2>1. DOMAIN fields = {"schemas", "userName", "emails", "active", "externalId", "name", "displayName"}
    OBVIOUS
  <2>2. Object(given) # Null
    BY DEF Object, Null
  <2>3. /\ fields.schemas = schemas /\ fields.userName = row.userName /\ fields.emails = List(<<email>>)
        /\ fields.active = Flag(row.active) /\ fields.externalId = row.externalId
        /\ fields.displayName = row.displayName
        /\ fields.name = IF DOMAIN given = {} THEN Null ELSE Object(given)
    OBVIOUS
  <2> HIDE DEF fields, schemas, email, given
  <2> QED
    BY <1>2, <1>3, <2>0, <2>1, <2>2, <2>3, GetNonNull
<1> HIDE DEF sent
<1>5. ~SchemasBad(sent, {type, Text(<<"enterprise:User">>)}, type)
  <2>1. schemas.items = <<type>> /\ IsList(schemas)
    BY DEF List, IsList
  <2> HIDE DEF schemas, type
  <2>2. DOMAIN schemas.items = {1} /\ schemas.items[1] = type
    BY <2>1
  <2> QED
    BY <1>4, <2>1, <2>2 DEF SchemasBad
<1>6. Filled(Get(sent, "userName"))
  BY <1>1, <1>4, FilledIs
<1>7. ~StringBad(sent, "externalId")
  BY <1>1, <1>4, FilledIs DEF StringBad
<1>8. Get(sent, "active").is = "flag"
  BY <1>4 DEF Flag
<1>9. ~NameBad(sent)
  <2>1. CASE DOMAIN given = {}
    <3>1. Get(sent, "name").is = "missing"
      BY <1>4, <2>1 DEF Missing
    <3>2. \A k : Get(Get(sent, "name"), k).is = "missing"
      BY <1>4, <2>1 DEF Get, Missing
    <3> QED
      BY <3>1, <3>2 DEF NameBad
  <2>2. CASE DOMAIN given # {}
    <3>1. Get(sent, "name") = Object(given) /\ Object(given).is = "object"
      BY <1>4, <2>2 DEF Object
    <3>2. ASSUME NEW k
          PROVE  Get(Object(given), k).is \in {"missing", "text"}
      <4>1. Get(Object(given), k) = IF k \in DOMAIN names /\ names[k] # Null THEN names[k] ELSE Missing
        BY GetNonNull
      <4>2. k \in DOMAIN names => names[k] \in Said
        BY <1>1
      <4> HIDE DEF names, given
      <4>3. CASE k \in DOMAIN names /\ names[k] # Null
        BY <4>1, <4>2, <4>3, FilledIs
      <4>4. CASE ~(k \in DOMAIN names /\ names[k] # Null)
        BY <4>1, <4>4 DEF Missing
      <4> QED
        BY <4>3, <4>4
    <3> HIDE DEF given
    <3> QED
      BY <3>1, <3>2 DEF NameBad
  <2> QED
    BY <2>1, <2>2
<1>10. ~MultiBad(sent, "emails") /\ ~MultiBad(sent, "phoneNumbers")
  <2>1. email.is = "object" /\ Get(email, "value") = row.userName
    BY DEF Get, Object
  <2>2. List(<<email>>).items = <<email>> /\ IsList(List(<<email>>))
    BY DEF List, IsList
  <2> HIDE DEF email
  <2>3. DOMAIN <<email>> = {1} /\ <<email>>[1] = email
    OBVIOUS
  <2>4. Get(email, "value").is = "text"
    BY <1>1, <2>1, FilledIs
  <2> QED
    BY <1>4, <2>1, <2>2, <2>3, <2>4 DEF MultiBad
<1>11. ASSUME StringBad(sent, "displayName")
       PROVE  IsText(row.displayName) /\ Trim(row.displayName.word) = <<>>
  <2>1. row.displayName # Null /\ ~Filled(row.displayName)
    BY <1>4, <1>11 DEF StringBad
  <2>2. IsText(row.displayName)
    BY <1>1, <2>1 DEF Said, Texts, Text, IsText
  <2> QED
    BY <2>1, <2>2 DEF Filled
<1> DEFINE blank == {k \in {"externalId", "displayName"} : StringBad(sent, k)}
<1>12. UserErrors(sent) = blank
  BY <1>5, <1>6, <1>8, <1>9, <1>10 DEF UserErrors
<1>13. blank = {} \/ (blank = {"displayName"} /\ StringBad(sent, "displayName"))
  BY <1>7
<1> HIDE DEF blank
<1> QED
  BY <1>11, <1>12, <1>13 DEF sent

\* A row of groups is rendered as the schema has it.
LEMMA GroupRenders ==
    ASSUME NEW row \in GroupRows
    PROVE  GroupErrors(ToScimGroup(row)) = {}
<1> DEFINE type == Text(<<"core:Group">>)
           schemas == List(<<type>>)
           Member(m) == Object([value |-> Text(m)])
           all == {Member(m) : m \in row.members}
           list == SetToSeq(all)
           fields == [schemas |-> schemas,
                      displayName |-> row.displayName,
                      externalId |-> row.externalId,
                      members |-> List(list)]
           sent == ToScimGroup(row)
<1>1. row.displayName \in FilledTexts /\ row.externalId \in Filling /\ IsFiniteSet(row.members)
  BY DEF GroupRows, Members
<1>2. sent = Object(NonNull(fields))
  BY DEF ToScimGroup
<1>3. schemas # Null /\ List(list) # Null
  BY DEF List, Null
<1>4. /\ Get(sent, "schemas") = schemas
      /\ Get(sent, "displayName") = row.displayName
      /\ Get(sent, "externalId") = IF row.externalId = Null THEN Missing ELSE row.externalId
      /\ Get(sent, "members") = List(list)
  <2>0. row.displayName # Null
    BY <1>1, FilledIs
  <2>1. DOMAIN fields = {"schemas", "displayName", "externalId", "members"}
    OBVIOUS
  <2>2. /\ fields.schemas = schemas /\ fields.displayName = row.displayName
        /\ fields.externalId = row.externalId /\ fields.members = List(list)
    OBVIOUS
  <2> HIDE DEF fields, schemas, list
  <2> QED
    BY <1>2, <1>3, <2>0, <2>1, <2>2, GetNonNull
<1> HIDE DEF sent
<1>5. ~SchemasBad(sent, {type}, type)
  <2>1. schemas.items = <<type>> /\ IsList(schemas)
    BY DEF List, IsList
  <2> HIDE DEF schemas, type
  <2>2. DOMAIN schemas.items = {1} /\ schemas.items[1] = type
    BY <2>1
  <2> QED
    BY <1>4, <2>1, <2>2 DEF SchemasBad
<1>6. Filled(Get(sent, "displayName"))
  BY <1>1, <1>4, FilledIs
<1>7. ~StringBad(sent, "externalId")
  BY <1>1, <1>4, FilledIs DEF StringBad
<1>8. ~MultiBad(sent, "members")
  <2>1. \A m : Member(m).is = "object" /\ Get(Member(m), "value").is = "text"
    BY DEF Get, Object, Text
  <2> DEFINE of == [m \in row.members |-> Member(m)]
  <2>2. of \in Surjection(row.members, all)
    BY DEF Surjection
  <2>3. \A e \in all : e.is = "object" /\ Get(e, "value").is = "text"
    BY <2>1
  <2> HIDE DEF all, of
  <2>4. IsFiniteSet(all)
    BY <1>1, <2>2, FS_Surjection
  <2>5. list \in Seq(all)
    BY <2>4, SequenceOfSet
  <2> HIDE DEF list
  <2>6. \A i \in DOMAIN list : list[i] \in all
    BY <2>5, LenProperties
  <2>7. List(list).items = list /\ IsList(List(list))
    BY DEF List, IsList
  <2> QED
    BY <1>4, <2>3, <2>6, <2>7 DEF MultiBad
<1>9. GroupErrors(sent) = {}
  BY <1>5, <1>6, <1>7, <1>8 DEF GroupErrors
<1> QED
  BY <1>9 DEF sent

----------------------------------------------------------------------------
(* PATCH /Groups                                                            *)

\* The ids in a list of any values are a finite set of words.
LEMMA ValuesAreMembers ==
    ASSUME NEW v \in Json \cup {Missing}
    PROVE  ValuesOf(v) \in Members
<1>1. CASE ~IsList(v)
  BY <1>1, FS_EmptySet DEF ValuesOf, Members
<1>2. CASE IsList(v)
  <2> DEFINE s == v.items
             n == Len(s)
             Id(i) == Get(s[i], "value")
             where == {j \in DOMAIN s : IsText(Id(j)) /\ Id(j).word # <<>>}
             ids == {Id(i).word : i \in where}
             of == [i \in where |-> Id(i).word]
  <2>0. v \in Json
    BY <1>2 DEF IsList, Missing
  <2>1. s \in Seq(Json)
    BY <1>2, <2>0, JsonAssumption DEF IsJson, IsList, Null, Flag, Text, Number
  <2>2. n \in Nat /\ DOMAIN s = 1 .. n /\ \A i \in 1 .. n : s[i] \in Json
    BY <2>1, LenProperties, ElementOfSeq
  <2>3. ValuesOf(v) = ids
    BY <1>2 DEF ValuesOf
  <2> HIDE DEF s, n
  <2>4. \A i \in where : Id(i) \in Json \cup {Missing} /\ IsText(Id(i))
    BY <2>2, GetIsValue DEF Bodies
  <2>5. of \in Surjection(where, ids)
    BY DEF Surjection
  <2>6. where \in SUBSET (1 .. n)
    BY <2>2
  <2> HIDE DEF Id, where, of
  <2>7. \A i \in where : Id(i).word \in Words
    BY <2>4, TextIsText
  <2>8. ids \in SUBSET Words
    BY <2>7
  <2>9. IsFiniteSet(where)
    <3>1. IsFiniteSet(1 .. n)
      BY <2>2, FS_Interval
    <3> QED
      BY <2>6, <3>1, FS_Subset
  <2> HIDE DEF ids
  <2>10. IsFiniteSet(ids)
    BY <2>5, <2>9, FS_Surjection
  <2> QED
    BY <2>3, <2>8, <2>10 DEF Members
<1> QED
  BY <1>1, <1>2

LEMMA PathIsWord ==
    ASSUME NEW op \in Json
    PROVE  Path(op) \in Words
<1>1. CASE IsText(Get(op, "path"))
  <2>1. Get(op, "path").word \in Words
    BY <1>1, GetIsValue, TextIsText DEF Bodies
  <2> QED
    BY <1>1, <2>1, TrimIsFilled DEF Path, Words
<1>2. CASE ~IsText(Get(op, "path"))
  BY <1>2, EmptySeq DEF Path, Words
<1> QED
  BY <1>1, <1>2

\* What a word starts with, and what it does in lower case.
LEMMA WordStarts ==
    ASSUME NEW w \in Words, w # <<>>
    PROVE  /\ Head(w) = w[1] /\ Len(w) \in Nat \ {0} /\ DOMAIN w = 1 .. Len(w) /\ 1 \in DOMAIN w
           /\ Head(LowerCase(w)) = IF w[1] \in DOMAIN Lowered THEN Lowered[w[1]] ELSE w[1]
<1>1. Head(w) = w[1] /\ 1 \in DOMAIN w
  BY HeadIsFirst DEF Words
<1>2. Len(w) \in Nat \ {0} /\ DOMAIN w = 1 .. Len(w)
  BY EmptySeq, LenProperties DEF Words
<1> DEFINE low == LowerCase(w)
           S == {low[i] : i \in DOMAIN w}
           n == Len(w)
<1>3. low[1] = IF w[1] \in DOMAIN Lowered THEN Lowered[w[1]] ELSE w[1]
  BY <1>1 DEF LowerCase
<1>4. low \in [1 .. n -> S]
  BY <1>2 DEF LowerCase
<1>5. low # <<>>
  <2>1. DOMAIN low = DOMAIN w
    BY DEF LowerCase
  <2> HIDE DEF low
  <2> QED
    BY <1>1, <2>1
<1> HIDE DEF low, S
<1>6. low \in Seq(S)
  BY <1>2, <1>4, SeqDef
<1>7. Head(low) = low[1]
  BY <1>5, <1>6, HeadIsFirst
<1> QED
  BY <1>1, <1>2, <1>3, <1>7 DEF low

\* A raw operation on a group is normalised to one operation or to none.
LEMMA OneOperation ==
    ASSUME NEW op \in Json
    PROVE  GroupOps(op) = <<>> \/ \E x \in GroupOperations : GroupOps(op) = <<x>>
<1> DEFINE kind == Kind(op)
           path == Path(op)
           aimed == [kind |-> kind, members |-> {<<path[2]>>}]
           listed == [kind |-> kind, members |-> ValuesOf(Get(op, "value"))]
           Bracket == kind = <<"remove">> /\ path # <<>> /\ Head(LowerCase(path)) = "members["
           Plain == path \in {<<>>, <<"members">>} /\ kind \in Verbs
<1>1. GroupOps(op) = IF Bracket THEN IF Targets(path) THEN <<aimed>> ELSE <<>>
                     ELSE IF Plain THEN <<listed>> ELSE <<>>
  BY DEF GroupOps
<1>2. ASSUME Bracket, Targets(path)
      PROVE  aimed \in GroupOperations
  <2>1. path \in Words /\ Len(path) > 1
    BY <1>2, PathIsWord DEF Targets
  <2> HIDE DEF path, kind
  <2>2. Len(path) \in Nat
    BY <2>1, LenProperties DEF Words
  <2>3. path[2] \in STRING
    BY <2>1, <2>2, ElementOfSeq DEF Words
  <2>4. {<<path[2]>>} \in Members
    BY <2>3, WordIs, FS_Singleton DEF Members
  <2>5. kind \in Verbs
    BY <1>2 DEF Verbs
  <2> QED
    BY <2>4, <2>5 DEF GroupOperations
<1>3. ASSUME Plain
      PROVE  listed \in GroupOperations
  <2>1. ValuesOf(Get(op, "value")) \in Members
    BY GetIsValue, ValuesAreMembers DEF Bodies
  <2> HIDE DEF path, kind
  <2> QED
    BY <1>3, <2>1 DEF GroupOperations
<1> HIDE DEF aimed, listed, Bracket, Plain, path
<1> QED
  BY <1>1, <1>2, <1>3

\* One operation on members puts in, or takes out, whom it says.
LEMMA OperationMoves ==
    ASSUME NEW op \in Json, OnMembers(op), NEW M, NEW w
    PROVE  \/ GroupOps(op) = <<>> /\ SaysOf(op, w) = "silent"
           \/ \E x : /\ GroupOps(op) = <<x>>
                     /\ \/ SaysOf(op, w) = "in" /\ w \in ApplyGroupOp(M, x)
                        \/ SaysOf(op, w) = "out" /\ w \notin ApplyGroupOp(M, x)
                        \/ SaysOf(op, w) = "silent" /\ (w \in ApplyGroupOp(M, x) <=> w \in M)
<1> DEFINE kind == Kind(op)
           path == Path(op)
           ids == ValuesOf(Get(op, "value"))
           aimed == [kind |-> kind, members |-> {<<path[2]>>}]
           listed == [kind |-> kind, members |-> ids]
           says == SaysOf(op, w)
<1>1. GroupOps(op) = IF kind = <<"remove">> /\ path # <<>> /\ Head(LowerCase(path)) = "members["
                     THEN IF Targets(path) THEN <<aimed>> ELSE <<>>
                     ELSE IF path \in {<<>>, <<"members">>} /\ kind \in Verbs THEN <<listed>>
                     ELSE <<>>
  BY DEF GroupOps
<1>2. says =
        IF Targets(path) /\ path[1] = "members["
        THEN IF kind = <<"remove">> /\ <<path[2]>> = w THEN "out" ELSE "silent"
        ELSE IF path \notin {<<>>, <<"members">>} \/ kind \notin Verbs THEN "silent"
        ELSE CASE kind = <<"replace">> -> IF w \in ids THEN "in" ELSE "out"
               [] kind = <<"add">> -> IF w \in ids THEN "in" ELSE "silent"
               [] kind = <<"remove">> -> IF w \in ids THEN "out" ELSE "silent"
  BY DEF SaysOf
<1>3. path # <<>> => /\ path[1] \in {"members", "members["}
                     /\ Head(LowerCase(path)) = path[1]
  <2>0. path \in Words
    BY PathIsWord
  <2>1. SUFFICES ASSUME path # <<>>
                 PROVE  path[1] \in {"members", "members["} /\ Head(LowerCase(path)) = path[1]
    OBVIOUS
  <2>2. Head(path) = path[1]
    BY <2>0, <2>1, WordStarts
  <2>3. path[1] \in {"members", "members["}
    BY <2>1, <2>2 DEF OnMembers
  <2>4. Head(LowerCase(path)) = IF path[1] \in DOMAIN Lowered THEN Lowered[path[1]] ELSE path[1]
    BY <2>0, <2>1, WordStarts
  <2> HIDE DEF path
  <2> QED
    BY <2>3, <2>4, LoweredAssumption
<1>4. ~Targets(<<>>)
  BY DEF Targets
<1>5. <<"members">>[1] = "members" /\ <<"members">> # <<>>
  OBVIOUS
<1>6. /\ <<"add">> # <<"remove">> /\ <<"add">> # <<"replace">> /\ <<"remove">> # <<"replace">>
  OBVIOUS
<1> HIDE DEF kind, path, ids, says
<1>7. CASE path # <<>> /\ path[1] = "members["
  <2>1. path \notin {<<>>, <<"members">>}
    BY <1>5, <1>7
  <2>2. CASE kind = <<"remove">> /\ Targets(path)
    <3>1. GroupOps(op) = <<aimed>>
      BY <1>1, <1>3, <1>7, <2>2
    <3>2. says = IF <<path[2]>> = w THEN "out" ELSE "silent"
      BY <1>2, <1>7, <2>2
    <3>3. ApplyGroupOp(M, aimed) = M \ {<<path[2]>>}
      BY <1>6, <2>2 DEF ApplyGroupOp
    <3> QED
      BY <3>1, <3>2, <3>3 DEF says
  <2>3. CASE ~(kind = <<"remove">> /\ Targets(path))
    BY <1>1, <1>2, <1>3, <1>7, <2>1, <2>3 DEF says
  <2> QED
    BY <2>2, <2>3
<1>8. CASE path = <<>> \/ path[1] = "members"
  <2>1. /\ GroupOps(op) = IF path \in {<<>>, <<"members">>} /\ kind \in Verbs THEN <<listed>> ELSE <<>>
        /\ ~(Targets(path) /\ path[1] = "members[")
    BY <1>1, <1>3, <1>4, <1>8
  <2>2. CASE path \notin {<<>>, <<"members">>} \/ kind \notin Verbs
    BY <1>2, <2>1, <2>2 DEF says
  <2>3. CASE path \in {<<>>, <<"members">>} /\ kind = <<"replace">>
    <3>1. GroupOps(op) = <<listed>> /\ says = IF w \in ids THEN "in" ELSE "out"
      BY <1>2, <1>6, <2>1, <2>3 DEF Verbs
    <3>2. ApplyGroupOp(M, listed) = ids
      BY <1>6, <2>3 DEF ApplyGroupOp
    <3> QED
      BY <3>1, <3>2 DEF says
  <2>4. CASE path \in {<<>>, <<"members">>} /\ kind = <<"add">>
    <3>1. GroupOps(op) = <<listed>> /\ says = IF w \in ids THEN "in" ELSE "silent"
      BY <1>2, <1>6, <2>1, <2>4 DEF Verbs
    <3>2. ApplyGroupOp(M, listed) = M \cup ids
      BY <1>6, <2>4 DEF ApplyGroupOp
    <3> QED
      BY <3>1, <3>2 DEF says
  <2>5. CASE path \in {<<>>, <<"members">>} /\ kind = <<"remove">>
    <3>1. GroupOps(op) = <<listed>> /\ says = IF w \in ids THEN "out" ELSE "silent"
      BY <1>2, <1>6, <2>1, <2>5 DEF Verbs
    <3>2. ApplyGroupOp(M, listed) = M \ ids
      BY <1>6, <2>5 DEF ApplyGroupOp
    <3> QED
      BY <3>1, <3>2 DEF says
  <2> QED
    BY <2>2, <2>3, <2>4, <2>5 DEF Verbs
<1> QED
  BY <1>3, <1>7, <1>8

LEMMA ApplyKeepsMembers ==
    ASSUME NEW M \in Members, NEW x \in GroupOperations
    PROVE  ApplyGroupOp(M, x) \in Members
<1>1. x.kind \in Verbs /\ x.members \in Members
  BY DEF GroupOperations
<1>2. ApplyGroupOp(M, x) \in {M \cup x.members, M \ x.members, x.members}
  BY <1>1 DEF ApplyGroupOp, Verbs
<1>3. IsFiniteSet(M \cup x.members) /\ IsFiniteSet(M \ x.members)
  BY <1>1, FS_Union, FS_Difference DEF Members
<1> QED
  BY <1>1, <1>2, <1>3 DEF Members

\* What is parsed of a PATCH after each of its raw operations.
ParsesThrough(after, N, body) ==
    /\ after[0] = <<>>
    /\ \A n \in 1 .. N : after[n] = after[n - 1] \o GroupOps(Operations(body)[n])
    /\ after[N] = ParseGroupMemberPatch(body)

\* The parsing, from one raw operation to the next.
LEMMA GroupPatchPasses ==
    ASSUME NEW N \in Nat, NEW body, DOMAIN Operations(body) = 1 .. N,
           NEW V, <<>> \in V,
           \A v \in V, n \in 1 .. N : v \o GroupOps(Operations(body)[n]) \in V
    PROVE  \E after \in [0 .. N -> V] : ParsesThrough(after, N, body)
<1> DEFINE ops == Operations(body)
           step == [n \in 1 .. N |-> [v \in V |-> v \o GroupOps(ops[n])]]
           Defines(it) == it = [s \in SUBSET (1 .. N) |->
                                  IF s = {} THEN <<>>
                                  ELSE it[s \ {Max(s)}] \o GroupOps(ops[Max(s)])]
           fold == CHOOSE it : Defines(it)
<1>1. ParseGroupMemberPatch(body) = fold[1 .. N]
  BY DEF ParseGroupMemberPatch, FoldLeft, MapThenFoldSet
<1>2. step \in Steps(N, V)
  BY DEF Steps
<1>3. \A n \in 1 .. N, v \in V : step[n][v] = v \o GroupOps(ops[n])
  OBVIOUS
<1> HIDE DEF step, ops
<1>4. PICK it \in [SUBSET (1 .. N) -> V] : FoldsDown(it, N, <<>>, step)
  BY <1>2, FoldExists
<1>5. ASSUME NEW s \in SUBSET (1 .. N)
      PROVE  it[s] = IF s = {} THEN <<>> ELSE it[s \ {Max(s)}] \o GroupOps(ops[Max(s)])
  <2>1. CASE s = {}
    BY <1>4, <2>1 DEF FoldsDown
  <2>2. CASE s # {}
    <3>1. Max(s) \in 1 .. N /\ it[s \ {Max(s)}] \in V
      BY <2>2, MaxOf
    <3> QED
      BY <1>3, <1>4, <2>2, <3>1 DEF FoldsDown
  <2> QED
    BY <2>1, <2>2
<1>6. Defines(it)
  BY <1>5
<1> HIDE DEF Defines
<1>7. Defines(fold)
  BY <1>6
<1> HIDE DEF fold
<1>8. \A s \in SUBSET (1 .. N) :
         fold[s] = IF s = {} THEN <<>> ELSE fold[s \ {Max(s)}] \o GroupOps(ops[Max(s)])
  BY <1>7 DEF Defines
<1>9. FoldsValues(fold, N, V, <<>>, step)
  <2>1. ASSUME NEW s \in SUBSET (1 .. N), s # {}, fold[s \ {Max(s)}] \in V
        PROVE  fold[s] = step[Max(s)][fold[s \ {Max(s)}]]
    <3>1. Max(s) \in 1 .. N
      BY <2>1, MaxOf
    <3> QED
      BY <1>3, <1>8, <2>1, <3>1
  <2> QED
    BY <1>8, <2>1 DEF FoldsValues
<1>11. PICK after \in [0 .. N -> V] : Passes(after, N, <<>>, step) /\ after[N] = fold[1 .. N]
  BY <1>2, <1>9, FoldPasses
<1>12. ASSUME NEW n \in 1 .. N
       PROVE  after[n] = after[n - 1] \o GroupOps(ops[n])
  <2>1. after[n - 1] \in V
    OBVIOUS
  <2> QED
    BY <1>3, <1>11, <2>1 DEF Passes
<1> QED
  BY <1>1, <1>11, <1>12 DEF Passes, ParsesThrough, ops

\* Who is in a group after each of the operations parsed of a PATCH.
MovesThrough(after, N, before, body) ==
    /\ after[0] = before
    /\ \A n \in 1 .. N :
          after[n] = ApplyGroupOp(after[n - 1], ParseGroupMemberPatch(Body(body))[n])
    /\ after[N] = MembersAfter(before, body)

\* The group, from one parsed operation to the next.
LEMMA MembersPasses ==
    ASSUME NEW N \in Nat, NEW body, DOMAIN ParseGroupMemberPatch(Body(body)) = 1 .. N,
           NEW V, NEW before \in V,
           \A v \in V, n \in 1 .. N : ApplyGroupOp(v, ParseGroupMemberPatch(Body(body))[n]) \in V
    PROVE  \E after \in [0 .. N -> V] : MovesThrough(after, N, before, body)
<1> DEFINE ops == ParseGroupMemberPatch(Body(body))
           step == [n \in 1 .. N |-> [v \in V |-> ApplyGroupOp(v, ops[n])]]
           Defines(it) == it = [s \in SUBSET (1 .. N) |->
                                  IF s = {} THEN before
                                  ELSE ApplyGroupOp(it[s \ {Max(s)}], ops[Max(s)])]
           fold == CHOOSE it : Defines(it)
<1>1. MembersAfter(before, body) = fold[1 .. N]
  BY DEF MembersAfter, FoldLeft, MapThenFoldSet
<1>2. step \in Steps(N, V)
  BY DEF Steps
<1>3. \A n \in 1 .. N, v \in V : step[n][v] = ApplyGroupOp(v, ops[n])
  OBVIOUS
<1> HIDE DEF step, ops
<1>4. PICK it \in [SUBSET (1 .. N) -> V] : FoldsDown(it, N, before, step)
  BY <1>2, FoldExists
<1>5. ASSUME NEW s \in SUBSET (1 .. N)
      PROVE  it[s] = IF s = {} THEN before ELSE ApplyGroupOp(it[s \ {Max(s)}], ops[Max(s)])
  <2>1. CASE s = {}
    BY <1>4, <2>1 DEF FoldsDown
  <2>2. CASE s # {}
    <3>1. Max(s) \in 1 .. N /\ it[s \ {Max(s)}] \in V
      BY <2>2, MaxOf
    <3> QED
      BY <1>3, <1>4, <2>2, <3>1 DEF FoldsDown
  <2> QED
    BY <2>1, <2>2
<1>6. Defines(it)
  BY <1>5
<1> HIDE DEF Defines
<1>7. Defines(fold)
  BY <1>6
<1> HIDE DEF fold
<1>8. \A s \in SUBSET (1 .. N) :
         fold[s] = IF s = {} THEN before ELSE ApplyGroupOp(fold[s \ {Max(s)}], ops[Max(s)])
  BY <1>7 DEF Defines
<1>9. FoldsValues(fold, N, V, before, step)
  <2>1. ASSUME NEW s \in SUBSET (1 .. N), s # {}, fold[s \ {Max(s)}] \in V
        PROVE  fold[s] = step[Max(s)][fold[s \ {Max(s)}]]
    <3>1. Max(s) \in 1 .. N
      BY <2>1, MaxOf
    <3> QED
      BY <1>3, <1>8, <2>1, <3>1
  <2> QED
    BY <1>8, <2>1 DEF FoldsValues
<1>11. PICK after \in [0 .. N -> V] : Passes(after, N, before, step) /\ after[N] = fold[1 .. N]
  BY <1>2, <1>9, FoldPasses
<1>12. ASSUME NEW n \in 1 .. N
       PROVE  after[n] = ApplyGroupOp(after[n - 1], ops[n])
  <2>1. after[n - 1] \in V
    OBVIOUS
  <2> QED
    BY <1>3, <1>11, <2>1 DEF Passes
<1> QED
  BY <1>1, <1>11, <1>12 DEF Passes, MovesThrough, ops

\* Who is in a group after each of the raw operations of a PATCH.
PassesThrough(at, n, before, body) ==
    /\ at \in [0 .. n -> Members]
    /\ at[0] = before
    /\ at[n] = MembersAfter(before, body)
    /\ \A i \in 1 .. n :
          LET some == GroupOps(Operations(Body(body))[i])
          IN  \/ some = <<>> /\ at[i] = at[i - 1]
              \/ \E x \in GroupOperations : some = <<x>> /\ at[i] = ApplyGroupOp(at[i - 1], x)

LEMMA OperationsOf ==
    ASSUME NEW body \in Json
    PROVE  LET ops == Operations(Body(body))
           IN  /\ Len(ops) \in Nat /\ DOMAIN ops = 1 .. Len(ops)
               /\ \A i \in 1 .. Len(ops) : ops[i] \in Json
<1>1. Operations(Body(body)) \in Seq(Json)
  BY BodyIsBody, OperationsAreJson
<1> QED
  BY <1>1, LenProperties, ElementOfSeq

\* Of each raw operation at most one is parsed, so the group moves with them.
LEMMA PatchPasses ==
    ASSUME NEW body \in Json, NEW before \in Members
    PROVE  \E at : PassesThrough(at, Len(Operations(Body(body))), before, body)
<1> DEFINE ops == Operations(Body(body))
           n == Len(ops)
           V == Seq(GroupOperations)
           final == ParseGroupMemberPatch(Body(body))
           N == Len(final)
<1>1. n \in Nat /\ DOMAIN ops = 1 .. n /\ \A i \in 1 .. n : ops[i] \in Json
  BY OperationsOf
<1> HIDE DEF n
<1>2. \A i \in 1 .. n : \/ GroupOps(ops[i]) = <<>>
                        \/ \E x \in GroupOperations : GroupOps(ops[i]) = <<x>>
  BY <1>1, OneOperation
<1>3. <<>> \in V /\ \A x \in GroupOperations : <<x>> \in V /\ Len(<<x>>) = 1 /\ <<x>>[1] = x
  BY EmptySeq, OneIsSeq
<1>4. \A v \in V, i \in 1 .. n : v \o GroupOps(ops[i]) \in V
  <2>1. \A i \in 1 .. n : GroupOps(ops[i]) \in V
    BY <1>2, <1>3
  <2> HIDE DEF ops
  <2> QED
    BY <2>1, ConcatProperties
<1> HIDE DEF V
<1>0. PICK parsed \in [0 .. n -> V] : ParsesThrough(parsed, n, Body(body))
  BY <1>1, <1>3, <1>4, GroupPatchPasses
<1>5. /\ parsed[0] = <<>>
      /\ \A i \in 1 .. n : parsed[i] = parsed[i - 1] \o GroupOps(ops[i])
      /\ parsed[n] = final
  BY <1>0 DEF ParsesThrough
<1> USE DEF V
<1>6. final \in V
  BY <1>1, <1>5
<1>7. N \in Nat /\ DOMAIN final = 1 .. N /\ \A k \in 1 .. N : final[k] \in GroupOperations
  BY <1>6, LenProperties, ElementOfSeq
<1> HIDE DEF N
<1>8. \A M \in Members, k \in 1 .. N : ApplyGroupOp(M, final[k]) \in Members
  BY <1>7, ApplyKeepsMembers
<1>19. PICK m \in [0 .. N -> Members] : MovesThrough(m, N, before, body)
  BY <1>7, <1>8, MembersPasses
<1>9. /\ m[0] = before
      /\ \A k \in 1 .. N : m[k] = ApplyGroupOp(m[k - 1], final[k])
      /\ m[N] = MembersAfter(before, body)
  BY <1>19 DEF MovesThrough
<1> DEFINE Prefix(s) == Len(s) \in 0 .. N /\ \A k \in 1 .. Len(s) : final[k] = s[k]
           at == [i \in 0 .. n |-> m[Len(parsed[i])]]
           S == {d \in 0 .. n : Prefix(parsed[n - d])}
<1> HIDE DEF ops, final
\* What is parsed stays where it is.
<1>10. ASSUME NEW i \in 1 .. n
       PROVE  \/ GroupOps(ops[i]) = <<>> /\ parsed[i] = parsed[i - 1]
              \/ \E x \in GroupOperations :
                    /\ GroupOps(ops[i]) = <<x>>
                    /\ Len(parsed[i]) = Len(parsed[i - 1]) + 1
                    /\ parsed[i][Len(parsed[i - 1]) + 1] = x
                    /\ \A k \in 1 .. Len(parsed[i - 1]) : parsed[i][k] = parsed[i - 1][k]
  <2>1. parsed[i - 1] \in V /\ parsed[i] = parsed[i - 1] \o GroupOps(ops[i])
    <3> HIDE DEF V
    <3>1. i - 1 \in 0 .. n
      BY <1>1
    <3> QED
      BY <1>5, <3>1
  <2>2. CASE GroupOps(ops[i]) = <<>>
    BY <2>1, <2>2, ConcatEmptySeq
  <2>3. ASSUME NEW x \in GroupOperations, GroupOps(ops[i]) = <<x>>
        PROVE  /\ Len(parsed[i]) = Len(parsed[i - 1]) + 1
               /\ parsed[i][Len(parsed[i - 1]) + 1] = x
               /\ \A k \in 1 .. Len(parsed[i - 1]) : parsed[i][k] = parsed[i - 1][k]
    <3> DEFINE s == parsed[i - 1]
               t == <<x>>
               l == Len(s)
    <3>1. s \in V /\ t \in V /\ Len(t) = 1 /\ t[1] = x
      BY <1>3, <2>1
    <3>2. parsed[i] = s \o t
      BY <2>1, <2>3
    <3> HIDE DEF s, t
    <3>3. l \in Nat
      BY <3>1, LenProperties
    <3>4. /\ Len(s \o t) = l + 1
          /\ \A k \in 1 .. l + 1 : (s \o t)[k] = IF k <= l THEN s[k] ELSE t[k - l]
      <4>1. /\ Len(s \o t) = Len(s) + Len(t)
            /\ \A k \in 1 .. Len(s) + Len(t) :
                 (s \o t)[k] = IF k <= Len(s) THEN s[k] ELSE t[k - Len(s)]
        BY <3>1, ConcatProperties
      <4> QED
        BY <3>1, <4>1
    <3> HIDE DEF l
    <3>5. (s \o t)[l + 1] = x /\ \A k \in 1 .. l : (s \o t)[k] = s[k]
      <4>1. l + 1 \in 1 .. l + 1 /\ ~(l + 1 <= l) /\ (l + 1) - l = 1
        BY <3>3
      <4>2. (s \o t)[l + 1] = t[1]
        BY <3>4, <4>1
      <4> QED
        BY <3>1, <3>3, <3>4, <4>2
    <3> QED
      BY <3>2, <3>4, <3>5 DEF s, l
  <2> QED
    BY <1>2, <2>2, <2>3
<1>11. \A i \in 0 .. n : Len(parsed[i]) \in Nat
  BY <1>5, LenProperties
<1>12. 0 \in S
  <2>1. 0 \in 0 .. n /\ n - 0 = n
    BY <1>1
  <2>2. Prefix(parsed[n])
    BY <1>5, <1>7 DEF N
  <2> QED
    BY <2>1, <2>2
<1>13. ASSUME NEW d \in 0 .. n - 1, d \in S
       PROVE  d + 1 \in S
  <2> DEFINE i == n - d
  <2>1. i \in 1 .. n /\ i - 1 = n - (d + 1) /\ i - 1 \in 0 .. n /\ d + 1 \in 0 .. n
    BY <1>1
  <2>2. Prefix(parsed[i])
    BY <1>13
  <2> HIDE DEF i
  <2>3. Len(parsed[i - 1]) \in Nat
    BY <1>11, <2>1
  <2>4. Prefix(parsed[i - 1])
    <3>1. CASE parsed[i] = parsed[i - 1]
      BY <2>2, <3>1
    <3>2. CASE /\ Len(parsed[i]) = Len(parsed[i - 1]) + 1
               /\ \A k \in 1 .. Len(parsed[i - 1]) : parsed[i][k] = parsed[i - 1][k]
      BY <1>7, <2>2, <2>3, <3>2, SMTT(30)
    <3> QED
      BY <1>10, <2>1, <3>1, <3>2
  <2> HIDE DEF Prefix
  <2> QED
    BY <2>1, <2>4
<1> HIDE DEF S
<1>14. 0 .. n \subseteq S
  BY <1>1, <1>12, <1>13, BoundedInduction
<1>15. \A i \in 0 .. n : Prefix(parsed[i])
  <2> SUFFICES ASSUME NEW i \in 0 .. n
               PROVE  Prefix(parsed[i])
    OBVIOUS
  <2>1. n - i \in 0 .. n /\ n - (n - i) = i
    BY <1>1
  <2> QED
    BY <1>14, <2>1 DEF S
<1>16. at \in [0 .. n -> Members]
  BY <1>15
<1>17. at[0] = before /\ at[n] = MembersAfter(before, body)
  <2>1. 0 \in 0 .. n /\ n \in 0 .. n
    BY <1>1
  <2>2. Len(parsed[0]) = 0 /\ Len(parsed[n]) = N
    BY <1>5, EmptySeq DEF N
  <2> QED
    BY <1>9, <2>1, <2>2
<1>18. ASSUME NEW i \in 1 .. n
       PROVE  \/ GroupOps(ops[i]) = <<>> /\ at[i] = at[i - 1]
              \/ \E x \in GroupOperations :
                    GroupOps(ops[i]) = <<x>> /\ at[i] = ApplyGroupOp(at[i - 1], x)
  <2> DEFINE l == Len(parsed[i - 1])
  <2>1. i - 1 \in 0 .. n /\ i \in 0 .. n
    BY <1>1
  <2>2. at[i] = m[Len(parsed[i])] /\ at[i - 1] = m[l]
    BY <2>1
  <2>3. CASE parsed[i] = parsed[i - 1] /\ GroupOps(ops[i]) = <<>>
    BY <2>2, <2>3
  <2>4. ASSUME NEW x \in GroupOperations, GroupOps(ops[i]) = <<x>>, Len(parsed[i]) = l + 1,
               parsed[i][l + 1] = x
        PROVE  at[i] = ApplyGroupOp(at[i - 1], x)
    <3>1. l \in Nat /\ l + 1 \in 0 .. N /\ \A k \in 1 .. l + 1 : final[k] = parsed[i][k]
      BY <1>11, <1>15, <2>1, <2>4
    <3> HIDE DEF l
    <3>2. l + 1 \in 1 .. N /\ (l + 1) - 1 = l /\ l + 1 \in 1 .. l + 1
      BY <1>7, <3>1
    <3>3. final[l + 1] = x
      BY <2>4, <3>1, <3>2
    <3>4. m[l + 1] = ApplyGroupOp(m[l], x)
      BY <1>9, <3>2, <3>3
    <3> QED
      BY <2>2, <2>4, <3>4
  <2> HIDE DEF at
  <2> QED
    BY <1>10, <2>3, <2>4
<1> HIDE DEF at
<1>20. PassesThrough(at, n, before, body)
  BY <1>16, <1>17, <1>18 DEF PassesThrough, ops
<1> QED
  BY <1>20 DEF n, ops

LEMMA MembersStayMembers ==
    ASSUME NEW body \in Json, NEW before \in Members
    PROVE  MembersAfter(before, body) \in Members
<1> DEFINE n == Len(Operations(Body(body)))
<1>1. n \in Nat
  BY OperationsOf
<1>2. PICK at : PassesThrough(at, n, before, body)
  BY PatchPasses
<1> HIDE DEF n
<1>3. at[n] \in Members
  BY <1>1, <1>2 DEF PassesThrough
<1> QED
  BY <1>2, <1>3 DEF PassesThrough

\* The last word on a member.
LEMMA LastWordOnMember ==
    ASSUME NEW body \in Json, NEW before \in Members, NEW w,
           \A n \in DOMAIN Operations(Body(body)) : OnMembers(Operations(Body(body))[n])
    PROVE  LET ops == Operations(Body(body))
               speaking == {n \in DOMAIN ops : SaysOf(ops[n], w) # "silent"}
           IN  w \in MembersAfter(before, body) <=>
                 IF speaking = {} THEN w \in before
                 ELSE SaysOf(ops[CHOOSE n \in speaking : \A k \in speaking : k <= n], w) = "in"
<1> DEFINE ops == Operations(Body(body))
           n == Len(ops)
           speaking == {i \in DOMAIN ops : SaysOf(ops[i], w) # "silent"}
           last == CHOOSE i \in speaking : \A k \in speaking : k <= i
           In(i) == SaysOf(ops[i], w) = "in"
           Silent(i) == SaysOf(ops[i], w) = "silent"
           Word(i) == \/ \E k \in 1 .. i : In(k) /\ \A j \in k + 1 .. i : Silent(j)
                      \/ w \in before /\ \A j \in 1 .. i : Silent(j)
<1>1. n \in Nat /\ DOMAIN ops = 1 .. n /\ \A i \in 1 .. n : ops[i] \in Json
  BY OperationsOf
<1>2. PICK at : PassesThrough(at, n, before, body)
  BY PatchPasses
<1>3. \A i : ~(In(i) /\ Silent(i))
  OBVIOUS
<1>4. \A i \in speaking : i \in 1 .. n /\ ~Silent(i)
  BY <1>1
<1>5. \A i \in 1 .. n : i \notin speaking <=> Silent(i)
  BY <1>1
<1> HIDE DEF speaking
<1> DEFINE S == {i \in 0 .. n : w \in at[i] <=> Word(i)}
<1>6. ASSUME NEW i \in 1 .. n
      PROVE  \/ Silent(i) /\ (w \in at[i] <=> w \in at[i - 1])
             \/ In(i) /\ w \in at[i]
             \/ ~In(i) /\ ~Silent(i) /\ w \notin at[i]
  <2>1. \/ GroupOps(ops[i]) = <<>> /\ at[i] = at[i - 1]
        \/ \E x \in GroupOperations :
              GroupOps(ops[i]) = <<x>> /\ at[i] = ApplyGroupOp(at[i - 1], x)
    BY <1>2 DEF PassesThrough
  <2> DEFINE op == ops[i]
             M == at[i - 1]
  <2>2. op \in Json /\ OnMembers(op)
    BY <1>1
  <2> HIDE DEF op, M
  <2>3. \/ GroupOps(op) = <<>> /\ SaysOf(op, w) = "silent"
        \/ \E x : /\ GroupOps(op) = <<x>>
                  /\ \/ SaysOf(op, w) = "in" /\ w \in ApplyGroupOp(M, x)
                     \/ SaysOf(op, w) = "out" /\ w \notin ApplyGroupOp(M, x)
                     \/ SaysOf(op, w) = "silent" /\ (w \in ApplyGroupOp(M, x) <=> w \in M)
    BY <2>2, OperationMoves
  <2>4. \A x : <<x>> # <<>>
    OBVIOUS
  <2>5. \A x, y : <<x>> = <<y>> => x = y
    OBVIOUS
  <2>6. CASE GroupOps(op) = <<>>
    <3>1. SaysOf(op, w) = "silent"
      BY <2>3, <2>4, <2>6
    <3>2. at[i] = M
      BY <2>1, <2>4, <2>6 DEF op, M
    <3> QED
      BY <3>1, <3>2 DEF op, M
  <2>7. ASSUME NEW x, GroupOps(op) = <<x>>
        PROVE  \/ Silent(i) /\ (w \in at[i] <=> w \in at[i - 1])
               \/ In(i) /\ w \in at[i]
               \/ ~In(i) /\ ~Silent(i) /\ w \notin at[i]
    <3>1. at[i] = ApplyGroupOp(M, x)
      BY <2>1, <2>4, <2>5, <2>7 DEF op, M
    <3>2. \/ SaysOf(op, w) = "in" /\ w \in at[i]
          \/ SaysOf(op, w) = "out" /\ w \notin at[i]
          \/ SaysOf(op, w) = "silent" /\ (w \in at[i] <=> w \in M)
      BY <2>3, <2>4, <2>5, <2>7, <3>1
    <3> QED
      BY <3>2 DEF op, M
  <2> QED
    BY <2>3, <2>6, <2>7
<1>7. at[0] = before /\ at[n] = MembersAfter(before, body)
  BY <1>2 DEF PassesThrough
<1> HIDE DEF In, Silent, ops, n
<1>8. 0 \in S
  <2>1. 0 \in 0 .. n /\ 1 .. 0 = {}
    BY <1>1
  <2> QED
    BY <1>7, <2>1
<1>9. ASSUME NEW i \in 0 .. n - 1, i \in S
      PROVE  i + 1 \in S
  <2>1. i + 1 \in 1 .. n /\ (i + 1) - 1 = i /\ i + 1 \in 0 .. n /\ i \in Nat
    BY <1>1
  <2>2. w \in at[i] <=> Word(i)
    BY <1>9
  <2>3. \A j \in 1 .. i + 1 : j \in 1 .. i \/ j = i + 1
    BY <2>1
  <2>4. \A k \in 1 .. i : \A j \in k + 1 .. i + 1 : j \in k + 1 .. i \/ j = i + 1
    BY <2>1
  <2>5. i + 1 \in 1 .. i + 1 /\ (i + 1) + 1 .. i + 1 = {} /\ 1 .. i \subseteq 1 .. i + 1
    BY <2>1
  <2>6. \A k \in 1 .. i : i + 1 \in k + 1 .. i + 1 /\ k + 1 .. i \subseteq k + 1 .. i + 1
    BY <2>1
  <2>7. CASE Silent(i + 1)
    <3>1. w \in at[i + 1] <=> w \in at[i]
      BY <1>3, <1>6, <2>1, <2>7
    <3>2. Word(i) => Word(i + 1)
      BY <2>3, <2>4, <2>5, <2>7
    <3>3. Word(i + 1) => Word(i)
      BY <1>3, <2>3, <2>5, <2>6, <2>7
    <3> HIDE DEF Word
    <3> QED
      BY <2>1, <2>2, <3>1, <3>2, <3>3
  <2>8. CASE In(i + 1)
    <3>1. w \in at[i + 1]
      BY <1>3, <1>6, <2>1, <2>8
    <3>2. Word(i + 1)
      BY <2>5, <2>8
    <3> HIDE DEF Word
    <3> QED
      BY <2>1, <3>1, <3>2
  <2>9. CASE ~In(i + 1) /\ ~Silent(i + 1)
    <3>1. w \notin at[i + 1]
      BY <1>6, <2>1, <2>9
    <3>2. ~Word(i + 1)
      BY <2>3, <2>5, <2>6, <2>9
    <3> HIDE DEF Word
    <3> QED
      BY <2>1, <3>1, <3>2
  <2> QED
    BY <2>7, <2>8, <2>9
<1> HIDE DEF S, Word
<1>10. 0 .. n \subseteq S
  BY <1>1, <1>8, <1>9, BoundedInduction
<1>11. w \in MembersAfter(before, body) <=> Word(n)
  <2>1. n \in S
    BY <1>1, <1>10
  <2> QED
    BY <1>7, <2>1 DEF S
<1>12. Word(n) <=> IF speaking = {} THEN w \in before ELSE In(last)
  <2>1. CASE speaking = {}
    <3>1. \A j \in 1 .. n : Silent(j)
      BY <1>5, <2>1
    <3> QED
      BY <1>3, <2>1, <3>1 DEF Word
  <2>2. CASE speaking # {}
    <3>0. speaking \subseteq 1 .. n
      BY <1>4
    <3>1. last \in speaking /\ \A k \in speaking : k <= last
      BY <1>1, <2>2, <3>0, GreatestOf
    <3>2. ASSUME NEW k \in 1 .. n, In(k), \A j \in k + 1 .. n : Silent(j)
          PROVE  last = k
      <4>1. k \in speaking /\ \A j \in k + 1 .. n : j \notin speaking
        BY <1>3, <1>5, <3>2
      <4> QED
        BY <1>1, <3>0, <4>1, SpeaksLast
    <3> HIDE DEF last
    <3>3. last \in 1 .. n /\ ~Silent(last)
      BY <1>4, <3>1
    <3>4. \A j \in last + 1 .. n : Silent(j)
      <4> SUFFICES ASSUME NEW j \in last + 1 .. n
                   PROVE  Silent(j)
        OBVIOUS
      <4>1. j \in 1 .. n /\ ~(j <= last)
        BY <1>1, <3>3
      <4> QED
        BY <1>5, <3>1, <4>1
    <3>5. In(last) => Word(n)
      BY <3>3, <3>4 DEF Word
    <3>6. Word(n) => In(last)
      BY <3>2, <3>3 DEF Word
    <3> QED
      BY <2>2, <3>5, <3>6
  <2> QED
    BY <2>1, <2>2
<1> QED
  BY <1>11, <1>12 DEF ops, speaking, last, In

----------------------------------------------------------------------------
(* Rows                                                                     *)

LEMMA RowTypes ==
    ASSUME RowsInv
    PROVE  /\ Len(users) \in Nat /\ DOMAIN users = 1 .. Len(users)
           /\ \A i \in DOMAIN users : users[i] \in Rows
           /\ Len(knew) \in Nat /\ DOMAIN knew = DOMAIN users
           /\ \A i \in DOMAIN users : knew[i] \in Nat
  BY LenProperties, ElementOfSeq DEF RowsInv

\* A row that is written is a row, and keeps its email but for a renaming, which is noted.
LEMMA WritesRow ==
    ASSUME RowsInv, NEW i \in DOMAIN users,
           NEW row \in Rows, Write(i, row),
           renamed' = IF SameName(users[i].userName, row.userName) THEN renamed
                      ELSE renamed \cup {i}
    PROVE  /\ users' \in Seq(Rows) /\ Len(users') = Len(users) /\ DOMAIN users' = DOMAIN users
           /\ \A j \in DOMAIN users : j \notin renamed' =>
                 j \notin renamed /\ SameName(users[j].userName, users'[j].userName)
           /\ renamed' \subseteq DOMAIN users
           /\ UNCHANGED <<pc, input, walk, looked, knew>>
<1>1. i \in 1 .. Len(users) /\ users \in Seq(Rows)
  BY RowTypes DEF RowsInv
<1>2. users' = [users EXCEPT ![i] = row] /\ UNCHANGED <<pc, input, walk, looked, knew>>
  BY DEF Write
<1>3. /\ users' \in Seq(Rows) /\ Len(users') = Len(users)
      /\ \A j \in 1 .. Len(users) : users'[j] = IF j = i THEN row ELSE users[j]
  BY <1>1, <1>2, ExceptSeq
<1>4. DOMAIN users' = DOMAIN users
  BY <1>2
<1>5. ASSUME NEW j \in DOMAIN users, j \notin renamed'
      PROVE  j \notin renamed /\ SameName(users[j].userName, users'[j].userName)
  BY <1>3, <1>5, RowTypes DEF SameName
<1>6. renamed' \subseteq DOMAIN users
  BY DEF RowsInv
<1> QED
  BY <1>2, <1>3, <1>4, <1>5, <1>6

\* A PUT, a PATCH or a DELETE of a user is such a write.
LEMMA WritesAreOfRows ==
    ASSUME RowsInv, NEW i \in DOMAIN users,
           \/ \E body \in UserBodies : Put(i, body)
           \/ \E body \in UserPatches : Patch(i, body)
           \/ Delete(i)
    PROVE  \E row \in Rows :
              /\ Write(i, row)
              /\ renamed' = IF SameName(users[i].userName, row.userName) THEN renamed
                            ELSE renamed \cup {i}
<1>1. users[i] \in Rows
  BY RowTypes
<1>2. ASSUME NEW body \in UserBodies, Put(i, body)
      PROVE  \E row \in Rows :
              /\ Write(i, row)
              /\ renamed' = IF SameName(users[i].userName, row.userName) THEN renamed
                            ELSE renamed \cup {i}
  BY <1>2, InputIsRow DEF Put
<1>3. ASSUME NEW row \in Rows, row.userName = users[i].userName, Write(i, row), UNCHANGED renamed
      PROVE  renamed' = IF SameName(users[i].userName, row.userName) THEN renamed
                        ELSE renamed \cup {i}
  BY <1>3 DEF SameName
<1>4. ASSUME NEW body \in UserPatches, Patch(i, body)
      PROVE  \E row \in Rows :
                row.userName = users[i].userName /\ Write(i, row) /\ UNCHANGED renamed
  <2>1. ParseUserPatch(Body(body)) \in Patches
    BY ParsedIsPatch
  <2> QED
    BY <1>1, <1>4, <2>1, PatchedIsRow DEF Patch
<1>5. CASE Delete(i)
  <2> DEFINE row == [users[i] EXCEPT !.active = FALSE]
  <2>1. row.userName = users[i].userName /\ Write(i, row) /\ UNCHANGED renamed
    BY <1>1, <1>5 DEF Delete, Rows
  <2>2. row \in Rows
    BY <1>1 DEF Rows
  <2> HIDE DEF row
  <2> QED
    BY <1>3, <2>1, <2>2
<1> QED
  BY <1>2, <1>3, <1>4, <1>5

----------------------------------------------------------------------------
(* Steps on users                                                           *)

LEMMA WriteKeeps ==
    ASSUME IInv, NEW i \in DOMAIN users,
           \/ \E body \in UserBodies : Put(i, body)
           \/ \E body \in UserPatches : Patch(i, body)
           \/ Delete(i)
    PROVE  RowsInv' /\ LookedInv' /\ KnewInv' /\ WalkInv'
<1>0. RowsInv /\ LookedInv /\ KnewInv /\ WalkInv
  BY DEF IInv
<1>1. PICK row \in Rows :
          /\ Write(i, row)
          /\ renamed' = IF SameName(users[i].userName, row.userName) THEN renamed
                        ELSE renamed \cup {i}
  BY <1>0, WritesAreOfRows
<1>2. /\ users' \in Seq(Rows) /\ Len(users') = Len(users) /\ DOMAIN users' = DOMAIN users
      /\ \A j \in DOMAIN users : j \notin renamed' =>
            j \notin renamed /\ SameName(users[j].userName, users'[j].userName)
      /\ renamed' \subseteq DOMAIN users
      /\ UNCHANGED <<pc, input, walk, looked, knew>>
  BY <1>0, <1>1, WritesRow
<1>3. RowsInv'
  BY <1>0, <1>2 DEF RowsInv
<1>4. LookedInv'
  <2> SUFFICES ASSUME NEW c \in Calls, pc[c] = "create"
               PROVE  /\ looked[c] <= Len(users)
                      /\ \A j \in 1 .. looked[c] :
                           j \notin renamed' => ~SameName(users'[j].userName, input[c].userName)
    BY <1>2 DEF LookedInv, SameName
  <2>1. looked[c] <= Len(users) /\ looked[c] \in Nat
    BY <1>0 DEF LookedInv, RowsInv
  <2>2. ASSUME NEW j \in 1 .. looked[c], j \notin renamed'
        PROVE  ~SameName(users'[j].userName, input[c].userName)
    <3>1. j \in DOMAIN users
      BY <1>0, <2>1, RowTypes
    <3>2. ~SameName(users[j].userName, input[c].userName)
      BY <1>0, <1>2, <2>2, <3>1 DEF LookedInv
    <3> QED
      BY <1>2, <2>2, <3>1, <3>2 DEF SameName
  <2> QED
    BY <2>1, <2>2
<1>5. KnewInv'
  <2> SUFFICES ASSUME NEW j \in DOMAIN users, NEW k \in DOMAIN users, k <= knew[j],
                      k \notin renamed', j \notin renamed'
               PROVE  ~SameName(users'[k].userName, users'[j].userName)
    BY <1>0, <1>2 DEF KnewInv, SameName
  <2>1. ~SameName(users[k].userName, users[j].userName)
    BY <1>0, <1>2 DEF KnewInv
  <2> QED
    BY <1>2, <2>1 DEF SameName
<1>6. WalkInv'
  BY <1>0, <1>2 DEF WalkInv, WalkRecord, WalkMissesNobody
<1> QED
  BY <1>3, <1>4, <1>5, <1>6

LEMMA SettleKeeps ==
    ASSUME IInv, NEW c \in Calls, Settle(c), UNCHANGED <<users, walk, knew, renamed>>
    PROVE  RowsInv' /\ LookedInv' /\ KnewInv' /\ WalkInv'
<1>0. RowsInv /\ LookedInv /\ KnewInv /\ WalkInv
  BY DEF IInv
<1>1. /\ pc' = [pc EXCEPT ![c] = "idle"] /\ input' = [input EXCEPT ![c] = NoInput]
      /\ looked' = [looked EXCEPT ![c] = 0]
  BY DEF Settle
<1>2. RowsInv'
  BY <1>0, <1>1 DEF RowsInv
<1>3. LookedInv'
  BY <1>0, <1>1 DEF RowsInv, LookedInv, SameName
<1>4. KnewInv' /\ WalkInv'
  BY <1>0 DEF KnewInv, SameName, WalkInv, WalkRecord, WalkMissesNobody
<1> QED
  BY <1>2, <1>3, <1>4

LEMMA PostKeeps ==
    ASSUME IInv, NEW c \in Calls, Post(c)
    PROVE  RowsInv' /\ LookedInv' /\ KnewInv' /\ WalkInv'
<1>0. RowsInv /\ LookedInv /\ KnewInv /\ WalkInv
  BY DEF IInv
<1>1. PICK body \in UserBodies :
         EmailOf(Body(body)) # Null /\ input' = [input EXCEPT ![c] = UserInput(Body(body))]
  BY DEF Post
<1>2. pc' = [pc EXCEPT ![c] = "find"] /\ UNCHANGED <<users, walk, looked, knew, renamed>>
  BY DEF Post
<1>3. RowsInv'
  BY <1>0, <1>1, <1>2, InputIsRow DEF RowsInv
<1>4. LookedInv'
  BY <1>0, <1>1, <1>2 DEF RowsInv, LookedInv, SameName
<1>5. KnewInv' /\ WalkInv'
  BY <1>0, <1>2 DEF KnewInv, SameName, WalkInv, WalkRecord, WalkMissesNobody
<1> QED
  BY <1>3, <1>4, <1>5

LEMMA PostFindKeeps ==
    ASSUME IInv, NEW c \in Calls, PostFind(c)
    PROVE  RowsInv' /\ LookedInv' /\ KnewInv' /\ WalkInv'
<1>0. RowsInv /\ LookedInv /\ KnewInv /\ WalkInv
  BY DEF IInv
<1>1. CASE HasEmail(input[c].userName)
  BY <1>1, SettleKeeps DEF PostFind
<1>2. CASE ~HasEmail(input[c].userName)
  <2>1. /\ pc' = [pc EXCEPT ![c] = "create"] /\ looked' = [looked EXCEPT ![c] = Len(users)]
        /\ UNCHANGED <<users, input, walk, knew, renamed>> /\ pc[c] = "find"
    BY <1>2 DEF PostFind
  <2>2. RowsInv'
    BY <1>0, <2>1, RowTypes DEF RowsInv
  <2>3. LookedInv'
    <3> SUFFICES ASSUME NEW d \in Calls, pc'[d] = "create"
                 PROVE  /\ looked'[d] <= Len(users)
                        /\ \A j \in 1 .. looked'[d] :
                             j \notin renamed => ~SameName(users[j].userName, input[d].userName)
      BY <2>1 DEF LookedInv, SameName
    <3>1. CASE d = c
      <4>1. looked'[d] = Len(users) /\ Len(users) \in Nat /\ DOMAIN users = 1 .. Len(users)
        BY <1>0, <2>1, <3>1, RowTypes DEF RowsInv
      <4> QED
        BY <1>2, <3>1, <4>1 DEF HasEmail
    <3>2. CASE d # c
      BY <1>0, <2>1, <3>2 DEF RowsInv, LookedInv
    <3> QED
      BY <3>1, <3>2
  <2>4. KnewInv' /\ WalkInv'
    BY <1>0, <2>1 DEF KnewInv, SameName, WalkInv, WalkRecord, WalkMissesNobody
  <2> QED
    BY <2>2, <2>3, <2>4
<1> QED
  BY <1>1, <1>2

LEMMA PostCreateKeeps ==
    ASSUME IInv, NEW c \in Calls, PostCreate(c)
    PROVE  RowsInv' /\ LookedInv' /\ KnewInv' /\ WalkInv'
<1>0. RowsInv /\ LookedInv /\ KnewInv /\ WalkInv
  BY DEF IInv
<1> DEFINE n == Len(users)
<1>1. /\ users' = Append(users, input[c]) /\ knew' = Append(knew, looked[c])
      /\ Settle(c) /\ UNCHANGED <<walk, renamed>> /\ pc[c] = "create"
  BY DEF PostCreate
<1>2. input[c] \in Rows /\ looked[c] \in Nat /\ n \in Nat /\ DOMAIN users = 1 .. n
  BY <1>0, <1>1, RowTypes DEF RowsInv
<1>3. /\ users' \in Seq(Rows) /\ Len(users') = n + 1 /\ DOMAIN users' = 1 .. n + 1
      /\ \A j \in 1 .. n : users'[j] = users[j]
      /\ users'[n + 1] = input[c]
  BY <1>0, <1>1, <1>2, AppendProperties, LenProperties DEF RowsInv
<1>4. /\ knew' \in Seq(Nat) /\ Len(knew') = n + 1
      /\ \A j \in 1 .. n : knew'[j] = knew[j]
      /\ knew'[n + 1] = looked[c]
  BY <1>0, <1>1, <1>2, AppendProperties DEF RowsInv
<1>5. renamed \subseteq 1 .. n
  BY <1>0, <1>2 DEF RowsInv
<1>6. /\ pc' = [pc EXCEPT ![c] = "idle"] /\ input' = [input EXCEPT ![c] = NoInput]
      /\ looked' = [looked EXCEPT ![c] = 0]
  BY <1>1 DEF Settle
<1>7. RowsInv'
  BY <1>0, <1>1, <1>3, <1>4, <1>5, <1>6 DEF RowsInv
<1>8. LookedInv'
  <2> SUFFICES ASSUME NEW d \in Calls, d # c, pc[d] = "create"
               PROVE  /\ looked[d] <= n + 1
                      /\ \A j \in 1 .. looked[d] :
                           j \notin renamed => ~SameName(users'[j].userName, input[d].userName)
    BY <1>0, <1>1, <1>3, <1>6 DEF LookedInv, RowsInv, SameName
  <2>1. /\ looked[d] \in Nat /\ looked[d] <= n
        /\ \A j \in 1 .. looked[d] :
             j \notin renamed => ~SameName(users[j].userName, input[d].userName)
    BY <1>0 DEF LookedInv, RowsInv
  <2> QED
    BY <1>2, <1>3, <2>1
<1>9. KnewInv'
  <2> SUFFICES ASSUME NEW j \in 1 .. n + 1
               PROVE  /\ knew'[j] < j
                      /\ \A k \in 1 .. n + 1 : k <= knew'[j] /\ {k, j} \cap renamed = {}
                            => ~SameName(users'[k].userName, users'[j].userName)
    BY <1>1, <1>3 DEF KnewInv, SameName
  <2>1. CASE j = n + 1
    <3>1. knew'[j] = looked[c] /\ looked[c] <= n /\ users'[j] = input[c]
      BY <1>0, <1>1, <1>3, <1>4, <2>1 DEF LookedInv
    <3>2. ASSUME NEW k \in 1 .. n + 1, k <= looked[c], k \notin renamed
          PROVE  ~SameName(users'[k].userName, input[c].userName)
      <4>1. k \in 1 .. looked[c] /\ k \in 1 .. n
        BY <1>2, <3>1, <3>2
      <4> QED
        BY <1>0, <1>1, <1>3, <3>2, <4>1 DEF LookedInv
    <3> QED
      BY <1>2, <2>1, <3>1, <3>2
  <2>2. CASE j # n + 1
    <3>1. j \in 1 .. n /\ knew'[j] = knew[j] /\ knew[j] < j /\ knew[j] \in Nat
      BY <1>0, <1>2, <1>4, <2>2, RowTypes DEF KnewInv
    <3>2. ASSUME NEW k \in 1 .. n + 1, k <= knew[j], {k, j} \cap renamed = {}
          PROVE  ~SameName(users'[k].userName, users'[j].userName)
      <4>1. k \in 1 .. n
        BY <1>2, <3>1, <3>2
      <4> QED
        BY <1>0, <1>2, <1>3, <3>1, <3>2, <4>1 DEF KnewInv
    <3> QED
      BY <3>1, <3>2
  <2> QED
    BY <2>1, <2>2
<1>10. WalkInv'
  BY <1>0, <1>1, <1>2, <1>3 DEF WalkInv, WalkRecord, WalkMissesNobody
<1> QED
  BY <1>7, <1>8, <1>9, <1>10

----------------------------------------------------------------------------
(* Steps of a walk                                                          *)

LEMMA PageSizeIsNat ==
    ASSUME NEW search \in Searches
    PROVE  PageSize(search.count) \in Nat
  BY ScimConstants, SearchesAssumption DEF PageSize, ToInt, AtMost, AtLeast

LEMMA WalkBeginKeeps ==
    ASSUME IInv, WalkBegin
    PROVE  WalkInv'
<1>1. PICK search \in Searches :
         walk' = [filter |-> search.filter, count |-> search.count, next |-> 1,
                  met |-> {}, there |-> DOMAIN users, over |-> FALSE]
  BY DEF WalkBegin
<1>2. /\ walk'.filter = search.filter /\ walk'.count = search.count /\ walk'.next = 1
      /\ walk'.met = {} /\ walk'.there = DOMAIN users /\ walk'.over = FALSE
      /\ users' = users
  BY <1>1 DEF WalkBegin
<1>3. PageSize(walk'.count) \in Nat
  BY <1>2, PageSizeIsNat
<1>4. WalkRecord'
  BY <1>1, <1>2 DEF WalkRecord
<1> QED
  BY <1>2, <1>3, <1>4 DEF WalkInv, WalkMissesNobody

\* A page without a filter is the next rows, as many as there are up to the page size.
LEMMA PageIsNext ==
    ASSUME RowsInv, NEW count, PageSize(count) \in Nat, NEW next \in Nat \ {0},
           NEW query,
           query = [filter |-> Missing, count |-> count,
                    startIndex |-> [is |-> "number", whole |-> TRUE, n |-> next]]
    PROVE  LET last == AtMost(next + PageSize(count) - 1, Len(users))
           IN  /\ Len(Page(query)) = IF next <= last THEN last - next + 1 ELSE 0
               /\ ToSet(Page(query)) = next .. last
               /\ Len(Selected(query)) = Len(users)
<1> DEFINE last == AtMost(next + PageSize(count) - 1, Len(users))
           everyone == [i \in DOMAIN users |-> i]
<1>1. Len(users) \in Nat /\ DOMAIN users = 1 .. Len(users) /\ last \in Int
  BY RowTypes DEF AtMost
<1>2. Selected(query) = everyone
  BY DEF Selected
<1>3. everyone \in Seq(Nat) /\ Len(everyone) = Len(users)
  BY <1>1
<1>4. ParsePagination(query).startIndex = next /\ ParsePagination(query).count = PageSize(count)
  BY DEF ParsePagination, ToInt, AtLeast
<1>5. Page(query) = SubSeq(everyone, next, last)
  BY <1>2, <1>3, <1>4 DEF Page, Paginate
<1>6. \A i \in next .. last : everyone[i] = i /\ i \in Nat
  BY <1>1 DEF AtMost
<1> HIDE DEF everyone, last
<1>7. /\ SubSeq(everyone, next, last) \in Seq(Nat)
      /\ Len(SubSeq(everyone, next, last)) = IF next <= last THEN last - next + 1 ELSE 0
      /\ \A i \in 1 .. last - next + 1 : SubSeq(everyone, next, last)[i] = everyone[next + i - 1]
  BY <1>1, <1>6, SubSeqProperties, SMTT(30)
<1> DEFINE page == SubSeq(everyone, next, last)
<1>8. DOMAIN page = 1 .. last - next + 1
  <2>1. DOMAIN page = 1 .. Len(page)
    BY <1>7, LenProperties
  <2> QED
    BY <1>1, <1>7, <2>1
<1>9. \A i \in 1 .. last - next + 1 : page[i] = next + i - 1
  BY <1>1, <1>6, <1>7
<1> HIDE DEF page
<1>10. ToSet(page) = next .. last
  <2>1. ToSet(page) \subseteq next .. last
    BY <1>1, <1>8, <1>9 DEF ToSet
  <2>2. ASSUME NEW k \in next .. last
        PROVE  k \in ToSet(page)
    <3>1. k - next + 1 \in 1 .. last - next + 1 /\ page[k - next + 1] = k
      BY <1>1, <1>9
    <3> QED
      BY <1>8, <3>1 DEF ToSet
  <2> QED
    BY <2>1, <2>2
<1> QED
  BY <1>2, <1>3, <1>5, <1>7, <1>10 DEF page, last

LEMMA WalkPageKeeps ==
    ASSUME IInv, WalkPage
    PROVE  WalkInv'
<1>0. RowsInv /\ WalkInv /\ walk # NoWalk /\ WalkRecord /\ users' = users
  BY DEF IInv, WalkPage, WalkInv
<1> DEFINE query == [filter |-> walk.filter, count |-> walk.count,
                     startIndex |-> [is |-> "number", whole |-> TRUE, n |-> walk.next]]
           page == Page(query)
           next == walk.next + Len(page)
           over == page = <<>> \/ next > Len(Selected(query))
<1>1. walk' = [walk EXCEPT !.next = next, !.met = @ \cup ToSet(page), !.over = over]
  BY DEF WalkPage
<1> HIDE DEF page, over
<1>2. /\ walk'.filter = walk.filter /\ walk'.count = walk.count /\ walk'.there = walk.there
      /\ walk'.next = next /\ walk'.met = walk.met \cup ToSet(page) /\ walk'.over = over
      /\ WalkRecord'
  BY <1>0, <1>1 DEF WalkRecord
<1>3. PageSize(walk'.count) \in Nat /\ walk'.there \subseteq DOMAIN users'
  BY <1>0, <1>2 DEF WalkInv
<1>4. CASE walk.filter # Missing
  BY <1>2, <1>3, <1>4 DEF WalkInv, WalkMissesNobody
<1>5. CASE walk.filter = Missing
  <2> DEFINE last == AtMost(walk.next + PageSize(walk.count) - 1, Len(users))
  <2>1. walk.next \in Nat \ {0} /\ 1 .. walk.next - 1 \subseteq walk.met
    BY <1>0, <1>5 DEF WalkInv
  <2>2. PageSize(walk.count) \in Nat /\ Len(users) \in Nat /\ DOMAIN users = 1 .. Len(users)
    BY <1>0, RowTypes DEF WalkInv
  <2>3. /\ Len(page) = IF walk.next <= last THEN last - walk.next + 1 ELSE 0
        /\ ToSet(page) = walk.next .. last
        /\ Len(Selected(query)) = Len(users)
    BY <1>0, <1>5, <2>1, <2>2, PageIsNext DEF page
  <2>4. last \in Int
    BY <2>1, <2>2 DEF AtMost
  <2>5. next \in Nat \ {0} /\ 1 .. next - 1 \subseteq walk.met \cup ToSet(page)
    BY <2>1, <2>3, <2>4
  <2>6. ASSUME over, PageSize(walk.count) > 0
        PROVE  1 .. Len(users) \subseteq walk.met \cup ToSet(page)
    <3>1. Len(page) = 0 \/ next > Len(users)
      BY <2>3, <2>6 DEF over
    <3>2. Len(page) = 0 => Len(users) < walk.next
      BY <2>1, <2>2, <2>3, <2>6 DEF AtMost
    <3> QED
      BY <2>1, <2>2, <2>5, <3>1, <3>2
  <2>7. WalkMissesNobody'
    BY <1>0, <1>2, <1>3, <2>2, <2>6 DEF WalkMissesNobody
  <2> QED
    BY <1>2, <1>3, <2>5, <2>7 DEF WalkInv
<1> QED
  BY <1>4, <1>5

----------------------------------------------------------------------------
(* Steps on groups                                                          *)

\* What a body of a group is read as, where it has a name.
LEMMA InputIsGroup ==
    ASSUME NEW body \in GroupBodies, GroupInput(Body(body)).displayName # Null
    PROVE  GroupInput(Body(body)) \in GroupRows
<1> DEFINE v == Body(body)
<1>1. v \in Bodies
  BY JsonAssumption, BodyIsBody
<1>2. GroupInput(v).displayName = TextAt(v, "displayName")
  BY DEF GroupInput
<1> HIDE DEF v
<1>3. TextAt(v, "displayName") \in FilledTexts
  BY <1>1, <1>2, TextAtIsFilling DEF Filling, v
<1>4. TextAt(v, "externalId") \in Filling
  BY <1>1, TextAtIsFilling
<1>5. ValuesOf(Get(v, "members")) \in Members
  BY <1>1, GetIsValue, ValuesAreMembers
<1> QED
  BY <1>3, <1>4, <1>5 DEF GroupInput, GroupRows, v

LEMMA GroupTypes ==
    ASSUME GroupsInv
    PROVE  /\ DOMAIN groups = 1 .. Len(groups)
           /\ \A g \in DOMAIN groups : groups[g] \in GroupRows \cup {NoGroup}
  BY LenProperties, ElementOfSeq DEF GroupsInv

LEMMA WriteGroupKeeps ==
    ASSUME GroupsInv, NEW g \in DOMAIN groups, NEW row \in GroupRows \cup {NoGroup},
           groups' = [groups EXCEPT ![g] = row]
    PROVE  GroupsInv'
<1>1. g \in 1 .. Len(groups)
  BY GroupTypes
<1> QED
  BY <1>1, ExceptSeq DEF GroupsInv

LEMMA GroupStepKeeps ==
    ASSUME GroupsInv, [Next]_vars
    PROVE  GroupsInv'
<1>1. CASE PostGroup
  <2>1. PICK body \in GroupBodies :
           /\ GroupInput(Body(body)).displayName # Null
           /\ groups' = Append(groups, GroupInput(Body(body)))
    BY <1>1 DEF PostGroup, WriteGroups
  <2>2. GroupInput(Body(body)) \in GroupRows \cup {NoGroup}
    BY <2>1, InputIsGroup
  <2> QED
    BY <2>1, <2>2, AppendProperties DEF GroupsInv
<1>2. ASSUME NEW g \in DOMAIN groups, NEW body \in GroupBodies, PutGroup(g, body)
      PROVE  GroupsInv'
  BY <1>2, InputIsGroup, WriteGroupKeeps DEF PutGroup, WriteGroups
<1>3. ASSUME NEW g \in DOMAIN groups, NEW body \in GroupPatches, PatchGroup(g, body)
      PROVE  GroupsInv'
  <2> DEFINE row == [groups[g] EXCEPT !.members = MembersAfter(@, body)]
  <2>1. groups' = [groups EXCEPT ![g] = row] /\ groups[g] \in GroupRows
    BY <1>3, GroupTypes DEF PatchGroup, WriteGroups, Present
  <2>2. MembersAfter(groups[g].members, body) \in Members
    BY <2>1, JsonAssumption, MembersStayMembers DEF GroupRows
  <2>3. row \in GroupRows
    BY <2>1, <2>2 DEF GroupRows
  <2> HIDE DEF row
  <2> QED
    BY <2>1, <2>3, WriteGroupKeeps
<1>4. ASSUME NEW g \in DOMAIN groups, DeleteGroup(g)
      PROVE  GroupsInv'
  BY <1>4, WriteGroupKeeps DEF DeleteGroup, WriteGroups
<1>5. CASE OnUsers \/ Walking \/ UNCHANGED vars
  <2>1. UNCHANGED groups
    BY <1>5 DEF OnUsers, Post, PostFind, PostCreate, Fail, Settle, Put, Patch, Delete, Write,
                Walking, WalkBegin, WalkPage, vars
  <2> QED
    BY <2>1 DEF GroupsInv
<1> QED
  BY <1>1, <1>2, <1>3, <1>4, <1>5 DEF Next, OnGroups

----------------------------------------------------------------------------
(* The theorems                                                             *)

LEMMA InitEstablishes == Init => IInv
<1> SUFFICES ASSUME Init
             PROVE  IInv
  OBVIOUS
<1>1. RowsInv
  BY DEF Init, RowsInv
<1>2. LookedInv /\ KnewInv /\ WalkInv
  BY DEF Init, LookedInv, KnewInv, WalkInv
<1> QED
  BY <1>1, <1>2 DEF IInv

LEMMA StepKeeps ==
    ASSUME IInv, [Next]_vars
    PROVE  IInv'
<1>1. CASE UNCHANGED <<users, pc, input, walk, looked, knew, renamed>>
  BY <1>1 DEF IInv, RowsInv, LookedInv, KnewInv, WalkInv, WalkRecord, WalkMissesNobody, SameName
<1>2. CASE OnUsers
  <2>1. ASSUME NEW c \in Calls, Fail(c)
        PROVE  IInv'
    BY <2>1, SettleKeeps DEF Fail, IInv
  <2>2. ASSUME NEW c \in Calls, Post(c) \/ PostFind(c) \/ PostCreate(c)
        PROVE  IInv'
    BY <2>2, PostKeeps, PostFindKeeps, PostCreateKeeps DEF IInv
  <2>3. ASSUME NEW i \in DOMAIN users,
               \/ \E body \in UserBodies : Put(i, body)
               \/ \E body \in UserPatches : Patch(i, body)
               \/ Delete(i)
        PROVE  IInv'
    BY <2>3, WriteKeeps DEF IInv
  <2> QED
    BY <1>2, <2>1, <2>2, <2>3 DEF OnUsers
<1>3. CASE OnGroups
  <2>1. UNCHANGED <<users, pc, input, walk, looked, knew, renamed>>
    BY <1>3 DEF OnGroups, PostGroup, PutGroup, PatchGroup, DeleteGroup, WriteGroups
  <2> QED
    BY <1>1, <2>1
<1>4. CASE Walking
  <2>1. WalkInv'
    BY <1>4, WalkBeginKeeps, WalkPageKeeps DEF Walking
  <2>2. UNCHANGED <<users, pc, input, looked, knew, renamed>>
    BY <1>4 DEF Walking, WalkBegin, WalkPage
  <2> QED
    BY <2>1, <2>2 DEF IInv, RowsInv, LookedInv, KnewInv, SameName
<1>5. CASE UNCHANGED vars
  BY <1>1, <1>5 DEF vars
<1> QED
  BY <1>2, <1>3, <1>4, <1>5 DEF Next

\* The invariant behind the theorems below.
THEOREM Invariance == Spec => []IInv
  BY InitEstablishes, StepKeeps, PTL DEF Spec

\* Two users of one email come from two POSTs that overlapped, or from a PUT.
THEOREM DuplicatesComeFromOverlap == Spec => []DuplicatesOverlap
<1>1. IInv => DuplicatesOverlap
  <2> SUFFICES ASSUME IInv, NEW i \in DOMAIN users, NEW j \in DOMAIN users, i < j,
                      SameName(users[i].userName, users[j].userName), {i, j} \cap renamed = {}
               PROVE  knew[j] < i
    BY DEF DuplicatesOverlap
  <2>1. ~(i <= knew[j])
    BY DEF IInv, KnewInv
  <2>2. i \in Nat /\ knew[j] \in Nat
    BY RowTypes DEF IInv
  <2> QED
    BY <2>1, <2>2
<1> QED
  BY <1>1, Invariance, PTL

\* A walk through the pages, whatever their size and whatever is written meanwhile,
\* meets everyone who was there when it began.
THEOREM WalkIsComplete == Spec => []WalkMissesNobody
<1>1. IInv => WalkMissesNobody
  BY DEF IInv, WalkInv, WalkMissesNobody
<1> QED
  BY <1>1, Invariance, PTL

\* What is known of the groups, whatever is done to them.
THEOREM GroupsInvariance == Spec => []GroupsInv
<1>1. Init => GroupsInv
  BY EmptySeq DEF Init, GroupsInv
<1>2. GroupsInv /\ [Next]_vars => GroupsInv'
  BY GroupStepKeeps
<1> QED
  BY <1>1, <1>2, PTL DEF Spec

\* Whatever sequence of requests made a row, what is sent back of a group passes the
\* project's own schema, and what is sent back of a user fails it in nothing but an
\* empty or blank displayName.
THEOREM OnlyBlankNamesFail == Spec => []OnlyBlankNamesOffSchema
<1>1. RowsInv /\ GroupsInv => OnlyBlankNamesOffSchema
  <2> SUFFICES ASSUME RowsInv, GroupsInv
               PROVE  OnlyBlankNamesOffSchema
    OBVIOUS
  <2>1. ASSUME NEW row \in ToSet(users)
        PROVE  \/ UserErrors(ToScimUser(row)) = {}
               \/ /\ UserErrors(ToScimUser(row)) = {"displayName"}
                  /\ IsText(row.displayName) /\ Trim(row.displayName.word) = <<>>
    <3>1. row \in Rows
      BY RowTypes DEF ToSet
    <3> QED
      BY <3>1, UserRenders
  <2>2. ASSUME NEW g \in DOMAIN groups, Present(g)
        PROVE  GroupErrors(ToScimGroup(groups[g])) = {}
    <3>1. groups[g] \in GroupRows
      BY <2>2, GroupTypes DEF Present
    <3> QED
      BY <3>1, GroupRenders
  <2> QED
    BY <2>1, <2>2 DEF OnlyBlankNamesOffSchema
<1> QED
  BY <1>1, Invariance, GroupsInvariance, PTL DEF IInv

\* A PATCH of members, however long, leaves in the group whom its last operation on
\* them puts there.
THEOREM MembersFollowLastWord == Spec => []MembersAreLastWord
<1>1. GroupsInv => MembersAreLastWord
  <2> SUFFICES ASSUME GroupsInv, NEW g \in DOMAIN groups, NEW body \in GroupPatches, Present(g),
                      \A n \in DOMAIN Operations(Body(body)) : OnMembers(Operations(Body(body))[n]),
                      NEW m
               PROVE  LET ops == Operations(Body(body))
                          speaking == {n \in DOMAIN ops : SaysOf(ops[n], m) # "silent"}
                      IN  m \in MembersAfter(groups[g].members, body) <=>
                            IF speaking = {} THEN m \in groups[g].members
                            ELSE SaysOf(ops[CHOOSE n \in speaking : \A k \in speaking : k <= n], m)
                                   = "in"
    BY DEF MembersAreLastWord
  <2>1. groups[g].members \in Members
    BY GroupTypes DEF Present, GroupRows
  <2>2. body \in Json
    BY JsonAssumption
  <2> QED
    BY <2>1, <2>2, LastWordOnMember
<1> QED
  BY <1>1, GroupsInvariance, PTL

\* A user never leaves the directory, and one who was deactivated comes back only by a
\* PATCH whose last word on active is true, or by a PUT that does not say otherwise.
THEOREM DeactivatedStayOut == Spec => DeprovisionedStays
<1>1. ASSUME IInv, [Next]_vars
      PROVE  [\A i \in DOMAIN users :
                /\ i \in DOMAIN users'
                /\ ~users[i].active /\ users'[i].active =>
                      \/ \E body \in UserPatches : Patch(i, body) /\ Affirms(LastSaid(body))
                      \/ \E body \in UserBodies :
                            /\ Put(i, body)
                            /\ \/ Get(Body(body), "active") = Missing
                               \/ Affirms(Get(Body(body), "active"))]_vars
  <2> DEFINE Backed(i) ==
               \/ \E body \in UserPatches : Patch(i, body) /\ Affirms(LastSaid(body))
               \/ \E body \in UserBodies :
                     /\ Put(i, body)
                     /\ \/ Get(Body(body), "active") = Missing
                        \/ Affirms(Get(Body(body), "active"))
             Stays == \A i \in DOMAIN users :
                        i \in DOMAIN users' /\ (~users[i].active /\ users'[i].active => Backed(i))
  <2>0. RowsInv
    BY <1>1 DEF IInv
  <2>1. ASSUME UNCHANGED users
        PROVE  Stays
    BY <2>1
  <2>2. ASSUME NEW c \in Calls, PostCreate(c)
        PROVE  Stays
    <3>1. users' = Append(users, input[c]) /\ input[c] \in Rows
      BY <2>0, <2>2 DEF PostCreate, RowsInv
    <3>2. /\ Len(users) \in Nat /\ DOMAIN users = 1 .. Len(users)
          /\ DOMAIN users' = 1 .. Len(users) + 1
          /\ \A i \in DOMAIN users : users'[i] = users[i]
      BY <2>0, <3>1, RowTypes, AppendProperties, LenProperties DEF RowsInv
    <3> HIDE DEF Backed
    <3> QED
      BY <3>2
  <2>3. ASSUME NEW k \in DOMAIN users, NEW row, Write(k, row), row.active => Backed(k) \/ users[k].active
        PROVE  Stays
    <3>1. users' = [users EXCEPT ![k] = row]
      BY <2>3 DEF Write
    <3> HIDE DEF Backed
    <3> QED
      BY <2>3, <3>1
  <2>4. ASSUME NEW k \in DOMAIN users, NEW body \in UserBodies, Put(k, body)
        PROVE  Stays
    <3> DEFINE row == UserInput(Body(body))
    <3>1. row.active = ActiveOf(Body(body)) /\ Write(k, row)
      BY <2>4 DEF UserInput, Put
    <3>2. ActiveOf(Body(body)) => \/ Get(Body(body), "active") = Missing
                                  \/ Affirms(Get(Body(body), "active"))
      BY DEF ActiveOf, CoerceBool, Affirms
    <3>3. row.active => Backed(k)
      BY <2>4, <3>1, <3>2
    <3> HIDE DEF row, Backed, Stays
    <3> QED
      BY <2>3, <3>1, <3>3
  <2>5. ASSUME NEW k \in DOMAIN users, NEW body \in UserPatches, Patch(k, body)
        PROVE  Stays
    <3> DEFINE patch == ParseUserPatch(Body(body))
               row == Patched(users[k], patch)
    <3>1. Write(k, row)
      BY <2>5 DEF Patch
    <3>2. patch \in Patches /\ users[k] \in Rows
      BY <2>0, ParsedIsPatch, RowTypes
    <3> HIDE DEF patch
    <3>3. row.active = IF patch.active = Missing THEN users[k].active ELSE patch.active.on
      BY <3>2 DEF Patched, Rows
    <3>4. patch.active \in {Missing, Flag(TRUE), Flag(FALSE)} /\ Flag(FALSE).on = FALSE
      BY <3>2 DEF Patches, Switched, Flag
    <3>5. row.active => users[k].active \/ patch.active = Flag(TRUE)
      BY <3>3, <3>4
    <3>6. row.active => Backed(k) \/ users[k].active
      BY <2>5, <3>5, PatchedOnAffirms DEF patch
    <3> HIDE DEF row, Backed, Stays
    <3> QED
      BY <2>3, <3>1, <3>6
  <2>6. ASSUME NEW k \in DOMAIN users, Delete(k)
        PROVE  Stays
    <3> DEFINE row == [users[k] EXCEPT !.active = FALSE]
    <3>1. Write(k, row)
      BY <2>6 DEF Delete
    <3>2. ~row.active
      BY <2>0, RowTypes DEF Rows
    <3> HIDE DEF row, Backed, Stays
    <3> QED
      BY <2>3, <3>1, <3>2
  <2>7. ASSUME OnGroups \/ Walking \/ UNCHANGED vars
        PROVE  Stays
    <3>1. UNCHANGED users
      BY <2>7 DEF OnGroups, PostGroup, PutGroup, PatchGroup, DeleteGroup, WriteGroups,
                  Walking, WalkBegin, WalkPage, vars
    <3> QED
      BY <2>1, <3>1
  <2>8. ASSUME NEW c \in Calls, Post(c) \/ PostFind(c) \/ Fail(c)
        PROVE  Stays
    <3>1. UNCHANGED users
      BY <2>8 DEF Post, PostFind, Fail
    <3> QED
      BY <2>1, <3>1
  <2> HIDE DEF Stays
  <2>9. Stays
    BY <1>1, <2>2, <2>4, <2>5, <2>6, <2>7, <2>8 DEF Next, OnUsers
  <2> QED
    BY <2>9 DEF Stays
<1> QED
  BY <1>1, Invariance, PTL DEF Spec, DeprovisionedStays
=================================================================================
