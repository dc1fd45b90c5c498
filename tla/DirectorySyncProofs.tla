-------------------------- MODULE DirectorySyncProofs --------------------------
(* What an app keeps of a person is theirs, and so are the roles it gives.    *)
(*                                                                            *)
(* A payload is read text by text: each section below reads one more layer,   *)
(* up to Shows(rich, p, source), that a projection has what the directory     *)
(* says of p, as a provider of that kind does.                               *)
(* There is one lemma of that kind for each of the seven providers.  Keeps    *)
(* says the same of the row made of it, RolesAreDeserved what the loop over   *)
(* the sorted rules ends with, and KeptInv puts them together for the steps.  *)
(*                                                                            *)
(* The first section is apart from the rest: the client of a pull.            *)
EXTENDS DirectorySync, DataLemmas, TLAPS

----------------------------------------------------------------------------
(* The client of a pull                                                     *)

\* There is a client while fetchEntries or checkConnection awaits one, and only then:
\* once the call has answered, or thrown, it is unbound.
ClientOnlyInCall ==
    /\ pull.at \in {"idle", "bind", "search", "unbind", "store"}
    /\ open <=> pull.at \in {"bind", "search", "unbind"}

\* The pull keeps its shape.
PullRecord ==
    pull = [call |-> pull.call, at |-> pull.at, found |-> pull.found, answer |-> pull.answer]

IInv == PullRecord /\ ClientOnlyInCall

LEMMA StepKeeps ==
    ASSUME IInv, [Next]_vars
    PROVE  IInv'
<1> USE DEF IInv, PullRecord, ClientOnlyInCall
<1>1. CASE UNCHANGED <<pull, open>>
  BY <1>1
<1>2. ASSUME NEW call \in {"fetch", "check"}, PullStart(call)
      PROVE  IInv'
  BY <1>2 DEF PullStart, NoPull
<1>3. CASE Binds
  BY <1>3 DEF Binds
<1>4. CASE BindFails
  BY <1>4 DEF BindFails
<1>5. CASE Searches
  <2>1. PICK cut : /\ pull' = [pull EXCEPT !.at = "unbind", !.answer = "entries", !.found = cut]
                   /\ pull.at = "search" /\ UNCHANGED open
    BY <1>5 DEF Searches
  <2> QED
    BY <2>1
<1>6. CASE SearchFails
  BY <1>6 DEF SearchFails
<1>7. CASE Unbinds
  BY <1>7 DEF Unbinds
<1>8. CASE Stores
  <2> DEFINE rest == Tail(pull.found)
             at == IF Len(pull.found) = 1 THEN "idle" ELSE "store"
  <2>1. pull' = [pull EXCEPT !.found = rest, !.at = at] /\ pull.at = "store" /\ UNCHANGED open
    BY <1>8 DEF Stores
  <2>2. at \in {"idle", "store"}
    OBVIOUS
  <2> HIDE DEF rest, at
  <2> QED
    BY <2>1, <2>2
<1>9. CASE \/ \E p \in People : Edit(p)
           \/ \E source \in Sources : Receive(source)
           \/ \E groups \in GroupSets : ChangeGroups(groups)
           \/ \E rs \in RuleSets : ChangeRules(rs)
  BY <1>1, <1>9 DEF Edit, Receive, ChangeGroups, ChangeRules
<1>10. CASE UNCHANGED vars
  BY <1>1, <1>10 DEF vars
<1> QED
  BY <1>2, <1>3, <1>4, <1>5, <1>6, <1>7, <1>8, <1>9, <1>10 DEF Next, Awaited

\* Whatever fails on the way, no client is left open once its call is over.
THEOREM ClientReleased == Spec => []ClientOnlyInCall
<1>1. Init => IInv
  BY DEF Init, NoPull, IInv, PullRecord, ClientOnlyInCall
<1>2. IInv => ClientOnlyInCall
  BY DEF IInv
<1> QED
  BY <1>1, <1>2, StepKeeps, PTL DEF Spec

----------------------------------------------------------------------------
(* Texts                                                                    *)

\* A text, or nothing.
NameOrNone(v) == v = Missing \/ IsName(v)

\* The first and the last of some positions of a sequence.
LEMMA EndsOf ==
    ASSUME NEW n \in Nat, NEW kept, kept \subseteq 1 .. n, NEW a \in kept, NEW b \in kept,
           \A i \in kept : a <= i /\ i <= b
    PROVE  /\ (CHOOSE i \in kept : \A j \in kept : i <= j) = a
           /\ (CHOOSE i \in kept : \A j \in kept : j <= i) = b
<1> DEFINE least == CHOOSE i \in kept : \A j \in kept : i <= j
           greatest == CHOOSE i \in kept : \A j \in kept : j <= i
<1>1. least \in kept /\ \A y \in kept : least <= y
  BY LeastOf
<1>2. greatest \in kept /\ \A y \in kept : y <= greatest
  BY GreatestOf
<1> HIDE DEF least, greatest
<1>3. least = a /\ greatest = b
  BY <1>1, <1>2
<1> QED
  BY <1>3 DEF least, greatest

\* What is trimmed away is before the first and after the last syllable that is no blank.
LEMMA TrimIs ==
    ASSUME NEW T, NEW w \in Seq(T), NEW a \in 1 .. Len(w), NEW b \in 1 .. Len(w),
           w[a] # " ", w[b] # " ",
           \A i \in 1 .. Len(w) : w[i] # " " => a <= i /\ i <= b
    PROVE  Trim(w) = SubSeq(w, a, b)
<1> DEFINE kept == {i \in DOMAIN w : w[i] # " "}
           least == CHOOSE i \in kept : \A j \in kept : i <= j
           greatest == CHOOSE i \in kept : \A j \in kept : j <= i
<1>1. Len(w) \in Nat /\ DOMAIN w = 1 .. Len(w)
  BY LenProperties
<1>2. kept \subseteq 1 .. Len(w) /\ a \in kept /\ b \in kept /\ \A i \in kept : a <= i /\ i <= b
  BY <1>1
<1>3. Trim(w) = IF kept = {} THEN <<>> ELSE SubSeq(w, least, greatest)
  BY DEF Trim
<1> HIDE DEF kept
<1>4. least = a /\ greatest = b
  BY <1>1, <1>2, EndsOf
<1> HIDE DEF least, greatest
<1> QED
  BY <1>2, <1>3, <1>4

\* A name has nothing to trim.
LEMMA NameIsTrim ==
    ASSUME NEW v, IsName(v)
    PROVE  /\ IsText(v) /\ v = Text(v.word) /\ Trim(v.word) = v.word /\ v.word # <<>>
           /\ Filled(v) /\ Str(v) = v /\ v # Missing /\ v # Null
           /\ Len(v.word) \in Nat \ {0} /\ DOMAIN v.word = 1 .. Len(v.word)
<1> DEFINE w == v.word
<1>0. IsText(v) /\ v # Missing /\ v # Null
  <2>1. IsText(v) /\ v.is = "text"
    BY DEF IsName, IsText
  <2>2. Missing.is = "missing" /\ Null.is = "null"
    BY DEF Missing, Null
  <2> QED
    BY <2>1, <2>2
<1>1. /\ w \in Seq(STRING) /\ w # <<>> /\ w[1] # " " /\ w[Len(w)] # " " /\ IsText(v) /\ v = Text(w)
      /\ v # Missing /\ v # Null
  BY <1>0 DEF IsName
<1> HIDE DEF w
<1>2. Len(w) \in Nat \ {0} /\ DOMAIN w = 1 .. Len(w)
  BY <1>1, EmptySeq, LenProperties
<1>3. 1 \in 1 .. Len(w) /\ Len(w) \in 1 .. Len(w) /\ \A i \in 1 .. Len(w) : 1 <= i /\ i <= Len(w)
  BY <1>2
<1>4. Trim(w) = SubSeq(w, 1, Len(w))
  BY <1>1, <1>3, TrimIs
<1>5. Trim(w) = w
  BY <1>1, <1>4, SubSeqFull
<1> QED
  BY <1>1, <1>2, <1>5 DEF Filled, Str, TrimmedOr, w

\* A name is a text, and what is missing is none.
LEMMA NameIsText ==
    ASSUME NEW v, NameOrNone(v)
    PROVE  v # Missing <=> IsText(v)
<1>1. ~IsText(Missing)
  BY DEF IsText, Missing
<1>2. IsName(v) => IsText(v) /\ v # Missing
  BY NameIsTrim
<1> QED
  BY <1>1, <1>2 DEF NameOrNone

\* What is no text, or blank, says nothing.
LEMMA SaysNothing ==
    /\ Str(Missing) = Missing /\ Str(Null) = Missing /\ Str(Text(<<" ">>)) = Missing
    /\ ~Filled(Missing) /\ ~Filled(Null) /\ ~Filled(Text(<<" ">>))
<1>1. ~Filled(Missing) /\ ~Filled(Null)
  BY DEF Filled, IsText, Missing, Null
<1>2. Trim(<<" ">>) = <<>>
  <2>1. \A i \in DOMAIN <<" ">> : <<" ">>[i] = " "
    BY OneIsSeq
  <2> QED
    BY <2>1 DEF Trim
<1>3. ~Filled(Text(<<" ">>))
  BY <1>2 DEF Filled, Text
<1> QED
  BY <1>1, <1>3 DEF Str, TrimmedOr

\* A value that may not be there is read as itself.
LEMMA SaysOrNot ==
    ASSUME NEW v
    PROVE  /\ Filled(v) <=> Str(v) # Missing
           /\ IsText(Str(v)) <=> Str(v) # Missing
  BY DEF Str, TrimmedOr, Missing, Text, IsText

\* A name with blanks around it.
LEMMA PaddedIsTrimmed ==
    ASSUME NEW v, NameOrNone(v)
    PROVE  Str(v) = v /\ Str(Padded(v)) = v /\ Str(OrNull(v)) = v
<1>1. CASE v = Missing
  BY <1>1, SaysNothing DEF Padded, OrNull, IsText, Missing
<1>2. CASE IsName(v)
  <2> DEFINE w == v.word
             n == Len(w)
             x == <<" ">> \o w \o <<" ">>
  <2>1. /\ w \in Seq(STRING) /\ w # <<>> /\ w[1] # " " /\ w[n] # " " /\ IsText(v) /\ v = Text(w)
        /\ Str(v) = v /\ v # Missing
    BY <1>2, NameIsTrim DEF IsName
  <2>2. n \in Nat \ {0} /\ DOMAIN w = 1 .. n /\ w \in [1 .. n -> STRING]
    BY <2>1, EmptySeq, LenProperties
  <2>0. n \in Nat /\ n # 0
    BY <2>2
  <2>3. <<" ">> \in Seq(STRING) /\ Len(<<" ">>) = 1 /\ <<" ">>[1] = " "
    BY OneIsSeq, LiteralsAreStrings
  <2> HIDE DEF w, n
  <2> DEFINE y == <<" ">> \o w
  <2>4. /\ y \in Seq(STRING) /\ Len(y) = n + 1
        /\ \A i \in 1 .. n + 1 : y[i] = IF i = 1 THEN " " ELSE w[i - 1]
    <3>1. y \in Seq(STRING) /\ Len(y) = 1 + Len(w)
      BY <2>1, <2>3, ConcatProperties
    <3>2. \A i \in 1 .. 1 + Len(w) : y[i] = IF i <= 1 THEN <<" ">>[i] ELSE w[i - 1]
      BY <2>1, <2>3, ConcatProperties, ZenonT(60)
    <3> HIDE DEF y
    <3>3. \A i \in 1 .. n + 1 : i <= 1 <=> i = 1
      BY <2>2
    <3>4. Len(w) = n /\ 1 + n = n + 1
      BY <2>2 DEF n
    <3> QED
      BY <2>3, <3>1, <3>2, <3>3, <3>4
  <2> HIDE DEF y
  <2>5. /\ x = y \o <<" ">> /\ x \in Seq(STRING) /\ Len(x) = n + 2
        /\ \A i \in 1 .. n + 2 : x[i] = IF i <= n + 1 THEN y[i] ELSE <<" ">>[i - (n + 1)]
    <3>1. x = y \o <<" ">>
      BY DEF y
    <3>2. /\ y \o <<" ">> \in Seq(STRING) /\ Len(y \o <<" ">>) = Len(y) + Len(<<" ">>)
          /\ \A i \in 1 .. Len(y) + Len(<<" ">>) :
                (y \o <<" ">>)[i] = IF i <= Len(y) THEN y[i] ELSE <<" ">>[i - Len(y)]
      BY <2>3, <2>4, ConcatProperties
    <3>4. Len(y) = n + 1
      BY <2>4
    <3>3. Len(y) + Len(<<" ">>) = n + 2
      <4>1. Len(<<" ">>) = 1
        BY <2>3
      <4>2. (n + 1) + 1 = n + 2
        BY <2>0
      <4> QED
        BY <3>4, <4>1, <4>2
    <3> QED
      BY <3>1, <3>2, <3>3, <3>4
  <2> HIDE DEF x
  <2>6. \A i \in 1 .. n : i + 1 \in 1 .. n + 1 /\ i + 1 \in 1 .. n + 2 /\ i + 1 <= n + 1 /\ i + 1 # 1 /\ (i + 1) - 1 = i
    BY <2>2
  <2>7. \A i \in 1 .. n : x[i + 1] = w[i]
    <3>1. ASSUME NEW i \in 1 .. n
          PROVE  x[i + 1] = w[i]
      <4>1. x[i + 1] = y[i + 1]
        BY <2>5, <2>6
      <4>2. y[i + 1] = w[(i + 1) - 1]
        BY <2>4, <2>6
      <4> QED
        BY <2>6, <4>1, <4>2
    <3> QED
      BY <3>1
  <2>8. x[1] = " " /\ x[n + 2] = " "
    <3>1. /\ 1 \in 1 .. n + 2 /\ 1 \in 1 .. n + 1 /\ 1 <= n + 1 /\ n + 2 \in 1 .. n + 2
          /\ ~(n + 2 <= n + 1) /\ (n + 2) - (n + 1) = 1
      BY <2>2
    <3> QED
      BY <2>3, <2>4, <2>5, <3>1
  <2>9. Trim(x) = SubSeq(x, 2, n + 1)
    <3>0. Len(x) = n + 2
      BY <2>5
    <3>1. 2 \in 1 .. Len(x) /\ n + 1 \in 1 .. Len(x) /\ 1 + 1 = 2 /\ 1 \in 1 .. n /\ n \in 1 .. n
      BY <2>0, <3>0
    <3>2. x[2] # " " /\ x[n + 1] # " "
      BY <2>1, <2>7, <3>1
    <3>3. ASSUME NEW i \in 1 .. Len(x), x[i] # " "
          PROVE  2 <= i /\ i <= n + 1
      <4>1. i # 1 /\ i # n + 2 /\ i \in 1 .. n + 2
        BY <2>5, <2>8, <3>3
      <4> QED
        BY <2>2, <4>1
    <3> QED
      BY <2>5, <3>1, <3>2, <3>3, TrimIs
  <2>10. SubSeq(x, 2, n + 1) = w
    <3>1. (n + 1) - 2 + 1 = n /\ \A i \in 1 .. n : 2 + i - 1 = i + 1
      BY <2>2
    <3>2. SubSeq(x, 2, n + 1) = [i \in 1 .. n |-> x[i + 1]]
      BY <2>2, <3>1
    <3> QED
      BY <2>2, <2>7, <3>2
  <2>11. Padded(v) = Text(x) /\ OrNull(v) = v
    BY <2>1 DEF Padded, OrNull, x, y, w
  <2>12. Filled(Text(x)) /\ Text(Trim(Text(x).word)) = v
    BY <2>1, <2>9, <2>10 DEF Filled, Text, IsText
  <2> QED
    BY <2>1, <2>11, <2>12 DEF Str, TrimmedOr
<1> QED
  BY <1>1, <1>2 DEF NameOrNone

\* A mail as people type it is the same mail in lower case.
LEMMA ShoutedIsName ==
    ASSUME NEW v, IsName(v), Lower(v) = v
    PROVE  /\ IsName(Shouted(v)) /\ Lower(Shouted(v)) = v
<1> DEFINE w == v.word
           n == Len(w)
           Up(c) == {u \in DOMAIN Lowered : Lowered[u] = c}
           x == [i \in DOMAIN w |-> IF Up(w[i]) = {} THEN w[i] ELSE CHOOSE u \in Up(w[i]) : TRUE]
<1>1. /\ w \in Seq(STRING) /\ w[1] # " " /\ w[n] # " " /\ v = Text(w)
  BY DEF IsName
<1>2. n \in Nat \ {0} /\ DOMAIN w = 1 .. n /\ \A i \in 1 .. n : w[i] \in STRING
  BY <1>1, NameIsTrim, ElementOfSeq
<1>3. LowerCase(w) = w
  <2>1. Lower(v).word = LowerCase(w)
    BY DEF Lower, Text
  <2> QED
    BY <2>1
<1>4. Shouted(v) = Text(x)
  BY DEF Shouted
<1> HIDE DEF w, n
<1>5. ASSUME NEW i \in 1 .. n
      PROVE  /\ x[i] \in STRING /\ (x[i] = " " => w[i] = " ")
             /\ (IF x[i] \in DOMAIN Lowered THEN Lowered[x[i]] ELSE x[i]) = w[i]
  <2> DEFINE c == w[i]
  <2>1. x[i] = IF Up(c) = {} THEN c ELSE CHOOSE u \in Up(c) : TRUE
    BY <1>2
  <2>2. c \in STRING
    BY <1>2
  <2> HIDE DEF x
  <2>3. CASE Up(c) = {}
    <3>1. x[i] = c
      BY <2>1, <2>3
    <3>2. c \in DOMAIN Lowered => Lowered[c] = c
      BY <1>2, <1>3 DEF LowerCase
    <3> QED
      BY <2>2, <3>1, <3>2
  <2>4. CASE Up(c) # {}
    <3>1. x[i] \in Up(c)
      BY <2>1, <2>4
    <3>2. x[i] \in DOMAIN Lowered /\ Lowered[x[i]] = c
      BY <3>1
    <3>3. x[i] # " " /\ x[i] \in STRING
      BY <3>2, SyllablesAssumption
    <3> QED
      BY <3>2, <3>3
  <2> QED
    BY <2>3, <2>4
<1>6. DOMAIN x = 1 .. n
  BY <1>2
<1>7. x \in [1 .. n -> STRING]
  <2>1. x = [i \in 1 .. n |-> x[i]]
    BY <1>2
  <2> HIDE DEF x
  <2> QED
    BY <1>5, <2>1
<1>8. LowerCase(x) = w
  <2>1. LowerCase(x) = [i \in 1 .. n |-> IF x[i] \in DOMAIN Lowered THEN Lowered[x[i]] ELSE x[i]]
    BY <1>6 DEF LowerCase
  <2>2. w = [i \in 1 .. n |-> w[i]]
    <3>1. w \in [1 .. n -> STRING]
      BY <1>1, LenProperties DEF n
    <3> QED
      BY <3>1
  <2> HIDE DEF x
  <2> QED
    BY <1>5, <2>1, <2>2
<1> HIDE DEF x
<1>9. x \in Seq(STRING) /\ Len(x) = n /\ x # <<>>
  <2>1. x \in Seq(STRING) /\ Len(x) = n
    BY <1>2, <1>7, SeqDef, LenProperties
  <2> QED
    BY <1>2, <2>1, EmptySeq
<1>10. x[1] # " " /\ x[n] # " "
  <2>1. 1 \in 1 .. n /\ n \in 1 .. n
    BY <1>2
  <2> QED
    BY <1>1, <1>5, <2>1
<1>11. Text(x).word = x /\ IsText(Text(x))
  BY DEF Text, IsText
<1>12. IsName(Text(x))
  BY <1>9, <1>10, <1>11 DEF IsName
<1>13. Lower(Text(x)) = v
  BY <1>1, <1>8, <1>11 DEF Lower
<1> QED
  BY <1>4, <1>12, <1>13

----------------------------------------------------------------------------
(* The first text, and all of them, among some values                       *)

\* The first of some values that has a text to read.
LEMMA FirstStringIs ==
    ASSUME NEW n \in Nat, NEW s, DOMAIN s = 1 .. n, NEW k \in 1 .. n, Str(s[k]) # Missing,
           \A j \in 1 .. k - 1 : Str(s[j]) = Missing
    PROVE  FirstString(s) = Str(s[k])
<1> DEFINE where == {i \in DOMAIN s : Filled(s[i])}
           least == CHOOSE i \in where : \A j \in where : i <= j
<1>1. FirstString(s) = Str(IF where = {} THEN Missing ELSE s[least])
  BY DEF FirstString, FirstSuch
<1>2. where \subseteq 1 .. n /\ k \in where /\ \A i \in where : Str(s[i]) # Missing
  BY SaysOrNot
<1> HIDE DEF where
<1>3. least \in where /\ \A j \in where : least <= j
  BY <1>2, LeastOf
<1> HIDE DEF least
<1>4. least \in 1 .. n /\ least <= k /\ least \notin 1 .. k - 1
  BY <1>2, <1>3
<1>5. least = k
  BY <1>4
<1> QED
  BY <1>1, <1>2, <1>5

\* None has.
LEMMA FirstStringNone ==
    ASSUME NEW s, \A i \in DOMAIN s : Str(s[i]) = Missing
    PROVE  FirstString(s) = Missing
<1>1. {i \in DOMAIN s : Filled(s[i])} = {}
  BY SaysOrNot
<1> QED
  BY <1>1, SaysNothing DEF FirstString, FirstSuch

\* One value, two, three.
LEMMA FirstOfOne ==
    ASSUME NEW a
    PROVE  FirstString(<<a>>) = Str(a)
<1> DEFINE s == <<a>>
<1>1. /\ DOMAIN s = 1 .. 1 /\ s[1] = a /\ 1 \in 1 .. 1 /\ 1 .. 1 - 1 = {} /\ 1 \in Nat
      /\ \A i \in 1 .. 1 : i = 1
  OBVIOUS
<1> HIDE DEF s
<1>2. CASE Str(a) # Missing
  BY <1>1, <1>2, FirstStringIs DEF s
<1>3. CASE Str(a) = Missing
  BY <1>1, <1>3, FirstStringNone DEF s
<1> QED
  BY <1>2, <1>3

\* One value, or the other.
LEMMA FirstOfTwo ==
    ASSUME NEW a, NEW b
    PROVE  FirstString(<<a, b>>) = IF Str(a) # Missing THEN Str(a) ELSE Str(b)
<1> DEFINE s == <<a, b>>
<1>0. /\ 1 \in 1 .. 2 /\ 2 \in 1 .. 2 /\ 2 \in Nat /\ 1 .. 1 - 1 = {} /\ 1 .. 2 - 1 = {1}
      /\ \A i \in 1 .. 2 : i = 1 \/ i = 2
  OBVIOUS
<1>1. DOMAIN s = 1 .. 2 /\ s[1] = a /\ s[2] = b
  OBVIOUS
<1> HIDE DEF s
<1>2. CASE Str(a) # Missing
  <2>0. \A j \in 1 .. 1 - 1 : Str(s[j]) = Missing
    BY <1>0
  <2>1. FirstString(s) = Str(s[1])
    BY <1>0, <1>1, <1>2, <2>0, FirstStringIs
  <2> QED
    BY <1>1, <1>2, <2>1 DEF s
<1>3. CASE Str(a) = Missing /\ Str(b) # Missing
  <2>0. (\A j \in 1 .. 2 - 1 : Str(s[j]) = Missing) /\ Str(s[2]) # Missing
    BY <1>0, <1>1, <1>3
  <2>1. FirstString(s) = Str(s[2])
    BY <1>0, <1>1, <2>0, FirstStringIs
  <2> QED
    BY <1>1, <1>3, <2>1 DEF s
<1>4. CASE Str(a) = Missing /\ Str(b) = Missing
  BY <1>0, <1>1, <1>4, FirstStringNone DEF s
<1> QED
  BY <1>2, <1>3, <1>4

\* Or a third.
LEMMA FirstOfThree ==
    ASSUME NEW a, NEW b, NEW c
    PROVE  FirstString(<<a, b, c>>) =
              IF Str(a) # Missing THEN Str(a) ELSE IF Str(b) # Missing THEN Str(b) ELSE Str(c)
<1> DEFINE s == <<a, b, c>>
<1>0. /\ 1 \in 1 .. 3 /\ 2 \in 1 .. 3 /\ 3 \in 1 .. 3 /\ 3 \in Nat
      /\ 1 .. 1 - 1 = {} /\ 1 .. 2 - 1 = {1} /\ 1 .. 3 - 1 = {1, 2}
      /\ \A i \in 1 .. 3 : i = 1 \/ i = 2 \/ i = 3
  OBVIOUS
<1>1. DOMAIN s = 1 .. 3 /\ s[1] = a /\ s[2] = b /\ s[3] = c
  OBVIOUS
<1> HIDE DEF s
<1>6. ASSUME NEW k \in 1 .. 3, Str(s[k]) # Missing, \A j \in 1 .. k - 1 : Str(s[j]) = Missing
      PROVE  FirstString(s) = Str(s[k])
  BY <1>0, <1>1, <1>6, FirstStringIs, ZenonT(60)
<1>2. CASE Str(a) # Missing
  <2>0. \A j \in 1 .. 1 - 1 : Str(s[j]) = Missing
    BY <1>0
  <2>1. FirstString(s) = Str(s[1])
    BY <1>0, <1>1, <1>2, <1>6, <2>0
  <2> QED
    BY <1>1, <1>2, <2>1 DEF s
<1>3. CASE Str(a) = Missing /\ Str(b) # Missing
  <2>0. (\A j \in 1 .. 2 - 1 : Str(s[j]) = Missing) /\ Str(s[2]) # Missing
    BY <1>0, <1>1, <1>3
  <2>1. FirstString(s) = Str(s[2])
    BY <1>0, <1>6, <2>0
  <2> QED
    BY <1>1, <1>3, <2>1 DEF s
<1>4. CASE Str(a) = Missing /\ Str(b) = Missing /\ Str(c) # Missing
  <2>0. \A j \in 1 .. 3 - 1 : Str(s[j]) = Missing
    BY <1>0, <1>1, <1>4
  <2>1. FirstString(s) = Str(s[3])
    BY <1>0, <1>1, <1>4, <1>6, <2>0
  <2> QED
    BY <1>1, <1>4, <2>1 DEF s
<1>5. CASE Str(a) = Missing /\ Str(b) = Missing /\ Str(c) = Missing
  BY <1>0, <1>1, <1>5, FirstStringNone DEF s
<1> QED
  BY <1>2, <1>3, <1>4, <1>5

\* The texts of a sequence, as a set; and the first of them is the first text.
LEMMA StringsAre ==
    ASSUME NEW n \in Nat, NEW s, DOMAIN s = 1 .. n
    PROVE  /\ ToSet(Strings(s)) = {Str(s[i]) : i \in 1 .. n} \ {Missing}
           /\ First(Strings(s)) = FirstString(s)
           /\ Strings(s) = <<>> <=> FirstString(s) = Missing
           /\ Strings(s) \in Seq({Str(s[i]) : i \in 1 .. n})
<1> DEFINE said == [i \in DOMAIN s |-> Str(s[i])]
           T == {Str(s[i]) : i \in 1 .. n}
           one == [i \in DOMAIN said |-> IF IsText(said[i]) THEN <<said[i]>> ELSE <<>>]
<1>1. Strings(s) = FlattenSeq(one)
  BY DEF Strings, TextsOf
<1>2. ASSUME NEW i \in 1 .. n
      PROVE  /\ one[i] = IF Str(s[i]) # Missing THEN <<Str(s[i])>> ELSE <<>>
             /\ Str(s[i]) \in T
  BY SaysOrNot
<1>3. DOMAIN one = 1 .. n
  OBVIOUS
<1>4. one = [i \in 1 .. n |-> one[i]]
  OBVIOUS
<1> HIDE DEF one, said
<1>5. ASSUME NEW i \in 1 .. n
      PROVE  one[i] \in Seq(T)
  <2>1. <<Str(s[i])>> \in Seq(T)
    BY <1>2, OneIsSeq
  <2>2. <<>> \in Seq(T)
    BY EmptySeq
  <2> QED
    BY <1>2, <2>1, <2>2
<1>6. one \in [1 .. n -> Seq(T)]
  BY <1>4, <1>5
<1>7. one \in Seq(Seq(T)) /\ Len(one) = n
  BY <1>6, SeqDef, LenProperties
<1>8. /\ Strings(s) \in Seq(T)
      /\ ToSet(Strings(s)) = UNION {ToSet(one[i]) : i \in 1 .. n}
  BY <1>1, <1>7, FlattenedSet
<1>9. ASSUME NEW i \in 1 .. n
      PROVE  ToSet(one[i]) = {Str(s[i])} \ {Missing}
  <2>1. CASE Str(s[i]) # Missing
    <3>1. one[i] = <<Str(s[i])>>
      BY <1>2, <2>1
    <3>2. ToSet(<<Str(s[i])>>) = {Str(s[i])}
      BY OneIsSeq DEF ToSet
    <3> QED
      BY <2>1, <3>1, <3>2
  <2>2. CASE Str(s[i]) = Missing
    <3>1. one[i] = <<>>
      BY <1>2, <2>2
    <3>2. ToSet(<<>>) = {}
      BY DEF ToSet
    <3> QED
      BY <2>2, <3>1, <3>2
  <2> QED
    BY <2>1, <2>2
<1>10. ToSet(Strings(s)) = {Str(s[i]) : i \in 1 .. n} \ {Missing}
  <2>1. UNION {ToSet(one[i]) : i \in 1 .. n} = UNION {{Str(s[i])} \ {Missing} : i \in 1 .. n}
    BY <1>9
  <2>2. UNION {{Str(s[i])} \ {Missing} : i \in 1 .. n} = {Str(s[i]) : i \in 1 .. n} \ {Missing}
    OBVIOUS
  <2> QED
    BY <1>8, <2>1, <2>2
<1>11. CASE \A i \in 1 .. n : Str(s[i]) = Missing
  <2>1. FirstString(s) = Missing
    BY <1>11, FirstStringNone
  <2>2. ToSet(Strings(s)) = {}
    BY <1>10, <1>11
  <2>3. Strings(s) = <<>>
    <3>1. Len(Strings(s)) \in Nat /\ DOMAIN Strings(s) = 1 .. Len(Strings(s))
      BY <1>8, LenProperties
    <3>2. DOMAIN Strings(s) = {}
      BY <2>2 DEF ToSet
    <3>3. Len(Strings(s)) = 0
      BY <3>1, <3>2
    <3> QED
      BY <1>8, <3>3, EmptySeq
  <2> QED
    BY <1>8, <1>10, <2>1, <2>3 DEF First
<1>12. CASE \E i \in 1 .. n : Str(s[i]) # Missing
  <2> DEFINE where == {i \in 1 .. n : Str(s[i]) # Missing}
             k == CHOOSE i \in where : \A j \in where : i <= j
  <2>1. where \subseteq 1 .. n /\ where # {}
    BY <1>12
  <2>2. k \in where /\ \A j \in where : k <= j
    <3> HIDE DEF where
    <3> QED
      BY <2>1, LeastOf
  <2>3. k \in 1 .. n /\ Str(s[k]) # Missing
    BY <2>2
  <2>4. \A j \in 1 .. k - 1 : j \in 1 .. n /\ j \notin where
    BY <2>2, <2>3
  <2>5. \A j \in 1 .. k - 1 : j \in 1 .. n /\ Str(s[j]) = Missing
    BY <2>4
  <2> HIDE DEF k, where
  <2>6. FirstString(s) = Str(s[k])
    BY <2>3, <2>5, FirstStringIs
  <2>7. one[k] = <<Str(s[k])>> /\ \A j \in 1 .. k - 1 : one[j] = <<>>
    BY <1>2, <2>3, <2>5
  <2>8. <<Str(s[k])>> # <<>> /\ <<Str(s[k])>>[1] = Str(s[k])
    OBVIOUS
  <2>9. k \in 1 .. Len(one) /\ one[k] # <<>>
    BY <1>7, <2>3, <2>7, <2>8
  <2>10. FlattenSeq(one) # <<>> /\ FlattenSeq(one)[1] = one[k][1]
    BY <1>7, <2>7, <2>9, FlattenFirst
  <2> QED
    BY <1>1, <1>8, <1>10, <2>3, <2>6, <2>7, <2>8, <2>10 DEF First
<1> QED
  BY <1>11, <1>12

\* An attribute: its first value is the first text of its list, or itself.
FirstIn(v) == IF IsList(v) THEN FirstString(v.items) ELSE Str(v)

\* The texts a list holds, or the one a text is.
LEMMA ValuesInAre ==
    ASSUME NEW n \in Nat, NEW v, IsList(v) => DOMAIN v.items = 1 .. n
    PROVE  /\ First(ValuesIn(v)) = FirstIn(v)
           /\ ValuesIn(v) = <<>> <=> FirstIn(v) = Missing
           /\ ToSet(ValuesIn(v)) =
                 (IF IsList(v) THEN {Str(v.items[i]) : i \in 1 .. n} ELSE {Str(v)}) \ {Missing}
<1>1. CASE IsList(v)
  BY <1>1, StringsAre DEF ValuesIn, FirstIn
<1>2. CASE ~IsList(v)
  <2> DEFINE s == <<v>>
  <2>1. DOMAIN s = 1 .. 1 /\ 1 \in Nat /\ {Str(s[i]) : i \in 1 .. 1} = {Str(v)}
    <3>1. DOMAIN s = 1 .. 1 /\ 1 \in Nat /\ s[1] = v /\ \A i \in 1 .. 1 : i = 1
      OBVIOUS
    <3>2. 1 \in 1 .. 1
      OBVIOUS
    <3> HIDE DEF s
    <3> QED
      BY <3>1, <3>2
  <2>2. FirstString(s) = Str(v)
    BY FirstOfOne
  <2>3. ValuesIn(v) = Strings(s) /\ FirstIn(v) = Str(v)
    BY <1>2 DEF ValuesIn, FirstIn
  <2> HIDE DEF s
  <2>4. /\ ToSet(Strings(s)) = {Str(s[i]) : i \in 1 .. 1} \ {Missing}
        /\ First(Strings(s)) = FirstString(s)
        /\ Strings(s) = <<>> <=> FirstString(s) = Missing
    BY <2>1, StringsAre
  <2> QED
    BY <1>2, <2>1, <2>2, <2>3, <2>4
<1> QED
  BY <1>1, <1>2
\* Where one value at most says anything, it is the first.
LEMMA OnlyOneSays ==
    ASSUME NEW n \in Nat, NEW s, DOMAIN s = 1 .. n, NEW k \in 1 .. n,
           \A j \in 1 .. n : j # k => Str(s[j]) = Missing
    PROVE  FirstString(s) = Str(s[k])
<1>1. CASE Str(s[k]) # Missing
  <2>1. \A j \in 1 .. k - 1 : j \in 1 .. n /\ j # k
    OBVIOUS
  <2> QED
    BY <1>1, <2>1, FirstStringIs
<1>2. CASE Str(s[k]) = Missing
  BY <1>2, FirstStringNone
<1> QED
  BY <1>1, <1>2

----------------------------------------------------------------------------
(* What is read of a payload                                                *)

Field(f, k) == IF k \in DOMAIN f THEN f[k] ELSE Missing

\* A field of an object is read, or is not there.
LEMMA GetOf ==
    ASSUME NEW f, NEW k
    PROVE  Get(Object(f), k) = Field(f, k) /\ Get(Missing, k) = Missing
<1>1. Object(f).is = "object" /\ Object(f).fields = f
  BY DEF Object
<1>2. Missing.is = "missing"
  BY DEF Missing
<1> QED
  BY <1>1, <1>2 DEF Get, Field

\* No admin overrides where a field is read.
LEMMA KeysByDefault ==
    ASSUME NEW table, NEW field
    PROVE  KeysFor(table, field, NoMap) = table[field]
<1>1. DOMAIN NoMap = {}
  BY DEF NoMap
<1> QED
  BY <1>1 DEF KeysFor

\* scimResolve of one segment.
LEMMA FoldOfOne ==
    ASSUME NEW body, NEW k
    PROVE  Along(body, <<k>>) = Get(body, k)
<1> DEFINE path == <<k>>
           Defines(it) == it = [s \in SUBSET DOMAIN path |->
                                  IF s = {} THEN body
                                  ELSE Get(it[s \ {Max(s)}], path[Max(s)])]
           fold == CHOOSE it : Defines(it)
           it0 == [s \in SUBSET DOMAIN path |-> IF s = {} THEN body ELSE Get(body, k)]
<1>1. Along(body, path) = fold[DOMAIN path]
  BY DEF Along, FoldLeft, MapThenFoldSet
<1>2. DOMAIN path = {1} /\ path[1] = k
  BY OneIsSeq
<1>3. Max({1}) = 1
  <2>1. 1 .. 1 = {1} /\ 1 \in Nat \ {0}
    OBVIOUS
  <2> QED
    BY <2>1, MaxOfInterval
<1> HIDE DEF path
<1>4. \A s \in SUBSET {1} : s = {} \/ s = {1}
  OBVIOUS
<1>5. \A s \in SUBSET {1} : s # {} => Max(s) = 1 /\ s \ {Max(s)} = {}
  <2>1. {1} \ {1} = {}
    OBVIOUS
  <2>2. ASSUME NEW s \in SUBSET {1}, s # {}
        PROVE  Max(s) = 1 /\ s \ {Max(s)} = {}
    <3>1. s = {1}
      BY <2>2
    <3> QED
      BY <1>3, <2>1, <3>1
  <2> QED
    BY <2>2
<1>6. Defines(it0)
  <2>1. {} \in SUBSET DOMAIN path /\ it0[{}] = body
    OBVIOUS
  <2>2. \A s \in SUBSET DOMAIN path :
           it0[s] = IF s = {} THEN body ELSE Get(it0[s \ {Max(s)}], path[Max(s)])
    BY <1>2, <1>5, <2>1
  <2> QED
    BY <2>2
<1> HIDE DEF Defines
<1>7. Defines(fold)
  BY <1>6
<1> HIDE DEF fold
<1>8. fold[{}] = body /\ fold[{1}] = Get(fold[{1} \ {Max({1})}], path[Max({1})])
  BY <1>2, <1>7 DEF Defines
<1>9. {1} \ {1} = {}
  OBVIOUS
<1> QED
  BY <1>1, <1>2, <1>3, <1>8, <1>9 DEF path

\* scimResolve of two.
LEMMA FoldOfTwo ==
    ASSUME NEW body, NEW k, NEW m
    PROVE  Along(body, <<k, m>>) = Get(Get(body, k), m)
<1> DEFINE path == <<k, m>>
           Defines(it) == it = [s \in SUBSET DOMAIN path |->
                                  IF s = {} THEN body
                                  ELSE Get(it[s \ {Max(s)}], path[Max(s)])]
           fold == CHOOSE it : Defines(it)
           it0 == [s \in SUBSET DOMAIN path |->
                     IF s = {} THEN body
                     ELSE IF s = {1} THEN Get(body, k)
                     ELSE IF s = {2} THEN Get(body, m) ELSE Get(Get(body, k), m)]
<1>1. Along(body, path) = fold[DOMAIN path]
  BY DEF Along, FoldLeft, MapThenFoldSet
<1>2. DOMAIN path = {1, 2} /\ path[1] = k /\ path[2] = m
  <2>1. DOMAIN path = 1 .. 2 /\ path[1] = k /\ path[2] = m
    OBVIOUS
  <2>2. 1 .. 2 = {1, 2}
    OBVIOUS
  <2> QED
    BY <2>1, <2>2
<1>3. Max({1}) = 1 /\ Max({1, 2}) = 2 /\ Max({2}) = 2
  <2>1. /\ 1 .. 1 = {1} /\ 1 .. 2 = {1, 2} /\ 1 \in Nat \ {0} /\ 2 \in Nat \ {0}
        /\ {2} \subseteq 1 .. 2 /\ {2} # {}
    OBVIOUS
  <2>2. Max({2}) \in {2}
    BY <2>1, MaxOf
  <2> QED
    BY <2>1, <2>2, MaxOfInterval
<1> HIDE DEF path
<1>4. \A s \in SUBSET {1, 2} : s = {} \/ s = {1} \/ s = {2} \/ s = {1, 2}
  OBVIOUS
<1>5. /\ {1} \ {1} = {} /\ {2} \ {2} = {} /\ {1, 2} \ {2} = {1} /\ {1} # {} /\ {2} # {}
      /\ {1, 2} # {} /\ {2} # {1} /\ {1, 2} # {1} /\ {1, 2} # {2}
  OBVIOUS
<1>6. Defines(it0)
  <2>1. /\ it0[{}] = body /\ it0[{1}] = Get(body, k) /\ it0[{2}] = Get(body, m)
        /\ it0[{1, 2}] = Get(Get(body, k), m)
    BY <1>2, <1>5
  <2>2. ASSUME NEW s \in SUBSET DOMAIN path
        PROVE  it0[s] = IF s = {} THEN body ELSE Get(it0[s \ {Max(s)}], path[Max(s)])
    <3> HIDE DEF it0
    <3>1. CASE s = {}
      BY <2>1, <3>1
    <3>2. CASE s = {1}
      BY <1>2, <1>3, <1>5, <2>1, <3>2
    <3>3. CASE s = {2}
      BY <1>2, <1>3, <1>5, <2>1, <3>3
    <3>4. CASE s = {1, 2}
      BY <1>2, <1>3, <1>5, <2>1, <3>4
    <3> QED
      BY <1>2, <1>4, <3>1, <3>2, <3>3, <3>4
  <2> QED
    BY <2>2
<1> HIDE DEF Defines
<1>7. Defines(fold)
  BY <1>6
<1> HIDE DEF fold
<1>8. /\ fold[{}] = body
      /\ fold[{1}] = Get(fold[{1} \ {Max({1})}], path[Max({1})])
      /\ fold[{1, 2}] = Get(fold[{1, 2} \ {Max({1, 2})}], path[Max({1, 2})])
  BY <1>2, <1>5, <1>7 DEF Defines
<1> QED
  BY <1>1, <1>2, <1>3, <1>5, <1>8 DEF path

\* A path of one key or of two.
LEMMA ScimResolves ==
    ASSUME NEW body
    PROVE  /\ \A k : k # "emails[primary]" /\ k # "manager" =>
                 ScimResolve(body, <<k>>) = Str(Get(body, k))
           /\ \A k, m : m # "manager" => ScimResolve(body, <<k, m>>) = Str(Get(Get(body, k), m))
           /\ ScimResolve(body, <<"enterprise", "manager">>) =
                 ScimManagerValue(Get(Get(body, "enterprise"), "manager"))
<1>0. \A k, m : Along(body, <<k>>) = Get(body, k) /\ Along(body, <<k, m>>) = Get(Get(body, k), m)
  <2> TAKE k, m
  <2>1. Along(body, <<k>>) = Get(body, k)
    BY FoldOfOne
  <2>2. Along(body, <<k, m>>) = Get(Get(body, k), m)
    BY FoldOfTwo
  <2> QED
    BY <2>1, <2>2
<1>1. /\ \A k, m : /\ <<k>> # <<"enterprise", "manager">> /\ <<k, m>> # <<"emails[primary]">>
                   /\ <<k, m>> # <<"manager">>
      /\ <<"enterprise", "manager">> # <<"emails[primary]">>
  <2>1. \A a, b, c : <<a>> # <<b, c>>
    <3> TAKE a, b, c
    <3>1. DOMAIN <<a>> = 1 .. 1 /\ DOMAIN <<b, c>> = 1 .. 2 /\ 2 \in 1 .. 2 /\ 2 \notin 1 .. 1
      OBVIOUS
    <3> QED
      BY <3>1
  <2> QED
    BY <2>1
<1>2. \A k, m : /\ k # "emails[primary]" => <<k>> # <<"emails[primary]">>
                /\ k # "manager" => <<k>> # <<"manager">>
                /\ m # "manager" => <<k, m>> # <<"enterprise", "manager">>
  OBVIOUS
<1>3. \A path : /\ path # <<"emails[primary]">> /\ path # <<"enterprise", "manager">> /\ path # <<"manager">>
                      => ScimResolve(body, path) = Str(Along(body, path))
                /\ path = <<"enterprise", "manager">> /\ path # <<"emails[primary]">>
                      => ScimResolve(body, path) = ScimManagerValue(Get(Get(body, "enterprise"), "manager"))
  BY DEF ScimResolve
<1>4. ASSUME NEW k, k # "emails[primary]", k # "manager"
      PROVE  ScimResolve(body, <<k>>) = Str(Get(body, k))
  BY <1>0, <1>1, <1>2, <1>3, <1>4
<1>5. ASSUME NEW k, NEW m, m # "manager"
      PROVE  ScimResolve(body, <<k, m>>) = Str(Get(Get(body, k), m))
  BY <1>0, <1>1, <1>2, <1>3, <1>5
<1>6. ScimResolve(body, <<"enterprise", "manager">>) =
                 ScimManagerValue(Get(Get(body, "enterprise"), "manager"))
  BY <1>1, <1>3
<1> QED
  BY <1>4, <1>5, <1>6

\* The first path of a field that says something.
LEMMA ScimFirstIs ==
    ASSUME NEW body
    PROVE  /\ \A a : ScimFirst(body, <<a>>) = Str(ScimResolve(body, a))
           /\ \A a, b : ScimFirst(body, <<a, b>>) =
                 IF Str(ScimResolve(body, a)) # Missing THEN Str(ScimResolve(body, a))
                 ELSE Str(ScimResolve(body, b))
<1>1. ASSUME NEW a
      PROVE  ScimFirst(body, <<a>>) = FirstString(<<ScimResolve(body, a)>>)
  <2>1. [i \in DOMAIN <<a>> |-> ScimResolve(body, <<a>>[i])] = <<ScimResolve(body, a)>>
    OBVIOUS
  <2> QED
    BY <2>1 DEF ScimFirst
<1>2. ASSUME NEW a, NEW b
      PROVE  ScimFirst(body, <<a, b>>) = FirstString(<<ScimResolve(body, a), ScimResolve(body, b)>>)
  <2>1. [i \in DOMAIN <<a, b>> |-> ScimResolve(body, <<a, b>>[i])] =
           <<ScimResolve(body, a), ScimResolve(body, b)>>
    OBVIOUS
  <2> QED
    BY <2>1 DEF ScimFirst
<1>3. ASSUME NEW a
      PROVE  ScimFirst(body, <<a>>) = Str(ScimResolve(body, a))
  BY <1>1, FirstOfOne
<1>4. ASSUME NEW a, NEW b
      PROVE  ScimFirst(body, <<a, b>>) =
                IF Str(ScimResolve(body, a)) # Missing THEN Str(ScimResolve(body, a))
                ELSE Str(ScimResolve(body, b))
  BY <1>2, FirstOfTwo, ZenonT(60)
<1> QED
  BY <1>3, <1>4

----------------------------------------------------------------------------
(* What a projection says of a person                                       *)

\* Each thing the directory says of a person is a name or is not there.
LEMMA PersonIs ==
    ASSUME NEW p, IsPerson(p)
    PROVE  /\ NameOrNone(p.first) /\ NameOrNone(p.last) /\ NameOrNone(p.display)
           /\ NameOrNone(p.title) /\ NameOrNone(p.department) /\ NameOrNone(p.manager)
           /\ NameOrNone(p.managerName) /\ (p.manager = Missing <=> p.managerName = Missing)
           /\ IsName(p.id) /\ IsName(p.mail) /\ Lower(p.mail) = p.mail
           /\ IsName(Shouted(p.mail)) /\ Lower(Shouted(p.mail)) = p.mail
           /\ IsFiniteSet(p.groups) /\ (\A g \in p.groups : IsName(g)) /\ p.active \in BOOLEAN
<1>1. /\ IsName(p.id) /\ IsName(p.mail) /\ Lower(p.mail) = p.mail
      /\ IsFiniteSet(p.groups) /\ (\A g \in p.groups : IsName(g)) /\ p.active \in BOOLEAN
      /\ \A v \in {p.first, p.last, p.display, p.title, p.department, p.manager, p.managerName} :
            NameOrNone(v)
      /\ p.manager = Missing <=> p.managerName = Missing
  BY DEF IsPerson, NameOrNone
<1>2. IsName(Shouted(p.mail)) /\ Lower(Shouted(p.mail)) = p.mail
  BY <1>1, ShoutedIsName
<1> QED
  BY <1>1, <1>2

\* And is read as itself, padded or null where it is missing.
LEMMA PersonReads ==
    ASSUME NEW p, IsPerson(p)
    PROVE  /\ Str(p.first) = p.first /\ Str(Padded(p.first)) = p.first
           /\ Str(OrNull(p.first)) = p.first
           /\ Str(p.last) = p.last /\ Str(Padded(p.last)) = p.last
           /\ Str(p.display) = p.display /\ Str(Padded(p.display)) = p.display
           /\ Str(OrNull(p.display)) = p.display
           /\ Str(p.title) = p.title /\ Str(Padded(p.title)) = p.title
           /\ Str(OrNull(p.title)) = p.title
           /\ Str(p.department) = p.department /\ Str(Padded(p.department)) = p.department
           /\ Str(OrNull(p.department)) = p.department
           /\ Str(p.manager) = p.manager /\ Str(OrNull(p.manager)) = p.manager
           /\ Str(Padded(p.manager)) = p.manager
           /\ Str(Shouted(p.mail)) = Shouted(p.mail) /\ Shouted(p.mail) # Missing
<1>1. /\ NameOrNone(p.first) /\ NameOrNone(p.last) /\ NameOrNone(p.display)
      /\ NameOrNone(p.title) /\ NameOrNone(p.department) /\ NameOrNone(p.manager)
      /\ IsName(Shouted(p.mail))
  BY PersonIs
<1>2. Str(p.first) = p.first /\ Str(Padded(p.first)) = p.first /\ Str(OrNull(p.first)) = p.first
  BY <1>1, PaddedIsTrimmed
<1>3. Str(p.last) = p.last /\ Str(Padded(p.last)) = p.last
  BY <1>1, PaddedIsTrimmed
<1>4. /\ Str(p.display) = p.display /\ Str(Padded(p.display)) = p.display
      /\ Str(OrNull(p.display)) = p.display
  BY <1>1, PaddedIsTrimmed
<1>5. /\ Str(p.title) = p.title /\ Str(Padded(p.title)) = p.title
      /\ Str(OrNull(p.title)) = p.title
  BY <1>1, PaddedIsTrimmed
<1>6. /\ Str(p.department) = p.department /\ Str(Padded(p.department)) = p.department
      /\ Str(OrNull(p.department)) = p.department
  BY <1>1, PaddedIsTrimmed
<1>7. /\ Str(p.manager) = p.manager /\ Str(OrNull(p.manager)) = p.manager
      /\ Str(Padded(p.manager)) = p.manager
  BY <1>1, PaddedIsTrimmed
<1>8. Str(Shouted(p.mail)) = Shouted(p.mail) /\ Shouted(p.mail) # Missing
  BY <1>1, NameIsTrim
<1> QED
  BY <1>2, <1>3, <1>4, <1>5, <1>6, <1>7, <1>8

Keys == DirectoryAttributeKeys \cup {"firstName", "lastName"}

\* A profile that has the names, the groups and the attributes of a person.
Describes(rich, p, source) ==
    /\ rich = [email |-> rich.email, externalId |-> rich.externalId,
               firstName |-> rich.firstName, lastName |-> rich.lastName,
               displayName |-> rich.displayName, attributes |-> rich.attributes,
               groups |-> rich.groups, claims |-> rich.claims]
    /\ rich.firstName = OrNull(p.first) /\ rich.lastName = OrNull(p.last)
    /\ rich.displayName = OrNull(NameTold(p, source))
    /\ rich.groups = p.groups
    /\ \A k \in Keys :
          Field(rich.attributes, k) = IF k \in Fields THEN FieldTold(p, k, source) ELSE Missing

\* And their email.
Shows(rich, p, source) == Describes(rich, p, source) /\ rich.email = MailTold(p, source)

\* The attributes a projection fills, of which a person has three.
AttributesShow(attributes, p, source) ==
    /\ "firstName" \notin DOMAIN attributes /\ "lastName" \notin DOMAIN attributes
    /\ Field(attributes, "department") = p.department
    /\ Field(attributes, "title") = p.title
    /\ Field(attributes, "manager") = ManagerTold(p, source)
    /\ \A k \in DOMAIN attributes : k \notin Fields /\ k \in DirectoryAttributeKeys => attributes[k] = Missing

\* Leaving a field out that says nothing says nothing else.
LEMMA CompactField ==
    ASSUME NEW f, NEW k
    PROVE  Field(Compact(f), k) = Field(f, k)
  BY DEF Field, Compact

\* What a projection makes of the parts of a person describes the person.
LEMMA ProfileDescribes ==
    ASSUME NEW p, NEW source, NEW email, NEW externalId, NEW display, display = NameTold(p, source),
           NEW attributes, AttributesShow(attributes, p, source),
           NEW groups, ToSet(groups) = p.groups, NEW claims
    PROVE  Describes(Profile(email, externalId, p.first, p.last, display, attributes, groups, claims),
                     p, source)
<1> DEFINE rich == Profile(email, externalId, p.first, p.last, display, attributes, groups, claims)
<1> DEFINE mail == IF email = Missing THEN Text(<<>>) ELSE Lower(email)
<1>2. rich = [email |-> mail, externalId |-> OrNull(externalId),
              firstName |-> OrNull(p.first), lastName |-> OrNull(p.last),
              displayName |-> OrNull(display), attributes |-> Compact(attributes),
              groups |-> p.groups, claims |-> claims]
  BY DEF Profile
<1> HIDE DEF rich, mail
<1>3. rich.displayName = OrNull(NameTold(p, source))
  BY <1>2
<1>4. \A k \in Keys :
         Field(rich.attributes, k) = IF k \in Fields THEN FieldTold(p, k, source) ELSE Missing
  <2>1. rich.attributes = Compact(attributes)
    BY <1>2
  <2>2. ASSUME NEW k \in Keys
        PROVE  Field(attributes, k) = IF k \in Fields THEN FieldTold(p, k, source) ELSE Missing
    <3>1. CASE k \in Fields
      BY <3>1 DEF AttributesShow, Fields, FieldTold
    <3>2. CASE k \notin Fields /\ k \in DirectoryAttributeKeys
      BY <3>2 DEF AttributesShow, Field
    <3>3. CASE k \in {"firstName", "lastName"}
      BY <3>3 DEF AttributesShow, Field, Fields
    <3> QED
      BY <3>1, <3>2, <3>3 DEF Keys
  <2> QED
    BY <2>1, <2>2, CompactField
<1>5. rich = [email |-> rich.email, externalId |-> rich.externalId,
              firstName |-> rich.firstName, lastName |-> rich.lastName,
              displayName |-> rich.displayName, attributes |-> rich.attributes,
              groups |-> rich.groups, claims |-> rich.claims]
  BY <1>2
<1>6. /\ rich.firstName = OrNull(p.first) /\ rich.lastName = OrNull(p.last)
      /\ rich.groups = p.groups
  BY <1>2
<1> QED
  BY <1>3, <1>4, <1>5, <1>6 DEF Describes, rich

\* And shows them, all but the canonical SCIM user with the email in lower case.
LEMMA ProfileShows ==
    ASSUME NEW p, IsPerson(p), NEW source, source # "scimUser",
           NEW email, IsName(email), Lower(email) = p.mail, NEW externalId,
           NEW display, display = NameTold(p, source),
           NEW attributes, AttributesShow(attributes, p, source),
           NEW groups, ToSet(groups) = p.groups, NEW claims
    PROVE  Shows(Profile(email, externalId, p.first, p.last, display, attributes, groups, claims),
                 p, source)
<1> DEFINE rich == Profile(email, externalId, p.first, p.last, display, attributes, groups, claims)
<1>1. email # Missing
  BY NameIsTrim
<1>2. rich.email = Lower(email)
  BY <1>1 DEF Profile
<1> HIDE DEF rich
<1>3. rich.email = MailTold(p, source)
  BY <1>2 DEF MailTold
<1>4. Describes(rich, p, source)
  BY ProfileDescribes DEF rich
<1> QED
  BY <1>3, <1>4 DEF Shows, rich

\* Its groups, whichever way they are listed.
LEMMA GroupsAre ==
    ASSUME NEW p, IsPerson(p)
    PROVE  LET s == Sequence(p.groups)
           IN  /\ s \in Seq(p.groups) /\ Len(s) \in Nat /\ DOMAIN s = 1 .. Len(s)
               /\ \A i \in 1 .. Len(s) : s[i] \in p.groups /\ IsName(s[i]) /\ Str(s[i]) = s[i]
               /\ {s[i] : i \in 1 .. Len(s)} = p.groups
               /\ Missing \notin p.groups
<1> DEFINE s == Sequence(p.groups)
<1>1. s \in Seq(p.groups) /\ ToSet(s) = p.groups
  BY PersonIs, SequenceOfSet DEF Sequence
<1> HIDE DEF s
<1>2. Len(s) \in Nat /\ DOMAIN s = 1 .. Len(s) /\ \A i \in 1 .. Len(s) : s[i] \in p.groups
  BY <1>1, LenProperties, ElementOfSeq
<1>3. \A g \in p.groups : IsName(g) /\ Str(g) = g /\ g # Missing
  BY PersonIs, NameIsTrim
<1>4. {s[i] : i \in 1 .. Len(s)} = p.groups
  BY <1>1, <1>2 DEF ToSet
<1>5. \A i \in 1 .. Len(s) : s[i] \in p.groups /\ IsName(s[i]) /\ Str(s[i]) = s[i]
  BY <1>2, <1>3
<1> QED
  BY <1>1, <1>2, <1>3, <1>4, <1>5 DEF s

\* A list of them is read as they are.
LEMMA GroupsRead ==
    ASSUME NEW p, IsPerson(p), NEW n \in Nat, NEW t, DOMAIN t = 1 .. n,
           \A i \in 1 .. n : Str(t[i]) \in p.groups,
           \A g \in p.groups : \E i \in 1 .. n : Str(t[i]) = g
    PROVE  ToSet(Strings(t)) = p.groups
<1>1. ToSet(Strings(t)) = {Str(t[i]) : i \in 1 .. n} \ {Missing}
  BY StringsAre
<1>2. {Str(t[i]) : i \in 1 .. n} = p.groups
  OBVIOUS
<1>3. Missing \notin p.groups
  BY GroupsAre
<1> QED
  BY <1>1, <1>2, <1>3

\* Groups listed once, or twice over.
LEMMA ListsRead ==
    ASSUME NEW p, IsPerson(p)
    PROVE  /\ ToSet(AsStringArray(List(Sequence(p.groups)))) = p.groups
           /\ ToSet(AsStringArray(List(Twice(Sequence(p.groups))))) = p.groups
<1> DEFINE s == Sequence(p.groups)
           n == Len(s)
           t == s \o s
<1>1. /\ s \in Seq(p.groups) /\ n \in Nat /\ DOMAIN s = 1 .. n
      /\ \A i \in 1 .. n : s[i] \in p.groups /\ Str(s[i]) = s[i]
      /\ {s[i] : i \in 1 .. n} = p.groups
  BY GroupsAre
<1> HIDE DEF s, n
<1>2. \A u : AsStringArray(List(u)) = Strings(u)
  BY DEF AsStringArray, IsList, List
<1>3. \A g \in p.groups : \E i \in 1 .. n : Str(s[i]) = g
  BY <1>1
<1>4. ToSet(Strings(s)) = p.groups
  <2>1. \A i \in 1 .. n : Str(s[i]) \in p.groups
    BY <1>1
  <2> QED
    BY <1>1, <1>3, <2>1, GroupsRead
<1>5. /\ t \in Seq(p.groups) /\ Len(t) = n + n /\ DOMAIN t = 1 .. n + n
      /\ \A i \in 1 .. n + n : t[i] = IF i <= n THEN s[i] ELSE s[i - n]
  <2>1. /\ t \in Seq(p.groups) /\ Len(t) = Len(s) + Len(s)
        /\ \A i \in 1 .. Len(s) + Len(s) : t[i] = IF i <= Len(s) THEN s[i] ELSE s[i - Len(s)]
    BY <1>1, ConcatProperties
  <2>2. DOMAIN t = 1 .. Len(t)
    BY <2>1, LenProperties
  <2> QED
    BY <2>1, <2>2 DEF n
<1> HIDE DEF t
<1>6. ASSUME NEW i \in 1 .. n + n
      PROVE  Str(t[i]) \in p.groups
  <2>1. (i <= n => i \in 1 .. n) /\ (~(i <= n) => i - n \in 1 .. n)
    BY <1>1
  <2> QED
    BY <1>1, <1>5, <2>1
<1>7. \A g \in p.groups : \E i \in 1 .. n + n : Str(t[i]) = g
  <2>1. \A i \in 1 .. n : i \in 1 .. n + n /\ i <= n
    BY <1>1
  <2>2. \A i \in 1 .. n : i \in 1 .. n + n /\ t[i] = s[i]
    BY <1>5, <2>1
  <2> QED
    BY <1>3, <2>2
<1>8. ToSet(Strings(t)) = p.groups
  <2>1. n + n \in Nat
    BY <1>1
  <2> QED
    BY <1>5, <1>6, <1>7, <2>1, GroupsRead
<1> QED
  BY <1>2, <1>4, <1>8 DEF Twice, s, t

\* profileFromGraph, of a user as Microsoft Graph gives it.
LEMMA GraphShows ==
    ASSUME NEW p, IsPerson(p)
    PROVE  Shows(ProfileFromGraph(AsGraph(p)), p, "graph")
<1> DEFINE user == AsGraph(p)
           At(k) == Str(Get(user, k))
           email == FirstString(<<At("mail"), At("userPrincipalName")>>)
           display == NameOr(At("displayName"), At("givenName"), At("surname"))
           attributes == [department |-> At("department"), title |-> At("jobTitle"),
                          employeeNumber |-> At("employeeId"),
                          officeLocation |-> At("officeLocation"), manager |-> At("manager")]
           groups == AsStringArray(Get(user, "groups"))
<1>1. ProfileFromGraph(user) =
         Profile(email, At("id"), At("givenName"), At("surname"), display, attributes, groups,
                 Object(<<>>))
  BY DEF ProfileFromGraph
<1> DEFINE f == [id |-> p.id, mail |-> Null, userPrincipalName |-> Shouted(p.mail),
                 givenName |-> OrNull(p.first), surname |-> Padded(p.last),
                 displayName |-> OrNull(p.display), jobTitle |-> OrNull(p.title),
                 department |-> OrNull(p.department), manager |-> OrNull(p.manager),
                 groups |-> List(Twice(Sequence(p.groups)))]
<1>2. \A k : Get(user, k) = Field(f, k)
  BY GetOf DEF AsGraph
<1>3. /\ At("mail") = Str(Null) /\ At("userPrincipalName") = Str(Shouted(p.mail))
      /\ At("givenName") = Str(OrNull(p.first)) /\ At("surname") = Str(Padded(p.last))
      /\ At("displayName") = Str(OrNull(p.display)) /\ At("jobTitle") = Str(OrNull(p.title))
      /\ At("department") = Str(OrNull(p.department)) /\ At("manager") = Str(OrNull(p.manager))
      /\ At("employeeId") = Str(Missing) /\ At("officeLocation") = Str(Missing)
      /\ groups = AsStringArray(List(Twice(Sequence(p.groups))))
  BY <1>2 DEF Field
<1> HIDE DEF f, user
<1>4. /\ At("mail") = Missing /\ At("userPrincipalName") = Shouted(p.mail)
      /\ At("givenName") = p.first /\ At("surname") = p.last /\ At("displayName") = p.display
      /\ At("jobTitle") = p.title /\ At("department") = p.department /\ At("manager") = p.manager
      /\ At("employeeId") = Missing /\ At("officeLocation") = Missing
  BY <1>3, PersonReads, SaysNothing
<1>5. ToSet(groups) = p.groups
  BY <1>3, ListsRead
<1> HIDE DEF At
<1>6. email = Shouted(p.mail)
  <2>1. Str(Shouted(p.mail)) = Shouted(p.mail) /\ Str(Missing) = Missing
    BY PersonIs, NameIsTrim, SaysNothing
  <2> QED
    BY <1>4, <2>1, FirstOfTwo
<1>7. display = NameTold(p, "graph")
  BY <1>4 DEF NameOr, NameTold
<1>8. AttributesShow(attributes, p, "graph")
  BY <1>4 DEF AttributesShow, Field, Fields, ManagerTold
<1> HIDE DEF email, display, attributes, groups
<1>9. Shows(Profile(email, At("id"), p.first, p.last, display, attributes, groups, Object(<<>>)),
            p, "graph")
  BY <1>5, <1>6, <1>7, <1>8, PersonIs, ProfileShows
<1> QED
  BY <1>1, <1>4, <1>9 DEF user

\* profileFromOidcClaims, of the claims of a login.
LEMMA OidcShows ==
    ASSUME NEW p, IsPerson(p)
    PROVE  Shows(ProfileFromOidcClaims(AsOidc(p), NoMap), p, "oidc")
<1> DEFINE claims == AsOidc(p)
           Keys_(field) == KeysFor(OidcDefaults, field, NoMap)
           Read(keys) == [i \in DOMAIN keys |-> Get(claims, keys[i])]
           At(field) == FirstString(Read(Keys_(field)))
           groups == [i \in DOMAIN Keys_("groups") |-> AsStringArray(Get(claims, Keys_("groups")[i]))]
           attributes == [k \in {"department", "division", "title", "employeeNumber", "costCenter",
                                 "officeLocation", "manager"} |-> At(k)]
           s == Sequence(p.groups)
           one == IF p.groups = {} THEN <<>> ELSE <<s[1]>>
           f == [sub |-> p.id, preferred_username |-> Shouted(p.mail), given_name |-> p.first,
                 family_name |-> Padded(p.last), name |-> p.display, title |-> p.title,
                 jobTitle |-> Text(<<" ">>), department |-> p.department, manager |-> p.manager,
                 groups |-> List(one), roles |-> List(s)]
<1>1. ProfileFromOidcClaims(claims, NoMap) =
         Profile(At("email"), At("externalId"), At("firstName"), At("lastName"), At("displayName"),
                 attributes, FlattenSeq(groups), claims)
  BY DEF ProfileFromOidcClaims
<1>2. \A k : Get(claims, k) = Field(f, k)
  BY GetOf DEF AsOidc
<1>3. /\ Get(claims, "preferred_username") = Shouted(p.mail)
      /\ Get(claims, "given_name") = p.first /\ Get(claims, "family_name") = Padded(p.last)
      /\ Get(claims, "name") = p.display /\ Get(claims, "title") = p.title
      /\ Get(claims, "jobTitle") = Text(<<" ">>) /\ Get(claims, "department") = p.department
      /\ Get(claims, "manager") = p.manager
      /\ Get(claims, "groups") = List(one) /\ Get(claims, "roles") = List(s)
      /\ \A k \in {"email", "upn", "givenName", "familyName", "surname", "wids", "division",
                   "employeeId", "employeeNumber", "costCenter", "officeLocation",
                   "physicalDeliveryOfficeName", "managerEmail"} : Get(claims, k) = Missing
  BY <1>2 DEF Field
<1> HIDE DEF f, claims
<1>4. /\ Keys_("email") = <<"email", "preferred_username", "upn">>
      /\ Keys_("firstName") = <<"given_name", "givenName">>
      /\ Keys_("lastName") = <<"family_name", "familyName", "surname">>
      /\ Keys_("displayName") = <<"name", "given_name">>
      /\ Keys_("groups") = <<"groups", "roles", "wids">>
      /\ Keys_("department") = <<"department">> /\ Keys_("division") = <<"division">>
      /\ Keys_("title") = <<"jobTitle", "title">>
      /\ Keys_("employeeNumber") = <<"employeeId", "employeeNumber">>
      /\ Keys_("costCenter") = <<"costCenter">>
      /\ Keys_("officeLocation") = <<"officeLocation", "physicalDeliveryOfficeName">>
      /\ Keys_("manager") = <<"manager", "managerEmail">>
  BY KeysByDefault DEF OidcDefaults
<1>5. /\ \A a : FirstString(Read(<<a>>)) = Str(Get(claims, a))
      /\ \A a, b : FirstString(Read(<<a, b>>)) =
                      IF Str(Get(claims, a)) # Missing THEN Str(Get(claims, a))
                      ELSE Str(Get(claims, b))
      /\ \A a, b, c : FirstString(Read(<<a, b, c>>)) =
                         IF Str(Get(claims, a)) # Missing THEN Str(Get(claims, a))
                         ELSE IF Str(Get(claims, b)) # Missing THEN Str(Get(claims, b))
                         ELSE Str(Get(claims, c))
  <2>1. /\ \A a : Read(<<a>>) = <<Get(claims, a)>>
        /\ \A a, b : Read(<<a, b>>) = <<Get(claims, a), Get(claims, b)>>
        /\ \A a, b, c : Read(<<a, b, c>>) = <<Get(claims, a), Get(claims, b), Get(claims, c)>>
    OBVIOUS
  <2> HIDE DEF Read
  <2> QED
    BY <2>1, FirstOfOne, FirstOfTwo, FirstOfThree
<1> DEFINE Said(k) == Str(Get(claims, k))
<1>6. /\ Said("preferred_username") = Shouted(p.mail) /\ Shouted(p.mail) # Missing
      /\ Said("given_name") = p.first /\ Said("family_name") = p.last /\ Said("name") = p.display
      /\ Said("title") = p.title /\ Said("department") = p.department
      /\ Said("manager") = p.manager /\ Said("jobTitle") = Missing
      /\ \A k \in {"email", "upn", "givenName", "familyName", "surname", "wids", "division",
                   "employeeId", "employeeNumber", "costCenter", "officeLocation",
                   "physicalDeliveryOfficeName", "managerEmail"} : Said(k) = Missing
  <2>1. /\ Str(Missing) = Missing /\ Str(Text(<<" ">>)) = Missing
        /\ Str(Shouted(p.mail)) = Shouted(p.mail) /\ Shouted(p.mail) # Missing
        /\ Str(p.first) = p.first /\ Str(Padded(p.last)) = p.last /\ Str(p.display) = p.display
        /\ Str(p.title) = p.title /\ Str(p.department) = p.department /\ Str(p.manager) = p.manager
    BY PersonReads, SaysNothing
  <2> QED
    BY <1>3, <2>1
<1> HIDE DEF Read, Keys_
<1> DEFINE Reads1(field, a) == At(field) = Said(a)
           Reads2(field, a, b) == At(field) = IF Said(a) # Missing THEN Said(a) ELSE Said(b)
           Reads3(field, a, b, c) == At(field) = IF Said(a) # Missing THEN Said(a)
                                                 ELSE IF Said(b) # Missing THEN Said(b) ELSE Said(c)
<1>7. /\ Reads3("email", "email", "preferred_username", "upn")
      /\ Reads2("firstName", "given_name", "givenName")
      /\ Reads3("lastName", "family_name", "familyName", "surname")
      /\ Reads2("displayName", "name", "given_name")
      /\ Reads1("department", "department") /\ Reads1("division", "division")
      /\ Reads2("title", "jobTitle", "title")
      /\ Reads2("employeeNumber", "employeeId", "employeeNumber")
      /\ Reads1("costCenter", "costCenter")
      /\ Reads2("officeLocation", "officeLocation", "physicalDeliveryOfficeName")
      /\ Reads2("manager", "manager", "managerEmail")
  <2>1. /\ \A a, field : Keys_(field) = <<a>> => Reads1(field, a)
        /\ \A a, b, field : Keys_(field) = <<a, b>> => Reads2(field, a, b)
        /\ \A a, b, c, field : Keys_(field) = <<a, b, c>> => Reads3(field, a, b, c)
    BY <1>5
  <2> HIDE DEF Reads1, Reads2, Reads3
  <2> QED
    BY <1>4, <2>1
<1> HIDE DEF At, Said
<1>8. At("email") = Shouted(p.mail)
  BY <1>6, <1>7
<1>9. At("firstName") = p.first /\ At("lastName") = p.last
  BY <1>6, <1>7
<1>91. At("displayName") = NameTold(p, "oidc")
  <2>1. p.display # Missing <=> IsText(p.display)
    BY PersonIs, NameIsText
  <2> QED
    BY <1>6, <1>7, <2>1 DEF NameTold
<1>10. At("department") = p.department /\ At("title") = p.title /\ At("manager") = p.manager
  BY <1>6, <1>7
<1>11. /\ At("division") = Missing /\ At("employeeNumber") = Missing
       /\ At("costCenter") = Missing /\ At("officeLocation") = Missing
  BY <1>6, <1>7
<1>12. AttributesShow(attributes, p, "oidc")
  BY <1>10, <1>11 DEF AttributesShow, Field, Fields, ManagerTold
<1>13. ToSet(FlattenSeq(groups)) = p.groups
  <2> DEFINE n == Len(s)
  <2>1. /\ s \in Seq(p.groups) /\ n \in Nat /\ DOMAIN s = 1 .. n
        /\ \A i \in 1 .. n : s[i] \in p.groups /\ Str(s[i]) = s[i]
        /\ {s[i] : i \in 1 .. n} = p.groups
    BY GroupsAre
  <2> HIDE DEF s, n
  <2>2. \A u : AsStringArray(List(u)) = Strings(u)
    BY DEF AsStringArray, IsList, List
  <2>3. Strings(s) \in Seq(p.groups) /\ ToSet(Strings(s)) = p.groups
    <3>1. {Str(s[i]) : i \in 1 .. n} = p.groups
      BY <2>1
    <3>2. /\ \A i \in 1 .. n : Str(s[i]) \in p.groups
          /\ \A g \in p.groups : \E i \in 1 .. n : Str(s[i]) = g
      BY <3>1
    <3>3. ToSet(Strings(s)) = p.groups
      BY <2>1, <3>2, GroupsRead
    <3> QED
      BY <2>1, <3>1, <3>3, StringsAre
  <2>4. Strings(one) \in Seq(p.groups) /\ ToSet(Strings(one)) \subseteq p.groups
    <3>1. CASE p.groups = {}
      <4>1. one = <<>> /\ DOMAIN <<>> = 1 .. 0 /\ 0 \in Nat /\ {Str(<<>>[i]) : i \in 1 .. 0} = {}
        BY <3>1
      <4> HIDE DEF one
      <4> QED
        BY <3>1, <4>1, StringsAre
    <3>2. CASE p.groups # {}
      <4>1. n # 0
        BY <2>1, <3>2
      <4>2. s[1] \in p.groups /\ Str(s[1]) = s[1]
        BY <2>1, <4>1
      <4>3. one = <<s[1]>>
        BY <3>2
      <4>4. DOMAIN one = 1 .. 1 /\ 1 \in Nat /\ one[1] = s[1] /\ 1 .. 1 = {1}
        BY <4>3
      <4> HIDE DEF one
      <4>5. {Str(one[i]) : i \in 1 .. 1} = {s[1]}
        BY <4>2, <4>4
      <4>6. Strings(one) \in Seq({s[1]}) /\ ToSet(Strings(one)) \subseteq {s[1]}
        <5>1. /\ Strings(one) \in Seq({Str(one[i]) : i \in 1 .. 1})
              /\ ToSet(Strings(one)) = {Str(one[i]) : i \in 1 .. 1} \ {Missing}
          BY <4>4, StringsAre
        <5> QED
          BY <4>5, <5>1
      <4>7. {s[1]} \subseteq p.groups
        BY <4>2
      <4> QED
        BY <4>6, <4>7, SeqMonotonic
    <3> QED
      BY <3>1, <3>2
  <2>5. groups = <<Strings(one), Strings(s), <<>>>>
    <3>1. AsStringArray(Missing) = <<>>
      BY DEF AsStringArray, IsList, Missing
    <3>2. groups = <<AsStringArray(Get(claims, "groups")), AsStringArray(Get(claims, "roles")),
                     AsStringArray(Get(claims, "wids"))>>
      BY <1>4
    <3> QED
      BY <1>3, <2>2, <3>1, <3>2
  <2> HIDE DEF one, groups
  <2>6. /\ Len(groups) = 3 /\ DOMAIN groups = 1 .. 3 /\ 1 .. 3 = {1, 2, 3}
        /\ groups[1] = Strings(one) /\ groups[2] = Strings(s) /\ groups[3] = <<>>
    BY <2>5
  <2>7. groups \in Seq(Seq(p.groups))
    <3>1. <<>> \in Seq(p.groups)
      BY EmptySeq
    <3>2. ASSUME NEW V, NEW a \in V, NEW b \in V, NEW c \in V
          PROVE  <<a, b, c>> \in Seq(V)
      OBVIOUS
    <3> QED
      BY <2>3, <2>4, <2>5, <3>1, <3>2
  <2>8. ToSet(FlattenSeq(groups)) = UNION {ToSet(groups[i]) : i \in 1 .. 3}
    BY <2>6, <2>7, FlattenedSet
  <2>9. ToSet(<<>>) = {}
    BY DEF ToSet
  <2> QED
    BY <2>3, <2>4, <2>6, <2>8, <2>9
<1> HIDE DEF attributes, groups
<1>14. Shows(Profile(At("email"), At("externalId"), p.first, p.last, At("displayName"),
                     attributes, FlattenSeq(groups), claims), p, "oidc")
  BY <1>8, <1>91, <1>12, <1>13, PersonIs, ProfileShows
<1> QED
  BY <1>1, <1>9, <1>14 DEF claims

\* Where one of the claims at most has values, they are the ones.
LEMMA SamlReads ==
    ASSUME NEW attributes, NEW n \in Nat, NEW keys, DOMAIN keys = 1 .. n, NEW k,
           \E i \in 1 .. n : keys[i] = k,
           \A i \in 1 .. n : keys[i] = k \/ ValuesIn(Get(attributes, keys[i])) = <<>>
    PROVE  SamlValues(attributes, keys) = ValuesIn(Get(attributes, k))
<1> DEFINE s == [i \in DOMAIN keys |-> ValuesIn(Get(attributes, keys[i]))]
           where == {i \in DOMAIN s : s[i] # <<>>}
           least == CHOOSE i \in where : \A j \in where : i <= j
<1>1. SamlValues(attributes, keys) = IF where = {} THEN <<>> ELSE s[least]
  BY DEF SamlValues, FirstSuch
<1>2. \A i \in 1 .. n : s[i] = ValuesIn(Get(attributes, keys[i]))
  OBVIOUS
<1>3. where \subseteq 1 .. n /\ \A i \in where : s[i] # <<>>
  OBVIOUS
<1>4. \A i \in 1 .. n : s[i] # <<>> => i \in where
  OBVIOUS
<1> HIDE DEF s, where
<1>5. CASE where = {}
  BY <1>1, <1>2, <1>4, <1>5
<1>6. CASE where # {}
  <2>1. least \in where
    BY <1>3, <1>6, LeastOf
  <2> HIDE DEF least
  <2>2. keys[least] = k
    BY <1>2, <1>3, <2>1
  <2> QED
    BY <1>1, <1>2, <1>3, <1>6, <2>1, <2>2
<1> QED
  BY <1>5, <1>6

\* No values to read.
LEMMA ReadsNothing == ValuesIn(Missing) = <<>> /\ ValuesIn(List(<<>>)) = <<>>
<1>1. ~IsList(Missing)
  BY DEF IsList, Missing
<1>2. ValuesIn(Missing) = <<>>
  BY <1>1, SaysNothing, ValuesInAre DEF FirstIn
<1>3. IsList(List(<<>>)) /\ List(<<>>).items = <<>>
  BY DEF IsList, List
<1>4. DOMAIN List(<<>>).items = 1 .. 0 /\ 0 \in Nat
  BY <1>3
<1>5. FirstIn(List(<<>>)) = Missing
  BY <1>3, <1>4, FirstStringNone DEF FirstIn
<1> QED
  BY <1>2, <1>4, <1>5, ValuesInAre

\* One value where there is one, and otherwise the list.
LEMMA OneOrManyRead ==
    ASSUME NEW s, s \in Seq({s[i] : i \in 1 .. Len(s)}),
           \A i \in 1 .. Len(s) : IsText(s[i]) /\ Str(s[i]) # Missing
    PROVE  ToSet(ValuesIn(OneOrMany(s))) = {Str(s[i]) : i \in 1 .. Len(s)}
<1> DEFINE n == Len(s)
<1>1. n \in Nat /\ DOMAIN s = 1 .. n
  BY LenProperties
<1> HIDE DEF n
<1>2. CASE n = 1
  <2> DEFINE v == s[1]
  <2>1. OneOrMany(s) = v
    BY <1>2 DEF OneOrMany, n
  <2>2. 1 .. n = {1}
    BY <1>2
  <2>3. IsText(v) /\ Str(v) # Missing
    BY <2>2 DEF n
  <2>4. ~IsList(v)
    BY <2>3 DEF IsList, IsText
  <2> HIDE DEF v
  <2>5. ToSet(ValuesIn(v)) = {Str(v)} \ {Missing}
    <3>1. /\ 0 \in Nat
          /\ IsList(v) => DOMAIN v.items = 1 .. 0
      BY <2>4
    <3> QED
      BY <2>4, <3>1, ValuesInAre
  <2>6. {Str(s[i]) : i \in 1 .. n} = {Str(v)}
    BY <2>2 DEF v
  <2> QED
    BY <2>1, <2>3, <2>5, <2>6 DEF n
<1>3. CASE n # 1
  <2>1. OneOrMany(s) = List(s)
    BY <1>3 DEF OneOrMany, n
  <2>2. IsList(List(s)) /\ List(s).items = s
    BY DEF IsList, List
  <2>3. ToSet(ValuesIn(List(s))) = {Str(s[i]) : i \in 1 .. n} \ {Missing}
    <3> DEFINE v == List(s)
    <3>1. IsList(v) /\ v.items = s /\ DOMAIN v.items = 1 .. n
      BY <1>1, <2>2
    <3> HIDE DEF v
    <3>2. ToSet(ValuesIn(v)) =
             (IF IsList(v) THEN {Str(v.items[i]) : i \in 1 .. n} ELSE {Str(v)}) \ {Missing}
      BY <1>1, <3>1, ValuesInAre
    <3>3. ToSet(ValuesIn(v)) = {Str(s[i]) : i \in 1 .. n} \ {Missing}
      BY <3>1, <3>2
    <3> QED
      BY <3>3 DEF v
  <2> QED
    BY <2>1, <2>3 DEF n
<1> QED
  BY <1>2, <1>3

\* The first value of a claim, of one value or of some.
LEMMA FirstRead ==
    ASSUME NEW v, NameOrNone(v)
    PROVE  /\ First(ValuesIn(v)) = v /\ First(ValuesIn(Padded(v))) = v
           /\ First(ValuesIn(List(<<Text(<<" ">>), v>>))) = v
           /\ First(ValuesIn(List(<<Padded(v)>>))) = v
<1>1. Str(v) = v /\ Str(Padded(v)) = v /\ Str(Text(<<" ">>)) = Missing
  BY PaddedIsTrimmed, SaysNothing
<1>2. ASSUME NEW u, ~IsList(u)
      PROVE  First(ValuesIn(u)) = Str(u)
  <2>1. 0 \in Nat /\ (IsList(u) => DOMAIN u.items = 1 .. 0)
    BY <1>2
  <2> QED
    BY <1>2, <2>1, ValuesInAre DEF FirstIn
<1>3. ~IsList(v) /\ ~IsList(Padded(v))
  BY NameIsTrim DEF NameOrNone, IsList, IsText, Missing, Padded, Text
<1>4. ASSUME NEW n \in Nat, NEW s, DOMAIN s = 1 .. n
      PROVE  First(ValuesIn(List(s))) = FirstString(s)
  <2>1. IsList(List(s)) /\ List(s).items = s
    BY DEF IsList, List
  <2>2. First(ValuesIn(List(s))) = FirstIn(List(s))
    BY <1>4, <2>1, ValuesInAre
  <2> QED
    BY <2>1, <2>2 DEF FirstIn
<1>5. First(ValuesIn(List(<<Text(<<" ">>), v>>))) = v
  <2>1. DOMAIN <<Text(<<" ">>), v>> = 1 .. 2 /\ 2 \in Nat
    OBVIOUS
  <2>2. FirstString(<<Text(<<" ">>), v>>) = v
    BY <1>1, FirstOfTwo
  <2> QED
    BY <1>4, <2>1, <2>2
<1>6. First(ValuesIn(List(<<Padded(v)>>))) = v
  <2>1. DOMAIN <<Padded(v)>> = 1 .. 1 /\ 1 \in Nat
    OBVIOUS
  <2> QED
    BY <1>1, <1>4, <2>1, FirstOfOne
<1> QED
  BY <1>1, <1>2, <1>3, <1>5, <1>6

\* profileFromSaml, of the attributes of an assertion.
LEMMA SamlShows ==
    ASSUME NEW p, IsPerson(p)
    PROVE  Shows(ProfileFromSaml(AsSaml(p), NoMap), p, "saml")
<1> DEFINE assertion == AsSaml(p)
           Of(field) == SamlValues(assertion.attributes, KeysFor(SamlDefaults, field, NoMap))
           At(field) == First(Of(field))
           email == FirstString(<<At("email"), assertion.nameId>>)
           display == NameOr(At("displayName"), At("firstName"), At("lastName"))
           attributes == [k \in {"department", "division", "title", "employeeNumber", "costCenter",
                                 "officeLocation", "manager"} |-> At(k)]
           Stated(v) == IF IsText(v) THEN List(<<Text(<<" ">>), v>>) ELSE v
           s == Sequence(p.groups)
           g == [k \in {"claims/givenname", "claims/groups"} |->
                   IF k = "claims/givenname" THEN p.first ELSE List(<<>>)]
           h == [sn |-> Stated(p.last), displayName |-> p.display,
                 jobTitle |-> Padded(p.title), department |-> Stated(p.department),
                 managerEmail |-> p.manager, memberOf |-> OneOrMany(s)]
           claims == assertion.attributes
           Values_(k) == ValuesIn(Get(claims, k))
<1>1. ProfileFromSaml(assertion, NoMap) =
         Profile(email, Str(assertion.nameId), At("firstName"), At("lastName"), display,
                 attributes, Of("groups"), claims)
  BY DEF ProfileFromSaml
<1>2. assertion.nameId = Shouted(p.mail) /\ \A k : Get(claims, k) = Field(Over(g, h), k)
  <2>1. assertion.nameId = Shouted(p.mail) /\ claims = Object(Over(g, h))
    BY DEF AsSaml
  <2> HIDE DEF g, h, assertion
  <2> QED
    BY <2>1, GetOf
<1>3. \A k : Field(Over(g, h), k) = IF k \in DOMAIN g THEN g[k] ELSE Field(h, k)
  <2> HIDE DEF g, h
  <2> QED
    BY DEF Field, Over
<1>4. /\ Get(claims, "claims/givenname") = p.first /\ Get(claims, "claims/groups") = List(<<>>)
      /\ Get(claims, "sn") = Stated(p.last) /\ Get(claims, "displayName") = p.display
      /\ Get(claims, "jobTitle") = Padded(p.title) /\ Get(claims, "department") = Stated(p.department)
      /\ Get(claims, "managerEmail") = p.manager /\ Get(claims, "memberOf") = OneOrMany(s)
      /\ \A k : k \notin {"claims/givenname", "claims/groups", "sn", "displayName", "jobTitle",
                          "department", "managerEmail", "memberOf"} => Get(claims, k) = Missing
  <2> HIDE DEF assertion, Stated
  <2> QED
    BY <1>2, <1>3, ZenonT(60) DEF Field
<1> HIDE DEF g, h, claims
<1>5. /\ First(Values_("claims/givenname")) = p.first /\ First(Values_("sn")) = p.last
      /\ First(Values_("displayName")) = p.display /\ First(Values_("jobTitle")) = p.title
      /\ First(Values_("department")) = p.department /\ First(Values_("managerEmail")) = p.manager
  <2>1. ASSUME NEW v, NameOrNone(v)
        PROVE  First(ValuesIn(Stated(v))) = v
    <3>1. IsText(v) \/ v = Missing
      BY <2>1, NameIsTrim DEF NameOrNone
    <3> QED
      BY <2>1, <3>1, FirstRead
  <2> HIDE DEF Stated
  <2> QED
    BY <1>4, <2>1, PersonIs, FirstRead
<1>6. ToSet(Values_("memberOf")) = p.groups
  <2>1. /\ s \in Seq(p.groups) /\ Len(s) \in Nat /\ DOMAIN s = 1 .. Len(s)
        /\ \A i \in 1 .. Len(s) : s[i] \in p.groups /\ IsName(s[i]) /\ Str(s[i]) = s[i]
        /\ {s[i] : i \in 1 .. Len(s)} = p.groups
    BY GroupsAre
  <2> HIDE DEF s
  <2>2. \A i \in 1 .. Len(s) : IsText(s[i]) /\ Str(s[i]) # Missing
    BY <2>1, NameIsTrim
  <2>3. ToSet(ValuesIn(OneOrMany(s))) = {Str(s[i]) : i \in 1 .. Len(s)}
    BY <2>1, <2>2, OneOrManyRead
  <2>4. {Str(s[i]) : i \in 1 .. Len(s)} = p.groups
    BY <2>1
  <2>5. Values_("memberOf") = ValuesIn(OneOrMany(s))
    BY <1>4
  <2> QED
    BY <2>3, <2>4, <2>5
<1>7. \A k : k \notin {"claims/givenname", "sn", "displayName", "jobTitle", "department",
                       "managerEmail", "memberOf"} => Values_(k) = <<>>
  BY <1>4, ReadsNothing
<1> HIDE DEF Values_, Stated, s
<1>8. /\ Of("email") = <<>> /\ Of("firstName") = Values_("claims/givenname")
      /\ Of("lastName") = Values_("sn") /\ Of("displayName") = Values_("displayName")
      /\ Of("groups") = Values_("memberOf") /\ Of("department") = Values_("department")
      /\ Of("division") = <<>> /\ Of("title") = Values_("jobTitle")
      /\ Of("employeeNumber") = <<>> /\ Of("costCenter") = <<>> /\ Of("officeLocation") = <<>>
      /\ Of("manager") = Values_("managerEmail")
  <2> DEFINE Filled_ == {"claims/givenname", "sn", "displayName", "jobTitle", "department",
                         "managerEmail", "memberOf"}
  <2>1. ASSUME NEW field, NEW keys, KeysFor(SamlDefaults, field, NoMap) = keys,
               NEW n \in Nat, DOMAIN keys = 1 .. n, NEW k, \E i \in 1 .. n : keys[i] = k,
               \A i \in 1 .. n : keys[i] = k \/ keys[i] \notin Filled_
        PROVE  Of(field) = Values_(k)
    <3>1. \A i \in 1 .. n : keys[i] = k \/ ValuesIn(Get(claims, keys[i])) = <<>>
      <4> HIDE DEF claims
      <4> QED
        BY <1>7, <2>1 DEF Values_
    <3>2. SamlValues(claims, keys) = ValuesIn(Get(claims, k))
      BY <2>1, <3>1, SamlReads
    <3> QED
      BY <2>1, <3>2 DEF Values_, claims
  <2> HIDE DEF Of
  <2>2. /\ KeysFor(SamlDefaults, "email", NoMap) = <<"claims/emailaddress", "email", "mail", "urn:oid:0.9.2342">>
        /\ KeysFor(SamlDefaults, "firstName", NoMap) = <<"claims/givenname", "givenName", "first_name", "urn:oid:2.5.4.42">>
        /\ KeysFor(SamlDefaults, "lastName", NoMap) = <<"claims/surname", "surname", "sn", "last_name", "urn:oid:2.5.4.4">>
        /\ KeysFor(SamlDefaults, "displayName", NoMap) = <<"claims/displayname", "displayName", "name", "cn">>
        /\ KeysFor(SamlDefaults, "groups", NoMap) = <<"claims/Group", "claims/groups", "claims/role", "groups", "memberOf", "Role">>
        /\ KeysFor(SamlDefaults, "department", NoMap) = <<"claims/department", "department">>
        /\ KeysFor(SamlDefaults, "division", NoMap) = <<"division">>
        /\ KeysFor(SamlDefaults, "title", NoMap) = <<"title", "jobTitle">>
        /\ KeysFor(SamlDefaults, "employeeNumber", NoMap) = <<"employeeNumber", "employeeId", "urn:oid:2.16.840">>
        /\ KeysFor(SamlDefaults, "costCenter", NoMap) = <<"costCenter">>
        /\ KeysFor(SamlDefaults, "officeLocation", NoMap) = <<"officeLocation", "physicalDeliveryOfficeName">>
        /\ KeysFor(SamlDefaults, "manager", NoMap) = <<"manager", "managerEmail">>
    BY KeysByDefault DEF SamlDefaults
  <2>3. Of("email") = Values_("email")
    <3> DEFINE keys == <<"claims/emailaddress", "email", "mail", "urn:oid:0.9.2342">>
    <3>1. DOMAIN keys = 1 .. 4 /\ 4 \in Nat /\ keys[2] = "email" /\ 2 \in 1 .. 4
      OBVIOUS
    <3>2. \A i \in 1 .. 4 : keys[i] = "email" \/ keys[i] \notin Filled_
      OBVIOUS
    <3> HIDE DEF keys, Filled_
    <3> QED
      BY <2>1, <2>2, <3>1, <3>2, ZenonT(60) DEF keys
  <2>4. Of("firstName") = Values_("claims/givenname")
    <3> DEFINE keys == <<"claims/givenname", "givenName", "first_name", "urn:oid:2.5.4.42">>
    <3>1. DOMAIN keys = 1 .. 4 /\ 4 \in Nat /\ keys[1] = "claims/givenname" /\ 1 \in 1 .. 4
      OBVIOUS
    <3>2. \A i \in 1 .. 4 : keys[i] = "claims/givenname" \/ keys[i] \notin Filled_
      OBVIOUS
    <3> HIDE DEF keys, Filled_
    <3> QED
      BY <2>1, <2>2, <3>1, <3>2, ZenonT(60) DEF keys
  <2>5. Of("lastName") = Values_("sn")
    <3> DEFINE keys == <<"claims/surname", "surname", "sn", "last_name", "urn:oid:2.5.4.4">>
    <3>1. DOMAIN keys = 1 .. 5 /\ 5 \in Nat /\ keys[3] = "sn" /\ 3 \in 1 .. 5
      OBVIOUS
    <3>2. \A i \in 1 .. 5 : keys[i] = "sn" \/ keys[i] \notin Filled_
      OBVIOUS
    <3> HIDE DEF keys, Filled_
    <3> QED
      BY <2>1, <2>2, <3>1, <3>2 DEF keys
  <2>6. Of("displayName") = Values_("displayName")
    <3> DEFINE keys == <<"claims/displayname", "displayName", "name", "cn">>
    <3>1. DOMAIN keys = 1 .. 4 /\ 4 \in Nat /\ keys[2] = "displayName" /\ 2 \in 1 .. 4
      OBVIOUS
    <3>2. \A i \in 1 .. 4 : keys[i] = "displayName" \/ keys[i] \notin Filled_
      OBVIOUS
    <3> HIDE DEF keys, Filled_
    <3> QED
      BY <2>1, <2>2, <3>1, <3>2 DEF keys
  <2>7. Of("groups") = Values_("memberOf")
    <3> DEFINE keys == <<"claims/Group", "claims/groups", "claims/role", "groups", "memberOf", "Role">>
    <3>1. DOMAIN keys = 1 .. 6 /\ 6 \in Nat /\ keys[5] = "memberOf" /\ 5 \in 1 .. 6
      OBVIOUS
    <3>2. \A i \in 1 .. 6 : keys[i] = "memberOf" \/ keys[i] \notin Filled_
      OBVIOUS
    <3> HIDE DEF keys, Filled_
    <3> QED
      BY <2>1, <2>2, <3>1, <3>2 DEF keys
  <2>8. Of("department") = Values_("department")
    <3> DEFINE keys == <<"claims/department", "department">>
    <3>1. DOMAIN keys = 1 .. 2 /\ 2 \in Nat /\ keys[2] = "department" /\ 2 \in 1 .. 2
      OBVIOUS
    <3>2. \A i \in 1 .. 2 : keys[i] = "department" \/ keys[i] \notin Filled_
      OBVIOUS
    <3> HIDE DEF keys, Filled_
    <3> QED
      BY <2>1, <2>2, <3>1, <3>2 DEF keys
  <2>9. Of("division") = Values_("division")
    <3> DEFINE keys == <<"division">>
    <3>1. DOMAIN keys = 1 .. 1 /\ 1 \in Nat /\ keys[1] = "division" /\ 1 \in 1 .. 1
      OBVIOUS
    <3>2. \A i \in 1 .. 1 : keys[i] = "division" \/ keys[i] \notin Filled_
      OBVIOUS
    <3> HIDE DEF keys, Filled_
    <3> QED
      BY <2>1, <2>2, <3>1, <3>2 DEF keys
  <2>10. Of("title") = Values_("jobTitle")
    <3> DEFINE keys == <<"title", "jobTitle">>
    <3>1. DOMAIN keys = 1 .. 2 /\ 2 \in Nat /\ keys[2] = "jobTitle" /\ 2 \in 1 .. 2
      OBVIOUS
    <3>2. \A i \in 1 .. 2 : keys[i] = "jobTitle" \/ keys[i] \notin Filled_
      OBVIOUS
    <3> HIDE DEF keys, Filled_
    <3> QED
      BY <2>1, <2>2, <3>1, <3>2 DEF keys
  <2>11. Of("employeeNumber") = Values_("employeeId")
    <3> DEFINE keys == <<"employeeNumber", "employeeId", "urn:oid:2.16.840">>
    <3>1. DOMAIN keys = 1 .. 3 /\ 3 \in Nat /\ keys[2] = "employeeId" /\ 2 \in 1 .. 3
      OBVIOUS
    <3>2. \A i \in 1 .. 3 : keys[i] = "employeeId" \/ keys[i] \notin Filled_
      OBVIOUS
    <3> HIDE DEF keys, Filled_
    <3> QED
      BY <2>1, <2>2, <3>1, <3>2 DEF keys
  <2>12. Of("costCenter") = Values_("costCenter")
    <3> DEFINE keys == <<"costCenter">>
    <3>1. DOMAIN keys = 1 .. 1 /\ 1 \in Nat /\ keys[1] = "costCenter" /\ 1 \in 1 .. 1
      OBVIOUS
    <3>2. \A i \in 1 .. 1 : keys[i] = "costCenter" \/ keys[i] \notin Filled_
      OBVIOUS
    <3> HIDE DEF keys, Filled_
    <3> QED
      BY <2>1, <2>2, <3>1, <3>2 DEF keys
  <2>13. Of("officeLocation") = Values_("officeLocation")
    <3> DEFINE keys == <<"officeLocation", "physicalDeliveryOfficeName">>
    <3>1. DOMAIN keys = 1 .. 2 /\ 2 \in Nat /\ keys[1] = "officeLocation" /\ 1 \in 1 .. 2
      OBVIOUS
    <3>2. \A i \in 1 .. 2 : keys[i] = "officeLocation" \/ keys[i] \notin Filled_
      OBVIOUS
    <3> HIDE DEF keys, Filled_
    <3> QED
      BY <2>1, <2>2, <3>1, <3>2 DEF keys
  <2>14. Of("manager") = Values_("managerEmail")
    <3> DEFINE keys == <<"manager", "managerEmail">>
    <3>1. DOMAIN keys = 1 .. 2 /\ 2 \in Nat /\ keys[2] = "managerEmail" /\ 2 \in 1 .. 2
      OBVIOUS
    <3>2. \A i \in 1 .. 2 : keys[i] = "managerEmail" \/ keys[i] \notin Filled_
      OBVIOUS
    <3> HIDE DEF keys, Filled_
    <3> QED
      BY <2>1, <2>2, <3>1, <3>2 DEF keys
  <2> QED
    BY <1>7, <2>3, <2>4, <2>5, <2>6, <2>7, <2>8, <2>9, <2>10, <2>11, <2>12, <2>13, <2>14
<1> HIDE DEF Of
<1>9. /\ At("email") = Missing /\ At("firstName") = p.first /\ At("lastName") = p.last
      /\ At("displayName") = p.display /\ At("department") = p.department
      /\ At("title") = p.title /\ At("manager") = p.manager
      /\ At("division") = Missing /\ At("employeeNumber") = Missing
      /\ At("costCenter") = Missing /\ At("officeLocation") = Missing
  <2>1. First(<<>>) = Missing
    BY DEF First
  <2> QED
    BY <1>5, <1>8, <2>1
<1> HIDE DEF At
<1>10. ToSet(Of("groups")) = p.groups
  BY <1>6, <1>8
<1>11. email = Shouted(p.mail)
  <2>1. Str(Shouted(p.mail)) = Shouted(p.mail) /\ Str(Missing) = Missing
    BY PersonIs, NameIsTrim, SaysNothing
  <2> QED
    BY <1>2, <1>9, <2>1, FirstOfTwo
<1>12. display = NameTold(p, "saml")
  BY <1>9 DEF NameOr, NameTold
<1>13. AttributesShow(attributes, p, "saml")
  BY <1>9 DEF AttributesShow, Field, Fields, ManagerTold
<1> HIDE DEF email, display, attributes
<1>14. Shows(Profile(email, Str(assertion.nameId), p.first, p.last, display, attributes,
                     Of("groups"), claims), p, "saml")
  BY <1>10, <1>11, <1>12, <1>13, PersonIs, ProfileShows
<1> QED
  BY <1>1, <1>9, <1>14 DEF assertion

\* The groups of a SCIM user are those of its memberships.
LEMMA ScimGroupsIs ==
    ASSUME NEW body, NEW k, IsList(Get(body, k))
    PROVE  LET items == Get(body, k).items
           IN  ScimGroups(body, <<<<k>>>>) = Strings([i \in DOMAIN items |-> ScimGroup(items[i])])
<1> DEFINE items == Get(body, k).items
           paths == <<<<k>>>>
           At(path) == IF Len(path) = 1 THEN Get(body, path[1]) ELSE Missing
           Of(path) == IF ~IsList(At(path)) THEN <<>>
                       ELSE Strings([i \in DOMAIN At(path).items |-> ScimGroup(At(path).items[i])])
           s == [i \in DOMAIN paths |-> Of(paths[i])]
           where == {i \in DOMAIN s : s[i] # <<>>}
           least == CHOOSE i \in where : \A j \in where : i <= j
<1>1. ScimGroups(body, paths) = IF where = {} THEN <<>> ELSE s[least]
  BY DEF ScimGroups, FirstSuch
<1>2. Of(<<k>>) = Strings([i \in DOMAIN items |-> ScimGroup(items[i])])
  <2>1. Len(<<k>>) = 1 /\ <<k>>[1] = k
    BY OneIsSeq
  <2>2. At(<<k>>) = Get(body, k)
    BY <2>1
  <2> HIDE DEF At
  <2> QED
    BY <2>2
<1> HIDE DEF Of
<1>3. DOMAIN s = {1} /\ s[1] = Of(<<k>>)
  BY OneIsSeq
<1> HIDE DEF s
<1>4. CASE s[1] = <<>>
  BY <1>1, <1>2, <1>3, <1>4
<1>5. CASE s[1] # <<>>
  <2>1. where = {1}
    BY <1>3, <1>5
  <2> HIDE DEF where
  <2>2. least \in where
    <3>1. where \subseteq 1 .. 1 /\ where # {} /\ 1 \in Nat
      BY <2>1
    <3> QED
      BY <3>1, LeastOf
  <2> HIDE DEF least
  <2>3. least = 1 /\ where # {}
    BY <2>1, <2>2
  <2> QED
    BY <1>1, <1>2, <1>3, <2>3
<1> QED
  BY <1>4, <1>5

\* Groups listed as objects, of which each says one of them.
LEMMA MembershipsRead ==
    ASSUME NEW p, IsPerson(p), NEW Shape,
           \A g \in p.groups : ScimGroup(Shape[g]) = g,
           NEW items, items = [i \in DOMAIN Sequence(p.groups) |-> Shape[Sequence(p.groups)[i]]]
    PROVE  ToSet(Strings([i \in DOMAIN items |-> ScimGroup(items[i])])) = p.groups
<1> DEFINE s == Sequence(p.groups)
           n == Len(s)
           t == [i \in DOMAIN items |-> ScimGroup(items[i])]
<1>1. /\ s \in Seq(p.groups) /\ n \in Nat /\ DOMAIN s = 1 .. n
      /\ \A i \in 1 .. n : s[i] \in p.groups /\ Str(s[i]) = s[i]
      /\ {s[i] : i \in 1 .. n} = p.groups
  BY GroupsAre
<1> HIDE DEF s, n
<1>2. DOMAIN t = 1 .. n /\ \A i \in 1 .. n : t[i] = s[i]
  <2>1. DOMAIN items = 1 .. n /\ \A i \in 1 .. n : items[i] = Shape[s[i]]
    BY <1>1 DEF s
  <2> QED
    BY <1>1, <2>1
<1> HIDE DEF t
<1>3. /\ \A i \in 1 .. n : Str(t[i]) \in p.groups
      /\ \A g \in p.groups : \E i \in 1 .. n : Str(t[i]) = g
  <2>1. \A i \in 1 .. n : Str(t[i]) = s[i]
    BY <1>1, <1>2
  <2> QED
    BY <1>1, <2>1
<1>4. ToSet(Strings(t)) = p.groups
  BY <1>1, <1>2, <1>3, GroupsRead
<1> QED
  BY <1>4 DEF t

\* profileFromScim, of a SCIM resource.
LEMMA ScimShows ==
    ASSUME NEW p, IsPerson(p)
    PROVE  Shows(ProfileFromScim(AsScim(p), NoMap), p, "scim")
<1> DEFINE body == AsScim(p)
           At(field) == ScimFirst(body, KeysFor(ScimDefaults, field, NoMap))
           display == NameOr(At("displayName"), At("firstName"), At("lastName"))
           attributes == [k \in {"department", "division", "title", "employeeNumber", "costCenter",
                                 "officeLocation", "manager"} |-> At(k)]
           groups == ScimGroups(body, KeysFor(ScimDefaults, "groups", NoMap))
           Shape == [g \in p.groups |-> Object([value |-> Text(<<"g", "1">>), display |-> g])]
           s == Sequence(p.groups)
           items == [i \in DOMAIN s |-> Object([value |-> Text(<<"g", "1">>), display |-> s[i]])]
           name == [givenName |-> Padded(p.first), familyName |-> p.last]
           manager == [value |-> p.manager]
           enterprise == [department |-> p.department, manager |-> Object(manager)]
           f == [userName |-> Shouted(p.mail), externalId |-> p.id, name |-> Object(name),
                 displayName |-> p.display, title |-> p.title, active |-> Flag(p.active),
                 enterprise |-> Object(enterprise), groups |-> List(items)]
<1>1. ProfileFromScim(body, NoMap) =
         Profile(At("email"), At("externalId"), At("firstName"), At("lastName"), display,
                 attributes, groups, body)
  BY DEF ProfileFromScim
<1>2. \A k : Get(body, k) = Field(f, k)
  BY GetOf DEF AsScim
<1>3. /\ Get(body, "userName") = Shouted(p.mail) /\ Get(body, "name") = Object(name)
      /\ Get(body, "displayName") = p.display /\ Get(body, "title") = p.title
      /\ Get(body, "enterprise") = Object(enterprise) /\ Get(body, "groups") = List(items)
      /\ Get(body, "department") = Missing /\ Get(body, "officeLocation") = Missing
  BY <1>2 DEF Field
<1>4. /\ Get(Object(name), "givenName") = Padded(p.first) /\ Get(Object(name), "familyName") = p.last
      /\ Get(Object(enterprise), "department") = p.department
      /\ Get(Object(enterprise), "manager") = Object(manager)
      /\ \A k : k \notin {"department", "manager"} => Get(Object(enterprise), k) = Missing
      /\ Get(Object(manager), "value") = p.manager /\ Get(Object(manager), "$ref") = Missing
  BY GetOf DEF Field
<1> HIDE DEF f, body, name, enterprise, manager, items
<1>5. /\ Str(Missing) = Missing
      /\ Str(Shouted(p.mail)) = Shouted(p.mail) /\ Shouted(p.mail) # Missing
      /\ Str(Padded(p.first)) = p.first /\ Str(p.last) = p.last /\ Str(p.display) = p.display
      /\ Str(p.title) = p.title /\ Str(p.department) = p.department /\ Str(p.manager) = p.manager
      /\ Str(p.first) = p.first
  BY PersonReads, SaysNothing
<1> DEFINE Found(path) == Str(ScimResolve(body, path))
<1>6. /\ Found(<<"userName">>) = Shouted(p.mail)
      /\ Found(<<"name", "givenName">>) = p.first /\ Found(<<"name", "familyName">>) = p.last
      /\ Found(<<"displayName">>) = p.display /\ Found(<<"title">>) = p.title
      /\ Found(<<"enterprise", "department">>) = p.department /\ Found(<<"department">>) = Missing
      /\ Found(<<"enterprise", "division">>) = Missing /\ Found(<<"enterprise", "title">>) = Missing
      /\ Found(<<"enterprise", "employeeNumber">>) = Missing
      /\ Found(<<"enterprise", "costCenter">>) = Missing
      /\ Found(<<"enterprise", "officeLocation">>) = Missing /\ Found(<<"officeLocation">>) = Missing
      /\ Found(<<"enterprise", "manager">>) = p.manager
  <2>1. \A k : k # "emails[primary]" /\ k # "manager" => Found(<<k>>) = Str(Str(Get(body, k)))
    BY ScimResolves
  <2>2. \A k, m : m # "manager" => Found(<<k, m>>) = Str(Str(Get(Get(body, k), m)))
    BY ScimResolves
  <2>3. Found(<<"enterprise", "manager">>) = Str(ScimManagerValue(Object(manager)))
    BY <1>3, <1>4, ScimResolves
  <2>4. ScimManagerValue(Object(manager)) = p.manager
    <3>1. Object(manager).is = "object"
      BY DEF Object
    <3>2. ScimManagerValue(Object(manager)) = FirstString(<<p.manager, Missing>>)
      BY <1>4, <3>1 DEF ScimManagerValue
    <3> QED
      BY <1>5, <3>2, FirstOfTwo
  <2> HIDE DEF Found
  <2>5. /\ Found(<<"userName">>) = Shouted(p.mail) /\ Found(<<"displayName">>) = p.display
        /\ Found(<<"title">>) = p.title /\ Found(<<"department">>) = Missing
        /\ Found(<<"officeLocation">>) = Missing
    BY <1>3, <1>5, <2>1
  <2>6. /\ Found(<<"name", "givenName">>) = p.first /\ Found(<<"name", "familyName">>) = p.last
        /\ Found(<<"enterprise", "department">>) = p.department
        /\ Found(<<"enterprise", "division">>) = Missing /\ Found(<<"enterprise", "title">>) = Missing
        /\ Found(<<"enterprise", "employeeNumber">>) = Missing
        /\ Found(<<"enterprise", "costCenter">>) = Missing
        /\ Found(<<"enterprise", "officeLocation">>) = Missing
    BY <1>3, <1>4, <1>5, <2>2
  <2>7. Found(<<"enterprise", "manager">>) = p.manager
    BY <1>5, <2>3, <2>4
  <2> QED
    BY <2>5, <2>6, <2>7
<1>7. /\ \A a, field : KeysFor(ScimDefaults, field, NoMap) = <<a>> => At(field) = Found(a)
      /\ \A a, b, field : KeysFor(ScimDefaults, field, NoMap) = <<a, b>> =>
            At(field) = IF Found(a) # Missing THEN Found(a) ELSE Found(b)
  BY ScimFirstIs
<1> HIDE DEF Found, At
<1>8. /\ KeysFor(ScimDefaults, "email", NoMap) = <<<<"userName">>, <<"emails[primary]">>>>
      /\ KeysFor(ScimDefaults, "firstName", NoMap) = <<<<"name", "givenName">>>>
      /\ KeysFor(ScimDefaults, "lastName", NoMap) = <<<<"name", "familyName">>>>
      /\ KeysFor(ScimDefaults, "displayName", NoMap) = <<<<"displayName">>>>
      /\ KeysFor(ScimDefaults, "groups", NoMap) = <<<<"groups">>>>
      /\ KeysFor(ScimDefaults, "department", NoMap) = <<<<"enterprise", "department">>, <<"department">>>>
      /\ KeysFor(ScimDefaults, "division", NoMap) = <<<<"enterprise", "division">>>>
      /\ KeysFor(ScimDefaults, "title", NoMap) = <<<<"title">>, <<"enterprise", "title">>>>
      /\ KeysFor(ScimDefaults, "employeeNumber", NoMap) = <<<<"enterprise", "employeeNumber">>>>
      /\ KeysFor(ScimDefaults, "costCenter", NoMap) = <<<<"enterprise", "costCenter">>>>
      /\ KeysFor(ScimDefaults, "officeLocation", NoMap) =
            <<<<"enterprise", "officeLocation">>, <<"officeLocation">>>>
      /\ KeysFor(ScimDefaults, "manager", NoMap) = <<<<"enterprise", "manager">>>>
  BY KeysByDefault DEF ScimDefaults
<1>9. At("email") = Shouted(p.mail)
  BY <1>5, <1>6, <1>7, <1>8
<1>10. /\ At("firstName") = p.first /\ At("lastName") = p.last /\ At("displayName") = p.display
       /\ At("department") = p.department /\ At("title") = p.title /\ At("manager") = p.manager
       /\ At("division") = Missing /\ At("employeeNumber") = Missing
       /\ At("costCenter") = Missing /\ At("officeLocation") = Missing
  <2>1. At("firstName") = p.first /\ At("lastName") = p.last
    BY <1>6, <1>7, <1>8
  <2>2. At("displayName") = p.display /\ At("manager") = p.manager
    BY <1>6, <1>7, <1>8
  <2>3. At("department") = p.department /\ At("title") = p.title
    BY <1>6, <1>7, <1>8, SMTT(30)
  <2>4. At("division") = Missing /\ At("employeeNumber") = Missing
    BY <1>6, <1>7, <1>8
  <2>5. At("costCenter") = Missing /\ At("officeLocation") = Missing
    BY <1>6, <1>7, <1>8, SMTT(30)
  <2> QED
    BY <2>1, <2>2, <2>3, <2>4, <2>5
<1>11. ToSet(groups) = p.groups
  <2>1. \A g \in p.groups : ScimGroup(Shape[g]) = g
    <3> TAKE g \in p.groups
    <3> DEFINE o == [value |-> Text(<<"g", "1">>), display |-> g]
    <3>1. Str(g) = g /\ g # Missing
      BY PersonIs, NameIsTrim
    <3>2. Get(Object(o), "display") = g /\ Object(o).is = "object"
      BY GetOf DEF Field, Object
    <3>3. ScimGroup(Object(o)) = FirstString(<<g, Get(Object(o), "value")>>)
      BY <3>2 DEF ScimGroup
    <3> HIDE DEF o
    <3>4. ScimGroup(Object(o)) = g
      BY <3>1, <3>3, FirstOfTwo
    <3> QED
      BY <3>4 DEF o
  <2>2. items = [i \in DOMAIN s |-> Shape[s[i]]]
    <3>1. DOMAIN s = 1 .. Len(s) /\ \A i \in 1 .. Len(s) : s[i] \in p.groups
      BY GroupsAre
    <3> HIDE DEF s
    <3> QED
      BY <3>1 DEF items
  <2> HIDE DEF Shape
  <2>3. ToSet(Strings([i \in DOMAIN items |-> ScimGroup(items[i])])) = p.groups
    BY <2>1, <2>2, MembershipsRead
  <2>4. IsList(Get(body, "groups")) /\ Get(body, "groups").items = items
    BY <1>3 DEF IsList, List
  <2>5. groups = Strings([i \in DOMAIN items |-> ScimGroup(items[i])])
    BY <1>8, <2>4, ScimGroupsIs
  <2> QED
    BY <2>3, <2>5
<1>12. display = NameTold(p, "scim")
  BY <1>10 DEF NameOr, NameTold
<1>13. AttributesShow(attributes, p, "scim")
  BY <1>10 DEF AttributesShow, Field, Fields, ManagerTold
<1> HIDE DEF display, attributes, groups
<1>14. Shows(Profile(At("email"), At("externalId"), p.first, p.last, display, attributes, groups,
                     body), p, "scim")
  BY <1>9, <1>11, <1>12, <1>13, PersonIs, ProfileShows
<1> QED
  BY <1>1, <1>10, <1>14 DEF body

\* A flag that is set is no other value.
LEMMA FlagsDiffer ==
    /\ Flag(TRUE) # Flag(FALSE) /\ Flag(TRUE) # Missing /\ Flag(TRUE) # Null
    /\ \A w : Flag(TRUE) # Text(w)
    /\ Truthy(Flag(TRUE)) /\ ~Truthy(Missing)
<1>1. Flag(TRUE).on /\ ~Flag(FALSE).on
  BY DEF Flag
<1>2. Flag(TRUE) # Flag(FALSE)
  BY <1>1
<1>3. /\ Flag(TRUE).is = "flag" /\ Missing.is = "missing" /\ Null.is = "null"
      /\ \A w : Text(w).is = "text"
  BY DEF Flag, Missing, Null, Text
<1>4. Flag(TRUE) # Missing /\ Flag(TRUE) # Null /\ \A w : Flag(TRUE) # Text(w)
  BY <1>3
<1> QED
  BY <1>2, <1>4 DEF Truthy

\* The second of two characters, where the first is a blank.
LEMMA SecondOfTwo ==
    ASSUME NEW w, Len(w) = 2, NEW blank, w[1] = blank
    PROVE  2 \in 1 .. Len(w) /\ \A i \in 1 .. Len(w) : w[i] # blank => 2 <= i /\ i <= 2
<1>1. 1 .. 2 = {1, 2}
  OBVIOUS
<1>2. ASSUME NEW i \in {1, 2}, w[i] # blank
      PROVE  i = 2
  BY <1>2
<1> QED
  BY <1>1, <1>2

\* Of two entries the marked one is the second.
LEMMA SecondIsPrimary ==
    ASSUME NEW a, NEW b, Get(a, "primary") = Missing, Get(b, "primary") = Flag(TRUE)
    PROVE  /\ PrimaryOrganization(List(<<a, b>>)) = b
           /\ PrimaryAddress(List(<<a, b>>)) = b
<1> DEFINE s == <<a, b>>
           v == List(s)
           Truthys == {i \in DOMAIN s : Truthy(Get(s[i], "primary"))}
           Trues == {i \in DOMAIN s : Get(s[i], "primary") = Flag(TRUE)}
<1>0. IsList(v) /\ v.items = s /\ s # <<>>
  BY DEF IsList, List
<1>1. DOMAIN s = 1 .. 2 /\ 1 .. 2 = {1, 2} /\ s[1] = a /\ s[2] = b
  OBVIOUS
<1>2. PrimaryOrganization(v) =
         IF ~IsList(v) \/ v.items = <<>> THEN Missing
         ELSE IF {i \in DOMAIN v.items : Truthy(Get(v.items[i], "primary"))} = {} THEN v.items[1]
         ELSE v.items[CHOOSE i \in {n \in DOMAIN v.items : Truthy(Get(v.items[n], "primary"))} :
                   \A j \in {n \in DOMAIN v.items : Truthy(Get(v.items[n], "primary"))} : i <= j]
  BY DEF PrimaryOrganization, PrimaryOf, FirstSuch
<1>3. PrimaryAddress(v) =
         IF ~IsList(v) \/ v.items = <<>> THEN Missing
         ELSE IF {i \in DOMAIN v.items : Get(v.items[i], "primary") = Flag(TRUE)} = {} THEN v.items[1]
         ELSE v.items[CHOOSE i \in {n \in DOMAIN v.items : Get(v.items[n], "primary") = Flag(TRUE)} :
                   \A j \in {n \in DOMAIN v.items : Get(v.items[n], "primary") = Flag(TRUE)} : i <= j]
  BY DEF PrimaryAddress, PrimaryOf, FirstSuch
<1> HIDE DEF s, v
<1>4. Truthys = {2} /\ Trues = {2}
  BY <1>1, FlagsDiffer
<1>5. PrimaryOrganization(v) =
         IF Truthys = {} THEN s[1] ELSE s[CHOOSE i \in Truthys : \A j \in Truthys : i <= j]
  BY <1>0, <1>2
<1>6. PrimaryAddress(v) = IF Trues = {} THEN s[1] ELSE s[CHOOSE i \in Trues : \A j \in Trues : i <= j]
  BY <1>0, <1>3
<1> HIDE DEF Truthys, Trues
<1>7. (CHOOSE i \in {2} : \A j \in {2} : i <= j) = 2
  BY LeastOfOne
<1> QED
  BY <1>1, <1>4, <1>5, <1>6, <1>7 DEF v, s

\* The types of the relations a directory gives, one padded and in capitals.
LEMMA RelationTypes ==
    /\ Str(Text(<<"spouse">>)) = Text(<<"spouse">>)
    /\ Str(Text(<<" ", "MANAGER">>)) = Text(<<"MANAGER">>)
    /\ Lower(Text(<<"spouse">>)) # Text(<<"manager">>)
    /\ Lower(Text(<<"MANAGER">>)) = Text(<<"manager">>) /\ Text(<<"MANAGER">>) # Missing
<1>1. Trim(<<"spouse">>) = <<"spouse">>
  <2> DEFINE w == <<"spouse">>
  <2>1. w \in Seq({"spouse"}) /\ Len(w) = 1 /\ w[1] = "spouse" /\ "spouse" # " "
    BY OneIsSeq
  <2> HIDE DEF w
  <2>2. 1 \in 1 .. Len(w) /\ \A i \in 1 .. Len(w) : 1 <= i /\ i <= 1
    BY <2>1
  <2>3. Trim(w) = SubSeq(w, 1, 1)
    BY <2>1, <2>2, TrimIs
  <2>4. SubSeq(w, 1, 1) = w
    BY <2>1, SubSeqFull
  <2> QED
    BY <2>3, <2>4 DEF w
<1>2. Trim(<<" ", "MANAGER">>) = <<"MANAGER">>
  <2> DEFINE w == <<" ", "MANAGER">>
  <2>1. /\ w \in Seq({" ", "MANAGER"}) /\ Len(w) = 2 /\ w[1] = " " /\ w[2] = "MANAGER"
        /\ "MANAGER" # " "
    OBVIOUS
  <2> HIDE DEF w
  <2>2. 2 \in 1 .. Len(w) /\ \A i \in 1 .. Len(w) : w[i] # " " => 2 <= i /\ i <= 2
    BY <2>1, SecondOfTwo
  <2>3. Trim(w) = SubSeq(w, 2, 2)
    BY <2>1, <2>2, TrimIs
  <2>4. SubSeq(w, 2, 2) = <<"MANAGER">>
    BY PairIs DEF w
  <2> QED
    BY <2>3, <2>4 DEF w
<1>3. /\ \A w : Text(w).word = w /\ Text(w).is = "text"
      /\ <<"spouse">> # <<>> /\ <<"MANAGER">> # <<>>
  BY DEF Text
<1>4. \A w : IsText(Text(w))
  BY <1>3 DEF IsText
<1>5. Str(Text(<<"spouse">>)) = Text(<<"spouse">>)
  BY <1>1, <1>3, <1>4 DEF Str, TrimmedOr, Filled
<1>6. Str(Text(<<" ", "MANAGER">>)) = Text(<<"MANAGER">>)
  BY <1>2, <1>3, <1>4 DEF Str, TrimmedOr, Filled
<1>7. LowerCase(<<"spouse">>)[1] = "spouse"
  <2>1. DOMAIN <<"spouse">> = {1} /\ <<"spouse">>[1] = "spouse"
    BY OneIsSeq
  <2> QED
    BY <2>1, SyllablesAssumption DEF LowerCase
<1>8. LowerCase(<<"MANAGER">>) = <<"manager">>
  <2>1. LowerCase(<<"MANAGER">>) = [i \in {1} |-> "manager"]
    <3>1. DOMAIN <<"MANAGER">> = {1} /\ <<"MANAGER">>[1] = "MANAGER"
      BY OneIsSeq
    <3> QED
      BY <3>1, SyllablesAssumption DEF LowerCase
  <2>2. <<"manager">> = [i \in {1} |-> "manager"]
    OBVIOUS
  <2> QED
    BY <2>1, <2>2
<1>9. Lower(Text(<<"MANAGER">>)) = Text(<<"manager">>)
  BY <1>3, <1>8 DEF Lower
<1>10. Lower(Text(<<"spouse">>)) # Text(<<"manager">>)
  <2>1. Lower(Text(<<"spouse">>)).word[1] = "spouse"
    BY <1>3, <1>7 DEF Lower
  <2>2. Text(<<"manager">>).word[1] = "manager" /\ "spouse" # "manager"
    BY <1>3
  <2> QED
    BY <2>1, <2>2
<1>11. Text(<<"MANAGER">>) # Missing
  <2>1. Missing.is = "missing"
    BY DEF Missing
  <2> QED
    BY <1>3, <2>1
<1> QED
  BY <1>5, <1>6, <1>9, <1>10, <1>11

\* Of two relations the manager is the second.
LEMMA SecondIsManager ==
    ASSUME NEW a, NEW b, Get(a, "type") = Text(<<"spouse">>),
           Get(b, "type") = Text(<<" ", "MANAGER">>)
    PROVE  ManagerAmong(<<a, b>>) = b
<1> DEFINE s == <<a, b>>
           Type(r) == Str(Get(r, "type"))
           Managers == {i \in DOMAIN s : Type(s[i]) # Missing /\ Lower(Type(s[i])) = Text(<<"manager">>)}
<1>1. DOMAIN s = {1, 2} /\ s[1] = a /\ s[2] = b
  BY PairIs
<1>2. ManagerAmong(s) =
         IF Managers = {} THEN Missing ELSE s[CHOOSE i \in Managers : \A j \in Managers : i <= j]
  BY DEF ManagerAmong, FirstSuch
<1> HIDE DEF s
<1>5. /\ Type(a) = Text(<<"spouse">>) /\ Type(b) = Text(<<"MANAGER">>)
      /\ Lower(Type(a)) # Text(<<"manager">>) /\ Lower(Type(b)) = Text(<<"manager">>)
      /\ Type(b) # Missing
  BY RelationTypes
<1> HIDE DEF Type
<1>8. Managers = {2}
  BY <1>1, <1>5
<1> HIDE DEF Managers
<1>9. (CHOOSE i \in {2} : \A j \in {2} : i <= j) = 2
  BY PairIs
<1>10. ManagerAmong(s) = b
  BY <1>1, <1>2, <1>8, <1>9
<1> QED
  BY <1>10 DEF s

\* profileFromGoogle, of a user of the Directory API: its second organization is primary.
LEMMA GoogleShows ==
    ASSUME NEW p, IsPerson(p)
    PROVE  Shows(ProfileFromGoogle(AsGoogle(p)), p, "google")
<1> DEFINE user == AsGoogle(p)
           At(v, k) == Str(Get(v, k))
           name == Get(user, "name")
           org == PrimaryOrganization(Get(user, "organizations"))
           relations == IF IsList(Get(user, "relations")) THEN Get(user, "relations").items ELSE <<>>
           manager == ManagerAmong(relations)
           display == NameOr(At(name, "fullName"), At(name, "givenName"), At(name, "familyName"))
           attributes == [department |-> At(org, "department"), title |-> At(org, "title"),
                          costCenter |-> At(org, "costCenter"), officeLocation |-> At(org, "location"),
                          manager |-> At(manager, "value")]
           groups == AsStringArray(Get(user, "groups"))
<1>1. ProfileFromGoogle(user) =
         Profile(At(user, "primaryEmail"), At(user, "id"), At(name, "givenName"),
                 At(name, "familyName"), display, attributes, groups, Object(<<>>))
  BY DEF ProfileFromGoogle
<1> DEFINE names == [givenName |-> p.first, familyName |-> p.last, fullName |-> p.display]
           former == [department |-> Text(<<"former">>), title |-> Text(<<"former">>)]
           current == [department |-> OrNull(p.department), title |-> p.title, primary |-> Flag(TRUE)]
           spouse == [type |-> Text(<<"spouse">>), value |-> Text(<<"home">>)]
           boss == [type |-> Text(<<" ", "MANAGER">>), value |-> p.manager]
           f == [id |-> p.id, primaryEmail |-> Shouted(p.mail), suspended |-> Flag(~p.active),
                 name |-> Object(names), organizations |-> List(<<Object(former), Object(current)>>),
                 relations |-> List(<<Object(spouse), Object(boss)>>),
                 groups |-> List(Sequence(p.groups))]
<1>2. \A k : Get(user, k) = Field(f, k)
  BY GetOf DEF AsGoogle
<1>3. /\ Get(user, "id") = p.id /\ Get(user, "primaryEmail") = Shouted(p.mail)
      /\ name = Object(names)
      /\ Get(user, "organizations") = List(<<Object(former), Object(current)>>)
      /\ Get(user, "relations") = List(<<Object(spouse), Object(boss)>>)
      /\ Get(user, "groups") = List(Sequence(p.groups))
  BY <1>2 DEF Field
<1>4. /\ Field(names, "givenName") = p.first /\ Field(names, "familyName") = p.last
      /\ Field(names, "fullName") = p.display
      /\ Field(former, "primary") = Missing /\ Field(current, "primary") = Flag(TRUE)
      /\ Field(current, "department") = OrNull(p.department) /\ Field(current, "title") = p.title
      /\ Field(current, "costCenter") = Missing /\ Field(current, "location") = Missing
      /\ Field(spouse, "type") = Text(<<"spouse">>)
      /\ Field(boss, "type") = Text(<<" ", "MANAGER">>) /\ Field(boss, "value") = p.manager
  BY DEF Field
<1> HIDE DEF f, user, names, former, current, spouse, boss
<1>5. org = Object(current)
  <2>1. Get(Object(former), "primary") = Missing /\ Get(Object(current), "primary") = Flag(TRUE)
    BY <1>4, GetOf
  <2>2. PrimaryOrganization(List(<<Object(former), Object(current)>>)) = Object(current)
    BY <2>1, SecondIsPrimary
  <2> QED
    BY <1>3, <2>2
<1>6. manager = Object(boss)
  <2>1. relations = <<Object(spouse), Object(boss)>>
    BY <1>3 DEF IsList, List
  <2>2. /\ Get(Object(spouse), "type") = Text(<<"spouse">>)
        /\ Get(Object(boss), "type") = Text(<<" ", "MANAGER">>)
    BY <1>4, GetOf
  <2>3. ManagerAmong(<<Object(spouse), Object(boss)>>) = Object(boss)
    BY <2>2, SecondIsManager
  <2> QED
    BY <2>1, <2>3
<1> HIDE DEF org, manager, name
<1>7. /\ At(user, "id") = Str(p.id) /\ At(user, "primaryEmail") = Str(Shouted(p.mail))
      /\ At(name, "givenName") = Str(p.first) /\ At(name, "familyName") = Str(p.last)
      /\ At(name, "fullName") = Str(p.display)
      /\ At(org, "department") = Str(OrNull(p.department)) /\ At(org, "title") = Str(p.title)
      /\ At(org, "costCenter") = Str(Missing) /\ At(org, "location") = Str(Missing)
      /\ At(manager, "value") = Str(p.manager)
  BY <1>3, <1>4, <1>5, <1>6, GetOf
<1>8. ToSet(groups) = p.groups
  BY <1>3, ListsRead
<1>9. /\ At(user, "primaryEmail") = Shouted(p.mail)
      /\ At(name, "givenName") = p.first /\ At(name, "familyName") = p.last
      /\ At(name, "fullName") = p.display
      /\ At(org, "department") = p.department /\ At(org, "title") = p.title
      /\ At(org, "costCenter") = Missing /\ At(org, "location") = Missing
      /\ At(manager, "value") = p.manager
  BY <1>7, PersonReads, SaysNothing
<1> HIDE DEF At
<1>10. display = NameTold(p, "google")
  BY <1>9 DEF NameOr, NameTold
<1>11. AttributesShow(attributes, p, "google")
  BY <1>9 DEF AttributesShow, Field, Fields, ManagerTold
<1> HIDE DEF display, attributes, groups
<1>12. Shows(Profile(Shouted(p.mail), At(user, "id"), p.first, p.last, display, attributes, groups,
                     Object(<<>>)), p, "google")
  BY <1>8, <1>10, <1>11, PersonIs, ProfileShows
<1> QED
  BY <1>1, <1>9, <1>12 DEF user

\* And accountActiveFromGoogle, whether the account is suspended.
LEMMA GoogleActive ==
    ASSUME NEW p, IsPerson(p)
    PROVE  AccountActiveFromGoogle(AsGoogle(p)) = p.active
<1> DEFINE f == [id |-> p.id, primaryEmail |-> Shouted(p.mail), suspended |-> Flag(~p.active),
                 name |-> Object([givenName |-> p.first, familyName |-> p.last,
                                  fullName |-> p.display]),
                 organizations |->
                     List(<<Object([department |-> Text(<<"former">>),
                                    title |-> Text(<<"former">>)]),
                            Object([department |-> OrNull(p.department), title |-> p.title,
                                    primary |-> Flag(TRUE)])>>),
                 relations |->
                     List(<<Object([type |-> Text(<<"spouse">>), value |-> Text(<<"home">>)]),
                            Object([type |-> Text(<<" ", "MANAGER">>), value |-> p.manager])>>),
                 groups |-> List(Sequence(p.groups))]
<1>0. Field(f, "suspended") = Flag(~p.active)
  BY DEF Field
<1>1. Get(AsGoogle(p), "suspended") = Flag(~p.active)
  <2>1. AsGoogle(p) = Object(f)
    BY DEF AsGoogle
  <2> HIDE DEF f
  <2> QED
    BY <1>0, <2>1, GetOf
<1> HIDE DEF f
<1>2. p.active \in BOOLEAN /\ Flag(FALSE) # Flag(TRUE)
  BY PersonIs, FlagsDiffer
<1> QED
  BY <1>1, <1>2 DEF AccountActiveFromGoogle

\* The projection of the canonical SCIM user keeps the email as it is spelled.
LEMMA SpelledShows ==
    ASSUME NEW p, NEW externalId, NEW display, display = NameTold(p, "scimUser"),
           NEW attributes, AttributesShow(attributes, p, "scimUser"),
           NEW groups, ToSet(groups) = p.groups, NEW claims
    PROVE  Shows([Profile(Missing, externalId, p.first, p.last, display, attributes, groups, claims)
                    EXCEPT !.email = Shouted(p.mail)], p, "scimUser")
<1> DEFINE rich == Profile(Missing, externalId, p.first, p.last, display, attributes, groups, claims)
           spelled == [rich EXCEPT !.email = Shouted(p.mail)]
<1>1. Describes(rich, p, "scimUser")
  BY ProfileDescribes
<1>2. MailTold(p, "scimUser") = Shouted(p.mail)
  BY DEF MailTold
<1> HIDE DEF rich
<1>4. /\ spelled = [email |-> Shouted(p.mail), externalId |-> rich.externalId,
                    firstName |-> rich.firstName, lastName |-> rich.lastName,
                    displayName |-> rich.displayName, attributes |-> rich.attributes,
                    groups |-> rich.groups, claims |-> rich.claims]
  BY <1>1 DEF Describes
<1> HIDE DEF spelled
<1>5. /\ spelled.email = Shouted(p.mail) /\ spelled.firstName = rich.firstName
      /\ spelled.lastName = rich.lastName /\ spelled.displayName = rich.displayName
      /\ spelled.attributes = rich.attributes /\ spelled.groups = rich.groups
      /\ spelled.externalId = rich.externalId /\ spelled.claims = rich.claims
  BY <1>4
<1>6. spelled = [email |-> spelled.email, externalId |-> spelled.externalId,
                 firstName |-> spelled.firstName, lastName |-> spelled.lastName,
                 displayName |-> spelled.displayName, attributes |-> spelled.attributes,
                 groups |-> spelled.groups, claims |-> spelled.claims]
  BY <1>4, <1>5
<1>7. /\ rich.firstName = OrNull(p.first) /\ rich.lastName = OrNull(p.last)
      /\ rich.displayName = OrNull(NameTold(p, "scimUser"))
      /\ rich.groups = p.groups
      /\ \A k \in Keys :
            Field(rich.attributes, k) = IF k \in Fields THEN FieldTold(p, k, "scimUser") ELSE Missing
  BY <1>1 DEF Describes
<1>8. Shows(spelled, p, "scimUser")
  BY <1>2, <1>5, <1>6, <1>7 DEF Shows, Describes
<1> QED
  BY <1>8 DEF spelled, rich

\* projectScimUser, of a user as serialize.ts renders it: the email keeps its capitals.
LEMMA ScimUserShows ==
    ASSUME NEW p, IsPerson(p)
    PROVE  Shows(ProjectScimUser(AsScimUser(p)), p, "scimUser")
<1> DEFINE user == AsScimUser(p)
           At(v, k) == Str(Get(v, k))
           Primary(k) == PrimaryAddress(Get(user, k))
           enterprise == Get(user, "enterprise")
           address == Primary("addresses")
           groups == IF IsList(Get(user, "groups")) THEN Get(user, "groups").items ELSE <<>>
           email == FirstString(<<Get(Primary("emails"), "value"), Get(user, "userName")>>)
           extensions == Get(user, "extensions")
           others == IF extensions = Missing THEN <<>> ELSE extensions.fields
           manager == Get(enterprise, "manager")
           name == Get(user, "name")
           scalars ==
             [department |-> At(enterprise, "department"), division |-> At(enterprise, "division"),
              employeeNumber |-> At(enterprise, "employeeNumber"),
              costCenter |-> At(enterprise, "costCenter"),
              organization |-> At(enterprise, "organization"),
              manager |-> FirstString(<<Get(manager, "value"), Get(manager, "displayName")>>),
              title |-> At(user, "title"), preferredLanguage |-> At(user, "preferredLanguage"),
              locale |-> At(user, "locale"), timezone |-> At(user, "timezone"),
              employeeType |-> At(user, "userType"),
              phoneNumber |-> Str(Get(Primary("phoneNumbers"), "value")),
              streetAddress |-> At(address, "streetAddress"), city |-> At(address, "locality"),
              state |-> At(address, "region"), postalCode |-> At(address, "postalCode"),
              country |-> At(address, "country"),
              extensions |-> IF others = <<>> THEN Missing ELSE extensions]
           display == FirstString(<<Get(user, "displayName"), Get(name, "formatted")>>)
           memberships == Strings([i \in DOMAIN groups |-> ScimGroup(groups[i])])
           claims == Object(Over([enterprise |-> enterprise], others))
<1>1. ProjectScimUser(user) =
         [Profile(Missing, At(user, "externalId"), At(name, "givenName"), At(name, "familyName"),
                  display, scalars, memberships, claims)
            EXCEPT !.email = IF email = Missing THEN Text(<<>>) ELSE email]
  BY DEF ProjectScimUser
<1> DEFINE s == Sequence(p.groups)
           items == [i \in DOMAIN s |-> Object([value |-> s[i]])]
           home == [value |-> Text(<<"home">>)]
           work == [value |-> Padded(Shouted(p.mail)), primary |-> Flag(TRUE)]
           names == [givenName |-> p.first, familyName |-> p.last, formatted |-> Padded(p.display)]
           boss == [value |-> Padded(p.manager), displayName |-> p.managerName]
           post == [department |-> Padded(p.department), manager |-> Object(boss)]
           f == [userName |-> Text(<<"login">>), externalId |-> p.id,
                 emails |-> List(<<Object(home), Object(work)>>), name |-> Object(names),
                 title |-> p.title, active |-> Flag(p.active), enterprise |-> Object(post),
                 groups |-> List(items)]
           Unsaid == {"addresses", "phoneNumbers", "extensions", "displayName", "preferredLanguage",
                      "locale", "timezone", "userType"}
<1>2. \A k : Get(user, k) = Field(f, k)
  BY GetOf DEF AsScimUser
<1>3. /\ Get(user, "userName") = Text(<<"login">>)
      /\ Get(user, "emails") = List(<<Object(home), Object(work)>>)
      /\ name = Object(names) /\ Get(user, "title") = p.title /\ enterprise = Object(post)
      /\ Get(user, "groups") = List(items)
      /\ \A k \in Unsaid : Get(user, k) = Missing
  BY <1>2 DEF Field
<1>4. /\ Get(Object(home), "primary") = Missing /\ Get(Object(work), "primary") = Flag(TRUE)
      /\ Get(Object(work), "value") = Padded(Shouted(p.mail))
      /\ Get(Object(names), "givenName") = p.first /\ Get(Object(names), "familyName") = p.last
      /\ Get(Object(names), "formatted") = Padded(p.display)
      /\ Get(Object(post), "department") = Padded(p.department)
      /\ Get(Object(post), "manager") = Object(boss)
      /\ \A k \in {"division", "employeeNumber", "costCenter", "organization"} :
            Get(Object(post), k) = Missing
      /\ Get(Object(boss), "value") = Padded(p.manager)
      /\ Get(Object(boss), "displayName") = p.managerName
  <2>1. /\ Field(home, "primary") = Missing /\ Field(work, "primary") = Flag(TRUE)
        /\ Field(work, "value") = Padded(Shouted(p.mail))
    BY DEF Field
  <2>2. /\ Field(names, "givenName") = p.first /\ Field(names, "familyName") = p.last
        /\ Field(names, "formatted") = Padded(p.display)
        /\ Field(boss, "value") = Padded(p.manager) /\ Field(boss, "displayName") = p.managerName
    BY DEF Field
  <2>3. /\ Field(post, "department") = Padded(p.department) /\ Field(post, "manager") = Object(boss)
        /\ \A k \in {"division", "employeeNumber", "costCenter", "organization"} :
              Field(post, k) = Missing
    BY DEF Field
  <2> HIDE DEF home, work, post, boss, names
  <2> QED
    BY <2>1, <2>2, <2>3, GetOf, ZenonT(60)
<1>5. \A k : Get(Missing, k) = Missing
  BY GetOf
<1> HIDE DEF f, user, names, home, work, post, boss, items
<1>6. Primary("emails") = Object(work)
  <2>1. PrimaryAddress(List(<<Object(home), Object(work)>>)) = Object(work)
    BY <1>4, SecondIsPrimary
  <2> QED
    BY <1>3, <2>1
<1>7. PrimaryAddress(Missing) = Missing
  <2>1. ~IsList(Missing)
    BY DEF IsList, Missing
  <2> QED
    BY <2>1 DEF PrimaryAddress, PrimaryOf
<1>8. Primary("phoneNumbers") = Missing /\ address = Missing
  BY <1>3, <1>7
<1> HIDE DEF Primary, address
<1>9. email = Shouted(p.mail)
  <2>1. Str(Padded(Shouted(p.mail))) = Shouted(p.mail) /\ Shouted(p.mail) # Missing
    BY PersonIs, PaddedIsTrimmed, NameIsTrim DEF NameOrNone
  <2>2. email = FirstString(<<Padded(Shouted(p.mail)), Get(user, "userName")>>)
    BY <1>4, <1>6
  <2> QED
    BY <2>1, <2>2, FirstOfTwo
<1>10. /\ Str(Missing) = Missing /\ Str(p.first) = p.first /\ Str(p.last) = p.last
       /\ Str(Padded(p.display)) = p.display /\ Str(Padded(p.department)) = p.department
       /\ Str(p.title) = p.title /\ Str(Padded(p.manager)) = p.manager
  BY PersonReads, SaysNothing
<1>11. display = p.display
  <2>1. display = FirstString(<<Missing, Padded(p.display)>>)
    BY <1>3, <1>4
  <2> QED
    BY <1>10, <2>1, FirstOfTwo
<1>12. FirstString(<<Get(manager, "value"), Get(manager, "displayName")>>) = p.manager
  <2>1. Get(manager, "value") = Padded(p.manager) /\ Get(manager, "displayName") = p.managerName
    BY <1>3, <1>4
  <2>2. p.manager = Missing => Str(p.managerName) = p.manager
    BY <1>10, PersonIs
  <2> QED
    BY <1>10, <2>1, <2>2, FirstOfTwo
<1>13. /\ At(name, "givenName") = p.first /\ At(name, "familyName") = p.last
       /\ At(user, "title") = p.title /\ At(enterprise, "department") = p.department
       /\ \A k \in {"division", "employeeNumber", "costCenter", "organization"} :
             At(enterprise, k) = Missing
       /\ \A k \in Unsaid : At(user, k) = Missing
       /\ \A k : At(address, k) = Missing
       /\ Str(Get(Primary("phoneNumbers"), "value")) = Missing
       /\ extensions = Missing /\ others = <<>>
  BY <1>3, <1>4, <1>5, <1>8, <1>10
<1>14. ToSet(memberships) = p.groups
  <2> DEFINE Shape == [g \in p.groups |-> Object([value |-> g])]
  <2>1. \A g \in p.groups : ScimGroup(Shape[g]) = g
    <3> TAKE g \in p.groups
    <3> DEFINE o == [value |-> g]
    <3>1. Str(g) = g /\ g # Missing
      BY PersonIs, NameIsTrim
    <3>2. /\ Get(Object(o), "value") = g /\ Get(Object(o), "display") = Missing
          /\ Object(o).is = "object"
      BY GetOf DEF Field, Object
    <3>3. ScimGroup(Object(o)) = FirstString(<<Missing, g>>)
      BY <3>2 DEF ScimGroup
    <3> HIDE DEF o
    <3>4. ScimGroup(Object(o)) = g
      BY <1>10, <3>1, <3>3, FirstOfTwo
    <3> QED
      BY <3>4 DEF o
  <2>2. items = [i \in DOMAIN s |-> Shape[s[i]]]
    <3>1. DOMAIN s = 1 .. Len(s) /\ \A i \in 1 .. Len(s) : s[i] \in p.groups
      BY GroupsAre
    <3> HIDE DEF s
    <3> QED
      BY <3>1 DEF items
  <2> HIDE DEF Shape
  <2>3. ToSet(Strings([i \in DOMAIN items |-> ScimGroup(items[i])])) = p.groups
    BY <2>1, <2>2, MembershipsRead
  <2>4. groups = items
    BY <1>3 DEF IsList, List
  <2> QED
    BY <2>3, <2>4
<1>14a. display = NameTold(p, "scimUser")
  <2>1. p.display # Missing <=> IsText(p.display)
    BY PersonIs, NameIsText
  <2> QED
    BY <1>11, <2>1 DEF NameTold
<1> HIDE DEF At, manager, name, enterprise, extensions, others, memberships, display, email, claims
<1>15. AttributesShow(scalars, p, "scimUser")
  BY <1>12, <1>13 DEF AttributesShow, Field, Fields, ManagerTold
<1> HIDE DEF scalars
<1>16. Shouted(p.mail) # Missing
  BY PersonIs, NameIsTrim
<1>17. ProjectScimUser(user) =
         [Profile(Missing, At(user, "externalId"), p.first, p.last, display, scalars, memberships,
                  claims) EXCEPT !.email = Shouted(p.mail)]
  BY <1>1, <1>9, <1>13, <1>16
<1>18. Shows([Profile(Missing, At(user, "externalId"), p.first, p.last, display, scalars, memberships,
                      claims) EXCEPT !.email = Shouted(p.mail)], p, "scimUser")
  BY <1>14, <1>14a, <1>15, SpelledShows
<1> QED
  BY <1>17, <1>18 DEF user

----------------------------------------------------------------------------
(* LDAP                                                                     *)

\* Nothing but texts, and a text with nothing after it.
LEMMA TextsAreTexts ==
    /\ \A T : \A s \in Seq(T) : (\A i \in DOMAIN s : IsText(s[i])) => TextsOf(s) = s
    /\ \A T : \A s \in Seq(T) :
          TextsOf(s) \in Seq(T) /\ ToSet(TextsOf(s)) = {v \in ToSet(s) : IsText(v)}
    /\ \A v : IsText(v) => TextsOf(<<v, Missing>>) = <<v>>
    /\ TextsOf(<<Missing>>) = <<>> /\ TextsOf(<<>>) = <<>>
<1>1. ASSUME NEW T, NEW s \in Seq(T), \A i \in DOMAIN s : IsText(s[i])
      PROVE  TextsOf(s) = s
  <2>1. TextsOf(s) = FlattenSeq([i \in DOMAIN s |-> <<s[i]>>])
    BY <1>1 DEF TextsOf
  <2> QED
    BY <2>1, FlattenSingles
<1>2. ASSUME NEW T, NEW s \in Seq(T)
      PROVE  TextsOf(s) \in Seq(T) /\ ToSet(TextsOf(s)) = {v \in ToSet(s) : IsText(v)}
  <2> DEFINE n == Len(s)
             S == Seq(T)
             one == [i \in DOMAIN s |-> IF IsText(s[i]) THEN <<s[i]>> ELSE <<>>]
  <2>1. n \in Nat /\ DOMAIN s = 1 .. n /\ \A i \in 1 .. n : s[i] \in T
    BY LenProperties, ElementOfSeq
  <2>2. \A x \in T : <<x>> \in S /\ DOMAIN <<x>> = {1} /\ <<x>>[1] = x
    BY OneIsSeq
  <2>3. <<>> \in S /\ DOMAIN <<>> = {}
    OBVIOUS
  <2> HIDE DEF n
  <2>4. one = [i \in 1 .. n |-> IF IsText(s[i]) THEN <<s[i]>> ELSE <<>>]
    BY <2>1
  <2> HIDE DEF S
  <2>5. one \in [1 .. n -> S]
    BY <2>1, <2>2, <2>3, <2>4
  <2>6. \A i \in 1 .. n : ToSet(one[i]) = IF IsText(s[i]) THEN {s[i]} ELSE {}
    BY <2>1, <2>2, <2>3, <2>4 DEF ToSet
  <2> HIDE DEF one
  <2>7. one \in Seq(S) /\ Len(one) = n
    BY <2>1, <2>5
  <2>8. FlattenSeq(one) \in Seq(T) /\ ToSet(FlattenSeq(one)) = UNION {ToSet(one[i]) : i \in 1 .. n}
    BY <2>7, FlattenedSet DEF S
  <2>9. TextsOf(s) = FlattenSeq(one)
    BY DEF TextsOf, one
  <2>10. ToSet(s) = {s[i] : i \in 1 .. n}
    BY <2>1 DEF ToSet
  <2>11. UNION {ToSet(one[i]) : i \in 1 .. n} = {v \in {s[i] : i \in 1 .. n} : IsText(v)}
    BY <2>6
  <2> QED
    BY <2>8, <2>9, <2>10, <2>11
<1>0. ~IsText(Missing)
  BY DEF IsText, Missing
<1>3. ASSUME NEW v, IsText(v)
      PROVE  TextsOf(<<v, Missing>>) = <<v>>
  <2> DEFINE one == [i \in DOMAIN <<v, Missing>> |->
                       IF IsText(<<v, Missing>>[i]) THEN <<<<v, Missing>>[i]>> ELSE <<>>]
             two == <<<<v>>, <<>>>>
  <2>1. DOMAIN <<v, Missing>> = {1, 2} /\ <<v, Missing>>[1] = v /\ <<v, Missing>>[2] = Missing
    BY PairIs
  <2>2. one = [i \in {1, 2} |-> IF i = 1 THEN <<v>> ELSE <<>>]
    BY <1>0, <1>3, <2>1
  <2>3. two = [i \in {1, 2} |-> IF i = 1 THEN <<v>> ELSE <<>>]
    <3>1. DOMAIN two = {1, 2} /\ two[1] = <<v>> /\ two[2] = <<>>
      BY PairIs
    <3>2. two = [i \in DOMAIN two |-> two[i]]
      OBVIOUS
    <3> HIDE DEF two
    <3> QED
      BY <3>1, <3>2
  <2>4. TextsOf(<<v, Missing>>) = FlattenSeq(one)
    BY DEF TextsOf
  <2> HIDE DEF one
  <2>5. <<v>> \in Seq({v}) /\ <<>> \in Seq({v})
    OBVIOUS
  <2>6. FlattenSeq(two) = <<v>> \o <<>>
    BY <2>5, FlattenPair
  <2>7. <<v>> \o <<>> = <<v>>
    BY <2>5, ConcatEmptySeq
  <2> QED
    BY <2>2, <2>3, <2>4, <2>6, <2>7
<1>4. TextsOf(<<Missing>>) = <<>> /\ TextsOf(<<>>) = <<>>
  <2>1. <<Missing>> \in Seq({Missing}) /\ DOMAIN <<Missing>> = {1} /\ <<Missing>>[1] = Missing
    BY OneIsSeq
  <2>2. ToSet(<<Missing>>) = {Missing}
    BY <2>1 DEF ToSet
  <2>3. ToSet(TextsOf(<<Missing>>)) = {} /\ TextsOf(<<Missing>>) \in Seq({Missing})
    <3> DEFINE s == <<Missing>>
               T == {Missing}
    <3>1. s \in Seq(T) /\ ToSet(s) = {Missing}
      BY <2>1, <2>2
    <3> HIDE DEF s
    <3>2. TextsOf(s) \in Seq(T) /\ ToSet(TextsOf(s)) = {v \in ToSet(s) : IsText(v)}
      BY <1>2, <3>1
    <3>3. {v \in ToSet(s) : IsText(v)} = {}
      BY <1>0, <3>1
    <3> QED
      BY <3>2, <3>3 DEF s
  <2>4. ASSUME NEW T, NEW s \in Seq(T), ToSet(s) = {}
        PROVE  s = <<>>
    <3>1. Len(s) \in Nat /\ DOMAIN s = 1 .. Len(s) /\ DOMAIN s = {}
      BY <2>4, LenProperties DEF ToSet
    <3>2. Len(s) = 0
      BY <3>1
    <3> QED
      BY <3>2, EmptySeq
  <2>5. <<>> \in Seq({Missing}) /\ DOMAIN <<>> = {}
    OBVIOUS
  <2> QED
    BY <1>1, <2>3, <2>4, <2>5
<1> QED
  BY <1>1, <1>2, <1>3, <1>4

\* What two elements come before.
LEMMA FromThird ==
    ASSUME NEW T, NEW n \in Nat, NEW w \in [1 .. n -> T], NEW x, \A i \in 1 .. n : x[i + 2] = w[i]
    PROVE  SubSeq(x, 3, n + 2) = w
<1>1. (n + 2) - 3 + 1 = n /\ \A i \in 1 .. n : 3 + i - 1 = i + 2
  OBVIOUS
<1>2. SubSeq(x, 3, n + 2) = [i \in 1 .. n |-> x[i + 2]]
  BY <1>1
<1> QED
  BY <1>2

\* Two before it, four after it.
Wraps(x, T, w, n, a, c) ==
    /\ x \in Seq(T) /\ n \in Nat /\ Len(x) = n + 6 /\ DOMAIN x = 1 .. n + 6
    /\ x[1] = a[1] /\ x[2] = a[2]
    /\ \A i \in 1 .. n : x[i + 2] = w[i]
    /\ \A i \in 1 .. 4 : x[n + 2 + i] = c[i]

\* What is put between two elements and four.
LEMMA Wrapped ==
    ASSUME NEW T, NEW w \in Seq(T), NEW a \in Seq(T), Len(a) = 2, NEW c \in Seq(T), Len(c) = 4,
           NEW n, n = Len(w), NEW x, x = a \o w \o c
    PROVE  Wraps(x, T, w, n, a, c)
<1> DEFINE y == a \o w
<1>1. n \in Nat /\ DOMAIN w = 1 .. n /\ w \in [1 .. n -> T]
  BY LenProperties
<1>2. /\ y \in Seq(T) /\ Len(y) = 2 + n
      /\ \A i \in 1 .. 2 + n : y[i] = IF i <= 2 THEN a[i] ELSE w[i - 2]
  <2>1. /\ a \o w \in Seq(T) /\ Len(a \o w) = Len(a) + Len(w)
        /\ \A i \in 1 .. Len(a) + Len(w) : (a \o w)[i] = IF i <= Len(a) THEN a[i] ELSE w[i - Len(a)]
    BY ConcatProperties
  <2>2. n = Len(w)
    OBVIOUS
  <2> QED
    BY <2>1, <2>2
<1>3. x = y \o c
  OBVIOUS
<1> HIDE DEF y
<1>4. /\ x \in Seq(T) /\ Len(x) = 2 + n + 4
      /\ \A i \in 1 .. 2 + n + 4 : x[i] = IF i <= 2 + n THEN y[i] ELSE c[i - (2 + n)]
  <2>1. /\ y \o c \in Seq(T) /\ Len(y \o c) = Len(y) + Len(c)
        /\ \A i \in 1 .. Len(y) + Len(c) : (y \o c)[i] = IF i <= Len(y) THEN y[i] ELSE c[i - Len(y)]
    BY <1>2, ConcatProperties
  <2> QED
    BY <1>2, <1>3, <2>1
<1>5. Len(x) = n + 6 /\ DOMAIN x = 1 .. n + 6
  BY <1>1, <1>4, LenProperties
<1>6. x[1] = a[1] /\ x[2] = a[2]
  <2>1. 1 \in 1 .. 2 + n /\ 2 \in 1 .. 2 + n /\ 1 \in 1 .. 2 + n + 4 /\ 2 \in 1 .. 2 + n + 4
        /\ 1 <= 2 + n /\ 2 <= 2 + n
    BY <1>1
  <2> QED
    BY <1>2, <1>4, <2>1, SMTT(30)
<1>7. ASSUME NEW i \in 1 .. n
      PROVE  x[i + 2] = w[i]
  <2>1. /\ i + 2 \in 1 .. 2 + n /\ i + 2 \in 1 .. 2 + n + 4 /\ i + 2 <= 2 + n /\ ~(i + 2 <= 2)
        /\ (i + 2) - 2 = i
    BY <1>1
  <2> QED
    BY <1>2, <1>4, <2>1
<1>8. ASSUME NEW i \in 1 .. 4
      PROVE  x[n + 2 + i] = c[i]
  <2>1. n + 2 + i \in 1 .. 2 + n + 4 /\ ~(n + 2 + i <= 2 + n) /\ (n + 2 + i) - (2 + n) = i
    BY <1>1
  <2> QED
    BY <1>4, <2>1
<1> QED
  BY <1>1, <1>4, <1>5, <1>6, <1>7, <1>8 DEF Wraps

\* The parts of a name no comma is in.
WithoutComma(v) == IsText(v) => \A i \in DOMAIN v.word : v.word[i] # ","

\* The name in a DN is read back, if no comma is in it.
LEMMA DnIsRead ==
    ASSUME NEW v, IsName(v), WithoutComma(v)
    PROVE  /\ IsText(Dn(v)) /\ Dn(v) = Text(Dn(v).word) /\ Str(Dn(v)) = Dn(v) /\ Dn(v) # Missing
           /\ CnFromDn(Dn(v)) = v
<1> DEFINE w == v.word
           n == Len(w)
           a == <<"CN", "=">>
           c == <<",", "OU", "=", "x">>
           x == a \o w \o c
<1>1. /\ IsText(v) /\ v = Text(w) /\ w \in Seq(STRING) /\ w # <<>>
      /\ Trim(w) = w /\ n \in Nat \ {0} /\ DOMAIN w = 1 .. n
  BY NameIsTrim DEF IsName
<1>2. Escaped(w) = w
  <2>1. [i \in DOMAIN w |-> IF w[i] = "," THEN <<"\\", ",">> ELSE <<w[i]>>] = [i \in DOMAIN w |-> <<w[i]>>]
    BY <1>1 DEF WithoutComma
  <2> QED
    BY <1>1, <2>1, FlattenSingles DEF Escaped
<1>2a. {"CN", "=", ",", "OU", "x"} \subseteq STRING
  BY SyllablesAssumption
<1>3. a \in Seq(STRING) /\ Len(a) = 2 /\ a[1] = "CN" /\ a[2] = "="
  BY <1>2a, TuplesAreSeqs
<1>4. c \in Seq(STRING) /\ Len(c) = 4 /\ c[1] = "," /\ c[2] = "OU" /\ c[3] = "=" /\ c[4] = "x"
  BY <1>2a, TuplesAreSeqs
<1> HIDE DEF w, n, a, c
<1>5. /\ x \in Seq(STRING) /\ Len(x) = n + 6 /\ DOMAIN x = 1 .. n + 6
      /\ x[1] = a[1] /\ x[2] = a[2]
      /\ \A i \in 1 .. n : x[i + 2] = w[i]
      /\ \A i \in 1 .. 4 : x[n + 2 + i] = c[i]
      /\ SubSeq(x, 3, n + 2) = w
  <2>1. w \in Seq(STRING) /\ a \in Seq(STRING) /\ c \in Seq(STRING) /\ Len(a) = 2 /\ Len(c) = 4
    BY <1>1, <1>3, <1>4
  <2>2. n = Len(w) /\ x = a \o w \o c /\ n \in Nat
    BY <1>1 DEF n
  <2> HIDE DEF x
  <2> DEFINE T == STRING
  <2>3. w \in Seq(T) /\ a \in Seq(T) /\ c \in Seq(T)
    BY <2>1
  <2> HIDE DEF T
  <2>4. Wraps(x, T, w, n, a, c)
    BY <2>1, <2>2, <2>3, Wrapped
  <2>5. w \in [1 .. n -> T]
    BY <1>1, <2>3, LenProperties DEF n
  <2>6. SubSeq(x, 3, n + 2) = w
    <3>1. n \in Nat /\ \A i \in 1 .. n : x[i + 2] = w[i]
      BY <2>4 DEF Wraps
    <3> QED
      BY <2>5, <3>1, FromThird
  <2> QED
    BY <2>4, <2>6 DEF T, Wraps
<1>6. Dn(v) = Text(x)
  BY <1>1, <1>2 DEF Dn, a, c, w
<1> HIDE DEF x
<1>7. IsText(Dn(v)) /\ Dn(v) = Text(Dn(v).word) /\ Dn(v).word = x /\ Dn(v) # Missing
  BY <1>6 DEF Text, IsText, Missing
<1>8. 1 .. 4 = {1, 2, 3, 4} /\ n \in Nat /\ n # 0
  BY <1>1
<1>9. /\ x[n + 3] = "," /\ x[n + 4] = "OU" /\ x[n + 5] = "=" /\ x[n + 6] = "x" /\ x[1] = "CN"
      /\ x[2] = "="
  <2>1. n + 2 + 1 = n + 3 /\ n + 2 + 2 = n + 4 /\ n + 2 + 3 = n + 5 /\ n + 2 + 4 = n + 6
    BY <1>8
  <2>2. x[n + 2 + 1] = c[1] /\ x[n + 2 + 2] = c[2] /\ x[n + 2 + 3] = c[3] /\ x[n + 2 + 4] = c[4]
    BY <1>5, <1>8
  <2> QED
    BY <1>3, <1>4, <1>5, <2>1, <2>2
<1>10. Trim(x) = x
  <2>1. 1 \in 1 .. Len(x) /\ n + 6 \in 1 .. Len(x) /\ Len(x) = n + 6
    BY <1>5, <1>8
  <2>2. \A i \in 1 .. Len(x) : 1 <= i /\ i <= n + 6
    BY <1>5, <1>8
  <2>3. x[1] # " " /\ x[n + 6] # " "
    BY <1>9
  <2>4. Trim(x) = SubSeq(x, 1, n + 6)
    BY <1>5, <2>1, <2>2, <2>3, TrimIs
  <2> QED
    BY <1>5, <2>1, <2>4, SubSeqFull
<1>11. Str(Dn(v)) = Dn(v)
  <2>1. x # <<>>
    BY <1>5, <1>8
  <2> QED
    BY <1>7, <1>10, <2>1 DEF Str, TrimmedOr, Filled
<1>12. {i \in DOMAIN x : x[i] = ","} = {n + 3}
  <2>1. \A i \in 1 .. n + 6 : \/ i \in {1, 2, n + 3, n + 4, n + 5, n + 6}
                              \/ i - 2 \in 1 .. n /\ i = (i - 2) + 2
    BY <1>8
  <2>2. \A i \in 1 .. n : w[i] # ","
    BY <1>1 DEF WithoutComma, w
  <2>3. n + 3 \in 1 .. n + 6
    BY <1>8
  <2>4. \A i \in 1 .. n : x[i + 2] # ","
    BY <1>5, <2>2
  <2>5. ASSUME NEW i \in 1 .. n + 6, x[i] = ","
        PROVE  i = n + 3
    <3>1. i \notin {1, 2, n + 4, n + 5, n + 6}
      BY <1>9, <2>5
    <3>2. ~(i - 2 \in 1 .. n /\ i = (i - 2) + 2)
      BY <2>4, <2>5
    <3> QED
      BY <2>1, <3>1, <3>2
  <2> QED
    BY <1>5, <1>9, <2>3, <2>5
<1> DEFINE commas == {i \in DOMAIN x : x[i] = ","}
           end == IF commas = {} THEN Len(x) ELSE (CHOOSE i \in commas : \A j \in commas : i <= j) - 1
<1>13. end = n + 2
  <2>1. n + 3 \in Nat \ {0} /\ (n + 3) - 1 = n + 2
    BY <1>8
  <2>2. (CHOOSE i \in {n + 3} : \A j \in {n + 3} : i <= j) = n + 3
    BY <2>1, LeastOfOne
  <2>3. commas = {n + 3}
    BY <1>12
  <2> HIDE DEF commas
  <2> QED
    BY <2>1, <2>2, <2>3
<1> HIDE DEF commas
<1> DEFINE opens == {i \in DOMAIN x : x[i] = "=" /\ \A j \in 2 .. i - 1 : x[j] = " "}
<1>14. CnFromDn(Dn(v)) =
         IF \E i \in opens : LowerCase(x)[1] = "cn" /\ i < end
         THEN Text(Trim(SubSeq(x, (CHOOSE i \in opens : TRUE) + 1, end))) ELSE Text(x)
  BY <1>7, <1>10 DEF CnFromDn, commas
<1> HIDE DEF end
<1>15. LowerCase(x)[1] = "cn"
  <2>1. 1 \in DOMAIN x
    BY <1>5, <1>8
  <2>2. LowerCase(x)[1] = IF x[1] \in DOMAIN Lowered THEN Lowered[x[1]] ELSE x[1]
    BY <2>1 DEF LowerCase
  <2> QED
    BY <1>9, <2>2, SyllablesAssumption
<1>16. opens = {2}
  <2>1. 2 \in DOMAIN x /\ 2 .. 2 - 1 = {}
    BY <1>5, <1>8
  <2>2. \A i \in DOMAIN x : i = 1 \/ i = 2 \/ 2 \in 2 .. i - 1
    BY <1>5, <1>8
  <2>3. x[1] # "=" /\ x[2] = "=" /\ x[2] # " "
    BY <1>9
  <2> QED
    BY <2>1, <2>2, <2>3
<1>17. CnFromDn(Dn(v)) = Text(Trim(SubSeq(x, 3, n + 2)))
  <2>1. 2 < end /\ 2 + 1 = 3 /\ end = n + 2
    BY <1>8, <1>13
  <2>2. (CHOOSE i \in {2} : TRUE) = 2
    OBVIOUS
  <2> HIDE DEF opens
  <2> QED
    BY <1>14, <1>15, <1>16, <2>1, <2>2
<1> QED
  BY <1>1, <1>5, <1>7, <1>11, <1>17

\* normalizeEntry leaves a text as it is.
LEMMA NormalizedAlone ==
    /\ \A w : NormalizeValue(Text(w)) = Text(w)
    /\ NormalizeValue(Missing) = Missing /\ StringifyScalar(Missing) = Missing
    /\ \A w : StringifyScalar(Text(w)) = Text(w)
    /\ \A w : NormalizeValue(Binary(w)) = Text(w)
<1>1. \A w : Text(w).is = "text" /\ Text(w).word = w
  BY DEF Text
<1>2. \A w : Binary(w).is = "binary" /\ Binary(w).base64 = w
  BY DEF Binary
<1>3. Missing.is = "missing"
  BY DEF Missing
<1>4. /\ \A w : StringifyScalar(Text(w)) = Text(w) /\ ~IsList(Text(w))
      /\ \A w : StringifyScalar(Binary(w)) = Text(w) /\ ~IsList(Binary(w))
      /\ StringifyScalar(Missing) = Missing /\ ~IsList(Missing)
  BY <1>1, <1>2, <1>3 DEF StringifyScalar, IsList
<1> QED
  BY <1>4 DEF NormalizeValue

\* A name, or nothing, or a name with blanks around it, one way or another.
Spoken(v) == v = Missing \/ (IsText(v) /\ v = Text(v.word))

\* A name is a text or is not there.
LEMMA NamesAreSpoken ==
    /\ \A v : NameOrNone(v) => Spoken(v) /\ Spoken(Padded(v))
    /\ \A v : Spoken(v) => NormalizeValue(v) = v /\ StringifyScalar(v) = v /\ ~IsList(v)
    /\ \A w : IsText(Text(w)) /\ Spoken(Text(w))
<1>1. \A w : IsText(Text(w)) /\ Text(w).word = w /\ ~IsList(Text(w))
  BY DEF IsText, Text, IsList
<1>2. ~IsText(Missing) /\ ~IsList(Missing)
  BY DEF IsText, IsList, Missing
<1>3. ASSUME NEW v, NameOrNone(v)
      PROVE  Spoken(v) /\ Spoken(Padded(v))
  <2>1. CASE v = Missing
    BY <1>2, <2>1 DEF Spoken, Padded
  <2>2. CASE IsName(v)
    <3>1. IsText(v) /\ v = Text(v.word)
      BY <2>2, NameIsTrim
    <3>2. Padded(v) = Text(<<" ">> \o v.word \o <<" ">>)
      BY <3>1 DEF Padded
    <3> QED
      BY <1>1, <3>1, <3>2 DEF Spoken
  <2> QED
    BY <1>3, <2>1, <2>2 DEF NameOrNone
<1>4. ASSUME NEW v, Spoken(v)
      PROVE  NormalizeValue(v) = v /\ StringifyScalar(v) = v /\ ~IsList(v)
  BY <1>1, <1>2, <1>4, NormalizedAlone DEF Spoken
<1> QED
  BY <1>1, <1>3, <1>4 DEF Spoken

\* And of a list, what it says.
LEMMA NormalizedList ==
    ASSUME NEW T, NEW s \in Seq(T), \A i \in DOMAIN s : Spoken(s[i])
    PROVE  NormalizeValue(List(s)) = IF TextsOf(s) = <<>> THEN Missing ELSE List(TextsOf(s))
<1>1. IsList(List(s)) /\ List(s).items = s
  BY DEF IsList, List
<1>2. [i \in DOMAIN s |-> StringifyScalar(s[i])] = s
  <2>1. \A i \in DOMAIN s : StringifyScalar(s[i]) = s[i]
    BY NamesAreSpoken
  <2>2. s = [i \in DOMAIN s |-> s[i]]
    BY LenProperties
  <2> QED
    BY <2>1, <2>2
<1> QED
  BY <1>1, <1>2 DEF NormalizeValue

\* LdapValues and LdapFirst, of a list, of a text and of nothing.
LEMMA ListReads ==
    /\ First(ValuesIn(Missing)) = Missing
    /\ \A a : First(ValuesIn(List(<<a>>))) = Str(a)
    /\ \A a, b : First(ValuesIn(List(<<a, b>>))) = IF Str(a) # Missing THEN Str(a) ELSE Str(b)
<1>1. First(ValuesIn(Missing)) = Missing
  BY FirstRead DEF NameOrNone
<1>2. ASSUME NEW n \in Nat, NEW s, DOMAIN s = 1 .. n
      PROVE  First(ValuesIn(List(s))) = FirstString(s)
  <2>1. IsList(List(s)) /\ List(s).items = s
    BY DEF IsList, List
  <2>2. First(ValuesIn(List(s))) = FirstIn(List(s))
    BY <1>2, <2>1, ValuesInAre
  <2> QED
    BY <2>1, <2>2 DEF FirstIn
<1>3. \A a : DOMAIN <<a>> = 1 .. 1 /\ 1 \in Nat
  OBVIOUS
<1>4. \A a, b : DOMAIN <<a, b>> = 1 .. 2 /\ 2 \in Nat
  OBVIOUS
<1>5. \A a : First(ValuesIn(List(<<a>>))) = FirstString(<<a>>)
  BY <1>2, <1>3
<1>6. \A a, b : First(ValuesIn(List(<<a, b>>))) = FirstString(<<a, b>>)
  BY <1>2, <1>4
<1> QED
  BY <1>1, <1>5, <1>6, FirstOfOne, FirstOfTwo

\* A pull reads what the directory lists.
LEMMA NormalizedReads ==
    ASSUME NEW v, NameOrNone(v)
    PROVE  /\ First(ValuesIn(NormalizeValue(v))) = v
           /\ First(ValuesIn(NormalizeValue(List(<<Padded(v)>>)))) = v
           /\ First(ValuesIn(NormalizeValue(List(<<Text(<<" ">>), v>>)))) = v
           /\ \A w : v # Missing => First(ValuesIn(NormalizeValue(List(<<v, Text(w)>>)))) = v
<1>1. Spoken(v) /\ Spoken(Padded(v)) /\ Str(v) = v /\ Str(Padded(v)) = v
  BY NamesAreSpoken, PaddedIsTrimmed
<1>2. First(ValuesIn(NormalizeValue(v))) = v
  BY <1>1, NamesAreSpoken, FirstRead
<1>3. First(ValuesIn(NormalizeValue(List(<<Padded(v)>>)))) = v
  <2> DEFINE a == Padded(v)
             s == <<a>>
  <2>1. s \in Seq({a}) /\ DOMAIN s = {1} /\ s[1] = a
    BY OneIsSeq
  <2>2. Spoken(a) /\ Str(a) = v
    BY <1>1
  <2> HIDE DEF s, a
  <2>3. NormalizeValue(List(s)) = IF TextsOf(s) = <<>> THEN Missing ELSE List(TextsOf(s))
    BY <2>1, <2>2, NormalizedList
  <2>4. CASE a = Missing
    <3>1. s = <<Missing>>
      BY <2>4 DEF s
    <3>2. NormalizeValue(List(s)) = Missing
      BY <2>3, <3>1, TextsAreTexts
    <3>3. v = Missing
      BY <2>2, <2>4, SaysNothing
    <3> QED
      BY <3>2, <3>3, ListReads DEF s, a
  <2>5. CASE IsText(a)
    <3>1. TextsOf(s) = s /\ s # <<>>
      <4>1. \A i \in DOMAIN s : IsText(s[i])
        BY <2>1, <2>5
      <4>2. s # <<>>
        BY <2>1
      <4> QED
        BY <2>1, <4>1, <4>2, TextsAreTexts
    <3>2. NormalizeValue(List(s)) = List(<<a>>)
      BY <2>3, <3>1 DEF s
    <3>3. First(ValuesIn(NormalizeValue(List(s)))) = v
      BY <2>2, <3>2, ListReads
    <3> QED
      BY <3>3 DEF s, a
  <2> QED
    BY <2>2, <2>4, <2>5 DEF Spoken
<1>4. ASSUME NEW a, NEW b, Spoken(a), IsText(a), Spoken(b)
      PROVE  First(ValuesIn(NormalizeValue(List(<<a, b>>)))) = IF Str(a) # Missing THEN Str(a) ELSE Str(b)
  <2> DEFINE s == <<a, b>>
  <2>1. s \in Seq({a, b}) /\ DOMAIN s = {1, 2} /\ s[1] = a /\ s[2] = b
    <3>1. s \in Seq({a, b})
      OBVIOUS
    <3> QED
      BY <3>1, PairIs
  <2> HIDE DEF s
  <2>3. NormalizeValue(List(s)) = IF TextsOf(s) = <<>> THEN Missing ELSE List(TextsOf(s))
    BY <1>4, <2>1, NormalizedList
  <2>4. CASE b = Missing
    <3>1. TextsOf(s) = <<a>> /\ <<a>> # <<>>
      BY <1>4, <2>4, TextsAreTexts DEF s
    <3>2. NormalizeValue(List(s)) = List(<<a>>)
      BY <2>3, <3>1
    <3>3. First(ValuesIn(NormalizeValue(List(s)))) = Str(a)
      BY <3>2, ListReads
    <3>4. Str(b) = Missing
      BY <2>4, SaysNothing
    <3> QED
      BY <3>3, <3>4 DEF s
  <2>5. CASE IsText(b)
    <3>1. TextsOf(s) = s /\ s # <<>>
      BY <1>4, <2>1, <2>5, TextsAreTexts
    <3>2. NormalizeValue(List(s)) = List(<<a, b>>)
      BY <2>3, <3>1 DEF s
    <3> QED
      BY <3>2, ListReads DEF s
  <2> QED
    BY <1>4, <2>4, <2>5 DEF Spoken
<1>5. First(ValuesIn(NormalizeValue(List(<<Text(<<" ">>), v>>)))) = v
  BY <1>1, <1>4, NamesAreSpoken, SaysNothing
<1>6. \A w : v # Missing => First(ValuesIn(NormalizeValue(List(<<v, Text(w)>>)))) = v
  BY <1>1, <1>4, NamesAreSpoken DEF Spoken
<1> QED
  BY <1>2, <1>3, <1>5, <1>6

\* The groups of an entry are their names.
LEMMA DnsRead ==
    ASSUME NEW p, IsPerson(p), \A g \in p.groups : WithoutComma(g)
    PROVE  LET s == Sequence(p.groups)
               values == ValuesIn(NormalizeValue(OneOrMany([i \in DOMAIN s |-> Dn(s[i])])))
           IN  ToSet([i \in DOMAIN values |-> CnFromDn(values[i])]) = p.groups
<1> DEFINE s == Sequence(p.groups)
           n == Len(s)
           t == [i \in DOMAIN s |-> Dn(s[i])]
           D == {t[i] : i \in 1 .. n}
           values == ValuesIn(NormalizeValue(OneOrMany(t)))
<1>1. /\ n \in Nat /\ DOMAIN s = 1 .. n /\ \A i \in 1 .. n : s[i] \in p.groups
      /\ {s[i] : i \in 1 .. n} = p.groups
  BY GroupsAre
<1> HIDE DEF s, n
<1>2. \A g \in p.groups : /\ IsText(Dn(g)) /\ Spoken(Dn(g)) /\ Str(Dn(g)) = Dn(g) /\ Dn(g) # Missing
                          /\ CnFromDn(Dn(g)) = g
  BY PersonIs, DnIsRead DEF Spoken
<1>3. DOMAIN t = 1 .. n /\ \A i \in 1 .. n : t[i] = Dn(s[i])
  BY <1>1
<1>4. \A i \in 1 .. n : /\ IsText(t[i]) /\ Spoken(t[i]) /\ Str(t[i]) = t[i] /\ t[i] # Missing
                        /\ CnFromDn(t[i]) = s[i]
  BY <1>1, <1>2, <1>3
<1>5. t \in Seq(D) /\ Len(t) = n
  <2>1. t \in [1 .. n -> D]
    <3>1. t = [i \in 1 .. n |-> t[i]]
      BY <1>3
    <3> HIDE DEF t
    <3> QED
      BY <3>1
  <2> HIDE DEF t, D
  <2> QED
    BY <1>1, <2>1
<1> HIDE DEF t
<1>6. ToSet(values) = D
  <2>1. CASE n = 0
    <3>1. t = <<>> /\ OneOrMany(t) = List(<<>>) /\ D = {}
      BY <1>5, <2>1, EmptySeq DEF OneOrMany
    <3>2. NormalizeValue(List(<<>>)) = Missing
      <4>1. <<>> \in Seq({}) /\ DOMAIN <<>> = {}
        OBVIOUS
      <4> QED
        BY <4>1, NormalizedList, TextsAreTexts
    <3>3. ToSet(<<>>) = {}
      BY DEF ToSet
    <3> QED
      BY <3>1, <3>2, <3>3, ReadsNothing
  <2>2. CASE n # 0
    <3>1. NormalizeValue(OneOrMany(t)) = OneOrMany(t)
      <4>1. CASE n = 1
        <5>1. OneOrMany(t) = t[1] /\ 1 \in 1 .. n
          BY <1>5, <4>1 DEF OneOrMany
        <5> QED
          BY <1>4, <5>1, NamesAreSpoken
      <4>2. CASE n # 1
        <5>1. OneOrMany(t) = List(t)
          BY <1>5, <4>2 DEF OneOrMany
        <5>2. TextsOf(t) = t
          BY <1>3, <1>4, <1>5, TextsAreTexts
        <5>3. t # <<>>
          BY <1>5, <2>2, EmptySeq
        <5> HIDE DEF D
        <5>4. \A i \in DOMAIN t : Spoken(t[i])
          BY <1>3, <1>4
        <5>5. NormalizeValue(List(t)) = List(t)
          BY <1>5, <5>2, <5>3, <5>4, NormalizedList
        <5> QED
          BY <5>1, <5>5
      <4> QED
        BY <4>1, <4>2
    <3>2. ToSet(ValuesIn(OneOrMany(t))) = {Str(t[i]) : i \in 1 .. n}
      <4>1. t \in Seq({t[i] : i \in 1 .. Len(t)})
        BY <1>5
      <4>2. \A i \in 1 .. Len(t) : IsText(t[i]) /\ Str(t[i]) # Missing
        BY <1>4, <1>5
      <4> QED
        BY <1>5, <4>1, <4>2, OneOrManyRead
    <3>3. {Str(t[i]) : i \in 1 .. n} = D
      BY <1>4
    <3> QED
      BY <3>1, <3>2, <3>3
  <2> QED
    BY <2>1, <2>2
<1> HIDE DEF values
<1>7. ToSet([i \in DOMAIN values |-> CnFromDn(values[i])]) = {CnFromDn(v) : v \in ToSet(values)}
  BY DEF ToSet
<1>8. {CnFromDn(v) : v \in D} = p.groups
  BY <1>1, <1>4
<1> QED
  BY <1>6, <1>7, <1>8 DEF values, t, s

\* profileFromLdap, of an entry as normalizeEntry leaves it.
LEMMA LdapShows ==
    ASSUME NEW p, IsPerson(p), \A g \in p.groups : WithoutComma(g), WithoutComma(p.managerName)
    PROVE  /\ Shows(ProfileFromLdap(NormalizeEntry(AsLdapEntry(p)), NoMap), p, "ldap")
           /\ AccountActiveFromLdap(NormalizeEntry(AsLdapEntry(p))) = p.active
<1> DEFINE entry == NormalizeEntry(AsLdapEntry(p))
           Name(field) == IF field \in DOMAIN NoMap THEN NoMap[field] ELSE LdapDefaults[field]
           At(field) == LdapFirst(entry.attributes, Name(field))
           Raw(name) == LdapFirst(entry.attributes, name)
           groups == LdapValues(entry.attributes, Name("groups"))
           email == FirstString(<<At("email"), Raw("userPrincipalName")>>)
           externalId == FirstString(<<At("externalId"), entry.dn>>)
           display == NameOr(FirstString(<<At("displayName"), Raw("cn")>>), At("firstName"), At("lastName"))
           attributes == [department |-> At("department"), division |-> At("division"),
                          title |-> At("title"), costCenter |-> At("costCenter"),
                          employeeNumber |-> FirstString(<<At("employeeNumber"), Raw("employeeID")>>),
                          officeLocation |-> At("officeLocation"),
                          manager |-> IF At("manager") = Missing THEN Missing ELSE CnFromDn(At("manager"))]
           names == [i \in DOMAIN groups |-> CnFromDn(groups[i])]
<1>1. ProfileFromLdap(entry, NoMap) =
         Profile(email, externalId, At("firstName"), At("lastName"), display, attributes, names,
                 Object(<<>>))
  BY DEF ProfileFromLdap
<1> DEFINE s == Sequence(p.groups)
           uac == IF p.active THEN Number(<<"512">>) ELSE Text(<<"514">>)
           f == [mail |-> List(<<Shouted(p.mail), Text(<<"home">>)>>), objectGUID |-> Binary(p.id.word),
                 givenName |-> p.first, sn |-> List(<<Padded(p.last)>>), cn |-> p.display,
                 title |-> p.title, department |-> List(<<Text(<<" ">>), p.department>>),
                 manager |-> Dn(p.managerName), memberOf |-> OneOrMany([i \in DOMAIN s |-> Dn(s[i])]),
                 userAccountControl |-> uac]
           g == [k \in DOMAIN f |-> NormalizeValue(f[k])]
<1>2. entry.attributes = Object(Compact(g))
  <2>1. AsLdapEntry(p).attributes = Object(f)
    BY DEF AsLdapEntry
  <2>2. Object(f).fields = f
    BY DEF Object
  <2> HIDE DEF f
  <2>3. entry.attributes = Object(Compact([k \in DOMAIN Object(f).fields |->
                                             NormalizeValue(Object(f).fields[k])]))
    BY <2>1 DEF NormalizeEntry
  <2> QED
    BY <2>2, <2>3
<1>3. \A k : Get(entry.attributes, k) = IF k \in DOMAIN f THEN NormalizeValue(f[k]) ELSE Missing
  <2>1. \A k : Get(entry.attributes, k) = Field(g, k)
    <3> HIDE DEF g, entry
    <3> QED
      BY <1>2, GetOf, CompactField
  <2>2. \A k : Field(g, k) = IF k \in DOMAIN f THEN NormalizeValue(f[k]) ELSE Missing
    BY DEF Field
  <2> QED
    BY <2>1, <2>2
<1>4. /\ DOMAIN f = {"mail", "objectGUID", "givenName", "sn", "cn", "title", "department", "manager",
                     "memberOf", "userAccountControl"}
      /\ f["mail"] = List(<<Shouted(p.mail), Text(<<"home">>)>>)
      /\ f["givenName"] = p.first /\ f["sn"] = List(<<Padded(p.last)>>) /\ f["cn"] = p.display
      /\ f["title"] = p.title /\ f["department"] = List(<<Text(<<" ">>), p.department>>)
      /\ f["manager"] = Dn(p.managerName) /\ f["memberOf"] = OneOrMany([i \in DOMAIN s |-> Dn(s[i])])
      /\ f["userAccountControl"] = uac
  OBVIOUS
<1> HIDE DEF f, g, entry
<1>5. \A field : Name(field) = LdapDefaults[field]
  <2>1. \A field : field \notin DOMAIN NoMap
    BY DEF NoMap
  <2> QED
    BY <2>1
<1>6. \A k : Raw(k) = First(ValuesIn(IF k \in DOMAIN f THEN NormalizeValue(f[k]) ELSE Missing))
  BY <1>3 DEF LdapFirst, LdapValues
<1>7. First(ValuesIn(Missing)) = Missing
  BY ListReads
<1>8. /\ NameOrNone(p.first) /\ NameOrNone(p.last) /\ NameOrNone(p.display) /\ NameOrNone(p.title)
      /\ NameOrNone(p.department) /\ NameOrNone(p.managerName)
      /\ NameOrNone(Shouted(p.mail)) /\ Shouted(p.mail) # Missing
      /\ Str(Shouted(p.mail)) = Shouted(p.mail) /\ Str(Missing) = Missing /\ Str(p.display) = p.display
  BY PersonIs, NameIsTrim, SaysNothing, PaddedIsTrimmed DEF NameOrNone
<1> HIDE DEF Raw
<1>9. /\ Raw("mail") = Shouted(p.mail) /\ Raw("givenName") = p.first /\ Raw("sn") = p.last
      /\ Raw("cn") = p.display /\ Raw("title") = p.title /\ Raw("department") = p.department
  <2>1. \A k : k \in DOMAIN f => Raw(k) = First(ValuesIn(NormalizeValue(f[k])))
    BY <1>6
  <2> DEFINE Said(v) == First(ValuesIn(NormalizeValue(v)))
  <2>2. /\ Raw("mail") = Said(List(<<Shouted(p.mail), Text(<<"home">>)>>))
        /\ Raw("givenName") = Said(p.first) /\ Raw("sn") = Said(List(<<Padded(p.last)>>))
        /\ Raw("cn") = Said(p.display) /\ Raw("title") = Said(p.title)
        /\ Raw("department") = Said(List(<<Text(<<" ">>), p.department>>))
    BY <1>4, <2>1
  <2>3. \A v : NameOrNone(v) => /\ Said(v) = v /\ Said(List(<<Padded(v)>>)) = v
                                /\ Said(List(<<Text(<<" ">>), v>>)) = v
                                /\ \A w : v # Missing => Said(List(<<v, Text(w)>>)) = v
    BY NormalizedReads
  <2> HIDE DEF Said
  <2>4. Raw("mail") = Shouted(p.mail)
    BY <1>8, <2>2, <2>3
  <2>5. Raw("givenName") = p.first /\ Raw("cn") = p.display /\ Raw("title") = p.title
    BY <1>8, <2>2, <2>3
  <2>6. Raw("sn") = p.last /\ Raw("department") = p.department
    BY <1>8, <2>2, <2>3
  <2> QED
    BY <2>4, <2>5, <2>6
<1>10. /\ Raw("userPrincipalName") = Missing /\ Raw("displayName") = Missing
       /\ Raw("division") = Missing /\ Raw("") = Missing /\ Raw("employeeNumber") = Missing
       /\ Raw("employeeID") = Missing /\ Raw("physicalDeliveryOfficeName") = Missing
  BY <1>4, <1>6, <1>7
<1>11. (IF Raw("manager") = Missing THEN Missing ELSE CnFromDn(Raw("manager"))) = p.managerName
  <2>1. Raw("manager") = First(ValuesIn(NormalizeValue(Dn(p.managerName))))
    BY <1>4, <1>6
  <2>2. CASE p.managerName = Missing
    <3>1. Dn(p.managerName) = Missing
      BY <2>2 DEF Dn, IsText, Missing
    <3> QED
      BY <1>7, <2>1, <2>2, <3>1, NormalizedAlone
  <2>3. CASE IsName(p.managerName)
    <3> DEFINE d == Dn(p.managerName)
    <3>1. Spoken(d) /\ Str(d) = d /\ d # Missing /\ CnFromDn(d) = p.managerName
      BY <2>3, DnIsRead DEF Spoken
    <3> HIDE DEF d
    <3>2. NormalizeValue(d) = d /\ ~IsList(d)
      BY <3>1, NamesAreSpoken
    <3>3. First(ValuesIn(d)) = d
      <4>1. 0 \in Nat /\ (IsList(d) => DOMAIN d.items = 1 .. 0)
        BY <3>2
      <4>2. First(ValuesIn(d)) = FirstIn(d)
        BY <4>1, ValuesInAre
      <4> QED
        BY <3>1, <3>2, <4>2 DEF FirstIn
    <3>4. Raw("manager") = d
      BY <2>1, <3>2, <3>3 DEF d
    <3> QED
      BY <3>1, <3>4
  <2> QED
    BY <1>8, <2>2, <2>3 DEF NameOrNone
<1>12. \A field : At(field) = Raw(LdapDefaults[field])
  BY <1>5 DEF Raw
<1> HIDE DEF At
<1>13. /\ LdapDefaults["email"] = "mail" /\ LdapDefaults["firstName"] = "givenName"
       /\ LdapDefaults["lastName"] = "sn" /\ LdapDefaults["displayName"] = "displayName"
       /\ LdapDefaults["department"] = "department" /\ LdapDefaults["division"] = "division"
       /\ LdapDefaults["title"] = "title" /\ LdapDefaults["employeeNumber"] = "employeeNumber"
       /\ LdapDefaults["costCenter"] = "" /\ LdapDefaults["groups"] = "memberOf"
       /\ LdapDefaults["officeLocation"] = "physicalDeliveryOfficeName"
       /\ LdapDefaults["manager"] = "manager"
  BY DEF LdapDefaults
<1>14. /\ At("email") = Shouted(p.mail) /\ At("firstName") = p.first /\ At("lastName") = p.last
       /\ At("displayName") = Missing /\ At("department") = p.department /\ At("title") = p.title
       /\ At("division") = Missing /\ At("employeeNumber") = Missing /\ At("costCenter") = Missing
       /\ At("officeLocation") = Missing
       /\ (IF At("manager") = Missing THEN Missing ELSE CnFromDn(At("manager"))) = p.managerName
  BY <1>9, <1>10, <1>11, <1>12, <1>13
<1>15. email = Shouted(p.mail)
  BY <1>8, <1>14, FirstOfTwo
<1>16. display = NameTold(p, "ldap")
  <2>1. FirstString(<<At("displayName"), Raw("cn")>>) = p.display
    BY <1>8, <1>9, <1>14, FirstOfTwo
  <2> QED
    BY <1>14, <2>1 DEF NameOr, NameTold
<1>17. FirstString(<<At("employeeNumber"), Raw("employeeID")>>) = Missing
  <2>1. At("employeeNumber") = Missing /\ Raw("employeeID") = Missing /\ Str(Missing) = Missing
    BY <1>8, <1>10, <1>14
  <2>2. FirstString(<<Missing, Missing>>) = Missing
    BY <2>1, FirstOfTwo
  <2> QED
    BY <2>1, <2>2
<1>18. ToSet(names) = p.groups
  <2>1. groups = ValuesIn(Get(entry.attributes, "memberOf"))
    BY <1>5, <1>13 DEF LdapValues
  <2>2. groups = ValuesIn(NormalizeValue(OneOrMany([i \in DOMAIN s |-> Dn(s[i])])))
    BY <1>3, <1>4, <2>1
  <2> HIDE DEF groups
  <2> QED
    BY <2>2, DnsRead
<1>19. AttributesShow(attributes, p, "ldap")
  BY <1>14, <1>17 DEF AttributesShow, Field, Fields, ManagerTold
<1> HIDE DEF email, externalId, display, attributes, groups, names
<1>20. Shows(Profile(email, externalId, p.first, p.last, display, attributes, names, Object(<<>>)),
             p, "ldap")
  BY <1>15, <1>16, <1>18, <1>19, PersonIs, ProfileShows
<1>21. AccountActiveFromLdap(entry) = p.active
  <2> DEFINE said == IF p.active THEN <<"512">> ELSE <<"514">>
  <2>1. said \in Seq(STRING) /\ Len(said) = 1 /\ said # <<>> /\ said[1] # " "
    <3>1. \A x \in STRING : <<x>> \in Seq(STRING) /\ Len(<<x>>) = 1 /\ <<x>> # <<>> /\ <<x>>[1] = x
      OBVIOUS
    <3>2. "512" \in STRING /\ "514" \in STRING /\ "512" # " " /\ "514" # " "
      BY NumeralsAssumption
    <3>3. CASE p.active
      BY <3>1, <3>2, <3>3
    <3>4. CASE ~p.active
      BY <3>1, <3>2, <3>4
    <3> QED
      BY <3>3, <3>4
  <2>2. NormalizeValue(uac) = Text(said)
    BY DEF NormalizeValue, StringifyScalar, IsList, Number, Text
  <2> HIDE DEF said, uac
  <2>3. IsName(Text(said)) /\ IsText(Text(said)) /\ Text(said).word = said
    BY <2>1 DEF IsName, IsText, Text
  <2>4. Str(Text(said)) = Text(said) /\ Text(said) # Missing /\ ~IsList(Text(said))
    BY <2>3, NameIsTrim DEF IsText, IsList
  <2>5. First(ValuesIn(Text(said))) = Text(said)
    <3> DEFINE d == Text(said)
    <3>1. 0 \in Nat /\ (IsList(d) => DOMAIN d.items = 1 .. 0)
      BY <2>4
    <3> HIDE DEF d
    <3>2. First(ValuesIn(d)) = FirstIn(d)
      BY <3>1, ValuesInAre
    <3> QED
      BY <2>4, <3>2 DEF FirstIn, d
  <2>6. Raw("userAccountControl") = Text(said)
    BY <1>4, <1>6, <2>2, <2>5
  <2>7. AccountActiveFromLdap(entry) <=> (said \in DOMAIN Numerals => (Numerals[said] \div 2) % 2 = 0)
    BY <2>3, <2>6 DEF AccountActiveFromLdap, Raw
  <2>8. p.active => said = <<"512">> /\ (512 \div 2) % 2 = 0
    BY DEF said
  <2>9. ~p.active => said = <<"514">> /\ (514 \div 2) % 2 = 1
    BY DEF said
  <2>10. AccountActiveFromLdap(entry) \in BOOLEAN /\ p.active \in BOOLEAN
    BY PersonIs DEF AccountActiveFromLdap
  <2> QED
    BY <2>7, <2>8, <2>9, <2>10, NumeralsAssumption
<1> QED
  BY <1>1, <1>14, <1>20, <1>21 DEF entry

----------------------------------------------------------------------------
(* The kept profile                                                         *)

\* What a profile may say of a person under each key of the attributes.
Told(p, k, source) ==
    IF k = "firstName" THEN p.first ELSE IF k = "lastName" THEN p.last
    ELSE IF k \in Fields THEN FieldTold(p, k, source) ELSE Missing

\* A row that keeps what it may of a person.
Keeps(r, p, may) ==
    /\ r = [externalId |-> r.externalId, email |-> r.email, displayName |-> r.displayName,
            groups |-> r.groups, active |-> r.active, source |-> r.source,
            attributes |-> r.attributes]
    /\ p = [id |-> p.id, mail |-> p.mail, first |-> p.first, last |-> p.last,
            display |-> p.display, title |-> p.title, department |-> p.department,
            manager |-> p.manager, managerName |-> p.managerName, groups |-> p.groups,
            active |-> p.active]
    /\ IsFiniteSet(p.groups)
    /\ r.email = MailTold(p, r.source) /\ r.groups = p.groups
    /\ \A k \in Keys : Field(r.attributes, k) = IF k \in may THEN Told(p, k, r.source) ELSE Missing
    /\ r.displayName = IF "displayName" \in may THEN NameTold(p, r.source) ELSE Missing
    /\ r.source \in {"ldap", "google"} => r.active = p.active

\* An attribute written over others.
LEMMA OverField ==
    ASSUME NEW f, NEW g, NEW k
    PROVE  Field(Over(f, g), k) = IF k \in DOMAIN f THEN f[k] ELSE Field(g, k)
  BY DEF Over, Field

\* A name is kept, and nothing else is.
LEMMA NonEmptyNames ==
    ASSUME NEW v, NameOrNone(v)
    PROVE  NonEmpty(v) = v /\ NonEmpty(OrNull(v)) = v /\ NonEmpty(Null) = Missing
<1>1. ~IsText(Missing) /\ ~IsText(Null)
  BY DEF IsText, Missing, Null
<1>2. IsName(v) => IsText(v) /\ v.word # <<>> /\ v # Missing
  BY NameIsTrim
<1> QED
  BY <1>1, <1>2 DEF NonEmpty, OrNull, NameOrNone

\* A displayed name is kept too, be it made of two others.
LEMMA NameToldIsKept ==
    ASSUME NEW p, IsPerson(p), NEW source
    PROVE  NonEmpty(OrNull(NameTold(p, source))) = NameTold(p, source)
<1> DEFINE joined == p.first.word \o <<" ">> \o p.last.word
<1>1. NameOrNone(p.first) /\ NameOrNone(p.last) /\ NameOrNone(p.display)
  BY PersonIs
<1>2. NameOrNone(Missing)
  BY DEF NameOrNone
<1>3. \A v : NameOrNone(v) => NonEmpty(OrNull(v)) = v
  BY NonEmptyNames
<1>4. IsText(p.first) /\ IsText(p.last) => NonEmpty(OrNull(Text(joined))) = Text(joined)
  <2> HAVE IsText(p.first) /\ IsText(p.last)
  <2>1. IsName(p.first) /\ IsName(p.last)
    BY <1>1 DEF NameOrNone, IsText, Missing
  <2>2. p.first.word \in Seq(STRING) /\ p.last.word \in Seq(STRING) /\ <<" ">> \in Seq(STRING)
    <3>1. \A x \in STRING : <<x>> \in Seq(STRING)
      OBVIOUS
    <3>2. " " \in STRING
      BY LiteralsAreStrings
    <3>3. p.first.word \in Seq(STRING) /\ p.last.word \in Seq(STRING)
      BY <2>1 DEF IsName
    <3> QED
      BY <3>1, <3>2, <3>3
  <2>3. joined # <<>>
    <3> DEFINE a == p.first.word
               b == p.last.word
    <3>1. a \in Seq(STRING) /\ b \in Seq(STRING) /\ <<" ">> \in Seq(STRING) /\ Len(<<" ">>) = 1
      BY <2>2
    <3> HIDE DEF a, b
    <3>2. (a \o <<" ">>) \in Seq(STRING) /\ Len(a \o <<" ">>) = Len(a) + 1
      BY <3>1, ConcatProperties
    <3>3. Len(a \o <<" ">> \o b) = Len(a \o <<" ">>) + Len(b)
      BY <3>1, <3>2, ConcatProperties
    <3>4. Len(a) \in Nat /\ Len(b) \in Nat
      BY <3>1, LenProperties
    <3> DEFINE ab == a \o <<" ">>
    <3>5. Len(ab \o b) # 0
      <4>1. Len(ab) = Len(a) + 1 /\ Len(ab \o b) = Len(ab) + Len(b)
        BY <3>2, <3>3
      <4> HIDE DEF ab
      <4> QED
        BY <4>1, <3>4
    <3>6. a \o <<" ">> \o b # <<>>
      BY <3>5
    <3> QED
      BY <3>6 DEF a, b
  <2> HIDE DEF joined
  <2>4. Text(joined).is = "text" /\ Text(joined).word = joined /\ Text(joined) # Missing
    BY DEF Text, Missing
  <2> QED
    BY <2>3, <2>4 DEF NonEmpty, OrNull, IsText
<1> HIDE DEF joined
<1>5. NonEmpty(OrNull(Joined(p.first, p.last, Missing))) = Joined(p.first, p.last, Missing)
  <2>1. Joined(p.first, p.last, Missing) =
          IF IsText(p.first) /\ IsText(p.last) THEN Text(joined)
          ELSE IF IsText(p.first) THEN p.first ELSE IF IsText(p.last) THEN p.last ELSE Missing
    BY DEF Joined, joined
  <2> QED
    BY <1>1, <1>2, <1>3, <1>4, <2>1
<1> QED
  BY <1>1, <1>2, <1>3, <1>5 DEF NameTold

\* What an app keeps of a profile that shows a person.
LEMMA KeptRow ==
    ASSUME NEW p, IsPerson(p), NEW source, NEW rich, Shows(rich, p, source), NEW may, NEW active,
           source \in {"ldap", "google"} => active = p.active
    PROVE  Keeps(ToContractsProfile(MinimizeProfile(rich, may), active, source), p, may)
<1> DEFINE Kept(field, v) == IF field \in may THEN v ELSE Null
           attributes == [k \in DOMAIN rich.attributes \cap may |-> rich.attributes[k]]
           cut == MinimizeProfile(rich, may)
           first == NonEmpty(Kept("firstName", OrNull(p.first)))
           last == NonEmpty(Kept("lastName", OrNull(p.last)))
           names == [firstName |-> first, lastName |-> last]
           r == ToContractsProfile(cut, active, source)
<1>1. /\ cut = [email |-> rich.email, externalId |-> rich.externalId,
                firstName |-> Kept("firstName", rich.firstName),
                lastName |-> Kept("lastName", rich.lastName),
                displayName |-> Kept("displayName", rich.displayName), attributes |-> attributes,
                groups |-> rich.groups, claims |-> Object(<<>>)]
  <2> DEFINE x == [email |-> rich.email, externalId |-> rich.externalId,
                   firstName |-> rich.firstName, lastName |-> rich.lastName,
                   displayName |-> rich.displayName, attributes |-> rich.attributes,
                   groups |-> rich.groups, claims |-> rich.claims]
  <2>1. rich = x
    BY DEF Shows, Describes
  <2>2. cut = [rich EXCEPT !.firstName = Kept("firstName", rich.firstName),
                           !.lastName = Kept("lastName", rich.lastName),
                           !.displayName = Kept("displayName", rich.displayName),
                           !.attributes = attributes, !.claims = Object(<<>>)]
    BY DEF MinimizeProfile
  <2> HIDE DEF cut, attributes, Kept
  <2>3. cut = [x EXCEPT !.firstName = Kept("firstName", rich.firstName),
                        !.lastName = Kept("lastName", rich.lastName),
                        !.displayName = Kept("displayName", rich.displayName),
                        !.attributes = attributes, !.claims = Object(<<>>)]
    BY <2>1, <2>2
  <2> QED
    BY <2>3
<1>2. /\ rich.firstName = OrNull(p.first) /\ rich.lastName = OrNull(p.last)
      /\ rich.email = MailTold(p, source) /\ rich.groups = p.groups
      /\ rich.displayName = OrNull(NameTold(p, source))
      /\ \A k \in Keys :
            Field(rich.attributes, k) = IF k \in Fields THEN FieldTold(p, k, source) ELSE Missing
  BY DEF Shows, Describes
<1>2a. IsName(rich.email)
  BY <1>2, PersonIs DEF MailTold
<1> HIDE DEF cut, attributes
<1>3. /\ cut.email = rich.email /\ cut.firstName = Kept("firstName", OrNull(p.first))
      /\ cut.lastName = Kept("lastName", OrNull(p.last))
      /\ cut.displayName = Kept("displayName", rich.displayName)
      /\ cut.attributes = attributes /\ cut.groups = p.groups
  BY <1>1, <1>2
<1>4. r = [externalId |-> IF NonEmpty(cut.externalId) = Missing THEN rich.email ELSE cut.externalId,
           email |-> NonEmpty(rich.email), displayName |-> NonEmpty(cut.displayName),
           groups |-> p.groups, active |-> active, source |-> source,
           attributes |-> Over(Compact(names), attributes)]
  BY <1>3 DEF ToContractsProfile
<1> HIDE DEF r, names
<1>5. NonEmpty(rich.email) = rich.email
  BY <1>2a, NonEmptyNames DEF NameOrNone
<1>6. /\ r.email = rich.email /\ r.groups = p.groups /\ r.displayName = NonEmpty(cut.displayName)
      /\ r.active = active /\ r.source = source
      /\ r.attributes = Over(Compact(names), attributes)
  BY <1>4, <1>5
<1>7. r = [externalId |-> r.externalId, email |-> r.email, displayName |-> r.displayName,
           groups |-> r.groups, active |-> r.active, source |-> r.source,
           attributes |-> r.attributes]
  BY <1>4
<1>8. r.displayName = IF "displayName" \in may THEN NameTold(p, source) ELSE Missing
  <2>1. cut.displayName = Kept("displayName", OrNull(NameTold(p, source)))
    BY <1>2, <1>3
  <2>2. NonEmpty(Null) = Missing
    BY PersonIs, NonEmptyNames
  <2> QED
    BY <1>6, <2>1, <2>2, NameToldIsKept
<1>9. /\ first = IF "firstName" \in may THEN p.first ELSE Missing
      /\ last = IF "lastName" \in may THEN p.last ELSE Missing
  BY PersonIs, NonEmptyNames
<1> HIDE DEF first, last
<1>10. \A k \in Keys : Field(r.attributes, k) = IF k \in may THEN Told(p, k, source) ELSE Missing
  <2>1. \A k : Field(r.attributes, k) = IF k \in DOMAIN Compact(names) THEN Compact(names)[k]
                                        ELSE Field(attributes, k)
    BY <1>6, OverField
  <2>2. \A k : k \in DOMAIN Compact(names) => k \in {"firstName", "lastName"}
    BY DEF Compact, names
  <2>3. /\ "firstName" \in DOMAIN Compact(names) => Compact(names)["firstName"] = first
        /\ "firstName" \notin DOMAIN Compact(names) => first = Missing
        /\ "lastName" \in DOMAIN Compact(names) => Compact(names)["lastName"] = last
        /\ "lastName" \notin DOMAIN Compact(names) => last = Missing
    <3>1. /\ DOMAIN names = {"firstName", "lastName"} /\ names["firstName"] = first
          /\ names["lastName"] = last
      BY DEF names
    <3> QED
      BY <3>1 DEF Compact
  <2>4. \A k \in Keys : Field(attributes, k) =
                           IF k \in may /\ k \in Fields THEN FieldTold(p, k, source) ELSE Missing
    <3>1. \A k : Field(attributes, k) = IF k \in may THEN Field(rich.attributes, k) ELSE Missing
      BY DEF attributes, Field
    <3> QED
      BY <1>2, <3>1
  <2>5. \A k \in Keys : k \in {"firstName", "lastName"} => k \notin Fields
    BY DEF Fields
  <2>6. ASSUME NEW k \in Keys
        PROVE  Field(r.attributes, k) = IF k \in may THEN Told(p, k, source) ELSE Missing
    <3>1. CASE k = "firstName"
      BY <1>9, <2>1, <2>3, <2>4, <2>5, <3>1 DEF Told
    <3>2. CASE k = "lastName"
      BY <1>9, <2>1, <2>3, <2>4, <2>5, <3>2 DEF Told
    <3>3. CASE k # "firstName" /\ k # "lastName"
      BY <2>1, <2>2, <2>4, <3>3 DEF Told
    <3> QED
      BY <3>1, <3>2, <3>3
  <2> QED
    BY <2>6
<1>11. /\ IsFiniteSet(p.groups)
       /\ p = [id |-> p.id, mail |-> p.mail, first |-> p.first, last |-> p.last,
               display |-> p.display, title |-> p.title, department |-> p.department,
               manager |-> p.manager, managerName |-> p.managerName, groups |-> p.groups,
               active |-> p.active]
  BY DEF IsPerson
<1>12. /\ r.email = MailTold(p, r.source) /\ r.groups = p.groups /\ r.source = source
       /\ r.source \in {"ldap", "google"} => r.active = p.active
  BY <1>2, <1>6
<1>13. Keeps(r, p, may)
  BY <1>7, <1>8, <1>10, <1>11, <1>12 DEF Keeps
<1> QED
  BY <1>13 DEF r, cut

\* The app changes the groups, and nothing else of it.
LEMMA KeptGroups ==
    ASSUME NEW r, NEW p, NEW may, Keeps(r, p, may), NEW groups, IsFiniteSet(groups)
    PROVE  Keeps([r EXCEPT !.groups = groups], [p EXCEPT !.groups = groups], may)
<1> DEFINE s == [r EXCEPT !.groups = groups]
           q == [p EXCEPT !.groups = groups]
<1>1. s = [externalId |-> r.externalId, email |-> r.email, displayName |-> r.displayName,
           groups |-> groups, active |-> r.active, source |-> r.source,
           attributes |-> r.attributes]
  BY DEF Keeps
<1>2. q = [id |-> p.id, mail |-> p.mail, first |-> p.first, last |-> p.last,
           display |-> p.display, title |-> p.title, department |-> p.department,
           manager |-> p.manager, managerName |-> p.managerName, groups |-> groups,
           active |-> p.active]
  BY DEF Keeps
<1> HIDE DEF s, q
<1>3. /\ s.email = r.email /\ s.displayName = r.displayName /\ s.groups = groups
      /\ s.attributes = r.attributes /\ s.source = r.source /\ s.active = r.active
      /\ s = [externalId |-> s.externalId, email |-> s.email, displayName |-> s.displayName,
              groups |-> s.groups, active |-> s.active, source |-> s.source,
              attributes |-> s.attributes]
  BY <1>1
<1>4. /\ q.mail = p.mail /\ q.first = p.first /\ q.last = p.last /\ q.display = p.display
      /\ q.groups = groups /\ q.active = p.active /\ q.managerName = p.managerName
      /\ \A k \in Fields : q[k] = p[k]
      /\ q = [id |-> q.id, mail |-> q.mail, first |-> q.first, last |-> q.last,
              display |-> q.display, title |-> q.title, department |-> q.department,
              manager |-> q.manager, managerName |-> q.managerName, groups |-> q.groups,
              active |-> q.active]
  BY <1>2 DEF Fields
<1>5. /\ \A source : MailTold(q, source) = MailTold(p, source) /\ NameTold(q, source) = NameTold(p, source)
      /\ \A source, k : Told(q, k, source) = Told(p, k, source)
  <2>1. "manager" \in Fields
    BY DEF Fields
  <2>2. \A source, k : k \in Fields => FieldTold(q, k, source) = FieldTold(p, k, source)
    BY <1>4, <2>1 DEF FieldTold, ManagerTold
  <2> QED
    BY <1>4, <2>2 DEF Told, MailTold, NameTold
<1>6. /\ r.email = MailTold(p, r.source)
      /\ \A k \in Keys : Field(r.attributes, k) = IF k \in may THEN Told(p, k, r.source) ELSE Missing
      /\ r.displayName = IF "displayName" \in may THEN NameTold(p, r.source) ELSE Missing
      /\ r.source \in {"ldap", "google"} => r.active = p.active
  BY DEF Keeps
<1>7. Keeps(s, q, may)
  BY <1>3, <1>4, <1>5, <1>6 DEF Keeps
<1> QED
  BY <1>7 DEF s, q

\* Priorities, and ids where they tie, put the rules in one order.
LEMMA BeforeIsTotal ==
    ASSUME NEW rs, IsRuleSet(rs), NEW r \in rs, NEW s \in rs
    PROVE  /\ ~Before(r, r)
           /\ Before(r, s) => ~Before(s, r)
           /\ Before(r, s) \/ Before(s, r) \/ r = s
           /\ \A t \in rs : Before(r, s) /\ Before(s, t) => Before(r, t)
  BY DEF IsRuleSet, Before

Placed(rs, ordered) ==
    /\ ordered \in Seq(rs) /\ Len(ordered) \in Nat /\ DOMAIN ordered = 1 .. Len(ordered)
    /\ \A r \in rs : \E i \in 1 .. Len(ordered) : ordered[i] = r
    /\ \A i, j \in 1 .. Len(ordered) : Before(ordered[i], ordered[j]) <=> i < j

\* The order the rules are evaluated in has each of them in its place.
LEMMA InOrderPlaces ==
    ASSUME NEW rs, IsRuleSet(rs)
    PROVE  Placed(rs, InOrder(rs))
<1> DEFINE N == Cardinality(rs)
           below(r) == {s \in rs : Before(s, r)}
           rank(r) == Cardinality(below(r))
           place == [r \in rs |-> rank(r) + 1]
           ordered == InOrder(rs)
<1>1. IsFiniteSet(rs) /\ N \in Nat
  BY FS_CardinalityType DEF IsRuleSet
<1>2. ASSUME NEW r \in rs
      PROVE  rank(r) \in Nat /\ rank(r) < N /\ IsFiniteSet(below(r))
  <2>1. below(r) \in SUBSET rs /\ r \notin below(r)
    BY BeforeIsTotal
  <2> HIDE DEF below
  <2>2. IsFiniteSet(below(r)) /\ rank(r) <= N /\ (N = rank(r) => below(r) = rs)
    BY <1>1, <2>1, FS_Subset
  <2>3. rank(r) \in Nat
    BY <2>2, FS_CardinalityType
  <2> HIDE DEF N, rank
  <2> QED
    BY <1>1, <2>1, <2>2, <2>3
<1>3. ASSUME NEW r \in rs, NEW s \in rs, Before(r, s)
      PROVE  rank(r) < rank(s)
  <2>1. below(r) \in SUBSET below(s) /\ r \in below(s) /\ r \notin below(r)
    BY <1>3, BeforeIsTotal
  <2>2. rank(r) \in Nat /\ rank(s) \in Nat /\ IsFiniteSet(below(s))
    BY <1>2
  <2> HIDE DEF below
  <2>3. rank(r) <= rank(s) /\ (rank(s) = rank(r) => below(s) = below(r))
    BY <2>1, <2>2, FS_Subset
  <2> HIDE DEF rank
  <2> QED
    BY <2>1, <2>2, <2>3
<1>0. ordered = [n \in 1 .. N |-> CHOOSE r \in rs : rank(r) = n - 1]
  BY DEF InOrder
<1> HIDE DEF below, rank, N, ordered
<1>4. place \in [rs -> 1 .. N] /\ \A r \in rs : place[r] = rank(r) + 1
  BY <1>1, <1>2
<1> HIDE DEF place
<1>5. \A r, s \in rs : place[r] = place[s] => r = s
  BY <1>2, <1>3, <1>4, BeforeIsTotal
<1>6. place \in Injection(rs, 1 .. N)
  BY <1>4, <1>5 DEF Injection, IsInjective
<1>7. IsFiniteSet(1 .. N) /\ Cardinality(1 .. N) = N
  BY <1>1, FS_Interval
<1>8. place \in Surjection(rs, 1 .. N)
  BY <1>6, <1>7, FS_Injection DEF N
<1>9. \A n \in 1 .. N : \E r \in rs : rank(r) = n - 1
  <2>1. \A n \in 1 .. N : \E r \in rs : place[r] = n
    BY <1>8 DEF Surjection
  <2> QED
    BY <1>2, <1>4, <2>1
<1>10. \A n \in 1 .. N : ordered[n] \in rs /\ rank(ordered[n]) = n - 1
  BY <1>0, <1>9
<1>11. ordered \in [1 .. N -> rs]
  <2>1. ordered = [n \in 1 .. N |-> ordered[n]]
    BY <1>0
  <2> QED
    BY <1>10, <2>1
<1>12. ordered \in Seq(rs) /\ Len(ordered) = N /\ DOMAIN ordered = 1 .. N
  BY <1>1, <1>11, SeqDef, LenProperties
<1>13. ASSUME NEW r \in rs
       PROVE  \E i \in 1 .. N : ordered[i] = r
  <2>1. place[r] \in 1 .. N /\ rank(r) = place[r] - 1 /\ rank(r) \in Nat
    BY <1>2, <1>4
  <2>2. place[ordered[place[r]]] = place[r]
    BY <1>2, <1>4, <1>10, <2>1
  <2>3. ordered[place[r]] = r
    BY <1>5, <1>10, <2>1, <2>2
  <2> QED
    BY <2>1, <2>3
<1>14. ASSUME NEW i \in 1 .. N, NEW j \in 1 .. N
       PROVE  Before(ordered[i], ordered[j]) <=> i < j
  <2>1. /\ ordered[i] \in rs /\ ordered[j] \in rs
        /\ rank(ordered[i]) = i - 1 /\ rank(ordered[j]) = j - 1
    BY <1>10
  <2>2. Before(ordered[i], ordered[j]) => i < j
    BY <1>3, <2>1
  <2>3. Before(ordered[j], ordered[i]) => j < i
    BY <1>3, <2>1
  <2>4. ordered[i] = ordered[j] => i = j
    BY <2>1
  <2> QED
    BY <2>1, <2>2, <2>3, <2>4, BeforeIsTotal
<1> QED
  BY <1>1, <1>12, <1>13, <1>14 DEF Placed, ordered

\* What the loop makes of one rule.
Evaluate(profile, result, rule) ==
    IF result.stopped \/ ~RuleMatches(profile, rule) THEN result
    ELSE [roleKeys |-> result.roleKeys \cup rule.assignRoleKeys,
          units |-> IF rule.orgUnit = NoUnit THEN result.units
                    ELSE Append(result.units, rule.orgUnit),
          matched |-> result.matched \cup {rule.id},
          stopped |-> rule.stopOnMatch]

Unmatched == [roleKeys |-> {}, units |-> <<>>, matched |-> {}, stopped |-> FALSE]

Results(rs) ==
    [roleKeys : SUBSET UNION {r.assignRoleKeys : r \in rs},
     units : Seq({r.orgUnit : r \in rs}), matched : SUBSET {r.id : r \in rs},
     stopped : BOOLEAN]

\* The loop, from one rule to the next.
LEMMA EvaluationPasses ==
    ASSUME NEW profile, NEW rs, IsRuleSet(rs)
    PROVE  LET ordered == InOrder(rs)
               N == Len(ordered)
           IN  \E after \in [0 .. N -> Results(rs)] :
                  /\ after[0] = Unmatched
                  /\ \A n \in 1 .. N : after[n] = Evaluate(profile, after[n - 1], ordered[n])
                  /\ after[N] = EvaluateMappings(profile, rs)
<1> DEFINE ordered == InOrder(rs)
           N == Len(ordered)
           V == Results(rs)
           step == [n \in 1 .. N |-> [v \in V |-> Evaluate(profile, v, ordered[n])]]
           Defines(it) == it = [s \in SUBSET (1 .. N) |->
                                  IF s = {} THEN Unmatched
                                  ELSE Evaluate(profile, it[s \ {Max(s)}], ordered[Max(s)])]
           fold == CHOOSE it : Defines(it)
<1>0. N \in Nat /\ DOMAIN ordered = 1 .. N /\ \A n \in 1 .. N : ordered[n] \in rs
  <2>1. Placed(rs, ordered)
    BY InOrderPlaces
  <2> HIDE DEF ordered
  <2> QED
    BY <2>1, ElementOfSeq DEF Placed
<1>1. EvaluateMappings(profile, rs) = fold[1 .. N]
  BY <1>0 DEF EvaluateMappings, Evaluated, Evaluate, Unmatched, FoldLeft, MapThenFoldSet
<1> HIDE DEF ordered, N
<1>2. Unmatched \in V
  BY EmptySeq DEF Unmatched, Results
<1>3. ASSUME NEW v \in V, NEW n \in 1 .. N
      PROVE  Evaluate(profile, v, ordered[n]) \in V
  <2> DEFINE r == ordered[n]
             U == {x.orgUnit : x \in rs}
  <2>1. r \in rs /\ r.stopOnMatch \in BOOLEAN
    BY <1>0 DEF IsRuleSet
  <2> HIDE DEF r
  <2>2. CASE v.stopped \/ ~RuleMatches(profile, r)
    BY <2>2 DEF Evaluate, r
  <2>3. CASE ~(v.stopped \/ ~RuleMatches(profile, r))
    <3>1. v.units \in Seq(U) /\ r.orgUnit \in U
      BY <2>1 DEF Results
    <3> HIDE DEF U
    <3>2. Append(v.units, r.orgUnit) \in Seq(U)
      BY <3>1, AppendProperties
    <3>3. r.assignRoleKeys \subseteq UNION {x.assignRoleKeys : x \in rs}
      BY <2>1
    <3>4. r.id \in {x.id : x \in rs}
      BY <2>1
    <3> QED
      BY <2>1, <2>3, <3>1, <3>2, <3>3, <3>4 DEF Evaluate, Results, U, r
  <2> QED
    BY <2>2, <2>3
<1> HIDE DEF V
<1>4. step \in Steps(N, V)
  BY <1>3 DEF Steps
<1>5. \A n \in 1 .. N, v \in V : step[n][v] = Evaluate(profile, v, ordered[n])
  OBVIOUS
<1> HIDE DEF step
<1>6. PICK it \in [SUBSET (1 .. N) -> V] : FoldsDown(it, N, Unmatched, step)
  BY <1>0, <1>2, <1>4, FoldExists
<1>7. ASSUME NEW s \in SUBSET (1 .. N)
      PROVE  it[s] = IF s = {} THEN Unmatched
                     ELSE Evaluate(profile, it[s \ {Max(s)}], ordered[Max(s)])
  <2>1. CASE s = {}
    BY <1>6, <2>1 DEF FoldsDown
  <2>2. CASE s # {}
    <3>1. Max(s) \in 1 .. N /\ it[s \ {Max(s)}] \in V
      BY <1>0, <2>2, MaxOf
    <3> QED
      BY <1>5, <1>6, <2>2, <3>1 DEF FoldsDown
  <2> QED
    BY <2>1, <2>2
<1>8. Defines(it)
  BY <1>7
<1> HIDE DEF Defines
<1>9. Defines(fold)
  BY <1>8
<1> HIDE DEF fold
<1>10. \A s \in SUBSET (1 .. N) :
          fold[s] = IF s = {} THEN Unmatched
                    ELSE Evaluate(profile, fold[s \ {Max(s)}], ordered[Max(s)])
  BY <1>9 DEF Defines
<1>11. FoldsValues(fold, N, V, Unmatched, step)
  <2>1. ASSUME NEW s \in SUBSET (1 .. N), s # {}, fold[s \ {Max(s)}] \in V
        PROVE  fold[s] = step[Max(s)][fold[s \ {Max(s)}]]
    <3>1. Max(s) \in 1 .. N
      BY <1>0, <2>1, MaxOf
    <3> QED
      BY <1>5, <1>10, <2>1, <3>1
  <2> QED
    BY <1>10, <2>1 DEF FoldsValues
<1>12. PICK after \in [0 .. N -> V] :
          Passes(after, N, Unmatched, step) /\ after[N] = fold[1 .. N]
  BY <1>0, <1>2, <1>4, <1>11, FoldPasses
<1>13. ASSUME NEW n \in 1 .. N
       PROVE  after[n] = Evaluate(profile, after[n - 1], ordered[n])
  <2>1. after[n - 1] \in V
    BY <1>0
  <2> QED
    BY <1>5, <1>12, <2>1 DEF Passes
<1> QED
  BY <1>1, <1>12, <1>13 DEF Passes, ordered, N, V

\* evaluateMappings ends with the roles of the rules that match, up to the first of them, in the
\* order of their priorities and ids, that stops: for every profile and every set of rules.
THEOREM RolesAreDeserved ==
    ASSUME NEW profile, NEW rs, IsRuleSet(rs)
    PROVE  RolesOf(profile, rs) = DeservedRoles(profile, rs)
<1> DEFINE ordered == InOrder(rs)
           N == Len(ordered)
           Hits(i) == RuleMatches(profile, ordered[i])
           Stops(i) == Hits(i) /\ ordered[i].stopOnMatch
           Counts(i) == Hits(i) /\ \A j \in 1 .. N : Stops(j) => ~(j < i)
           upto(n) == UNION {ordered[i].assignRoleKeys : i \in {j \in 1 .. n : Counts(j)}}
<1>1. PICK after \in [0 .. N -> Results(rs)] :
         /\ after[0] = Unmatched
         /\ \A n \in 1 .. N : after[n] = Evaluate(profile, after[n - 1], ordered[n])
         /\ after[N] = EvaluateMappings(profile, rs)
  BY EvaluationPasses
<1>2. Placed(rs, ordered)
  BY InOrderPlaces
<1> HIDE DEF ordered
<1>3. /\ N \in Nat /\ DOMAIN ordered = 1 .. N /\ \A i \in 1 .. N : ordered[i] \in rs
      /\ \A r \in rs : \E i \in 1 .. N : ordered[i] = r
      /\ \A i, j \in 1 .. N : Before(ordered[i], ordered[j]) <=> i < j
  BY <1>2, ElementOfSeq DEF Placed
<1> HIDE DEF N
<1> DEFINE Right(n) == /\ after[n].stopped <=> \E i \in 1 .. n : Stops(i)
                       /\ after[n].roleKeys = upto(n)
           S == {n \in 0 .. N : Right(n)}
<1>4. 0 \in S
  BY <1>1, <1>3 DEF Unmatched
<1>5. ASSUME NEW n \in 0 .. N - 1, n \in S
      PROVE  n + 1 \in S
  <2> DEFINE m == n + 1
  <2>0. /\ m \in 1 .. N /\ m \in 0 .. N /\ m - 1 = n /\ n \in Nat /\ n \in 0 .. N
        /\ 1 .. m = (1 .. n) \cup {m}
    BY <1>3
  <2>1. after[m] = Evaluate(profile, after[n], ordered[m])
    BY <1>1, <2>0
  <2>2. Right(n) /\ ordered[m].stopOnMatch \in BOOLEAN
    BY <1>3, <1>5, <2>0 DEF IsRuleSet
  <2>3. Counts(m) <=> Hits(m) /\ ~after[n].stopped
    <3>1. \A j \in 1 .. N : j < m <=> j \in 1 .. n
      BY <1>3, <2>0
    <3>2. 1 .. n \subseteq 1 .. N
      BY <1>3, <2>0
    <3> HIDE DEF Hits, Stops
    <3> QED
      BY <2>2, <3>1, <3>2
  <2>4. upto(m) = IF Counts(m) THEN upto(n) \cup ordered[m].assignRoleKeys ELSE upto(n)
    <3> HIDE DEF Counts
    <3> QED
      BY <2>0
  <2> HIDE DEF Counts, upto
  <2>5. CASE after[n].stopped \/ ~Hits(m)
    <3>1. after[m] = after[n]
      BY <2>1, <2>5 DEF Evaluate
    <3>2. after[m].stopped <=> \E i \in 1 .. m : Stops(i)
      BY <2>0, <2>2, <2>5, <3>1
    <3> QED
      BY <2>0, <2>2, <2>3, <2>4, <2>5, <3>1, <3>2
  <2>6. CASE ~(after[n].stopped \/ ~Hits(m))
    <3>1. /\ after[m].stopped = ordered[m].stopOnMatch
          /\ after[m].roleKeys = after[n].roleKeys \cup ordered[m].assignRoleKeys
      BY <2>1, <2>6 DEF Evaluate
    <3>2. after[m].stopped <=> \E i \in 1 .. m : Stops(i)
      BY <2>0, <2>2, <2>6, <3>1
    <3> QED
      BY <2>0, <2>2, <2>3, <2>4, <2>6, <3>1, <3>2
  <2> QED
    BY <2>5, <2>6
<1> HIDE DEF S
<1>6. 0 .. N \subseteq S
  BY <1>3, <1>4, <1>5, BoundedInduction
<1>7. N \in 0 .. N
  BY <1>3
<1>8. RolesOf(profile, rs) = upto(N)
  BY <1>1, <1>6, <1>7 DEF S, RolesOf
<1> DEFINE matching == {r \in rs : RuleMatches(profile, r)}
           Cut(r) == \E s \in matching : s.stopOnMatch /\ Before(s, r)
           counted == {s \in matching : ~Cut(s)}
<1>9. \A i \in 1 .. N : Counts(i) <=> ordered[i] \in counted
  <2>1. ASSUME NEW i \in 1 .. N
        PROVE  Cut(ordered[i]) <=> \E j \in 1 .. N : Stops(j) /\ j < i
    BY <1>3
  <2> HIDE DEF Cut, Stops
  <2> QED
    BY <1>3, <2>1
<1> HIDE DEF Counts
<1>10. counted = {ordered[i] : i \in {j \in 1 .. N : Counts(j)}}
  <2>1. \A r \in counted : r \in rs
    OBVIOUS
  <2> HIDE DEF counted
  <2> QED
    BY <1>3, <1>9, <2>1
<1>11. DeservedRoles(profile, rs) = UNION {r.assignRoleKeys : r \in counted}
  BY DEF DeservedRoles
<1> HIDE DEF counted
<1> QED
  BY <1>8, <1>10, <1>11

----------------------------------------------------------------------------
(* What rules read                                                          *)

\* A profile that says no more than another of what rules read.
Within(profile, other, rs) ==
    /\ profile.groups = other.groups
    /\ \A k \in ReadBy(rs) :
          \/ Field(profile.attributes, k) = Field(other.attributes, k)
          \/ Field(profile.attributes, k) = Missing

\* A condition finds no value in what says less that it would not find in what says more.
LEMMA ValuesGrow ==
    ASSUME NEW profile, NEW other, NEW rs, ReadsProfile(rs), Within(profile, other, rs),
           NEW r \in rs, NEW c \in r.all \cup r.any
    PROVE  ValuesFor(profile, c) \subseteq ValuesFor(other, c)
<1> DEFINE Said(v) == IF IsText(v) /\ v.word # <<>> THEN {v} ELSE {}
<1>1. c \in UNION {s.all \cup s.any : s \in rs}
  OBVIOUS
<1>2. c.source = "GROUP" \/ c.source = "ATTRIBUTE"
  BY <1>1 DEF ReadsProfile
<1>3. CASE c.source = "GROUP"
  <2>1. ValuesFor(profile, c) = profile.groups /\ ValuesFor(other, c) = other.groups
    BY <1>3 DEF ValuesFor
  <2> QED
    BY <2>1 DEF Within
<1>4. CASE c.source = "ATTRIBUTE"
  <2>1. /\ ValuesFor(profile, c) = Said(Field(profile.attributes, c.key))
        /\ ValuesFor(other, c) = Said(Field(other.attributes, c.key))
    BY <1>4 DEF ValuesFor, Field
  <2>2. c.key \in ReadBy(rs)
    BY <1>1, <1>4 DEF ReadBy
  <2>3. Said(Missing) = {}
    BY DEF IsText, Missing
  <2> HIDE DEF Said
  <2> QED
    BY <2>1, <2>2, <2>3 DEF Within
<1> QED
  BY <1>2, <1>3, <1>4

\* No operator of a rule asks that a value be not there.
LEMMA ConditionsGrow ==
    ASSUME NEW profile, NEW other, NEW c, ValuesFor(profile, c) \subseteq ValuesFor(other, c),
           CondMatches(profile, c)
    PROVE  CondMatches(other, c)
<1> DEFINE these == ValuesFor(profile, c)
           those == ValuesFor(other, c)
           Wanted == IF IsList(c.value) THEN ToSet(c.value.items) ELSE {c.value}
           Holds(actual) ==
             CASE c.op = "present" -> actual # {}
               [] c.op = "equals" -> c.value \in actual
               [] c.op = "iequals" -> IsText(c.value) /\ \E a \in actual : Norm(a) = Norm(c.value)
               [] c.op = "contains" ->
                     IsText(c.value) /\ \E a \in actual : Includes(Norm(a), Norm(c.value))
               [] c.op = "in" -> \E a \in actual, v \in Wanted : Norm(a) = Norm(v)
               [] c.op = "matches" ->
                     IsText(c.value) /\ \E a \in actual : SafeRegexTest(c.value, a)
               [] OTHER -> FALSE
<1>1. (CondMatches(profile, c) <=> Holds(these)) /\ (CondMatches(other, c) <=> Holds(those))
  BY DEF CondMatches
<1>2. these \subseteq those /\ Holds(these)
  BY <1>1
<1> HIDE DEF these, those, Wanted
<1>3. CASE c.op = "present"
  BY <1>1, <1>2, <1>3
<1>4. CASE c.op = "equals"
  BY <1>1, <1>2, <1>4
<1>5. CASE c.op = "iequals"
  BY <1>1, <1>2, <1>5
<1>6. CASE c.op = "contains"
  BY <1>1, <1>2, <1>6
<1>7. CASE c.op = "in"
  BY <1>1, <1>2, <1>7
<1>8. CASE c.op = "matches"
  BY <1>1, <1>2, <1>8
<1>9. CASE c.op \notin {"present", "equals", "iequals", "contains", "in", "matches"}
  BY <1>1, <1>2, <1>9
<1>10. Holds(those)
  BY <1>2, <1>3, <1>4, <1>5, <1>6, <1>7, <1>8, <1>9
<1> QED
  BY <1>1, <1>10

\* So no rule matches what says less alone.
LEMMA RulesGrow ==
    ASSUME NEW profile, NEW other, NEW rs, ReadsProfile(rs), Within(profile, other, rs),
           NEW r \in rs, RuleMatches(profile, r)
    PROVE  RuleMatches(other, r)
<1>1. \A c \in r.all \cup r.any : CondMatches(profile, c) => CondMatches(other, c)
  BY ValuesGrow, ConditionsGrow
<1> QED
  BY <1>1 DEF RuleMatches

\* Profiles that agree on what the rules read earn the same roles.
LEMMA SameRoles ==
    ASSUME NEW profile, NEW other, NEW rs, ReadsProfile(rs), Within(profile, other, rs),
           Within(other, profile, rs)
    PROVE  DeservedRoles(profile, rs) = DeservedRoles(other, rs)
<1>1. \A r \in rs : RuleMatches(profile, r) <=> RuleMatches(other, r)
  BY RulesGrow
<1>2. {r \in rs : RuleMatches(profile, r)} = {r \in rs : RuleMatches(other, r)}
  BY <1>1
<1> QED
  BY <1>2 DEF DeservedRoles

\* One that says less earns no role more, where no rule stops the others.
LEMMA FewerRoles ==
    ASSUME NEW profile, NEW other, NEW rs, ReadsProfile(rs), Within(profile, other, rs),
           \A r \in rs : ~r.stopOnMatch
    PROVE  DeservedRoles(profile, rs) \subseteq DeservedRoles(other, rs)
<1> DEFINE Matching(who) == {r \in rs : RuleMatches(who, r)}
<1>1. ASSUME NEW who
      PROVE  DeservedRoles(who, rs) = UNION {r.assignRoleKeys : r \in Matching(who)}
  BY DEF DeservedRoles
<1>2. Matching(profile) \subseteq Matching(other)
  BY RulesGrow
<1> HIDE DEF Matching
<1> QED
  BY <1>1, <1>2

\* Every payload but an LDAP entry shows the person it is of.
LEMMA ProjectionsShow ==
    ASSUME NEW p, IsPerson(p), NEW source \in Sources
    PROVE  Shows(ProfileFrom(source, p), p, source)
<1>1. CASE source = "scim"
  BY <1>1, ScimShows DEF ProfileFrom
<1>2. CASE source = "scimUser"
  BY <1>2, ScimUserShows DEF ProfileFrom
<1>3. CASE source = "graph"
  BY <1>3, GraphShows DEF ProfileFrom
<1>4. CASE source = "google"
  BY <1>4, GoogleShows DEF ProfileFrom
<1>5. CASE source = "saml"
  BY <1>5, SamlShows DEF ProfileFrom
<1>6. CASE source = "oidc"
  BY <1>6, OidcShows DEF ProfileFrom
<1> QED
  BY <1>1, <1>2, <1>3, <1>4, <1>5, <1>6 DEF Sources

\* The account that is nobody's has no email.
LEMMA ServiceHasNoEmail ==
    ProfileFromLdap(NormalizeEntry(ServiceEntry), NoMap).email.word = <<>>
<1> DEFINE entry == NormalizeEntry(ServiceEntry)
           f == [cn |-> Text(<<"svc">>), thumbnail |-> List(<<Null>>)]
           g == [k \in DOMAIN f |-> NormalizeValue(f[k])]
           Raw(name) == LdapFirst(entry.attributes, name)
           Name(field) == IF field \in DOMAIN NoMap THEN NoMap[field] ELSE LdapDefaults[field]
           email == FirstString(<<Raw(Name("email")), Raw("userPrincipalName")>>)
<1>1. entry.attributes = Object(Compact(g))
  <2>1. ServiceEntry.attributes = Object(f)
    BY DEF ServiceEntry
  <2>2. Object(f).fields = f
    BY DEF Object
  <2> HIDE DEF f
  <2>3. entry.attributes = Object(Compact([k \in DOMAIN Object(f).fields |->
                                             NormalizeValue(Object(f).fields[k])]))
    BY <2>1 DEF NormalizeEntry
  <2> QED
    BY <2>2, <2>3
<1>2. DOMAIN g = {"cn", "thumbnail"}
  OBVIOUS
<1>3. ProfileFromLdap(entry, NoMap).email = IF email = Missing THEN Text(<<>>) ELSE Lower(email)
  BY DEF ProfileFromLdap, Profile
<1> HIDE DEF g, entry
<1>4. \A k : k \notin {"cn", "thumbnail"} => Get(entry.attributes, k) = Missing
  <2>1. \A k : Get(entry.attributes, k) = Field(g, k)
    BY <1>1, GetOf, CompactField
  <2> QED
    BY <1>2, <2>1 DEF Field
<1>5. \A k : k \notin {"cn", "thumbnail"} => Raw(k) = Missing
  BY <1>4, ListReads DEF LdapFirst, LdapValues
<1>6. Name("email") = "mail"
  BY DEF NoMap, LdapDefaults
<1>7. Raw(Name("email")) = Missing /\ Raw("userPrincipalName") = Missing
  BY <1>5, <1>6
<1> HIDE DEF Raw, Name
<1>8. email = Missing
  <2>1. FirstString(<<Missing, Missing>>) = Missing
    BY SaysNothing, FirstOfTwo
  <2> QED
    BY <1>7, <2>1
<1>9. ProfileFromLdap(entry, NoMap).email = Text(<<>>)
  BY <1>3, <1>8
<1> QED
  BY <1>9 DEF Text, entry

----------------------------------------------------------------------------
(* The roles                                                                *)

\* The profile a person should have has their groups and three attributes.
LEMMA CanonicalIs ==
    ASSUME NEW p, IsFiniteSet(p.groups), NEW source
    PROVE  /\ Canonical(p, source).groups = p.groups
           /\ \A k : Field(Canonical(p, source).attributes, k) =
                        IF k \in Fields THEN FieldTold(p, k, source) ELSE Missing
<1> DEFINE f == [k \in Fields |-> FieldTold(p, k, source)]
<1>1. /\ Canonical(p, source).groups = ToSet(Sequence(p.groups))
      /\ Canonical(p, source).attributes = Compact(f)
  BY DEF Canonical, Profile
<1>2. ToSet(Sequence(p.groups)) = p.groups
  BY SequenceOfSet DEF Sequence
<1>3. \A k : Field(f, k) = IF k \in Fields THEN FieldTold(p, k, source) ELSE Missing
  BY DEF Field
<1> HIDE DEF f
<1> QED
  BY <1>1, <1>2, <1>3, CompactField

\* Rules that read the profile read no name.
LEMMA ReadKeys ==
    ASSUME NEW rs, ReadsProfile(rs)
    PROVE  \A k \in ReadBy(rs) : k \in Keys /\ k # "firstName" /\ k # "lastName"
<1> TAKE k \in ReadBy(rs)
<1>1. PICK c \in UNION {r.all \cup r.any : r \in rs} : c.source = "ATTRIBUTE" /\ k = c.key
  BY DEF ReadBy
<1>2. k \in DirectoryAttributeKeys
  BY <1>1 DEF ReadsProfile
<1> QED
  BY <1>2 DEF DirectoryAttributeKeys, Keys

\* Roles evaluated from a payload are those the person deserves.
LEMMA RolesFromPayload ==
    ASSUME NEW p, IsPerson(p), NEW source, NEW rich, Shows(rich, p, source),
           NEW rs, IsRuleSet(rs), ReadsProfile(rs)
    PROVE  RolesOf(rich, rs) = DeservedRoles(Canonical(p, source), rs)
<1>1. /\ rich.groups = p.groups
      /\ \A k \in ReadBy(rs) :
            Field(rich.attributes, k) = IF k \in Fields THEN FieldTold(p, k, source) ELSE Missing
  BY ReadKeys DEF Shows, Describes
<1>2. /\ Canonical(p, source).groups = p.groups
      /\ \A k : Field(Canonical(p, source).attributes, k) =
                   IF k \in Fields THEN FieldTold(p, k, source) ELSE Missing
  BY PersonIs, CanonicalIs
<1>3. Within(rich, Canonical(p, source), rs) /\ Within(Canonical(p, source), rich, rs)
  BY <1>1, <1>2 DEF Within
<1> QED
  BY <1>3, SameRoles, RolesAreDeserved

\* What is kept says no more than there is to say, and all of it where it may.
LEMMA KeptWithin ==
    ASSUME NEW r, NEW p, NEW may, Keeps(r, p, may), NEW rs, ReadsProfile(rs)
    PROVE  /\ Within(StoredProfile(r), Canonical(p, r.source), rs)
           /\ ReadBy(rs) \subseteq may => Within(Canonical(p, r.source), StoredProfile(r), rs)
<1> DEFINE stored == StoredProfile(r)
           canonical == Canonical(p, r.source)
<1>1. stored.groups = r.groups /\ stored.attributes = r.attributes
  BY DEF StoredProfile, ProfileFromParts
<1>2. /\ canonical.groups = p.groups
      /\ \A k : Field(canonical.attributes, k) =
                   IF k \in Fields THEN FieldTold(p, k, r.source) ELSE Missing
  BY CanonicalIs DEF Keeps
<1> HIDE DEF stored, canonical
<1>3. stored.groups = canonical.groups
  BY <1>1, <1>2 DEF Keeps
<1>4. \A k \in ReadBy(rs) : Field(stored.attributes, k) =
                               IF k \in may THEN Field(canonical.attributes, k) ELSE Missing
  BY <1>1, <1>2, ReadKeys DEF Keeps, Told
<1>5. Within(stored, canonical, rs)
  BY <1>3, <1>4 DEF Within
<1>6. ReadBy(rs) \subseteq may => Within(canonical, stored, rs)
  BY <1>3, <1>4 DEF Within
<1> QED
  BY <1>5, <1>6 DEF stored, canonical

\* What comes from two providers says the same to rules that do not read the manager.
LEMMA SourcesAgree ==
    ASSUME NEW p, IsFiniteSet(p.groups), NEW one, NEW other, NEW rs, ReadsProfile(rs),
           one = other \/ "manager" \notin ReadBy(rs)
    PROVE  DeservedRoles(Canonical(p, one), rs) = DeservedRoles(Canonical(p, other), rs)
<1>1. /\ Canonical(p, one).groups = p.groups /\ Canonical(p, other).groups = p.groups
      /\ \A k : /\ Field(Canonical(p, one).attributes, k) =
                      IF k \in Fields THEN FieldTold(p, k, one) ELSE Missing
                /\ Field(Canonical(p, other).attributes, k) =
                      IF k \in Fields THEN FieldTold(p, k, other) ELSE Missing
  BY CanonicalIs
<1>2. \A k \in ReadBy(rs) : FieldTold(p, k, one) = FieldTold(p, k, other)
  BY DEF FieldTold
<1>3. /\ Within(Canonical(p, one), Canonical(p, other), rs)
      /\ Within(Canonical(p, other), Canonical(p, one), rs)
  BY <1>1, <1>2 DEF Within
<1> QED
  BY <1>3, SameRoles

----------------------------------------------------------------------------
(* Every step                                                               *)

\* A comma in the name of a group or of a manager is lost where it is read out of a DN
\* (cnFromDn, profile.ts:374), so what an LDAP entry shows is theirs only without one.
NamesHaveNoComma ==
    \A p \in People : WithoutComma(p.managerName) /\ \A g \in p.groups : WithoutComma(g)

\* What a pull may have found.
Entries ==
    {[entry |-> LdapEntries[p], of |-> p] : p \in People}
      \cup {[entry |-> NormalizeEntry(ServiceEntry), of |-> NoPerson]}

TypedInv == person \in People /\ rules \in RuleSets

\* The entries not stored yet, at least one of them while the app is storing.
FoundInv ==
    /\ pull = [call |-> pull.call, at |-> pull.at, found |-> pull.found, answer |-> pull.answer]
    /\ pull.found \in Seq(Entries)
    /\ pull.at = "store" => pull.found # <<>>

\* The row keeps what it may of the person it was made from.
RowInv == row = NoRow \/ Keeps(row, seen, allowed)

\* The roles are those the whole profile earns, or those what is kept of it earns.
RolesInv ==
    row # NoRow => \/ roles = DeservedRoles(Canonical(seen, row.source), rules)
                   \/ roles = DeservedRoles(StoredProfile(row), rules)

\* The inductive invariant.
KeptInv == TypedInv /\ FoundInv /\ RowInv /\ RolesInv

\* A step of the pull that leaves the row alone.
LEMMA RowAlone ==
    ASSUME KeptInv, UNCHANGED <<person, rules, allowed, row, roles, seen>>, FoundInv'
    PROVE  KeptInv'
  BY DEF KeptInv, TypedInv, RowInv, RolesInv, Keeps, Told, FieldTold, ManagerTold, MailTold,
         NameTold, StoredProfile, Canonical

\* The rules an admin writes.
LEMMA RulesAre ==
    ASSUME NEW rs \in RuleSets
    PROVE  IsRuleSet(rs) /\ ReadsProfile(rs)
  BY RuleSetsAssumption

\* A profile that shows someone, received.
LEMMA Keeping ==
    ASSUME KeptInv, NEW p \in People, NEW source, NEW rich, Shows(rich, p, source), NEW active,
           source \in {"ldap", "google"} => active = p.active,
           Keep(rich, active, source), seen' = p, UNCHANGED <<rules, allowed>>
    PROVE  RowInv' /\ RolesInv'
<1>1. IsPerson(p) /\ rules \in RuleSets
  BY PeopleAssumption DEF KeptInv, TypedInv
<1>2. /\ row' = ToContractsProfile(MinimizeProfile(rich, allowed), active, source)
      /\ roles' = RolesOf(rich, rules)
  BY DEF Keep
<1>3. Keeps(row', seen', allowed')
  BY <1>1, <1>2, KeptRow
<1>4. roles' = DeservedRoles(Canonical(p, source), rules)
  BY <1>1, <1>2, RulesAre, RolesFromPayload
<1>4a. row'.source = source
  BY <1>2 DEF ToContractsProfile
<1>5. RowInv'
  BY <1>3 DEF RowInv
<1>6. RolesInv'
  BY <1>4, <1>4a DEF RolesInv
<1> QED
  BY <1>5, <1>6

\* The directory changes under what was kept of it.
LEMMA EditKeeps ==
    ASSUME KeptInv, NEW p \in People, Edit(p)
    PROVE  KeptInv'
<1>1. UNCHANGED <<rules, allowed, row, roles, seen, pull>> /\ person' = p
  BY DEF Edit
<1>2. TypedInv'
  BY <1>1 DEF KeptInv, TypedInv
<1>3. FoundInv'
  BY <1>1 DEF KeptInv, FoundInv, Entries, LdapEntries
<1>4. RowInv'
  BY <1>1 DEF KeptInv, RowInv
<1>5. RolesInv'
  BY <1>1 DEF KeptInv, RolesInv
<1> QED
  BY <1>2, <1>3, <1>4, <1>5 DEF KeptInv

\* A push or a login.
LEMMA ReceiveKeeps ==
    ASSUME KeptInv, NEW source \in Sources, Receive(source)
    PROVE  KeptInv'
<1>1. /\ Keep(Projected[source][person], ActiveFrom(source, person), source)
      /\ seen' = person /\ UNCHANGED <<person, rules, allowed, pull>>
  BY DEF Receive
<1>2. person \in People
  BY DEF KeptInv, TypedInv
<1>3. Projected[source][person] = ProfileFrom(source, person)
  BY <1>2 DEF Projected
<1>4. Shows(Projected[source][person], person, source)
  BY <1>2, <1>3, PeopleAssumption, ProjectionsShow
<1>4a. source \in {"ldap", "google"} => ActiveFrom(source, person) = person.active
  <2>1. source # "ldap"
    BY DEF Sources
  <2>2. IsPerson(person)
    BY <1>2, PeopleAssumption
  <2>3. AccountActiveFromGoogle(AsGoogle(person)) = person.active
    BY <2>2, GoogleActive
  <2>4. person.active \in BOOLEAN
    BY <2>2, PersonIs
  <2>5. source = "google" => ActiveFrom(source, person) = AccountActiveFromGoogle(AsGoogle(person))
    <3> HAVE source = "google"
    <3>1. ActiveFrom(source, person) <=> AccountActiveFromGoogle(AsGoogle(person))
      BY DEF ActiveFrom
    <3> QED
      BY <3>1, <2>3, <2>4 DEF ActiveFrom, AccountActiveFromGoogle
  <2> QED
    BY <2>1, <2>3, <2>5
<1>5. RowInv' /\ RolesInv'
  BY <1>1, <1>2, <1>4, <1>4a, Keeping
<1>6. TypedInv'
  BY <1>1 DEF KeptInv, TypedInv
<1>7. FoundInv'
  BY <1>1 DEF KeptInv, FoundInv
<1> QED
  BY <1>5, <1>6, <1>7 DEF KeptInv

\* Roles evaluated again, of other groups.
LEMMA ChangeGroupsKeeps ==
    ASSUME KeptInv, NEW groups \in GroupSets, ChangeGroups(groups)
    PROVE  KeptInv'
<1>1. /\ row # NoRow
      /\ row' = [row EXCEPT !.groups = groups] /\ seen' = [seen EXCEPT !.groups = groups]
      /\ roles' = RolesOf(StoredProfile(row'), rules)
      /\ UNCHANGED <<person, rules, allowed, pull>>
  BY DEF ChangeGroups
<1>2. Keeps(row, seen, allowed) /\ IsFiniteSet(groups) /\ rules \in RuleSets
  BY <1>1, GroupSetsAssumption DEF KeptInv, RowInv, TypedInv
<1>3. Keeps(row', seen', allowed')
  BY <1>1, <1>2, KeptGroups
<1>4. roles' = DeservedRoles(StoredProfile(row'), rules')
  BY <1>1, <1>2, RulesAre, RolesAreDeserved
<1>5. RowInv'
  BY <1>3 DEF RowInv
<1>6. RolesInv'
  BY <1>4 DEF RolesInv
<1>7. TypedInv'
  BY <1>1 DEF KeptInv, TypedInv
<1>8. FoundInv'
  BY <1>1 DEF KeptInv, FoundInv
<1> QED
  BY <1>5, <1>6, <1>7, <1>8 DEF KeptInv

\* Roles evaluated again, by other rules.
LEMMA ChangeRulesKeeps ==
    ASSUME KeptInv, NEW rs \in RuleSets, ChangeRules(rs)
    PROVE  KeptInv'
<1>1. /\ rules' = rs
      /\ roles' = IF row = NoRow THEN roles ELSE RolesOf(StoredProfile(row), rs)
      /\ UNCHANGED <<person, allowed, row, seen, pull>>
  BY DEF ChangeRules
<1>2. row # NoRow => roles' = DeservedRoles(StoredProfile(row'), rules')
  BY <1>1, RulesAre, RolesAreDeserved
<1>3. RolesInv'
  BY <1>1, <1>2 DEF RolesInv
<1>4. RowInv'
  BY <1>1 DEF KeptInv, RowInv
<1>5. TypedInv'
  BY <1>1 DEF KeptInv, TypedInv
<1>6. FoundInv'
  BY <1>1 DEF KeptInv, FoundInv
<1> QED
  BY <1>3, <1>4, <1>5, <1>6 DEF KeptInv

\* What a search found is entries, however it was cut.
LEMMA SearchesKeeps ==
    ASSUME KeptInv, Searches
    PROVE  KeptInv'
<1> DEFINE cap(answer) == IF Len(answer) < MaxEntries THEN Len(answer) ELSE MaxEntries
<1>1. PICK answer \in Answers :
        pull' = [pull EXCEPT !.at = "unbind", !.answer = "entries",
                             !.found = SubSeq(answer, 1, cap(answer))]
  BY DEF Searches
<1>2. answer \in Seq(Entries)
  <2> DEFINE theirs == [entry |-> LdapEntries[person], of |-> person]
             other == [entry |-> NormalizeEntry(ServiceEntry), of |-> NoPerson]
  <2>1. theirs \in Entries /\ other \in Entries
    BY DEF Entries, KeptInv, TypedInv
  <2>2. answer \in {<<theirs, other>>, <<other, other, theirs>>, <<other>>}
    BY DEF Answers
  <2> HIDE DEF theirs, other
  <2>3. /\ <<theirs, other>> \in Seq(Entries) /\ <<other, other, theirs>> \in Seq(Entries)
        /\ <<other>> \in Seq(Entries)
    BY <2>1, ThreeAreSeqs
  <2> QED
    BY <2>2, <2>3
<1>3. cap(answer) \in 0 .. Len(answer)
  <2>1. Len(answer) \in Nat
    BY <1>2, LenProperties
  <2> QED
    BY <2>1, MaxEntriesAssumption
<1> DEFINE n == cap(answer)
           cut == SubSeq(answer, 1, n)
<1> HIDE DEF cap, n
<1>4. n \in 0 .. Len(answer)
  BY <1>3 DEF n
<1>5. cut \in Seq(Entries)
  <2>1. \A i \in 1 .. n : answer[i] \in Entries
    BY <1>2, <1>4, ElementOfSeq, LenProperties
  <2> QED
    BY <1>2, <1>4, <2>1, SubSeqProperties, LenProperties
<1>6. pull' = [pull EXCEPT !.at = "unbind", !.answer = "entries", !.found = cut]
  BY <1>1 DEF n
<1> HIDE DEF cut
<1>7. pull' = [call |-> pull.call, at |-> "unbind", found |-> cut, answer |-> "entries"]
  BY <1>6 DEF KeptInv, FoundInv
<1>8. UNCHANGED <<person, rules, allowed, row, roles, seen>>
  BY DEF Searches
<1>9. Entries' = Entries
  BY DEF Entries, LdapEntries
<1>10. FoundInv'
  BY <1>5, <1>7, <1>9 DEF FoundInv
<1> QED
  BY <1>8, <1>10, RowAlone

\* The loop over the entries: an entry with an email is of a person.
LEMMA StoresKeeps ==
    ASSUME NamesHaveNoComma, KeptInv, Stores
    PROVE  KeptInv'
<1> DEFINE head == Head(pull.found)
           rich == ProfileFromLdap(head.entry, NoMap)
           rest == Tail(pull.found)
           at == IF Len(pull.found) = 1 THEN "idle" ELSE "store"
<1>1. /\ pull.at = "store" /\ pull' = [pull EXCEPT !.found = rest, !.at = at]
      /\ UNCHANGED <<person, rules, allowed>>
      /\ IF rich.email.word = <<>> THEN UNCHANGED <<row, roles, seen>>
         ELSE Keep(rich, AccountActiveFromLdap(head.entry), "ldap") /\ seen' = head.of
  BY DEF Stores
<1>2. pull.found \in Seq(Entries) /\ pull.found # <<>>
  BY <1>1 DEF KeptInv, FoundInv
<1>3. head \in Entries /\ rest \in Seq(Entries) /\ (at = "store" => rest # <<>>)
  <2>1. head \in Entries /\ rest \in Seq(Entries) /\ Len(rest) = Len(pull.found) - 1
        /\ Len(pull.found) \in Nat
    BY <1>2, HeadTailProperties, LenProperties
  <2>2. Len(<<>>) = 0
    BY EmptySeq
  <2>3. at = "store" => Len(rest) # 0
    BY <2>1
  <2> QED
    BY <2>1, <2>2, <2>3
<1> HIDE DEF rest, at
<1>4. pull' = [call |-> pull.call, at |-> at, found |-> rest, answer |-> pull.answer]
  BY <1>1 DEF KeptInv, FoundInv
<1>5. FoundInv'
  <2>1. Entries' = Entries
    BY DEF Entries, LdapEntries
  <2> QED
    BY <1>3, <1>4, <2>1 DEF FoundInv
<1>6. TypedInv'
  BY <1>1 DEF KeptInv, TypedInv
<1> HIDE DEF head
<1>7. CASE rich.email.word = <<>>
  <2>1. RowInv'
    BY <1>1, <1>7 DEF KeptInv, RowInv
  <2>2. RolesInv'
    BY <1>1, <1>7 DEF KeptInv, RolesInv
  <2> QED
    BY <1>5, <1>6, <2>1, <2>2 DEF KeptInv
<1>8. CASE rich.email.word # <<>>
  <2>1. PICK p \in People : head = [entry |-> LdapEntries[p], of |-> p]
    <3>1. head.entry # NormalizeEntry(ServiceEntry)
      BY <1>8, ServiceHasNoEmail
    <3> QED
      BY <1>3, <3>1 DEF Entries
  <2>2. head.entry = NormalizeEntry(AsLdapEntry(p)) /\ head.of = p
    BY <2>1 DEF LdapEntries
  <2>3. Shows(rich, p, "ldap") /\ AccountActiveFromLdap(head.entry) = p.active
    BY <2>2, PeopleAssumption, LdapShows DEF NamesHaveNoComma
  <2> HIDE DEF rich
  <2>4. Keep(rich, AccountActiveFromLdap(head.entry), "ldap") /\ seen' = p
    BY <1>1, <1>8, <2>2
  <2>5. RowInv' /\ RolesInv'
    BY <1>1, <2>3, <2>4, Keeping
  <2> QED
    BY <1>5, <1>6, <2>5 DEF KeptInv
<1> QED
  BY <1>7, <1>8

\* Every step keeps it.
LEMMA AppKeeps ==
    ASSUME NamesHaveNoComma, KeptInv, [Next]_vars
    PROVE  KeptInv'
<1>0. Entries' = Entries
  BY DEF Entries, LdapEntries
<1> DEFINE Same == UNCHANGED <<person, rules, allowed, row, roles, seen>>
<1>1. ASSUME NEW p \in People, Edit(p)
      PROVE  KeptInv'
  BY <1>1, EditKeeps
<1>2. ASSUME NEW source \in Sources, Receive(source)
      PROVE  KeptInv'
  BY <1>2, ReceiveKeeps
<1>3. ASSUME NEW groups \in GroupSets, ChangeGroups(groups)
      PROVE  KeptInv'
  BY <1>3, ChangeGroupsKeeps
<1>4. ASSUME NEW rs \in RuleSets, ChangeRules(rs)
      PROVE  KeptInv'
  BY <1>4, ChangeRulesKeeps
<1>5. ASSUME NEW call \in {"fetch", "check"}, PullStart(call)
      PROVE  KeptInv'
  <2>1. Same /\ pull' = [call |-> call, at |-> "bind", found |-> <<>>, answer |-> "none"]
    BY <1>5 DEF PullStart, NoPull
  <2>2. <<>> \in Seq(Entries)
    BY EmptySeq
  <2>3. FoundInv'
    BY <1>0, <2>1, <2>2 DEF FoundInv
  <2> QED
    BY <2>1, <2>3, RowAlone
<1>6. CASE Binds
  <2>1. Same /\ pull' = IF pull.call = "fetch" THEN [pull EXCEPT !.at = "search"]
                        ELSE [pull EXCEPT !.at = "unbind", !.answer = "true"]
    BY <1>6 DEF Binds
  <2>2. FoundInv'
    BY <1>0, <2>1 DEF KeptInv, FoundInv
  <2> QED
    BY <2>1, <2>2, RowAlone
<1>7. CASE BindFails
  <2>1. Same /\ pull' = [pull EXCEPT !.at = "unbind",
                                     !.answer = IF pull.call = "fetch" THEN "throws" ELSE "false"]
    BY <1>7 DEF BindFails
  <2>2. FoundInv'
    BY <1>0, <2>1 DEF KeptInv, FoundInv
  <2> QED
    BY <2>1, <2>2, RowAlone
<1>8. CASE Searches
  BY <1>8, SearchesKeeps
<1>9. CASE SearchFails
  <2>1. Same /\ pull' = [pull EXCEPT !.at = "unbind", !.answer = "throws"]
    BY <1>9 DEF SearchFails
  <2>2. FoundInv'
    BY <1>0, <2>1 DEF KeptInv, FoundInv
  <2> QED
    BY <2>1, <2>2, RowAlone
<1>10. CASE Unbinds
  <2>1. Same /\ pull' = [pull EXCEPT !.at = IF pull.found = <<>> THEN "idle" ELSE "store"]
    BY <1>10 DEF Unbinds
  <2>2. FoundInv'
    BY <1>0, <2>1 DEF KeptInv, FoundInv
  <2> QED
    BY <2>1, <2>2, RowAlone
<1>11. CASE Stores
  BY <1>11, StoresKeeps
<1>12. CASE UNCHANGED vars
  <2>1. Same /\ pull' = pull
    BY <1>12 DEF vars
  <2>2. FoundInv'
    BY <1>0, <2>1 DEF KeptInv, FoundInv
  <2> QED
    BY <2>1, <2>2, RowAlone
<1> QED
  BY <1>1, <1>2, <1>3, <1>4, <1>5, <1>6, <1>7, <1>8, <1>9, <1>10, <1>11, <1>12
  DEF Next, Awaited

\* It holds at the start.
LEMMA StartKeeps ==
    ASSUME Init
    PROVE  KeptInv
<1>1. pull = [call |-> "none", at |-> "idle", found |-> <<>>, answer |-> "none"]
  BY DEF Init, NoPull
<1>2. <<>> \in Seq(Entries)
  BY EmptySeq
<1>3. FoundInv
  BY <1>1, <1>2 DEF FoundInv
<1> QED
  BY <1>3 DEF Init, KeptInv, TypedInv, RowInv, RolesInv

----------------------------------------------------------------------------
\* A row that keeps what it may of a person is as the person is.
LEMMA KeptAlike ==
    ASSUME KeptInv
    PROVE  SameWhateverSource
<1> SUFFICES ASSUME row # NoRow
             PROVE  SameWhateverSource
  BY DEF SameWhateverSource
<1>1. Keeps(row, seen, allowed)
  BY DEF KeptInv, RowInv
<1> DEFINE At(k) == IF k \in DOMAIN row.attributes THEN row.attributes[k] ELSE Missing
           Kept(k, v) == IF k \in allowed THEN v ELSE Missing
<1>2. \A k \in Keys : At(k) = Kept(k, Told(seen, k, row.source))
  BY <1>1 DEF Keeps, Field
<1> HIDE DEF At
<1>3. /\ Told(seen, "firstName", row.source) = seen.first
      /\ Told(seen, "lastName", row.source) = seen.last
      /\ "firstName" \in Keys /\ "lastName" \in Keys
  BY DEF Told, Keys
<1>4. \A k \in Fields : Told(seen, k, row.source) = FieldTold(seen, k, row.source) /\ k \in Keys
  BY DEF Told, Fields, Keys, DirectoryAttributeKeys
<1>5. /\ \A k \in Fields : At(k) = Kept(k, FieldTold(seen, k, row.source))
      /\ At("firstName") = Kept("firstName", seen.first)
      /\ At("lastName") = Kept("lastName", seen.last)
  BY <1>2, <1>3, <1>4
<1>6. /\ row.email = MailTold(seen, row.source) /\ row.groups = seen.groups
      /\ row.displayName = Kept("displayName", NameTold(seen, row.source))
      /\ row.source \in {"ldap", "google"} => row.active = seen.active
  BY <1>1 DEF Keeps
<1> QED
  BY <1>5, <1>6 DEF SameWhateverSource, At

\* The roles are those of the whole profile or of what is kept of it, and rules read no more
\* than is kept.
LEMMA KeptRoles ==
    ASSUME KeptInv
    PROVE  RolesDeserved /\ MinimisedAddsNothing
<1> SUFFICES ASSUME row # NoRow
             PROVE  RolesDeserved /\ MinimisedAddsNothing
  BY DEF RolesDeserved, MinimisedAddsNothing
<1> DEFINE whole == Canonical(seen, row.source)
           stored == StoredProfile(row)
<1>1. Keeps(row, seen, allowed) /\ IsRuleSet(rules) /\ ReadsProfile(rules)
  BY RulesAre DEF KeptInv, RowInv, TypedInv
<1>2. roles = DeservedRoles(whole, rules) \/ roles = DeservedRoles(stored, rules)
  BY DEF KeptInv, RolesInv
<1>3. /\ Within(stored, whole, rules)
      /\ ReadBy(rules) \subseteq allowed => Within(whole, stored, rules)
  BY <1>1, KeptWithin
<1>4. RolesOf(whole, rules) = DeservedRoles(whole, rules)
  BY <1>1, RolesAreDeserved
<1> HIDE DEF whole, stored
<1>5. ReadBy(rules) \subseteq allowed => roles = DeservedRoles(whole, rules)
  BY <1>1, <1>2, <1>3, SameRoles
<1>6. (\A r \in rules : ~r.stopOnMatch) => roles \subseteq RolesOf(whole, rules)
  BY <1>1, <1>2, <1>3, <1>4, FewerRoles
<1>7. RolesDeserved
  <2>1. \A source : source = row.source \/ "manager" \notin ReadBy(rules) =>
           DeservedRoles(Canonical(seen, source), rules) = DeservedRoles(whole, rules)
    BY <1>1, SourcesAgree DEF Keeps, whole
  <2> QED
    BY <1>5, <2>1 DEF RolesDeserved
<1>8. MinimisedAddsNothing
  BY <1>6 DEF MinimisedAddsNothing, whole
<1> QED
  BY <1>7, <1>8

\* Whichever provider a person came through (a push, a login or a pull), the row the app keeps
\* has the same names, groups, title and department of them, and the email, the displayed name
\* and the manager each projection of profile.ts and scim-schema.ts is said to give
\* (MailTold, NameTold, ManagerTold), cut down by minimizeProfile.
THEOREM PeopleAlike ==
    ASSUME NamesHaveNoComma
    PROVE  Spec => []SameWhateverSource
  BY StartKeeps, AppKeeps, KeptAlike, PTL DEF Spec

\* evaluateMappings gives the roles of the rules that match, up to the first that stops, and the
\* same ones whether it reads the payload or, after a change of groups or of rules, the row; and
\* the same for every provider, where no rule reads the manager.
THEOREM RolesAsDeserved ==
    ASSUME NamesHaveNoComma
    PROVE  Spec => []RolesDeserved
  BY StartKeeps, AppKeeps, KeptRoles, PTL DEF Spec

\* Where no rule stops the others, evaluateMappings on a profile minimizeProfile cut down gives
\* no role the whole profile would not have earned: no condition asks that a value be absent.
THEOREM LessAddsNothing ==
    ASSUME NamesHaveNoComma
    PROVE  Spec => []MinimisedAddsNothing
  BY StartKeeps, AppKeeps, KeptRoles, PTL DEF Spec
================================================================================
