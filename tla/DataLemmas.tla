------------------------------- MODULE DataLemmas -------------------------------
(* What proofs about data need: induction over the naturals, for sets in the place *)
(* of predicates; the greatest and the least of a bounded set; finite sets as      *)
(* sequences; and what FoldLeft and FlattenSeq go through on their way.            *)
EXTENDS SequencesExt, SequenceTheorems, FiniteSetTheorems, TLAPS

LEMMA LeastOfNats ==
    ASSUME NEW T, T \subseteq Nat, T # {}
    PROVE  \E x \in T : \A y \in T : x <= y
<1> DEFINE R == {ss \in Nat \X Nat : ss[1] < ss[2]}
<1>1. IsWellFoundedOn(R, Nat)
  BY NatLessThanWellFounded DEF OpToRel
<1>2. \A x, y \in Nat : x < y => <<x, y>> \in R
  OBVIOUS
<1> HIDE DEF R
<1>3. PICK x \in T : \A y \in T : ~(<<y, x>> \in R)
  BY <1>1, WFMin, Zenon
<1>4. \A y \in T : ~(y < x)
  BY <1>2, <1>3
<1> QED
  BY <1>4

LEMMA NatSetInduction ==
    ASSUME NEW S, 0 \in S, \A n \in Nat : n \in S => n + 1 \in S
    PROVE  Nat \subseteq S
<1> DEFINE T == {n \in Nat : n \notin S}
<1> SUFFICES ASSUME T # {}
             PROVE  FALSE
  OBVIOUS
<1>1. PICK x \in T : \A y \in T : x <= y
  BY LeastOfNats
<1>2. x \in Nat /\ x # 0 /\ x \notin S
  OBVIOUS
<1>3. x - 1 \in Nat /\ x - 1 < x /\ (x - 1) + 1 = x
  BY <1>2
<1>4. x - 1 \notin T
  BY <1>1, <1>3
<1> QED
  BY <1>2, <1>3, <1>4

\* Induction up to a bound.
LEMMA BoundedInduction ==
    ASSUME NEW N \in Nat, NEW S, 0 \in S, \A n \in 0 .. N - 1 : n \in S => n + 1 \in S
    PROVE  0 .. N \subseteq S
<1> DEFINE T == {n \in Nat : n <= N => n \in S}
<1>1. 0 \in T /\ \A n \in Nat : n \in T => n + 1 \in T
  OBVIOUS
<1> HIDE DEF T
<1>2. Nat \subseteq T
  BY <1>1, NatSetInduction
<1> QED
  BY <1>2 DEF T

----------------------------------------------------------------------------
(* The least and the greatest of a set of positions                         *)

LEMMA LeastOf ==
    ASSUME NEW n \in Nat, NEW s, s \subseteq 1 .. n, s # {}
    PROVE  LET least == CHOOSE x \in s : \A y \in s : x <= y
           IN  least \in s /\ \A y \in s : least <= y
<1>1. s \subseteq Nat
  OBVIOUS
<1>2. \E x \in s : \A y \in s : x <= y
  BY <1>1, LeastOfNats
<1> QED
  BY <1>2

LEMMA GreatestExists ==
    ASSUME NEW n \in Nat, NEW s, s \subseteq 1 .. n, s # {}
    PROVE  \E x \in s : \A y \in s : y <= x
<1> DEFINE T == {n - x : x \in s}
<1>0. \A x \in s : x \in Nat /\ x <= n /\ n - x \in Nat
  OBVIOUS
<1>1. T \subseteq Nat /\ T # {}
  BY <1>0
<1>2. PICK z \in T : \A y \in T : z <= y
  BY <1>1, LeastOfNats
<1>3. PICK x \in s : z = n - x
  OBVIOUS
<1>4. ASSUME NEW y \in s
      PROVE  y <= x
  <2>1. n - y \in T
    OBVIOUS
  <2>2. n - x <= n - y
    BY <1>2, <1>3, <2>1
  <2> QED
    BY <1>0, <2>2
<1> QED
  BY <1>4

LEMMA GreatestOf ==
    ASSUME NEW n \in Nat, NEW s, s \subseteq 1 .. n, s # {}
    PROVE  LET greatest == CHOOSE x \in s : \A y \in s : y <= x
           IN  greatest \in s /\ \A y \in s : y <= greatest
<1>1. \E x \in s : \A y \in s : y <= x
  BY GreatestExists
<1> QED
  BY <1>1

\* What nothing follows is the greatest.
LEMMA SpeaksLast ==
    ASSUME NEW N \in Nat, NEW speaking, speaking \subseteq 1 .. N,
           NEW k \in speaking, \A j \in k + 1 .. N : j \notin speaking
    PROVE  (CHOOSE n \in speaking : \A m \in speaking : m <= n) = k
<1> DEFINE last == CHOOSE n \in speaking : \A m \in speaking : m <= n
<1>1. last \in speaking /\ \A m \in speaking : m <= last
  BY GreatestOf
<1> HIDE DEF last
<1>2. last \in 1 .. N /\ k \in 1 .. N /\ k <= last
  BY <1>1
<1>3. last \notin k + 1 .. N
  BY <1>1
<1>4. last = k
  BY <1>2, <1>3
<1> QED
  BY <1>4 DEF last

LEMMA MaxOf ==
    ASSUME NEW n \in Nat, NEW s, s \subseteq 1 .. n, s # {}
    PROVE  Max(s) \in s /\ \A y \in s : y <= Max(s)
<1>1. PICK x \in s : \A y \in s : x >= y
  BY GreatestExists
<1>2. Max(s) \in s /\ \A y \in s : Max(s) >= y
  BY <1>1 DEF Max
<1> QED
  BY <1>2

LEMMA MaxOfInterval ==
    ASSUME NEW n \in Nat \ {0}
    PROVE  Max(1 .. n) = n
<1> DEFINE s == 1 .. n
<1>1. s \subseteq 1 .. n /\ n \in s
  OBVIOUS
<1> HIDE DEF s
<1>2. Max(s) \in s /\ n <= Max(s)
  BY <1>1, MaxOf
<1> QED
  BY <1>2 DEF s

----------------------------------------------------------------------------
(* Sequences                                                                *)

\* A sequence of one element.
LEMMA OneIsSeq ==
    ASSUME NEW S, NEW x \in S
    PROVE  /\ <<x>> \in Seq(S) /\ Len(<<x>>) = 1 /\ DOMAIN <<x>> = {1}
           /\ <<x>>[1] = x
<1>1. 1 \in Nat /\ <<x>> \in [1 .. 1 -> S]
  OBVIOUS
<1>2. <<x>> \in Seq(S)
  BY <1>1, SeqDef
<1> QED
  BY <1>1, <1>2

\* The head of a sequence that is not empty is its first element.
LEMMA HeadIsFirst ==
    ASSUME NEW S, NEW s \in Seq(S), s # <<>>
    PROVE  Head(s) = s[1] /\ 1 \in DOMAIN s
<1>1. Len(s) \in Nat \ {0} /\ DOMAIN s = 1 .. Len(s)
  BY EmptySeq, LenProperties
<1>2. 1 \in 1 .. Len(s) /\ Len(s) \in 1 .. Len(s)
  BY <1>1
<1>3. Head(SubSeq(s, 1, Len(s))) = s[1]
  BY <1>2, HeadTailOfSubSeq
<1> QED
  BY <1>1, <1>2, <1>3, SubSeqFull

\* A finite set as a sequence has the members of the set.
LEMMA SequenceOfSet ==
    ASSUME NEW S, IsFiniteSet(S)
    PROVE  SetToSeq(S) \in Seq(S) /\ ToSet(SetToSeq(S)) = S
<1> DEFINE n == Cardinality(S)
<1>1. n \in Nat /\ ExistsBijection(1 .. n, S)
  BY FS_CardinalityType
<1>2. PICK f \in [1 .. n -> S] : IsInjective(f)
  BY <1>1 DEF ExistsBijection, Bijection, Injection
<1>3. SetToSeq(S) \in [1 .. n -> S] /\ IsInjective(SetToSeq(S))
  BY <1>2 DEF SetToSeq
<1> DEFINE s == SetToSeq(S)
<1>4. s \in Injection(1 .. n, S) /\ IsFiniteSet(1 .. n) /\ Cardinality(1 .. n) = n
  BY <1>1, <1>3, FS_Interval DEF Injection
<1> HIDE DEF s, n
<1>5. s \in Surjection(1 .. n, S)
  BY <1>4, FS_Injection DEF n
<1>6. s \in [1 .. n -> S] /\ \A x \in S : \E i \in 1 .. n : s[i] = x
  BY <1>5 DEF Surjection
<1>7. ToSet(s) = S
  BY <1>6 DEF ToSet
<1>8. s \in Seq(S)
  BY <1>1, <1>6, SeqDef
<1> QED
  BY <1>7, <1>8 DEF s

----------------------------------------------------------------------------
(* Folds                                                                    *)

\* A step at each of N positions takes a value to a value.
Steps(N, V) == [1 .. N -> [V -> V]]

\* What it makes of each set of positions, taken from the greatest down.
FoldsDown(it, N, base, step) ==
    \A s \in SUBSET (1 .. N) :
       it[s] = IF s = {} THEN base ELSE step[Max(s)][it[s \ {Max(s)}]]

\* The same where all that is known is that the step is taken on values.
FoldsValues(it, N, V, base, step) ==
    /\ it[{}] = base
    /\ \A s \in SUBSET (1 .. N) : s # {} /\ it[s \ {Max(s)}] \in V =>
          it[s] = step[Max(s)][it[s \ {Max(s)}]]

\* The values a fold goes through, from the first position to the last.
Passes(after, N, base, step) ==
    /\ after[0] = base
    /\ \A n \in 1 .. N : after[n] = step[n][after[n - 1]]

\* A fold of a step that stays in a set of values is defined, whatever the order in
\* which it takes the positions from the last.
LEMMA FoldExists ==
    ASSUME NEW N \in Nat, NEW V, NEW base \in V, NEW step \in Steps(N, V)
    PROVE  \E it \in [SUBSET (1 .. N) -> V] : FoldsDown(it, N, base, step)
<1>0. step \in [1 .. N -> [V -> V]]
  BY DEF Steps
<1> DEFINE Upto(n, it) ==
             \A s \in SUBSET (1 .. n) :
                it[s] = IF s = {} THEN base ELSE step[Max(s)][it[s \ {Max(s)}]]
           S == {n \in 0 .. N : \E it \in [SUBSET (1 .. n) -> V] : Upto(n, it)}
<1>1. 0 \in S
  <2> DEFINE it == [s \in SUBSET (1 .. 0) |-> base]
  <2>1. it \in [SUBSET (1 .. 0) -> V] /\ Upto(0, it)
    OBVIOUS
  <2>2. 0 \in 0 .. N
    OBVIOUS
  <2> HIDE DEF it, Upto
  <2> QED
    BY <2>1, <2>2
<1>2. ASSUME NEW n \in 0 .. N - 1, n \in S
      PROVE  n + 1 \in S
  <2>1. PICK it \in [SUBSET (1 .. n) -> V] : Upto(n, it)
    BY <1>2
  <2> DEFINE wide == [s \in SUBSET (1 .. n + 1) |->
                        IF n + 1 \in s THEN step[n + 1][it[s \ {n + 1}]] ELSE it[s]]
  <2>2. ASSUME NEW s \in SUBSET (1 .. n + 1)
        PROVE  /\ wide[s] \in V
               /\ wide[s] = IF s = {} THEN base ELSE step[Max(s)][wide[s \ {Max(s)}]]
    <3>1. CASE n + 1 \in s
      <4>1. Max(s) \in s /\ n + 1 <= Max(s)
        <5>1. n + 1 \in Nat /\ s \subseteq 1 .. n + 1
          OBVIOUS
        <5> QED
          BY <3>1, <5>1, MaxOf
      <4>2. Max(s) = n + 1
        <5>1. Max(s) \in 1 .. n + 1
          BY <4>1
        <5> QED
          BY <4>1, <5>1
      <4>3. s \ {n + 1} \in SUBSET (1 .. n) /\ s \ {n + 1} \in SUBSET (1 .. n + 1)
        OBVIOUS
      <4>4. it[s \ {n + 1}] \in V /\ wide[s \ {n + 1}] = it[s \ {n + 1}]
        BY <4>3
      <4>5. step[n + 1] \in [V -> V]
        BY <1>0
      <4> QED
        BY <3>1, <4>2, <4>4, <4>5
    <3>2. CASE n + 1 \notin s
      <4>1. s \in SUBSET (1 .. n)
        <5>1. \A k \in s : k \in 1 .. n + 1 /\ k # n + 1
          BY <3>2
        <5> QED
          BY <5>1
      <4>2. wide[s] = it[s] /\ it[s] \in V
        BY <3>2, <4>1
      <4>3. CASE s = {}
        BY <2>1, <4>1, <4>2, <4>3
      <4>4. CASE s # {}
        <5> DEFINE rest == s \ {Max(s)}
        <5>1. rest \in SUBSET (1 .. n) /\ rest \in SUBSET (1 .. n + 1) /\ n + 1 \notin rest
          BY <3>2, <4>1
        <5>2. wide[rest] = it[rest]
          BY <5>1
        <5> QED
          BY <2>1, <4>1, <4>2, <4>4, <5>2
      <4> QED
        BY <4>3, <4>4
    <3> QED
      BY <3>1, <3>2
  <2> HIDE DEF wide
  <2>3. wide \in [SUBSET (1 .. n + 1) -> V]
    <3>1. wide = [s \in SUBSET (1 .. n + 1) |-> wide[s]]
      BY DEF wide
    <3> QED
      BY <2>2, <3>1
  <2>4. Upto(n + 1, wide)
    BY <2>2
  <2> HIDE DEF Upto
  <2>5. n + 1 \in 0 .. N
    OBVIOUS
  <2> QED
    BY <2>3, <2>4, <2>5
<1> HIDE DEF S
<1>3. 0 .. N \subseteq S
  BY <1>1, <1>2, BoundedInduction
<1>4. N \in S
  BY <1>3
<1> QED
  BY <1>4 DEF S, FoldsDown

\* Where such a fold is after each position, from the first to the last.
LEMMA FoldPasses ==
    ASSUME NEW N \in Nat, NEW V, NEW base \in V, NEW step \in Steps(N, V),
           NEW it, FoldsValues(it, N, V, base, step)
    PROVE  \E after \in [0 .. N -> V] : Passes(after, N, base, step) /\ after[N] = it[1 .. N]
<1> DEFINE after == [n \in 0 .. N |-> it[1 .. n]]
           S == {n \in 0 .. N : it[1 .. n] \in V}
<1>1. ASSUME NEW n \in 1 .. N, it[1 .. n - 1] \in V
      PROVE  it[1 .. n] = step[n][it[1 .. n - 1]]
  <2> DEFINE s == 1 .. n
  <2>1. n \in Nat \ {0} /\ s \ {n} = 1 .. n - 1 /\ s \in SUBSET (1 .. N) /\ s # {}
    OBVIOUS
  <2>2. Max(s) = n
    BY <2>1, MaxOfInterval
  <2> HIDE DEF s
  <2>3. it[s] = step[Max(s)][it[s \ {Max(s)}]]
    BY <1>1, <2>1, <2>2 DEF FoldsValues
  <2> QED
    BY <2>1, <2>2, <2>3 DEF s
<1>2. 0 \in S /\ after[0] = base
  <2>1. 1 .. 0 = {}
    OBVIOUS
  <2> QED
    BY <2>1 DEF FoldsValues
<1>3. ASSUME NEW n \in 0 .. N - 1, n \in S
      PROVE  n + 1 \in S
  <2>1. n + 1 \in 1 .. N /\ (n + 1) - 1 = n /\ it[1 .. n] \in V
    BY <1>3
  <2>2. it[1 .. n + 1] = step[n + 1][it[1 .. n]]
    BY <1>1, <2>1
  <2>3. step[n + 1] \in [V -> V]
    BY <2>1 DEF Steps
  <2> QED
    BY <2>1, <2>2, <2>3
<1> HIDE DEF S
<1>4. 0 .. N \subseteq S
  BY <1>2, <1>3, BoundedInduction
<1>5. \A n \in 0 .. N : it[1 .. n] \in V
  BY <1>4 DEF S
<1>6. after \in [0 .. N -> V] /\ after[N] = it[1 .. N]
  BY <1>5
<1>7. \A n \in 1 .. N : after[n] = step[n][after[n - 1]]
  BY <1>1, <1>5
<1> HIDE DEF after
<1> QED
  BY <1>2, <1>6, <1>7 DEF Passes

\* A value taken from one position to the next: the recursion is defined.
LEMMA RecursionExists ==
    ASSUME NEW N \in Nat, NEW V, NEW base \in V, NEW step \in Steps(N, V)
    PROVE  \E after \in [0 .. N -> V] : Passes(after, N, base, step)
<1>1. PICK it \in [SUBSET (1 .. N) -> V] : FoldsDown(it, N, base, step)
  BY FoldExists
<1>2. FoldsValues(it, N, V, base, step)
  <2>1. ASSUME NEW s \in SUBSET (1 .. N), s # {}
        PROVE  it[s] = step[Max(s)][it[s \ {Max(s)}]]
    BY <1>1, <2>1 DEF FoldsDown
  <2>2. it[{}] = base
    BY <1>1 DEF FoldsDown
  <2> QED
    BY <2>1, <2>2 DEF FoldsValues
<1> QED
  BY <1>2, FoldPasses

\* Sequences flattened, from one to the next.
LEMMA FlattenPasses ==
    ASSUME NEW T, NEW seqs \in Seq(Seq(T))
    PROVE  \E after \in [0 .. Len(seqs) -> Seq(T)] :
              /\ after[0] = <<>>
              /\ \A n \in 1 .. Len(seqs) : after[n] = after[n - 1] \o seqs[n]
              /\ after[Len(seqs)] = FlattenSeq(seqs)
<1> DEFINE N == Len(seqs)
           V == Seq(T)
           step == [n \in 1 .. N |-> [v \in V |-> v \o seqs[n]]]
           Defines(f) == f = [i \in 1 .. N |-> IF i = 1 THEN seqs[i] ELSE f[i - 1] \o seqs[i]]
           flatten == CHOOSE f : Defines(f)
<1>1. N \in Nat /\ DOMAIN seqs = 1 .. N /\ \A n \in 1 .. N : seqs[n] \in V
  BY LenProperties, ElementOfSeq
<1>2. FlattenSeq(seqs) = IF N = 0 THEN seqs ELSE flatten[N]
  BY DEF FlattenSeq
<1>3. N = 0 => seqs = <<>>
  BY EmptySeq
<1> HIDE DEF N
<1>4. <<>> \in V /\ \A v \in V : <<>> \o v = v
  BY EmptySeq, ConcatEmptySeq
<1>5. step \in Steps(N, V) /\ \A n \in 1 .. N, v \in V : step[n][v] = v \o seqs[n]
  <2>1. \A v, w \in V : v \o w \in V
    BY ConcatProperties
  <2> HIDE DEF V
  <2> QED
    BY <1>1, <2>1 DEF Steps
<1> HIDE DEF V, step
<1>6. PICK after \in [0 .. N -> V] : Passes(after, N, <<>>, step)
  BY <1>1, <1>4, <1>5, RecursionExists
<1>7. after[0] = <<>> /\ \A n \in 1 .. N : after[n] = after[n - 1] \o seqs[n]
  <2>1. ASSUME NEW n \in 1 .. N
        PROVE  after[n] = after[n - 1] \o seqs[n]
    <3>1. after[n - 1] \in V
      BY <1>1
    <3> QED
      BY <1>5, <1>6, <3>1 DEF Passes
  <2> QED
    BY <1>6, <2>1 DEF Passes
<1>8. Defines([i \in 1 .. N |-> after[i]])
  <2>1. ASSUME NEW i \in 1 .. N
        PROVE  after[i] = IF i = 1 THEN seqs[i] ELSE after[i - 1] \o seqs[i]
    <3>1. after[i] = after[i - 1] \o seqs[i] /\ seqs[i] \in V
      BY <1>1, <1>7
    <3>2. i = 1 => i - 1 = 0
      OBVIOUS
    <3> QED
      BY <1>4, <1>7, <3>1, <3>2
  <2>2. ASSUME NEW i \in 1 .. N, i # 1
        PROVE  i - 1 \in 1 .. N
    BY <1>1, <2>2
  <2> QED
    BY <2>1, <2>2
<1> HIDE DEF Defines
<1>9. Defines(flatten)
  BY <1>8
<1> HIDE DEF flatten
<1>10. \A i \in 1 .. N : flatten[i] = IF i = 1 THEN seqs[i] ELSE flatten[i - 1] \o seqs[i]
  BY <1>9 DEF Defines
<1> DEFINE S == {n \in 0 .. N : n = 0 \/ flatten[n] = after[n]}
<1>11. 0 \in S
  BY <1>1
<1>12. ASSUME NEW n \in 0 .. N - 1, n \in S
       PROVE  n + 1 \in S
  <2>1. n + 1 \in 1 .. N /\ (n + 1) - 1 = n
    BY <1>1
  <2>2. CASE n = 0
    <3>0. n + 1 = 1 /\ 1 \in 1 .. N /\ 1 - 1 = 0
      BY <2>1, <2>2
    <3>1. flatten[1] = seqs[1] /\ after[1] = after[0] \o seqs[1]
      BY <1>7, <1>10, <3>0
    <3>2. flatten[1] = after[1]
      BY <1>1, <1>4, <1>7, <3>0, <3>1
    <3> QED
      BY <2>1, <3>0, <3>2
  <2>3. CASE n # 0
    <3>0. n + 1 # 1
      BY <1>1, <2>3
    <3>1. flatten[n + 1] = flatten[n] \o seqs[n + 1]
      BY <1>10, <2>1, <3>0
    <3>2. flatten[n] = after[n]
      BY <1>12, <2>3
    <3>3. after[n + 1] = after[n] \o seqs[n + 1]
      BY <1>7, <2>1
    <3>4. flatten[n + 1] = after[n + 1]
      BY <3>1, <3>2, <3>3
    <3> QED
      BY <1>1, <2>1, <3>4
  <2> QED
    BY <2>2, <2>3
<1> HIDE DEF S
<1>13. 0 .. N \subseteq S
  BY <1>1, <1>11, <1>12, BoundedInduction
<1>14. after[N] = FlattenSeq(seqs)
  <2>1. N \in S
    BY <1>1, <1>13
  <2> QED
    BY <1>2, <1>3, <1>7, <2>1 DEF S
<1> QED
  BY <1>7, <1>14 DEF N, V

\* What two sequences have between them.
LEMMA ConcatSet ==
    ASSUME NEW T, NEW a \in Seq(T), NEW b \in Seq(T)
    PROVE  ToSet(a \o b) = ToSet(a) \cup ToSet(b)
<1> DEFINE c == a \o b
<1>1. /\ Len(a) \in Nat /\ Len(b) \in Nat /\ DOMAIN a = 1 .. Len(a) /\ DOMAIN b = 1 .. Len(b)
      /\ c \in Seq(T) /\ Len(c) = Len(a) + Len(b) /\ DOMAIN c = 1 .. Len(c)
  BY LenProperties, ConcatProperties
<1>2. \A i \in 1 .. Len(a) + Len(b) :
         c[i] = IF i <= Len(a) THEN a[i] ELSE b[i - Len(a)]
  BY ConcatProperties
<1> HIDE DEF c
<1>3. \A i \in DOMAIN a : i \in DOMAIN c /\ c[i] = a[i]
  BY <1>1, <1>2
<1>4. ASSUME NEW i \in DOMAIN b
      PROVE  Len(a) + i \in DOMAIN c /\ c[Len(a) + i] = b[i]
  BY <1>1, <1>2
<1>5. ASSUME NEW i \in DOMAIN c
      PROVE  c[i] \in ToSet(a) \cup ToSet(b)
  <2>1. CASE i <= Len(a)
    BY <1>1, <1>2, <2>1 DEF ToSet
  <2>2. CASE ~(i <= Len(a))
    <3>1. i - Len(a) \in DOMAIN b /\ c[i] = b[i - Len(a)]
      BY <1>1, <1>2, <2>2
    <3> QED
      BY <3>1 DEF ToSet
  <2> QED
    BY <2>1, <2>2
<1>6. ToSet(c) = ToSet(a) \cup ToSet(b)
  <2>1. \A x \in ToSet(a) : x \in ToSet(c)
    BY <1>3 DEF ToSet
  <2>2. \A x \in ToSet(b) : x \in ToSet(c)
    BY <1>4 DEF ToSet
  <2>3. \A x \in ToSet(c) : x \in ToSet(a) \cup ToSet(b)
    <3>1. \A x \in ToSet(c) : \E i \in DOMAIN c : c[i] = x
      BY DEF ToSet
    <3> QED
      BY <1>5, <3>1
  <2> QED
    BY <2>1, <2>2, <2>3
<1> QED
  BY <1>6 DEF c

\* What they have among them.
LEMMA FlattenedSet ==
    ASSUME NEW T, NEW seqs \in Seq(Seq(T))
    PROVE  /\ FlattenSeq(seqs) \in Seq(T)
           /\ ToSet(FlattenSeq(seqs)) = UNION {ToSet(seqs[i]) : i \in 1 .. Len(seqs)}
<1> DEFINE N == Len(seqs)
<1>1. N \in Nat /\ DOMAIN seqs = 1 .. N /\ \A n \in 1 .. N : seqs[n] \in Seq(T)
  BY LenProperties, ElementOfSeq
<1>2. PICK after \in [0 .. N -> Seq(T)] :
         /\ after[0] = <<>>
         /\ \A n \in 1 .. N : after[n] = after[n - 1] \o seqs[n]
         /\ after[N] = FlattenSeq(seqs)
  BY FlattenPasses
<1> HIDE DEF N
<1> DEFINE S == {n \in 0 .. N : ToSet(after[n]) = UNION {ToSet(seqs[i]) : i \in 1 .. n}}
<1>3. 0 \in S
  <2>1. ToSet(<<>>) = {}
    BY DEF ToSet
  <2>2. 0 \in 0 .. N /\ 1 .. 0 = {}
    BY <1>1
  <2> QED
    BY <1>2, <2>1, <2>2
<1>4. ASSUME NEW n \in 0 .. N - 1, n \in S
      PROVE  n + 1 \in S
  <2>1. /\ n + 1 \in 1 .. N /\ n + 1 \in 0 .. N /\ (n + 1) - 1 = n /\ n \in 0 .. N
        /\ 1 .. n + 1 = (1 .. n) \cup {n + 1}
    BY <1>1
  <2>2. after[n + 1] = after[n] \o seqs[n + 1] /\ after[n] \in Seq(T) /\ seqs[n + 1] \in Seq(T)
    BY <1>1, <1>2, <2>1
  <2>4. ToSet(after[n + 1]) = ToSet(after[n]) \cup ToSet(seqs[n + 1])
    BY <2>2, ConcatSet
  <2> QED
    BY <1>4, <2>1, <2>4, ZenonT(60)
<1> HIDE DEF S
<1>5. 0 .. N \subseteq S
  BY <1>1, <1>3, <1>4, BoundedInduction
<1>6. N \in S /\ after[N] \in Seq(T)
  BY <1>1, <1>5
<1>7. ToSet(after[N]) = UNION {ToSet(seqs[i]) : i \in 1 .. N}
  BY <1>6 DEF S
<1>8. FlattenSeq(seqs) = after[N]
  BY <1>2
<1>9. FlattenSeq(seqs) \in Seq(T) /\ ToSet(FlattenSeq(seqs)) = UNION {ToSet(seqs[i]) : i \in 1 .. N}
  BY <1>6, <1>7, <1>8
<1>10. N = Len(seqs)
  BY DEF N
<1> QED
  BY <1>9, <1>10

\* The first of them is the first of the first that has any.
LEMMA FlattenFirst ==
    ASSUME NEW T, NEW seqs \in Seq(Seq(T)), NEW k \in 1 .. Len(seqs), seqs[k] # <<>>,
           \A j \in 1 .. k - 1 : seqs[j] = <<>>
    PROVE  FlattenSeq(seqs) # <<>> /\ FlattenSeq(seqs)[1] = seqs[k][1]
<1> DEFINE N == Len(seqs)
<1>1. N \in Nat /\ DOMAIN seqs = 1 .. N /\ \A n \in 1 .. N : seqs[n] \in Seq(T)
  BY LenProperties, ElementOfSeq
<1>2. PICK after \in [0 .. N -> Seq(T)] :
         /\ after[0] = <<>>
         /\ \A n \in 1 .. N : after[n] = after[n - 1] \o seqs[n]
         /\ after[N] = FlattenSeq(seqs)
  BY FlattenPasses
<1>0. k \in 1 .. N
  OBVIOUS
<1> HIDE DEF N
<1> DEFINE S == {n \in 0 .. N : IF n < k THEN after[n] = <<>>
                                ELSE after[n] # <<>> /\ after[n][1] = seqs[k][1]}
<1>3. 0 \in S
  BY <1>0, <1>1, <1>2
<1>4. ASSUME NEW n \in 0 .. N - 1, n \in S
      PROVE  n + 1 \in S
  <2>1. /\ n + 1 \in 1 .. N /\ n + 1 \in 0 .. N /\ (n + 1) - 1 = n /\ n \in 0 .. N /\ n \in Int
        /\ k \in Int
    BY <1>0, <1>1
  <2>2. after[n + 1] = after[n] \o seqs[n + 1] /\ after[n] \in Seq(T) /\ seqs[n + 1] \in Seq(T)
    BY <1>1, <1>2, <2>1
  <2>3. CASE n + 1 < k
    <3>1. seqs[n + 1] = <<>> /\ after[n] = <<>>
      BY <1>0, <1>4, <2>1, <2>3
    <3>2. <<>> \o <<>> = <<>>
      BY EmptySeq, ConcatEmptySeq
    <3> QED
      BY <2>1, <2>2, <2>3, <3>1, <3>2
  <2>4. CASE n + 1 = k
    <3>1. after[n] = <<>>
      BY <1>4, <2>1, <2>4
    <3>2. after[n + 1] = seqs[k]
      BY <2>2, <2>4, <3>1, ConcatEmptySeq
    <3> QED
      BY <2>1, <2>4, <3>2
  <2>5. CASE k < n + 1
    <3>1. after[n] # <<>> /\ after[n][1] = seqs[k][1]
      BY <1>4, <2>1, <2>5
    <3>2. Len(after[n]) \in Nat \ {0} /\ Len(seqs[n + 1]) \in Nat
      BY <2>2, <3>1, EmptySeq, LenProperties
    <3>4. ASSUME NEW a \in Nat \ {0}, NEW b \in Nat
          PROVE  1 \in 1 .. a + b /\ 1 <= a /\ a + b # 0
      OBVIOUS
    <3>5. ASSUME NEW a \in Seq(T), NEW b \in Seq(T), Len(a) \in Nat \ {0}, Len(b) \in Nat
          PROVE  Len(a \o b) = Len(a) + Len(b) /\ (a \o b)[1] = a[1]
      BY <3>4, <3>5, ConcatProperties
    <3>6. /\ Len(after[n + 1]) = Len(after[n]) + Len(seqs[n + 1])
          /\ after[n + 1][1] = after[n][1]
      BY <2>2, <3>2, <3>5, ZenonT(60)
    <3>3. after[n + 1][1] = after[n][1] /\ Len(after[n + 1]) # 0
      BY <3>2, <3>4, <3>6
    <3> QED
      BY <2>1, <2>5, <3>1, <3>3, EmptySeq
  <2> QED
    BY <2>1, <2>3, <2>4, <2>5
<1> HIDE DEF S
<1>5. 0 .. N \subseteq S
  BY <1>1, <1>3, <1>4, BoundedInduction
<1>6. N \in S /\ ~(N < k)
  BY <1>0, <1>1, <1>5
<1> QED
  BY <1>2, <1>6 DEF S

\* The least of one number.
LEMMA LeastOfOne ==
    ASSUME NEW k \in Nat \ {0}
    PROVE  (CHOOSE i \in {k} : \A j \in {k} : i <= j) = k
<1>1. {k} \subseteq 1 .. k /\ k \in Nat /\ {k} # {}
  OBVIOUS
<1>2. (CHOOSE i \in {k} : \A j \in {k} : i <= j) \in {k}
  BY <1>1, LeastOf
<1> QED
  BY <1>2

\* Two values in a row, and the second of them.
LEMMA PairIs ==
    ASSUME NEW a, NEW b
    PROVE  /\ DOMAIN <<a, b>> = {1, 2} /\ <<a, b>>[1] = a /\ <<a, b>>[2] = b
           /\ SubSeq(<<a, b>>, 2, 2) = <<b>>
           /\ (CHOOSE i \in {2} : \A j \in {2} : i <= j) = 2
<1>1. DOMAIN <<a, b>> = 1 .. 2 /\ 1 .. 2 = {1, 2} /\ <<a, b>>[1] = a /\ <<a, b>>[2] = b
  OBVIOUS
<1>2. SubSeq(<<a, b>>, 2, 2) = <<b>>
  <2> DEFINE s == <<a, b>>
  <2>1. s \in Seq({a, b}) /\ Len(s) = 2 /\ s[2] = b
    OBVIOUS
  <2> HIDE DEF s
  <2>2. SubSeq(s, 2, 2) \in Seq({a, b}) /\ Len(SubSeq(s, 2, 2)) = 1 /\ SubSeq(s, 2, 2)[1] = b
    <3>1. \A i \in 2 .. 2 : s[i] \in {a, b}
      BY <2>1
    <3>2. /\ SubSeq(s, 2, 2) \in Seq({a, b})
          /\ Len(SubSeq(s, 2, 2)) = IF 2 <= 2 THEN 2 - 2 + 1 ELSE 0
          /\ \A i \in 1 .. 2 - 2 + 1 : SubSeq(s, 2, 2)[i] = s[2 + i - 1]
      BY <3>1, SubSeqProperties
    <3> QED
      BY <2>1, <3>2
  <2>3. <<b>> \in Seq({a, b}) /\ Len(<<b>>) = 1 /\ <<b>>[1] = b
    OBVIOUS
  <2> HIDE DEF s
  <2> DEFINE t == SubSeq(s, 2, 2)
             u == <<b>>
  <2>4. t \in Seq({a, b}) /\ u \in Seq({a, b}) /\ Len(t) = 1 /\ Len(u) = 1 /\ t[1] = u[1]
    BY <2>2, <2>3
  <2> HIDE DEF t, u
  <2>5. t = u
    BY <2>4, SeqEqual
  <2> QED
    BY <2>5 DEF s, t, u
<1> QED
  BY <1>1, <1>2, LeastOfOne

\* Two values in a row, and four.
LEMMA TuplesAreSeqs ==
    ASSUME NEW T, NEW a \in T, NEW b \in T, NEW c \in T, NEW d \in T
    PROVE  /\ <<a, b>> \in Seq(T) /\ Len(<<a, b>>) = 2 /\ <<a, b>>[1] = a /\ <<a, b>>[2] = b
           /\ <<a, b, c, d>> \in Seq(T) /\ Len(<<a, b, c, d>>) = 4
           /\ <<a, b, c, d>>[1] = a /\ <<a, b, c, d>>[2] = b
           /\ <<a, b, c, d>>[3] = c /\ <<a, b, c, d>>[4] = d
  OBVIOUS

\* Three values in a row, or fewer.
LEMMA ThreeAreSeqs ==
    ASSUME NEW S, NEW x \in S, NEW y \in S
    PROVE  <<x, y>> \in Seq(S) /\ <<y, y, x>> \in Seq(S) /\ <<y>> \in Seq(S)
  OBVIOUS

\* Sequences of one value each, one after another.
LEMMA FlattenSingles ==
    ASSUME NEW T, NEW w \in Seq(T)
    PROVE  FlattenSeq([i \in DOMAIN w |-> <<w[i]>>]) = w
<1> DEFINE N == Len(w)
           seqs == [i \in DOMAIN w |-> <<w[i]>>]
<1>1. N \in Nat /\ DOMAIN w = 1 .. N /\ \A i \in 1 .. N : w[i] \in T
  BY LenProperties, ElementOfSeq
<1>2. \A x \in T : <<x>> \in Seq(T) /\ Len(<<x>>) = 1 /\ <<x>>[1] = x
  BY OneIsSeq
<1> HIDE DEF N
<1>3. seqs \in Seq(Seq(T)) /\ Len(seqs) = N /\ \A i \in 1 .. N : seqs[i] = <<w[i]>>
  <2>1. seqs = [i \in 1 .. N |-> <<w[i]>>] /\ \A i \in 1 .. N : <<w[i]>> \in Seq(T)
    BY <1>1, <1>2
  <2> DEFINE S == Seq(T)
             one == [i \in 1 .. N |-> <<w[i]>>]
  <2>2. one \in [1 .. N -> S]
    BY <2>1
  <2> HIDE DEF S
  <2>3. one \in Seq(S) /\ Len(one) = N
    BY <1>1, <2>2
  <2> QED
    BY <2>1, <2>3 DEF S
<1> HIDE DEF seqs
<1>4. PICK after \in [0 .. N -> Seq(T)] :
         /\ after[0] = <<>>
         /\ \A n \in 1 .. N : after[n] = after[n - 1] \o seqs[n]
         /\ after[N] = FlattenSeq(seqs)
  BY <1>3, FlattenPasses
<1> DEFINE S == {n \in 0 .. N : Len(after[n]) = n /\ \A i \in 1 .. n : after[n][i] = w[i]}
<1>5. 0 \in S
  <2>1. Len(<<>>) = 0 /\ 1 .. 0 = {} /\ 0 \in 0 .. N
    BY <1>1
  <2> QED
    BY <1>4, <2>1
<1>6. ASSUME NEW n \in 0 .. N - 1, n \in S
      PROVE  n + 1 \in S
  <2>1. n + 1 \in 1 .. N /\ n + 1 \in 0 .. N /\ (n + 1) - 1 = n /\ n \in 0 .. N /\ n \in Nat
    BY <1>1
  <2>2. after[n + 1] = after[n] \o <<w[n + 1]>> /\ after[n] \in Seq(T) /\ w[n + 1] \in T
    BY <1>1, <1>3, <1>4, <2>1
  <2>3. Len(after[n]) = n /\ \A i \in 1 .. n : after[n][i] = w[i]
    BY <1>6
  <2> DEFINE a == after[n]
             x == w[n + 1]
             b == <<x>>
  <2>4. a \in Seq(T) /\ b \in Seq(T) /\ Len(a) = n /\ Len(b) = 1 /\ b[1] = x
    BY <1>2, <2>2, <2>3
  <2>5. \A i \in 1 .. n : a[i] = w[i]
    BY <2>3
  <2> HIDE DEF a, b, x
  <2>6. Len(a \o b) = n + 1 /\ \A i \in 1 .. n + 1 : (a \o b)[i] = IF i <= n THEN a[i] ELSE b[i - n]
    <3>1. /\ Len(a \o b) = Len(a) + Len(b)
          /\ \A i \in 1 .. Len(a) + Len(b) : (a \o b)[i] = IF i <= Len(a) THEN a[i] ELSE b[i - Len(a)]
      BY <2>4, ConcatProperties
    <3> QED
      BY <2>4, <3>1
  <2>7. \A i \in 1 .. n + 1 : (i <= n => i \in 1 .. n) /\ (~(i <= n) => i = n + 1 /\ i - n = 1)
    BY <2>1
  <2>8. x = w[n + 1]
    BY DEF x
  <2>9. \A i \in 1 .. n + 1 : (a \o b)[i] = w[i]
    BY <2>4, <2>5, <2>6, <2>7, <2>8
  <2>10. after[n + 1] = a \o b
    BY <2>2 DEF a, b, x
  <2> QED
    BY <2>1, <2>6, <2>9, <2>10
<1> HIDE DEF S
<1>7. N \in S
  <2>1. 0 .. N \subseteq S
    BY <1>1, <1>5, <1>6, BoundedInduction
  <2> QED
    BY <1>1, <2>1
<1>8. after[N] \in Seq(T) /\ Len(after[N]) = N /\ \A i \in 1 .. N : after[N][i] = w[i]
  BY <1>1, <1>4, <1>7 DEF S
<1>9. after[N] = w
  BY <1>8, SeqEqual DEF N
<1> QED
  BY <1>4, <1>9 DEF seqs

\* Two sequences, one after the other.
LEMMA FlattenPair ==
    ASSUME NEW T, NEW a \in Seq(T), NEW b \in Seq(T)
    PROVE  FlattenSeq(<<a, b>>) = a \o b
<1> DEFINE S == Seq(T)
           s == <<a, b>>
<1>1. s \in Seq(S) /\ Len(s) = 2 /\ s[1] = a /\ s[2] = b
  <2>1. a \in S /\ b \in S
    OBVIOUS
  <2> HIDE DEF S
  <2> QED
    BY <2>1
<1> HIDE DEF s
<1>2. PICK after :
         /\ after[0] = <<>>
         /\ \A n \in 1 .. 2 : after[n] = after[n - 1] \o s[n]
         /\ after[2] = FlattenSeq(s)
  <2>1. s \in Seq(Seq(T))
    BY <1>1
  <2>2. \E after \in [0 .. Len(s) -> Seq(T)] :
           /\ after[0] = <<>>
           /\ \A n \in 1 .. Len(s) : after[n] = after[n - 1] \o s[n]
           /\ after[Len(s)] = FlattenSeq(s)
    BY <2>1, FlattenPasses
  <2> QED
    BY <1>1, <2>2
<1>3. 1 \in 1 .. 2 /\ 2 \in 1 .. 2 /\ 1 - 1 = 0 /\ 2 - 1 = 1
  OBVIOUS
<1>4. after[1] = <<>> \o a /\ after[2] = after[1] \o b
  BY <1>1, <1>2, <1>3
<1>5. <<>> \o a = a
  BY ConcatEmptySeq
<1> QED
  BY <1>2, <1>4, <1>5 DEF s

=================================================================================
