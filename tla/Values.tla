-------------------------------- MODULE Values --------------------------------
(***************************************************************************)
(* The values of JSON.parse, as scim-server and iam-mapping read them, and *)
(* the narrowing helpers the two packages share.                           *)
(*                                                                         *)
(* A text is a sequence of syllables: "" is <<>>, a space is the syllable  *)
(* " ".  That is all a trim, a join, a lower-casing or a search for a      *)
(* substring needs to be computed on it.                                   *)
(***************************************************************************)
EXTENDS Sequences, Integers

CONSTANT Lowered  \* from the upper-case syllables to their lower-case forms

\* So it is in TLA+, but the provers have to be told.
ASSUME LiteralsAreStrings == {" ", "true", "false"} \subseteq STRING

Missing   == [is |-> "missing"]              \* undefined
Null      == [is |-> "null"]
Flag(b)   == [is |-> "flag", on |-> b]
Number(w) == [is |-> "number", word |-> w]   \* by what String() makes of it
Text(w)   == [is |-> "text", word |-> w]
List(s)   == [is |-> "list", items |-> s]
Object(f) == [is |-> "object", fields |-> f]

\* The values of JSON.parse: a set that holds the items and the fields of its members.
\* A field that is Missing is one that is not there.
IsJson(J) ==
    \A v \in J :
        \/ v \in {Null, Flag(TRUE), Flag(FALSE)}
        \/ v.is \in {"text", "number"} /\ v.word \in Seq(STRING) /\ v \in {Text(v.word), Number(v.word)}
        \/ v.is = "list" /\ v.items \in Seq(J)
        \/ v.is = "object" /\ \A k \in DOMAIN v.fields : v.fields[k] \in J \cup {Missing}

IsText(v) == v.is = "text"
IsList(v) == v.is = "list"

\* body[k], undefined for whatever has no such key.
Get(v, k) ==
    IF v.is = "object" /\ k \in DOMAIN v.fields THEN v.fields[k] ELSE Missing

Trim(w) ==
    LET kept == {i \in DOMAIN w : w[i] # " "}
    IN  IF kept = {} THEN <<>>
        ELSE SubSeq(w, CHOOSE i \in kept : \A j \in kept : i <= j,
                       CHOOSE i \in kept : \A j \in kept : j <= i)

LowerCase(w) ==
    [i \in DOMAIN w |-> IF w[i] \in DOMAIN Lowered THEN Lowered[w[i]] ELSE w[i]]

Lower(v) == Text(LowerCase(v.word))

\* typeof v === 'string' && v.trim() !== ''
Filled(v) == IsText(v) /\ Trim(v.word) # <<>>

\* v.trim() where v is a filled string, and otherwise the other value.
TrimmedOr(v, other) == IF Filled(v) THEN Text(Trim(v.word)) ELSE other

\* Two texts with a space between them, or the one that is there.
Joined(v, w, other) ==
    IF IsText(v) /\ IsText(w) THEN Text(v.word \o <<" ">> \o w.word)
    ELSE IF IsText(v) THEN v ELSE IF IsText(w) THEN w ELSE other

\* The first of the values of a sequence for which P holds, and otherwise other.
FirstSuch(s, P(_), other) ==
    LET where == {i \in DOMAIN s : P(s[i])}
    IN  IF where = {} THEN other
        ELSE s[CHOOSE i \in where : \A j \in where : i <= j]
==============================================================================
