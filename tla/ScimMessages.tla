----------------------------- MODULE ScimMessages -----------------------------
(***************************************************************************)
(* serialize.ts and validate.ts of scim-server: what the handlers read in  *)
(* a body or a query, how they render a row, and the schema an outgoing    *)
(* resource is held to.  All of it is pure.                                *)
(*                                                                         *)
(* A PATCH path is a text like any other; members[value eq "m"] has the    *)
(* syllables "members[", m, "]".  Timestamps and URNs of messages carry no *)
(* decision and are left out.                                              *)
(***************************************************************************)
EXTENDS Values, SequencesExt

CONSTANTS DefaultPageSize, MaxPageSize   \* 100 and 200 in the code

\* What is in lower case is left as it is.
ASSUME LoweredAssumption == {"members", "members["} \cap DOMAIN Lowered = {}

\* asRecord
Body(v) == IF v.is \in {"object", "list"} THEN v ELSE Object(<<>>)

\* A bug: anything that is not false is true.
CoerceTruthy(v) == v \notin {Flag(FALSE), Missing, Null}

CoerceBool(v) == v \in {Flag(TRUE), Text(<<"true">>), Text(<<"True">>)}

StrOf(v) ==
    CASE v.is \in {"text", "number"} -> Text(v.word)
      [] v.is = "flag" -> Text(IF v.on THEN <<"true">> ELSE <<"false">>)
      [] OTHER -> Null

----------------------------------------------------------------------------
(* Whole resources                                                         *)

TextAt(body, key) == TrimmedOr(Get(body, key), Null)

PrimaryEmail(body) ==
    LET emails == Get(body, "emails")
        Primary(e) == Get(e, "primary") = Flag(TRUE)
    IN  IF IsList(emails) /\ emails.items # <<>>
        THEN TrimmedOr(Get(FirstSuch(emails.items, Primary, emails.items[1]), "value"), Null)
        ELSE Null

EmailOf(body) ==
    IF Filled(Get(body, "userName")) THEN TextAt(body, "userName") ELSE PrimaryEmail(body)

GivenNameOf(body)  == TextAt(Get(body, "name"), "givenName")
FamilyNameOf(body) == TextAt(Get(body, "name"), "familyName")

DisplayNameOf(body) ==
    IF Filled(Get(body, "displayName")) THEN TextAt(body, "displayName")
    ELSE Joined(GivenNameOf(body), FamilyNameOf(body), Null)

ActiveOf(body) == Get(body, "active") = Missing \/ CoerceBool(Get(body, "active"))

\* The input of createUser and of replaceUser.
UserInput(body) ==
    [userName |-> EmailOf(body), externalId |-> TextAt(body, "externalId"),
     firstName |-> GivenNameOf(body), lastName |-> FamilyNameOf(body),
     displayName |-> DisplayNameOf(body), active |-> ActiveOf(body)]

\* The ids in members[].value, in a list of any values.
ValuesOf(v) ==
    IF ~IsList(v) THEN {}
    ELSE {Get(v.items[i], "value").word : i \in {j \in DOMAIN v.items :
             IsText(Get(v.items[j], "value")) /\ Get(v.items[j], "value").word # <<>>}}

GroupInput(body) ==
    [displayName |-> TextAt(body, "displayName"),
     externalId |-> TextAt(body, "externalId"),
     members |-> ValuesOf(Get(body, "members"))]

----------------------------------------------------------------------------
(* PATCH: a fold over Operations                                           *)

Operations(body) ==
    IF IsList(Get(body, "Operations")) THEN Get(body, "Operations").items ELSE <<>>

Kind(op) == IF IsText(Get(op, "op")) THEN LowerCase(Get(op, "op").word) ELSE <<>>
Path(op) == IF IsText(Get(op, "path")) THEN Trim(Get(op, "path").word) ELSE <<>>

Verbs == {<<"add">>, <<"replace">>, <<"remove">>}

\* Missing is a field the PATCH leaves alone.
NoPatch == [active |-> Missing, firstName |-> Missing, lastName |-> Missing,
            displayName |-> Missing]

\* The partial resource some providers send instead of a path.  The verb is not read.
Partial(patch, value) ==
    LET over(field, v) == IF v = Null THEN patch[field] ELSE v
    IN  [active |-> IF Get(value, "active") = Missing THEN patch.active
                    ELSE Flag(CoerceBool(Get(value, "active"))),
         firstName |-> over("firstName", GivenNameOf(value)),
         lastName |-> over("lastName", FamilyNameOf(value)),
         displayName |-> IF IsText(Get(value, "displayName")) THEN Get(value, "displayName")
                         ELSE patch.displayName]

ApplyUserOp(patch, op) ==
    LET removing == Kind(op) = <<"remove">>
        value == Get(op, "value")
        said == IF removing THEN Null ELSE StrOf(value)
    IN  IF Kind(op) \notin Verbs THEN patch
        ELSE CASE Path(op) = <<>> -> Partial(patch, Body(value))
               [] Path(op) = <<"active">> ->
                     [patch EXCEPT !.active = Flag(~removing /\ CoerceBool(value))]
               [] Path(op) = <<"displayName">> -> [patch EXCEPT !.displayName = said]
               [] Path(op) = <<"name.givenName">> -> [patch EXCEPT !.firstName = said]
               [] Path(op) = <<"name.familyName">> -> [patch EXCEPT !.lastName = said]
               [] OTHER -> patch

ParseUserPatch(body) == FoldLeft(ApplyUserOp, NoPatch, Operations(body))

\* A bug: the targeted removal is taken for a path of another attribute.
GroupOpsUntargeted(op) ==
    IF Path(op) \in {<<>>, <<"members">>}
    THEN <<[kind |-> Kind(op), members |-> ValuesOf(Get(op, "value"))]>> ELSE <<>>

\* The member a path like members[value eq "m"] targets; the pattern needs no "]".
Targets(path) == Len(path) > 1 /\ path[2] # "]"

\* The normalized operations of one raw operation: one, or none.
GroupOps(op) ==
    LET kind == Kind(op)
        path == Path(op)
    IN  IF kind = <<"remove">> /\ path # <<>> /\ Head(LowerCase(path)) = "members["
        THEN IF Targets(path) THEN <<[kind |-> kind, members |-> {<<path[2]>>}]>> ELSE <<>>
        ELSE IF path \in {<<>>, <<"members">>} /\ kind \in Verbs
        THEN <<[kind |-> kind, members |-> ValuesOf(Get(op, "value"))]>>
        ELSE <<>>

ParseGroupMemberPatch(body) ==
    FoldLeft(LAMBDA ops, op : ops \o GroupOps(op), <<>>, Operations(body))

----------------------------------------------------------------------------
(* Queries.  A filter is what the anchored patterns make of it: one of     *)
(* [on |-> attribute, eq |-> value], or Missing, or another text.  whole   *)
(* says of a number whether it is an integer, of a text whether parseInt   *)
(* finds one in it.                                                        *)

Filter(query, attribute) ==
    IF query.filter.is = "eq" /\ query.filter.on = attribute THEN query.filter.eq ELSE Null

ToInt(v, fallback) ==
    IF v.is \in {"number", "text"} /\ v.whole THEN v.n ELSE fallback

AtLeast(n, m) == IF n < m THEN m ELSE n
AtMost(n, m)  == IF n > m THEN m ELSE n

PageSize(count) == AtMost(AtLeast(ToInt(count, DefaultPageSize), 0), MaxPageSize)

ParsePagination(query) ==
    [startIndex |-> AtLeast(ToInt(query.startIndex, 1), 1), count |-> PageSize(query.count)]

----------------------------------------------------------------------------
(* Rendering, and the schema of what is rendered                           *)

\* A bug: null is rendered like any other value.
AllFields(f) == f

\* The fields of an object whose value is not null.
NonNull(f) == [k \in {x \in DOMAIN f : f[x] # Null} |-> f[k]]

ToScimUser(row) ==
    LET name == NonNull([givenName |-> row.firstName, familyName |-> row.lastName])
    IN  Object(NonNull(
          [schemas |-> List(<<Text(<<"core:User">>)>>),
           userName |-> row.userName,
           emails |-> List(<<Object([value |-> row.userName, primary |-> Flag(TRUE)])>>),
           active |-> Flag(row.active),
           externalId |-> row.externalId,
           name |-> IF DOMAIN name = {} THEN Null ELSE Object(name),
           displayName |-> row.displayName]))

ToScimGroup(row) ==
    LET Member(m) == Object([value |-> Text(m)])
    IN  Object(NonNull(
          [schemas |-> List(<<Text(<<"core:Group">>)>>),
           displayName |-> row.displayName,
           externalId |-> row.externalId,
           members |-> List(SetToSeq({Member(m) : m \in row.members}))]))

SchemasBad(body, known, required) ==
    LET schemas == Get(body, "schemas")
    IN  \/ ~IsList(schemas)
        \/ \E i \in DOMAIN schemas.items : schemas.items[i] \notin known
        \/ \A i \in DOMAIN schemas.items : schemas.items[i] # required

StringBad(body, key) == Get(body, key) # Missing /\ ~Filled(Get(body, key))

MultiBad(body, key) ==
    LET v == Get(body, key)
        EntryBad(e) == e.is # "object" \/ Get(e, "value").is \notin {"missing", "text"}
    IN  v # Missing /\ (~IsList(v) \/ \E i \in DOMAIN v.items : EntryBad(v.items[i]))

NameBad(body) ==
    LET name == Get(body, "name")
    IN  \/ name.is \notin {"missing", "object"}
        \/ \E sub \in {"givenName", "familyName", "formatted"} :
              Get(name, sub).is \notin {"missing", "text"}

\* validateScimUser, by the attributes it finds fault with.
UserErrors(body) ==
    {k \in {"schemas"} : SchemasBad(body, {Text(<<"core:User">>), Text(<<"enterprise:User">>)},
                                    Text(<<"core:User">>))}
      \cup {k \in {"userName"} : ~Filled(Get(body, k))}
      \cup {k \in {"externalId", "displayName"} : StringBad(body, k)}
      \cup {k \in {"active"} : Get(body, k).is \notin {"missing", "flag"}}
      \cup {k \in {"name"} : NameBad(body)}
      \cup {k \in {"emails", "phoneNumbers"} : MultiBad(body, k)}

\* validateScimGroup, likewise.
GroupErrors(body) ==
    {k \in {"schemas"} : SchemasBad(body, {Text(<<"core:Group">>)}, Text(<<"core:Group">>))}
      \cup {k \in {"displayName"} : ~Filled(Get(body, k))}
      \cup {k \in {"externalId"} : StringBad(body, k)}
      \cup {k \in {"members"} : MultiBad(body, k)}
==============================================================================
