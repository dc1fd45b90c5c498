-------------------------- MODULE MCScimProvisioning --------------------------
(* Instances of ScimProvisioning small enough for TLC.                       *)
EXTENDS ScimProvisioning, TLC

MCLowered == [ANN |-> "ann", Replace |-> "replace", Remove |-> "remove"]

T(syllable) == Text(<<syllable>>)
Op(verb, path, value) ==
    Object([op |-> T(verb), path |-> path, value |-> value])
Ops(s) == Object([Operations |-> List(s)])
Ids(s) == List([i \in DOMAIN s |-> Object([value |-> T(s[i])])])

\* Two spellings of one email, one of them in the second of two addresses; another
\* email; and a body with none.
MCUserBodies ==
    {Object([userName |-> Text(<<"ann", " ">>), name |-> Object([givenName |-> T("Ann")])]),
     Object([emails |-> List(<<Object([value |-> T("bob")]),
                               Object([value |-> T("ANN"), primary |-> Flag(TRUE)])>>),
             active |-> T("False"), externalId |-> T("e1")]),
     Object([userName |-> T("bob"), displayName |-> T(" "), active |-> T("True"),
             name |-> Object([familyName |-> T("7")])]),
     Object([userName |-> T(" ")]),
     Null}

\* Off by a removal after on by a text, the displayed name cleared, a number for another
\* name; on by a partial resource with a blank name, and an unknown verb.
MCUserPatches ==
    {Ops(<<Op("add", T("active"), T("true")), Op("Remove", T("active"), Missing),
           Op("remove", T("displayName"), Missing),
           Op("add", T("name.familyName"), Number(<<"7">>)), Null>>),
     Ops(<<Op("Replace", Missing, Object([active |-> Flag(TRUE), displayName |-> Text(<<>>),
                                          name |-> Object([familyName |-> T("7")])])),
           Op("move", T("active"), Flag(FALSE)), Op("replace", T("active"), T("False")),
           Op("replace", T("active"), T("True"))>>)}

MCGroupBodies ==
    {Object([displayName |-> T("staff"), members |-> Ids(<<"m1", "m1">>)]),
     Object([displayName |-> T("staff"), externalId |-> T("e1"), members |-> T("m1")]),
     Object([members |-> Ids(<<"m1">>)])}

MCGroupPatches ==
    {Ops(<<Op("add", T("members"), Ids(<<"m1", "m2">>))>>),
     Ops(<<Op("Remove", Text(<<"members[", "m1", "]">>), Missing)>>),
     Ops(<<Op("Replace", Missing, Ids(<<"m2">>)), Op("add", Text(<<"members", " ">>), Ids(<<"m1">>)),
           Op("remove", T("members"), Ids(<<"m2">>))>>),
     Ops(<<Op("remove", T("members"), Missing), Op("add", T("members"), List(<<Null, T("m2")>>))>>),
     Ops(<<Op("Replace", T("displayName"), T("crew"))>>),
     Ops(<<Op("Replace", Missing, Object([displayName |-> T("crew")]))>>)}

\* A value and what it is made of.
RECURSIVE Parts(_)
Parts(v) ==
    {v} \cup CASE v.is = "list" -> UNION {Parts(v.items[i]) : i \in DOMAIN v.items}
               [] v.is = "object" -> UNION {Parts(v.fields[k]) : k \in DOMAIN v.fields}
               [] OTHER -> {}

MCJson ==
    UNION {Parts(v) : v \in MCUserBodies \cup MCUserPatches \cup MCGroupBodies \cup MCGroupPatches}
      \ {Missing}

\* Everyone by the default page, by the largest one, or by none; and whoever has an
\* email, in either spelling.
MCSearches ==
    LET Unread == [is |-> "text", whole |-> FALSE, n |-> 0]
        Large  == [is |-> "number", whole |-> TRUE, n |-> 500]
        Nought == [is |-> "text", whole |-> TRUE, n |-> 0]
    IN  {[filter |-> Missing, count |-> Unread], [filter |-> Missing, count |-> Large],
         [filter |-> Missing, count |-> Nought],
         [filter |-> [is |-> "eq", on |-> "userName", eq |-> T("ann")], count |-> Large]}

Busy == {c \in Calls : pc[c] # "idle"}

\* Groups are exercised while there are no users, for no step of one reads the other.
MCNext ==
    \/ groups = <<>> /\ OnUsers
    \/ users = <<>> /\ walk = NoWalk /\ Busy = {} /\ OnGroups
    \/ Walking

MCSpec == Init /\ [][MCNext]_vars

\* A provider walks beside one POST at most, for a walk reads only rows; and what
\* follows a walk that is over is what follows none.
Apart == walk = NoWalk \/ (Cardinality(Busy) <= 1 /\ ~walk.over)

Symmetry == Permutations(Calls)
==============================================================================
