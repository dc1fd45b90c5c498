------------------------------ MODULE IdpShapes ------------------------------
(***************************************************************************)
(* How the six kinds of identity provider render one person: the payloads  *)
(* the projections of Profiles are given.  The providers are outside the   *)
(* repository; the shapes are those its tests and its type declarations    *)
(* show, with the variations a real directory has: a padded or shouted     *)
(* text, a list where one value would do, a value twice, a field that is   *)
(* null.                                                                   *)
(*                                                                         *)
(* A person is [id, mail, first, last, display, title, department,         *)
(* manager, managerName, groups, active]: texts or Missing, a set of       *)
(* texts, a boolean.  Their manager is an email to every provider but      *)
(* Active Directory, which has the DN of the manager's own entry, with the *)
(* manager's name in it.                                                   *)
(***************************************************************************)
EXTENDS Profiles

\* The syllables a provider adds to what a person is called by, which the provers have to
\* be told are strings, and their lower case.
ASSUME SyllablesAssumption ==
    /\ {"CN", "=", ",", "OU", "x"} \subseteq STRING
    /\ Lowered \in [DOMAIN Lowered -> STRING] /\ DOMAIN Lowered \subseteq STRING
    /\ {" ", "manager", "spouse"} \cap DOMAIN Lowered = {}
    /\ {"CN", "MANAGER"} \subseteq DOMAIN Lowered
    /\ Lowered["CN"] = "cn" /\ Lowered["MANAGER"] = "manager"

\* And how Number() reads the two values of userAccountControl in use here.
ASSUME NumeralsAssumption ==
    /\ {<<"512">>, <<"514">>} \subseteq DOMAIN Numerals /\ {"512", "514"} \subseteq STRING
    /\ Numerals[<<"512">>] = 512 /\ Numerals[<<"514">>] = 514

\* A text with no blank at either end.
IsName(v) ==
    /\ IsText(v) /\ v = Text(v.word)
    /\ v.word \in Seq(STRING) /\ v.word # <<>> /\ v.word[1] # " " /\ v.word[Len(v.word)] # " "

\* The people of a directory.
IsPerson(p) ==
    /\ p = [id |-> p.id, mail |-> p.mail, first |-> p.first, last |-> p.last,
            display |-> p.display, title |-> p.title, department |-> p.department,
            manager |-> p.manager, managerName |-> p.managerName, groups |-> p.groups,
            active |-> p.active]
    /\ IsName(p.id) /\ IsName(p.mail) /\ Lower(p.mail) = p.mail
    /\ \A v \in {p.first, p.last, p.display, p.title, p.department, p.manager, p.managerName} :
          v = Missing \/ IsName(v)
    /\ p.manager = Missing <=> p.managerName = Missing
    /\ IsFiniteSet(p.groups) /\ \A g \in p.groups : IsName(g)
    /\ p.active \in BOOLEAN

Padded(v) == IF IsText(v) THEN Text(<<" ">> \o v.word \o <<" ">>) ELSE v

\* The same email as people type it.
Shouted(v) ==
    LET Up(c) == {u \in DOMAIN Lowered : Lowered[u] = c}
    IN  Text([i \in DOMAIN v.word |->
                IF Up(v.word[i]) = {} THEN v.word[i] ELSE CHOOSE u \in Up(v.word[i]) : TRUE])

\* A multi-valued attribute: a text by itself where there is one value.
OneOrMany(s) == IF Len(s) = 1 THEN s[1] ELSE List(s)

Sequence(set) == SetToSeq(set)

Twice(s) == s \o s

AsScim(p) ==
    Object([userName |-> Shouted(p.mail), externalId |-> p.id,
            name |-> Object([givenName |-> Padded(p.first), familyName |-> p.last]),
            displayName |-> p.display, title |-> p.title, active |-> Flag(p.active),
            enterprise |-> Object([department |-> p.department,
                                   manager |-> Object([value |-> p.manager])]),
            groups |-> List([i \in DOMAIN Sequence(p.groups) |->
                               Object([value |-> Text(<<"g", "1">>), display |-> Sequence(p.groups)[i]])])])

\* The canonical resource of scim-schema.ts: the email is the second of two.
AsScimUser(p) ==
    Object([userName |-> Text(<<"login">>), externalId |-> p.id,
            emails |-> List(<<Object([value |-> Text(<<"home">>)]),
                              Object([value |-> Padded(Shouted(p.mail)), primary |-> Flag(TRUE)])>>),
            name |-> Object([givenName |-> p.first, familyName |-> p.last,
                             formatted |-> Padded(p.display)]),
            title |-> p.title, active |-> Flag(p.active),
            enterprise |-> Object([department |-> Padded(p.department),
                                   manager |-> Object([value |-> Padded(p.manager),
                                                       displayName |-> p.managerName])]),
            groups |-> List([i \in DOMAIN Sequence(p.groups) |->
                               Object([value |-> Sequence(p.groups)[i]])])])

AsGraph(p) ==
    Object([id |-> p.id, mail |-> Null, userPrincipalName |-> Shouted(p.mail),
            givenName |-> OrNull(p.first), surname |-> Padded(p.last),
            displayName |-> OrNull(p.display), jobTitle |-> OrNull(p.title),
            department |-> OrNull(p.department), manager |-> OrNull(p.manager),
            groups |-> List(Twice(Sequence(p.groups)))])

AsGoogle(p) ==
    Object([id |-> p.id, primaryEmail |-> Shouted(p.mail), suspended |-> Flag(~p.active),
            name |-> Object([givenName |-> p.first, familyName |-> p.last, fullName |-> p.display]),
            organizations |->
                List(<<Object([department |-> Text(<<"former">>), title |-> Text(<<"former">>)]),
                       Object([department |-> OrNull(p.department), title |-> p.title,
                               primary |-> Flag(TRUE)])>>),
            relations |->
                List(<<Object([type |-> Text(<<"spouse">>), value |-> Text(<<"home">>)]),
                       Object([type |-> Text(<<" ", "MANAGER">>), value |-> p.manager])>>),
            groups |-> List(Sequence(p.groups))])

AsSaml(p) ==
    LET Stated(v) == IF IsText(v) THEN List(<<Text(<<" ">>), v>>) ELSE v
    IN  [nameId |-> Shouted(p.mail),
         attributes |->
            Object(Over([k \in {"claims/givenname", "claims/groups"} |->
                           IF k = "claims/givenname" THEN p.first ELSE List(<<>>)],
                        [sn |-> Stated(p.last), displayName |-> p.display,
                         jobTitle |-> Padded(p.title), department |-> Stated(p.department),
                         managerEmail |-> p.manager, memberOf |-> OneOrMany(Sequence(p.groups))]))]

\* The groups are split over two claims.
AsOidc(p) ==
    Object([sub |-> p.id, preferred_username |-> Shouted(p.mail), given_name |-> p.first,
            family_name |-> Padded(p.last), name |-> p.display, title |-> p.title,
            jobTitle |-> Text(<<" ">>), department |-> p.department, manager |-> p.manager,
            groups |-> List(IF p.groups = {} THEN <<>> ELSE <<Sequence(p.groups)[1]>>),
            roles |-> List(Sequence(p.groups))])

----------------------------------------------------------------------------
(* Active Directory: names are DNs, RFC 4514, a comma in them escaped.     *)

Escaped(w) ==
    FlattenSeq([i \in DOMAIN w |-> IF w[i] = "," THEN <<"\\", ",">> ELSE <<w[i]>>])

Dn(v) == IF IsText(v) THEN Text(<<"CN", "=">> \o Escaped(v.word) \o <<",", "OU", "=", "x">>) ELSE v

Binary(w) == [is |-> "binary", base64 |-> w]

\* What ldapts returns, before normalizeEntry; objectGUID is a buffer.
AsLdapEntry(p) ==
    [dn |-> Dn(p.display),
     attributes |->
        Object([mail |-> List(<<Shouted(p.mail), Text(<<"home">>)>>), objectGUID |-> Binary(p.id.word),
                givenName |-> p.first, sn |-> List(<<Padded(p.last)>>), cn |-> p.display,
                title |-> p.title, department |-> List(<<Text(<<" ">>), p.department>>),
                manager |-> Dn(p.managerName),
                memberOf |-> OneOrMany([i \in DOMAIN Sequence(p.groups) |-> Dn(Sequence(p.groups)[i])]),
                userAccountControl |-> IF p.active THEN Number(<<"512">>) ELSE Text(<<"514">>)])]

\* An account of the directory that is nobody's: no email, no group, no number.
ServiceEntry ==
    [dn |-> Missing, attributes |-> Object([cn |-> Text(<<"svc">>), thumbnail |-> List(<<Null>>)])]
==============================================================================
