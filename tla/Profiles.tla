------------------------------- MODULE Profiles -------------------------------
(***************************************************************************)
(* The DirectoryProfile of iam-mapping and the projections onto it:        *)
(* profile.ts, scim-schema.ts and contracts-projection.ts.  All pure.      *)
(*                                                                         *)
(* A profile has its groups as a set, for no rule reads their order, and   *)
(* null as Null.  A SCIM path is the sequence of its keys, and an admin's  *)
(* attribute map a function on the fields it overrides.  DNs are texts,    *)
(* with "=" and "," among their syllables.  Timestamps, photos and the     *)
(* like, which no projection reads, are left out.                          *)
(***************************************************************************)
EXTENDS Values, SequencesExt

CONSTANT Numerals  \* from the words Number() reads to the numbers it makes of them

Str(v) == TrimmedOr(v, Missing)

FirstString(s) == Str(FirstSuch(s, Filled, Missing))

\* The texts among the values of a sequence.
TextsOf(s) == FlattenSeq([i \in DOMAIN s |-> IF IsText(s[i]) THEN <<s[i]>> ELSE <<>>])

Strings(s) == TextsOf([i \in DOMAIN s |-> Str(s[i])])

AsStringArray(v) == IF IsList(v) THEN Strings(v.items) ELSE <<>>

\* An attribute that may have one value or several.
ValuesIn(v) == IF IsList(v) THEN Strings(v.items) ELSE Strings(<<v>>)

First(s) == IF s = <<>> THEN Missing ELSE s[1]

OrNull(v) == IF v = Missing THEN Null ELSE v

Truthy(v) == v \notin {Missing, Null, Flag(FALSE), Text(<<>>)}

Compact(f) == [k \in {x \in DOMAIN f : f[x] # Missing} |-> f[k]]

\* { ...g, ...f }
Over(f, g) ==
    [k \in DOMAIN f \cup DOMAIN g |-> IF k \in DOMAIN f THEN f[k] ELSE g[k]]

\* DIRECTORY_ATTRIBUTE_KEYS
DirectoryAttributeKeys ==
    {"department", "division", "title", "employeeNumber", "costCenter", "officeLocation",
     "manager", "organization", "companyName", "employeeType", "preferredLanguage", "locale",
     "timezone", "phoneNumber", "mobilePhone", "streetAddress", "city", "state",
     "postalCode", "country"}

\* What every projection ends with: null for what is missing, the email in lower case,
\* a name made of the two where none is given.
Profile(email, externalId, first, last, display, attributes, groups, claims) ==
    [email |-> IF email = Missing THEN Text(<<>>) ELSE Lower(email),
     externalId |-> OrNull(externalId), firstName |-> OrNull(first), lastName |-> OrNull(last),
     displayName |-> OrNull(display), attributes |-> Compact(attributes),
     groups |-> ToSet(groups), claims |-> claims]

NameOr(display, first, last) == IF IsText(display) THEN display ELSE Joined(first, last, Missing)

\* parts has an email, optional identity fields, attributes and groups.
ProfileFromParts(parts) ==
    [email |-> Lower(parts.email), externalId |-> parts.externalId,
     firstName |-> parts.firstName, lastName |-> parts.lastName,
     displayName |-> parts.displayName, attributes |-> parts.attributes,
     groups |-> parts.groups, claims |-> Object(<<>>)]

\* The override of the admin first, then the defaults.
KeysFor(table, field, map) ==
    IF field \in DOMAIN map THEN <<map[field]>> \o table[field] ELSE table[field]

NoMap == <<>>

----------------------------------------------------------------------------
(* SCIM                                                                    *)

ScimDefaults ==
    [email |-> <<<<"userName">>, <<"emails[primary]">>>>,
     firstName |-> <<<<"name", "givenName">>>>, lastName |-> <<<<"name", "familyName">>>>,
     displayName |-> <<<<"displayName">>>>, externalId |-> <<<<"externalId">>>>,
     groups |-> <<<<"groups">>>>,
     department |-> <<<<"enterprise", "department">>, <<"department">>>>,
     division |-> <<<<"enterprise", "division">>>>,
     title |-> <<<<"title">>, <<"enterprise", "title">>>>,
     employeeNumber |-> <<<<"enterprise", "employeeNumber">>>>,
     costCenter |-> <<<<"enterprise", "costCenter">>>>,
     officeLocation |-> <<<<"enterprise", "officeLocation">>, <<"officeLocation">>>>,
     manager |-> <<<<"enterprise", "manager">>>>]

ScimManagerValue(v) ==
    IF v.is = "object" THEN FirstString(<<Get(v, "value"), Get(v, "$ref")>>) ELSE Str(v)

\* The value of the entry marked primary, and otherwise of the first.
PrimaryOf(list, Marked(_)) ==
    IF ~IsList(list) \/ list.items = <<>> THEN Missing
    ELSE FirstSuch(list.items, Marked, list.items[1])

\* The entries are objects or texts: a null one makes emails.find throw.
ScimEmail(emails) ==
    LET Marked(e) == Truthy(Get(e, "primary"))
        first == IF IsList(emails) THEN First(emails.items) ELSE Missing
    IN  FirstString(<<Get(PrimaryOf(emails, Marked), "value"), Get(first, "value")>>)

\* Key after key.
Along(body, path) == FoldLeft(Get, body, path)

ScimResolve(body, path) ==
    CASE path = <<"emails[primary]">> -> ScimEmail(Get(body, "emails"))
      [] path = <<"enterprise", "manager">> ->
            ScimManagerValue(Get(Get(body, "enterprise"), "manager"))
      [] path = <<"manager">> -> ScimManagerValue(Get(body, "manager"))
      [] OTHER -> Str(Along(body, path))

ScimFirst(body, paths) == FirstString([i \in DOMAIN paths |-> ScimResolve(body, paths[i])])

\* A group is an object with a display or a value, or a text.
ScimGroup(g) == IF g.is = "object" THEN FirstString(<<Get(g, "display"), Get(g, "value")>>) ELSE Str(g)

ScimGroups(body, paths) ==
    LET At(path) == IF Len(path) = 1 THEN Get(body, path[1]) ELSE Missing
        Of(path) == IF ~IsList(At(path)) THEN <<>>
                    ELSE Strings([i \in DOMAIN At(path).items |-> ScimGroup(At(path).items[i])])
    IN  FirstSuch([i \in DOMAIN paths |-> Of(paths[i])], LAMBDA s : s # <<>>, <<>>)

ProfileFromScim(body, map) ==
    LET At(field) == ScimFirst(body, KeysFor(ScimDefaults, field, map))
    IN  Profile(At("email"), At("externalId"), At("firstName"), At("lastName"),
                NameOr(At("displayName"), At("firstName"), At("lastName")),
                [k \in {"department", "division", "title", "employeeNumber", "costCenter",
                        "officeLocation", "manager"} |-> At(k)],
                ScimGroups(body, KeysFor(ScimDefaults, "groups", map)), body)

----------------------------------------------------------------------------
(* Microsoft Graph and Google Workspace                                    *)

ProfileFromGraph(user) ==
    LET At(k) == Str(Get(user, k))
    IN  Profile(FirstString(<<At("mail"), At("userPrincipalName")>>), At("id"),
                At("givenName"), At("surname"),
                NameOr(At("displayName"), At("givenName"), At("surname")),
                [department |-> At("department"), title |-> At("jobTitle"),
                 employeeNumber |-> At("employeeId"), officeLocation |-> At("officeLocation"),
                 manager |-> At("manager")],
                AsStringArray(Get(user, "groups")), Object(<<>>))

PrimaryOrganization(orgs) == PrimaryOf(orgs, LAMBDA o : Truthy(Get(o, "primary")))

ManagerAmong(relations) ==
    LET Type(r) == Str(Get(r, "type"))
    IN  FirstSuch(relations,
                  LAMBDA r : Type(r) # Missing /\ Lower(Type(r)) = Text(<<"manager">>), Missing)

ProfileFromGoogle(user) ==
    LET At(v, k) == Str(Get(v, k))
        name == Get(user, "name")
        org == PrimaryOrganization(Get(user, "organizations"))
        relations == IF IsList(Get(user, "relations")) THEN Get(user, "relations").items ELSE <<>>
    IN  Profile(At(user, "primaryEmail"), At(user, "id"),
                At(name, "givenName"), At(name, "familyName"),
                NameOr(At(name, "fullName"), At(name, "givenName"), At(name, "familyName")),
                [department |-> At(org, "department"), title |-> At(org, "title"),
                 costCenter |-> At(org, "costCenter"), officeLocation |-> At(org, "location"),
                 manager |-> At(ManagerAmong(relations), "value")],
                AsStringArray(Get(user, "groups")), Object(<<>>))

AccountActiveFromGoogle(user) == Get(user, "suspended") # Flag(TRUE)

----------------------------------------------------------------------------
(* LDAP: an entry has a dn and attributes                                  *)

LdapDefaults ==
    [email |-> "mail", firstName |-> "givenName", lastName |-> "sn",
     displayName |-> "displayName", externalId |-> "objectGUID", groups |-> "memberOf",
     department |-> "department", division |-> "division", title |-> "title",
     employeeNumber |-> "employeeNumber", costCenter |-> "",
     officeLocation |-> "physicalDeliveryOfficeName", manager |-> "manager"]

\* A bug: an attribute with one value, which is no list, has none.
LdapValuesOfLists(attributes, name) == AsStringArray(Get(attributes, name))

LdapValues(attributes, name) == ValuesIn(Get(attributes, name))

LdapFirst(attributes, name) == First(LdapValues(attributes, name))

\* /^\s*cn\s*=\s*([^,]+)/i : up to the first comma, an escaped one included.
CnFromDn(dn) ==
    LET w == Trim(dn.word)
        commas == {i \in DOMAIN w : w[i] = ","}
        end == IF commas = {} THEN Len(w) ELSE (CHOOSE i \in commas : \A j \in commas : i <= j) - 1
        opens == {i \in DOMAIN w : w[i] = "=" /\ \A j \in 2 .. i - 1 : w[j] = " "}
    IN  IF \E i \in opens : LowerCase(w)[1] = "cn" /\ i < end
        THEN Text(Trim(SubSeq(w, (CHOOSE i \in opens : TRUE) + 1, end))) ELSE Text(w)

ProfileFromLdap(entry, map) ==
    LET Name(field) == IF field \in DOMAIN map THEN map[field] ELSE LdapDefaults[field]
        At(field) == LdapFirst(entry.attributes, Name(field))
        Raw(name) == LdapFirst(entry.attributes, name)
        groups == LdapValues(entry.attributes, Name("groups"))
    IN  Profile(FirstString(<<At("email"), Raw("userPrincipalName")>>),
                FirstString(<<At("externalId"), entry.dn>>), At("firstName"), At("lastName"),
                NameOr(FirstString(<<At("displayName"), Raw("cn")>>), At("firstName"), At("lastName")),
                [department |-> At("department"), division |-> At("division"),
                 title |-> At("title"), costCenter |-> At("costCenter"),
                 employeeNumber |-> FirstString(<<At("employeeNumber"), Raw("employeeID")>>),
                 officeLocation |-> At("officeLocation"),
                 manager |-> IF At("manager") = Missing THEN Missing ELSE CnFromDn(At("manager"))],
                [i \in DOMAIN groups |-> CnFromDn(groups[i])], Object(<<>>))

\* Active Directory disables an account with bit 0x2 of userAccountControl; an entry
\* without one, or with no number there, is active.
AccountActiveFromLdap(entry) ==
    LET uac == LdapFirst(entry.attributes, "userAccountControl")
    IN  IsText(uac) /\ uac.word \in DOMAIN Numerals => (Numerals[uac.word] \div 2) % 2 = 0

----------------------------------------------------------------------------
(* SAML: an assertion has a nameId and attributes                          *)

SamlDefaults ==
    [email |-> <<"claims/emailaddress", "email", "mail", "urn:oid:0.9.2342">>,
     firstName |-> <<"claims/givenname", "givenName", "first_name", "urn:oid:2.5.4.42">>,
     lastName |-> <<"claims/surname", "surname", "sn", "last_name", "urn:oid:2.5.4.4">>,
     displayName |-> <<"claims/displayname", "displayName", "name", "cn">>,
     groups |-> <<"claims/Group", "claims/groups", "claims/role", "groups", "memberOf", "Role">>,
     department |-> <<"claims/department", "department">>, division |-> <<"division">>,
     title |-> <<"title", "jobTitle">>,
     employeeNumber |-> <<"employeeNumber", "employeeId", "urn:oid:2.16.840">>,
     costCenter |-> <<"costCenter">>,
     officeLocation |-> <<"officeLocation", "physicalDeliveryOfficeName">>,
     manager |-> <<"manager", "managerEmail">>]

\* The values of the first key that has any.
SamlValues(attributes, keys) ==
    FirstSuch([i \in DOMAIN keys |-> ValuesIn(Get(attributes, keys[i]))], LAMBDA s : s # <<>>, <<>>)

ProfileFromSaml(assertion, map) ==
    LET Of(field) == SamlValues(assertion.attributes, KeysFor(SamlDefaults, field, map))
        At(field) == First(Of(field))
    IN  Profile(FirstString(<<At("email"), assertion.nameId>>), Str(assertion.nameId),
                At("firstName"), At("lastName"),
                NameOr(At("displayName"), At("firstName"), At("lastName")),
                [k \in {"department", "division", "title", "employeeNumber", "costCenter",
                        "officeLocation", "manager"} |-> At(k)],
                Of("groups"), assertion.attributes)

----------------------------------------------------------------------------
(* OIDC                                                                    *)

OidcDefaults ==
    [email |-> <<"email", "preferred_username", "upn">>,
     firstName |-> <<"given_name", "givenName">>,
     lastName |-> <<"family_name", "familyName", "surname">>,
     displayName |-> <<"name", "given_name">>, externalId |-> <<"sub", "oid">>,
     groups |-> <<"groups", "roles", "wids">>, department |-> <<"department">>,
     division |-> <<"division">>, title |-> <<"jobTitle", "title">>,
     employeeNumber |-> <<"employeeId", "employeeNumber">>, costCenter |-> <<"costCenter">>,
     officeLocation |-> <<"officeLocation", "physicalDeliveryOfficeName">>,
     manager |-> <<"manager", "managerEmail">>]

\* The groups of every candidate claim together, where SAML takes the first.
ProfileFromOidcClaims(claims, map) ==
    LET Keys(field) == KeysFor(OidcDefaults, field, map)
        At(field) == FirstString([i \in DOMAIN Keys(field) |-> Get(claims, Keys(field)[i])])
        groups == [i \in DOMAIN Keys("groups") |-> AsStringArray(Get(claims, Keys("groups")[i]))]
    IN  Profile(At("email"), At("externalId"), At("firstName"), At("lastName"), At("displayName"),
                [k \in {"department", "division", "title", "employeeNumber", "costCenter",
                        "officeLocation", "manager"} |-> At(k)],
                FlattenSeq(groups), claims)

----------------------------------------------------------------------------
(* The canonical SCIM user of scim-schema.ts                               *)

PrimaryAddress(list) == PrimaryOf(list, LAMBDA e : Get(e, "primary") = Flag(TRUE))

ProjectScimUser(user) ==
    LET At(v, k) == Str(Get(v, k))
        Primary(k) == PrimaryAddress(Get(user, k))
        enterprise == Get(user, "enterprise")
        address == Primary("addresses")
        groups == IF IsList(Get(user, "groups")) THEN Get(user, "groups").items ELSE <<>>
        email == FirstString(<<Get(Primary("emails"), "value"), Get(user, "userName")>>)
        extensions == Get(user, "extensions")
        others == IF extensions = Missing THEN <<>> ELSE extensions.fields
        scalars ==
            [department |-> At(enterprise, "department"), division |-> At(enterprise, "division"),
             employeeNumber |-> At(enterprise, "employeeNumber"),
             costCenter |-> At(enterprise, "costCenter"),
             organization |-> At(enterprise, "organization"),
             manager |-> FirstString(<<Get(Get(enterprise, "manager"), "value"),
                                       Get(Get(enterprise, "manager"), "displayName")>>),
             title |-> At(user, "title"), preferredLanguage |-> At(user, "preferredLanguage"),
             locale |-> At(user, "locale"), timezone |-> At(user, "timezone"),
             employeeType |-> At(user, "userType"),
             phoneNumber |-> Str(Get(Primary("phoneNumbers"), "value")),
             streetAddress |-> At(address, "streetAddress"), city |-> At(address, "locality"),
             state |-> At(address, "region"), postalCode |-> At(address, "postalCode"),
             country |-> At(address, "country"),
           extensions |-> IF others = <<>> THEN Missing ELSE extensions]
    IN  [Profile(Missing, At(user, "externalId"), At(Get(user, "name"), "givenName"),
                 At(Get(user, "name"), "familyName"),
                 FirstString(<<Get(user, "displayName"), Get(Get(user, "name"), "formatted")>>),
                 scalars, Strings([i \in DOMAIN groups |-> ScimGroup(groups[i])]),
                 Object(Over([enterprise |-> enterprise], others)))
         EXCEPT !.email = IF email = Missing THEN Text(<<>>) ELSE email]

----------------------------------------------------------------------------
(* The profile of the contracts, which is what an app persists             *)

\* A stored text: null and the empty one are left out.
NonEmpty(v) == IF IsText(v) /\ v.word # <<>> THEN v ELSE Missing

ToContractsProfile(rich, active, source) ==
    [externalId |-> IF NonEmpty(rich.externalId) = Missing THEN rich.email ELSE rich.externalId,
     email |-> NonEmpty(rich.email), displayName |-> NonEmpty(rich.displayName),
     groups |-> rich.groups, active |-> active, source |-> source,
     attributes |-> Over(Compact([firstName |-> NonEmpty(rich.firstName),
                                  lastName |-> NonEmpty(rich.lastName)]), rich.attributes)]
==============================================================================
