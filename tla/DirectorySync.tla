---------------------------- MODULE DirectorySync ----------------------------
(***************************************************************************)
(* A person of a directory, and what an app keeps of them.                 *)
(*                                                                         *)
(* The person reaches the app by a push or a login (any of six payloads)   *)
(* or by a pull of adapter-directory-ldap.  Each time iam-mapping projects *)
(* the payload, evaluates the rules of the tenant on the projection, and   *)
(* the app keeps the profile of the contracts, cut down by pii to the      *)
(* fields it may keep.  When groups or rules change, the roles are         *)
(* evaluated again from what is kept, the payload being gone.              *)
(*                                                                         *)
(* The loop around these calls is the app's; it is the one of the guide    *)
(* (docs/guide/en/13-recipe-ldap.md) and is marked external in the map.    *)
(***************************************************************************)
EXTENDS IdpShapes, MappingRules, PiiProfiles

CONSTANTS
    People,      \* what the directory may say of the person
    GroupSets,   \* what the app may make of their groups
    RuleSets,    \* what an admin may make of the rules
    Allowances,  \* the fields an app may keep
    MaxEntries,  \* maxUsers: entries a pull reads at most
    NoRow, NoPerson

ASSUME MaxEntriesAssumption == MaxEntries \in Nat
ASSUME PeopleAssumption == \A p \in People : IsPerson(p)
ASSUME GroupSetsAssumption == \A groups \in GroupSets : IsFiniteSet(groups)
ASSUME RuleSetsAssumption == \A rs \in RuleSets : IsRuleSet(rs) /\ ReadsProfile(rs)

VARIABLES
    person,   \* the directory
    rules,    \* the rules of the tenant
    allowed,  \* the fields this app keeps
    row,      \* the profile it has kept, or NoRow
    roles,    \* the roles it has given
    seen,     \* the person row was made from, with the groups of the app since
    pull,     \* the pull in progress
    open      \* a client of it was made and not unbound

vars == <<person, rules, allowed, row, roles, seen, pull, open>>

----------------------------------------------------------------------------
(* One payload                                                             *)

Sources == {"scim", "scimUser", "graph", "google", "saml", "oidc"}

ProfileFrom(source, p) ==
    CASE source = "scim"     -> ProfileFromScim(AsScim(p), NoMap)
      [] source = "scimUser" -> ProjectScimUser(AsScimUser(p))
      [] source = "graph"    -> ProfileFromGraph(AsGraph(p))
      [] source = "google"   -> ProfileFromGoogle(AsGoogle(p))
      [] source = "saml"     -> ProfileFromSaml(AsSaml(p), NoMap)
      [] source = "oidc"     -> ProfileFromOidcClaims(AsOidc(p), NoMap)

ActiveFrom(source, p) == source # "google" \/ AccountActiveFromGoogle(AsGoogle(p))

\* The payloads the directory can give, each projected once.
Projected == [source \in Sources |-> [p \in People |-> ProfileFrom(source, p)]]

Keep(rich, active, source) ==
    /\ row' = ToContractsProfile(MinimizeProfile(rich, allowed), active, source)
    /\ roles' = RolesOf(rich, rules)

Receive(source) ==
    /\ Keep(Projected[source][person], ActiveFrom(source, person), source)
    /\ seen' = person
    /\ UNCHANGED <<person, rules, allowed, pull, open>>

----------------------------------------------------------------------------
(* Again from what is kept                                                 *)

StoredProfile(kept) ==
    LET At(k) == IF k \in DOMAIN kept.attributes THEN kept.attributes[k] ELSE Null
    IN  ProfileFromParts([email |-> kept.email, externalId |-> kept.externalId,
                          firstName |-> At("firstName"), lastName |-> At("lastName"),
                          displayName |-> OrNull(kept.displayName),
                          attributes |-> kept.attributes, groups |-> kept.groups])

ChangeGroups(groups) ==
    /\ row # NoRow
    /\ groups # row.groups
    /\ row' = [row EXCEPT !.groups = groups]
    /\ seen' = [seen EXCEPT !.groups = groups]
    /\ roles' = RolesOf(StoredProfile(row'), rules)
    /\ UNCHANGED <<person, rules, allowed, pull, open>>

ChangeRules(rs) ==
    /\ rs # rules
    /\ rules' = rs
    /\ roles' = IF row = NoRow THEN roles ELSE RolesOf(StoredProfile(row), rs)
    /\ UNCHANGED <<person, allowed, row, seen, pull, open>>

----------------------------------------------------------------------------
(* A pull: fetchEntries or checkConnection of a new client each, and the   *)
(* loop of the app over what was fetched.                                  *)

NoPull == [call |-> "none", at |-> "idle", found |-> <<>>, answer |-> "none"]

StringifyScalar(v) ==
    CASE v.is = "binary"             -> Text(v.base64)
      [] v.is \in {"text", "number"} -> Text(v.word)
      [] v.is = "flag"               -> Text(IF v.on THEN <<"true">> ELSE <<"false">>)
      [] OTHER                       -> Missing

NormalizeValue(v) ==
    LET out == TextsOf([i \in DOMAIN v.items |-> StringifyScalar(v.items[i])])
    IN  IF ~IsList(v) THEN StringifyScalar(v) ELSE IF out = <<>> THEN Missing ELSE List(out)

NormalizeEntry(entry) ==
    [dn |-> IF IsText(entry.dn) THEN entry.dn ELSE Text(<<>>),
     attributes |-> Object(Compact([k \in DOMAIN entry.attributes.fields |->
                                      NormalizeValue(entry.attributes.fields[k])]))]

PullStart(call) ==
    /\ pull.at = "idle"
    /\ pull' = [NoPull EXCEPT !.call = call, !.at = "bind"]
    /\ open' = TRUE
    /\ UNCHANGED <<person, rules, allowed, row, roles, seen>>

Binds ==
    /\ pull.at = "bind"
    /\ pull' = IF pull.call = "fetch" THEN [pull EXCEPT !.at = "search"]
               ELSE [pull EXCEPT !.at = "unbind", !.answer = "true"]
    /\ UNCHANGED <<person, rules, allowed, row, roles, seen, open>>

\* A bug: no finally.
BindFailsUnreleased ==
    /\ pull.at = "bind"
    /\ pull' = [pull EXCEPT !.at = "idle", !.answer = IF pull.call = "fetch" THEN "throws" ELSE "false"]
    /\ UNCHANGED <<person, rules, allowed, row, roles, seen, open>>

\* Refused, or out of time.
BindFails ==
    /\ pull.at = "bind"
    /\ pull' = [pull EXCEPT !.at = "unbind", !.answer = IF pull.call = "fetch" THEN "throws" ELSE "false"]
    /\ UNCHANGED <<person, rules, allowed, row, roles, seen, open>>

LdapEntries == [p \in People |-> NormalizeEntry(AsLdapEntry(p))]

\* In any order, cut by the directory at sizeLimit or not.
Answers ==
    LET theirs == [entry |-> LdapEntries[person], of |-> person]
        other  == [entry |-> NormalizeEntry(ServiceEntry), of |-> NoPerson]
    IN  {<<theirs, other>>, <<other, other, theirs>>, <<other>>}

Searches ==
    /\ pull.at = "search"
    /\ \E answer \in Answers :
         LET cut == SubSeq(answer, 1, IF Len(answer) < MaxEntries THEN Len(answer) ELSE MaxEntries)
         IN  pull' = [pull EXCEPT !.at = "unbind", !.answer = "entries", !.found = cut]
    /\ UNCHANGED <<person, rules, allowed, row, roles, seen, open>>

SearchFails ==
    /\ pull.at = "search"
    /\ pull' = [pull EXCEPT !.at = "unbind", !.answer = "throws"]
    /\ UNCHANGED <<person, rules, allowed, row, roles, seen, open>>

\* Whether it succeeds or not.
Unbinds ==
    /\ pull.at = "unbind"
    /\ pull' = [pull EXCEPT !.at = IF pull.found = <<>> THEN "idle" ELSE "store"]
    /\ open' = FALSE
    /\ UNCHANGED <<person, rules, allowed, row, roles, seen>>

\* The app refuses an entry without an email.
Stores ==
    /\ pull.at = "store"
    /\ LET head == Head(pull.found)
           rich == ProfileFromLdap(head.entry, NoMap)
       IN  IF rich.email.word = <<>> THEN UNCHANGED <<row, roles, seen>>
           ELSE /\ Keep(rich, AccountActiveFromLdap(head.entry), "ldap")
                /\ seen' = head.of
    /\ pull' = [pull EXCEPT !.found = Tail(@), !.at = IF Len(pull.found) = 1 THEN "idle" ELSE "store"]
    /\ UNCHANGED <<person, rules, allowed, open>>

----------------------------------------------------------------------------
Edit(p) ==
    /\ p # person
    /\ person' = p
    /\ UNCHANGED <<rules, allowed, row, roles, seen, pull, open>>

Init ==
    /\ person \in People /\ rules \in RuleSets /\ allowed \in Allowances
    /\ row = NoRow /\ roles = {} /\ seen = NoPerson
    /\ pull = NoPull /\ open = FALSE

\* The awaits of a call of the source: each ends, by its client's timeout if not before.
Awaited == Binds \/ BindFails \/ Searches \/ SearchFails \/ Unbinds

Next ==
    \/ \E p \in People : Edit(p)
    \/ \E source \in Sources : Receive(source)
    \/ \E groups \in GroupSets : ChangeGroups(groups)
    \/ \E rs \in RuleSets : ChangeRules(rs)
    \/ \E call \in {"fetch", "check"} : PullStart(call)
    \/ Awaited
    \/ Stores

Spec == Init /\ [][Next]_vars /\ WF_vars(Awaited)

----------------------------------------------------------------------------
(* What must hold                                                          *)

\* What a person's profile should be, said without any payload.
Fields == {"title", "department", "manager"}

\* Three things come out differently by where they come from.  projectScimUser leaves the
\* email in the case it was given in.  Where the directory displays no name, profile.ts makes
\* one of the first and the last, of the first alone for OIDC, and projectScimUser makes none.
\* And profileFromLdap has no more of a manager than the name in the DN, where the others
\* have the email.
MailTold(p, source) == IF source = "scimUser" THEN Shouted(p.mail) ELSE p.mail

NameTold(p, source) ==
    IF IsText(p.display) THEN p.display
    ELSE IF source = "scimUser" THEN Missing
    ELSE IF source = "oidc" THEN p.first
    ELSE Joined(p.first, p.last, Missing)

ManagerTold(p, source) == IF source = "ldap" THEN p.managerName ELSE p.manager

FieldTold(p, k, source) == IF k = "manager" THEN ManagerTold(p, source) ELSE p[k]

Canonical(p, source) ==
    Profile(MailTold(p, source), p.id, p.first, p.last, NameTold(p, source),
            [k \in Fields |-> FieldTold(p, k, source)], Sequence(p.groups), Object(<<>>))

\* Whichever provider a person comes through, and however it spells them, the app keeps the
\* same names, groups, title and department of them, and the email, the displayed name and
\* the manager as above: so rows of two providers differ in nothing else, and in the manager
\* only where one of them came from Active Directory.  Where the provider says whether the
\* account is active, the row says the same.
SameWhateverSource ==
    row # NoRow =>
        LET At(k) == IF k \in DOMAIN row.attributes THEN row.attributes[k] ELSE Missing
            Kept(k, v) == IF k \in allowed THEN v ELSE Missing
        IN  /\ row.email = MailTold(seen, row.source)
            /\ row.groups = seen.groups
            /\ \A k \in Fields : At(k) = Kept(k, FieldTold(seen, k, row.source))
            /\ At("firstName") = Kept("firstName", seen.first)
            /\ At("lastName") = Kept("lastName", seen.last)
            /\ row.displayName = Kept("displayName", NameTold(seen, row.source))
            /\ row.source \in {"ldap", "google"} => row.active = seen.active

\* What rules read besides the groups, which are always kept.
ReadBy(rs) ==
    {c.key : c \in {d \in UNION {r.all \cup r.any : r \in rs} : d.source = "ATTRIBUTE"}}

\* The roles given are those of the rules that match the person, up to the first that
\* stops, whether they were evaluated from a payload or again from what is kept, if the app
\* keeps what the rules read.  And they are those of any other provider too, unless a rule
\* reads the manager, of whom Active Directory has a name and the others an email.
RolesDeserved ==
    row # NoRow /\ ReadBy(rules) \subseteq allowed =>
        \A source \in Sources \cup {"ldap"} :
            source = row.source \/ "manager" \notin ReadBy(rules) =>
                roles = DeservedRoles(Canonical(seen, source), rules)

\* Keeping less of a person never gives them a role, as long as no rule stops the others:
\* evaluated again from a profile cut down by minimizeProfile, the rules give no role that
\* the whole of it would not earn.
MinimisedAddsNothing ==
    row # NoRow /\ (\A r \in rules : ~r.stopOnMatch) =>
        roles \subseteq RolesOf(Canonical(seen, row.source), rules)

\* fetchEntries and checkConnection come to an end, and whatever failed on the way the
\* client they made has been unbound.
PullSettles == (pull.at \in {"bind", "search", "unbind"}) ~> (pull.at \in {"idle", "store"} /\ ~open)
==============================================================================
