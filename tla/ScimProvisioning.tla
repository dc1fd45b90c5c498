--------------------------- MODULE ScimProvisioning ---------------------------
(***************************************************************************)
(* The handlers of /Users and /Groups over a ScimStore, for one tenant:    *)
(* every store operation is bounded to the tenant of the request.          *)
(*                                                                         *)
(* A store operation is one step.  Of the handlers only POST /Users awaits *)
(* two of them, so only a POST is suspended between steps (pc); the others *)
(* parse, write and answer in one.  The refusals (400, 404, 409) write     *)
(* nothing and are the guards of the actions.                              *)
(*                                                                         *)
(* A provider also reads the directory page by page; walk is where it is.  *)
(***************************************************************************)
EXTENDS ScimMessages, FiniteSets

CONSTANTS
    Json,              \* the values bodies are made of
    Calls,             \* slots for POSTs in flight
    UserBodies,        \* bodies of POST and PUT /Users
    UserPatches,       \* bodies of PATCH /Users
    GroupBodies,       \* bodies of POST and PUT /Groups
    GroupPatches,      \* bodies of PATCH /Groups
    Searches,          \* the filters and counts of GET /Users
    MaxUsers, MaxGroups,  \* bounds on the rows ever created
    NoInput, NoGroup, NoWalk

ASSUME ScimConstants ==
    /\ MaxUsers \in Nat /\ MaxGroups \in Nat
    /\ DefaultPageSize \in Nat /\ MaxPageSize \in Nat

ASSUME JsonAssumption ==
    /\ IsJson(Json)
    /\ UserBodies \cup UserPatches \cup GroupBodies \cup GroupPatches \subseteq Json

\* What Number or parseInt makes of a count is an integer, or nothing.
ASSUME SearchesAssumption ==
    \A search \in Searches :
        search.count.is \in {"number", "text"} /\ search.count.whole => search.count.n \in Int

VARIABLES
    users,    \* the rows, in the order of their creation; an id is a position
    groups,   \* likewise; NoGroup where one was deleted
    pc,       \* pc[c] is what a POST awaits
    input,    \* input[c] is the row it would create
    walk,     \* where a provider that reads every page is
    \* History, read by no guard of the code's own steps:
    looked,   \* looked[c]: how many rows there were when the call found nobody
    knew,     \* knew[i]: how many there were when the creator of row i did
    renamed   \* the rows a PUT has given another userName

vars == <<users, groups, pc, input, walk, looked, knew, renamed>>

Init ==
    /\ users = <<>>
    /\ groups = <<>>
    /\ pc = [c \in Calls |-> "idle"]
    /\ input = [c \in Calls |-> NoInput]
    /\ walk = NoWalk
    /\ looked = [c \in Calls |-> 0]
    /\ knew = <<>>
    /\ renamed = {}

----------------------------------------------------------------------------
(* The store                                                               *)

\* Equality of user names, case aside.
SameName(v, w) == Lower(v) = Lower(w)

\* A bug: the comparison is exact.
HasExactly(email) == \E i \in DOMAIN users : users[i].userName = email

HasEmail(email) == \E i \in DOMAIN users : SameName(users[i].userName, email)

Set(old, new) == IF new = Missing THEN old ELSE new

Patched(row, patch) ==
    [row EXCEPT !.active = IF patch.active = Missing THEN @ ELSE patch.active.on,
                !.firstName = Set(@, patch.firstName),
                !.lastName = Set(@, patch.lastName),
                !.displayName = Set(@, patch.displayName)]

ApplyGroupOp(members, op) ==
    CASE op.kind = <<"add">> -> members \cup op.members
      [] op.kind = <<"remove">> -> members \ op.members
      [] OTHER -> op.members

MembersAfter(members, body) ==
    FoldLeft(ApplyGroupOp, members, ParseGroupMemberPatch(Body(body)))

\* A bug: the offset counts from one, as startIndex does.
PaginateFromOne(ids, startIndex, count) == 
    SubSeq(ids, startIndex + 1, AtMost(startIndex + count, Len(ids)))

Paginate(ids, startIndex, count) ==
    SubSeq(ids, startIndex, AtMost(startIndex + count - 1, Len(ids)))

\* listUsers of a store that keeps the rows in the order of their creation.  The store is
\* the consumer's: types.ts asks for a page of the users the query selects and promises
\* no order, without which no walk over pages could meet everyone.
\*
\* The ids it selects.  A filter the handler does not know selects nobody.
Selected(query) ==
    LET everyone == [i \in DOMAIN users |-> i]
        userName == Filter(query, "userName")
        externalId == Filter(query, "externalId")
        Meets(i) == /\ userName # Null => SameName(users[i].userName, userName)
                    /\ externalId # Null => users[i].externalId = externalId
    IN  IF query.filter = Missing THEN everyone
        ELSE IF userName = Null /\ externalId = Null THEN <<>>
        ELSE SelectSeq(everyone, Meets)

Page(query) ==
    LET paging == ParsePagination(query)
    IN  Paginate(Selected(query), paging.startIndex, paging.count)

----------------------------------------------------------------------------
(* POST /Users: handleUsersPost, and handleUsersPostStrict, which answers  *)
(* 409 where the other answers 200.                                        *)

Settle(c) ==
    /\ pc' = [pc EXCEPT ![c] = "idle"]
    /\ input' = [input EXCEPT ![c] = NoInput]
    /\ looked' = [looked EXCEPT ![c] = 0]

Post(c) ==
    /\ pc[c] = "idle"
    /\ Len(users) < MaxUsers
    /\ \E body \in UserBodies :
          /\ EmailOf(Body(body)) # Null
          /\ input' = [input EXCEPT ![c] = UserInput(Body(body))]
    /\ pc' = [pc EXCEPT ![c] = "find"]
    /\ UNCHANGED <<users, groups, walk, looked, knew, renamed>>

PostFind(c) ==
    /\ pc[c] = "find"
    /\ IF HasEmail(input[c].userName) THEN Settle(c)
       ELSE /\ pc' = [pc EXCEPT ![c] = "create"]
            /\ looked' = [looked EXCEPT ![c] = Len(users)]
            /\ UNCHANGED input
    /\ UNCHANGED <<users, groups, walk, knew, renamed>>

PostCreate(c) ==
    /\ pc[c] = "create"
    /\ Len(users) < MaxUsers   \* a bound, as in Post
    /\ users' = Append(users, input[c])
    /\ knew' = Append(knew, looked[c])
    /\ Settle(c)
    /\ UNCHANGED <<groups, walk, renamed>>

\* The store rejects, or the process dies: the provider will try again.
Fail(c) ==
    /\ pc[c] # "idle"
    /\ Settle(c)
    /\ UNCHANGED <<users, groups, walk, knew, renamed>>

----------------------------------------------------------------------------
(* PUT, PATCH and DELETE /Users/:id                                        *)

Write(i, row) ==
    /\ users' = [users EXCEPT ![i] = row]
    /\ UNCHANGED <<groups, pc, input, walk, looked, knew>>

Put(i, body) ==
    /\ EmailOf(Body(body)) # Null
    /\ Write(i, UserInput(Body(body)))
    /\ renamed' = IF SameName(users[i].userName, EmailOf(Body(body))) THEN renamed
                  ELSE renamed \cup {i}

Patch(i, body) ==
    /\ Write(i, Patched(users[i], ParseUserPatch(Body(body))))
    /\ UNCHANGED renamed

Delete(i) ==
    /\ Write(i, [users[i] EXCEPT !.active = FALSE])
    /\ UNCHANGED renamed

----------------------------------------------------------------------------
(* /Groups                                                                 *)

WriteGroups(new) ==
    /\ groups' = new
    /\ UNCHANGED <<users, pc, input, walk, looked, knew, renamed>>

PostGroup ==
    /\ Len(groups) < MaxGroups
    /\ \E body \in GroupBodies :
          /\ GroupInput(Body(body)).displayName # Null
          /\ WriteGroups(Append(groups, GroupInput(Body(body))))

Present(g) == g \in DOMAIN groups /\ groups[g] # NoGroup

PutGroup(g, body) ==
    /\ Present(g)
    /\ GroupInput(Body(body)).displayName # Null
    /\ WriteGroups([groups EXCEPT ![g] = GroupInput(Body(body))])

PatchGroup(g, body) ==
    /\ Present(g)
    /\ WriteGroups([groups EXCEPT ![g].members = MembersAfter(@, body)])

DeleteGroup(g) ==
    /\ Present(g)
    /\ WriteGroups([groups EXCEPT ![g] = NoGroup])

----------------------------------------------------------------------------
(* GET /Users, from page to page                                           *)

WalkBegin ==
    /\ walk = NoWalk
    /\ \E search \in Searches :
          walk' = [filter |-> search.filter, count |-> search.count, next |-> 1,
                   met |-> {}, there |-> DOMAIN users, over |-> FALSE]
    /\ UNCHANGED <<users, groups, pc, input, looked, knew, renamed>>

\* The provider goes on from the last one it was given, until startIndex is past
\* totalResults or a page is empty.
WalkPage ==
    /\ walk # NoWalk
    /\ ~walk.over
    /\ LET query == [filter |-> walk.filter, count |-> walk.count,
                     startIndex |-> [is |-> "number", whole |-> TRUE, n |-> walk.next]]
           page == Page(query)
           next == walk.next + Len(page)
       IN  walk' = [walk EXCEPT !.next = next,
                                !.met = @ \cup ToSet(page),
                                !.over = page = <<>> \/ next > Len(Selected(query))]
    /\ UNCHANGED <<users, groups, pc, input, looked, knew, renamed>>

OnUsers ==
    \/ \E c \in Calls : Post(c) \/ PostFind(c) \/ PostCreate(c) \/ Fail(c)
    \/ \E i \in DOMAIN users :
          \/ \E body \in UserBodies : Put(i, body)
          \/ \E body \in UserPatches : Patch(i, body)
          \/ Delete(i)

OnGroups ==
    \/ PostGroup
    \/ \E g \in DOMAIN groups :
          \/ \E body \in GroupBodies : PutGroup(g, body)
          \/ \E body \in GroupPatches : PatchGroup(g, body)
          \/ DeleteGroup(g)

Walking == WalkBegin \/ WalkPage

Next == OnUsers \/ OnGroups \/ Walking

Spec == Init /\ [][Next]_vars

----------------------------------------------------------------------------
(* Properties                                                              *)

\* users.ts: "RECONCILED BY EMAIL (case-insensitive, never a duplicate)".  The store
\* promises no unique index, and this is what remains of it: two rows of one email
\* come from two POSTs neither of which had created when the other looked, or from a
\* PUT that gave one of them its name.
DuplicatesOverlap ==
    \A i, j \in DOMAIN users :
        /\ i < j
        /\ SameName(users[i].userName, users[j].userName)
        /\ {i, j} \cap renamed = {}
        => knew[j] < i

\* A provider that reads the directory page by page, at any count but 0, while users
\* are created, renamed and deprovisioned under it, is shown everyone who was there when
\* it began: one it missed it would create again, or drop.
WalkMissesNobody ==
    walk # NoWalk /\ walk.over /\ walk.filter = Missing /\ PageSize(walk.count) > 0 =>
        walk.there \subseteq walk.met

SaysActive(op) ==
    IF Kind(op) \notin Verbs THEN Missing
    ELSE CASE Path(op) = <<>> -> Get(Get(op, "value"), "active")
           [] Path(op) = <<"active">> ->
                 IF Kind(op) = <<"remove">> THEN Flag(FALSE) ELSE Get(op, "value")
           [] OTHER -> Missing

\* The last thing a PATCH says about active.
LastSaid(body) ==
    LET ops == Operations(Body(body))
        speaking == {n \in DOMAIN ops : SaysActive(ops[n]) # Missing}
    IN  IF speaking = {} THEN Missing
        ELSE SaysActive(ops[CHOOSE n \in speaking : \A m \in speaking : m <= n])

Affirms(v) == v \in {Flag(TRUE), Text(<<"true">>), Text(<<"True">>)}

\* "Deprovisioning = DEACTIVATION (never deletion)": a user never leaves the
\* directory, and one who was deactivated gets back in only by a PATCH whose last word
\* on active is true, or by a PUT of a resource that does not say otherwise.  A POST
\* that reconciles, a rename or a PATCH of names never does it.
DeprovisionedStays ==
    [][\A i \in DOMAIN users :
          /\ i \in DOMAIN users'
          /\ ~users[i].active /\ users'[i].active =>
                \/ \E body \in UserPatches : Patch(i, body) /\ Affirms(LastSaid(body))
                \/ \E body \in UserBodies :
                      /\ Put(i, body)
                      /\ \/ Get(Body(body), "active") = Missing
                         \/ Affirms(Get(Body(body), "active"))]_vars

\* What an operation says of a member: "in", "out", or nothing.
SaysOf(op, m) ==
    LET listed == m \in ValuesOf(Get(op, "value"))
        targeted == Targets(Path(op)) /\ Path(op)[1] = "members["
    IN  IF targeted
        THEN IF Kind(op) = <<"remove">> /\ <<Path(op)[2]>> = m THEN "out" ELSE "silent"
        ELSE IF Path(op) \notin {<<>>, <<"members">>} \/ Kind(op) \notin Verbs THEN "silent"
        ELSE CASE Kind(op) = <<"replace">> -> IF listed THEN "in" ELSE "out"
               [] Kind(op) = <<"add">> -> IF listed THEN "in" ELSE "silent"
               [] Kind(op) = <<"remove">> -> IF listed THEN "out" ELSE "silent"

\* Does the operation name the members attribute, or carry a list of members?
OnMembers(op) ==
    \/ Path(op) # <<>> /\ Head(Path(op)) \in {"members", "members["}
    \/ Path(op) = <<>> /\ IsList(Get(op, "value"))

\* A PATCH of members leaves in the group whom its last operation on them puts there,
\* whatever the order of its additions, removals and replacements, and moves nobody
\* no operation speaks of.
MembersAreLastWord ==
    \A g \in DOMAIN groups, body \in GroupPatches :
       LET ops == Operations(Body(body))
           before == groups[g].members
           after == MembersAfter(before, body)
           Speaking(m) == {n \in DOMAIN ops : SaysOf(ops[n], m) # "silent"}
           Final(m) == ops[CHOOSE n \in Speaking(m) : \A k \in Speaking(m) : k <= n]
       IN  Present(g) /\ (\A n \in DOMAIN ops : OnMembers(ops[n])) =>
             \A m \in before \cup after
                        \cup UNION {ValuesOf(Get(ops[n], "value")) : n \in DOMAIN ops} :
                m \in after <=> IF Speaking(m) = {} THEN m \in before
                               ELSE SaysOf(Final(m), m) = "in"

\* validate.ts: "round-trip: the output of toScimUser must pass validation".  Whatever
\* sequence of requests made a row, what is sent back of it passes the project's own
\* schema.  The code does not keep this: a PATCH stores a displayName as it comes, the
\* empty one too, and a resource with an empty displayName does not pass.
RenderedConforms ==
    /\ \A row \in ToSet(users) : UserErrors(ToScimUser(row)) = {}
    /\ \A g \in DOMAIN groups : Present(g) => GroupErrors(ToScimGroup(groups[g])) = {}

\* What remains of it: a rendered group always passes the schema, and a rendered user
\* fails it in no attribute but displayName, and only where the row's displayName is
\* empty or blank.
OnlyBlankNamesOffSchema ==
    /\ \A row \in ToSet(users) :
          \/ UserErrors(ToScimUser(row)) = {}
          \/ /\ UserErrors(ToScimUser(row)) = {"displayName"}
             /\ IsText(row.displayName) /\ Trim(row.displayName.word) = <<>>
    /\ \A g \in DOMAIN groups : Present(g) => GroupErrors(ToScimGroup(groups[g])) = {}

\* groups.ts of PATCH /Groups/:id: "member management (add/remove/replace, RFC 7644
\* 3.5.2)".  An operation on another attribute of the group, in the form without a path
\* too, moves no member.
RenameKeepsMembers ==
    [][\A g \in DOMAIN groups, body \in GroupPatches :
          /\ PatchGroup(g, body)
          /\ \A n \in DOMAIN Operations(Body(body)) : ~OnMembers(Operations(Body(body))[n])
          => groups'[g].members = groups[g].members]_vars
==============================================================================
