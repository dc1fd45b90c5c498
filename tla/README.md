# A TLA+ verification project for Kengela

Kengela is a TypeScript library for identity and access: it authenticates, keeps
sessions, decides every access, provisions users and protects personal data. Its
parts are ports (`packages/contracts`) and adapters, composed by the application.
There is no process of its own: every operation is an asynchronous method, called
concurrently by the requests of one or several servers that share a database. What
is hard in it is therefore what happens between two `await`s.

This directory models those operations in TLA+, checks them with TLC, and proves
their invariants with TLAPS.

## The system

| Component | State | Operations | Interacts with |
|---|---|---|---|
| Session stores (`adapter-persistence-prisma`, `connector-translog`) | the session table | create, get, rotate, revoke, revokeAllForUser, listForUser | clock, database; the principal of a request comes from a handle |
| Authorization core (`authz-core`: grants, scopes, relations) | none | `isAuthorized` and its parts | called by the decision points |
| Decision points (`pdp.ts`, `policy-pdp.ts`) | none of their own; reads grants and policies, writes the decision log | check, checkMany | repositories, relation resolver, expression engine, log sink, clock |
| NestJS guard | none | canActivate | decision point; annotations of routes |
| Authorization repositories and row mapping | grants, roles, policies (tables) | loadGrantsForUser, loadRole, loadPolicies | database |
| Key management | the master key | encrypt, decrypt | called by MFA and crypto-shredding |
| Crypto-shredding | the subject-key table | encryptFor, decryptFor, eraseSubject | key management, database |
| PII access log | the log table | record | database |
| MFA | the secret table, the challenge table | enroll, challenge, verify | key management, clock, database |
| Credential authentication | account and user tables (read) | authenticate, authenticateCrossTenant | hasher, credential store |
| TransLog connector | user roles, role permissions (read) | loadGrantsForUser, loadRole | database |
| Better Auth adapter | none | verifySession | an external service |
| LDAP directory source | a client per call | fetchEntries, checkConnection, toRecords | a directory |
| CEL expression engine | a cache of compiled expressions | evaluateBoolean | called by the layered decision point |
| SCIM server | users and groups, behind `ScimStore` | POST, GET, PUT, PATCH, DELETE of Users and Groups | database; an identity provider that retries and reads page by page |
| IAM mapping | none | seven projections of a payload, the rules engine, the projection to what is stored | called on provisioning, login and synchronisation |
| PII operators | none | classify, minimise, redact, retention | pure; minimisation decides what of a profile is kept |

What makes each of them correct, and hard:

- **Session stores.** A session is accepted under one token at a time; rotation
  changes the token and nothing else; revocation is final, but for a rotation that is
  under way; nothing is served after expiry. Hard: rotation is a read, a delete and an insert, raced by other
  rotations, revocations, the clock, failures and crashes, with a transaction or
  without one.
- **Decision points and guard.** No access without a grant, across tenants, against
  a denial, or past a gate. Hard: grants and policies are read at
  two instants while they are edited; the clock is read before both; errors must
  close.
- **Crypto-shredding.** An erased subject's fields are unreadable for good, and
  nobody else's are lost. Hard: getOrCreateKey is a read and a create.
- **MFA.** A challenge is good for one attempt, for its account; a replaced secret is
  dead; a right code is not refused. Hard: save and consume are two statements each.
- **SCIM.** One user per email, as far as the code sees to it; deprovisioning
  deactivates; what is stored renders to the schema; a walk through the pages meets everyone. Hard: find and create race;
  `active` comes as a boolean, a text or not at all; a PATCH is a list of operations
  in three forms; the directory changes under the pages.
- **Credential authentication, TransLog grants.** Two reads that need not agree, and one
  email in several tenants.
- **Mapping, PII, LDAP.** Seven projections of one person should agree, and rules
  evaluated again from what is kept should give what they gave before. Hard: lists or
  texts, blanks, priorities and ties, fields that were not kept, a pull that fails.

## How the code is modelled

One action is the code from one `await` to the next. `pc[c]` names the await at which
call `c` is suspended; between two steps of a call every other call may run, the
clock may move and administrators may edit tables. Call slots are reused: a settled
call is `idle` again, so histories of any length are covered with few slots.

- A **database statement** is atomic and takes effect some time between the step that
  sends it and the one that continues. Where the answer is used later, the step that
  takes effect and the one that resumes are two (`GetFind`, `GetResume`).
- **Failure**: `Fail` lets any suspended call reject or die at any await. Since the
  effect of a statement is a step before the resumption, this includes a crash after
  the statement took effect and before its answer was seen.
- **`$transaction`** is what PostgreSQL makes of it at READ COMMITTED, its default, since
  the code names no level. Its two statements are two steps. The row the first has deleted
  is locked (`Locked`): whoever reads still sees it, and whoever deletes waits for it. The
  row the second inserts is there for others from the commit on. A `deleteMany`
  that began before the commit deletes the rows it found when it began, as far as they are
  still there when their locks are free, and no other (`RevokeAll`, `RevokeAllDelete`).
- **Random tokens, keys, secrets and challenge ids** are fresh: `randomBytes` never
  repeats. In the `.cfg` files they are model values.
- **Encryption is ideal** (`KeyManagement`): what is sealed for a tenant and a context
  opens there and nowhere else.
- **The clock** moves in units of the time to live (sessions), of the expiry of a
  grant (checks) or of a TOTP step (MFA).
- **History variables** (listed as such in each module) record what happened; no
  guard of the code's own steps reads them, with the exception that the environment
  only presents tokens, challenges and ciphertexts that somebody was given.

**Fairness** is stated where the code gives a reason for it, which is in `DirectorySync`
alone: `WF_vars(Awaited)`, the awaits of one call of the LDAP source. Each of them ends,
because `createLdapClientFactory` gives the client a `timeout` and a `connectTimeout`
(`ldap-directory-source.ts:241-252`); whether it answers or fails is left open. An app that
injects a factory of its own, or sets `timeoutMs` to 0, has no such reason. With it
`PullSettles` is a liveness property: a call ends, with its client unbound. Nowhere else
is anything promised to end: the code has no loops, locks or queues, and the progress of
a call depends on nothing but its database, which no timeout bounds.
"Deadlock" is checked on every run: a call can always start, settle or fail.

A **text** is a sequence of syllables (`Values`), which is what trimming, lower-casing,
joining and searching need; the values of `JSON.parse` are tagged records, so that every
narrowing of the code (`asRecord`, `str`, `typeof v === 'string'`) is a test the model makes too.

## The modules

**Sessions.** `SessionLedger` is the abstract promise: a login opens an entry that holds
the one accepted token and the identity it was opened with; reissuing replaces the
token; ending is final. `SessionStore` is both implementations, with two constants for
what differs: `HasTransaction` (does the client offer `$transaction`) and `HasCtxColumn`
(Prisma stores `ctx`; TransLog drops it and answers `createdAt` for `authTime`). Each
method is an action per await: `Rotate`, `RotateFind`, `RotateResume`, then `RotateDelete` and
`RotateInsert`, the second of which commits where there is a transaction; `RotateConflict` is the
rejection of `delete` when the row is gone. `revokeAllForUser` is one statement with a
beginning and an end, since it may have to wait in between. `Sweep` is the deferred cleanup the comment of `get`
speaks of. The refinement mapping names a session by its first token: `LedgerOf`.

**Authorization.** `Authz` has the pure operators: scopes, relations, permission
patterns, `IsAuthorized`, the verdict of a set of rules, and the mapping of rows (what
is not understood is dropped). A condition is reduced to what it reads: the freshness
of the authentication, the risk, the unit; evaluating one whose variable is missing
is an error. `Pdp` is `check` of both decision points, one action per await
(`Begin`, `Relate`, `AnswerGrants`, `AnswerPolicies`, `Record`; the log of the last is optional, and
what it holds is left out), with the administrators'
`EditGrant` and `EditPolicy` and the clock beside them. `AuthzGuard` composes it with
the annotations of routes, and with services that call the decision point themselves.

**Crypto-shredding.** `SubjectKeys`: `Encrypt`, `EncryptFind`, `EncryptCreate` or
`EncryptConflict`, `EncryptResume`; `Decrypt`, `DecryptFind`, `DecryptResume`; `Erase`,
`EraseDelete`. `HasUnique` says whether the key table has the unique constraint the
guide prescribes (`docs/guide/en/15-recipe-pii-compliance.md`); the ports do not ask for it,
and without it two first encryptions can make two keys (debt 5 of the Prisma
adapter). `HasKms` says whether keys are wrapped.

**MFA.** `MfaChallenge`: `Enroll`, `EnrollDelete`, `EnrollCreate`, `EnrollResume`; `Challenge`,
`ChallengeCreate`; `Verify`, `VerifyFind`, `VerifyDelete` or `VerifyConflict`,
`VerifyResume`, `VerifySecret`, `VerifyCompare`. A code is the pair of the secret and
the time step it was read off at, which is what `TotpVerifier` compares (its window is
the current step). `delete` of a missing row rejects, as Prisma's does.

**Signing in.** `Credentials`: `Authenticate` (in a tenant, or `Everywhere` for
`authenticateCrossTenant`), `ReadAccounts`, `ReadUsers`, then one `Compare` per record or
`CompareDecoy`, and `Decide`. The Prisma and TransLog credential stores read alike, and
one module is both. `LoadGrantsForUser`, `LoadRole`, `ReadRole`, `ReadRights` are the
TransLog authorization repository. An account may be of a user of another tenant:
`findByEmail` drops it, since it asks for the user in its own tenant, and `findByEmailAcrossTenants`
does not. An admin edits accounts, users and role permissions
between any two steps; `seen` records what was true at some moment of the call and who could
have signed in at every moment, which is what the properties compare the outcome with.

**SCIM.** `ScimMessages` is `serialize.ts` and `validate.ts`: bodies, PATCH as a fold over
its operations, filters and pagination, rendering, and the schema a rendered resource is
held to. `ScimProvisioning` is the handlers over a store behind `ScimStore`. The store is the
consumer's, so its answers are external: the order of creation, in which `listUsers` is taken to page, is
what a walk needs and `types.ts` does not promise: `Post`, `PostFind`, `PostCreate`, the only handler
with two store calls; `Put`, `Patch`, `Delete`; the same for groups; and `WalkBegin`,
`WalkPage`, a provider that goes through `GET /Users` page by page. Refusals write
nothing and are the guards.

**From a directory to roles.** `Profiles` has the seven projections of `profile.ts` and
`scim-schema.ts`, `MappingRules` the rules engine with `safe-regex.ts` (which pattern matches what is
the constant `Accepts`), `PiiProfiles` `minimizeProfile`. `IdpShapes` says how each kind of
provider spells one person: it is not code, and is marked external. The manager of a person is
two things, an email, which six providers give, and the name in a DN, which is all that
`profileFromLdap` reads (`profile.ts:442-443`). `DirectorySync` composes
them: `Receive` (a push or a login), `ChangeGroups` and `ChangeRules` (evaluated again
from what is kept), and a pull through the LDAP source, one action per await (`PullStart`,
`Binds` or `BindFails`, `Searches` or `SearchFails`, `Unbinds`, `Stores`). The loop around these calls
is an application's; it is the one of `docs/guide/en/13-recipe-ldap.md`.

The operators whose comment begins "A bug:" are variants of an action, with the
mistake the comment names; they are used by no specification, only to see that a
property would notice.

## The runs

| Run | Module | Expect | What it shows |
|---|---|---|---|
| `sessions_transaction` | `MCSessionStore` | pass | racing calls keep every promise and refine the ledger; only a session that is being rotated outlives revokeAllForUser |
| `sessions_killswitch` | `MCSessionStore` | violation | a session that is being rotated survives revokeAllForUser, with transactions too |
| `authz_guard` | `MCAuthzGuard` | pass | no access without a standing grant, across tenants, against a denial or past a gate; handlers only past their annotation |
| `pdp_phantom` | `MCAuthzGuard` | violation | dropping an unreadable rule can turn a refusal into an allow |
| `subject_keys` | `MCSubjectKeys` | pass | erasure is final, nothing else is lost, fields stay apart |
| `mfa_challenge` | `MCMfaChallenge` | pass | one comparison per challenge, for its account; replaced secrets are dead; a right code passes |
| `credentials` | `MCCredentials` | pass | whoever is let in was valid, whoever was valid all along is not refused, one compare per account found whatever comes of it, grants are those of a role the user held |
| `scim_provisioning` | `MCScimProvisioning` | pass | duplicates need an overlap or a PUT; only a word of a provider reactivates; the last operation on a member wins; what is stored renders to the schema but for a blank displayName; a walk misses nobody |
| `scim_render` | `MCScimProvisioning` | violation | a displayName that a PATCH empties is rendered against the project's own schema |
| `scim_rename` | `MCScimProvisioning` | violation | a rename in the form without a path empties the group |
| `directory` | `MCDirectorySync` | pass | the same profile from any provider, but for what `MailTold`, `NameTold` and `ManagerTold` say, the roles the rules promise, minimisation adds none, no LDAP client left open |
| `ldap_comma` | `MCDirectorySync` | violation | a group whose name has a comma comes through LDAP under another name |

### Bounds, and why they are enough

- **Sessions**: two calls in flight, three tokens, two users, one unit of time. Two
  calls race every pair of methods at every pair of awaits; three tokens let two
  rotations of one session overlap, or a chain of two rotations run; a time to
  live of one makes every row expire while a call is suspended.
- **Checks**: one check at a time, because checks share nothing: they read tables and
  write log entries of their own. Two edits make a table change twice between two awaits;
  the grants are a plain one, one with an expiry and one with an unknown scope; the policies a gate, a
  denial on risk and a step-up on staleness. The resolver may answer anything
  (`AnyResolver`), which includes what `PrincipalRelationResolver` answers.
- **Subject keys**: two calls, three keys, two tenants with two ids each: the same id in
  two tenants, and an erasure followed by a new key and another.
- **MFA**: two calls, two accounts of one tenant, two secrets, two challenges, a
  challenge that lives one step and a clock that moves once. Two secrets are a secret
  and its replacement, or those of two users.

- **Signing in**: one call at a time, because calls only read; two edits, so that a row
  changes twice between the reads, or two rows once. `MCInit` starts with one or two tenants where the
  email has an account, of a user of the tenant or of the other; `Calm` keeps the second user's second factor and role as
  they are, gives the second password to nobody and leaves the second role alone: the first
  user exercises them.
- **SCIM**: two POSTs in flight, two rows, one group, five bodies and two patches of users,
  three bodies and six patches of groups, chosen to reach every case of the parsers.
  Two rows are enough for a duplicate; page sizes 1 and 2 against two rows make a walk end
  at the edge of a page, past it, and by an empty page. `MCNext` changes groups
  only while there are no users and no walk (no step of one reads the other), and
  `Apart` lets a walk run beside one POST at most and drops what follows a walk that is over.
- **Directory**: three persons (with everything, with nearly nothing, with neither a displayed name nor a title),
  a manager whose name is not the email, seven ways in, two rule sets (one with `stopOnMatch` and
  a rule on the manager, one with neither), two sets of fields an app may
  keep, and a pull cut at two entries, of which one or two may be somebody else's.

The proofs below hold without any of these bounds.

## The findings

The five violation runs are disagreements between a sentence of the repository and the
code; `PROJECT.json` lists both lines. Two are sentences that are wider than what the code
does. An unreadable rule that is dropped may have been the only thing in the way. And
`revokeAllForUser` is not effective for a session that is being rotated: `$transaction` does not
help at the default isolation, where `deleteMany` waits for the old row, finds it gone and does not
look for the new one; `RevokedForGood` says that this is all that slips through. A `deleteMany`
at Repeatable Read or above, which the database then refuses and the caller repeats, or a row of the user that
both lock, would close it; neither is modelled. Three are mistakes in parsing:

- `scim_render`: `parseUserPatch` (`serialize.ts:265`) stores a `displayName` as it comes, the empty
  one too, and `validateScimUser` refuses the resource `toScimUser` makes of it, where
  `validate.ts:5-6` promises the round trip. `OnlyBlankNamesOffSchema` says that nothing else fails;
- `scim_rename`: `parseGroupMemberPatch` (`serialize.ts:347`) takes a replacement without a
  path and without a list of members for one that lists none, so a rename in
  that form, which providers send and the users parser accepts, empties the group;
- `ldap_comma`: `cnFromDn` (`profile.ts:435`) cuts a DN at its first comma, escaped or not, so
  `CN=Sales\, EMEA,...` is not the group the other providers call `Sales, EMEA`.

Divergences met on the way that have no run of their own:

- "RECONCILED BY EMAIL (case-insensitive, never a duplicate)" (`scim-server/src/users.ts:4-5`) holds
  of calls that come one after the other. Two POSTs that overlap both create, unless the
  store has a unique index, which `ScimStore` does not ask for, and a PUT renames without looking.
  `DuplicatesOverlap` says that nothing else makes a duplicate.
- "response time never reveals whether an account exists" (`native-credential-authenticator.ts:16-17`)
  holds in one tenant. `authenticateCrossTenant` compares one hash per account it finds, two for an
  email of two tenants and one for an unknown one; `ComparesEveryAccount` says what the number depends
  on: who has an account, and neither the password nor who is active.
- `findByEmailAcrossTenants` does not ask, as `findByEmail` does, that the user of an account be of the
  account's tenant (`credential-store.ts:53` and `:69`).
- "same role mapping" (`profile.ts:440-441`) does not hold of a rule that reads the manager, of whom LDAP
  gives a name and the others an email; the comment's next lines call it a debt. `RolesDeserved`
  leaves such rules out where it compares providers.
- A `step_up` rule that matches and has no obligations leaves the verdict allow
  (`policy-pdp.ts:136`), where `docs/guide/en/02-authorization.md:213` has it demand one.
- In the TransLog store `authTime` is `createdAt` (`connector-translog/src/mapping.ts:79`), which a
  rotation renews: `AuthTimeOfLogin` fails with `HasCtxColumn = FALSE`. The store's `DEBT.md` accepts it.
- `decryptFor` answers `null` for an erased subject only until the subject is given a new key by
  `encryptFor`; after that an old ciphertext makes it throw (`subject-field-cipher.ts:35-41`).
- `redactProfile` masks the fields of a profile and spreads the rest, `claims` included, which
  hold every masked datum again for SCIM, SAML and OIDC (`redact.ts:30`), where the package's
  README (line 33) calls the result safe for logs.

## What is proved

The proofs are in the `*Proofs` modules. Each follows the same line: an inductive
invariant `IInv` whose first part is the type invariant and whose other parts say what
a suspended call knows (`CallInv`) and how the tables, the calls in flight and the
history hang together; one lemma per part, with a step per action; then the theorems,
which follow from `IInv`.

**`SessionStoreProofs`.** `OneBearer` alone is not inductive: `LineageInv` adds that a
session between the two statements of a rotation (`Between`) has one rotation and no row, or
with a transaction the row that the rotation holds; `FreshInv` that a token drawn and not inserted is nobody else's, `TableInv` that
every row carries its login. `RevokedInv` says of a running `deleteMany` that each session it found is
still in the row it found or has been crossed by a rotation. Proved for all constants, so with
transactions and without: `NoFork`, `RotationKeepsSession`, `RevocationIsFinal`,
`ServesInTime`, `TypeCorrect`; assuming `HasTransaction`: `NothingLost`;
assuming `HasCtxColumn`: `RotationKeepsAuthTime`; assuming both: `StoreImplementsLedger`, the
refinement, step by step.

**`AuthzProofs`.** A check decides from the tables of two instants. The invariant
brackets each: what was read contains what stayed all along (`policiesKept`) and is
contained in what was ever there (`grantsSeen`, `policiesSeen`). The properties then follow from
monotonicity lemmas about the operators: more grants never take a right away, a verdict
other than deny says that no rule threw and none denied. `AccessNeedsGrant`,
`TenantIsolation`, `DenyWins`, `PositiveGate`, `GuardCloses`.

**`SubjectKeysProofs`.** `PendingInv`: a key drawn and not stored is in no row, no
ciphertext and no other call. `ShreddedInv`: no row has the key of a shredded
ciphertext, nor does a call that came later hold it. `ErasureIsFinal` and `FieldsStayApart` hold
with or without the constraint; `NothingLost` assumes `HasUnique`.

**`MfaChallengeProofs`.** `GuessInv`: a challenge is in its row, or in the hands of one
call past the deletion, or used. `PendingInv` and `ReplacedInv` do for secrets what their
counterparts do for keys. `OneShot`, `AnswersForOwner`, `ReplacementIsFinal`,
`EnrolmentHolds`; `SteadyInv` follows a right code from its challenge to the answer, and gives
`RightCodePasses`. All with no assumption but those on the constants.

**`CredentialsProofs`.** What the outcome is compared with is `seen`, so the invariant begins
with `SeenNow`: `seen` has all that is there now, and who is steady is there now. `ReadInv`
and `RecordInv` say that what a sign-in carries was seen, one row of a tenant, and that nobody steady is
missing; `CompareInv` is the loop invariant of the compares. Edits only add to `seen` and take
from who is steady, so they keep all of it (`EditsKeepLogin`). `SignInWitnessed`,
`SignInFinds`, `SignInCompares`, `GrantsWitnessed`, `TypeCorrect`, with no assumption but that
tenants are finite and the null values are not values.

**`ScimProvisioningProofs`.** `LookedInv` says what a POST that found nobody still knows when it
creates, `KnewInv` what its row keeps of that; `WalkInv` says that a walk has met all rows before
its next `startIndex`. `DuplicatesComeFromOverlap`, `WalkIsComplete` (for any page size but 0).
The three others are about what the parsers compute from a body of any shape and a PATCH of any
length. `OnlyBlankNamesFail`: the invariant of `GroupsInvariance` and its counterpart for users say of
each field of a row what the narrowing of the parsers leaves of it (a text, a word, nothing), and
rendering is then conformant case by case, but for the one field a PATCH stores unread. `MembersFollowLastWord` and `DeactivatedStayOut`
follow the fold over the operations: after n of them the value is that of the last one, up to n, that
speaks of it.

**`DirectorySyncProofs`.** `ClientReleased`, the safety half of `PullSettles`. Then what an app keeps:

- Each of the seven projections is shown to say of a person what the directory says of them, as
  `Canonical` has it for that provider
  (`ScimShows`, `ScimUserShows`, `GraphShows`, `GoogleShows`, `OidcShows`, `SamlShows`, `LdapShows`, all with
  the conclusion `Shows`), from lemmas about one layer of reading each: trimming, the first
  text of several, one or many values, paths, the primary entry, the normalization of an
  LDAP entry, the common name of a DN.
- `KeptRow`: what `minimizeProfile` and `toContractsProfile` make of such a profile keeps what it
  may of the person (`Keeps`), and `KeptGroups` that a change of groups does not disturb it.
- `RolesAreDeserved`: rules sorted by priority and id form one sequence that has each rule once
  (`InOrderPlaces`), and the loop over it, with its break, ends with the roles of the rules that
  match before or at the first that matches and stops. `RulesGrow`: no condition asks that a
  value be absent, so a profile that says less matches fewer rules.
- `KeptInv` joins them: the row keeps its person, the roles are those the whole profile
  earns or those what is kept earns, and the entries a pull found are entries of the directory.
  The properties are not inductive without it: `RolesDeserved` says nothing while the rules
  read what may not be kept, and the next change of the rules brings it back.

`PeopleAlike` says field by field what of two providers may differ and that nothing else does; the
roles of `RolesAsDeserved` are those of every provider as long as no rule reads the manager.
`PeopleAlike`, `RolesAsDeserved` and `LessAddsNothing` assume `NamesHaveNoComma`. Without it
`SameWhateverSource` is false, which is what `ldap_comma` shows, and the roles go the way of the
groups: a rule may name the group, or what is left of its name. They hold for any people, rules,
groups and allowed fields, within the assumptions below.

**`DataLemmas`** is what proofs about data need. The induction theorems of the library take a predicate as a
parameter, which the provers cannot instantiate; here induction is over *sets* of numbers
(`NatSetInduction`, `BoundedInduction`), from the least element the well-foundedness of the naturals
gives. `FoldPasses` and `FlattenPasses` then give the intermediate values of a `FoldLeft` or a
`FlattenSeq` as a function on `0..n`, of which a loop invariant is such a set.

The assumptions on constants are the `ASSUME`s of the component modules; TLC evaluates
them on the runs. Those about data say what the code takes for granted or the world gives:
`JsonAssumption` (bodies are values of `JSON.parse`), `LoweredAssumption` (the literal `members` is
in lower case), `LiteralsAreStrings` (literals are syllables), `SyllablesAssumption` (so are the
parts of a DN; blanks and the types of relations have their lower case), `NumeralsAssumption` (what `Number` makes
of the two account flags of Active Directory), `PeopleAssumption` (names are texts without blanks around
them, or missing; an email is in lower case), `GroupSetsAssumption` (finitely many groups),
`RuleSetsAssumption` (finitely many rules with ids of their own, which read groups and
attributes; a rule on a claim is another matter, see the hazard at `profile.ts:164`).

Only model-checked: the violations, and `PullSettles`, which is liveness under fairness.
Every other property of every passing run is proved. What the prover does not
reach is what patterns match (`Accepts` is a table) and the strings themselves: a text is a sequence of
syllables, and that the code's own literals differ is all that is known of them.

## What is not modelled

See `PROJECT.json` for each component. In short: `listForUser` and other pure reads;
the PII access log (one insert); logging, wording, QR codes; hashing and TOTP arithmetic; the
wire protocols of directories and identity services; `discovery.ts`, which answers constants;
the Better Auth adapter, one await with no state; the NestJS decorators; classification and
redaction, tables of field names and a mask; `retentionExpired`, one comparison nothing
calls. Regular expressions are a table of what they match. No payload has what makes the code throw:
a null among the emails of a SCIM user does (`profile.ts:239`). What a decision log holds is left out. `sessions_transaction` has
`HasTransaction = TRUE`; that a rotation in two statements does not fork a session either is proved
(`NoFork`) and not run. Known and accepted
by the code, and kept in the models: a TOTP code can be accepted again under another
challenge within its step (debt 3 of the native adapter); a re-enrolment that fails halfway
leaves the account unenrolled; two racing enrolments may leave two secrets, of which
either may be read; a field encrypted while its subject is being erased is
unreadable from the start; `encryptFor` that loses the race for the first key
rejects, and is retried by its caller.

## The plan

In order, the most important behaviour first; all of it is done.

1. Sessions: `SessionLedger`, `SessionStore`, `SessionStoreProofs`.
2. Authorization: `Authz`, `Pdp`, `AuthzGuard`, `AuthzProofs`.
3. Crypto-shredding: `KeyManagement`, `SubjectKeys`, `SubjectKeysProofs`.
4. MFA: `MfaChallenge`, `MfaChallengeProofs`.
5. SCIM: `Values`, `ScimMessages`, `ScimProvisioning`, `ScimProvisioningProofs`.
6. Signing in and the grants of TransLog: `Credentials`, `CredentialsProofs`.
7. From a directory to roles: `Profiles`, `IdpShapes`, `MappingRules`, `PiiProfiles`,
   `DirectorySync`, `DirectorySyncProofs`.
8. What the folds and the parsers compute: `DataLemmas`, and the second half of the proofs of 5 and 7.

Worth doing next: an abstract directory, with one identity per person, that `ScimProvisioning`
implements for providers that do not overlap; sign-in composed with MFA and sessions, where the time
of authentication reaches the conditions of the decision point.
