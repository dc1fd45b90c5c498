----------------------------- MODULE MappingRules -----------------------------
(***************************************************************************)
(* rules.ts and safe-regex.ts of iam-mapping: the roles a profile earns    *)
(* under the rules of a tenant.                                            *)
(*                                                                         *)
(* A rule is [id, priority, stopOnMatch, all, any, assignRoleKeys,         *)
(* orgUnit], its conditions a set, for no evaluation has an effect.  A     *)
(* rule names a value where its operator reads one ("in" without a value   *)
(* throws in the code).                                                    *)
(***************************************************************************)
EXTENDS Profiles, FiniteSetsExt

CONSTANTS
    Accepts,   \* from each pattern compileSafeRegex accepts to the words it matches
    NoUnit     \* a rule without an orgUnit

ValuesFor(profile, cond) ==
    LET attribute == IF cond.key \in DOMAIN profile.attributes
                     THEN profile.attributes[cond.key] ELSE Missing
        raw == Get(profile.claims, cond.key)
        Said(v) == IF IsText(v) /\ v.word # <<>> THEN {v} ELSE {}
        claimed == CASE raw.is = "list" -> {v \in ToSet(raw.items) : IsText(v)}
                     [] raw.is = "number" -> {Text(raw.word)}
                     [] raw.is = "flag" -> {Text(IF raw.on THEN <<"true">> ELSE <<"false">>)}
                     [] OTHER -> Said(raw)
    IN  CASE cond.source = "GROUP" -> profile.groups
          [] cond.source = "ATTRIBUTE" -> Said(attribute)
          [] OTHER -> claimed

Norm(v) == LowerCase(Trim(v.word))

\* Text.includes
Includes(w, part) ==
    \E i \in 0 .. Len(w) - Len(part) : SubSeq(w, i + 1, i + Len(part)) = part

\* A pattern that is invalid, too long or suspected of backtracking matches nothing.
SafeRegexTest(source, v) ==
    source.word \in DOMAIN Accepts /\ LowerCase(v.word) \in Accepts[source.word]

CondMatches(profile, cond) ==
    LET actual == ValuesFor(profile, cond)
        value == cond.value
    IN  CASE cond.op = "present" -> actual # {}
          [] cond.op = "equals" -> value \in actual
          [] cond.op = "iequals" -> IsText(value) /\ \E a \in actual : Norm(a) = Norm(value)
          [] cond.op = "contains" ->
                IsText(value) /\ \E a \in actual : Includes(Norm(a), Norm(value))
          [] cond.op = "in" ->
                LET wanted == IF IsList(value) THEN ToSet(value.items) ELSE {value}
                IN  \E a \in actual, v \in wanted : Norm(a) = Norm(v)
          [] cond.op = "matches" -> IsText(value) /\ \E a \in actual : SafeRegexTest(value, a)
          [] OTHER -> FALSE

RuleMatches(profile, rule) ==
    /\ rule.all # {} \/ rule.any # {}
    /\ \A c \in rule.all : CondMatches(profile, c)
    /\ rule.any = {} \/ \E c \in rule.any : CondMatches(profile, c)

\* Rules as the admin of a tenant may write them: finitely many, each with an id of its own.
IsRuleSet(rules) ==
    /\ IsFiniteSet(rules)
    /\ \A r \in rules : r.id \in Int /\ r.priority \in Int /\ r.stopOnMatch \in BOOLEAN
    /\ \A r, s \in rules : r.id = s.id => r = s

\* Rules that read the groups and the attributes of a profile, and no claims.
ReadsProfile(rules) ==
    \A c \in UNION {r.all \cup r.any : r \in rules} :
        \/ c.source = "GROUP"
        \/ c.source = "ATTRIBUTE" /\ c.key \in DirectoryAttributeKeys

Before(r, s) == r.priority < s.priority \/ (r.priority = s.priority /\ r.id < s.id)

\* The rules sorted: each where the number of those before it puts it.
InOrder(rules) ==
    [n \in 1 .. Cardinality(rules) |->
       CHOOSE r \in rules : Cardinality({s \in rules : Before(s, r)}) = n - 1]

\* The loop, up to the break.
Evaluated(profile, rules, Stops(_)) ==
    LET Step(result, rule) ==
            IF result.stopped \/ ~RuleMatches(profile, rule) THEN result
            ELSE [roleKeys |-> result.roleKeys \cup rule.assignRoleKeys,
                  units |-> IF rule.orgUnit = NoUnit THEN result.units
                            ELSE Append(result.units, rule.orgUnit),
                  matched |-> result.matched \cup {rule.id},
                  stopped |-> Stops(rule)]
    IN  FoldLeft(Step, [roleKeys |-> {}, units |-> <<>>, matched |-> {}, stopped |-> FALSE],
                 InOrder(rules))

\* Bugs: every rule counts, whatever stopped before it; the first that matches is the only one.
EvaluateThrough(profile, rules) == Evaluated(profile, rules, LAMBDA r : FALSE)
EvaluateFirst(profile, rules) == Evaluated(profile, rules, LAMBDA r : TRUE)

EvaluateMappings(profile, rules) == Evaluated(profile, rules, LAMBDA r : r.stopOnMatch)

RolesOf(profile, rules) == EvaluateMappings(profile, rules).roleKeys

----------------------------------------------------------------------------
(* The promise of the engine's own comment, without the loop: the roles of *)
(* the rules that match, up to the first one that stops.                   *)

DeservedRoles(profile, rules) ==
    LET matching == {r \in rules : RuleMatches(profile, r)}
        Cut(r) == \E s \in matching : s.stopOnMatch /\ Before(s, r)
    IN  UNION {r.assignRoleKeys : r \in {s \in matching : ~Cut(s)}}
==============================================================================
