--------------------------- MODULE MCDirectorySync ---------------------------
(* Instances of DirectorySync small enough for TLC.                          *)
EXTENDS DirectorySync

MCLowered == [ANN |-> "ann", CN |-> "cn", MANAGER |-> "manager", HR |-> "hr", Chief |-> "chief"]

MCNumerals == (<<"512">> :> 512) @@ (<<"514">> :> 514)

T(s) == Text(<<s>>)

\* Two groups, a title of two words and a manager; an account disabled, with next to
\* nothing; and one with neither a displayed name nor a title.
Ann ==
    [id |-> T("id"), mail |-> Text(<<"ann", "@x">>), first |-> T("Ann"), last |-> T("Lee"),
     display |-> Text(<<"Ann", " ", "Lee">>), title |-> Text(<<"Chief", " ", "Officer">>),
     department |-> T("HR"), manager |-> Text(<<"max", "@x">>), managerName |-> T("Max"),
     groups |-> {T("HR"), T("ops")}, active |-> TRUE]
Hollow ==
    [Ann EXCEPT !.last = Missing, !.display = T("A"), !.title = Missing, !.department = Missing,
                !.manager = Missing, !.managerName = Missing, !.groups = {}, !.active = FALSE]
Plain == [Ann EXCEPT !.display = Missing, !.title = Missing, !.groups = {T("ops")}]

MCPeople == {Ann, Hollow, Plain}

\* A group whose name has a comma in it.
Comma == Text(<<"Sales", ",", " ", "EMEA">>)
CommaPeople == {[Ann EXCEPT !.groups = {Comma}], Hollow}

MCGroupSets == {{T("ops")}, {T("HR")}}

Cond(source, key, op, value) == [source |-> source, key |-> key, op |-> op, value |-> value]
Rule(id, priority, stop, all, any, keys) ==
    [id |-> id, priority |-> priority, stopOnMatch |-> stop, all |-> all, any |-> any,
     assignRoleKeys |-> keys, orgUnit |-> NoUnit]

\* A chief, by an attribute, stops the rules after it; two rules of one priority, one of which
\* names a manager by email; a rule without conditions.
Stopping ==
    {Rule(3, 0, TRUE, {Cond("ATTRIBUTE", "title", "contains", T("CHIEF"))}, {}, {"VAL"}),
     Rule(2, 1, FALSE, {Cond("GROUP", "", "iequals", Text(<<" ", "hr">>))},
          {Cond("ATTRIBUTE", "manager", "equals", Text(<<"max", "@x">>))}, {"HRM", "USR"}),
     Rule(1, 1, TRUE, {}, {Cond("GROUP", "", "in", List(<<T("x"), T("ops")>>))}, {"USR"}),
     Rule(0, 0, TRUE, {}, {}, {"ADM"})}
Going ==
    {Rule(1, 0, FALSE, {Cond("ATTRIBUTE", "department", "matches", T("^h"))}, {}, {"HRM"}),
     Rule(2, 0, FALSE, {Cond("ATTRIBUTE", "title", "matches", T("(a+)+"))}, {}, {"ADM"}),
     Rule(3, 1, FALSE, {}, {Cond("GROUP", "", "equals", T("ops")),
                            Cond("ATTRIBUTE", "title", "present", Missing)}, {"USR"})}
MCRuleSets == {Stopping, Going}

MCAccepts == <<"^h">> :> {<<"hr">>}

MCAllowances ==
    {{"displayName", "firstName", "lastName", "title", "department", "manager"}, {"firstName", "manager"}}
==============================================================================
