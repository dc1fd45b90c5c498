----------------------------- MODULE PiiProfiles -----------------------------
(***************************************************************************)
(* The pii package: a profile cut down to what an app may keep.            *)
(***************************************************************************)
EXTENDS Profiles

MinimizeProfile(profile, allowed) ==
    LET Kept(field, v) == IF field \in allowed THEN v ELSE Null
    IN  [profile EXCEPT
           !.firstName = Kept("firstName", @),
           !.lastName = Kept("lastName", @),
           !.displayName = Kept("displayName", @),
           !.attributes = [k \in DOMAIN @ \cap allowed |-> @[k]],
           !.claims = Object(<<>>)]
==============================================================================
