----------------------------- MODULE MCGroupSend -----------------------------
(* Values of the constants of GroupSend for the run of groupsend.cfg. *)
EXTENDS GroupSend

CONSTANTS olga, ann, ben, s1, s2, s3, i1, i2

\* ann broadcasts as s1 and retries as s2; olga writes to ben as s3.
MCFrom == [s \in Sends |-> IF s = s3 THEN olga ELSE ann]
MCMode == [s \in Sends |-> IF s = s3 THEN "unicast" ELSE "broadcast"]
MCTo == [s \in Sends |-> IF s = s3 THEN {ben} ELSE {}]
MCClientMsg == [s \in Sends |-> IF s = s3 THEN i2 ELSE i1]

Grp(owner, members, policy, allowed) ==
  [owner |-> owner, members |-> members, policy |-> policy, allowed |-> allowed]

\* Everybody is in; ann has been removed; ben has, and olga alone may post; ann
\* alone is listed, though no longer a member; a policy nobody has heard of;
\* there is no group.
MCGroupValues ==
  { Grp(olga, {olga, ann, ben}, "all_members", {}),
    Grp(olga, {olga, ben}, "all_members", {}),
    Grp(olga, {olga, ann}, "owner_only", {}),
    Grp(olga, {olga, ben}, "allowlist", {ann}),
    Grp(olga, {olga, ann}, "other", {}),
    Grp(None, {}, "owner_only", {}) }

=============================================================================
