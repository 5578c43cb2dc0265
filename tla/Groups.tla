------------------------------- MODULE Groups -------------------------------
(***************************************************************************)
(* One ClawGroup: the group object and its invite tokens in the GROUPS     *)
(* namespace, and the handlers that change them                            *)
(* (broker/src/routes/group/{create,invite,join,leave}.js, and the         *)
(* group_name of routes/register.js, which creates a group too).  Every    *)
(* handler reads the group object and, some awaits later, writes all of it *)
(* back: requests that overlap can undo each other.                        *)
(*                                                                         *)
(* Requests refused before the first read of the group or the invite (401, *)
(* 400, 403 on the caller's identity) touch no state and are left out.  A  *)
(* token's KV record and its expires_at end together: an expired token is  *)
(* one that is gone.                                                       *)
(***************************************************************************)
EXTENDS Naturals, FiniteSets

CONSTANTS
  ClawIds,
  Registered,  \* the ClawIDs with a registry record
  Creates,     \* POST /group/create, or POST /register with group_name
  Founding,    \* what each create asks for: [owner, members, max]
  Invites,     \* POST /group/invite; also names the token it generates
  Minter,      \* who asks for each invite
  Joins,       \* POST /group/join
  Joining,     \* what each join presents: [clawid, token]
  Leaves,      \* POST /group/leave
  Leaving,     \* what each leave asks for: [operator, clawid]
  None,        \* nobody: the owner of a group that does not exist
  MaxFailures  \* bound: how many requests stop part way

Requests == Creates \cup Invites \cup Joins \cup Leaves

\* The members a created group starts with: the owner and the registered ones,
\* however many they are.  handleGroupCreate does not compare their number with
\* max_members, which only handleGroupJoin looks at.
Seed(c) == {Founding[c].owner} \cup (Founding[c].members \cap Registered)

ASSUME RegisteredAssumption == Registered \subseteq ClawIds /\ IsFiniteSet(ClawIds)
ASSUME FoundingAssumption ==
  Founding \in [Creates -> [owner : Registered, members : SUBSET ClawIds, max : Nat]]
ASSUME MinterAssumption == Minter \in [Invites -> ClawIds]
ASSUME JoiningAssumption == Joining \in [Joins -> [clawid : ClawIds, token : Invites]]
ASSUME LeavingAssumption == Leaving \in [Leaves -> [operator : ClawIds, clawid : ClawIds]]
ASSUME NoneAssumption == None \notin ClawIds
ASSUME DisjointAssumption ==
  /\ Creates \cap Invites = {} /\ Creates \cap Joins = {} /\ Creates \cap Leaves = {}
  /\ Invites \cap Joins = {} /\ Invites \cap Leaves = {} /\ Joins \cap Leaves = {}
ASSUME BoundAssumption == MaxFailures \in Nat

VARIABLES
  group,       \* group:{group_id}; owner None means there is none
  tokens,      \* the invite tokens with an invite:{token} key
  pc,          \* where each request stands
  copy,        \* the group object a request has read
  status,      \* HTTP status of its answer, 0 before
  serial,      \* history: the group if every write had been applied to it
  used,        \* history: the joins that have added a member
  minted,      \* history: the tokens ever written
  overlapped,  \* history: two requests were in flight at once
  failures

requests == <<pc, copy, status>>
observed == <<serial, used, minted, overlapped>>
vars == <<group, tokens, requests, observed, failures>>

NoGroup == [owner |-> None, members |-> {}, max |-> 0]
Exists(g) == g.owner # None

Init ==
  /\ group = NoGroup
  /\ tokens = {}
  /\ pc = [r \in Requests |-> "new"]
  /\ copy = [r \in Requests |-> NoGroup]
  /\ status = [r \in Requests |-> 0]
  /\ serial = NoGroup
  /\ used = {}
  /\ minted = {}
  /\ overlapped = FALSE
  /\ failures = 0

InFlight(r) == pc[r] \notin {"new", "done"}

\* A request arrives; others may be under way.
Arrive(r) ==
  /\ pc[r] = "new"
  /\ overlapped' = (overlapped \/ \E q \in Requests : InFlight(q))

Goto(r, from, to) ==
  /\ pc[r] = from
  /\ pc' = [pc EXCEPT ![r] = to]

Finish(r, code) ==
  /\ pc' = [pc EXCEPT ![r] = "done"]
  /\ status' = [status EXCEPT ![r] = code]

\* The request goes on to its next storage call unless it is refused.
Proceed(r, to, code) ==
  IF code = 0 THEN pc' = [pc EXCEPT ![r] = to] /\ UNCHANGED status
  ELSE Finish(r, code)

With(g, a) == [g EXCEPT !.members = @ \cup {a}]
Without(g, a) == [g EXCEPT !.members = @ \ {a}]
\* Fault: one member too many.
FullOffByOne(g) == Cardinality(g.members) > g.max

Full(g) == Cardinality(g.members) >= g.max

(***************************************************************************)
(* handleGroupCreate, and handleRegister with group_name.                  *)
(***************************************************************************)

NewGroup(c) == [owner |-> Founding[c].owner, members |-> Seed(c), max |-> Founding[c].max]

\* Fault: an existing group is not looked for.
CreateReadNothing(c) ==
  /\ Arrive(c)
  /\ Proceed(c, "write", 0)
  /\ UNCHANGED <<group, tokens, copy, serial, used, minted, failures>>

CreateRead(c) ==
  /\ Arrive(c)
  /\ Proceed(c, "write", IF Exists(group) THEN 409 ELSE 0)
  /\ UNCHANGED <<group, tokens, copy, serial, used, minted, failures>>

CreateWrite(c) ==
  /\ pc[c] = "write"
  /\ Finish(c, 200)
  /\ group' = NewGroup(c)
  /\ serial' = IF Exists(serial) THEN serial ELSE NewGroup(c)
  /\ UNCHANGED <<tokens, copy, used, minted, overlapped, failures>>

(***************************************************************************)
(* handleGroupInvite.                                                      *)
(***************************************************************************)

InviteRead(i) ==
  /\ Arrive(i)
  /\ Proceed(i, "mint", IF ~Exists(group) THEN 404
                        ELSE IF Minter[i] # group.owner THEN 403 ELSE 0)
  /\ UNCHANGED <<group, tokens, copy, serial, used, minted, failures>>

InviteWrite(i) ==
  /\ pc[i] = "mint"
  /\ Finish(i, 200)
  /\ tokens' = tokens \cup {i}
  /\ minted' = minted \cup {i}
  /\ UNCHANGED <<group, copy, serial, used, overlapped, failures>>

Expire(i) ==
  /\ i \in tokens
  /\ tokens' = tokens \ {i}
  /\ UNCHANGED <<group, requests, observed, failures>>

(***************************************************************************)
(* handleGroupJoin: the token is checked first and deleted last.           *)
(***************************************************************************)

\* Fault: the invite token is not checked.
JoinWithoutToken(j) ==
  /\ Arrive(j)
  /\ Proceed(j, "read", 0)
  /\ UNCHANGED <<group, tokens, copy, serial, used, minted, failures>>

JoinCheckToken(j) ==
  /\ Arrive(j)
  /\ Proceed(j, "read", IF Joining[j].token \in tokens THEN 0 ELSE 403)
  /\ UNCHANGED <<group, tokens, copy, serial, used, minted, failures>>

JoinRefusal(j, g) ==
  IF ~Exists(g) THEN 404
  ELSE IF Joining[j].clawid \in g.members THEN 409
  ELSE IF Full(g) THEN 403
  ELSE IF Joining[j].clawid \notin Registered THEN 404
  ELSE 0

JoinRead(j) ==
  /\ pc[j] = "read"
  /\ copy' = [copy EXCEPT ![j] = group]
  /\ Proceed(j, "add", JoinRefusal(j, group))
  /\ UNCHANGED <<group, tokens, observed, failures>>

JoinWrite(j) ==
  /\ Goto(j, "add", "burn")
  /\ group' = With(copy[j], Joining[j].clawid)
  /\ serial' = IF JoinRefusal(j, serial) = 0 THEN With(serial, Joining[j].clawid) ELSE serial
  /\ used' = used \cup {j}
  /\ UNCHANGED <<tokens, copy, status, minted, overlapped, failures>>

\* Fault: the token is left to expire.
JoinKeepToken(j) ==
  /\ pc[j] = "burn"
  /\ Finish(j, 200)
  /\ UNCHANGED <<group, tokens, copy, observed, failures>>

JoinBurnToken(j) ==
  /\ pc[j] = "burn"
  /\ Finish(j, 200)
  /\ tokens' = tokens \ {Joining[j].token}
  /\ UNCHANGED <<group, copy, observed, failures>>

(***************************************************************************)
(* handleGroupLeave: a member leaves, the owner removes one or dissolves   *)
(* the group.                                                              *)
(***************************************************************************)

LeaveRefusal(l) ==
  LET op == Leaving[l].operator
      who == Leaving[l].clawid
  IN IF ~Exists(group) THEN 404
     ELSE IF op # who /\ op # group.owner THEN 403
     ELSE IF who \notin group.members THEN 404
     ELSE 0

LeaveRead(l) ==
  /\ Arrive(l)
  /\ copy' = [copy EXCEPT ![l] = group]
  /\ Proceed(l, "remove", LeaveRefusal(l))
  /\ UNCHANGED <<group, tokens, serial, used, minted, failures>>

\* Fault: an owner who leaves is taken off the list like anybody else.
AfterKeepingGroup(l, g) == Without(g, Leaving[l].clawid)

After(l, g) ==
  IF Leaving[l].clawid = g.owner THEN NoGroup ELSE Without(g, Leaving[l].clawid)

LeaveWrite(l) ==
  /\ pc[l] = "remove"
  /\ Finish(l, 200)
  /\ group' = After(l, copy[l])
  /\ serial' = After(l, serial)
  /\ UNCHANGED <<tokens, copy, used, minted, overlapped, failures>>

\* A storage call throws or the broker stops: the router answers 500 or nothing.
Fail(r) ==
  /\ failures < MaxFailures
  /\ InFlight(r)
  /\ Finish(r, 500)
  /\ failures' = failures + 1
  /\ UNCHANGED <<group, tokens, copy, observed>>

JoinStep(j) == JoinCheckToken(j) \/ JoinRead(j) \/ JoinWrite(j) \/ JoinBurnToken(j)

Next ==
  \/ \E c \in Creates : CreateRead(c) \/ CreateWrite(c)
  \/ \E i \in Invites : InviteRead(i) \/ InviteWrite(i) \/ Expire(i)
  \/ \E j \in Joins : JoinStep(j)
  \/ \E l \in Leaves : LeaveRead(l) \/ LeaveWrite(l)
  \/ \E r \in Requests : Fail(r)

Spec == Init /\ [][Next]_vars

(***************************************************************************)
(* Properties.                                                             *)
(***************************************************************************)

Group == [owner : ClawIds \cup {None}, members : SUBSET ClawIds, max : Nat]

\* Every variable stays in its range.
TypeOK ==
  /\ group \in Group
  /\ tokens \subseteq Invites
  /\ pc \in [Requests -> {"new", "write", "mint", "read", "add", "burn", "remove", "done"}]
  /\ copy \in [Requests -> Group]
  /\ status \in [Requests -> {0, 200, 403, 404, 409, 500}]
  /\ serial \in Group
  /\ used \subseteq Joins
  /\ minted \subseteq Invites
  /\ overlapped \in BOOLEAN
  /\ failures \in Nat

\* Every member is one that a create with this owner and this limit named.
OnlySeeded(g) ==
  \E c \in Creates :
    /\ g.owner = Founding[c].owner
    /\ g.max = Founding[c].max
    /\ g.members \subseteq Seed(c)

\* However joins, leaves and creations overlap, no join takes a group over its
\* max_members: a stale copy that is written back was not full, or a group that
\* its creator seeded with more has only members of that seed.
WithinLimit == Cardinality(group.members) <= group.max \/ OnlySeeded(group)

\* A group that exists has its owner among its members: no stale write brings
\* back a group from which the owner has been removed.
OwnerIsMember == Exists(group) => group.owner \in group.members

\* Nobody is in the group who was neither seeded by a create that was answered
\* 200 nor let in by a join whose token some owner of the group had minted.
EveryMemberInvited ==
  \A a \in group.members :
    \/ \E c \in Creates : status[c] = 200 /\ a \in Seed(c)
    \/ \E j \in used : Joining[j].clawid = a /\ Joining[j].token \in minted

\* As long as requests take turns, the stored group is what applying them one
\* after the other gives, whichever of them stopped part way.
TurnsAreSerial == ~overlapped => group = serial

\* As long as requests take turns and none stops part way, a token lets one
\* member in.
TurnsUseTokenOnce ==
  ~overlapped /\ failures = 0 =>
    \A j, k \in used : Joining[j].token = Joining[k].token => j = k

=============================================================================
