---------------------------- MODULE Groups_proofs ----------------------------
(***************************************************************************)
(* Theorems about module Groups, for any ClawIDs, any requests of the four *)
(* kinds, in any number and overlapping in any way.                        *)
(***************************************************************************)
EXTENDS Groups, FiniteSetTheorems, TLAPS

(***************************************************************************)
(* Type correctness.                                                       *)
(***************************************************************************)

LEMMA NewGroupType == \A c \in Creates : NewGroup(c) \in Group
BY RegisteredAssumption, FoundingAssumption DEF NewGroup, Seed, Group

LEMMA NoGroupType == NoGroup \in Group
BY DEF NoGroup, Group

LEMMA WithType ==
  ASSUME NEW g \in Group, NEW a \in ClawIds
  PROVE  With(g, a) \in Group /\ Without(g, a) \in Group
BY DEF With, Without, Group

LEMMA AfterType ==
  ASSUME NEW l \in Leaves, NEW g \in Group
  PROVE  After(l, g) \in Group
BY NoGroupType, WithType, LeavingAssumption DEF After

LEMMA TypeInit == Init => TypeOK
<1>. SUFFICES ASSUME Init PROVE TypeOK
  OBVIOUS
<1>1. overlapped \in BOOLEAN
  BY Zenon DEF Init
<1>. QED
  BY <1>1, NoGroupType DEF Init, TypeOK

LEMMA OverlappedType ==
  ASSUME overlapped \in BOOLEAN, [Next]_vars
  PROVE  overlapped' \in BOOLEAN
<1>1. ASSUME NEW r \in Requests, Arrive(r) PROVE overlapped' \in BOOLEAN
  BY <1>1, Zenon DEF Arrive
<1>2. ASSUME UNCHANGED overlapped PROVE overlapped' \in BOOLEAN
  BY <1>2
<1>3. (\E r \in Requests : Arrive(r)) \/ UNCHANGED overlapped
  BY Zenon
     DEF Next, vars, observed, Requests, CreateRead, CreateWrite, InviteRead, InviteWrite, Expire,
         JoinStep, JoinCheckToken, JoinRead, JoinWrite, JoinBurnToken, LeaveRead, LeaveWrite, Fail
<1>. QED
  BY <1>1, <1>2, <1>3

LEMMA TypeNext == TypeOK /\ [Next]_vars => TypeOK'
<1>. SUFFICES ASSUME TypeOK, [Next]_vars PROVE TypeOK'
  OBVIOUS
<1>0. overlapped' \in BOOLEAN
  BY OverlappedType DEF TypeOK
<1>. USE DEF TypeOK, Requests, requests, observed, Arrive, Goto, Finish, Proceed
<1>1. ASSUME NEW c \in Creates, CreateRead(c) \/ CreateWrite(c) PROVE TypeOK'
  BY <1>0, <1>1, NewGroupType DEF CreateRead, CreateWrite
<1>2. ASSUME NEW i \in Invites, InviteRead(i) \/ InviteWrite(i) \/ Expire(i) PROVE TypeOK'
  BY <1>0, <1>2 DEF InviteRead, InviteWrite, Expire
<1>3. ASSUME NEW j \in Joins, JoinCheckToken(j) \/ JoinRead(j) \/ JoinBurnToken(j) PROVE TypeOK'
  BY <1>0, <1>3 DEF JoinCheckToken, JoinRead, JoinBurnToken, JoinRefusal
<1>4. ASSUME NEW j \in Joins, JoinWrite(j) PROVE TypeOK'
  BY <1>0, <1>4, WithType, JoiningAssumption DEF JoinWrite
<1>5. ASSUME NEW l \in Leaves, LeaveRead(l) PROVE TypeOK'
  BY <1>0, <1>5 DEF LeaveRead, LeaveRefusal
<1>6. ASSUME NEW l \in Leaves, LeaveWrite(l) PROVE TypeOK'
  BY <1>0, <1>6, AfterType DEF LeaveWrite
<1>7. ASSUME NEW r \in Requests, Fail(r) PROVE TypeOK'
  BY <1>7, BoundAssumption DEF Fail
<1>8. CASE UNCHANGED vars
  BY <1>8 DEF vars
<1>. QED
  BY <1>1, <1>2, <1>3, <1>4, <1>5, <1>6, <1>7, <1>8 DEF Next, JoinStep

\* Whatever the requests in flight, every variable stays in its range.
THEOREM TypeCorrect == Spec => []TypeOK
BY TypeInit, TypeNext, PTL DEF Spec

(***************************************************************************)
(* The limit on members and the owner's membership.                        *)
(***************************************************************************)

\* What both properties say of any group object, stored or read.
Sound(g) ==
  /\ Cardinality(g.members) <= g.max \/ OnlySeeded(g)
  /\ Exists(g) => g.owner \in g.members

\* Every object read from the store is sound too, so writing it back does no
\* harm: a join writes back one that was not full when it was read.
SoundInv ==
  /\ TypeOK
  /\ Sound(group)
  /\ \A r \in Requests : Sound(copy[r])
  /\ \A j \in Joins : pc[j] = "add" => ~Full(copy[j])

LEMMA MembersFinite ==
  ASSUME NEW g \in Group
  PROVE  IsFiniteSet(g.members) /\ Cardinality(g.members) \in Nat
<1>1. g.members \in SUBSET ClawIds
  BY DEF Group
<1>. QED
  BY <1>1, FS_Subset, FS_CardinalityType, RegisteredAssumption

LEMMA SoundNoGroup == Sound(NoGroup)
BY FS_EmptySet DEF Sound, NoGroup, Exists

LEMMA SoundNewGroup == \A c \in Creates : Sound(NewGroup(c))
BY DEF Sound, OnlySeeded, NewGroup, Seed

\* A group that is not full is still within its limit with one member more.
LEMMA SoundWith ==
  ASSUME NEW g \in Group, NEW a \in ClawIds, Sound(g), ~Full(g)
  PROVE  Sound(With(g, a))
<1>0. IsFiniteSet(g.members) /\ Cardinality(g.members) \in Nat
  BY MembersFinite
<1>1. \/ Cardinality(g.members \cup {a}) = Cardinality(g.members)
      \/ Cardinality(g.members \cup {a}) = Cardinality(g.members) + 1
  BY <1>0, FS_AddElement
<1>2. /\ With(g, a).members = g.members \cup {a}
      /\ With(g, a).max = g.max
      /\ With(g, a).owner = g.owner
  BY DEF With, Group
<1>3. g.max \in Nat
  BY DEF Group
<1>. QED
  BY <1>0, <1>1, <1>2, <1>3 DEF Sound, Full, Exists

\* A member who is not the owner can be taken off any sound group.
LEMMA SoundAfter ==
  ASSUME NEW l \in Leaves, NEW g \in Group, Sound(g)
  PROVE  Sound(After(l, g))
<1>. DEFINE a == Leaving[l].clawid
<1>1. CASE a = g.owner
  BY <1>1, SoundNoGroup DEF After
<1>2. CASE a # g.owner
  <2>0. IsFiniteSet(g.members) /\ Cardinality(g.members) \in Nat
    BY MembersFinite
  <2>1. \/ Cardinality(g.members \ {a}) = Cardinality(g.members)
        \/ Cardinality(g.members \ {a}) = Cardinality(g.members) - 1
    BY <2>0, FS_RemoveElement
  <2>2. /\ Without(g, a).members = g.members \ {a}
        /\ Without(g, a).max = g.max
        /\ Without(g, a).owner = g.owner
    BY DEF Without, Group
  <2>3. g.max \in Nat
    BY DEF Group
  <2>4. OnlySeeded(g) => OnlySeeded(Without(g, a))
    BY <2>2 DEF OnlySeeded
  <2>5. Sound(Without(g, a))
    BY <1>2, <2>0, <2>1, <2>2, <2>3, <2>4 DEF Sound, Exists
  <2>. QED
    BY <1>2, <2>5 DEF After
<1>. QED
  BY <1>1, <1>2

LEMMA SoundInit == Init => SoundInv
BY TypeInit, SoundNoGroup, JoiningAssumption DEF Init, SoundInv, Requests

LEMMA SoundNext == SoundInv /\ [Next]_vars => SoundInv'
<1>. SUFFICES ASSUME SoundInv, [Next]_vars PROVE SoundInv'
  OBVIOUS
<1>0. TypeOK /\ TypeOK'
  BY TypeNext DEF SoundInv
<1>. USE DisjointAssumption
     DEF TypeOK, Requests, requests, observed, Arrive, Goto, Finish, Proceed
<1>1. ASSUME NEW c \in Creates, CreateRead(c) \/ CreateWrite(c) PROVE SoundInv'
  BY <1>0, <1>1, SoundNewGroup DEF CreateRead, CreateWrite, SoundInv, Sound, Full, Exists
<1>2. ASSUME NEW i \in Invites, InviteRead(i) \/ InviteWrite(i) \/ Expire(i) PROVE SoundInv'
  BY <1>0, <1>2 DEF InviteRead, InviteWrite, Expire, SoundInv, Sound, Full, Exists
<1>3. ASSUME NEW j \in Joins, JoinCheckToken(j) \/ JoinBurnToken(j) PROVE SoundInv'
  BY <1>0, <1>3 DEF JoinCheckToken, JoinBurnToken, SoundInv, Sound, Full, Exists
<1>4. ASSUME NEW j \in Joins, JoinRead(j) PROVE SoundInv'
  BY <1>0, <1>4 DEF JoinRead, JoinRefusal, SoundInv, Sound, Full, Exists
<1>5. ASSUME NEW j \in Joins, JoinWrite(j) PROVE SoundInv'
  <2>1. Sound(group')
    BY <1>0, <1>5, SoundWith, JoiningAssumption DEF JoinWrite, SoundInv
  <2>. QED
    BY <1>0, <1>5, <2>1 DEF JoinWrite, SoundInv, Sound, Full, Exists
<1>6. ASSUME NEW l \in Leaves, LeaveRead(l) PROVE SoundInv'
  BY <1>0, <1>6 DEF LeaveRead, LeaveRefusal, SoundInv, Sound, Full, Exists
<1>7. ASSUME NEW l \in Leaves, LeaveWrite(l) PROVE SoundInv'
  <2>1. Sound(group')
    BY <1>0, <1>7, SoundAfter DEF LeaveWrite, SoundInv
  <2>. QED
    BY <1>0, <1>7, <2>1 DEF LeaveWrite, SoundInv, Sound, Full, Exists
<1>8. ASSUME NEW r \in Requests, Fail(r) PROVE SoundInv'
  BY <1>0, <1>8 DEF Fail, SoundInv, Sound, Full, Exists
<1>9. CASE UNCHANGED vars
  BY <1>0, <1>9 DEF vars, SoundInv, Sound, Full, Exists
<1>. QED
  BY <1>1, <1>2, <1>3, <1>4, <1>5, <1>6, <1>7, <1>8, <1>9 DEF Next, JoinStep

\* No overlap of joins, leaves and creations lets a join take a group over its
\* limit: more members than max_members are members its creator seeded.
THEOREM LimitKept == Spec => []WithinLimit
<1>1. SoundInv => WithinLimit
  BY DEF SoundInv, Sound, WithinLimit
<1>. QED
  BY <1>1, SoundInit, SoundNext, PTL DEF Spec

\* No overlap of them leaves a group without its owner among the members.
THEOREM OwnerStays == Spec => []OwnerIsMember
<1>1. SoundInv => OwnerIsMember
  BY DEF SoundInv, Sound, OwnerIsMember
<1>. QED
  BY <1>1, SoundInit, SoundNext, PTL DEF Spec

(***************************************************************************)
(* Nobody gets in without a minted token.                                  *)
(***************************************************************************)

\* a was seeded by a create that was answered 200, or a join with a minted token has added it.
Admitted(a) ==
  \/ \E c \in Creates : status[c] = 200 /\ a \in Seed(c)
  \/ \E j \in used : Joining[j].clawid = a /\ Joining[j].token \in minted

\* Copies hold nobody else either, and a join that has passed the check of its
\* token, though it no longer looks at it, carries one that was minted.
InvitedInv ==
  /\ TypeOK
  /\ tokens \subseteq minted
  /\ \A a \in group.members : Admitted(a)
  /\ \A r \in Requests : \A a \in copy[r].members : Admitted(a)
  /\ \A j \in Joins : pc[j] \in {"read", "add"} => Joining[j].token \in minted
  /\ \A r \in Requests : status[r] = 200 => pc[r] = "done"

LEMMA InvitedInit == Init => InvitedInv
BY TypeInit DEF Init, InvitedInv, NoGroup, Requests

LEMMA InvitedNext == InvitedInv /\ [Next]_vars => InvitedInv'
<1>. SUFFICES ASSUME InvitedInv, [Next]_vars PROVE InvitedInv'
  OBVIOUS
<1>0. TypeOK /\ TypeOK'
  BY TypeNext DEF InvitedInv
<1>. USE DisjointAssumption
     DEF TypeOK, Requests, requests, observed, Arrive, Goto, Finish, Proceed, InvitedInv, Admitted
<1>1. ASSUME NEW c \in Creates, CreateRead(c) \/ CreateWrite(c) PROVE InvitedInv'
  BY <1>0, <1>1 DEF CreateRead, CreateWrite, NewGroup
<1>2. ASSUME NEW i \in Invites, InviteRead(i) \/ InviteWrite(i) \/ Expire(i) PROVE InvitedInv'
  BY <1>0, <1>2 DEF InviteRead, InviteWrite, Expire
<1>3. ASSUME NEW j \in Joins, JoinCheckToken(j) \/ JoinRead(j) \/ JoinBurnToken(j)
      PROVE  InvitedInv'
  BY <1>0, <1>3 DEF JoinCheckToken, JoinRead, JoinBurnToken
<1>4. ASSUME NEW j \in Joins, JoinWrite(j) PROVE InvitedInv'
  <2>1. group'.members = copy[j].members \cup {Joining[j].clawid}
    BY <1>0, <1>4 DEF JoinWrite, With, Group
  <2>2. \A a \in group'.members : Admitted(a)'
    BY <1>0, <1>4, <2>1 DEF JoinWrite
  <2>3. \A r \in Requests : \A a \in copy'[r].members : Admitted(a)'
    BY <1>0, <1>4 DEF JoinWrite
  <2>4. \A r \in Requests : status'[r] = 200 => pc'[r] = "done"
    BY <1>0, <1>4 DEF JoinWrite
  <2>5. \A k \in Joins : pc'[k] \in {"read", "add"} => Joining[k].token \in minted'
    BY <1>0, <1>4 DEF JoinWrite
  <2>6. tokens' \subseteq minted'
    BY <1>4 DEF JoinWrite
  <2>. HIDE DEF TypeOK, Admitted
  <2>. QED
    BY <1>0, <2>2, <2>3, <2>4, <2>5, <2>6
<1>5. ASSUME NEW l \in Leaves, LeaveRead(l) PROVE InvitedInv'
  BY <1>0, <1>5 DEF LeaveRead
<1>6. ASSUME NEW l \in Leaves, LeaveWrite(l) PROVE InvitedInv'
  <2>1. group'.members \subseteq copy[l].members
    BY <1>0, <1>6 DEF LeaveWrite, After, Without, NoGroup, Group
  <2>. QED
    BY <1>0, <1>6, <2>1 DEF LeaveWrite
<1>7. ASSUME NEW r \in Requests, Fail(r) PROVE InvitedInv'
  <2>1. status[r] # 200 /\ UNCHANGED <<group, tokens, copy, used, minted>>
    BY <1>0, <1>7 DEF Fail, InFlight
  <2>2. \A a : Admitted(a) => Admitted(a)'
    BY <1>0, <1>7, <2>1 DEF Fail
  <2>3. /\ \A q \in Requests : status'[q] = 200 => pc'[q] = "done"
        /\ \A j \in Joins : pc'[j] \in {"read", "add"} => Joining[j].token \in minted'
    BY <1>0, <1>7, <2>1 DEF Fail
  <2>. HIDE DEF TypeOK, Admitted
  <2>. QED
    BY <1>0, <2>1, <2>2, <2>3
<1>8. CASE UNCHANGED vars
  BY <1>0, <1>8 DEF vars
<1>. QED
  BY <1>1, <1>2, <1>3, <1>4, <1>5, <1>6, <1>7, <1>8 DEF Next, JoinStep

\* No stale write smuggles anybody into a group.
THEOREM MembersInvited == Spec => []EveryMemberInvited
<1>1. InvitedInv => EveryMemberInvited
  BY DEF InvitedInv, Admitted, EveryMemberInvited
<1>. QED
  BY <1>1, InvitedInit, InvitedNext, PTL DEF Spec

(***************************************************************************)
(* Requests that take turns.                                               *)
(***************************************************************************)

\* At most one request is in flight, and what it has read of the group is still
\* what the store holds.
Alone ==
  /\ group = serial
  /\ \A q, r \in Requests : InFlight(q) /\ InFlight(r) => q = r
  /\ \A c \in Creates : pc[c] = "write" => ~Exists(group)
  /\ \A j \in Joins : pc[j] = "add" => copy[j] = group /\ JoinRefusal(j, group) = 0
  /\ \A l \in Leaves : pc[l] = "remove" => copy[l] = group

SerialInv ==
  /\ TypeOK
  /\ ~overlapped => Alone

LEMMA SerialInit == Init => SerialInv
BY TypeInit DEF Init, SerialInv, Alone, InFlight, Requests

LEMMA SerialNext == SerialInv /\ [Next]_vars => SerialInv'
<1>. SUFFICES ASSUME SerialInv, [Next]_vars, ~overlapped' PROVE Alone'
  BY TypeNext DEF SerialInv
<1>0. TypeOK /\ TypeOK'
  BY TypeNext DEF SerialInv
<1>1. Alone
  <2>1. ~overlapped
    BY Zenon
       DEF Next, vars, observed, Requests, CreateRead, CreateWrite, InviteRead, InviteWrite, Expire,
           JoinStep, JoinCheckToken, JoinRead, JoinWrite, JoinBurnToken, LeaveRead, LeaveWrite,
           Fail, Arrive
  <2>. QED
    BY <2>1 DEF SerialInv
<1>. USE DisjointAssumption
     DEF TypeOK, Requests, requests, observed, Goto, Finish, Proceed, Alone, InFlight
<1>2. ASSUME NEW r \in Requests, Arrive(r) PROVE \A q \in Requests : ~InFlight(q)
  BY <1>2, Zenon DEF Arrive
<1>3. ASSUME NEW c \in Creates, CreateRead(c) PROVE Alone'
  BY <1>0, <1>1, <1>2, <1>3 DEF CreateRead, Arrive, JoinRefusal
<1>4. ASSUME NEW c \in Creates, CreateWrite(c) PROVE Alone'
  BY <1>0, <1>1, <1>4 DEF CreateWrite, JoinRefusal
<1>5. ASSUME NEW i \in Invites, InviteRead(i) PROVE Alone'
  BY <1>0, <1>1, <1>2, <1>5 DEF InviteRead, Arrive, JoinRefusal
<1>6. ASSUME NEW i \in Invites, InviteWrite(i) \/ Expire(i) PROVE Alone'
  BY <1>0, <1>1, <1>6 DEF InviteWrite, Expire, JoinRefusal
<1>7. ASSUME NEW j \in Joins, JoinCheckToken(j) PROVE Alone'
  BY <1>0, <1>1, <1>2, <1>7 DEF JoinCheckToken, Arrive, JoinRefusal
<1>8. ASSUME NEW j \in Joins, JoinRead(j) PROVE Alone'
  BY <1>0, <1>1, <1>8 DEF JoinRead, JoinRefusal
<1>9. ASSUME NEW j \in Joins, JoinWrite(j) PROVE Alone'
  BY <1>0, <1>1, <1>9 DEF JoinWrite
<1>10. ASSUME NEW j \in Joins, JoinBurnToken(j) PROVE Alone'
  BY <1>0, <1>1, <1>10 DEF JoinBurnToken, JoinRefusal
<1>11. ASSUME NEW l \in Leaves, LeaveRead(l) PROVE Alone'
  BY <1>0, <1>1, <1>2, <1>11 DEF LeaveRead, Arrive, JoinRefusal
<1>12. ASSUME NEW l \in Leaves, LeaveWrite(l) PROVE Alone'
  BY <1>0, <1>1, <1>12 DEF LeaveWrite
<1>13. ASSUME NEW r \in Requests, Fail(r) PROVE Alone'
  BY <1>0, <1>1, <1>13 DEF Fail, JoinRefusal
<1>14. CASE UNCHANGED vars
  BY <1>0, <1>1, <1>14 DEF vars, JoinRefusal
<1>. QED
  BY <1>3, <1>4, <1>5, <1>6, <1>7, <1>8, <1>9, <1>10, <1>11, <1>12, <1>13, <1>14 DEF Next, JoinStep

\* Requests that take turns leave the group that applying them in that order
\* gives, whichever of them stopped part way.
THEOREM TurnsSerial == Spec => []TurnsAreSerial
<1>1. SerialInv => TurnsAreSerial
  BY DEF SerialInv, Alone, TurnsAreSerial
<1>. QED
  BY <1>1, SerialInit, SerialNext, PTL DEF Spec

(***************************************************************************)
(* One member per token.                                                   *)
(***************************************************************************)

\* The token of a join that has added its member is gone once that join is
\* answered, and no join that is under way holds it.
TokenSpent ==
  /\ \A k \in used : pc[k] = "done" => Joining[k].token \notin tokens
  /\ \A j \in Joins : pc[j] \in {"read", "add"} =>
       \A k \in used : Joining[j].token # Joining[k].token
  /\ \A j, k \in used : Joining[j].token = Joining[k].token => j = k

\* It does not come back either: an invite mints its token in its last step,
\* and a join can only have passed the check of a token minted before.
SpendInv ==
  /\ SerialInv
  /\ tokens \subseteq minted
  /\ \A i \in minted : pc[i] = "done"
  /\ \A j \in Joins : pc[j] \in {"read", "add"} => Joining[j].token \in minted
  /\ \A j \in used : pc[j] \in {"burn", "done"} /\ Joining[j].token \in minted
  /\ ~overlapped /\ failures = 0 => TokenSpent

LEMMA SpendInit == Init => SpendInv
BY SerialInit DEF Init, SpendInv, TokenSpent, Requests

\* Requests that take turns so far have done so all along, and so with failures.
LEMMA TurnsBefore ==
  ASSUME TypeOK, [Next]_vars, ~overlapped', failures' = 0
  PROVE  ~overlapped /\ failures = 0
<1>1. ~overlapped
  BY Zenon
     DEF Next, vars, observed, Requests, CreateRead, CreateWrite, InviteRead, InviteWrite, Expire,
         JoinStep, JoinCheckToken, JoinRead, JoinWrite, JoinBurnToken, LeaveRead, LeaveWrite,
         Fail, Arrive
<1>2. failures' = failures \/ failures' = failures + 1
  BY Zenon
     DEF Next, vars, observed, Requests, CreateRead, CreateWrite, InviteRead, InviteWrite, Expire,
         JoinStep, JoinCheckToken, JoinRead, JoinWrite, JoinBurnToken, LeaveRead, LeaveWrite,
         Fail
<1>3. failures \in Nat
  BY DEF TypeOK
<1>. QED
  BY <1>1, <1>2, <1>3

LEMMA SpendNext == SpendInv /\ [Next]_vars => SpendInv'
<1>. SUFFICES ASSUME SpendInv, [Next]_vars PROVE SpendInv'
  OBVIOUS
<1>0. TypeOK /\ TypeOK' /\ SerialInv'
  BY TypeNext, SerialNext DEF SpendInv, SerialInv
<1>1. ASSUME ~overlapped', failures' = 0
      PROVE  TokenSpent /\ \A q, r \in Requests : InFlight(q) /\ InFlight(r) => q = r
  BY <1>0, <1>1, TurnsBefore DEF SpendInv, SerialInv, Alone
<1>. HIDE DEF SerialInv
<1>. USE DisjointAssumption, JoiningAssumption
     DEF TypeOK, Requests, requests, observed, Goto, Finish, Proceed, SpendInv, InFlight
<1>2. ASSUME NEW r \in Requests, Arrive(r), ~overlapped'
      PROVE  \A q \in Requests : ~InFlight(q)
  BY <1>2, Zenon DEF Arrive
<1>3. ASSUME NEW c \in Creates, CreateRead(c) \/ CreateWrite(c) PROVE SpendInv'
  BY <1>0, <1>1, <1>3 DEF CreateRead, CreateWrite, Arrive, TokenSpent
<1>4. ASSUME NEW i \in Invites, InviteRead(i) \/ InviteWrite(i) PROVE SpendInv'
  BY <1>0, <1>1, <1>4 DEF InviteRead, InviteWrite, Arrive, TokenSpent
<1>5. ASSUME NEW i \in Invites, Expire(i) PROVE SpendInv'
  BY <1>0, <1>1, <1>5 DEF Expire, TokenSpent
<1>6. ASSUME NEW j \in Joins, JoinCheckToken(j) PROVE SpendInv'
  <2>1. ASSUME ~overlapped', failures' = 0 PROVE TokenSpent'
    BY <1>0, <1>1, <1>2, <1>6, <2>1 DEF JoinCheckToken, Arrive, TokenSpent
  <2>. QED
    BY <1>0, <1>6, <2>1 DEF JoinCheckToken, Arrive
<1>7. ASSUME NEW j \in Joins, JoinRead(j) PROVE SpendInv'
  BY <1>0, <1>1, <1>7 DEF JoinRead, TokenSpent
<1>8. ASSUME NEW j \in Joins, JoinWrite(j) PROVE SpendInv'
  <2>1. ASSUME ~overlapped', failures' = 0 PROVE TokenSpent'
    BY <1>0, <1>1, <1>8, <2>1 DEF JoinWrite, TokenSpent
  <2>. QED
    BY <1>0, <1>8, <2>1 DEF JoinWrite
<1>9. ASSUME NEW j \in Joins, JoinBurnToken(j) PROVE SpendInv'
  <2>1. ASSUME ~overlapped', failures' = 0 PROVE TokenSpent'
    BY <1>0, <1>1, <1>9, <2>1 DEF JoinBurnToken, TokenSpent
  <2>. QED
    BY <1>0, <1>9, <2>1 DEF JoinBurnToken
<1>10. ASSUME NEW l \in Leaves, LeaveRead(l) \/ LeaveWrite(l) PROVE SpendInv'
  BY <1>0, <1>1, <1>10 DEF LeaveRead, LeaveWrite, Arrive, TokenSpent
<1>11. ASSUME NEW r \in Requests, Fail(r) PROVE SpendInv'
  <2>1. failures' # 0
    BY <1>0, <1>11 DEF Fail
  <2>. QED
    BY <1>0, <1>11, <2>1 DEF Fail
<1>12. CASE UNCHANGED vars
  BY <1>0, <1>1, <1>12 DEF vars, TokenSpent
<1>. QED
  BY <1>3, <1>4, <1>5, <1>6, <1>7, <1>8, <1>9, <1>10, <1>11, <1>12 DEF Next, JoinStep

\* Requests that take turns, none of which stops part way, let one member in
\* for a token, though the token is deleted in a join's last step only.
THEOREM TokenUsedOnce == Spec => []TurnsUseTokenOnce
<1>1. SpendInv => TurnsUseTokenOnce
  BY DEF SpendInv, TokenSpent, TurnsUseTokenOnce
<1>. QED
  BY <1>1, SpendInit, SpendNext, PTL DEF Spec

=============================================================================
