------------------------------ MODULE MCGroups ------------------------------
(* Values of the constants of Groups for the runs of groups_*.cfg. *)
EXTENDS Groups

CONSTANTS olga, ann, ben, eve, c1, c2, c3, i1, i2, j1, j2, j3, l1, l2, l3

\* olga creates a group with room for one more, or seeds it with more members
\* than it has room for; ben may try to take the same name.  eve is not
\* registered.
MCFounding == [c \in Creates |->
  IF c = c1 THEN [owner |-> olga, members |-> {eve}, max |-> 2]
  ELSE IF c = c2 THEN [owner |-> ben, members |-> {olga}, max |-> 3]
  ELSE [owner |-> olga, members |-> {ann}, max |-> 1]]

MCMinter == [i \in Invites |-> IF i = i1 THEN olga ELSE ben]

\* ann and ben hold the same token, eve another.
MCJoining == [j \in Joins |->
  IF j = j1 THEN [clawid |-> ann, token |-> i1]
  ELSE IF j = j2 THEN [clawid |-> ben, token |-> i1]
  ELSE [clawid |-> eve, token |-> i1]]

\* olga removes ann, ann leaves, olga leaves.
MCLeaving == [l \in Leaves |->
  IF l = l1 THEN [operator |-> olga, clawid |-> ann]
  ELSE IF l = l2 THEN [operator |-> ann, clawid |-> ann]
  ELSE [operator |-> olga, clawid |-> olga]]

=============================================================================
