------------------------------ MODULE GroupSend ------------------------------
(***************************************************************************)
(* POST /group/send (broker/src/routes/group/send.js with                  *)
(* middleware/dedup.js), for the requests to one group: the group is read  *)
(* once, the sender checked against its policy, the client_msg_id looked   *)
(* up, the message enqueued for one target after the other, and the        *)
(* client_msg_id recorded last.  Meanwhile other handlers replace the      *)
(* group, other sends overlap, and any request may stop part way.          *)
(*                                                                         *)
(* Which groups the other handlers write is the business of module Groups; *)
(* here the group changes to any value of GroupValues, deletion included.  *)
(* enqueue is one step: module Mailbox has its steps.  Requests refused    *)
(* before the first read (401, 400, 403 on from) touch no state and are    *)
(* left out.                                                               *)
(***************************************************************************)
EXTENDS Naturals, FiniteSets

CONSTANTS
  Sends,         \* POST /group/send requests
  ClawIds,
  From,          \* the sender of each send
  Mode,          \* "broadcast" or "unicast"
  To,            \* the ClawIDs a unicast names; the CLI names one
  ClientMsgIds,
  ClientMsg,     \* client_msg_id of each send: a retry repeats it
  GroupValues,   \* the values group:{group_id} takes; owner None: no group
  None,
  MaxChanges,    \* bound: how often the group is replaced
  MaxFailures    \* bound: how many sends stop part way

Group == [owner : ClawIds \cup {None}, members : SUBSET ClawIds,
          policy : {"owner_only", "all_members", "allowlist", "other"}, allowed : SUBSET ClawIds]

ASSUME FromAssumption == From \in [Sends -> ClawIds]
ASSUME ModeAssumption == Mode \in [Sends -> {"broadcast", "unicast"}]
ASSUME ToAssumption == To \in [Sends -> SUBSET ClawIds]
ASSUME ClientMsgAssumption == ClientMsg \in [Sends -> ClientMsgIds]
ASSUME GroupAssumption == GroupValues \subseteq Group
ASSUME NoneAssumption == None \notin ClawIds
ASSUME BoundAssumption == MaxChanges \in Nat /\ MaxFailures \in Nat

VARIABLES
  group,       \* group:{group_id}
  marked,      \* the client_msg_ids with a dedup record
  pc,          \* where each send stands
  todo,        \* the targets it has still to enqueue for
  copy,        \* the group it has read
  status,      \* HTTP status of its answer, 0 before
  reached,     \* the members whose mailbox holds its message
  during,      \* history: the groups there were from its arrival to its answer
  complete,    \* history: the sends that have enqueued for all their targets
  overlapped,  \* history: client_msg_ids that two sends in flight shared
  lapsed,      \* history: client_msg_ids whose dedup record has expired
  changes, failures

history == <<during, complete, overlapped, lapsed>>
vars == <<group, marked, pc, todo, copy, status, reached, history, changes, failures>>

Exists(g) == g.owner # None

Init ==
  /\ group \in GroupValues
  /\ marked = {}
  /\ pc = [s \in Sends |-> "new"]
  /\ todo = [s \in Sends |-> {}]
  /\ copy = [s \in Sends |-> group]
  /\ status = [s \in Sends |-> 0]
  /\ reached = [s \in Sends |-> {}]
  /\ during = [s \in Sends |-> {}]
  /\ complete = {}
  /\ overlapped = {}
  /\ lapsed = {}
  /\ changes = 0
  /\ failures = 0

InFlight(s) == pc[s] \notin {"new", "done"}

Finish(s, code) ==
  /\ pc' = [pc EXCEPT ![s] = "done"]
  /\ status' = [status EXCEPT ![s] = code]

Proceed(s, to, code) ==
  IF code = 0 THEN pc' = [pc EXCEPT ![s] = to] /\ UNCHANGED status
  ELSE Finish(s, code)

(***************************************************************************)
(* handleGroupSend.                                                        *)
(***************************************************************************)

Arrive(s) ==
  /\ pc[s] = "new"
  /\ pc' = [pc EXCEPT ![s] = "group"]
  /\ during' = [during EXCEPT ![s] = {group}]
  /\ overlapped' = IF \E r \in Sends : InFlight(r) /\ ClientMsg[r] = ClientMsg[s]
                   THEN overlapped \cup {ClientMsg[s]} ELSE overlapped
  /\ UNCHANGED <<group, marked, todo, copy, status, reached, complete, lapsed, changes, failures>>

\* send_policy.  Group creation stores any text for it, and a text that is none
\* of the three lets everybody post.
MayPost(a, g) ==
  CASE g.policy = "owner_only" -> a = g.owner
    [] g.policy = "all_members" -> a \in g.members
    [] g.policy = "allowlist" -> a \in g.allowed
    [] g.policy = "other" -> TRUE

ReadGroup(s) ==
  /\ pc[s] = "group"
  /\ copy' = [copy EXCEPT ![s] = group]
  /\ Proceed(s, "check", IF ~Exists(group) THEN 404
                         ELSE IF ~MayPost(From[s], group) THEN 403 ELSE 0)
  /\ UNCHANGED <<group, marked, todo, reached, history, changes, failures>>

\* Fault: a unicast goes to whomever it names.
TargetsUnfiltered(s) ==
  IF Mode[s] = "broadcast" THEN copy[s].members \ {From[s]} ELSE To[s] \ {From[s]}

Targets(s) ==
  IF Mode[s] = "broadcast" THEN copy[s].members \ {From[s]}
  ELSE (To[s] \cap copy[s].members) \ {From[s]}

\* Fault: the dedup record is written when it is found missing.
CheckAndMark(s) ==
  /\ pc[s] = "check"
  /\ Proceed(s, "enqueue", IF ClientMsg[s] \in marked THEN 409 ELSE 0)
  /\ todo' = [todo EXCEPT ![s] = IF ClientMsg[s] \in marked THEN {} ELSE Targets(s)]
  /\ marked' = marked \cup {ClientMsg[s]}
  /\ UNCHANGED <<group, copy, reached, history, changes, failures>>

\* checkDedup, and only then the test that a unicast names somebody.
CheckRefusal(s) ==
  IF ClientMsg[s] \in marked THEN 409
  ELSE IF Mode[s] = "unicast" /\ To[s] = {} THEN 400
  ELSE 0

CheckDedup(s) ==
  /\ pc[s] = "check"
  /\ Proceed(s, "enqueue", CheckRefusal(s))
  /\ todo' = [todo EXCEPT ![s] = IF CheckRefusal(s) = 0 THEN Targets(s) ELSE {}]
  /\ UNCHANGED <<group, marked, copy, reached, history, changes, failures>>

\* The targets are taken in the order of the member list, whatever it is.
Enqueue(s) ==
  /\ pc[s] = "enqueue"
  /\ \E t \in todo[s] :
       /\ todo' = [todo EXCEPT ![s] = @ \ {t}]
       /\ reached' = [reached EXCEPT ![s] = @ \cup {t}]
  /\ UNCHANGED <<group, marked, pc, copy, status, history, changes, failures>>

\* Fault: the answer is given without the dedup record.
MarkNothing(s) ==
  /\ pc[s] = "enqueue"
  /\ todo[s] = {}
  /\ pc' = [pc EXCEPT ![s] = "answer"]
  /\ complete' = complete \cup {s}
  /\ UNCHANGED <<group, marked, todo, copy, status, reached, during, overlapped, lapsed, changes, failures>>

\* Fault: the first target that is served ends the loop.
MarkAfterFirst(s) ==
  /\ pc[s] = "enqueue"
  /\ todo[s] # Targets(s)
  /\ pc' = [pc EXCEPT ![s] = "answer"]
  /\ marked' = marked \cup {ClientMsg[s]}
  /\ UNCHANGED <<group, todo, copy, status, reached, history, changes, failures>>

MarkDedup(s) ==
  /\ pc[s] = "enqueue"
  /\ todo[s] = {}
  /\ pc' = [pc EXCEPT ![s] = "answer"]
  /\ marked' = marked \cup {ClientMsg[s]}
  /\ complete' = complete \cup {s}
  /\ UNCHANGED <<group, todo, copy, status, reached, during, overlapped, lapsed, changes, failures>>

Answer(s) ==
  /\ pc[s] = "answer"
  /\ Finish(s, 200)
  /\ UNCHANGED <<group, marked, todo, copy, reached, history, changes, failures>>

\* A storage call throws, the broker stops, or the answer is lost.
Fail(s) ==
  /\ failures < MaxFailures
  /\ InFlight(s)
  /\ Finish(s, 500)
  /\ todo' = [todo EXCEPT ![s] = {}]
  /\ failures' = failures + 1
  /\ UNCHANGED <<group, marked, copy, reached, history, changes>>

(***************************************************************************)
(* The rest of the broker.                                                 *)
(***************************************************************************)

\* The TTL of a dedup record ends.
Lapse(i) ==
  /\ i \in marked
  /\ marked' = marked \ {i}
  /\ lapsed' = lapsed \cup {i}
  /\ UNCHANGED <<group, pc, todo, copy, status, reached, during, complete, overlapped, changes, failures>>

\* A create, join or leave writes the group, or a leave deletes it.
ChangeGroup ==
  /\ changes < MaxChanges
  /\ group' \in GroupValues \ {group}
  /\ during' = [s \in Sends |-> IF InFlight(s) THEN during[s] \cup {group'} ELSE during[s]]
  /\ changes' = changes + 1
  /\ UNCHANGED <<marked, pc, todo, copy, status, reached, complete, overlapped, lapsed, failures>>

SendStep(s) ==
  Arrive(s) \/ ReadGroup(s) \/ CheckDedup(s) \/ Enqueue(s) \/ MarkDedup(s) \/ Answer(s)

Next ==
  \/ \E s \in Sends : SendStep(s) \/ Fail(s)
  \/ \E i \in ClientMsgIds : Lapse(i)
  \/ ChangeGroup

Spec == Init /\ [][Next]_vars

(***************************************************************************)
(* Properties.                                                             *)
(***************************************************************************)

\* Every variable stays in its range.
TypeOK ==
  /\ group \in GroupValues
  /\ marked \subseteq ClientMsgIds
  /\ pc \in [Sends -> {"new", "group", "check", "enqueue", "answer", "done"}]
  /\ todo \in [Sends -> SUBSET ClawIds]
  /\ copy \in [Sends -> GroupValues]
  /\ status \in [Sends -> {0, 200, 400, 403, 404, 409, 500}]
  /\ reached \in [Sends -> SUBSET ClawIds]
  /\ during \in [Sends -> SUBSET GroupValues]
  /\ complete \subseteq Sends
  /\ overlapped \subseteq ClientMsgIds
  /\ lapsed \subseteq ClientMsgIds
  /\ changes \in Nat
  /\ failures \in Nat

\* However the group changes while a send is in flight, it reaches only
\* ClawIDs that were members of one and the same group value in which its
\* sender was allowed to post: never members that joined after the sender had
\* been removed.
ReachedWereAudience ==
  \A s \in Sends : reached[s] # {} =>
    \E g \in during[s] : Exists(g) /\ MayPost(From[s], g) /\ reached[s] \subseteq g.members

\* A broadcast that was answered 200 has reached everybody who was a member
\* from its arrival to its answer.
BroadcastReachesAll ==
  \A s \in Sends : status[s] = 200 /\ Mode[s] = "broadcast" =>
    \A a \in ClawIds \ {From[s]} : (\A g \in during[s] : a \in g.members) => a \in reached[s]

\* A sender that is told its message is a duplicate may stop retrying: some
\* send with this client_msg_id has enqueued for every one of its targets.
DuplicateWasComplete ==
  \A s \in Sends : status[s] = 409 => \E r \in complete : ClientMsg[r] = ClientMsg[s]

\* Sends with one client_msg_id that take turns and do not stop part way reach
\* nobody twice within the dedup window.
ReachedOnceInTurns ==
  failures = 0 => \A r, s \in Sends :
    /\ r # s /\ ClientMsg[r] = ClientMsg[s]
    /\ ClientMsg[r] \notin overlapped \cup lapsed
    => reached[r] \cap reached[s] = {}

=============================================================================
