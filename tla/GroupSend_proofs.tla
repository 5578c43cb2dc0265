--------------------------- MODULE GroupSend_proofs ---------------------------
(***************************************************************************)
(* Theorems about group sends, for any sends, groups and changes of the    *)
(* group.                                                                  *)
(***************************************************************************)
EXTENDS GroupSend, TLAPS

(***************************************************************************)
(* Type correctness.                                                       *)
(***************************************************************************)

LEMMA TypeInit == Init => TypeOK
BY DEF Init, TypeOK

\* A send goes on or is answered.
LEMMA ProceedType ==
  ASSUME TypeOK, NEW s \in Sends, NEW to \in {"check", "enqueue"},
         NEW code \in {0, 400, 403, 404, 409}, Proceed(s, to, code)
  PROVE  /\ pc' = [pc EXCEPT ![s] = IF code = 0 THEN to ELSE "done"]
         /\ status' = [status EXCEPT ![s] = IF code = 0 THEN @ ELSE code]
         /\ pc' \in [Sends -> {"new", "group", "check", "enqueue", "answer", "done"}]
         /\ status' \in [Sends -> {0, 200, 400, 403, 404, 409, 500}]
BY DEF TypeOK, Proceed, Finish

LEMMA CheckRefusalType == \A s : CheckRefusal(s) \in {0, 400, 409}
BY DEF CheckRefusal

LEMMA TypeNext == TypeOK /\ [Next]_vars => TypeOK'
<1>. SUFFICES ASSUME TypeOK, [Next]_vars PROVE TypeOK'
  OBVIOUS
<1>. USE FromAssumption, ModeAssumption, ToAssumption, ClientMsgAssumption, GroupAssumption
     DEF TypeOK, Group, Finish, history
<1>1. ASSUME NEW s \in Sends, Arrive(s) PROVE TypeOK'
  BY <1>1 DEF Arrive
<1>2. ASSUME NEW s \in Sends, ReadGroup(s) PROVE TypeOK'
  <2>. DEFINE code == IF ~Exists(group) THEN 404 ELSE IF ~MayPost(From[s], group) THEN 403 ELSE 0
  <2>1. code \in {0, 400, 403, 404, 409}
    OBVIOUS
  <2>2. Proceed(s, "check", code)
    BY <1>2 DEF ReadGroup
  <2>. HIDE DEF code
  <2>. QED
    BY <1>2, <2>1, <2>2, ProceedType DEF ReadGroup
<1>3. ASSUME NEW s \in Sends, CheckDedup(s) PROVE TypeOK'
  <2>1. Targets(s) \subseteq ClawIds
    BY DEF Targets
  <2>. QED
    BY <1>3, <2>1, CheckRefusalType, ProceedType DEF CheckDedup
<1>4. ASSUME NEW s \in Sends, Enqueue(s) PROVE TypeOK'
  BY <1>4 DEF Enqueue
<1>5. ASSUME NEW s \in Sends, MarkDedup(s) PROVE TypeOK'
  BY <1>5 DEF MarkDedup
<1>6. ASSUME NEW s \in Sends, Answer(s) PROVE TypeOK'
  BY <1>6 DEF Answer
<1>7. ASSUME NEW s \in Sends, Fail(s) PROVE TypeOK'
  BY <1>7 DEF Fail
<1>8. ASSUME NEW i \in ClientMsgIds, Lapse(i) PROVE TypeOK'
  BY <1>8 DEF Lapse
<1>9. CASE ChangeGroup
  BY <1>9 DEF ChangeGroup
<1>10. CASE UNCHANGED vars
  BY <1>10 DEF vars
<1>. QED
  BY <1>1, <1>2, <1>3, <1>4, <1>5, <1>6, <1>7, <1>8, <1>9, <1>10 DEF Next, SendStep

\* Every variable of the group-send handler keeps its range.
THEOREM TypeCorrect == Spec => []TypeOK
BY TypeInit, TypeNext, PTL DEF Spec

(***************************************************************************)
(* Whom a send reaches.                                                    *)
(***************************************************************************)

\* The group a send has read is one in which its sender may post.
Permitted(s) ==
  /\ copy[s] \in during[s]
  /\ Exists(copy[s])
  /\ MayPost(From[s], copy[s])

\* A send that is past the policy, or has reached anybody, works from such a
\* group, serves its members only and, when it broadcasts, forgets none.
Addresses(s) ==
  /\ InFlight(s) => group \in during[s]
  /\ pc[s] \in {"new", "group", "check"} => reached[s] = {}
  /\ pc[s] # "enqueue" => todo[s] = {}
  /\ pc[s] \in {"check", "enqueue", "answer"} \/ reached[s] # {} => Permitted(s)
  /\ todo[s] \cup reached[s] \subseteq copy[s].members
  /\ status[s] = 200 => pc[s] = "done" /\ copy[s] \in during[s]
  /\ Mode[s] = "broadcast" /\ (pc[s] \in {"enqueue", "answer"} \/ status[s] = 200)
       => copy[s].members \ {From[s]} \subseteq todo[s] \cup reached[s]

AddressInv == TypeOK /\ \A s \in Sends : Addresses(s)

LEMMA AddressInit == Init => AddressInv
<1>. SUFFICES ASSUME Init, NEW s \in Sends PROVE Addresses(s)
  BY TypeInit DEF AddressInv
<1>. QED
  BY GroupAssumption DEF Init, Addresses, InFlight, Group

\* A step that leaves what Addresses(r) speaks of alone preserves it.
LEMMA AddressUnchanged ==
  ASSUME NEW r \in Sends, Addresses(r),
         pc'[r] = pc[r], todo'[r] = todo[r], copy'[r] = copy[r], status'[r] = status[r],
         reached'[r] = reached[r], during[r] \subseteq during'[r],
         InFlight(r) => group' \in during'[r]
  PROVE  Addresses(r)'
BY DEF Addresses, Permitted, InFlight, Exists, MayPost

\* A group stays permitted when it is written down, or stays written down.
LEMMA PermittedKept ==
  ASSUME NEW s \in Sends, Permitted(s), copy'[s] = copy[s], during'[s] = during[s]
  PROVE  Permitted(s)'
BY DEF Permitted, Exists, MayPost

LEMMA PermittedRead ==
  ASSUME NEW s \in Sends, Exists(group), MayPost(From[s], group), group \in during[s],
         copy'[s] = group, during'[s] = during[s]
  PROVE  Permitted(s)'
BY DEF Permitted, Exists, MayPost

LEMMA AddressNext == AddressInv /\ [Next]_vars => AddressInv'
<1>. SUFFICES ASSUME AddressInv, [Next]_vars, NEW r \in Sends PROVE Addresses(r)'
  BY TypeNext DEF AddressInv
<1>0. TypeOK /\ TypeOK' /\ Addresses(r)
  BY TypeNext DEF AddressInv
<1>. USE GroupAssumption DEF TypeOK, Group, Finish, history
<1>1. ASSUME NEW s \in Sends, Arrive(s) PROVE Addresses(r)'
  <2>1. CASE r = s
    BY <1>0, <1>1, <2>1 DEF Arrive, Addresses, Permitted, InFlight
  <2>2. CASE r # s
    BY <1>0, <1>1, <2>2, AddressUnchanged DEF Arrive, Addresses
  <2>. QED
    BY <2>1, <2>2
<1>2. ASSUME NEW s \in Sends, ReadGroup(s) PROVE Addresses(r)'
  <2>1. CASE r = s
    <3>. DEFINE code == IF ~Exists(group) THEN 404
                        ELSE IF ~MayPost(From[s], group) THEN 403 ELSE 0
    <3>1. code \in {0, 400, 403, 404, 409} /\ Proceed(s, "check", code)
      BY <1>2 DEF ReadGroup
    <3>2. code = 0 => Exists(group) /\ MayPost(From[s], group)
      OBVIOUS
    <3>. HIDE DEF code
    <3>3. /\ pc'[s] = IF code = 0 THEN "check" ELSE "done"
          /\ status'[s] = IF code = 0 THEN status[s] ELSE code
      BY <1>0, <3>1, ProceedType
    <3>4. /\ todo'[s] = todo[s] /\ reached'[s] = reached[s] /\ during'[s] = during[s]
          /\ pc[s] = "group" /\ copy'[s] = group /\ group' = group
      BY <1>0, <1>2 DEF ReadGroup
    <3>5. reached[s] = {} /\ todo[s] = {} /\ group \in during[s] /\ status[s] # 200
      BY <1>0, <2>1, <3>4 DEF Addresses, InFlight
    <3>6. code = 0 => Permitted(s)'
      BY <3>2, <3>4, <3>5, PermittedRead
    <3>. HIDE DEF TypeOK, Group
    <3>. QED
      BY <2>1, <3>1, <3>3, <3>4, <3>5, <3>6 DEF Addresses, InFlight
  <2>2. CASE r # s
    BY <1>0, <1>2, <2>2, AddressUnchanged DEF ReadGroup, Proceed, Addresses
  <2>. QED
    BY <2>1, <2>2
<1>3. ASSUME NEW s \in Sends, CheckDedup(s) PROVE Addresses(r)'
  <2>1. CASE r = s
    <3>. DEFINE code == CheckRefusal(s)
    <3>1. code \in {0, 400, 409}
      BY CheckRefusalType
    <3>2. /\ pc'[s] = IF code = 0 THEN "enqueue" ELSE "done"
          /\ status'[s] = IF code = 0 THEN status[s] ELSE code
      BY <1>0, <1>3, <3>1, ProceedType DEF CheckDedup
    <3>3. /\ todo'[s] = IF code = 0 THEN Targets(s) ELSE {}
          /\ reached'[s] = reached[s] /\ during'[s] = during[s] /\ copy'[s] = copy[s]
          /\ pc[s] = "check" /\ group' = group
      BY <1>0, <1>3 DEF CheckDedup
    <3>. HIDE DEF code, TypeOK, Group
    <3>4. reached[s] = {} /\ group \in during[s] /\ Permitted(s) /\ status[s] # 200
      BY <1>0, <2>1, <3>3 DEF Addresses, InFlight
    <3>5. Permitted(s)'
      BY <3>3, <3>4, PermittedKept
    <3>6. /\ Targets(s) \subseteq copy[s].members
          /\ Mode[s] = "broadcast" => copy[s].members \ {From[s]} \subseteq Targets(s)
      BY DEF Targets
    <3>. QED
      BY <2>1, <3>1, <3>2, <3>3, <3>4, <3>5, <3>6 DEF Addresses, InFlight
  <2>2. CASE r # s
    BY <1>0, <1>3, <2>2, AddressUnchanged DEF CheckDedup, Proceed, Addresses
  <2>. QED
    BY <2>1, <2>2
<1>4. ASSUME NEW s \in Sends, Enqueue(s) PROVE Addresses(r)'
  <2>1. CASE r = s
    <3>1. Permitted(s)'
      BY <1>0, <1>4, <2>1, PermittedKept DEF Enqueue, Addresses
    <3>. QED
      BY <1>0, <1>4, <2>1, <3>1 DEF Enqueue, Addresses, InFlight
  <2>2. CASE r # s
    BY <1>0, <1>4, <2>2, AddressUnchanged DEF Enqueue, Addresses
  <2>. QED
    BY <2>1, <2>2
<1>5. ASSUME NEW s \in Sends, MarkDedup(s) PROVE Addresses(r)'
  <2>1. CASE r = s
    <3>1. Permitted(s)'
      BY <1>0, <1>5, <2>1, PermittedKept DEF MarkDedup, Addresses
    <3>. QED
      BY <1>0, <1>5, <2>1, <3>1 DEF MarkDedup, Addresses, InFlight
  <2>2. CASE r # s
    BY <1>0, <1>5, <2>2, AddressUnchanged DEF MarkDedup, Addresses
  <2>. QED
    BY <2>1, <2>2
<1>6. ASSUME NEW s \in Sends, Answer(s) PROVE Addresses(r)'
  <2>1. CASE r = s
    <3>1. Permitted(s)'
      BY <1>0, <1>6, <2>1, PermittedKept DEF Answer, Addresses
    <3>2. /\ pc'[s] = "done" /\ status'[s] = 200 /\ pc[s] = "answer" /\ todo'[s] = todo[s]
          /\ reached'[s] = reached[s] /\ copy'[s] = copy[s]
      BY <1>0, <1>6 DEF Answer
    <3>. HIDE DEF TypeOK, Group
    <3>. QED
      BY <1>0, <2>1, <3>1, <3>2 DEF Addresses, InFlight, Permitted
  <2>2. CASE r # s
    BY <1>0, <1>6, <2>2, AddressUnchanged DEF Answer, Addresses
  <2>. QED
    BY <2>1, <2>2
<1>7. ASSUME NEW s \in Sends, Fail(s) PROVE Addresses(r)'
  <2>1. CASE r = s
    <3>1. Permitted(s) => Permitted(s)'
      BY <1>7, PermittedKept DEF Fail
    <3>. QED
      BY <1>0, <1>7, <2>1, <3>1 DEF Fail, Addresses, InFlight
  <2>2. CASE r # s
    BY <1>0, <1>7, <2>2, AddressUnchanged DEF Fail, Addresses
  <2>. QED
    BY <2>1, <2>2
<1>8. ASSUME NEW i \in ClientMsgIds, Lapse(i) PROVE Addresses(r)'
  BY <1>0, <1>8, AddressUnchanged DEF Lapse, Addresses
<1>9. CASE ChangeGroup
  BY <1>0, <1>9, AddressUnchanged DEF ChangeGroup
<1>10. CASE UNCHANGED vars
  BY <1>0, <1>10, AddressUnchanged DEF vars, Addresses
<1>. QED
  BY <1>1, <1>2, <1>3, <1>4, <1>5, <1>6, <1>7, <1>8, <1>9, <1>10 DEF Next, SendStep

\* Whatever the changes of the group, a send reaches only members of one group
\* value, current while it was in flight, in which its sender may post.
THEOREM ReachedAudience == Spec => []ReachedWereAudience
<1>1. AddressInv => ReachedWereAudience
  BY DEF AddressInv, Addresses, Permitted, ReachedWereAudience
<1>. QED
  BY <1>1, AddressInit, AddressNext, PTL DEF Spec

\* Whatever the changes of the group, a broadcast answered 200 has reached
\* everybody who was a member all the time.
THEOREM BroadcastComplete == Spec => []BroadcastReachesAll
<1>1. AddressInv => BroadcastReachesAll
  BY DEF AddressInv, Addresses, BroadcastReachesAll
<1>. QED
  BY <1>1, AddressInit, AddressNext, PTL DEF Spec

(***************************************************************************)
(* What the dedup record means.                                            *)
(***************************************************************************)

Done(i) == \E r \in complete : ClientMsg[r] = i

\* A dedup record exists only after a send that went through.
DedupInv ==
  /\ TypeOK
  /\ \A i \in marked : Done(i)
  /\ DuplicateWasComplete

LEMMA DedupInit == Init => DedupInv
BY TypeInit DEF Init, DedupInv, DuplicateWasComplete

LEMMA DedupNext == DedupInv /\ [Next]_vars => DedupInv'
<1>. SUFFICES ASSUME DedupInv, [Next]_vars PROVE DedupInv'
  OBVIOUS
<1>0. TypeOK /\ TypeOK'
  BY TypeNext DEF DedupInv
<1>1. complete \subseteq complete'
  BY DEF Next, SendStep, vars, history, Arrive, ReadGroup, CheckDedup, Enqueue, MarkDedup,
         Answer, Fail, Lapse, ChangeGroup
<1>2. \A i \in marked' : Done(i)'
  <2>1. ASSUME NEW s \in Sends, MarkDedup(s) PROVE \A i \in marked' : Done(i)'
    BY <1>1, <2>1 DEF MarkDedup, Done, DedupInv
  <2>2. CASE ~\E s \in Sends : MarkDedup(s)
    <3>1. marked' \subseteq marked
      BY <2>2 DEF Next, SendStep, vars, history, Arrive, ReadGroup, CheckDedup, Enqueue,
                  Answer, Fail, Lapse, ChangeGroup
    <3>. QED
      BY <1>1, <3>1 DEF Done, DedupInv
  <2>. QED
    BY <2>1, <2>2
<1>3. DuplicateWasComplete'
  <2>. SUFFICES ASSUME NEW s \in Sends, status'[s] = 409 PROVE Done(ClientMsg[s])'
    BY DEF DuplicateWasComplete, Done
  <2>1. CASE status[s] = 409
    BY <1>1, <2>1 DEF DedupInv, DuplicateWasComplete, Done
  <2>2. CASE status[s] # 409
    <3>1. CheckDedup(s) /\ ClientMsg[s] \in marked
      BY <1>0, <2>2
         DEF Next, SendStep, vars, history, Arrive, ReadGroup, CheckDedup, CheckRefusal, Enqueue,
             MarkDedup, Answer, Fail, Lapse, ChangeGroup, Finish, Proceed, TypeOK
    <3>. QED
      BY <1>1, <3>1 DEF DedupInv, Done
  <2>. QED
    BY <2>1, <2>2
<1>. QED
  BY <1>0, <1>2, <1>3 DEF DedupInv

\* A sender told that its message is a duplicate can rely on some send having
\* enqueued for all its targets, whichever sends stopped part way before.
THEOREM DuplicateComplete == Spec => []DuplicateWasComplete
<1>1. DedupInv => DuplicateWasComplete
  BY DEF DedupInv
<1>. QED
  BY <1>1, DedupInit, DedupNext, PTL DEF Spec

(***************************************************************************)
(* Sends that take turns.                                                  *)
(***************************************************************************)

\* The client_msg_id has been used by one send at a time, within its TTL.
InTurns(i) == i \notin overlapped \cup lapsed

\* Two sends in flight with one client_msg_id have overlapped.
Overlap ==
  \A r, s \in Sends :
    r # s /\ ClientMsg[r] = ClientMsg[s] /\ InFlight(r) /\ InFlight(s) => ClientMsg[s] \in overlapped

\* A send in turns enqueues only while its client_msg_id has no record, and
\* has recorded it when it has reached somebody and stopped enqueueing.
Recorded(s) ==
  /\ pc[s] = "enqueue" => ClientMsg[s] \notin marked
  /\ pc[s] # "enqueue" /\ reached[s] # {} => ClientMsg[s] \in marked

OnceInv ==
  /\ Overlap
  /\ failures = 0 =>
       /\ \A s \in Sends : InTurns(ClientMsg[s]) => Recorded(s)
       /\ \A r, s \in Sends : r # s /\ ClientMsg[r] = ClientMsg[s] /\ InTurns(ClientMsg[s])
                                => reached[r] = {} \/ reached[s] = {}

LEMMA OnceInit == Init => OnceInv
BY DEF Init, OnceInv, Overlap, Recorded, InFlight

\* Only an arrival puts a send in flight.
LEMMA OverlapNext == TypeOK /\ Overlap /\ [Next]_vars => Overlap'
<1>. SUFFICES ASSUME TypeOK, Overlap, [Next]_vars PROVE Overlap'
  OBVIOUS
<1>1. ASSUME NEW s \in Sends, Arrive(s) PROVE Overlap'
  BY <1>1 DEF Arrive, Overlap, InFlight, TypeOK
<1>2. CASE ~\E s \in Sends : Arrive(s)
  <2>1. overlapped' = overlapped
    BY <1>2 DEF Next, SendStep, vars, history, ReadGroup, CheckDedup, Enqueue, MarkDedup,
                Answer, Fail, Lapse, ChangeGroup
  <2>2. ASSUME NEW s \in Sends PROVE InFlight(s)' => InFlight(s)
    BY <1>2, <2>2 DEF Next, SendStep, vars, history, ReadGroup, CheckDedup, Enqueue, MarkDedup,
                Answer, Fail, Lapse, ChangeGroup, Finish, Proceed, InFlight, TypeOK
  <2>. QED
    BY <2>1, <2>2 DEF Overlap
<1>. QED
  BY <1>1, <1>2

\* A step that adds no record, ends no enqueueing and reaches nobody new.
LEMMA OnceUnchanged ==
  ASSUME OnceInv, Overlap',
         failures' = failures, overlapped \subseteq overlapped', lapsed \subseteq lapsed',
         reached' = reached, marked' = marked,
         \A s \in Sends : pc'[s] = "enqueue" <=> pc[s] = "enqueue"
  PROVE  OnceInv'
BY DEF OnceInv, InTurns, Recorded

LEMMA OnceNext == AddressInv /\ OnceInv /\ [Next]_vars => OnceInv'
<1>. SUFFICES ASSUME AddressInv, OnceInv, [Next]_vars PROVE OnceInv'
  OBVIOUS
<1>0. TypeOK /\ Overlap /\ Overlap'
  BY OverlapNext DEF AddressInv, OnceInv
<1>. USE DEF TypeOK, history, Finish
<1>1. ASSUME NEW s \in Sends, Arrive(s) PROVE OnceInv'
  BY <1>0, <1>1, OnceUnchanged DEF Arrive
<1>2. ASSUME NEW s \in Sends, ReadGroup(s) PROVE OnceInv'
  BY <1>0, <1>2, OnceUnchanged DEF ReadGroup, Proceed
<1>3. ASSUME NEW s \in Sends, CheckDedup(s) PROVE OnceInv'
  <2>1. reached[s] = {} /\ pc[s] = "check"
    BY <1>3 DEF AddressInv, Addresses, CheckDedup
  <2>2. pc'[s] = "enqueue" => ClientMsg[s] \notin marked
    BY <1>0, <1>3 DEF CheckDedup, CheckRefusal, Proceed
  <2>3. \A r \in Sends \ {s} : pc'[r] = pc[r]
    BY <1>0, <1>3 DEF CheckDedup, Proceed
  <2>4. /\ UNCHANGED <<marked, reached, overlapped, lapsed, failures>>
    BY <1>3 DEF CheckDedup
  <2>. QED
    BY <1>0, <2>1, <2>2, <2>3, <2>4 DEF OnceInv, InTurns, Recorded
<1>4. ASSUME NEW s \in Sends, Enqueue(s) PROVE OnceInv'
  <2>1. /\ UNCHANGED <<marked, pc, overlapped, lapsed, failures>>
        /\ pc[s] = "enqueue"
        /\ \A r \in Sends \ {s} : reached'[r] = reached[r]
    BY <1>0, <1>4 DEF Enqueue
  <2>2. ASSUME failures = 0, NEW r \in Sends \ {s}, ClientMsg[r] = ClientMsg[s], InTurns(ClientMsg[s])
        PROVE  reached[r] = {}
    <3>1. ~InFlight(r)
      BY <1>0, <2>1, <2>2 DEF Overlap, InFlight, InTurns
    <3>2. Recorded(r) /\ Recorded(s)
      BY <2>2 DEF OnceInv
    <3>. QED
      BY <2>1, <2>2, <3>1, <3>2 DEF Recorded, InFlight
  <2>. QED
    BY <1>0, <2>1, <2>2 DEF OnceInv, InTurns, Recorded
<1>5. ASSUME NEW s \in Sends, MarkDedup(s) PROVE OnceInv'
  <2>1. /\ UNCHANGED <<reached, overlapped, lapsed, failures>>
        /\ marked' = marked \cup {ClientMsg[s]}
        /\ pc[s] = "enqueue" /\ pc'[s] # "enqueue"
        /\ \A r \in Sends \ {s} : pc'[r] = pc[r]
    BY <1>0, <1>5 DEF MarkDedup
  <2>2. ASSUME failures = 0, NEW r \in Sends, InTurns(ClientMsg[r]) PROVE Recorded(r)'
    <3>1. Recorded(r)
      BY <2>2 DEF OnceInv
    <3>2. CASE ClientMsg[r] = ClientMsg[s]
      <4>1. r = s \/ pc[r] # "enqueue"
        BY <1>0, <2>1, <2>2, <3>2 DEF Overlap, InFlight, InTurns
      <4>. QED
        BY <2>1, <3>2, <4>1 DEF Recorded
    <3>3. CASE ClientMsg[r] # ClientMsg[s]
      BY <2>1, <3>1, <3>3 DEF Recorded
    <3>. QED
      BY <3>2, <3>3
  <2>. QED
    BY <1>0, <2>1, <2>2 DEF OnceInv, InTurns
<1>6. ASSUME NEW s \in Sends, Answer(s) PROVE OnceInv'
  BY <1>0, <1>6, OnceUnchanged DEF Answer
<1>7. ASSUME NEW s \in Sends, Fail(s) PROVE OnceInv'
  BY <1>0, <1>7 DEF Fail, OnceInv
<1>8. ASSUME NEW i \in ClientMsgIds, Lapse(i) PROVE OnceInv'
  BY <1>0, <1>8 DEF Lapse, OnceInv, InTurns, Recorded
<1>9. CASE ChangeGroup
  BY <1>0, <1>9, OnceUnchanged DEF ChangeGroup
<1>10. CASE UNCHANGED vars
  BY <1>0, <1>10, OnceUnchanged DEF vars
<1>. QED
  BY <1>1, <1>2, <1>3, <1>4, <1>5, <1>6, <1>7, <1>8, <1>9, <1>10 DEF Next, SendStep

\* Without a stop part way, sends with one client_msg_id that take turns within
\* the dedup window reach nobody twice, whatever the group does.
THEOREM ReachedOnce == Spec => []ReachedOnceInTurns
<1>1. OnceInv => ReachedOnceInTurns
  BY DEF OnceInv, InTurns, ReachedOnceInTurns
<1>. QED
  BY <1>1, AddressInit, AddressNext, OnceInit, OnceNext, PTL DEF Spec

===============================================================================
