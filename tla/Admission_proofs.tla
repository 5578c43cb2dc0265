---------------------------- MODULE Admission_proofs ----------------------------
(***************************************************************************)
(* Theorems about sending, for any sends, retries, allowlist edits and     *)
(* failures, and for any cooldown and deduplication window.                *)
(***************************************************************************)
EXTENDS Admission, TLAPS

(***************************************************************************)
(* Type correctness.                                                       *)
(***************************************************************************)

LEMMA TypeInit == Init => TypeOK
BY DEF Init, TypeOK, NothingSeen

\* What a read returns fits the field of `seen' that it fills.
LEMMA StoredType ==
  ASSUME TypeOK, NEW s \in Sends
  PROVE  /\ Stored("record", s) \in BOOLEAN
         /\ Stored("allowlist", s) \in {Unset} \cup SUBSET Senders
         /\ Stored("dedup", s) \in BOOLEAN
         /\ Stored("rate", s) \in Nat
BY FromAssumption, ClientMsgAssumption DEF TypeOK, Stored

Seen == [record : BOOLEAN, allowlist : {Unset} \cup SUBSET Senders, dedup : BOOLEAN, rate : Nat]

LEMMA FieldWritten ==
  ASSUME NEW v \in Seen, NEW b \in BOOLEAN, NEW l \in {Unset} \cup SUBSET Senders, NEW n \in Nat
  PROVE  /\ [v EXCEPT !["record"] = b] \in Seen
         /\ [v EXCEPT !["allowlist"] = l] \in Seen
         /\ [v EXCEPT !["dedup"] = b] \in Seen
         /\ [v EXCEPT !["rate"] = n] \in Seen
BY DEF Seen

LEMMA RefusalType == \A s : Refusal(s) \in {0, 404, 409, 429, 500}
BY DEF Refusal

LEMMA EditedType ==
  ASSUME TypeOK, NEW e \in Edits
  PROVE  Edited(e) \in SUBSET Senders
BY EditAssumption DEF TypeOK, Edited

LEMMA TypeNext == TypeOK /\ [Next]_vars => TypeOK'
<1>. SUFFICES ASSUME TypeOK, [Next]_vars PROVE TypeOK'
  OBVIOUS
<1>. USE FromAssumption, ClientMsgAssumption, LimitAssumption
     DEF TypeOK, records, history, Reads, Writes
<1>1. ASSUME NEW s \in Sends, Receive(s) PROVE TypeOK'
  <2>1. Admits(allowlist, From[s]) \in BOOLEAN
    BY DEF Admits
  <2>. QED
    BY <1>1, <2>1 DEF Receive
<1>2. ASSUME NEW s \in Sends, NEW k \in Reads, Read(s, k) PROVE TypeOK'
  <2>. DEFINE value == [seen[s] EXCEPT ![k] = Stored(k, s)]
  <2>1. seen[s] \in Seen
    BY DEF Seen
  <2>2. value \in Seen
    BY <2>1, StoredType, FieldWritten
  <2>3. seen' = [seen EXCEPT ![s] = value]
    BY <1>2 DEF Read
  <2>. HIDE DEF value
  <2>4. seen' \in [Sends -> Seen]
    BY <2>2, <2>3 DEF Seen
  <2>. QED
    BY <1>2, <2>4 DEF Read, Seen
<1>3. ASSUME NEW s \in Sends, Decide(s) PROVE TypeOK'
  <2>. DEFINE code == Refusal(s)
  <2>1. code \in {0, 404, 409, 429, 500}
    BY RefusalType
  <2>2. \/ status' = [status EXCEPT ![s] = code] /\ pc' = [pc EXCEPT ![s] = "done"] /\ taken' = taken
        \/ status' = status /\ pc' = [pc EXCEPT ![s] = "enqueue"] /\ taken' = [taken EXCEPT ![s] = now]
    BY <1>3, Zenon DEF Decide
  <2>3. UNCHANGED <<now, registered, allowlist, dedup, rate, todo, seen, queued, edit, list, before,
                    admits, overlapped, failures>>
    BY <1>3 DEF Decide
  <2>. HIDE DEF code
  <2>4. status' \in [Sends -> {0, 200, 404, 409, 429, 500}]
    BY <2>1, <2>2
  <2>5. pc' \in [Sends -> {"new", "reading", "enqueue", "marking", "done"}]
    <3>1. pc' = [pc EXCEPT ![s] = "done"] \/ pc' = [pc EXCEPT ![s] = "enqueue"]
      BY <2>2
    <3>. QED
      BY <3>1
  <2>6. taken' \in [Sends -> Nat]
    <3>1. taken' = taken \/ taken' = [taken EXCEPT ![s] = now]
      BY <2>2
    <3>2. taken \in [Sends -> Nat] /\ now \in Nat
      OBVIOUS
    <3>. HIDE DEF TypeOK
    <3>. QED
      BY <3>1, <3>2
  <2>. QED
    BY <2>3, <2>4, <2>5, <2>6
<1>4. ASSUME NEW s \in Sends, Enqueue(s) PROVE TypeOK'
  BY <1>4 DEF Enqueue
<1>5. ASSUME NEW s \in Sends, MarkDedup(s) PROVE TypeOK'
  BY <1>5 DEF MarkDedup
<1>6. ASSUME NEW s \in Sends, MarkRate(s) PROVE TypeOK'
  BY <1>6 DEF MarkRate
<1>7. ASSUME NEW s \in Sends, Answer(s) PROVE TypeOK'
  BY <1>7 DEF Answer
<1>8. ASSUME NEW s \in Sends, Fail(s) PROVE TypeOK'
  BY <1>8 DEF Fail
<1>9. ASSUME NEW e \in Edits, EditRead(e) PROVE TypeOK'
  BY <1>9 DEF EditRead
<1>10. ASSUME NEW e \in Edits, EditWrite(e) PROVE TypeOK'
  <2>1. admits' \in [Sends -> BOOLEAN]
    BY <1>10 DEF EditWrite, Admits
  <2>. QED
    BY <1>10, <2>1, EditedType DEF EditWrite
<1>11. CASE Tick
  BY <1>11 DEF Tick
<1>12. CASE UNCHANGED vars
  BY <1>12 DEF vars
<1>. QED
  BY <1>1, <1>2, <1>3, <1>4, <1>5, <1>6, <1>7, <1>8, <1>9, <1>10, <1>11, <1>12
     DEF Next, SendStep

\* Every variable of the send handler keeps its range.
THEOREM TypeCorrect == Spec => []TypeOK
BY TypeInit, TypeNext, PTL DEF Spec

(***************************************************************************)
(* A client_msg_id is taken only by a message that was stored.             *)
(***************************************************************************)

StoredFirst ==
  /\ TypeOK
  /\ \A s \in Sends : pc[s] = "marking" => s \in queued
  /\ DedupMeansQueued

LEMMA StoredFirstInit == Init => StoredFirst
BY TypeInit DEF Init, StoredFirst, DedupMeansQueued

LEMMA StoredFirstNext == StoredFirst /\ [Next]_vars => StoredFirst'
<1>. SUFFICES ASSUME StoredFirst, [Next]_vars PROVE StoredFirst'
  OBVIOUS
<1>0. TypeOK /\ TypeOK'
  BY TypeNext DEF StoredFirst
<1>. USE ClientMsgAssumption DEF StoredFirst, DedupMeansQueued, TypeOK, records
<1>1. ASSUME NEW s \in Sends, Receive(s) PROVE StoredFirst'
  BY <1>0, <1>1 DEF Receive
<1>2. ASSUME NEW s \in Sends, NEW k \in Reads, Read(s, k) PROVE StoredFirst'
  BY <1>0, <1>2 DEF Read
<1>3. ASSUME NEW s \in Sends, Decide(s) PROVE StoredFirst'
  BY <1>0, <1>3 DEF Decide
<1>4. ASSUME NEW s \in Sends, Enqueue(s) PROVE StoredFirst'
  BY <1>0, <1>4 DEF Enqueue
<1>5. ASSUME NEW s \in Sends, MarkDedup(s) PROVE StoredFirst'
  BY <1>0, <1>5 DEF MarkDedup
<1>6. ASSUME NEW s \in Sends, MarkRate(s) PROVE StoredFirst'
  BY <1>0, <1>6 DEF MarkRate
<1>7. ASSUME NEW s \in Sends, Answer(s) PROVE StoredFirst'
  BY <1>0, <1>7 DEF Answer
<1>8. ASSUME NEW s \in Sends, Fail(s) PROVE StoredFirst'
  BY <1>0, <1>8 DEF Fail
<1>9. ASSUME NEW e \in Edits, EditRead(e) \/ EditWrite(e) PROVE StoredFirst'
  BY <1>0, <1>9 DEF EditRead, EditWrite
<1>10. CASE Tick \/ UNCHANGED vars
  BY <1>0, <1>10 DEF Tick, vars
<1>. QED
  BY <1>1, <1>2, <1>3, <1>4, <1>5, <1>6, <1>7, <1>8, <1>9, <1>10 DEF Next, SendStep

\* For any sends and failures, the dedup record of a client_msg_id exists only
\* when a message with it is in the mailbox: a failed send can be retried.
THEOREM DedupQueued == Spec => []DedupMeansQueued
<1>1. StoredFirst => DedupMeansQueued
  BY DEF StoredFirst
<1>. QED
  BY <1>1, StoredFirstInit, StoredFirstNext, PTL DEF Spec

(***************************************************************************)
(* The allowlist.                                                          *)
(***************************************************************************)

\* What a send knows of the allowlist: a list that admits its sender and that
\* it has read, or that is stored now, was there after the send arrived.
ListKnown(s) ==
  /\ pc[s] = "new" => s \notin queued
  /\ pc[s] # "new" /\ Admits(allowlist, From[s]) => admits[s]
  /\ pc[s] = "reading" /\ "allowlist" \notin todo[s] /\ Admits(seen[s].allowlist, From[s])
       => admits[s]
  /\ pc[s] \in {"enqueue", "marking"} \/ s \in queued => admits[s]

ListInv == TypeOK /\ \A s \in Sends : ListKnown(s)

LEMMA ListInit == Init => ListInv
BY TypeInit DEF Init, ListInv, ListKnown

LEMMA ListUnchanged ==
  ASSUME NEW r \in Sends, ListKnown(r),
         pc'[r] = pc[r], todo'[r] = todo[r], seen'[r] = seen[r], admits'[r] = admits[r],
         allowlist' = allowlist, r \in queued' <=> r \in queued
  PROVE  ListKnown(r)'
BY DEF ListKnown, Admits

LEMMA ListNext == ListInv /\ [Next]_vars => ListInv'
<1>. SUFFICES ASSUME ListInv, [Next]_vars, NEW r \in Sends PROVE ListKnown(r)'
  BY TypeNext DEF ListInv
<1>0. TypeOK /\ TypeOK' /\ ListKnown(r)
  BY TypeNext DEF ListInv
<1>. USE DEF TypeOK, records, history, Reads
<1>1. ASSUME NEW s \in Sends, Receive(s) PROVE ListKnown(r)'
  <2>1. CASE r = s
    <3>1. pc[s] = "new" /\ pc'[s] = "reading" /\ todo'[s] = Reads
      BY <1>0, <1>1 DEF Receive
    <3>2. admits'[s] = Admits(allowlist, From[s]) /\ allowlist' = allowlist /\ queued' = queued
      BY <1>0, <1>1 DEF Receive
    <3>. HIDE DEF TypeOK
    <3>. QED
      BY <1>0, <2>1, <3>1, <3>2 DEF ListKnown, Admits
  <2>2. CASE r # s
    BY <1>0, <1>1, <2>2, ListUnchanged DEF Receive
  <2>. QED
    BY <2>1, <2>2
<1>2. ASSUME NEW s \in Sends, NEW k \in Reads, Read(s, k) PROVE ListKnown(r)'
  <2>1. CASE r = s /\ k = "allowlist"
    <3>1. seen'[s].allowlist = allowlist /\ allowlist' = allowlist
      BY <1>0, <1>2, <2>1 DEF Read, Stored
    <3>. QED
      BY <1>0, <1>2, <2>1, <3>1 DEF Read, ListKnown, Admits
  <2>2. CASE r = s /\ k # "allowlist"
    <3>1. seen'[s].allowlist = seen[s].allowlist /\ todo'[s] = todo[s] \ {k}
      BY <1>0, <1>2, <2>2 DEF Read
    <3>. QED
      BY <1>0, <1>2, <2>2, <3>1 DEF Read, ListKnown, Admits
  <2>3. CASE r # s
    BY <1>0, <1>2, <2>3, ListUnchanged DEF Read
  <2>. QED
    BY <2>1, <2>2, <2>3
<1>3. ASSUME NEW s \in Sends, Decide(s) PROVE ListKnown(r)'
  <2>1. Refusal(s) = 0 => seen[s].allowlist = Unset
    BY DEF Refusal, AllowlistThrows
  <2>2. CASE r = s
    BY <1>0, <1>3, <2>1, <2>2 DEF Decide, ListKnown, Admits
  <2>3. CASE r # s
    BY <1>0, <1>3, <2>3, ListUnchanged DEF Decide
  <2>. QED
    BY <2>2, <2>3
<1>4. ASSUME NEW s \in Sends, Enqueue(s) PROVE ListKnown(r)'
  BY <1>0, <1>4 DEF Enqueue, ListKnown, Admits
<1>5. ASSUME NEW s \in Sends, MarkDedup(s) \/ MarkRate(s) \/ Answer(s) \/ Fail(s)
      PROVE  ListKnown(r)'
  BY <1>0, <1>5 DEF MarkDedup, MarkRate, Answer, Fail, InFlight, ListKnown, Admits
<1>6. ASSUME NEW e \in Edits, EditRead(e) PROVE ListKnown(r)'
  BY <1>0, <1>6, ListUnchanged DEF EditRead
<1>7. ASSUME NEW e \in Edits, EditWrite(e) PROVE ListKnown(r)'
  <2>1. admits'[r] = (admits[r] \/ (pc[r] # "new" /\ Admits(allowlist', From[r])))
    BY <1>0, <1>7 DEF EditWrite
  <2>. QED
    BY <1>0, <1>7, <2>1 DEF EditWrite, ListKnown, Admits
<1>8. CASE Tick \/ UNCHANGED vars
  BY <1>0, <1>8, ListUnchanged DEF Tick, vars
<1>. QED
  BY <1>1, <1>2, <1>3, <1>4, <1>5, <1>6, <1>7, <1>8 DEF Next, SendStep

\* For any sends and any edits that overlap them, a message reaches the mailbox
\* only if the recipient admitted its sender at some moment since it arrived.
THEOREM UnlistedRefused == Spec => []UnlistedNeverQueued
<1>1. ListInv => UnlistedNeverQueued
  BY DEF ListInv, ListKnown, UnlistedNeverQueued, TypeOK
<1>. QED
  BY <1>1, ListInit, ListNext, PTL DEF Spec

(***************************************************************************)
(* The deduplication window.                                               *)
(***************************************************************************)

\* How far a send has come: what its place in the handler says of the rest.
Placed(r) ==
  /\ status[r] = 200 => pc[r] = "done" /\ r \in queued
  /\ pc[r] = "marking" => r \in queued
  /\ r \in queued => pc[r] \in {"marking", "done"}
  /\ taken[r] <= now

\* A send that was answered has left a record that lasts for the window.
Recorded(r) ==
  (pc[r] = "marking" /\ "dedup" \notin todo[r]) \/ status[r] = 200
    => dedup[ClientMsg[r]] >= taken[r] + DedupWindow

\* A repeated send has seen that record, unless the window was over.
Repeats(s, r) ==
  /\ status[r] = 200
  /\ ClientMsg[r] = ClientMsg[s] =>
       /\ pc[s] = "reading" /\ "dedup" \notin todo[s]
            => seen[s].dedup \/ now >= taken[r] + DedupWindow
       /\ pc[s] \in {"enqueue", "marking"} \/ s \in queued
            => taken[s] >= taken[r] + DedupWindow

WindowInv ==
  /\ TypeOK
  /\ \A i \in ClientMsgIds : dedup[i] <= now + DedupWindow
  /\ \A r \in Sends : Placed(r) /\ Recorded(r)
  /\ \A s \in Sends : \A r \in before[s] : Repeats(s, r)

LEMMA WindowInit == Init => WindowInv
BY TypeInit, LimitAssumption, ClientMsgAssumption
   DEF Init, WindowInv, Placed, Recorded, Repeats, TypeOK

LEMMA PlacedNext ==
  ASSUME TypeOK, [Next]_vars, NEW r \in Sends, Placed(r)
  PROVE  Placed(r)'
<1>. USE DEF TypeOK, records, history
<1>1. ASSUME NEW s \in Sends, Receive(s) PROVE Placed(r)'
  BY <1>1 DEF Receive, Placed
<1>2. ASSUME NEW s \in Sends, NEW k \in Reads, Read(s, k) PROVE Placed(r)'
  BY <1>2 DEF Read, Placed
<1>3. ASSUME NEW s \in Sends, Decide(s) PROVE Placed(r)'
  <2>1. Refusal(s) # 200
    BY RefusalType
  <2>. QED
    BY <1>3, <2>1 DEF Decide, Placed
<1>4. ASSUME NEW s \in Sends, Enqueue(s) PROVE Placed(r)'
  BY <1>4 DEF Enqueue, Placed
<1>5. ASSUME NEW s \in Sends, MarkDedup(s) \/ MarkRate(s) \/ Answer(s) \/ Fail(s)
      PROVE  Placed(r)'
  BY <1>5 DEF MarkDedup, MarkRate, Answer, Fail, InFlight, Placed
<1>6. ASSUME NEW e \in Edits, EditRead(e) \/ EditWrite(e) PROVE Placed(r)'
  BY <1>6 DEF EditRead, EditWrite, Placed
<1>7. CASE Tick \/ UNCHANGED vars
  BY <1>7 DEF Tick, vars, Placed
<1>. QED
  BY <1>1, <1>2, <1>3, <1>4, <1>5, <1>6, <1>7 DEF Next, SendStep

\* A record is only ever written with a later end.
LEMMA DedupGrows ==
  ASSUME TypeOK, [Next]_vars, \A i \in ClientMsgIds : dedup[i] <= now + DedupWindow
  PROVE  /\ now' >= now
         /\ \A i \in ClientMsgIds : dedup'[i] >= dedup[i] /\ dedup'[i] <= now' + DedupWindow
<1>. USE LimitAssumption, ClientMsgAssumption DEF TypeOK, records, history
<1>1. ASSUME NEW s \in Sends, MarkDedup(s)
      PROVE  /\ now' >= now
             /\ \A i \in ClientMsgIds : dedup'[i] >= dedup[i] /\ dedup'[i] <= now' + DedupWindow
  BY <1>1 DEF MarkDedup
<1>2. CASE dedup' = dedup /\ (now' = now \/ now' = now + 1)
  BY <1>2
<1>3. (\E s \in Sends : MarkDedup(s)) \/ (dedup' = dedup /\ (now' = now \/ now' = now + 1))
  BY Zenon DEF Next, SendStep, Receive, Read, Decide, Enqueue, MarkRate, Answer, Fail,
               EditRead, EditWrite, Tick, vars
<1>. QED
  BY <1>1, <1>2, <1>3

LEMMA RecordedNext ==
  ASSUME WindowInv, [Next]_vars, NEW r \in Sends
  PROVE  Recorded(r)'
<1>0. TypeOK /\ TypeOK' /\ Placed(r) /\ Recorded(r)
  BY TypeNext DEF WindowInv
<1>1. \A i \in ClientMsgIds : dedup'[i] >= dedup[i]
  BY DedupGrows DEF WindowInv
<1>. USE LimitAssumption, ClientMsgAssumption DEF TypeOK, records, history
<1>2. ASSUME NEW s \in Sends, MarkDedup(s) PROVE Recorded(r)'
  <2>1. CASE r = s
    BY <1>0, <1>2, <2>1 DEF MarkDedup, Placed, Recorded
  <2>2. CASE r # s
    BY <1>0, <1>1, <1>2, <2>2 DEF MarkDedup, Recorded
  <2>. QED
    BY <2>1, <2>2
<1>3. ASSUME NEW s \in Sends, Receive(s) PROVE Recorded(r)'
  BY <1>0, <1>3 DEF Receive, Placed, Recorded
<1>4. ASSUME NEW s \in Sends, NEW k \in Reads, Read(s, k) PROVE Recorded(r)'
  BY <1>0, <1>4 DEF Read, Placed, Recorded
<1>5. ASSUME NEW s \in Sends, Decide(s) PROVE Recorded(r)'
  <2>1. Refusal(s) # 200
    BY RefusalType
  <2>. QED
    BY <1>0, <1>5, <2>1 DEF Decide, Placed, Recorded
<1>6. ASSUME NEW s \in Sends, Enqueue(s) PROVE Recorded(r)'
  BY <1>0, <1>6 DEF Enqueue, Placed, Recorded, Writes
<1>7. ASSUME NEW s \in Sends, MarkRate(s) \/ Answer(s) \/ Fail(s) PROVE Recorded(r)'
  BY <1>0, <1>7 DEF MarkRate, Answer, Fail, InFlight, Placed, Recorded
<1>8. ASSUME NEW e \in Edits, EditRead(e) \/ EditWrite(e) PROVE Recorded(r)'
  BY <1>0, <1>8 DEF EditRead, EditWrite, Recorded
<1>9. CASE Tick \/ UNCHANGED vars
  BY <1>0, <1>9 DEF Tick, vars, Recorded
<1>. QED
  BY <1>2, <1>3, <1>4, <1>5, <1>6, <1>7, <1>8, <1>9 DEF Next, SendStep

\* A step that leaves what Repeats(s, r) speaks of alone preserves it.
LEMMA RepeatsUnchanged ==
  ASSUME TypeOK, NEW s \in Sends, NEW r \in Sends, Repeats(s, r), now' \in Nat, now' >= now,
         status'[r] = status[r], taken'[r] = taken[r], taken'[s] = taken[s], pc'[s] = pc[s],
         "dedup" \in todo[s] => "dedup" \in todo'[s], seen'[s].dedup = seen[s].dedup,
         s \in queued' <=> s \in queued
  PROVE  Repeats(s, r)'
BY LimitAssumption DEF Repeats, TypeOK

LEMMA RepeatsNext ==
  ASSUME WindowInv, [Next]_vars, NEW q \in Sends, NEW r \in before'[q]
  PROVE  Repeats(q, r)'
<1>0. TypeOK /\ TypeOK' /\ Placed(q) /\ r \in Sends
  BY TypeNext DEF WindowInv, TypeOK
<1>1. now' >= now
  BY DedupGrows DEF WindowInv
<1>. USE LimitAssumption, ClientMsgAssumption DEF TypeOK, records, history
<1>2. ASSUME NEW s \in Sends, Receive(s) PROVE Repeats(q, r)'
  <2>1. CASE q = s
    <3>1. pc[s] = "new" /\ pc'[s] = "reading" /\ todo'[s] = Reads
      BY <1>0, <1>2 DEF Receive
    <3>2. status[r] = 200 /\ status' = status /\ queued' = queued
      BY <1>0, <1>2, <2>1 DEF Receive
    <3>. HIDE DEF TypeOK
    <3>. QED
      BY <1>0, <2>1, <3>1, <3>2 DEF Placed, Repeats, Reads
  <2>2. CASE q # s
    <3>1. Repeats(q, r)
      BY <1>0, <1>2, <2>2 DEF Receive, WindowInv
    <3>. QED
      BY <1>0, <1>1, <1>2, <2>2, <3>1, RepeatsUnchanged DEF Receive
  <2>. QED
    BY <2>1, <2>2
<1>3. ASSUME before' = before PROVE Repeats(q, r)
  BY <1>3 DEF WindowInv
<1>4. ASSUME NEW s \in Sends, NEW k \in Reads, Read(s, k) PROVE Repeats(q, r)'
  <2>1. Repeats(q, r) /\ Placed(r) /\ Recorded(r)
    BY <1>0, <1>3, <1>4 DEF Read, WindowInv
  <2>2. CASE q = s /\ k = "dedup"
    <3>1. seen'[s].dedup \/ now >= dedup[ClientMsg[s]]
      <4>1. seen'[s].dedup = Stored("dedup", s)
        BY <1>0, <1>4, <2>2 DEF Read
      <4>2. Stored("dedup", s) <=> now < dedup[ClientMsg[s]]
        BY DEF Stored
      <4>3. now \in Nat /\ dedup[ClientMsg[s]] \in Nat
        BY <1>0
      <4>4. now < dedup[ClientMsg[s]] \/ now >= dedup[ClientMsg[s]]
        BY <4>3
      <4>. HIDE DEF TypeOK
      <4>. QED
        BY <4>1, <4>2, <4>4, Zenon
    <3>2. ClientMsg[r] = ClientMsg[s] => dedup[ClientMsg[s]] >= taken[r] + DedupWindow
      BY <2>1 DEF Repeats, Recorded
    <3>3. pc' = pc /\ status' = status /\ taken' = taken /\ queued' = queued /\ now' = now
      BY <1>4 DEF Read
    <3>4. /\ now \in Nat /\ taken[r] \in Nat /\ DedupWindow \in Nat
          /\ dedup[ClientMsg[s]] \in Nat
          /\ pc[s] = "reading"
      BY <1>0, <1>4 DEF Read
    <3>. HIDE DEF TypeOK
    <3>. QED
      BY <1>0, <2>1, <2>2, <3>1, <3>2, <3>3, <3>4 DEF Repeats, Placed
  <2>3. CASE q = s /\ k # "dedup"
    <3>1. seen'[s].dedup = seen[s].dedup /\ ("dedup" \in todo[s] => "dedup" \in todo'[s])
      BY <1>0, <1>4, <2>3 DEF Read
    <3>. QED
      BY <1>0, <1>1, <1>4, <2>1, <2>3, <3>1, RepeatsUnchanged DEF Read
  <2>4. CASE q # s
    BY <1>0, <1>1, <1>4, <2>1, <2>4, RepeatsUnchanged DEF Read
  <2>. QED
    BY <2>2, <2>3, <2>4
<1>5. ASSUME NEW s \in Sends, Decide(s) PROVE Repeats(q, r)'
  <2>1. Repeats(q, r) /\ Placed(r)
    BY <1>0, <1>3, <1>5 DEF Decide, WindowInv
  <2>2. r # s /\ status'[r] = status[r] /\ taken'[r] = taken[r]
    BY <1>0, <1>5, <2>1 DEF Decide, Repeats, Placed
  <2>3. CASE q = s
    <3>1. CASE Refusal(s) = 0
      <4>1. ~seen[s].dedup
        BY <3>1 DEF Refusal
      <4>2. pc'[s] = "enqueue" /\ taken'[s] = now /\ "dedup" \notin todo[s] /\ pc[s] = "reading"
        BY <1>0, <1>5, <3>1 DEF Decide
      <4>. QED
        BY <1>0, <2>1, <2>2, <2>3, <4>1, <4>2 DEF Repeats
    <3>2. CASE Refusal(s) # 0
      <4>1. pc'[s] = "done" /\ queued' = queued /\ pc[s] = "reading"
        BY <1>0, <1>5, <3>2 DEF Decide
      <4>. QED
        BY <1>0, <2>1, <2>2, <2>3, <4>1 DEF Repeats, Placed
    <3>. QED
      BY <3>1, <3>2
  <2>4. CASE q # s
    BY <1>0, <1>1, <1>5, <2>1, <2>2, <2>4, RepeatsUnchanged DEF Decide
  <2>. QED
    BY <2>3, <2>4
<1>6. ASSUME NEW s \in Sends, Enqueue(s) PROVE Repeats(q, r)'
  <2>1. Repeats(q, r)
    BY <1>3, <1>6 DEF Enqueue
  <2>2. CASE q = s
    <3>1. /\ pc[s] = "enqueue" /\ pc'[s] = "marking"
          /\ status' = status /\ taken' = taken /\ now' = now
      BY <1>0, <1>6 DEF Enqueue
    <3>. HIDE DEF TypeOK
    <3>. QED
      BY <2>1, <2>2, <3>1 DEF Repeats
  <2>3. CASE q # s
    <3>1. /\ pc'[q] = pc[q]
          /\ todo'[q] = todo[q]
          /\ (q \in queued') <=> (q \in queued)
          /\ status' = status /\ taken' = taken /\ seen' = seen /\ now' = now
      BY <1>0, <1>6, <2>3 DEF Enqueue
    <3>. HIDE DEF TypeOK
    <3>. QED
      BY <2>1, <3>1 DEF Repeats
  <2>. QED
    BY <2>2, <2>3
<1>7. ASSUME NEW s \in Sends, MarkDedup(s) \/ MarkRate(s) \/ Answer(s) PROVE Repeats(q, r)'
  <2>1. Repeats(q, r)
    BY <1>3, <1>7 DEF MarkDedup, MarkRate, Answer
  <2>. QED
    BY <1>0, <1>7, <2>1 DEF MarkDedup, MarkRate, Answer, Repeats
<1>8. ASSUME NEW s \in Sends, Fail(s) PROVE Repeats(q, r)'
  <2>1. Repeats(q, r) /\ Placed(r)
    BY <1>0, <1>3, <1>8 DEF Fail, WindowInv
  <2>. QED
    BY <1>0, <1>8, <2>1 DEF Fail, InFlight, Repeats, Placed
<1>9. ASSUME NEW e \in Edits, EditRead(e) \/ EditWrite(e) PROVE Repeats(q, r)'
  <2>1. Repeats(q, r)
    BY <1>3, <1>9 DEF EditRead, EditWrite
  <2>. QED
    BY <1>0, <1>1, <1>9, <2>1, RepeatsUnchanged DEF EditRead, EditWrite
<1>10. CASE Tick \/ UNCHANGED vars
  <2>1. Repeats(q, r)
    BY <1>3, <1>10 DEF Tick, vars
  <2>. QED
    BY <1>0, <1>1, <1>10, <2>1, RepeatsUnchanged DEF Tick, vars
<1>. QED
  BY <1>2, <1>4, <1>5, <1>6, <1>7, <1>8, <1>9, <1>10 DEF Next, SendStep

LEMMA WindowNext == WindowInv /\ [Next]_vars => WindowInv'
<1>. SUFFICES ASSUME WindowInv, [Next]_vars PROVE WindowInv'
  OBVIOUS
<1>1. TypeOK'
  BY TypeNext DEF WindowInv
<1>2. \A i \in ClientMsgIds : dedup'[i] <= now' + DedupWindow
  BY DedupGrows DEF WindowInv
<1>3. \A r \in Sends : Placed(r)' /\ Recorded(r)'
  BY PlacedNext, RecordedNext DEF WindowInv
<1>4. \A s \in Sends : \A r \in before'[s] : Repeats(s, r)'
  BY RepeatsNext
<1>. QED
  BY <1>1, <1>2, <1>3, <1>4 DEF WindowInv

\* For any sends in any order, one that repeats the client_msg_id of a send that
\* was answered 200 before it arrived is not admitted within the window.
THEOREM AnsweredIsDuplicate == Spec => []AnsweredOnceIsDuplicate
<1>1. WindowInv => AnsweredOnceIsDuplicate
  BY DEF WindowInv, Repeats, AnsweredOnceIsDuplicate, TypeOK
<1>. QED
  BY <1>1, WindowInit, WindowNext, PTL DEF Spec

(***************************************************************************)
(* The cooldown.                                                           *)
(***************************************************************************)

\* A sender that never had two sends in flight has at most one there.
OneInFlight ==
  \A r, s \in Sends :
    r # s /\ From[r] = From[s] /\ InFlight(r) /\ InFlight(s) => From[r] \in overlapped

\* What a send of such a sender knows of the sender's record, and has left in it.
Charged(r) ==
  From[r] \notin overlapped =>
    /\ pc[r] = "reading" /\ "rate" \notin todo[r] => seen[r].rate = rate[From[r]]
    /\ pc[r] \in {"enqueue", "marking"} => rate[From[r]] <= taken[r]
    /\ pc[r] \in {"enqueue", "marking"} \/ r \in queued => taken[r] >= 1
    /\ (pc[r] = "marking" /\ "rate" \notin todo[r]) \/ status[r] = 200
         => rate[From[r]] >= taken[r]

Spaced(s, r) ==
  /\ status[r] = 200
  /\ From[r] = From[s] /\ From[r] \notin overlapped
     /\ (pc[s] \in {"enqueue", "marking"} \/ s \in queued)
       => taken[s] >= taken[r] + Cooldown

CooldownInv ==
  /\ TypeOK
  /\ now >= 1
  /\ \A a \in Senders : rate[a] <= now
  /\ \A r \in Sends : Placed(r) /\ Charged(r)
  /\ \A s \in Sends : \A r \in before[s] : Spaced(s, r)
  /\ OneInFlight

LEMMA CooldownInit == Init => CooldownInv
BY TypeInit, FromAssumption
   DEF Init, CooldownInv, Placed, Charged, Spaced, OneInFlight, InFlight, TypeOK

LEMMA OneInFlightNext == TypeOK /\ OneInFlight /\ [Next]_vars => OneInFlight'
<1>. SUFFICES ASSUME TypeOK, OneInFlight, [Next]_vars PROVE OneInFlight'
  OBVIOUS
<1>. USE FromAssumption DEF TypeOK, records, history
<1>1. ASSUME NEW q \in Sends, Receive(q) PROVE OneInFlight'
  <2>. SUFFICES ASSUME NEW r \in Sends, NEW s \in Sends, r # s, From[r] = From[s],
                       InFlight(r)', InFlight(s)'
                PROVE  From[r] \in overlapped'
    BY DEF OneInFlight
  <2>1. /\ \A x \in Sends : x # q => pc'[x] = pc[x]
        /\ overlapped' = IF \E x \in Sends : InFlight(x) /\ From[x] = From[q]
                         THEN overlapped \cup {From[q]} ELSE overlapped
    BY <1>1 DEF Receive
  <2>2. CASE r # q /\ s # q
    BY <2>1, <2>2 DEF OneInFlight, InFlight
  <2>3. CASE r = q
    <3>1. InFlight(s)
      BY <2>1, <2>3 DEF InFlight
    <3>. QED
      BY <2>1, <2>3, <3>1
  <2>4. CASE s = q
    <3>1. InFlight(r)
      BY <2>1, <2>4 DEF InFlight
    <3>. QED
      BY <2>1, <2>4, <3>1
  <2>. QED
    BY <2>2, <2>3, <2>4
<1>2. ASSUME overlapped' = overlapped, \A x \in Sends : InFlight(x)' => InFlight(x)
      PROVE  OneInFlight'
  BY <1>2 DEF OneInFlight
<1>3. ASSUME NEW q \in Sends, Decide(q) PROVE OneInFlight'
  BY <1>2, <1>3 DEF Decide, InFlight
<1>4. ASSUME NEW q \in Sends, Enqueue(q) PROVE OneInFlight'
  BY <1>2, <1>4 DEF Enqueue, InFlight
<1>5. ASSUME NEW q \in Sends, Answer(q) \/ Fail(q) PROVE OneInFlight'
  BY <1>2, <1>5 DEF Answer, Fail, InFlight
<1>6. ASSUME NEW q \in Sends, MarkDedup(q) \/ MarkRate(q) \/ (\E k \in Reads : Read(q, k))
      PROVE  OneInFlight'
  BY <1>2, <1>6 DEF MarkDedup, MarkRate, Read, InFlight
<1>7. ASSUME NEW e \in Edits, EditRead(e) \/ EditWrite(e) PROVE OneInFlight'
  BY <1>2, <1>7 DEF EditRead, EditWrite, InFlight
<1>8. CASE Tick \/ UNCHANGED vars
  BY <1>2, <1>8 DEF Tick, vars, InFlight
<1>. QED
  BY <1>1, <1>3, <1>4, <1>5, <1>6, <1>7, <1>8 DEF Next, SendStep

\* The record of a sender holds times that have been, and while no sends of the
\* sender overlap, later and later ones.
LEMMA RateGrows ==
  ASSUME CooldownInv, [Next]_vars
  PROVE  /\ now' >= now
         /\ \A a \in Senders : /\ rate'[a] <= now'
                               /\ a \notin overlapped' => rate'[a] >= rate[a]
<1>0. TypeOK
  BY DEF CooldownInv
<1>. USE FromAssumption DEF TypeOK, records, history
<1>1. ASSUME NEW s \in Sends, MarkRate(s)
      PROVE  /\ now' >= now
             /\ \A a \in Senders : /\ rate'[a] <= now'
                                   /\ a \notin overlapped' => rate'[a] >= rate[a]
  <2>1. /\ rate' = [rate EXCEPT ![From[s]] = taken[s]] /\ now' = now
        /\ overlapped' = overlapped /\ pc[s] = "marking"
    BY <1>1 DEF MarkRate
  <2>2. Placed(s) /\ Charged(s) /\ \A a \in Senders : rate[a] <= now
    BY DEF CooldownInv
  <2>. QED
    BY <1>0, <2>1, <2>2 DEF Placed, Charged
<1>2. ASSUME rate' = rate, now' = now \/ now' = now + 1
      PROVE  /\ now' >= now
             /\ \A a \in Senders : /\ rate'[a] <= now'
                                   /\ a \notin overlapped' => rate'[a] >= rate[a]
  BY <1>0, <1>2 DEF CooldownInv
<1>3. (\E s \in Sends : MarkRate(s)) \/ (rate' = rate /\ (now' = now \/ now' = now + 1))
  BY Zenon DEF Next, SendStep, Receive, Read, Decide, Enqueue, MarkDedup, Answer, Fail,
               EditRead, EditWrite, Tick, vars
<1>. QED
  BY <1>1, <1>2, <1>3

LEMMA OverlappedGrows ==
  ASSUME [Next]_vars PROVE overlapped \subseteq overlapped'
BY Zenon DEF Next, SendStep, Receive, Read, Decide, Enqueue, MarkDedup, MarkRate, Answer, Fail,
             EditRead, EditWrite, Tick, vars, history

LEMMA ChargedNext ==
  ASSUME CooldownInv, [Next]_vars, NEW r \in Sends, From[r] \notin overlapped'
  PROVE  Charged(r)'
<1>0. /\ TypeOK /\ TypeOK' /\ Placed(r) /\ Charged(r)
      /\ From[r] \notin overlapped /\ From[r] \in Senders
  BY TypeNext, OverlappedGrows, FromAssumption DEF CooldownInv
<1>1. /\ rate[From[r]] \in Nat /\ rate'[From[r]] \in Nat /\ rate'[From[r]] >= rate[From[r]]
      /\ rate[From[r]] <= now
      /\ now \in Nat /\ taken[r] \in Nat /\ now >= 1
  BY <1>0, RateGrows DEF TypeOK, CooldownInv
<1>. USE FromAssumption DEF TypeOK, records, history
<1>2. ASSUME NEW s \in Sends, Receive(s) PROVE Charged(r)'
  BY <1>0, <1>2 DEF Receive, Placed, Charged, Reads
<1>3. ASSUME NEW s \in Sends, NEW k \in Reads, Read(s, k) PROVE Charged(r)'
  <2>0. /\ pc' = pc /\ rate' = rate /\ overlapped' = overlapped /\ taken' = taken
        /\ status' = status /\ queued' = queued
    BY <1>3 DEF Read
  <2>1. CASE r = s /\ k = "rate"
    <3>1. seen'[s].rate = rate[From[s]] /\ pc[s] = "reading"
      BY <1>0, <1>3, <2>1 DEF Read, Stored
    <3>. HIDE DEF TypeOK
    <3>. QED
      BY <1>0, <2>0, <2>1, <3>1 DEF Charged, Placed
  <2>2. CASE r = s /\ k # "rate"
    <3>1. /\ seen'[s].rate = seen[s].rate /\ pc[s] = "reading"
          /\ "rate" \in todo'[s] <=> "rate" \in todo[s]
      BY <1>0, <1>3, <2>2 DEF Read
    <3>. HIDE DEF TypeOK
    <3>. QED
      BY <1>0, <2>0, <2>2, <3>1 DEF Charged, Placed
  <2>3. CASE r # s
    <3>1. seen'[r] = seen[r] /\ todo'[r] = todo[r]
      BY <1>0, <1>3, <2>3 DEF Read
    <3>. HIDE DEF TypeOK
    <3>. QED
      BY <1>0, <2>0, <2>3, <3>1 DEF Charged
  <2>. QED
    BY <2>1, <2>2, <2>3
<1>4. ASSUME NEW s \in Sends, Decide(s) PROVE Charged(r)'
  <2>1. Refusal(s) # 200
    BY RefusalType
  <2>. QED
    BY <1>0, <1>1, <1>4, <2>1 DEF Decide, Placed, Charged
<1>5. ASSUME NEW s \in Sends, Enqueue(s) PROVE Charged(r)'
  BY <1>0, <1>5 DEF Enqueue, Placed, Charged, Writes
<1>6. ASSUME NEW s \in Sends, MarkRate(s) PROVE Charged(r)'
  <2>0. /\ pc' = pc /\ seen' = seen /\ overlapped' = overlapped /\ taken' = taken
        /\ status' = status /\ queued' = queued /\ pc[s] = "marking"
        /\ rate' = [rate EXCEPT ![From[s]] = taken[s]]
    BY <1>6 DEF MarkRate
  <2>1. CASE r = s
    <3>1. rate'[From[r]] = taken[r]
      BY <1>0, <2>0, <2>1
    <3>. HIDE DEF TypeOK
    <3>. QED
      BY <1>0, <1>1, <2>0, <2>1, <3>1 DEF Charged
  <2>2. CASE r # s /\ From[r] = From[s]
    <3>1. ~InFlight(r)
      BY <1>0, <2>0, <2>2 DEF CooldownInv, OneInFlight, InFlight
    <3>. HIDE DEF TypeOK
    <3>. QED
      BY <1>0, <1>1, <2>0, <2>2, <3>1 DEF Charged, InFlight
  <2>3. CASE r # s /\ From[r] # From[s]
    <3>1. rate'[From[r]] = rate[From[r]] /\ todo'[r] = todo[r]
      BY <1>0, <1>6, <2>0, <2>3 DEF MarkRate
    <3>. HIDE DEF TypeOK
    <3>. QED
      BY <1>0, <2>0, <3>1 DEF Charged
  <2>. QED
    BY <2>1, <2>2, <2>3
<1>7. ASSUME NEW s \in Sends, MarkDedup(s) \/ Answer(s) \/ Fail(s) PROVE Charged(r)'
  BY <1>0, <1>7 DEF MarkDedup, Answer, Fail, InFlight, Placed, Charged
<1>8. ASSUME NEW e \in Edits, EditRead(e) \/ EditWrite(e) PROVE Charged(r)'
  BY <1>0, <1>8 DEF EditRead, EditWrite, Charged
<1>9. CASE Tick \/ UNCHANGED vars
  BY <1>0, <1>9 DEF Tick, vars, Charged
<1>. QED
  BY <1>2, <1>3, <1>4, <1>5, <1>6, <1>7, <1>8, <1>9 DEF Next, SendStep

LEMMA SpacedNext ==
  ASSUME CooldownInv, [Next]_vars, NEW q \in Sends, NEW r \in before'[q]
  PROVE  Spaced(q, r)'
<1>0. TypeOK /\ TypeOK' /\ Placed(q) /\ r \in Sends /\ overlapped \subseteq overlapped'
  BY TypeNext, OverlappedGrows DEF CooldownInv, TypeOK
<1>. USE LimitAssumption, FromAssumption DEF TypeOK, records, history
<1>1. ASSUME before' = before PROVE Spaced(q, r) /\ Placed(r) /\ Charged(r)
  BY <1>0, <1>1 DEF CooldownInv
<1>2. ASSUME NEW s \in Sends, Receive(s) PROVE Spaced(q, r)'
  <2>0. status' = status /\ queued' = queued /\ taken' = taken
    BY <1>2 DEF Receive
  <2>1. CASE q = s
    <3>1. pc[s] = "new" /\ pc'[s] = "reading" /\ status[r] = 200
      BY <1>0, <1>2, <2>1 DEF Receive
    <3>. HIDE DEF TypeOK
    <3>. QED
      BY <1>0, <2>0, <2>1, <3>1 DEF Placed, Spaced
  <2>2. CASE q # s
    <3>1. Spaced(q, r) /\ pc'[q] = pc[q]
      BY <1>0, <1>2, <2>2 DEF Receive, CooldownInv
    <3>. HIDE DEF TypeOK
    <3>. QED
      BY <1>0, <2>0, <3>1 DEF Spaced
  <2>. QED
    BY <2>1, <2>2
<1>3. ASSUME NEW s \in Sends, Decide(s) PROVE Spaced(q, r)'
  <2>0. /\ Spaced(q, r) /\ Placed(r) /\ Charged(r) /\ Charged(q)
        /\ queued' = queued /\ overlapped' = overlapped
    BY <1>1, <1>3 DEF Decide, CooldownInv
  <2>1. r # s /\ status'[r] = status[r] /\ taken'[r] = taken[r]
    BY <1>0, <1>3, <2>0 DEF Decide, Spaced, Placed
  <2>2. CASE q = s /\ Refusal(s) = 0
    <3>1. /\ pc'[s] = "enqueue" /\ taken'[s] = now /\ pc[s] = "reading" /\ todo[s] = {}
      BY <1>0, <1>3, <2>2 DEF Decide
    <3>2. ~CoolingDown(seen[s].rate)
      BY <2>2 DEF Refusal
    <3>3. From[r] = From[s] /\ From[r] \notin overlapped => now >= taken[r] + Cooldown
      <4>. SUFFICES ASSUME From[r] = From[s], From[r] \notin overlapped
                    PROVE  now >= taken[r] + Cooldown
        OBVIOUS
      <4>1. seen[s].rate = rate[From[r]]
        BY <2>0, <2>2, <3>1 DEF Charged
      <4>2. status[r] = 200 /\ r \in queued
        BY <2>0 DEF Spaced, Placed
      <4>3. rate[From[r]] >= taken[r] /\ taken[r] >= 1
        BY <2>0, <4>2 DEF Charged
      <4>4. rate[From[r]] \in Nat /\ taken[r] \in Nat /\ now \in Nat /\ Cooldown \in Nat
        BY <1>0
      <4>. HIDE DEF TypeOK
      <4>. QED
        BY <3>2, <4>1, <4>3, <4>4 DEF CoolingDown
    <3>. HIDE DEF TypeOK
    <3>. QED
      BY <2>0, <2>1, <2>2, <3>1, <3>3 DEF Spaced
  <2>3. CASE q = s /\ Refusal(s) # 0
    <3>1. pc'[s] = "done" /\ pc[s] = "reading"
      BY <1>0, <1>3, <2>3 DEF Decide
    <3>. HIDE DEF TypeOK
    <3>. QED
      BY <1>0, <2>0, <2>1, <2>3, <3>1 DEF Spaced, Placed
  <2>4. CASE q # s
    <3>1. pc'[q] = pc[q] /\ taken'[q] = taken[q]
      BY <1>0, <1>3, <2>4 DEF Decide
    <3>. HIDE DEF TypeOK
    <3>. QED
      BY <2>0, <2>1, <3>1 DEF Spaced
  <2>. QED
    BY <2>2, <2>3, <2>4
<1>4. ASSUME NEW s \in Sends, Enqueue(s) PROVE Spaced(q, r)'
  <2>1. Spaced(q, r)
    BY <1>1, <1>4 DEF Enqueue
  <2>2. /\ pc[s] = "enqueue" /\ pc' = [pc EXCEPT ![s] = "marking"] /\ queued' = queued \cup {s}
        /\ status' = status /\ taken' = taken /\ overlapped' = overlapped
    BY <1>4 DEF Enqueue
  <2>3. q = s \/ (pc'[q] = pc[q] /\ (q \in queued' <=> q \in queued))
    BY <1>0, <2>2
  <2>. HIDE DEF TypeOK
  <2>. QED
    BY <2>1, <2>2, <2>3 DEF Spaced
<1>5. ASSUME NEW s \in Sends,
             MarkDedup(s) \/ MarkRate(s) \/ (\E k \in Reads : Read(s, k))
      PROVE  Spaced(q, r)'
  BY <1>1, <1>5 DEF MarkDedup, MarkRate, Read, Spaced
<1>6. ASSUME NEW s \in Sends, Answer(s) \/ Fail(s) PROVE Spaced(q, r)'
  BY <1>0, <1>1, <1>6 DEF Answer, Fail, InFlight, Spaced, Placed
<1>7. ASSUME NEW e \in Edits, EditRead(e) \/ EditWrite(e) PROVE Spaced(q, r)'
  BY <1>1, <1>7 DEF EditRead, EditWrite, Spaced
<1>8. CASE Tick \/ UNCHANGED vars
  BY <1>1, <1>8 DEF Tick, vars, Spaced
<1>. QED
  BY <1>2, <1>3, <1>4, <1>5, <1>6, <1>7, <1>8 DEF Next, SendStep

LEMMA CooldownNext == CooldownInv /\ [Next]_vars => CooldownInv'
<1>. SUFFICES ASSUME CooldownInv, [Next]_vars PROVE CooldownInv'
  OBVIOUS
<1>1. TypeOK' /\ OneInFlight' /\ now' \in Nat /\ now \in Nat /\ now >= 1
  BY TypeNext, OneInFlightNext DEF CooldownInv, TypeOK
<1>2. now' >= 1 /\ \A a \in Senders : rate'[a] <= now'
  BY <1>1, RateGrows
<1>3. \A r \in Sends : Placed(r)'
  BY PlacedNext DEF CooldownInv
<1>4. ASSUME NEW r \in Sends PROVE Charged(r)'
  <2>1. CASE From[r] \in overlapped'
    BY <2>1 DEF Charged
  <2>2. CASE From[r] \notin overlapped'
    BY <2>2, ChargedNext
  <2>. QED
    BY <2>1, <2>2
<1>5. \A s \in Sends : \A r \in before'[s] : Spaced(s, r)'
  BY SpacedNext
<1>. QED
  BY <1>1, <1>2, <1>3, <1>4, <1>5 DEF CooldownInv

\* For any sends of a sender that take turns, and any failures, two that are
\* admitted are the cooldown apart.
THEOREM CooldownKept == Spec => []CooldownBetweenSends
<1>1. CooldownInv => CooldownBetweenSends
  <2>. SUFFICES ASSUME CooldownInv, NEW r \in queued, NEW s \in queued, From[r] = From[s],
                       From[r] \notin overlapped, r \in before[s]
                PROVE  taken[s] >= taken[r] + Cooldown
    BY DEF CooldownBetweenSends
  <2>1. s \in Sends
    BY DEF CooldownInv, TypeOK
  <2>2. Spaced(s, r)
    BY <2>1 DEF CooldownInv
  <2>. QED
    BY <2>2 DEF Spaced
<1>. QED
  BY <1>1, CooldownInit, CooldownNext, PTL DEF Spec

=============================================================================
