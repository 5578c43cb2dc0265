--------------------------- MODULE Registration_proofs ---------------------------
(***************************************************************************)
(* Theorems about registrations, for any requests, last_seen updates,      *)
(* deletions and failures.                                                 *)
(***************************************************************************)
EXTENDS Registration, SequenceTheorems, TLAPS

(***************************************************************************)
(* Type correctness.                                                       *)
(***************************************************************************)

LEMMA NoRecordType == NoRecord \in Record
BY DEF NoRecord, Record, Key

LEMMA LatestType ==
  ASSUME NEW h \in Seq(Entries), NEW e \in Entries
  PROVE  Latest(Append(h, e)) \in Seq(Entries)
<1>. DEFINE a == Append(h, e)
            m == IF Len(a) > HistoryMax THEN Len(a) - HistoryMax + 1 ELSE 1
<1>1. a \in Seq(Entries) /\ Len(a) \in Nat /\ \A i \in 1 .. Len(a) : a[i] \in Entries
  BY AppendProperties, LenProperties
<1>2. m \in Nat /\ m >= 1 /\ HistoryMax \in Nat
  BY <1>1, HistoryAssumption
<1>3. \A i \in m .. Len(a) : a[i] \in Entries
  BY <1>1, <1>2
<1>. HIDE DEF a, m
<1>4. SubSeq(a, m, Len(a)) \in Seq(Entries)
  BY <1>1, <1>2, <1>3, SubSeqProperties
<1>. QED
  BY <1>4 DEF a, m, Latest

LEMMA TypeInit == Init => TypeOK
<1>. SUFFICES ASSUME Init PROVE TypeOK
  OBVIOUS
<1>1. None \in Key
  BY DEF Key
<1>2. <<>> \in Seq(Entries)
  OBVIOUS
<1>. QED
  BY <1>1, <1>2, NoRecordType DEF Init, TypeOK

LEMMA NewRecordType == ASSUME TypeOK, NEW r \in Requests PROVE NewRecord(r) \in Record
BY DEF TypeOK, NewRecord, Record, Key

LEMMA TypeOwner ==
  ASSUME TypeOK, NEW r \in Requests, RunRegister(r) \/ RunRecover(r) \/ Fail(r)
  PROVE  TypeOK'
<1>. USE DEF TypeOK, Goto, Finish, broker, owner, request, others, observed
<1>0. r \in Key /\ None \in Key
  BY DEF Key
<1>1. CASE RunRegister(r)
  BY <1>0, <1>1 DEF RunRegister, NoteOverlap, Busy
<1>2. CASE RunRecover(r)
  BY <1>0, <1>2 DEF RunRecover, SignChallenge, NoteOverlap, Busy
<1>3. CASE Fail(r)
  BY <1>3 DEF Fail
<1>. QED
  BY <1>1, <1>2, <1>3

LEMMA TypeRequest ==
  ASSUME TypeOK, NEW r \in Requests, RegisterStep(r) PROVE TypeOK'
<1>. USE DEF TypeOK, Goto, Finish, broker, owner, others, observed
<1>1. CASE ReadRecord(r) \/ Authenticate(r)
  <2>1. CASE ReadRecord(r)
    <3>1. old' = [old EXCEPT ![r] = record]
      BY <2>1, Zenon DEF ReadRecord
    <3>2. CASE Exists(record) /\ Kind[r] = "fresh"
      <4>1. pc' = [pc EXCEPT ![r] = "done"] /\ status' = [status EXCEPT ![r] = 409]
        BY <2>1, <3>2, Zenon DEF ReadRecord
      <4>. QED
        BY <2>1, <3>1, <4>1 DEF ReadRecord
    <3>3. CASE ~(Exists(record) /\ Kind[r] = "fresh")
      <4>1. /\ pc' = [pc EXCEPT ![r] = IF Exists(record) THEN "auth" ELSE "write"]
            /\ status' = status
        BY <2>1, <3>3, Zenon DEF ReadRecord
      <4>. QED
        BY <2>1, <3>1, <4>1 DEF ReadRecord
    <3>. QED
      BY <3>2, <3>3
  <2>2. CASE Authenticate(r)
    <3>1. CASE Authorised(r)
      <4>1. pc' = [pc EXCEPT ![r] = "history"] /\ status' = status
        BY <2>2, <3>1, Zenon DEF Authenticate
      <4>. QED
        BY <2>2, <4>1 DEF Authenticate
    <3>2. CASE ~Authorised(r)
      <4>1. pc' = [pc EXCEPT ![r] = "done"] /\ status' = [status EXCEPT ![r] = 401]
        BY <2>2, <3>2, Zenon DEF Authenticate
      <4>. QED
        BY <2>2, <4>1 DEF Authenticate
    <3>. QED
      BY <3>1, <3>2
  <2>. QED
    BY <1>1, <2>1, <2>2
<1>3. CASE ReadHistory(r)
  BY <1>3 DEF ReadHistory
<1>4. CASE WriteHistory(r)
  <2>1. Entry(old[r]) \in Entries /\ oldHistory[r] \in Seq(Entries)
    BY DEF Record, Entry, Entries
  <2>2. Latest(Append(oldHistory[r], Entry(old[r]))) \in Seq(Entries)
    BY <2>1, LatestType
  <2>. QED
    BY <1>4, <2>2 DEF WriteHistory
<1>5. CASE RevokeToken(r)
  BY <1>5 DEF RevokeToken
<1>6. CASE WriteRecord(r)
  <2>1. NewRecord(r) \in Record /\ Entry(NewRecord(r)) \in Entries
    BY NewRecordType DEF Record, Entry, Entries
  <2>. QED
    BY <1>6, <2>1 DEF WriteRecord
<1>7. CASE IndexToken(r)
  BY <1>7 DEF IndexToken
<1>8. CASE Answer(r)
  BY <1>8 DEF Answer, Key
<1>. QED
  BY <1>1, <1>3, <1>4, <1>5, <1>6, <1>7, <1>8 DEF RegisterStep

LEMMA TypeOthers ==
  ASSUME TypeOK,
         (\E u \in Updates : UpdateStep(u)) \/ (\E d \in Deletions : DeletionStep(d))
  PROVE  TypeOK'
<1>. USE NoRecordType DEF TypeOK, NoteOverlap, Busy, broker, owner, request, observed
<1>1. ASSUME NEW u \in Updates, UpdateRead(u) PROVE TypeOK'
  BY <1>1 DEF UpdateRead
<1>2. ASSUME NEW u \in Updates, UpdateWrite(u) PROVE TypeOK'
  BY <1>2 DEF UpdateWrite
<1>3. ASSUME NEW d \in Deletions, DeleteRead(d) PROVE TypeOK'
  BY <1>3 DEF DeleteRead, DeleteStep
<1>4. ASSUME NEW d \in Deletions, DeleteToken(d) PROVE TypeOK'
  BY <1>4 DEF DeleteToken, DeleteStep
<1>5. ASSUME NEW d \in Deletions, DeleteRecord(d) PROVE TypeOK'
  BY <1>5 DEF DeleteRecord, DeleteStep
<1>6. ASSUME NEW d \in Deletions, DeleteHistory(d) PROVE TypeOK'
  BY <1>6 DEF DeleteHistory, DeleteStep
<1>. QED
  BY <1>1, <1>2, <1>3, <1>4, <1>5, <1>6 DEF UpdateStep, DeletionStep

LEMMA TypeNext == TypeOK /\ [Next]_vars => TypeOK'
<1>1. ASSUME TypeOK, UNCHANGED vars PROVE TypeOK'
  BY <1>1 DEF TypeOK, vars, broker, owner, request, others, observed
<1>. QED
  BY <1>1, TypeOwner, TypeRequest, TypeOthers DEF Next

\* Every variable of the registration keeps its range.
THEOREM TypeCorrect == Spec => []TypeOK
BY TypeInit, TypeNext, PTL DEF Spec

(***************************************************************************)
(* The key history as a list of bounded length.                            *)
(***************************************************************************)

\* g is h with e at its end, and without its first entry if it was full.
Pushed(h, e, g) ==
  /\ g \in Seq(Entries)
  /\ Len(g) \in 1 .. HistoryMax
  /\ g[Len(g)] = e
  /\ Len(h) < HistoryMax => Len(g) = Len(h) + 1 /\ \A i \in 1 .. Len(h) : g[i] = h[i]
  /\ Len(h) = HistoryMax =>
       Len(g) = HistoryMax /\ \A i \in 1 .. HistoryMax - 1 : g[i] = h[i + 1]

LEMMA LatestPushes ==
  ASSUME NEW h \in Seq(Entries), NEW e \in Entries, Len(h) <= HistoryMax
  PROVE  Pushed(h, e, Latest(Append(h, e)))
<1>. DEFINE g == Latest(Append(h, e))
            a == Append(h, e)
            m == IF Len(a) > HistoryMax THEN Len(a) - HistoryMax + 1 ELSE 1
<1>1. /\ Len(h) \in Nat /\ a \in Seq(Entries) /\ Len(a) = Len(h) + 1
      /\ \A i \in 1 .. Len(h) : a[i] = h[i]
      /\ a[Len(h) + 1] = e
      /\ \A i \in 1 .. Len(a) : a[i] \in Entries
  BY AppendProperties, LenProperties
<1>2. /\ HistoryMax \in Nat /\ HistoryMax >= 1
      /\ m \in Nat /\ m >= 1 /\ m <= Len(a)
      /\ Len(h) < HistoryMax => m = 1
      /\ Len(h) = HistoryMax => m = 2
  BY <1>1, HistoryAssumption
<1>3. \A i \in m .. Len(a) : a[i] \in Entries
  BY <1>1, <1>2
<1>4. g = SubSeq(a, m, Len(a))
  BY DEF Latest
<1>. HIDE DEF a, m, g
<1>5. /\ g \in Seq(Entries)
      /\ Len(g) = Len(a) - m + 1
      /\ \A i \in 1 .. Len(a) - m + 1 : g[i] = a[m + i - 1]
  BY <1>1, <1>2, <1>3, <1>4, SubSeqProperties
<1>6. ASSUME Len(h) < HistoryMax
      PROVE  Len(g) = Len(h) + 1 /\ (\A i \in 1 .. Len(h) : g[i] = h[i]) /\ g[Len(g)] = e
  <2>1. Len(g) = Len(h) + 1 /\ \A i \in 1 .. Len(h) + 1 : g[i] = a[i]
    BY <1>1, <1>2, <1>5, <1>6
  <2>. QED
    BY <1>1, <1>2, <1>5, <1>6, <2>1
<1>7. ASSUME Len(h) = HistoryMax
      PROVE  Len(g) = HistoryMax /\ (\A i \in 1 .. HistoryMax - 1 : g[i] = h[i + 1]) /\ g[Len(g)] = e
  <2>1. Len(g) = HistoryMax /\ \A i \in 1 .. HistoryMax : g[i] = a[i + 1]
    BY <1>1, <1>2, <1>5, <1>7
  <2>. QED
    BY <1>1, <1>2, <1>5, <1>7, <2>1
<1>8. Len(g) \in 1 .. HistoryMax /\ g[Len(g)] = e
  BY <1>1, <1>2, <1>5, <1>6, <1>7
<1>9. Pushed(h, e, g)
  BY <1>1, <1>2, <1>5, <1>6, <1>7, <1>8 DEF Pushed
<1>. QED
  BY <1>9 DEF g

\* Pushing the newest published entry e keeps a list of published entries in
\* the order of their versions, and leaves every published entry on the list or
\* older than all of a full one.  Of the list h, the first s entries are lost.
KeepsFrom(P, e, m, h, n, g, s) ==
  /\ P \in SUBSET Entries /\ e \in P
  /\ \A p \in P : p.version <= e.version
  /\ \A p, q \in P : p.version = q.version => p.key = q.key
  /\ m \in Nat /\ h \in [1 .. m -> P] /\ n \in Nat /\ g \in [1 .. n -> Entries]
  /\ s \in {0, 1} /\ n = m + 1 - s
  /\ s = 1 => n = HistoryMax /\ m = HistoryMax
  /\ m = HistoryMax => s = 1
  /\ m <= HistoryMax
  /\ (\A i \in 1 .. n - 1 : g[i] = h[i + s]) /\ g[n] = e /\ n >= 1
  /\ \A i, j \in 1 .. m : i <= j => h[i].version <= h[j].version
  /\ \A p \in P : \/ p = e
                  \/ \E i \in 1 .. m : h[i] = p
                  \/ m = HistoryMax /\ \A i \in 1 .. m : h[i].version > p.version

KeepsTo(P, n, g) ==
  /\ \A i \in 1 .. n : g[i] \in P
  /\ \A i, j \in 1 .. n : i <= j => g[i].version <= g[j].version
  /\ \A p \in P : \/ \E i \in 1 .. n : g[i] = p
                  \/ n = HistoryMax /\ \A i \in 1 .. n : g[i].version > p.version

LEMMA PushKeeps ==
  ASSUME NEW P, NEW e, NEW m, NEW h, NEW n, NEW g, NEW s, KeepsFrom(P, e, m, h, n, g, s)
  PROVE  KeepsTo(P, n, g)
<1>. USE DEF KeepsFrom, KeepsTo
<1>1. HistoryMax \in Nat /\ HistoryMax >= 1
  BY HistoryAssumption
<1>2. \A p \in P : p.version \in Nat /\ p = [version |-> p.version, key |-> p.key]
  BY DEF Entries
<1>3. \A p, q \in P : p.version = q.version => p = q
  BY <1>2
<1>4. \A i \in 1 .. n - 1 : i \in Nat /\ i + s \in 1 .. m /\ g[i] = h[i + s]
  BY <1>1
<1>5. \A i \in 1 .. n : i = n \/ i \in 1 .. n - 1
  OBVIOUS
<1>6. \A i \in 1 .. n : g[i] \in P
  BY <1>4, <1>5
<1>7. ASSUME NEW i \in 1 .. n, NEW j \in 1 .. n, i <= j
      PROVE  g[i].version <= g[j].version
  <2>1. CASE j = n
    BY <1>6, <2>1
  <2>2. CASE j # n
    <3>1. i \in 1 .. n - 1 /\ j \in 1 .. n - 1 /\ i + s <= j + s
      BY <1>7, <2>2
    <3>2. g[i] = h[i + s] /\ g[j] = h[j + s] /\ i + s \in 1 .. m /\ j + s \in 1 .. m
      BY <1>4, <3>1
    <3>. QED
      BY <3>1, <3>2
  <2>. QED
    BY <2>1, <2>2
<1>8. ASSUME NEW p \in P
      PROVE  \/ \E i \in 1 .. n : g[i] = p
             \/ n = HistoryMax /\ \A i \in 1 .. n : g[i].version > p.version
  <2>1. CASE p = e
    BY <2>1
  <2>2. ASSUME NEW i \in 1 .. m, h[i] = p
        PROVE  \/ \E k \in 1 .. n : g[k] = p
               \/ n = HistoryMax /\ \A k \in 1 .. n : g[k].version > p.version
    <3>1. CASE s = 0 \/ i > 1
      <4>1. i - s \in 1 .. n - 1 /\ (i - s) + s = i
        BY <3>1
      <4>2. g[i - s] = h[i] /\ i - s \in 1 .. n
        BY <1>4, <4>1
      <4>. QED
        BY <2>2, <4>2
    <3>2. CASE s = 1 /\ i = 1
      <4>1. \A k \in 1 .. n - 1 : g[k].version >= p.version
        <5>. SUFFICES ASSUME NEW k \in 1 .. n - 1 PROVE g[k].version >= p.version
          OBVIOUS
        <5>1. k + s \in 1 .. m /\ g[k] = h[k + s] /\ 1 <= k + s
          BY <1>4
        <5>2. h[1].version <= h[k + s].version /\ h[1] = p /\ h[k + s] \in P
          BY <2>2, <3>2, <5>1
        <5>. QED
          BY <1>2, <5>1, <5>2
      <4>2. g[n].version >= p.version
        BY <1>2
      <4>3. ASSUME ~\E k \in 1 .. n : g[k] = p, NEW k \in 1 .. n
            PROVE  g[k].version > p.version
        <5>1. g[k].version >= p.version
          BY <1>5, <4>1, <4>2
        <5>2. g[k].version # p.version
          BY <1>3, <1>6, <4>3
        <5>3. g[k].version \in Nat /\ p.version \in Nat
          BY <1>2, <1>6
        <5>. QED
          BY <5>1, <5>2, <5>3
      <4>. QED
        BY <3>2, <4>3
    <3>. QED
      BY <3>1, <3>2
  <2>3. ASSUME m = HistoryMax, \A i \in 1 .. m : h[i].version > p.version
        PROVE  n = HistoryMax /\ \A k \in 1 .. n : g[k].version > p.version
    <3>1. s = 1 /\ n = m /\ m >= 1
      BY <1>1, <2>3
    <3>2. \A k \in 1 .. n - 1 : g[k].version > p.version
      BY <1>4, <2>3
    <3>3. h[1] \in P /\ h[1].version > p.version
      BY <2>3, <3>1
    <3>4. g[n].version > p.version
      BY <1>2, <3>3
    <3>. QED
      BY <1>5, <2>3, <3>1, <3>2, <3>4
  <2>. QED
    BY <2>1, <2>2, <2>3
<1>. QED
  BY <1>6, <1>7, <1>8

\* A list of published entries in the order of their versions.
Chronicle(h, pub) ==
  /\ Len(h) <= HistoryMax
  /\ \A i \in 1 .. Len(h) : h[i] \in pub
  /\ \A i, j \in 1 .. Len(h) : i <= j => h[i].version <= h[j].version

In(h, e) == \E i \in 1 .. Len(h) : h[i] = e
Out(h, e) == Len(h) = HistoryMax /\ \A i \in 1 .. Len(h) : h[i].version > e.version

LEMMA PushInTurn ==
  ASSUME NEW P \in SUBSET Entries, NEW e \in P, NEW h \in Seq(Entries), Chronicle(h, P),
         \A p \in P : p.version <= e.version,
         \A p, q \in P : p.version = q.version => p.key = q.key,
         \A p \in P : p = e \/ In(h, p) \/ Out(h, p),
         NEW g, Pushed(h, e, g)
  PROVE  Chronicle(g, P) /\ (\A p \in P : In(g, p) \/ Out(g, p)) /\ In(g, e)
<1>. DEFINE s == IF Len(h) = HistoryMax THEN 1 ELSE 0
<1>0. e \in Entries /\ Len(h) <= HistoryMax
  BY DEF Chronicle
<1>1. Pushed(h, e, g)
  OBVIOUS
<1>. USE DEF Pushed
<1>2. HistoryMax \in Nat /\ Len(h) \in Nat /\ Len(g) \in Nat /\ Len(g) >= 1 /\ Len(h) <= HistoryMax
  BY <1>1, HistoryAssumption, LenProperties DEF Chronicle
<1>3. h \in [1 .. Len(h) -> P] /\ g \in [1 .. Len(g) -> Entries]
  BY <1>1, LenProperties DEF Chronicle
<1>4. /\ s \in {0, 1} /\ Len(g) = Len(h) + 1 - s
      /\ s = 1 => Len(g) = HistoryMax /\ Len(h) = HistoryMax
      /\ Len(h) = HistoryMax => s = 1
      /\ \A i \in 1 .. Len(g) - 1 : g[i] = h[i + s]
  <2>1. CASE Len(h) = HistoryMax
    BY <1>1, <1>2, <2>1
  <2>2. CASE Len(h) < HistoryMax
    <3>1. s = 0 /\ Len(g) = Len(h) + 1 /\ \A i \in 1 .. Len(h) : g[i] = h[i] /\ i + 0 = i
      BY <1>1, <1>2, <2>2
    <3>. QED
      BY <1>2, <2>2, <3>1
  <2>. QED
    BY <1>2, <2>1, <2>2
<1>. HIDE DEF s
<1>5. /\ \A i, j \in 1 .. Len(h) : i <= j => h[i].version <= h[j].version
      /\ \A p \in P : \/ p = e
                      \/ \E i \in 1 .. Len(h) : h[i] = p
                      \/ Len(h) = HistoryMax /\ \A i \in 1 .. Len(h) : h[i].version > p.version
  BY DEF Chronicle, In, Out
<1>6. KeepsFrom(P, e, Len(h), h, Len(g), g, s)
  BY <1>1, <1>2, <1>3, <1>4, <1>5 DEF KeepsFrom
<1>7. KeepsTo(P, Len(g), g)
  BY <1>6, PushKeeps
<1>8. Len(g) \in 1 .. Len(g) /\ Len(g) <= HistoryMax
  BY <1>1, <1>2
<1>. QED
  BY <1>1, <1>7, <1>8 DEF KeepsTo, Chronicle, In, Out

(***************************************************************************)
(* Writers that take turns.                                                *)
(***************************************************************************)

Deleting(d) == dpc[d] \notin {"new", "done"}

\* At most one writer is between its read and its write.
Alone ==
  /\ \A r, q \in Requests : InFlight(r) /\ InFlight(q) => r = q
  /\ \A u, v \in Updates : upc[u] # "idle" /\ upc[v] # "idle" => u = v
  /\ \A d, e \in Deletions : Deleting(d) /\ Deleting(e) => d = e
  /\ \A r \in Requests, u \in Updates : ~(InFlight(r) /\ upc[u] # "idle")
  /\ \A r \in Requests, d \in Deletions : ~(InFlight(r) /\ Deleting(d))
  /\ \A u \in Updates, d \in Deletions : ~(upc[u] # "idle" /\ Deleting(d))

\* What a registration in flight has read is still so, and what it has done.
RequestTurn(r) ==
  /\ status[r] = 200 => pc[r] = "done"
  /\ InFlight(r) => key[r] = localKey /\ localKey # None
  /\ pc[r] \in {"auth", "history", "rotate", "revoke", "write"} => old[r] = record
  /\ pc[r] \in {"auth", "history", "rotate", "revoke"} => Exists(record)
  /\ pc[r] = "rotate" => oldHistory[r] = history
  /\ pc[r] \in {"revoke", "write"} /\ Exists(record) => In(history, Entry(record))
  /\ pc[r] = "write" => tokens = {}
  /\ pc[r] \in {"index", "answer"} => record.key = key[r] /\ record.token = r

UpdateTurn(u) == upc[u] = "read" => ucopy[u] = record

DeletionTurn(d) ==
  /\ dpc[d] \in {"token", "record"} => dcopy[d] = record
  /\ dpc[d] = "record" => tokens = {}
  /\ dpc[d] = "history" => record = NoRecord

\* The record, the token index, the key history and the owner's files agree,
\* and versions only grow.
RecordTurn ==
  /\ tokens \subseteq {record.token}
  /\ ~Exists(record) => record = NoRecord /\ published = {}
  /\ localKey = None => ~Exists(record) /\ config = None
  /\ Exists(record) /\ NoBrokenRotation => record.key = localKey
  /\ Exists(record) => Entry(record) \in published
  /\ Exists(record) => Chronicle(history, published)
  /\ ~Exists(record) => history = <<>> \/ \E d \in Deletions : dpc[d] = "history"
  /\ \A p \in published :
       /\ p = Entry(record) \/ In(history, p) \/ Out(history, p)
       /\ p.version <= record.version
       /\ p.version = record.version => p.key = record.key
  /\ \A p, q \in published : p.version = q.version => p.key = q.key

InTurn ==
  /\ Alone
  /\ \A r \in Requests : RequestTurn(r)
  /\ \A u \in Updates : UpdateTurn(u)
  /\ \A d \in Deletions : DeletionTurn(d)
  /\ RecordTurn

TurnInv == TypeOK /\ (~overlapped => InTurn)

LEMMA TurnInit == Init => TurnInv
BY TypeInit
   DEF Init, TurnInv, InTurn, Alone, RequestTurn, UpdateTurn, DeletionTurn, RecordTurn, InFlight,
       Deleting, Exists, NoRecord

\* A command or an update that starts finds nobody in flight.
LEMMA TurnOwner ==
  ASSUME TypeOK, TypeOK', InTurn, NEW r \in Requests, RunRegister(r) \/ RunRecover(r), ~overlapped'
  PROVE  InTurn'
<1>. USE NoneAssumption DEF TypeOK, Goto, broker, owner, others, NoteOverlap
<1>1. /\ ~Busy
      /\ pc[r] = "new" /\ pc' = [pc EXCEPT ![r] = "sent"] /\ status' = status
      /\ record' = record /\ tokens' = tokens /\ history' = history /\ config' = config
      /\ upc' = upc /\ ucopy' = ucopy /\ dpc' = dpc /\ dcopy' = dcopy /\ published' = published
      /\ key' = [key EXCEPT ![r] = localKey']
      /\ \/ localKey' = localKey
         \/ localKey' = r /\ Kind[r] # "recover" /\ (Kind[r] = "fresh" => localKey = None)
      /\ localKey' # None
  BY DEF RunRegister, RunRecover, InTurn, RecordTurn
<1>2. Alone'
  BY <1>1 DEF Alone, InFlight, Deleting, Busy
<1>3. \A q \in Requests : RequestTurn(q)'
  <2>. SUFFICES ASSUME NEW q \in Requests PROVE RequestTurn(q)'
    OBVIOUS
  <2>1. CASE q = r
    BY <1>1, <2>1 DEF InTurn, RequestTurn, InFlight
  <2>2. CASE q # r
    BY <1>1, <2>2 DEF InTurn, RequestTurn, InFlight, Busy
  <2>. QED
    BY <2>1, <2>2
<1>4. (\A u \in Updates : UpdateTurn(u)') /\ (\A d \in Deletions : DeletionTurn(d)')
  BY <1>1 DEF InTurn, UpdateTurn, DeletionTurn
<1>5. RecordTurn'
  <2>1. NoBrokenRotation' => NoBrokenRotation /\ Kind[r] # "force"
    <3>. SUFFICES ASSUME NoBrokenRotation' PROVE NoBrokenRotation /\ Kind[r] # "force"
      OBVIOUS
    <3>1. status[r] # 200
      BY <1>1 DEF InTurn, RequestTurn
    <3>. QED
      BY <1>1, <3>1 DEF NoBrokenRotation
  <2>2. RecordTurn /\ Kind[r] \in {"fresh", "force", "recover"}
    BY KindAssumption DEF InTurn
  <2>3. Exists(record) /\ NoBrokenRotation' => localKey' = localKey
    BY <1>1, <2>1, <2>2 DEF RecordTurn
  <2>4. localKey' = None => localKey = None
    BY <1>1
  <2>. HIDE DEF TypeOK
  <2>. QED
    BY <1>1, <2>1, <2>2, <2>3, <2>4 DEF RecordTurn, Exists
<1>. QED
  BY <1>2, <1>3, <1>4, <1>5 DEF InTurn

\* A step of a registration: it is the one writer in flight, so what it knows
\* is all that a turn has to keep.
LEMMA TurnRequest ==
  ASSUME TypeOK, TypeOK', InTurn, NEW r \in Requests, RegisterStep(r) \/ Fail(r)
  PROVE  InTurn'
<1>. USE NoneAssumption DEF TypeOK, Goto, Finish, broker, owner, others, observed
<1>0. /\ InFlight(r) /\ RequestTurn(r) /\ RecordTurn
      /\ upc' = upc /\ ucopy' = ucopy /\ dpc' = dpc /\ dcopy' = dcopy
      /\ key' = key /\ localKey' = localKey
  BY DEF RegisterStep, ReadRecord, Authenticate, ReadHistory, WriteHistory, RevokeToken,
         WriteRecord, IndexToken, Answer, Fail, InTurn, InFlight
<1>1. \A q \in Requests : q # r => /\ pc'[q] = pc[q] /\ status'[q] = status[q]
                                  /\ ~InFlight(q)
  BY <1>0 DEF RegisterStep, ReadRecord, Authenticate, ReadHistory, WriteHistory, RevokeToken,
         WriteRecord, IndexToken, Answer, Fail, InTurn, Alone
<1>2. (\A u \in Updates : upc[u] = "idle") /\ (\A d \in Deletions : ~Deleting(d))
  BY <1>0 DEF InTurn, Alone
<1>3. Alone'
  <2>1. \A q \in Requests : InFlight(q)' => q = r
    BY <1>1 DEF InFlight
  <2>. HIDE DEF TypeOK
  <2>. QED
    BY <1>0, <1>2, <2>1 DEF Alone, Deleting
<1>4. \A q \in Requests : q # r => RequestTurn(q)'
  <2>. SUFFICES ASSUME NEW q \in Requests, q # r PROVE RequestTurn(q)'
    OBVIOUS
  <2>1. pc'[q] \in {"new", "done"} /\ RequestTurn(q) /\ pc'[q] = pc[q] /\ status'[q] = status[q]
    BY <1>1 DEF InFlight, InTurn
  <2>. HIDE DEF TypeOK
  <2>. QED
    BY <2>1 DEF RequestTurn, InFlight
<1>5. (\A u \in Updates : UpdateTurn(u)') /\ (\A d \in Deletions : DeletionTurn(d)')
  BY <1>0, <1>2 DEF UpdateTurn, DeletionTurn, Deleting
<1>. SUFFICES RequestTurn(r)' /\ RecordTurn'
  BY <1>3, <1>4, <1>5 DEF InTurn
<1>6. ASSUME ~(Kind[r] = "force" /\ status'[r] = 200) PROVE NoBrokenRotation' => NoBrokenRotation
  <2>. SUFFICES ASSUME NoBrokenRotation', NEW q \in Requests, Kind[q] = "force"
                PROVE  pc[q] = "new" \/ status[q] = 200
    BY DEF NoBrokenRotation
  <2>1. CASE q = r
    <3>1. pc'[r] # "new"
      BY <1>0 DEF RegisterStep, ReadRecord, Authenticate, ReadHistory, WriteHistory, RevokeToken,
                  WriteRecord, IndexToken, Answer, Fail, InFlight
    <3>. QED
      BY <1>6, <2>1, <3>1 DEF NoBrokenRotation
  <2>2. CASE q # r
    BY <1>1, <2>2 DEF NoBrokenRotation
  <2>. QED
    BY <2>1, <2>2
<1>7. CASE ReadRecord(r)
  <2>1. status'[r] # 200 /\ UNCHANGED <<record, tokens, history, config, published>>
    BY <1>0, <1>7 DEF ReadRecord, RequestTurn, InFlight
  <2>2. RecordTurn'
    BY <1>0, <1>6, <2>1 DEF RecordTurn, Exists
  <2>3. /\ old'[r] = record
        /\ pc'[r] \in {"auth", "write", "done"}
        /\ pc'[r] = "auth" => Exists(record)
        /\ pc'[r] = "write" => ~Exists(record)
    BY <1>7 DEF ReadRecord
  <2>4. ~Exists(record) => tokens = {}
    BY <1>0 DEF RecordTurn, NoRecord
  <2>5. RequestTurn(r)'
    BY <1>0, <2>1, <2>3, <2>4 DEF RequestTurn, InFlight, Exists
  <2>. QED
    BY <2>2, <2>5
<1>8. CASE Authenticate(r) \/ ReadHistory(r)
  <2>1. status'[r] # 200 /\ UNCHANGED <<record, tokens, history, config, published, old>>
    BY <1>0, <1>8 DEF Authenticate, ReadHistory, RequestTurn, InFlight
  <2>2. RecordTurn'
    BY <1>0, <1>6, <2>1 DEF RecordTurn, Exists
  <2>3. /\ pc[r] \in {"auth", "history"} /\ pc'[r] \in {"history", "rotate", "done"}
        /\ pc'[r] = "rotate" => oldHistory'[r] = history
    BY <1>8 DEF Authenticate, ReadHistory
  <2>4. RequestTurn(r)'
    BY <1>0, <2>1, <2>3 DEF RequestTurn, InFlight, Exists
  <2>. QED
    BY <2>2, <2>4
<1>9. CASE WriteHistory(r)
  <2>1. /\ status'[r] # 200 /\ UNCHANGED <<record, tokens, config, published, old>>
        /\ pc[r] = "rotate" /\ pc'[r] = "revoke"
    BY <1>0, <1>9 DEF WriteHistory, RequestTurn, InFlight
  <2>2. Exists(record) /\ history' = Latest(Append(history, Entry(record)))
    BY <1>0, <1>9, <2>1 DEF WriteHistory, RequestTurn
  <2>3. /\ published \in SUBSET Entries /\ Entry(record) \in published
        /\ history \in Seq(Entries) /\ Chronicle(history, published)
        /\ \A p \in published : p.version <= Entry(record).version
        /\ \A p, q \in published : p.version = q.version => p.key = q.key
        /\ \A p \in published : p = Entry(record) \/ In(history, p) \/ Out(history, p)
    BY <1>0, <2>2 DEF RecordTurn, Entry
  <2>4. /\ Chronicle(history', published)
        /\ \A p \in published : In(history', p) \/ Out(history', p)
        /\ In(history', Entry(record))
    <3>1. Entry(record) \in Entries /\ Len(history) <= HistoryMax
      BY <2>3 DEF Chronicle
    <3>2. Pushed(history, Entry(record), history')
      BY <2>2, <2>3, <3>1, LatestPushes
    <3>. HIDE DEF TypeOK
    <3>. QED
      BY <2>3, <3>2, PushInTurn
  <2>5. RecordTurn'
    BY <1>0, <1>6, <2>1, <2>2, <2>4 DEF RecordTurn, Exists
  <2>6. RequestTurn(r)'
    BY <1>0, <2>1, <2>4 DEF RequestTurn, InFlight, Exists
  <2>. QED
    BY <2>5, <2>6
<1>10. CASE RevokeToken(r)
  <2>1. /\ status'[r] # 200 /\ UNCHANGED <<record, history, config, published, old>>
        /\ pc[r] = "revoke" /\ pc'[r] = "write"
    BY <1>0, <1>10 DEF RevokeToken, RequestTurn, InFlight
  <2>2. tokens' = {}
    BY <1>0, <1>10, <2>1 DEF RevokeToken, RequestTurn, RecordTurn
  <2>3. RecordTurn'
    BY <1>0, <1>6, <2>1, <2>2 DEF RecordTurn, Exists
  <2>4. RequestTurn(r)'
    BY <1>0, <2>1, <2>2 DEF RequestTurn, InFlight, Exists
  <2>. QED
    BY <2>3, <2>4
<1>11. CASE WriteRecord(r)
  <2>1. /\ status'[r] # 200 /\ UNCHANGED <<tokens, history, config, old>>
        /\ pc[r] = "write" /\ pc'[r] = "index"
    BY <1>0, <1>11 DEF WriteRecord, RequestTurn, InFlight
  <2>2. /\ record' = [key |-> key[r], token |-> r, version |-> record.version + 1]
        /\ published' = published \cup {[version |-> record.version + 1, key |-> key[r]]}
        /\ record.version \in Nat
        /\ \A p \in published : p.version \in Nat
    BY <1>0, <1>11, <2>1 DEF WriteRecord, NewRecord, RequestTurn, Record, Entry, Entries
  <2>3. /\ tokens = {} /\ key[r] = localKey /\ localKey # None
        /\ \A p \in published : In(history, p) \/ Out(history, p)
        /\ \A p \in published : p.version <= record.version
    BY <1>0, <2>1 DEF RequestTurn, RecordTurn
  <2>4. /\ record'.key = key[r] /\ record'.token = r /\ record'.version = record.version + 1
        /\ Exists(record')
    BY <2>2 DEF Exists
  <2>5. \A p \in published' : \/ p \in published /\ p.version < record'.version
                              \/ p.key = key[r] /\ p.version = record'.version
    BY <2>2, <2>3, <2>4
  <2>6. \A p, q \in published' : p.version = q.version => p.key = q.key
    <3>. SUFFICES ASSUME NEW p \in published', NEW q \in published', p.version = q.version
                  PROVE  p.key = q.key
      OBVIOUS
    <3>1. CASE p \in published /\ q \in published
      BY <1>0, <3>1 DEF RecordTurn
    <3>2. CASE p.key = key[r] /\ q.key = key[r]
      BY <3>2
    <3>. QED
      BY <2>2, <2>4, <2>5, <3>1, <3>2
  <2>7. RecordTurn'
    <3>1. tokens' \subseteq {record'.token} /\ (Exists(record)') /\ localKey' # None
          /\ record'.key = localKey'
      BY <1>0, <2>1, <2>3, <2>4
    <3>2. \A p \in published' :
            /\ p.version <= record'.version
            /\ p.version = record'.version => p.key = record'.key
      BY <2>1, <2>2, <2>3, <2>4, <2>5
    <3>3. Entry(record') = [version |-> record.version + 1, key |-> key[r]]
      BY <2>4 DEF Entry
    <3>4. Entry(record') \in published' /\ published \subseteq published'
      BY <2>2, <3>3
    <3>5. \A p \in published' : p = Entry(record') \/ In(history', p) \/ Out(history', p)
      BY <2>1, <2>2, <2>3, <3>3
    <3>6. Chronicle(history', published')
      <4>1. Exists(record) => Chronicle(history, published)
        BY <1>0 DEF RecordTurn
      <4>2. ~Exists(record) => history = <<>>
        BY <1>0, <1>2 DEF RecordTurn, Deleting
      <4>4. ~Exists(record) => Len(history) = 0
        BY <4>2
      <4>3. 0 <= HistoryMax
        BY HistoryAssumption
      <4>. HIDE DEF TypeOK
      <4>. QED
        BY <2>1, <3>4, <4>1, <4>3, <4>4 DEF Chronicle
    <3>. HIDE DEF TypeOK
    <3>. QED
      BY <2>4, <2>6, <3>1, <3>2, <3>4, <3>5, <3>6 DEF RecordTurn
  <2>8. RequestTurn(r)'
    BY <1>0, <2>1, <2>3, <2>4 DEF RequestTurn, InFlight
  <2>. QED
    BY <2>7, <2>8
<1>12. CASE IndexToken(r)
  <2>1. /\ status'[r] # 200 /\ UNCHANGED <<record, history, config, published, old>>
        /\ pc[r] = "index" /\ pc'[r] = "answer" /\ tokens' = tokens \cup {r}
    BY <1>0, <1>12 DEF IndexToken, RequestTurn, InFlight
  <2>2. RecordTurn'
    BY <1>0, <1>6, <2>1 DEF RecordTurn, RequestTurn, Exists
  <2>3. RequestTurn(r)'
    BY <1>0, <2>1 DEF RequestTurn, InFlight
  <2>. QED
    BY <2>2, <2>3
<1>13. CASE Answer(r)
  <2>1. /\ UNCHANGED <<record, tokens, history, published, old>>
        /\ pc[r] = "answer" /\ pc'[r] = "done" /\ config' = r
    BY <1>13 DEF Answer
  <2>2. RecordTurn'
    BY <1>0, <2>1 DEF RecordTurn, RequestTurn, InFlight, Exists
  <2>3. RequestTurn(r)'
    BY <1>0, <2>1 DEF RequestTurn, InFlight
  <2>. QED
    BY <2>2, <2>3
<1>14. CASE Fail(r)
  <2>1. /\ status'[r] # 200 /\ UNCHANGED <<record, tokens, history, config, published, old>>
        /\ pc'[r] = "done"
    BY <1>14 DEF Fail
  <2>2. RecordTurn'
    BY <1>0, <1>6, <2>1 DEF RecordTurn, Exists
  <2>3. RequestTurn(r)'
    BY <1>0, <2>1 DEF RequestTurn, InFlight
  <2>. QED
    BY <2>2, <2>3
<1>. QED
  BY <1>7, <1>8, <1>9, <1>10, <1>11, <1>12, <1>13, <1>14 DEF RegisterStep

LEMMA TurnUpdate ==
  ASSUME TypeOK, TypeOK', InTurn, NEW u \in Updates, UpdateStep(u), ~overlapped'
  PROVE  InTurn'
<1>. USE DEF TypeOK, broker, owner, request, observed, NoteOverlap
<1>0. /\ UNCHANGED <<tokens, history, owner, request, dpc, dcopy, published>>
      /\ (NoBrokenRotation' <=> NoBrokenRotation) /\ (\A r \in Requests : InFlight(r)' <=> InFlight(r))
  BY DEF UpdateStep, UpdateRead, UpdateWrite, NoBrokenRotation, InFlight
<1>1. record' = record
  BY DEF UpdateStep, UpdateRead, UpdateWrite, InTurn, UpdateTurn
<1>2. RecordTurn'
  BY <1>0, <1>1 DEF InTurn, RecordTurn, Exists
<1>3. \A r \in Requests : RequestTurn(r)'
  BY <1>0, <1>1 DEF InTurn, RequestTurn, Exists
<1>4. \A d \in Deletions : DeletionTurn(d)'
  BY <1>0, <1>1 DEF InTurn, DeletionTurn
<1>5. CASE UpdateRead(u)
  <2>1. /\ ~Busy /\ upc' = [upc EXCEPT ![u] = "read"] /\ ucopy' = [ucopy EXCEPT ![u] = record]
    BY <1>5 DEF UpdateRead
  <2>2. Alone'
    BY <1>0, <2>1 DEF Alone, Busy, InFlight, Deleting
  <2>3. \A v \in Updates : UpdateTurn(v)'
    BY <1>1, <2>1 DEF UpdateTurn, Busy
  <2>. QED
    BY <1>2, <1>3, <1>4, <2>2, <2>3 DEF InTurn
<1>6. CASE UpdateWrite(u)
  <2>1. upc' = [upc EXCEPT ![u] = "idle"] /\ upc[u] = "read"
    BY <1>6 DEF UpdateWrite
  <2>2. Alone'
    BY <1>0, <2>1 DEF InTurn, Alone, InFlight, Deleting
  <2>3. \A v \in Updates : UpdateTurn(v)'
    BY <1>1, <2>1 DEF InTurn, Alone, UpdateTurn
  <2>. QED
    BY <1>2, <1>3, <1>4, <2>2, <2>3 DEF InTurn
<1>. QED
  BY <1>5, <1>6 DEF UpdateStep

LEMMA TurnDeletion ==
  ASSUME TypeOK, TypeOK', InTurn, NEW d \in Deletions, DeletionStep(d), ~overlapped'
  PROVE  InTurn'
<1>. USE NoneAssumption DEF TypeOK, broker, owner, request, observed, NoteOverlap
<1>0. /\ UNCHANGED <<owner, request, upc, ucopy>>
      /\ (NoBrokenRotation' <=> NoBrokenRotation) /\ (\A r \in Requests : InFlight(r)' <=> InFlight(r))
      /\ \A e \in Deletions : e # d => dpc'[e] = dpc[e]
  BY DEF DeletionStep, DeleteRead, DeleteToken, DeleteRecord, DeleteHistory, DeleteStep,
         NoBrokenRotation, InFlight
<1>1. /\ \A r \in Requests : ~InFlight(r)
      /\ \A u \in Updates : upc[u] = "idle"
      /\ \A e \in Deletions : e # d => ~Deleting(e)
  <2>1. CASE DeleteRead(d)
    BY <2>1 DEF DeleteRead, Busy, Deleting
  <2>2. CASE ~DeleteRead(d)
    <3>1. Deleting(d)
      BY <2>2 DEF DeletionStep, DeleteToken, DeleteRecord, DeleteHistory, DeleteStep, Deleting
    <3>. QED
      BY <3>1 DEF InTurn, Alone
  <2>. QED
    BY <2>1, <2>2
<1>2. Alone'
  BY <1>0, <1>1 DEF Alone, InFlight, Deleting
<1>3. \A u \in Updates : UpdateTurn(u)'
  BY <1>0, <1>1 DEF UpdateTurn
<1>4. \A r \in Requests : RequestTurn(r)'
  BY <1>0, <1>1 DEF InTurn, RequestTurn, InFlight
<1>5. \A e \in Deletions : e # d => DeletionTurn(e)'
  BY <1>0, <1>1 DEF DeletionTurn, Deleting
<1>. SUFFICES DeletionTurn(d)' /\ RecordTurn'
  BY <1>2, <1>3, <1>4, <1>5 DEF InTurn
<1>6. CASE DeleteRead(d)
  <2>1. /\ UNCHANGED <<record, tokens, history, published>>
        /\ dpc'[d] = "token" /\ dcopy'[d] = record /\ Exists(record)
    BY <1>6 DEF DeleteRead, DeleteStep
  <2>. QED
    BY <1>0, <2>1 DEF InTurn, DeletionTurn, RecordTurn, Exists
<1>7. CASE DeleteToken(d)
  <2>1. /\ UNCHANGED <<record, history, published, dcopy>> /\ dpc[d] = "token" /\ dpc'[d] = "record"
        /\ tokens' = tokens \ {dcopy[d].token}
    BY <1>7 DEF DeleteToken, DeleteStep
  <2>2. dcopy[d] = record /\ tokens' = {}
    BY <2>1 DEF InTurn, DeletionTurn, RecordTurn
  <2>. QED
    BY <1>0, <2>1, <2>2 DEF InTurn, DeletionTurn, RecordTurn, Exists
<1>8. CASE DeleteRecord(d)
  <2>1. /\ UNCHANGED <<tokens, history, dcopy>> /\ dpc[d] = "record" /\ dpc'[d] = "history"
        /\ record' = NoRecord /\ published' = {}
    BY <1>8 DEF DeleteRecord, DeleteStep
  <2>2. tokens' = {} /\ record'.version = 0
    BY <2>1 DEF InTurn, DeletionTurn, NoRecord
  <2>. QED
    BY <1>0, <2>1, <2>2 DEF InTurn, DeletionTurn, RecordTurn, Exists
<1>9. CASE DeleteHistory(d)
  <2>1. /\ UNCHANGED <<record, tokens, published, dcopy>> /\ dpc[d] = "history" /\ dpc'[d] = "done"
        /\ history' = <<>>
    BY <1>9 DEF DeleteHistory, DeleteStep
  <2>2. record = NoRecord /\ record.version = 0 /\ published = {}
    BY <2>1 DEF InTurn, DeletionTurn, RecordTurn, Exists, NoRecord
  <2>. QED
    BY <1>0, <2>1, <2>2 DEF InTurn, DeletionTurn, RecordTurn, Exists
<1>. QED
  BY <1>6, <1>7, <1>8, <1>9 DEF DeletionStep

LEMMA OverlappedStays == [Next]_vars /\ ~overlapped' => ~overlapped
BY DEF Next, RunRegister, RunRecover, NoteOverlap, RegisterStep, ReadRecord, Authenticate, ReadHistory,
       WriteHistory, RevokeToken, WriteRecord, IndexToken, Answer, Fail, UpdateStep, UpdateRead,
       UpdateWrite, DeletionStep, DeleteRead, DeleteToken, DeleteRecord, DeleteHistory, vars, observed

LEMMA TurnNext == TurnInv /\ [Next]_vars => TurnInv'
<1>. SUFFICES ASSUME TurnInv, [Next]_vars, ~overlapped' PROVE InTurn'
  BY TypeNext DEF TurnInv
<1>1. TypeOK /\ TypeOK' /\ InTurn
  BY TypeNext, OverlappedStays DEF TurnInv
<1>2. CASE UNCHANGED vars
  BY <1>1, <1>2
     DEF InTurn, Alone, RequestTurn, UpdateTurn, DeletionTurn, RecordTurn, InFlight, Deleting, Exists,
         NoBrokenRotation, vars, broker, owner, request, others, observed
<1>3. CASE Next
  BY <1>1, <1>3, TurnOwner, TurnRequest, TurnUpdate, TurnDeletion DEF Next
<1>. QED
  BY <1>2, <1>3

LEMMA TurnAlways == Spec => []TurnInv
BY TurnInit, TurnNext, PTL DEF Spec

\* For any writers that take turns, complete or not, no token but the record's
\* authenticates.
THEOREM CurrentTokenOnly == Spec => []OnlyCurrentTokenValid
<1>1. TurnInv => OnlyCurrentTokenValid
  BY DEF TurnInv, InTurn, RecordTurn, OnlyCurrentTokenValid
<1>. QED
  BY <1>1, TurnAlways, PTL

\* For any writers that take turns, complete or not, and any length of the
\* history, a key the record has had is its key, or in the history, or older
\* than every entry of a full history.
THEOREM KeysKept == Spec => []KeysRetained
<1>1. TypeOK => DOMAIN history = 1 .. Len(history)
  BY LenProperties DEF TypeOK
<1>2. TurnInv => KeysRetained
  BY <1>1 DEF TurnInv, InTurn, RecordTurn, In, Out, Listed, PushedOut, KeysRetained
<1>. QED
  BY <1>2, TurnAlways, PTL

\* For any writers that take turns, complete or not, a version names one key.
THEOREM OneKeyPerVersion == Spec => []VersionNamesOneKey
<1>1. TurnInv => VersionNamesOneKey
  BY DEF TurnInv, InTurn, RecordTurn, VersionNamesOneKey
<1>. QED
  BY <1>1, TurnAlways, PTL

\* For any writers that take turns and whatever fails, an owner whose rotations
\* were answered holds the key the broker has.
THEOREM OwnerHoldsKey == Spec => []OwnerHoldsRegisteredKey
<1>1. TurnInv => OwnerHoldsRegisteredKey
  BY DEF TurnInv, InTurn, RecordTurn, OwnerHoldsRegisteredKey
<1>. QED
  BY <1>1, TurnAlways, PTL

=============================================================================
