------------------------------ MODULE Hints_proofs ------------------------------
(***************************************************************************)
(* Theorems about the connection that handlers and the hint consumer       *)
(* share, for any requests, hints, batch size, stops and errors.           *)
(***************************************************************************)
EXTENDS Hints, TLAPS

(***************************************************************************)
(* What a command of the connection is, and what taking one leaves.        *)
(***************************************************************************)

LEMMA CallsOf ==
  ASSUME NEW r \in Requests
  PROVE  /\ Calls(r) \in Seq(Ops)
         /\ r \in Sends => /\ Len(Calls(r)) = 4
                           /\ Calls(r)[1] = "body" /\ Calls(r)[2] = "list"
                           /\ Calls(r)[3] = "hint" /\ Calls(r)[4] = "mark"
         /\ r \notin Sends => /\ Len(Calls(r)) = 2
                              /\ Calls(r)[1] = "index" /\ Calls(r)[2] = "bodies"
<1>1. CASE r \in Sends
  <2>1. Calls(r) = <<"body", "list", "hint", "mark">>
    BY <1>1 DEF Calls
  <2>. QED
    BY <1>1, <2>1 DEF Ops
<1>2. CASE r \notin Sends
  <2>1. Calls(r) = <<"index", "bodies">>
    BY <1>2 DEF Calls
  <2>. QED
    BY <1>2, <2>1 DEF Ops
<1>. QED
  BY <1>1, <1>2

LEMMA Taken ==
  ASSUME line \in Seq(CommandType), NEW op, Takes(op)
  PROVE  /\ line' \in Seq(CommandType) /\ Len(line) \in Nat \ {0} /\ Len(line') = Len(line) - 1
         /\ 1 \in DOMAIN line /\ Head(line) = line[1] /\ line[1].op = op
         /\ line[1] \in CommandType
         /\ \A i \in DOMAIN line' : i + 1 \in DOMAIN line /\ i + 1 # 1 /\ line'[i] = line[i + 1]
BY DEF Takes

LEMMA Put ==
  ASSUME line \in Seq(CommandType), NEW c \in CommandType, line' = Append(line, c)
  PROVE  /\ line' \in Seq(CommandType)
         /\ \A i \in DOMAIN line' : \/ i \in DOMAIN line /\ line'[i] = line[i]
                                    \/ i = Len(line) + 1 /\ line'[i] = c
         /\ \A i \in DOMAIN line : i \in DOMAIN line' /\ i < Len(line) + 1
         /\ Len(line) + 1 \in DOMAIN line' /\ line'[Len(line) + 1] = c
OBVIOUS

LEMMA PutAcks ==
  ASSUME line \in Seq(CommandType), hands \in Seq(Ids), Handle
  PROVE  /\ line' \in Seq(CommandType)
         /\ \A i \in DOMAIN line' :
              \/ i \in DOMAIN line /\ line'[i] = line[i]
              \/ i \notin DOMAIN line /\ line'[i].by = Consumer /\ line'[i].op = "ack"
         /\ \A i \in DOMAIN line : i \in DOMAIN line' /\ line'[i] = line[i]
         /\ \A k \in DOMAIN hands : /\ Len(line) + k \in DOMAIN line'
                                    /\ line'[Len(line) + k].op = "ack"
                                    /\ line'[Len(line) + k].of = hands[k]
<1>. DEFINE acks == [i \in 1 .. Len(hands) |-> Command(Consumer, "ack", hands[i])]
<1>1. \A i \in 1 .. Len(hands) : Command(Consumer, "ack", hands[i]) \in CommandType
  BY DEF Command, CommandType, Ops
<1>2. acks \in Seq(CommandType) /\ Len(acks) = Len(hands)
  BY <1>1
<1>3. \A i \in 1 .. Len(hands) : acks[i].by = Consumer /\ acks[i].op = "ack" /\ acks[i].of = hands[i]
  BY DEF Command
<1>4. line' = line \o acks
  BY DEF Handle
<1>. HIDE DEF acks
<1>5. line' \in Seq(CommandType) /\ Len(line') = Len(line) + Len(hands)
  BY <1>2, <1>4
<1>6. \A i \in 1 .. Len(line) : line'[i] = line[i]
  BY <1>2, <1>4
<1>7. \A k \in 1 .. Len(hands) : line'[Len(line) + k] = acks[k]
  BY <1>2, <1>4
<1>8. \A i \in DOMAIN line' : i \notin DOMAIN line => i - Len(line) \in 1 .. Len(hands)
  BY <1>5
<1>9. \A i \in DOMAIN line' : i \notin DOMAIN line => line'[i].by = Consumer /\ line'[i].op = "ack"
  <2>. SUFFICES ASSUME NEW i \in DOMAIN line', i \notin DOMAIN line
                PROVE  line'[i].by = Consumer /\ line'[i].op = "ack"
    OBVIOUS
  <2>1. i - Len(line) \in 1 .. Len(hands) /\ i = Len(line) + (i - Len(line))
    BY <1>5, <1>8
  <2>. QED
    BY <1>3, <1>7, <2>1
<1>10. \A i \in DOMAIN line : i \in DOMAIN line' /\ line'[i] = line[i]
  BY <1>5, <1>6
<1>11. \A k \in DOMAIN hands : /\ Len(line) + k \in DOMAIN line'
                               /\ line'[Len(line) + k].op = "ack"
                               /\ line'[Len(line) + k].of = hands[k]
  <2>. SUFFICES ASSUME NEW k \in DOMAIN hands
                PROVE  /\ Len(line) + k \in DOMAIN line' /\ line'[Len(line) + k] = acks[k]
    BY <1>3
  <2>. QED
    BY <1>5, <1>7
<1>. QED
  BY <1>5, <1>9, <1>10, <1>11

(***************************************************************************)
(* The inductive invariant: a request has at most one command on the       *)
(* connection, the call it is at, and the consumer at most one read; the   *)
(* group is there before anything else is.                                 *)
(***************************************************************************)

CallAt(i) ==
  LET r == line[i].by IN
    /\ pc[r] = "run" /\ step[r] \in DOMAIN Calls(r)
    /\ line[i].op = Calls(r)[step[r]] /\ line[i].of = r
    /\ \A j \in DOMAIN line : line[j].by = r => j = i

CallInv ==
  \A i \in DOMAIN line : IF line[i].op \in {"group", "read", "ack"} THEN line[i].by = Consumer
                         ELSE line[i].by \in Requests /\ CallAt(i)

LoopInv ==
  /\ consumer = "down" => line = <<>> /\ \A r \in Requests : pc[r] # "run"
  /\ consumer = "create" => line # <<>> /\ line[1].op = "group"
  /\ consumer \notin {"down", "create"} => group
  /\ consumer # "handle" => hands = <<>>
  /\ \A i \in DOMAIN line : line[i].op = "group" => i = 1 /\ consumer = "create"
  /\ \A i \in DOMAIN line : line[i].op = "read" =>
       consumer = "read" /\ \A j \in DOMAIN line : line[j].op = "read" => j = i

BaseInv == TypeOK /\ CallInv /\ LoopInv

LEMMA BaseInit == Init => BaseInv
<1>. SUFFICES ASSUME Init PROVE BaseInv
  OBVIOUS
<1>1. line = <<>> /\ unread = <<>> /\ hands = <<>>
  BY DEF Init
<1>2. TypeOK
  BY <1>1 DEF Init, TypeOK
<1>3. CallInv
  BY <1>1 DEF CallInv
<1>4. LoopInv
  BY <1>1 DEF Init, LoopInv
<1>. QED
  BY <1>2, <1>3, <1>4 DEF BaseInv

\* The first command is taken: what the others say is as true as it was.
LEMMA CallTaken ==
  ASSUME BaseInv, NEW op, Takes(op),
         \A r \in Requests : r = line[1].by \/ (pc'[r] = pc[r] /\ step'[r] = step[r])
  PROVE  CallInv'
<1>1. line \in Seq(CommandType)
  BY DEF BaseInv, TypeOK
<1>2. SUFFICES ASSUME NEW i \in DOMAIN line', line'[i].op \notin {"group", "read", "ack"}
               PROVE  line'[i].by \in Requests /\ CallAt(i)'
  BY <1>1, Taken DEF BaseInv, CallInv
<1>3. i + 1 \in DOMAIN line /\ i + 1 # 1 /\ line'[i] = line[i + 1] /\ 1 \in DOMAIN line
  BY <1>1, Taken
<1>4. line[i + 1].by \in Requests /\ CallAt(i + 1)
  BY <1>2, <1>3 DEF BaseInv, CallInv
<1>5. line[i + 1].by # line[1].by
  BY <1>3, <1>4 DEF CallAt
<1>6. \A j \in DOMAIN line' : line'[j].by = line[i + 1].by => j = i
  <2>. SUFFICES ASSUME NEW j \in DOMAIN line', line'[j].by = line[i + 1].by PROVE j = i
    OBVIOUS
  <2>1. j + 1 \in DOMAIN line /\ line'[j] = line[j + 1]
    BY <1>1, Taken
  <2>2. j + 1 = i + 1
    BY <1>4, <2>1 DEF CallAt
  <2>3. i \in Nat /\ j \in Nat
    BY <1>1, Taken
  <2>. QED
    BY <2>2, <2>3
<1>. QED
  BY <1>3, <1>4, <1>5, <1>6 DEF CallAt

\* Of the consumer's commands, too: no group is asked for any more, and if it
\* was the read that was taken then no other is left.
LEMMA LoopTaken ==
  ASSUME BaseInv, NEW op, Takes(op)
  PROVE  /\ \A i \in DOMAIN line' : line'[i].op # "group"
         /\ \A i \in DOMAIN line' : line'[i].op = "read" =>
              /\ consumer = "read" /\ op # "read"
              /\ \A j \in DOMAIN line' : line'[j].op = "read" => j = i
         /\ consumer # "down" /\ (op # "group" => group /\ consumer # "create")
<1>1. line \in Seq(CommandType)
  BY DEF BaseInv, TypeOK
<1>2. /\ 1 \in DOMAIN line /\ line[1].op = op /\ line # <<>>
      /\ \A i \in DOMAIN line' : /\ i \in Nat /\ i + 1 \in DOMAIN line /\ i + 1 # 1
                                 /\ line'[i] = line[i + 1]
  BY <1>1, Taken
<1>3. consumer # "down" /\ (op # "group" => group /\ consumer # "create")
  BY <1>2 DEF BaseInv, LoopInv
<1>4. \A i \in DOMAIN line' : line'[i].op # "group"
  BY <1>2 DEF BaseInv, LoopInv
<1>5. \A i \in DOMAIN line' : line'[i].op = "read" => consumer = "read" /\ op # "read"
  BY <1>2 DEF BaseInv, LoopInv
<1>6. ASSUME NEW i \in DOMAIN line', line'[i].op = "read", NEW j \in DOMAIN line', line'[j].op = "read"
      PROVE  j = i
  <2>1. i + 1 = j + 1
    BY <1>2, <1>6 DEF BaseInv, LoopInv
  <2>. QED
    BY <1>2, <2>1
<1>. QED
  BY <1>3, <1>4, <1>5, <1>6

\* A request's call is answered.
LEMMA Resumed ==
  ASSUME BaseInv, NEW op \in Ops \ {"group", "read", "ack"}, Takes(op)
  PROVE  /\ line' \in Seq(CommandType) /\ Head(line) = line[1]
         /\ line[1].by \in Requests /\ line[1].of = line[1].by
         /\ pc[line[1].by] = "run" /\ step[line[1].by] + 1 \in 1 .. 5
         /\ op = Calls(line[1].by)[step[line[1].by]]
         /\ op \in {"body", "list", "hint", "mark"} <=> line[1].by \in Sends
<1>1. line \in Seq(CommandType)
  BY DEF BaseInv, TypeOK
<1>2. line' \in Seq(CommandType) /\ Head(line) = line[1] /\ 1 \in DOMAIN line /\ line[1].op = op
  BY <1>1, Taken
<1>3. line[1].by \in Requests /\ CallAt(1)
  BY <1>2 DEF BaseInv, CallInv
<1>4. step[line[1].by] \in 1 .. Len(Calls(line[1].by))
  BY <1>3, CallsOf DEF CallAt
<1>5. step[line[1].by] + 1 \in 1 .. 5
  <2>1. CASE Len(Calls(line[1].by)) = 2
    BY <1>4, <2>1
  <2>2. CASE Len(Calls(line[1].by)) = 4
    BY <1>4, <2>2
  <2>. QED
    BY <1>3, <2>1, <2>2, CallsOf
<1>6. /\ line[1].of = line[1].by /\ pc[line[1].by] = "run"
      /\ op = Calls(line[1].by)[step[line[1].by]]
  BY <1>2, <1>3 DEF CallAt
<1>7. op \in {"body", "list", "hint", "mark"} <=> line[1].by \in Sends
  <2>1. CASE line[1].by \in Sends
    <3>1. Len(Calls(line[1].by)) = 4
      BY <1>3, <2>1, CallsOf
    <3>2. step[line[1].by] \in {1, 2, 3, 4}
      BY <1>4, <3>1
    <3>. QED
      BY <1>3, <1>6, <2>1, <3>2, CallsOf
  <2>2. CASE line[1].by \notin Sends
    <3>1. Len(Calls(line[1].by)) = 2
      BY <1>3, <2>2, CallsOf
    <3>2. step[line[1].by] \in {1, 2}
      BY <1>4, <3>1
    <3>. QED
      BY <1>3, <1>6, <2>2, <3>2, CallsOf
  <2>. QED
    BY <2>1, <2>2
<1>. QED
  BY <1>2, <1>3, <1>5, <1>6, <1>7

(***************************************************************************)
(* Every step keeps it.                                                    *)
(***************************************************************************)

RequestCall ==
  \/ ReadKept("index") \/ ReadKept("bodies") \/ ReadKept("mark")
  \/ PutBody \/ PushIndex \/ AddHint

LEMMA BatchType ==
  ASSUME unread \in Seq(Ids), unread # <<>>
  PROVE  /\ Batch \in Seq(Ids) /\ SubSeq(unread, Len(Batch) + 1, Len(unread)) \in Seq(Ids)
         /\ Len(Batch) \in Nat /\ Len(Batch) <= Len(unread)
         /\ \A k \in 1 .. Len(Batch) : Batch[k] = unread[k]
         /\ \A k \in DOMAIN SubSeq(unread, Len(Batch) + 1, Len(unread)) :
              \E j \in DOMAIN unread : SubSeq(unread, Len(Batch) + 1, Len(unread))[k] = unread[j]
<1>. DEFINE n == IF Len(unread) < ReadCount THEN Len(unread) ELSE ReadCount
<1>1. n \in Nat /\ n <= Len(unread) /\ Batch = SubSeq(unread, 1, n)
  BY ReadCountAssumption DEF Batch
<1>. HIDE DEF n
<1>2. Batch \in Seq(Ids) /\ Len(Batch) = n /\ \A k \in 1 .. n : Batch[k] = unread[k]
  BY <1>1
<1>3. /\ SubSeq(unread, n + 1, Len(unread)) \in Seq(Ids)
      /\ \A k \in DOMAIN SubSeq(unread, n + 1, Len(unread)) :
           n + k \in DOMAIN unread /\ SubSeq(unread, n + 1, Len(unread))[k] = unread[n + k]
  BY <1>1
<1>. QED
  BY <1>1, <1>2, <1>3

LEMMA BaseRequestCall == ASSUME BaseInv, RequestCall PROVE BaseInv'
<1>. DEFINE r == line[1].by
<1>1. PICK op \in Ops \ {"group", "read", "ack"} : Takes(op)
  BY DEF RequestCall, ReadKept, PutBody, PushIndex, AddHint, Ops
<1>2. Head(line) = line[1] /\ line' \in Seq(CommandType) /\ r \in Requests
  BY <1>1, Resumed
<1>3. /\ step' = [step EXCEPT ![r] = @ + 1]
      /\ UNCHANGED <<pc, consumer, hands, coming, stops, errors, gone, stranded>>
  BY <1>2 DEF RequestCall, ReadKept, PutBody, PushIndex, AddHint, Resume, loop, redis, history
<1>4. step' \in [Requests -> 1 .. 5]
  BY <1>1, <1>2, <1>3, Resumed DEF BaseInv, TypeOK
<1>5. CallInv'
  BY <1>1, <1>3, CallTaken DEF BaseInv, TypeOK
<1>6. group' = group /\ pel' = pel /\ delays' = delays
  BY DEF RequestCall, ReadKept, PutBody, PushIndex, AddHint, redis, history
<1>7. LoopInv'
  BY <1>1, <1>3, <1>6, LoopTaken DEF BaseInv, LoopInv
<1>8. /\ kept \in [stored : SUBSET Sends, listed : SUBSET Sends]
      /\ unread \in Seq(Ids) /\ skipped \subseteq Ids
  BY DEF BaseInv, TypeOK
<1>9. kept' \in [stored : SUBSET Sends, listed : SUBSET Sends]
  <2>1. CASE PutBody
    <3>1. r \in Sends /\ line[1].of = r
      BY <2>1, Resumed DEF PutBody, Ops
    <3>. QED
      BY <1>2, <1>8, <2>1, <3>1 DEF PutBody
  <2>2. CASE PushIndex
    <3>1. r \in Sends /\ line[1].of = r
      BY <2>2, Resumed DEF PushIndex, Ops
    <3>. QED
      BY <1>2, <1>8, <2>2, <3>1 DEF PushIndex
  <2>3. CASE ~PutBody /\ ~PushIndex
    BY <1>8, <2>3 DEF RequestCall, ReadKept, AddHint, redis
  <2>. QED
    BY <2>1, <2>2, <2>3
<1>10. unread' \in Seq(Ids) /\ skipped' \subseteq Ids
  <2>1. CASE AddHint
    <3>1. line[1].of \in Ids
      BY <2>1, Resumed DEF AddHint, Ops, Ids
    <3>2. \/ unread' = Append(unread, line[1].of) /\ skipped' = skipped
          \/ unread' = unread /\ skipped' = skipped \cup {line[1].of}
      BY <1>2, <2>1, Zenon DEF AddHint
    <3>. QED
      BY <1>8, <3>1, <3>2
  <2>2. CASE ~AddHint
    BY <1>8, <2>2 DEF RequestCall, ReadKept, PutBody, PushIndex, redis, history
  <2>. QED
    BY <2>1, <2>2
<1>. QED
  BY <1>2, <1>3, <1>4, <1>5, <1>6, <1>7, <1>9, <1>10, Zenon DEF BaseInv, TypeOK

LEMMA BaseConsumerCall ==
  ASSUME BaseInv, CreateGroup \/ Deliver \/ RunsOut \/ Acknowledge PROVE BaseInv'
<1>1. PICK op \in {"group", "read", "ack"} : Takes(op)
  BY DEF CreateGroup, Deliver, RunsOut, Acknowledge
<1>2. UNCHANGED <<pc, step, kept, coming, stops, errors, gone, stranded, skipped>>
  BY DEF CreateGroup, Deliver, RunsOut, Acknowledge, handlers, redis, history
<1>3. line' \in Seq(CommandType) /\ Head(line) = line[1] /\ 1 \in DOMAIN line /\ line[1].op = op
  BY <1>1, Taken DEF BaseInv, TypeOK
<1>4. CallInv'
  BY <1>1, <1>2, CallTaken
<1>5. LoopInv'
  <2>1. CASE CreateGroup
    <3>1. Takes("group") /\ group' /\ consumer' = "poll" /\ hands' = hands
      BY <2>1 DEF CreateGroup
    <3>2. consumer = "create"
      BY <3>1, Taken DEF BaseInv, TypeOK, LoopInv
    <3>. QED
      BY <3>1, <3>2, LoopTaken DEF BaseInv, LoopInv
  <2>2. CASE Deliver
    <3>1. Takes("read") /\ group' = group /\ consumer' = "handle"
      BY <2>2 DEF Deliver
    <3>. QED
      BY <3>1, LoopTaken DEF LoopInv
  <2>3. CASE RunsOut
    <3>1. Takes("read") /\ group' = group /\ consumer' = "poll" /\ hands' = hands
      BY <2>3 DEF RunsOut, redis
    <3>2. consumer = "read"
      BY <3>1, Taken DEF BaseInv, TypeOK, LoopInv
    <3>. QED
      BY <3>1, <3>2, LoopTaken DEF BaseInv, LoopInv
  <2>4. CASE Acknowledge
    <3>1. Takes("ack") /\ group' = group /\ consumer' = consumer /\ hands' = hands
      BY <2>4 DEF Acknowledge, loop
    <3>. QED
      BY <3>1, LoopTaken DEF BaseInv, LoopInv
  <2>. QED
    BY <2>1, <2>2, <2>3, <2>4
<1>6. unread' \in Seq(Ids) /\ hands' \in Seq(Ids) /\ pel' \subseteq Ids
  <2>1. ASSUME Deliver PROVE unread' \in Seq(Ids) /\ hands' \in Seq(Ids) /\ pel' \subseteq Ids
    <3>1. unread \in Seq(Ids) /\ unread # <<>> /\ pel \subseteq Ids
      BY <2>1 DEF Deliver, BaseInv, TypeOK
    <3>2. Batch \in Seq(Ids)
      BY <3>1, BatchType
    <3>3. ToSet(Batch) \subseteq Ids
      BY <3>2 DEF ToSet
    <3>. QED
      BY <2>1, <3>1, <3>2, <3>3, BatchType DEF Deliver
  <2>. QED
    BY <2>1 DEF BaseInv, TypeOK, CreateGroup, RunsOut, Acknowledge, redis, loop
<1>7. group' \in BOOLEAN
  BY DEF BaseInv, TypeOK, CreateGroup, Deliver, RunsOut, Acknowledge, redis
<1>8. delays' \in [Requests -> Nat]
  BY DEF BaseInv, TypeOK, CreateGroup, Deliver, RunsOut, Acknowledge, history
<1>9. consumer' \in {"down", "create", "poll", "read", "handle", "rest"}
  BY DEF BaseInv, TypeOK, CreateGroup, Deliver, RunsOut, Acknowledge, loop
<1>. QED
  BY <1>2, <1>3, <1>4, <1>5, <1>6, <1>7, <1>8, <1>9, Zenon DEF BaseInv, TypeOK

LEMMA CallKind ==
  ASSUME TypeOK, NEW r \in Requests, step[r] <= Len(Calls(r))
  PROVE  step[r] \in DOMAIN Calls(r) /\ Calls(r)[step[r]] \in Ops \ {"group", "read", "ack"}
<1>1. step[r] \in 1 .. 5
  BY DEF TypeOK
<1>2. CASE r \in Sends
  <2>1. Len(Calls(r)) = 4
    BY <1>2, CallsOf
  <2>2. step[r] \in {1, 2, 3, 4}
    BY <1>1, <2>1
  <2>. QED
    BY <1>2, <2>1, <2>2, CallsOf DEF Ops
<1>3. CASE r \notin Sends
  <2>1. Len(Calls(r)) = 2
    BY <1>3, CallsOf
  <2>2. step[r] \in {1, 2}
    BY <1>1, <2>1
  <2>. QED
    BY <1>3, <2>1, <2>2, CallsOf DEF Ops
<1>. QED
  BY <1>2, <1>3

LEMMA BaseCall == ASSUME BaseInv, NEW r \in Requests, Call(r) PROVE BaseInv'
<1>. DEFINE c == Command(r, Calls(r)[step[r]], r)
<1>1. /\ line' = Append(line, c) /\ delays' = [delays EXCEPT ![r] = 0]
      /\ UNCHANGED <<redis, handlers, loop, gone, stranded, skipped, coming, stops, errors>>
      /\ pc[r] = "run" /\ step[r] <= Len(Calls(r)) /\ ~Waiting(r)
  BY DEF Call
<1>2. step[r] \in DOMAIN Calls(r) /\ Calls(r)[step[r]] \in Ops \ {"group", "read", "ack"}
  BY <1>1, CallKind DEF BaseInv
<1>3. /\ c \in CommandType /\ c.by = r /\ c.of = r /\ c.op = Calls(r)[step[r]]
      /\ c.op \notin {"group", "read", "ack"}
  BY <1>2 DEF Command, CommandType
<1>. HIDE DEF c
<1>4. line \in Seq(CommandType) /\ line' \in Seq(CommandType)
  BY <1>1, <1>3, Put DEF BaseInv, TypeOK
<1>5. /\ \A i \in DOMAIN line' : \/ i \in DOMAIN line /\ line'[i] = line[i]
                                 \/ i = Len(line) + 1 /\ line'[i] = c
      /\ \A i \in DOMAIN line : i \in DOMAIN line' /\ i < Len(line) + 1
      /\ Len(line) + 1 \in DOMAIN line' /\ line' # <<>>
  BY <1>1, <1>3, <1>4, Put
<1>6. \A i \in DOMAIN line : line[i].by # r
  BY <1>1, DisjointAssumption DEF BaseInv, CallInv, Waiting
<1>7. CallInv'
  <2>. SUFFICES ASSUME NEW i \in DOMAIN line'
                PROVE  IF line'[i].op \in {"group", "read", "ack"} THEN line'[i].by = Consumer
                       ELSE line'[i].by \in Requests /\ CallAt(i)'
    BY DEF CallInv
  <2>1. pc' = pc /\ step' = step
    BY <1>1 DEF handlers
  <2>2. CASE i \in DOMAIN line /\ line'[i] = line[i]
    BY <1>3, <1>5, <1>6, <2>1, <2>2 DEF BaseInv, CallInv, CallAt
  <2>3. CASE i = Len(line) + 1 /\ line'[i] = c
    BY <1>1, <1>2, <1>3, <1>5, <1>6, <2>1, <2>3 DEF CallAt
  <2>. QED
    BY <1>5, <2>2, <2>3
<1>8. LoopInv'
  <2>1. UNCHANGED <<pc, consumer, hands, group>> /\ consumer # "down"
    BY <1>1 DEF handlers, loop, redis, BaseInv, LoopInv
  <2>2. \A i \in DOMAIN line' :
          line'[i].op \in {"group", "read"} => i \in DOMAIN line /\ line'[i] = line[i]
    BY <1>3, <1>5
  <2>3. line # <<>> => line'[1] = line[1]
    BY <1>1, <1>3, <1>4
  <2>. QED
    BY <1>5, <2>1, <2>2, <2>3 DEF BaseInv, LoopInv
<1>9. delays' \in [Requests -> Nat]
  BY <1>1 DEF BaseInv, TypeOK
<1>. QED
  BY <1>1, <1>4, <1>7, <1>8, <1>9, Zenon DEF BaseInv, TypeOK, redis, handlers, loop

LEMMA BasePoll == ASSUME BaseInv, Poll PROVE BaseInv'
<1>. DEFINE c == Command(Consumer, "read", Consumer)
<1>1. /\ line' = Append(line, c) /\ consumer \in {"poll", "rest"} /\ consumer' = "read"
      /\ UNCHANGED <<redis, handlers, hands, history, coming, stops, errors>>
  BY DEF Poll
<1>2. c \in CommandType /\ c.by = Consumer /\ c.op = "read"
  BY DEF Command, CommandType, Ops
<1>. HIDE DEF c
<1>3. line \in Seq(CommandType) /\ line' \in Seq(CommandType)
  BY <1>1, <1>2, Put DEF BaseInv, TypeOK
<1>4. /\ \A i \in DOMAIN line' : \/ i \in DOMAIN line /\ line'[i] = line[i]
                                 \/ i = Len(line) + 1 /\ line'[i] = c
  BY <1>1, <1>2, <1>3, Put
<1>5. CallInv'
  <2>. SUFFICES ASSUME NEW i \in DOMAIN line'
                PROVE  IF line'[i].op \in {"group", "read", "ack"} THEN line'[i].by = Consumer
                       ELSE line'[i].by \in Requests /\ CallAt(i)'
    BY DEF CallInv
  <2>1. pc' = pc /\ step' = step
    BY <1>1 DEF handlers
  <2>2. CASE i \in DOMAIN line /\ line'[i] = line[i]
    BY <1>2, <1>4, <2>1, <2>2, DisjointAssumption DEF BaseInv, CallInv, CallAt
  <2>3. CASE line'[i] = c
    BY <1>2, <2>3
  <2>. QED
    BY <1>4, <2>2, <2>3
<1>6. LoopInv'
  <2>1. \A i \in DOMAIN line : line[i].op \notin {"group", "read"}
    BY <1>1 DEF BaseInv, LoopInv
  <2>2. group' = group
    BY <1>1 DEF redis
  <2>. QED
    BY <1>1, <1>2, <1>4, <2>1, <2>2 DEF BaseInv, LoopInv
<1>. QED
  BY <1>1, <1>3, <1>5, <1>6, Zenon DEF BaseInv, TypeOK, redis, handlers, history

LEMMA BaseHandle == ASSUME BaseInv, Handle PROVE BaseInv'
<1>1. /\ consumer = "handle" /\ consumer' = "poll" /\ hands' = <<>>
      /\ UNCHANGED <<redis, handlers, history, coming, stops, errors>>
  BY DEF Handle
<1>2. /\ line' \in Seq(CommandType)
      /\ \A i \in DOMAIN line' :
           \/ i \in DOMAIN line /\ line'[i] = line[i]
           \/ i \notin DOMAIN line /\ line'[i].by = Consumer /\ line'[i].op = "ack"
  BY PutAcks DEF BaseInv, TypeOK
<1>3. CallInv'
  <2>. SUFFICES ASSUME NEW i \in DOMAIN line'
                PROVE  IF line'[i].op \in {"group", "read", "ack"} THEN line'[i].by = Consumer
                       ELSE line'[i].by \in Requests /\ CallAt(i)'
    BY DEF CallInv
  <2>1. pc' = pc /\ step' = step
    BY <1>1 DEF handlers
  <2>2. CASE i \in DOMAIN line /\ line'[i] = line[i]
    BY <1>2, <2>1, <2>2, DisjointAssumption DEF BaseInv, CallInv, CallAt
  <2>. QED
    BY <1>2, <2>2
<1>4. LoopInv'
  <2>1. \A i \in DOMAIN line : line[i].op \notin {"group", "read"}
    BY <1>1 DEF BaseInv, LoopInv
  <2>2. group' = group
    BY <1>1 DEF redis
  <2>. QED
    BY <1>1, <1>2, <2>1, <2>2 DEF BaseInv, LoopInv
<1>5. hands' \in Seq(Ids)
  BY <1>1
<1>. QED
  BY <1>1, <1>2, <1>3, <1>4, <1>5, Zenon DEF BaseInv, TypeOK, redis, handlers, history

LEMMA BaseRequest ==
  ASSUME BaseInv, \/ \E r \in Requests : Arrive(r) \/ Answer(r)
                  \/ \E f \in Foreign : ForeignHint(f)
                  \/ UNCHANGED vars
  PROVE  BaseInv'
<1>1. CASE \E r \in Requests : Arrive(r) \/ Answer(r)
  <2>1. PICK r \in Requests : Arrive(r) \/ Answer(r)
    BY <1>1
  <2>2. /\ UNCHANGED <<line, redis, step, loop, history, coming, stops, errors>>
        /\ consumer # "down"
        /\ \/ pc[r] = "new" /\ pc' = [pc EXCEPT ![r] = "run"]
           \/ /\ pc[r] = "run" /\ step[r] > Len(Calls(r))
              /\ pc' = [pc EXCEPT ![r] = "done"]
    BY <2>1 DEF Arrive, Answer, BaseInv, LoopInv
  <2>3. \A i \in DOMAIN line : line[i].by # r
    <3>. SUFFICES ASSUME NEW i \in DOMAIN line, line[i].by = r PROVE FALSE
      OBVIOUS
    <3>1. line[i].by \in Requests /\ CallAt(i)
      BY DisjointAssumption DEF BaseInv, CallInv
    <3>2. pc[r] = "run" /\ step[r] \in 1 .. Len(Calls(r))
      BY <3>1, CallsOf DEF CallAt
    <3>3. Calls(r) \in Seq(Ops)
      BY CallsOf
    <3>. QED
      BY <2>2, <3>2, <3>3
  <2>4. CallInv'
    BY <2>2, <2>3 DEF BaseInv, TypeOK, CallInv, CallAt
  <2>5. LoopInv'
    BY <2>2 DEF BaseInv, LoopInv, redis, loop
  <2>6. pc' \in [Requests -> {"new", "run", "done", "failed"}]
    BY <2>2 DEF BaseInv, TypeOK
  <2>. QED
    BY <2>2, <2>4, <2>5, <2>6, Zenon DEF BaseInv, TypeOK, redis, loop, history
<1>2. CASE \E f \in Foreign : ForeignHint(f)
  <2>1. PICK f \in Foreign : ForeignHint(f)
    BY <1>2
  <2>2. unread' \in Seq(Ids) /\ coming' \subseteq Foreign
    BY <2>1 DEF ForeignHint, BaseInv, TypeOK, Ids
  <2>3. UNCHANGED <<line, group, pel, kept, handlers, loop, history, stops, errors>>
    BY <2>1 DEF ForeignHint
  <2>4. CallInv' /\ LoopInv'
    BY <2>3 DEF BaseInv, CallInv, CallAt, LoopInv, handlers, loop
  <2>. QED
    BY <2>2, <2>3, <2>4, Zenon DEF BaseInv, TypeOK, handlers, loop, history
<1>3. CASE UNCHANGED vars
  <2>1. CallInv' /\ LoopInv'
    BY <1>3 DEF BaseInv, CallInv, CallAt, LoopInv, vars, redis, handlers, loop
  <2>. QED
    BY <1>3, <2>1, Zenon DEF BaseInv, TypeOK, vars, redis, handlers, loop, history
<1>. QED
  BY <1>1, <1>2, <1>3

LEMMA BaseStart == ASSUME BaseInv, Start PROVE BaseInv'
<1>. DEFINE c == Command(Consumer, "group", Consumer)
<1>1. /\ line' = <<c>> /\ consumer = "down" /\ consumer' = "create"
      /\ UNCHANGED <<redis, handlers, hands, history, coming, stops, errors>>
  BY DEF Start
<1>2. c \in CommandType /\ c.by = Consumer /\ c.op = "group"
  BY DEF Command, CommandType, Ops
<1>. HIDE DEF c
<1>3. line' \in Seq(CommandType) /\ line' # <<>> /\ DOMAIN line' = {1} /\ line'[1] = c
  BY <1>1, <1>2
<1>4. CallInv' /\ LoopInv'
  BY <1>1, <1>2, <1>3 DEF BaseInv, CallInv, LoopInv
<1>. QED
  BY <1>1, <1>3, <1>4, Zenon DEF BaseInv, TypeOK, redis, handlers, history

LEMMA BaseStopped ==
  ASSUME BaseInv, Stopped, coming' = coming, stops' \in Nat, errors' \in Nat PROVE BaseInv'
<1>1. /\ line' = <<>> /\ consumer' = "down" /\ hands' = <<>>
      /\ pc' = [r \in Requests |-> IF pc[r] = "run" THEN "failed" ELSE pc[r]]
      /\ stranded' = stranded \cup pel /\ UNCHANGED <<redis, step, gone, delays, skipped>>
  BY DEF Stopped
<1>2. CallInv' /\ LoopInv'
  BY <1>1 DEF CallInv, LoopInv
<1>3. /\ line' \in Seq(CommandType) /\ hands' \in Seq(Ids) /\ stranded' \subseteq Ids
      /\ pc' \in [Requests -> {"new", "run", "done", "failed"}]
  BY <1>1 DEF BaseInv, TypeOK
<1>. QED
  BY <1>1, <1>2, <1>3, Zenon DEF BaseInv, TypeOK, redis

\* A call that Redis refuses: a hint's handler goes on, another's ends.
LEMMA BaseRefused ==
  ASSUME BaseInv, NEW op \in Ops \ {"group", "read", "ack"}, Takes(op), errors' \in Nat,
         UNCHANGED <<redis, loop, history, coming, stops>>,
         \/ Resume(line[1].by) /\ pc' = pc
         \/ pc' = [pc EXCEPT ![line[1].by] = "failed"] /\ step' = step
  PROVE  BaseInv'
<1>1. /\ line' \in Seq(CommandType) /\ line[1].by \in Requests /\ step[line[1].by] + 1 \in 1 .. 5
  BY Resumed
<1>2. step' \in [Requests -> 1 .. 5] /\ pc' \in [Requests -> {"new", "run", "done", "failed"}]
  BY <1>1 DEF Resume, BaseInv, TypeOK
<1>3. CallInv'
  BY CallTaken DEF Resume, BaseInv, TypeOK
<1>4. LoopInv'
  BY LoopTaken DEF BaseInv, LoopInv, redis, loop
<1>. QED
  BY <1>1, <1>2, <1>3, <1>4, Zenon DEF BaseInv, TypeOK, redis, loop, history

LEMMA BaseError == ASSUME BaseInv, RedisError PROVE BaseInv'
<1>1. errors' \in Nat /\ UNCHANGED <<coming, stops>> /\ line # <<>>
  BY DEF RedisError, BaseInv, TypeOK
<1>2. Head(line) = line[1] /\ line[1] \in CommandType
  BY <1>1 DEF BaseInv, TypeOK
<1>3. CASE Takes("hint") /\ Resume(Head(line).by) /\ UNCHANGED <<redis, pc, loop, history>>
  BY <1>1, <1>2, <1>3, BaseRefused DEF Ops
<1>4. CASE /\ Head(line).by \in Requests /\ Head(line).op \notin {"hint", "ack"}
           /\ Takes(Head(line).op)
           /\ pc' = [pc EXCEPT ![Head(line).by] = "failed"]
           /\ UNCHANGED <<redis, step, loop, history>>
  <2>1. line[1].op \in Ops \ {"group", "read", "ack"}
    BY <1>1, <1>2, <1>4, DisjointAssumption DEF BaseInv, TypeOK, CallInv, CommandType
  <2>. QED
    BY <1>1, <1>2, <1>4, <2>1, BaseRefused
<1>5. CASE Takes("read") /\ consumer' = "rest" /\ UNCHANGED <<redis, handlers, hands, history>>
  <2>1. line' \in Seq(CommandType) /\ consumer = "read"
    BY <1>5, Taken DEF BaseInv, TypeOK, LoopInv
  <2>2. CallInv'
    BY <1>5, CallTaken DEF handlers
  <2>3. LoopInv'
    BY <1>5, <2>1, LoopTaken DEF BaseInv, LoopInv, redis
  <2>. QED
    BY <1>1, <1>5, <2>1, <2>2, <2>3, Zenon DEF BaseInv, TypeOK, redis, handlers, history
<1>6. CASE Stopped
  BY <1>1, <1>6, BaseStopped DEF BaseInv, TypeOK
<1>. QED
  BY <1>3, <1>4, <1>5, <1>6 DEF RedisError

\* What is taken out of Redis was there.
LEMMA BaseTaken == ASSUME BaseInv, NEW s \in Sends, Unlist(s) \/ DropBody(s) PROVE BaseInv'
<1>1. UNCHANGED <<line, group, unread, pel, handlers, loop, coming, delays, stranded, skipped, stops, errors>>
  BY DEF Unlist, DropBody
<1>2. /\ kept' \in [stored : SUBSET Sends, listed : SUBSET Sends]
      /\ gone' \in [stored : SUBSET Sends, listed : SUBSET Sends]
  BY DEF BaseInv, TypeOK, Unlist, DropBody
<1>3. CallInv' /\ LoopInv'
  BY <1>1 DEF BaseInv, CallInv, CallAt, LoopInv, handlers, loop
<1>. QED
  BY <1>1, <1>2, <1>3, Zenon DEF BaseInv, TypeOK, handlers, loop

LEMMA BaseNext == BaseInv /\ [Next]_vars => BaseInv'
<1>. SUFFICES ASSUME BaseInv, [Next]_vars PROVE BaseInv'
  OBVIOUS
<1>1. CASE Stop
  BY <1>1, BaseStopped DEF Stop, BaseInv, TypeOK
<1>. QED
  BY <1>1, BaseRequestCall, BaseConsumerCall, BaseCall, BasePoll, BaseHandle, BaseRequest, BaseStart,
     BaseError, BaseTaken
  DEF Next, ConsumerStep, RedisStep, HandlerStep, RequestCall

LEMMA BaseAlways == Spec => []BaseInv
BY BaseInit, BaseNext, PTL DEF Spec

\* Every variable of the connection keeps its range.
THEOREM TypeCorrect == Spec => []TypeOK
<1>1. BaseInv => TypeOK
  BY DEF BaseInv
<1>. QED
  BY <1>1, BaseAlways, PTL

(***************************************************************************)
(* What hangs on it: the group before the hints, and the message before    *)
(* its hint.                                                               *)
(***************************************************************************)

LEMMA GroupNext == BaseInv /\ GroupBeforeHints /\ [Next]_vars => GroupBeforeHints'
<1>. SUFFICES ASSUME BaseInv, skipped = {}, [Next]_vars PROVE skipped' = {}
  BY DEF GroupBeforeHints
<1>1. CASE AddHint
  <2>1. group
    BY <1>1, LoopTaken DEF AddHint
  <2>. QED
    BY <1>1, <2>1 DEF AddHint
<1>2. CASE ~AddHint
  BY <1>2 DEF Next, Start, ConsumerStep, Poll, Handle, RedisStep, ReadKept, PutBody, PushIndex,
              CreateGroup, Deliver, RunsOut, Acknowledge, HandlerStep, Arrive, Call, Answer,
              ForeignHint, Unlist, DropBody, Stop, Stopped, RedisError, vars, redis, history
<1>. QED
  BY <1>1, <1>2

\* No hint of this broker is added before there is a group to deliver it.
THEOREM NoHintBeforeGroup == Spec => []GroupBeforeHints
<1>1. Init => GroupBeforeHints
  BY DEF Init, GroupBeforeHints
<1>. QED
  BY <1>1, GroupNext, BaseAlways, PTL DEF Spec

HintSet == ToSet(unread) \cup pel \cup skipped

\* What has been written, whether or not it is still there.
Stored == kept.stored \cup gone.stored
Indexed == kept.listed \cup gone.listed

\* What a send that has come to its third call, or whose hint is out, has stored.
StoreInv ==
  \A s \in Sends :
    /\ step[s] > 1 => s \in Stored
    /\ step[s] > 2 => s \in Indexed
    /\ s \in HintSet => s \in Stored \cap Indexed
    /\ pc[s] = "done" => step[s] > 4

LEMMA Appended ==
  ASSUME NEW S, NEW q \in Seq(S), NEW x \in S
  PROVE  ToSet(Append(q, x)) = ToSet(q) \cup {x}
<1>1. /\ DOMAIN Append(q, x) = 1 .. Len(q) + 1 /\ DOMAIN q = 1 .. Len(q) /\ Len(q) \in Nat
      /\ \A i \in 1 .. Len(q) : Append(q, x)[i] = q[i]
      /\ Append(q, x)[Len(q) + 1] = x
  OBVIOUS
<1>. QED
  BY <1>1 DEF ToSet

\* Which call of a send is answered.
LEMMA AtCall ==
  ASSUME BaseInv, NEW op \in {"body", "list", "hint", "mark"}, Takes(op)
  PROVE  LET k == step[line[1].by] IN
           CASE op = "body" -> k = 1 [] op = "list" -> k = 2 [] op = "hint" -> k = 3 [] OTHER -> k = 4
<1>. DEFINE s == line[1].by
<1>1. s \in Sends /\ s \in Requests /\ step[s] + 1 \in 1 .. 5 /\ op = Calls(s)[step[s]]
  BY Resumed DEF Ops
<1>2. step[s] \in 1 .. 5
  BY <1>1 DEF BaseInv, TypeOK
<1>3. step[s] \in {1, 2, 3, 4}
  BY <1>1, <1>2
<1>. QED
  BY <1>1, <1>3, CallsOf

\* What a step adds to the hints: a send's, when it is at its third call, or
\* one of another broker.
LEMMA HintsGrow ==
  ASSUME BaseInv, [Next]_vars
  PROVE  \A s \in Sends : s \in HintSet' => s \in HintSet \/ step[s] > 2
<1>. SUFFICES ASSUME NEW s \in Sends, s \in HintSet' PROVE s \in HintSet \/ step[s] > 2
  OBVIOUS
<1>1. CASE AddHint
  <2>1. Takes("hint") /\ pel' = pel
        /\ \/ unread' = Append(unread, line[1].of) /\ skipped' = skipped
           \/ unread' = unread /\ skipped' = skipped \cup {line[1].of}
    BY <1>1, Resumed DEF AddHint, Ops
  <2>2. line[1].of = line[1].by /\ line[1].of \in Ids /\ step[line[1].by] = 3
    BY <2>1, Resumed, AtCall DEF Ops, Ids
  <2>3. s \in HintSet \/ s = line[1].of
    <3>1. unread \in Seq(Ids)
      BY DEF BaseInv, TypeOK
    <3>2. ToSet(unread') \subseteq ToSet(unread) \cup {line[1].of}
      <4>1. ToSet(Append(unread, line[1].of)) = ToSet(unread) \cup {line[1].of}
        BY <2>2, <3>1, Appended
      <4>. QED
        BY <2>1, <4>1, Zenon
    <3>3. pel' = pel /\ skipped' \subseteq skipped \cup {line[1].of}
      BY <2>1
    <3>. QED
      BY <3>2, <3>3 DEF HintSet
  <2>. QED
    BY <2>2, <2>3
<1>2. CASE Deliver
  <2>1. unread \in Seq(Ids) /\ unread # <<>> /\ skipped' = skipped
    BY <1>2 DEF Deliver, BaseInv, TypeOK, history
  <2>2. ToSet(unread') \subseteq ToSet(unread) /\ ToSet(Batch) \subseteq ToSet(unread)
    BY <1>2, <2>1, BatchType DEF Deliver, ToSet
  <2>. QED
    BY <1>2, <2>1, <2>2 DEF Deliver, HintSet
<1>3. CASE \E f \in Foreign : ForeignHint(f)
  <2>1. PICK f \in Foreign : unread' = Append(unread, f) /\ pel' = pel /\ skipped' = skipped
    BY <1>3 DEF ForeignHint, history
  <2>. QED
    BY <2>1, DisjointAssumption DEF HintSet, ToSet, BaseInv, TypeOK, Requests
<1>4. CASE ~AddHint /\ ~Deliver /\ ~(\E f \in Foreign : ForeignHint(f))
  <2>1. unread' = unread /\ skipped' = skipped /\ pel' \subseteq pel
    BY <1>4 DEF Next, Start, ConsumerStep, Poll, Handle, RedisStep, ReadKept, PutBody, PushIndex,
                CreateGroup, RunsOut, Acknowledge, HandlerStep, Arrive, Call, Answer, Unlist, DropBody,
                Stop, Stopped, RedisError, vars, redis, history
  <2>. QED
    BY <2>1 DEF HintSet
<1>. QED
  BY <1>1, <1>2, <1>3, <1>4

\* A step either leaves a request where it is or answers the call it is at, and
\* what it takes out of Redis is still among what was written.
LEMMA StoreGrows ==
  ASSUME BaseInv, [Next]_vars
  PROVE  /\ Stored \subseteq Stored' /\ Indexed \subseteq Indexed'
         /\ \A s \in Sends :
              \/ step'[s] = step[s]
              \/ /\ step'[s] = step[s] + 1 /\ step[s] \in 1 .. 4
                 /\ step[s] = 1 => s \in Stored'
                 /\ step[s] = 2 => s \in Indexed'
         /\ \A s \in Sends : pc'[s] = "done" => pc[s] = "done" \/ step[s] > 4
<1>1. /\ kept \in [stored : SUBSET Sends, listed : SUBSET Sends] /\ step \in [Requests -> 1 .. 5]
      /\ gone \in [stored : SUBSET Sends, listed : SUBSET Sends]
      /\ pc \in [Requests -> {"new", "run", "done", "failed"}]
  BY DEF BaseInv, TypeOK
<1>2. CASE RequestCall
  <2>1. PICK op \in Ops \ {"group", "read", "ack"} : Takes(op)
    BY <1>2 DEF RequestCall, ReadKept, PutBody, PushIndex, AddHint, Ops
  <2>2. /\ Head(line) = line[1] /\ line[1].of = line[1].by /\ line[1].by \in Requests
        /\ op \in {"body", "list", "hint", "mark"} <=> line[1].by \in Sends
    BY <2>1, Resumed
  <2>3. step' = [step EXCEPT ![line[1].by] = @ + 1] /\ pc' = pc /\ gone' = gone
    BY <1>2, <2>2 DEF RequestCall, ReadKept, PutBody, PushIndex, AddHint, Resume, history
  <2>4. /\ op = "body" => kept' = [kept EXCEPT !.stored = @ \cup {line[1].by}]
        /\ op = "list" => kept' = [kept EXCEPT !.listed = @ \cup {line[1].by}]
        /\ op \notin {"body", "list"} => kept' = kept
    BY <1>2, <2>1, <2>2 DEF RequestCall, ReadKept, PutBody, PushIndex, AddHint, Takes, redis
  <2>5. Stored \subseteq Stored' /\ Indexed \subseteq Indexed'
    BY <1>1, <2>3, <2>4 DEF Stored, Indexed
  <2>6. line[1].by \in Sends => /\ step[line[1].by] \in 1 .. 4
                                /\ step[line[1].by] = 1 => line[1].by \in Stored'
                                /\ step[line[1].by] = 2 => line[1].by \in Indexed'
    BY <1>1, <2>1, <2>2, <2>4, AtCall DEF Stored, Indexed
  <2>. QED
    BY <1>1, <2>2, <2>3, <2>5, <2>6 DEF Requests
<1>3. CASE RedisError
  <2>1. kept' = kept /\ gone' = gone /\ \A r \in Requests : pc'[r] = "done" => pc[r] = "done"
    BY <1>1, <1>3 DEF RedisError, Stopped, redis, handlers, history
  <2>2. step' = step \/ (Takes("hint") /\ step' = [step EXCEPT ![line[1].by] = @ + 1])
    <3>1. line # <<>> /\ line \in Seq(CommandType)
      BY <1>3 DEF RedisError, BaseInv, TypeOK
    <3>2. Head(line) = line[1]
      BY <3>1
    <3>. QED
      BY <1>3, <3>2 DEF RedisError, Stopped, handlers, Resume
  <2>3. Takes("hint") => step[line[1].by] = 3
    BY AtCall
  <2>. QED
    BY <1>1, <2>1, <2>2, <2>3 DEF Requests, Stored, Indexed
<1>4. CASE \E s \in Sends : Unlist(s) \/ DropBody(s)
  <2>1. Stored' = Stored /\ Indexed' = Indexed
    BY <1>1, <1>4 DEF Unlist, DropBody, Stored, Indexed
  <2>2. UNCHANGED <<step, pc>>
    BY <1>4 DEF Unlist, DropBody, handlers
  <2>. QED
    BY <2>1, <2>2
<1>5. CASE ~RequestCall /\ ~RedisError /\ ~(\E s \in Sends : Unlist(s) \/ DropBody(s))
  <2>1. /\ UNCHANGED <<step, kept, gone>>
        /\ \A r \in Requests : pc'[r] = "done" => pc[r] = "done" \/ step[r] > Len(Calls(r))
    BY <1>1, <1>5 DEF RequestCall, Next, Start, ConsumerStep, Poll, Handle, RedisStep, CreateGroup, Deliver,
                RunsOut, Acknowledge, HandlerStep, Arrive, Call, Answer, ForeignHint, Stop, Stopped,
                vars, redis, handlers, history
  <2>. QED
    BY <2>1, CallsOf DEF Requests, Stored, Indexed
<1>. QED
  BY <1>2, <1>3, <1>4, <1>5

LEMMA StoreNext == BaseInv /\ StoreInv /\ [Next]_vars => StoreInv'
<1>. SUFFICES ASSUME BaseInv, StoreInv, [Next]_vars, NEW s \in Sends
              PROVE  /\ step'[s] > 1 => s \in Stored'
                     /\ step'[s] > 2 => s \in Indexed'
                     /\ s \in HintSet' => s \in Stored' \cap Indexed'
                     /\ pc'[s] = "done" => step'[s] > 4
  BY DEF StoreInv
<1>1. step[s] \in 1 .. 5
  BY DEF BaseInv, TypeOK, Requests
<1>. QED
  BY <1>1, StoreGrows, HintsGrow DEF StoreInv

\* The message was stored before its hint, or the answer to its send, is seen:
\* taking it out of Redis at any time does not undo that it was written.
THEOREM HintsFollowMessages == Spec => []HintAfterStored
<1>1. Init => StoreInv
  BY DEF Init, StoreInv, HintSet, ToSet, Requests
<1>2. BaseInv /\ StoreInv => HintAfterStored
  <2>. SUFFICES ASSUME BaseInv, StoreInv, NEW s \in Sends, s \in HintSet \/ pc[s] = "done"
                PROVE  s \in Stored /\ s \in Indexed
    BY DEF HintAfterStored, HintSet, Stored, Indexed
  <2>1. step[s] \in 1 .. 5
    BY DEF BaseInv, TypeOK, Requests
  <2>. QED
    BY <2>1 DEF StoreInv
<1>. QED
  BY <1>1, <1>2, StoreNext, BaseAlways, PTL DEF Spec

(***************************************************************************)
(* What is behind a read: a request's call is behind at most one, since    *)
(* the next is put behind the call.                                        *)
(***************************************************************************)

DelayInv ==
  /\ \A r \in Requests : delays[r] <= 1
  /\ \A i \in DOMAIN line : line[i].by \in Requests /\ delays[line[i].by] = 1 =>
       \A j \in DOMAIN line : line[j].op = "read" => i < j

LEMMA DelayTaken ==
  ASSUME BaseInv, DelayInv, NEW op, Takes(op), delays' = delays PROVE DelayInv'
<1>1. \A i \in DOMAIN line' : i \in Nat /\ i + 1 \in DOMAIN line /\ line'[i] = line[i + 1]
  BY Taken DEF BaseInv, TypeOK
<1>2. ASSUME NEW i \in DOMAIN line', line'[i].by \in Requests, delays[line'[i].by] = 1,
             NEW j \in DOMAIN line', line'[j].op = "read"
      PROVE  i < j
  <2>1. i + 1 < j + 1
    BY <1>1, <1>2 DEF DelayInv
  <2>. QED
    BY <1>1, <2>1
<1>. QED
  BY <1>2 DEF DelayInv

LEMMA DelayRunsOut == ASSUME BaseInv, DelayInv, RunsOut PROVE DelayInv'
<1>1. /\ Takes("read")
      /\ delays' = [r \in Requests |-> IF Waiting(r) THEN delays[r] + 1 ELSE delays[r]]
  BY DEF RunsOut
<1>2. \A j \in DOMAIN line' : line'[j].op # "read"
  BY <1>1, LoopTaken
<1>3. ASSUME NEW r \in Requests, Waiting(r) PROVE delays[r] # 1
  <2>1. PICK i \in DOMAIN line : line[i].by = r
    BY <1>3 DEF Waiting
  <2>2. 1 \in DOMAIN line /\ line[1].op = "read" /\ ~(i < 1)
    BY <1>1, <2>1, Taken DEF BaseInv, TypeOK
  <2>. QED
    BY <2>1, <2>2 DEF DelayInv
<1>4. \A r \in Requests : delays'[r] <= 1
  BY <1>1, <1>3 DEF DelayInv, BaseInv, TypeOK
<1>. QED
  BY <1>2, <1>4 DEF DelayInv

LEMMA DelayCall == ASSUME BaseInv, DelayInv, NEW r \in Requests, Call(r) PROVE DelayInv'
<1>. DEFINE c == Command(r, Calls(r)[step[r]], r)
<1>1. line' = Append(line, c) /\ delays' = [delays EXCEPT ![r] = 0] /\ step[r] <= Len(Calls(r))
  BY DEF Call
<1>2. c \in CommandType /\ c.by = r /\ c.op # "read" /\ line \in Seq(CommandType)
  BY <1>1, CallKind DEF Command, CommandType, BaseInv, TypeOK
<1>. HIDE DEF c
<1>3. \A i \in DOMAIN line' : \/ i \in DOMAIN line /\ line'[i] = line[i]
                              \/ i = Len(line) + 1 /\ line'[i] = c
  BY <1>1, <1>2, Put
<1>4. delays'[r] = 0 /\ \A q \in Requests : q # r => delays'[q] = delays[q]
  BY <1>1 DEF BaseInv, TypeOK
<1>. QED
  BY <1>2, <1>3, <1>4 DEF DelayInv

LEMMA DelayPoll == ASSUME BaseInv, DelayInv, Poll PROVE DelayInv'
<1>. DEFINE c == Command(Consumer, "read", Consumer)
<1>1. line' = Append(line, c) /\ delays' = delays /\ consumer # "read"
  BY DEF Poll, history
<1>2. c \in CommandType /\ c.by = Consumer /\ line \in Seq(CommandType)
  BY DEF Command, CommandType, Ops, BaseInv, TypeOK
<1>. HIDE DEF c
<1>3. /\ \A i \in DOMAIN line' : \/ i \in DOMAIN line /\ line'[i] = line[i]
                                 \/ i = Len(line) + 1 /\ line'[i] = c
      /\ \A i \in DOMAIN line : i < Len(line) + 1
  BY <1>1, <1>2, Put
<1>4. \A i \in DOMAIN line : line[i].op # "read"
  BY <1>1 DEF BaseInv, LoopInv
<1>5. \A i \in DOMAIN line' : line'[i].by \in Requests => i \in DOMAIN line
  BY <1>2, <1>3, DisjointAssumption
<1>6. \A j \in DOMAIN line' : line'[j].op = "read" => j = Len(line) + 1
  BY <1>3, <1>4
<1>. QED
  BY <1>1, <1>3, <1>5, <1>6 DEF DelayInv

LEMMA DelayHandle == ASSUME BaseInv, DelayInv, Handle PROVE DelayInv'
<1>1. delays' = delays
  BY DEF Handle, history
<1>2. \A i \in DOMAIN line' :
        \/ i \in DOMAIN line /\ line'[i] = line[i]
        \/ line'[i].by = Consumer /\ line'[i].op = "ack"
  BY PutAcks DEF BaseInv, TypeOK
<1>. QED
  BY <1>1, <1>2, DisjointAssumption DEF DelayInv

LEMMA DelayNext == BaseInv /\ DelayInv /\ [Next]_vars => DelayInv'
<1>. SUFFICES ASSUME BaseInv, DelayInv, [Next]_vars PROVE DelayInv'
  OBVIOUS
<1>1. CASE RequestCall \/ CreateGroup \/ Deliver \/ Acknowledge
  BY <1>1, DelayTaken DEF RequestCall, ReadKept, PutBody, PushIndex, AddHint, CreateGroup, Deliver,
                          Acknowledge, history
<1>2. CASE Start
  <2>1. line' = <<Command(Consumer, "group", Consumer)>> /\ delays' = delays
    BY <1>2 DEF Start, history
  <2>2. DOMAIN line' = {1} /\ line'[1].by = Consumer
    BY <2>1 DEF Command
  <2>. QED
    BY <2>1, <2>2, DisjointAssumption DEF DelayInv
<1>3. CASE Stop \/ RedisError
  <2>1. CASE Stopped
    BY <2>1 DEF Stopped, DelayInv
  <2>2. CASE ~Stopped
    BY <1>3, <2>2, DelayTaken DEF Stop, RedisError, history
  <2>. QED
    BY <2>1, <2>2
<1>4. CASE \/ UNCHANGED vars \/ \E f \in Foreign : ForeignHint(f)
           \/ \E r \in Requests : Arrive(r) \/ Answer(r)
           \/ \E s \in Sends : Unlist(s) \/ DropBody(s)
  BY <1>4 DEF Arrive, Answer, ForeignHint, Unlist, DropBody, vars, history, DelayInv
<1>. QED
  BY <1>1, <1>2, <1>3, <1>4, DelayRunsOut, DelayCall, DelayPoll, DelayHandle
  DEF Next, ConsumerStep, RedisStep, HandlerStep, RequestCall

\* A storage call is held up by one blocking read at most.
THEOREM OneReadAtMost == Spec => []WaitsForOneRead
<1>1. Init => DelayInv
  BY DEF Init, DelayInv
<1>2. DelayInv => WaitsForOneRead
  BY DEF DelayInv, WaitsForOneRead
<1>. QED
  BY <1>1, <1>2, DelayNext, BaseAlways, PTL DEF Spec

(***************************************************************************)
(* Where a delivered entry is.                                             *)
(***************************************************************************)

AckOnLine(i) == \E k \in DOMAIN line : line[k].op = "ack" /\ line[k].of = i

LEMMA StrandTaken ==
  ASSUME BaseInv, NEW op, Takes(op), NEW i, AckOnLine(i)
  PROVE  AckOnLine(i)' \/ (op = "ack" /\ Head(line).of = i)
<1>1. line \in Seq(CommandType) /\ line # <<>> /\ line' = Tail(line) /\ Head(line).op = op
  BY DEF BaseInv, TypeOK, Takes
<1>2. PICK k \in DOMAIN line : line[k].op = "ack" /\ line[k].of = i
  BY DEF AckOnLine
<1>3. CASE k = 1
  BY <1>1, <1>2, <1>3
<1>4. CASE k # 1
  <2>1. k - 1 \in DOMAIN line' /\ line'[k - 1] = line[k]
    BY <1>1, <1>4
  <2>. QED
    BY <1>2, <2>1 DEF AckOnLine
<1>. QED
  BY <1>3, <1>4

LEMMA StrandNext == BaseInv /\ StrandedOnlyByStop /\ [Next]_vars => StrandedOnlyByStop'
<1>. SUFFICES ASSUME BaseInv, StrandedOnlyByStop, [Next]_vars, NEW i \in pel'
              PROVE  i \in ToSet(hands') \/ i \in stranded' \/ AckOnLine(i)'
  BY DEF StrandedOnlyByStop, AckOnLine
<1>0. i \in pel => i \in ToSet(hands) \/ i \in stranded \/ AckOnLine(i)
  BY DEF StrandedOnlyByStop, AckOnLine
<1>1. CASE RequestCall \/ CreateGroup \/ RunsOut
  <2>1. pel' = pel /\ hands' = hands /\ stranded' = stranded
    BY <1>1 DEF RequestCall, ReadKept, PutBody, PushIndex, AddHint, CreateGroup, RunsOut, redis,
                loop, history
  <2>2. PICK op \in Ops \ {"ack"} : Takes(op)
    BY <1>1 DEF RequestCall, ReadKept, PutBody, PushIndex, AddHint, CreateGroup, RunsOut, Ops
  <2>. QED
    BY <1>0, <2>1, <2>2, StrandTaken
<1>2. CASE Deliver
  <2>1. /\ Takes("read") /\ pel' = pel \cup ToSet(Batch) /\ hands' = Batch /\ stranded' = stranded
    BY <1>2 DEF Deliver, history
  <2>2. hands = <<>>
    BY <2>1, Taken DEF BaseInv, TypeOK, LoopInv
  <2>3. ToSet(hands) = {}
    BY <2>2 DEF ToSet
  <2>. QED
    BY <1>0, <2>1, <2>3, StrandTaken
<1>3. CASE Acknowledge
  <2>1. Takes("ack") /\ pel' = pel \ {Head(line).of} /\ hands' = hands /\ stranded' = stranded
    BY <1>3 DEF Acknowledge, loop, history
  <2>. QED
    BY <1>0, <2>1, StrandTaken
<1>4. CASE Handle
  <2>1. pel' = pel /\ stranded' = stranded
    BY <1>4 DEF Handle, redis, history
  <2>2. /\ \A k \in DOMAIN line : k \in DOMAIN line' /\ line'[k] = line[k]
        /\ \A k \in DOMAIN hands : /\ Len(line) + k \in DOMAIN line'
                                   /\ line'[Len(line) + k].op = "ack"
                                   /\ line'[Len(line) + k].of = hands[k]
    BY <1>4, PutAcks DEF BaseInv, TypeOK
  <2>3. AckOnLine(i) => AckOnLine(i)'
    BY <2>2 DEF AckOnLine
  <2>4. i \in ToSet(hands) => AckOnLine(i)'
    BY <2>2 DEF AckOnLine, ToSet
  <2>. QED
    BY <1>0, <2>1, <2>3, <2>4
<1>5. CASE (\E r \in Requests : Call(r)) \/ Poll
  <2>1. pel' = pel /\ stranded' = stranded /\ hands' = hands
    BY <1>5 DEF Call, Poll, redis, loop, history
  <2>2. PICK c : line' = Append(line, c)
    BY <1>5 DEF Call, Poll
  <2>3. \A k \in DOMAIN line : k \in DOMAIN line' /\ line'[k] = line[k]
    BY <2>2 DEF BaseInv, TypeOK
  <2>4. AckOnLine(i) => AckOnLine(i)'
    BY <2>3 DEF AckOnLine
  <2>. QED
    BY <1>0, <2>1, <2>4
<1>6. CASE Start
  <2>1. pel' = pel /\ stranded' = stranded /\ hands' = hands /\ ~AckOnLine(i)
    BY <1>6 DEF Start, redis, history, BaseInv, LoopInv, AckOnLine
  <2>. QED
    BY <1>0, <2>1
<1>7. CASE Stop \/ RedisError
  <2>1. CASE Stopped
    BY <2>1 DEF Stopped, redis
  <2>2. CASE ~Stopped
    <3>1. pel' = pel /\ stranded' = stranded /\ hands' = hands
      BY <1>7, <2>2 DEF Stop, RedisError, redis, loop, history
    <3>2. Takes("hint") \/ Takes("read") \/ (Takes(Head(line).op) /\ Head(line).op # "ack")
      BY <1>7, <2>2 DEF Stop, RedisError
    <3>. QED
      BY <1>0, <3>1, <3>2, StrandTaken
  <2>. QED
    BY <2>1, <2>2
<1>8. CASE \/ UNCHANGED vars \/ \E f \in Foreign : ForeignHint(f)
           \/ \E r \in Requests : Arrive(r) \/ Answer(r)
           \/ \E s \in Sends : Unlist(s) \/ DropBody(s)
  <2>1. UNCHANGED <<line, pel, hands, stranded>>
    BY <1>8 DEF Arrive, Answer, ForeignHint, Unlist, DropBody, vars, redis, loop, history
  <2>. QED
    BY <1>0, <2>1 DEF AckOnLine
<1>. QED
  BY <1>1, <1>2, <1>3, <1>4, <1>5, <1>6, <1>7, <1>8
  DEF Next, ConsumerStep, RedisStep, HandlerStep, RequestCall

\* An entry that nobody will acknowledge was read by a broker that stopped.
THEOREM OnlyStopsStrand == Spec => []StrandedOnlyByStop
<1>1. Init => StrandedOnlyByStop
  BY DEF Init, StrandedOnlyByStop
<1>. QED
  BY <1>1, StrandNext, BaseAlways, PTL DEF Spec

=============================================================================
