-------------------------------- MODULE Hints --------------------------------
(***************************************************************************)
(* The self-hosted broker on Redis: the handlers and the consumer of the   *)
(* hint stream (broker/src/lib/adapters/queue-redis.js, handleQueueBatch   *)
(* of broker/src/lib/queue.js, started by broker/server.mjs) share the one *)
(* connection that broker/src/lib/env-local.js opens.                      *)
(*                                                                         *)
(* A command is put on the connection when it is called.  Redis executes   *)
(* the commands of a connection in that order, one at a time, and answers  *)
(* each before it looks at the next.  The consumer's XREADGROUP waits up   *)
(* to BLOCK_MS for a hint, and whatever is behind it on the connection     *)
(* waits as well: the XADD of this broker's own next hint, too.            *)
(*                                                                         *)
(* A request is the sequence of storage calls it awaits.  Those that come  *)
(* before enqueue in a send (module Admission) behave like the two of a    *)
(* pull here and are left out, as are those of an ack and of a pull's      *)
(* prune.  What these take out of Redis goes at any time here: they come   *)
(* over the connections of other brokers too, and a body has its TTL.      *)
(***************************************************************************)
EXTENDS Naturals, Sequences, SequencesExt

CONSTANTS
  Sends,        \* POST /send requests; also names the hint of each
  Pulls,        \* POST /pull requests
  Foreign,      \* hints that other brokers on this Redis add, numbered as they come
  Consumer,     \* the poll loop
  ReadCount,    \* BATCH_SIZE
  MaxStops,     \* bound: how often the broker stops
  MaxErrors     \* bound: how many commands Redis answers with an error

Requests == Sends \cup Pulls
Ids == Sends \cup Foreign

ASSUME DisjointAssumption ==
  Sends \cap Pulls = {} /\ Requests \cap Foreign = {} /\ Consumer \notin Requests
ASSUME ForeignAssumption == Foreign \subseteq Nat
ASSUME ReadCountAssumption == ReadCount \in Nat \ {0}
ASSUME BoundAssumption == MaxStops \in Nat /\ MaxErrors \in Nat

VARIABLES
  line,       \* the commands on the connection that Redis has not answered
  group,      \* the consumer group exists
  unread,     \* the hints on the stream that the group has not delivered
  pel,        \* the group's pending entries list
  kept,       \* [stored, listed]: the bodies and the index entries in Redis
  pc,         \* where each request stands
  step,       \* which of its calls a request makes next
  consumer,   \* where the poll loop stands
  hands,      \* the entries handleQueueBatch was called with
  gone,       \* history: [stored, listed]: what was taken out of kept
  delays,     \* history: reads that ran out while a request's call waited
  stranded,   \* history: the entries read by a consumer that stopped
  skipped,    \* history: the hints added before there was a group
  coming,     \* the hints that other brokers have still to add
  stops, errors

redis == <<group, unread, pel, kept>>
handlers == <<pc, step>>
loop == <<consumer, hands>>
history == <<gone, delays, stranded, skipped>>
vars == <<line, redis, handlers, loop, coming, history, stops, errors>>

Command(by, op, of) == [by |-> by, op |-> op, of |-> of]

\* Fault: the hint is sent before the message is stored.
CallsHintFirst(r) ==
  IF r \in Sends THEN <<"hint", "body", "list", "mark">> ELSE <<"index", "bodies">>

\* enqueue and the two records of handleSend, written in one round trip; the
\* index and the bodies that dequeueForClawid reads.
Calls(r) == IF r \in Sends THEN <<"body", "list", "hint", "mark">> ELSE <<"index", "bodies">>

Init ==
  /\ line = <<>>
  /\ group \in BOOLEAN    \* another broker may have created it
  /\ unread = <<>>
  /\ pel = {}
  /\ kept = [stored |-> {}, listed |-> {}]
  /\ gone = [stored |-> {}, listed |-> {}]
  /\ pc = [r \in Requests |-> "new"]
  /\ step = [r \in Requests |-> 1]
  /\ consumer = "down"
  /\ hands = <<>>
  /\ coming = Foreign
  /\ delays = [r \in Requests |-> 0]
  /\ stranded = {}
  /\ skipped = {}
  /\ stops = 0
  /\ errors = 0

Waiting(by) == \E i \in DOMAIN line : line[i].by = by /\ line[i].op # "ack"

(***************************************************************************)
(* The broker's event loop: each step puts commands on the connection.     *)
(***************************************************************************)

\* Fault: the server listens without having asked for the group.
StartWithoutGroup ==
  /\ consumer = "down"
  /\ consumer' = "rest"
  /\ UNCHANGED <<line, redis, handlers, hands, history, coming, stops, errors>>

\* main: startQueueConsumer has called XGROUP CREATE before the server listens.
Start ==
  /\ consumer = "down"
  /\ consumer' = "create"
  /\ line' = <<Command(Consumer, "group", Consumer)>>
  /\ UNCHANGED <<redis, handlers, hands, history, coming, stops, errors>>

Arrive(r) ==
  /\ consumer # "down"
  /\ pc[r] = "new"
  /\ pc' = [pc EXCEPT ![r] = "run"]
  /\ UNCHANGED <<line, redis, step, loop, history, coming, stops, errors>>

\* The answer to its last call has come, and the handler makes the next one.
Call(r) ==
  /\ pc[r] = "run"
  /\ ~Waiting(r)
  /\ step[r] <= Len(Calls(r))
  /\ line' = Append(line, Command(r, Calls(r)[step[r]], r))
  /\ delays' = [delays EXCEPT ![r] = 0]
  /\ UNCHANGED <<redis, handlers, loop, gone, stranded, skipped, coming, stops, errors>>

Answer(r) ==
  /\ pc[r] = "run"
  /\ step[r] > Len(Calls(r))
  /\ pc' = [pc EXCEPT ![r] = "done"]
  /\ UNCHANGED <<line, redis, step, loop, history, coming, stops, errors>>

\* Fault: the next poll does not wait for the last one.
PollAgain ==
  /\ consumer \in {"poll", "rest", "read"}
  /\ Len(line) < 5
  /\ consumer' = "read"
  /\ line' = Append(line, Command(Consumer, "read", Consumer))
  /\ UNCHANGED <<redis, handlers, hands, history, coming, stops, errors>>

\* poll: XREADGROUP of what the group has not delivered, at once or, after an
\* error, a second later.
Poll ==
  /\ consumer \in {"poll", "rest"}
  /\ consumer' = "read"
  /\ line' = Append(line, Command(Consumer, "read", Consumer))
  /\ UNCHANGED <<redis, handlers, hands, history, coming, stops, errors>>

\* Fault: the first hint of a batch ends the loop.
HandleFirst ==
  /\ consumer = "handle"
  /\ consumer' = "poll"
  /\ line' = Append(line, Command(Consumer, "ack", hands[1]))
  /\ hands' = <<>>
  /\ UNCHANGED <<redis, handlers, history, coming, stops, errors>>

\* handleQueueBatch calls ack for every hint, expired or not, and nothing else;
\* ack calls XACK and does not wait for it.
Handle ==
  /\ consumer = "handle"
  /\ consumer' = "poll"
  /\ line' = line \o [i \in 1 .. Len(hands) |-> Command(Consumer, "ack", hands[i])]
  /\ hands' = <<>>
  /\ UNCHANGED <<redis, handlers, history, coming, stops, errors>>

(***************************************************************************)
(* Redis takes the first command.                                          *)
(***************************************************************************)

Takes(op) == line # <<>> /\ Head(line).op = op /\ line' = Tail(line)

\* The answer to a request's call: it may make the next.
Resume(r) == step' = [step EXCEPT ![r] = @ + 1]

ReadKept(op) ==
  /\ Takes(op)
  /\ Resume(Head(line).by)
  /\ UNCHANGED <<redis, pc, loop, history, coming, stops, errors>>

PutBody ==
  /\ Takes("body")
  /\ Resume(Head(line).by)
  /\ kept' = [kept EXCEPT !.stored = @ \cup {Head(line).of}]
  /\ UNCHANGED <<group, unread, pel, pc, loop, history, coming, stops, errors>>

PushIndex ==
  /\ Takes("list")
  /\ Resume(Head(line).by)
  /\ kept' = [kept EXCEPT !.listed = @ \cup {Head(line).of}]
  /\ UNCHANGED <<group, unread, pel, pc, loop, history, coming, stops, errors>>

\* XADD: a group that is created later starts after the entry.
AddHint ==
  /\ Takes("hint")
  /\ Resume(Head(line).by)
  /\ IF group THEN unread' = Append(unread, Head(line).of) /\ UNCHANGED skipped
     ELSE skipped' = skipped \cup {Head(line).of} /\ UNCHANGED unread
  /\ UNCHANGED <<group, pel, kept, pc, loop, gone, delays, stranded, coming, stops, errors>>

\* Fault: the group is set to the end of the stream whenever the broker starts.
ResetGroup ==
  /\ Takes("group")
  /\ group' = TRUE
  /\ unread' = <<>>
  /\ consumer' = "poll"
  /\ UNCHANGED <<pel, kept, handlers, hands, history, coming, stops, errors>>

\* XGROUP CREATE at $, or BUSYGROUP, which ensureGroup ignores.
CreateGroup ==
  /\ Takes("group")
  /\ group' = TRUE
  /\ consumer' = "poll"
  /\ UNCHANGED <<unread, pel, kept, handlers, hands, history, coming, stops, errors>>

Batch == SubSeq(unread, 1, IF Len(unread) < ReadCount THEN Len(unread) ELSE ReadCount)

\* XREADGROUP answers as soon as there is an entry.
Deliver ==
  /\ unread # <<>>
  /\ Takes("read")
  /\ unread' = SubSeq(unread, Len(Batch) + 1, Len(unread))
  /\ pel' = pel \cup ToSet(Batch)
  /\ consumer' = "handle"
  /\ hands' = Batch
  /\ UNCHANGED <<group, kept, handlers, history, coming, stops, errors>>

\* Fault: BLOCK 0, which never runs out.
NeverRunsOut == FALSE /\ UNCHANGED vars

\* Nothing came within BLOCK_MS; every call behind the read has waited for it.
RunsOut ==
  /\ unread = <<>>
  /\ Takes("read")
  /\ consumer' = "poll"
  /\ delays' = [r \in Requests |-> IF Waiting(r) THEN delays[r] + 1 ELSE delays[r]]
  /\ UNCHANGED <<redis, handlers, hands, gone, stranded, skipped, coming, stops, errors>>

Acknowledge ==
  /\ Takes("ack")
  /\ pel' = pel \ {Head(line).of}
  /\ UNCHANGED <<group, unread, kept, handlers, loop, history, coming, stops, errors>>

(***************************************************************************)
(* What else happens on the Redis, and what goes wrong.                    *)
(***************************************************************************)

\* Another broker's XADD, on its own connection.
ForeignHint(f) ==
  /\ group
  /\ f \in coming /\ \A g \in coming : f <= g
  /\ coming' = coming \ {f}
  /\ unread' = Append(unread, f)
  /\ UNCHANGED <<line, group, pel, kept, handlers, loop, history, stops, errors>>

\* The LREM of an ack or of the prune that ends a pull.
Unlist(s) ==
  /\ s \in kept.listed
  /\ kept' = [kept EXCEPT !.listed = @ \ {s}]
  /\ gone' = [gone EXCEPT !.listed = @ \cup {s}]
  /\ UNCHANGED <<line, group, unread, pel, handlers, loop, coming, delays, stranded, skipped, stops, errors>>

\* The DEL of an ack, or the end of the body's TTL.
DropBody(s) ==
  /\ s \in kept.stored
  /\ kept' = [kept EXCEPT !.stored = @ \ {s}]
  /\ gone' = [gone EXCEPT !.stored = @ \cup {s}]
  /\ UNCHANGED <<line, group, unread, pel, handlers, loop, coming, delays, stranded, skipped, stops, errors>>

\* The requests in flight end without an answer, and what is left on the
\* connection is gone.  A new broker is a new consumer: it reads what the group
\* has not delivered, never the entries of the old one.
Stopped ==
  /\ line' = <<>>
  /\ pc' = [r \in Requests |-> IF pc[r] = "run" THEN "failed" ELSE pc[r]]
  /\ consumer' = "down"
  /\ hands' = <<>>
  /\ stranded' = stranded \cup pel
  /\ UNCHANGED <<redis, step, gone, delays, skipped>>

Stop ==
  /\ stops < MaxStops
  /\ consumer # "down"
  /\ Stopped
  /\ stops' = stops + 1
  /\ UNCHANGED <<coming, errors>>

\* Redis answers a command with an error.  enqueue ignores it for a hint, and
\* any other call of a handler throws; poll rests for a second; nobody catches
\* what XGROUP CREATE or an XACK throws, which ends the process.
RedisError ==
  /\ errors < MaxErrors
  /\ line # <<>>
  /\ errors' = errors + 1
  /\ UNCHANGED <<coming, stops>>
  /\ LET c == Head(line) IN
     \/ /\ Takes("hint")
        /\ Resume(c.by)
        /\ UNCHANGED <<redis, pc, loop, history>>
     \/ /\ c.by \in Requests /\ c.op \notin {"hint", "ack"}
        /\ Takes(c.op)
        /\ pc' = [pc EXCEPT ![c.by] = "failed"]
        /\ UNCHANGED <<redis, step, loop, history>>
     \/ /\ Takes("read")
        /\ consumer' = "rest"
        /\ UNCHANGED <<redis, handlers, hands, history>>
     \/ c.op \in {"group", "ack"} /\ Stopped

(***************************************************************************)
(* The specification.                                                      *)
(***************************************************************************)

HandlerStep(r) == Arrive(r) \/ Call(r) \/ Answer(r)

ConsumerStep == Poll \/ Handle

RedisStep ==
  \/ ReadKept("index") \/ ReadKept("bodies") \/ ReadKept("mark")
  \/ PutBody \/ PushIndex \/ AddHint
  \/ CreateGroup \/ Deliver \/ RunsOut \/ Acknowledge

Next ==
  \/ Start \/ ConsumerStep \/ RedisStep
  \/ \E r \in Requests : HandlerStep(r)
  \/ \E f \in Foreign : ForeignHint(f)
  \/ \E s \in Sends : Unlist(s) \/ DropBody(s)
  \/ Stop \/ RedisError

\* Redis answers and its blocking reads run out, the event loop resumes what
\* has been answered, and a broker that stopped is started again.
Fairness ==
  /\ WF_vars(Start) /\ WF_vars(ConsumerStep) /\ WF_vars(RedisStep)
  /\ \A r \in Requests : WF_vars(Call(r)) /\ WF_vars(Answer(r))

Spec == Init /\ [][Next]_vars /\ Fairness

(***************************************************************************)
(* Properties.                                                             *)
(***************************************************************************)

Ops == {"body", "list", "hint", "mark", "index", "bodies", "group", "read", "ack"}
CommandType ==
  [by : Requests \cup {Consumer}, of : Ids \cup Requests \cup {Consumer}, op : Ops]

\* Every variable stays in its range.
TypeOK ==
  /\ line \in Seq(CommandType)
  /\ group \in BOOLEAN
  /\ unread \in Seq(Ids)
  /\ pel \subseteq Ids
  /\ kept \in [stored : SUBSET Sends, listed : SUBSET Sends]
  /\ gone \in [stored : SUBSET Sends, listed : SUBSET Sends]
  /\ pc \in [Requests -> {"new", "run", "done", "failed"}]
  /\ step \in [Requests -> 1 .. 5]
  /\ consumer \in {"down", "create", "poll", "read", "handle", "rest"}
  /\ hands \in Seq(Ids)
  /\ coming \subseteq Foreign
  /\ delays \in [Requests -> Nat]
  /\ stranded \subseteq Ids
  /\ skipped \subseteq Ids
  /\ stops \in Nat /\ errors \in Nat

\* A hint tells of a message that was stored: before it is on the stream, and
\* before a send is answered 200, whether or not its hint could be added, body
\* and index entry were written to Redis, in spite of stops and errors.  They
\* need not be there any more: an ack, a prune or the TTL may come before the
\* hint is handled, and one that was stranded outlives its message.
HintAfterStored ==
  \A s \in Sends :
    s \in ToSet(unread) \cup pel \cup skipped \/ pc[s] = "done"
    => /\ s \in kept.stored \cup gone.stored
       /\ s \in kept.listed \cup gone.listed

\* The broker's own hints never come before the group, which would not deliver
\* them: XGROUP CREATE is the first command on the connection.
GroupBeforeHints == skipped = {}

\* However calls, polls and acknowledgements follow each other on the one
\* connection, a storage call waits for at most one blocking read to run out:
\* a request of n calls is never held up for more than n times BLOCK_MS.
WaitsForOneRead == \A r \in Requests : delays[r] <= 1

\* An entry that was delivered and is not acknowledged is being handled, has
\* its XACK on the way, or was read by a broker that has stopped since.
StrandedOnlyByStop ==
  \A i \in pel :
    \/ i \in ToSet(hands) \cup stranded
    \/ \E k \in DOMAIN line : line[k].op = "ack" /\ line[k].of = i

\* Every request is answered unless the broker stops or a call of it fails: the
\* read that the calls wait for does not itself wait for one of them for ever.
RequestsAnswered == \A r \in Requests : pc[r] = "run" ~> pc[r] \in {"done", "failed"}

\* Every hint on the stream is delivered to a consumer, across restarts.
HintsDelivered == \A i \in Ids : i \in ToSet(unread) ~> i \in pel

===============================================================================
