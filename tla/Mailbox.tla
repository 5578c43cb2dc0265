------------------------------- MODULE Mailbox -------------------------------
(***************************************************************************)
(* The mailbox of one recipient: the message bodies and the pending index  *)
(* of broker/src/lib/kv.js, and the three operations of                    *)
(* broker/src/lib/queue.js on them (enqueue for POST /send and             *)
(* /group/send, dequeueForClawid for POST /pull, ackMessages for POST      *)
(* /ack).  The handlers are async functions: they may interleave at every  *)
(* await, so every storage call is a step of its own.                      *)
(*                                                                         *)
(* NativeList says which adapter holds the MESSAGES namespace.  TRUE: the  *)
(* Redis adapter, whose pending index is a native list (RPUSH, LRANGE,     *)
(* LREM).  FALSE: plain KV (Cloudflare KV, SQLite), where the index is one *)
(* JSON value that is read, changed and written back.                      *)
(*                                                                         *)
(* The pending index is a list without repetitions.  It is represented by  *)
(* the set of its ids and by place[m], the position at which m was         *)
(* appended: every operation of the code appends at the end or filters,    *)
(* so the order of any two ids in any copy of the list is that of their    *)
(* places.                                                                 *)
(***************************************************************************)
EXTENDS Naturals, FiniteSets

CONSTANTS
  Messages,     \* message ids, each generated by one accepted send
  Clients,      \* `moltpost pull' processes of the recipient
  NativeList,   \* MESSAGES._nativeList is present
  BatchSize,    \* PULL_BATCH_SIZE
  ExpiresAt,    \* expires_at of each message, 0 for none
  MinTtl,       \* 60 in enqueue
  DefaultTtl,   \* 86400 in enqueue
  MaxTime,      \* bound: the clock stops here
  MaxFailures   \* bound: how many requests fail or lose their answer

ASSUME MessagesAssumption == IsFiniteSet(Messages) /\ Messages \cap Clients = {}
ASSUME NativeAssumption == NativeList \in BOOLEAN
ASSUME BatchAssumption == BatchSize \in Nat \ {0}
ASSUME ExpiryAssumption == ExpiresAt \in [Messages -> Nat]
ASSUME TtlAssumption == MinTtl \in Nat \ {0} /\ DefaultTtl \in Nat \ {0}
ASSUME BoundAssumption == MaxTime \in Nat /\ MaxFailures \in Nat

VARIABLES
  now,        \* the clock, in seconds
  body,       \* msg:{id}: when the record's TTL ends, 0 if it is not stored
  pending,    \* pending:{clawid}
  place,      \* the position at which an id was appended, 0 if it was not
  pc,         \* where each request stands
  copy,       \* the pending ids a read-modify-write has read
  at,         \* the clock value dequeueForClawid took
  batch,      \* the ids still to fetch (pull) or to delete (ack)
  found,      \* the messages of the pull's answer
  drop,       \* the ids a request is removing from the index
  inbox,      \* the messages in the recipient's inbox file
  until,      \* history: when the TTL of a stored body ends
  settled,    \* history: ids whose ack was answered 200
  gone,       \* history: what was settled when the pull arrived
  crossed,    \* history: two read-modify-writes of the index were under way at once
  failures    \* how many requests have failed

store == <<body, pending, place>>
locals == <<pc, copy, at, batch, found, drop>>
history == <<until, settled, gone, crossed>>
vars == <<now, store, locals, inbox, history, failures>>

Requests == Messages \cup Clients

SendStates == {"send", "stored", "appending", "listed", "accepted", "failed"}
PullStates == {"list", "fetch", "prune", "pruning", "pruned"}
AckStates == {"holding", "unlist", "unlisting", "unlisted"}
ClientStates == {"idle"} \cup PullStates \cup AckStates

Init ==
  /\ now = 1
  /\ body = [m \in Messages |-> 0]
  /\ pending = {}
  /\ place = [m \in Messages |-> 0]
  /\ pc = [r \in Requests |-> IF r \in Messages THEN "send" ELSE "idle"]
  /\ copy = [r \in Requests |-> {}]
  /\ at = [c \in Clients |-> 0]
  /\ batch = [c \in Clients |-> {}]
  /\ found = [c \in Clients |-> {}]
  /\ drop = [c \in Clients |-> {}]
  /\ inbox = {}
  /\ until = [m \in Messages |-> 0]
  /\ settled = {}
  /\ gone = [c \in Clients |-> {}]
  /\ crossed = FALSE
  /\ failures = 0

(***************************************************************************)
(* Helpers.                                                                *)
(***************************************************************************)

Goto(r, from, to) ==
  /\ pc[r] = from
  /\ pc' = [pc EXCEPT ![r] = to]

\* msgTtl of enqueue: a body outlives a short expires_at by the KV minimum.
Ttl(m) ==
  IF ExpiresAt[m] = 0 THEN DefaultTtl
  ELSE IF ExpiresAt[m] > now + MinTtl THEN ExpiresAt[m] - now
  ELSE MinTtl

\* getMessage finds the record: a get whose time to live is over returns null.
HasBody(m) == now < body[m]

\* The test of dequeueForClawid on expires_at, at the clock value t it took.
PastExpiry(m, t) == ExpiresAt[m] # 0 /\ ExpiresAt[m] < t

\* Fault: without the test for a null expires_at.
DeliverableNullIsZero(m, t) == HasBody(m) /\ t <= ExpiresAt[m]

Deliverable(m, t) == HasBody(m) /\ ~PastExpiry(m, t)

\* pendingIds.slice(0, batchSize)
Ahead(m) == {k \in pending : place[k] < place[m]}
FirstBatch == {m \in pending : Cardinality(Ahead(m)) < BatchSize}

\* m is the next id that the for loop of request c reaches.
IsNext(c, m) == m \in batch[c] /\ \A k \in batch[c] : place[m] <= place[k]

NextPlace == 1 + Cardinality({m \in Messages : place[m] # 0})

\* The requests between the read of the index and the write that follows it.
Updating == {r \in Requests : pc[r] \in {"appending", "pruning", "unlisting"}}

(***************************************************************************)
(* enqueue(env, clawid, message): setMessage, appendPendingId, the hint.   *)
(***************************************************************************)

StoreBody(m) ==
  /\ Goto(m, "send", "stored")
  /\ body' = [body EXCEPT ![m] = now + Ttl(m)]
  /\ until' = [until EXCEPT ![m] = now + Ttl(m)]
  /\ UNCHANGED <<now, pending, place, copy, at, batch, found, drop, inbox, settled, gone, crossed, failures>>

\* appendPendingId on Redis: one RPUSH.
AppendNative(m) ==
  /\ NativeList
  /\ Goto(m, "stored", "listed")
  /\ pending' = pending \cup {m}
  /\ place' = [place EXCEPT ![m] = NextPlace]
  /\ UNCHANGED <<now, body, copy, at, batch, found, drop, inbox, history, failures>>

\* appendPendingId on plain KV: getPendingIds, push, then setPendingIds.
AppendRead(m) ==
  /\ ~NativeList
  /\ Goto(m, "stored", "appending")
  /\ copy' = [copy EXCEPT ![m] = pending]
  /\ crossed' = (crossed \/ Updating # {})
  /\ UNCHANGED <<now, store, at, batch, found, drop, inbox, until, settled, gone, failures>>

\* Fault: the ids that were read are not written back.
AppendWriteAlone(m) ==
  /\ Goto(m, "appending", "listed")
  /\ pending' = {m}
  /\ place' = [place EXCEPT ![m] = NextPlace]
  /\ copy' = [copy EXCEPT ![m] = {}]
  /\ UNCHANGED <<now, body, at, batch, found, drop, inbox, history, failures>>

AppendWrite(m) ==
  /\ Goto(m, "appending", "listed")
  /\ pending' = copy[m] \cup {m}
  /\ place' = [place EXCEPT ![m] = NextPlace]
  /\ copy' = [copy EXCEPT ![m] = {}]
  /\ UNCHANGED <<now, body, at, batch, found, drop, inbox, history, failures>>

AppendPendingId(m) ==
  IF NativeList THEN AppendNative(m) ELSE AppendRead(m) \/ AppendWrite(m)

\* MSG_QUEUE.send may fail without effect on the answer: the sender gets 200.
Accept(m) ==
  /\ Goto(m, "listed", "accepted")
  /\ UNCHANGED <<now, store, copy, at, batch, found, drop, inbox, history, failures>>

\* A storage call throws, the broker stops, or the 200 is lost.
FailSend(m) ==
  /\ failures < MaxFailures
  /\ pc[m] \in {"send", "stored", "appending", "listed"}
  /\ pc' = [pc EXCEPT ![m] = "failed"]
  /\ copy' = [copy EXCEPT ![m] = {}]
  /\ failures' = failures + 1
  /\ UNCHANGED <<now, store, at, batch, found, drop, inbox, history>>

(***************************************************************************)
(* dequeueForClawid(env, clawid, batchSize), called by handlePull.         *)
(***************************************************************************)

PullStart(c) ==
  /\ Goto(c, "idle", "list")
  /\ at' = [at EXCEPT ![c] = now]
  /\ gone' = [gone EXCEPT ![c] = settled]
  /\ UNCHANGED <<now, store, copy, batch, found, drop, inbox, until, settled, crossed, failures>>

PullList(c) ==
  /\ Goto(c, "list", "fetch")
  /\ batch' = [batch EXCEPT ![c] = FirstBatch]
  /\ UNCHANGED <<now, store, copy, at, found, drop, inbox, history, failures>>

\* getMessage, and the message goes to messages or its id to expiredIds.
Fetch(c) ==
  /\ pc[c] = "fetch"
  /\ \E m \in Messages :
       /\ IsNext(c, m)
       /\ batch' = [batch EXCEPT ![c] = @ \ {m}]
       /\ IF Deliverable(m, at[c])
          THEN found' = [found EXCEPT ![c] = @ \cup {m}] /\ UNCHANGED drop
          ELSE drop' = [drop EXCEPT ![c] = @ \cup {m}] /\ UNCHANGED found
  /\ UNCHANGED <<now, store, pc, copy, at, inbox, history, failures>>

\* Fault: removePendingIds(expiredIds) is forgotten.
FetchedWithoutPrune(c) ==
  /\ batch[c] = {}
  /\ Goto(c, "fetch", "pruned")
  /\ UNCHANGED <<now, store, copy, at, batch, found, drop, inbox, history, failures>>

Fetched(c) ==
  /\ batch[c] = {}
  /\ Goto(c, "fetch", IF drop[c] = {} THEN "pruned" ELSE "prune")
  /\ UNCHANGED <<now, store, copy, at, batch, found, drop, inbox, history, failures>>

(***************************************************************************)
(* removePendingIds(env, clawid, drop), called by dequeueForClawid with    *)
(* the expired ids and by ackMessages with the acknowledged ones.          *)
(***************************************************************************)

\* On Redis one LREM per id, all in flight at once.
RemoveNative(c, from, to) ==
  /\ NativeList
  /\ \E m \in drop[c] :
       /\ pending' = pending \ {m}
       /\ drop' = [drop EXCEPT ![c] = @ \ {m}]
  /\ Goto(c, from, IF drop'[c] = {} THEN to ELSE from)
  /\ UNCHANGED <<now, body, place, copy, at, batch, found, inbox, history, failures>>

RemoveRead(c, from, to) ==
  /\ ~NativeList
  /\ Goto(c, from, to)
  /\ copy' = [copy EXCEPT ![c] = pending]
  /\ crossed' = (crossed \/ Updating # {})
  /\ UNCHANGED <<now, store, at, batch, found, drop, inbox, until, settled, gone, failures>>

RemoveWrite(c, from, to) ==
  /\ Goto(c, from, to)
  /\ pending' = copy[c] \ drop[c]
  /\ copy' = [copy EXCEPT ![c] = {}]
  /\ drop' = [drop EXCEPT ![c] = {}]
  /\ UNCHANGED <<now, body, place, at, batch, found, inbox, history, failures>>

RemovePendingIds(c, from, via, to) ==
  IF NativeList
  THEN RemoveNative(c, from, to)
  ELSE RemoveRead(c, from, via) \/ RemoveWrite(c, via, to)

Prune(c) == RemovePendingIds(c, "prune", "pruning", "pruned")

\* Fault: ackMessages deletes the bodies and leaves the index alone.
UnlistNothing(c) ==
  /\ Goto(c, "unlist", "unlisted")
  /\ UNCHANGED <<now, store, copy, at, batch, found, drop, inbox, history, failures>>

Unlist(c) == RemovePendingIds(c, "unlist", "unlisting", "unlisted")

(***************************************************************************)
(* The answer of /pull reaches the client, which appends the messages to   *)
(* its inbox file and only then acknowledges them, deleting index entries  *)
(* first and bodies second (ackMessages).                                  *)
(***************************************************************************)

Receive(c) ==
  /\ Goto(c, "pruned", IF found[c] = {} THEN "idle" ELSE "holding")
  /\ UNCHANGED <<now, store, copy, at, batch, found, drop, inbox, history, failures>>

\* Fault: the client acknowledges what it has not saved.
KeepNothing(c) ==
  /\ Goto(c, "holding", "unlist")
  /\ drop' = [drop EXCEPT ![c] = found[c]]
  /\ batch' = [batch EXCEPT ![c] = found[c]]
  /\ UNCHANGED <<now, store, copy, at, found, inbox, history, failures>>

Keep(c) ==
  /\ Goto(c, "holding", "unlist")
  /\ inbox' = inbox \cup found[c]
  /\ drop' = [drop EXCEPT ![c] = found[c]]
  /\ batch' = [batch EXCEPT ![c] = found[c]]
  /\ UNCHANGED <<now, store, copy, at, found, history, failures>>

\* Fault: ackMessages leaves the bodies to their TTL.
DeleteNoBody(c) ==
  /\ pc[c] = "unlisted"
  /\ \E m \in Messages : IsNext(c, m) /\ batch' = [batch EXCEPT ![c] = @ \ {m}]
  /\ UNCHANGED <<now, store, pc, copy, at, found, drop, inbox, history, failures>>

DeleteBody(c) ==
  /\ pc[c] = "unlisted"
  /\ \E m \in Messages :
       /\ IsNext(c, m)
       /\ body' = [body EXCEPT ![m] = 0]
       /\ batch' = [batch EXCEPT ![c] = @ \ {m}]
  /\ UNCHANGED <<now, pending, place, pc, copy, at, found, drop, inbox, history, failures>>

AckDone(c) ==
  /\ batch[c] = {}
  /\ Goto(c, "unlisted", "idle")
  /\ settled' = settled \cup found[c]
  /\ found' = [found EXCEPT ![c] = {}]
  /\ UNCHANGED <<now, store, copy, at, batch, drop, inbox, until, gone, crossed, failures>>

\* A handler stops part way, or the CLI does: the next heartbeat starts over.
FailClient(c) ==
  /\ failures < MaxFailures
  /\ pc[c] # "idle"
  /\ pc' = [pc EXCEPT ![c] = "idle"]
  /\ copy' = [copy EXCEPT ![c] = {}]
  /\ batch' = [batch EXCEPT ![c] = {}]
  /\ found' = [found EXCEPT ![c] = {}]
  /\ drop' = [drop EXCEPT ![c] = {}]
  /\ failures' = failures + 1
  /\ UNCHANGED <<now, store, at, inbox, history>>

Tick ==
  /\ now < MaxTime
  /\ now' = now + 1
  /\ UNCHANGED <<store, locals, inbox, history, failures>>

(***************************************************************************)
(* The specification.                                                      *)
(***************************************************************************)

SendStep(m) == StoreBody(m) \/ AppendPendingId(m) \/ Accept(m)

ClientStep(c) ==
  \/ PullStart(c) \/ PullList(c) \/ Fetch(c) \/ Fetched(c) \/ Prune(c)
  \/ Receive(c) \/ Keep(c) \/ Unlist(c) \/ DeleteBody(c) \/ AckDone(c)

Next ==
  \/ \E m \in Messages : SendStep(m) \/ FailSend(m)
  \/ \E c \in Clients : ClientStep(c) \/ FailClient(c)
  \/ Tick

Spec == Init /\ [][Next]_vars

(***************************************************************************)
(* Properties.                                                             *)
(***************************************************************************)

\* Every variable stays in its range.
TypeOK ==
  /\ now \in Nat
  /\ body \in [Messages -> Nat]
  /\ pending \subseteq Messages
  /\ place \in [Messages -> Nat]
  /\ pc \in [Requests -> SendStates \cup ClientStates]
  /\ \A m \in Messages : pc[m] \in SendStates
  /\ \A c \in Clients : pc[c] \in ClientStates
  /\ copy \in [Requests -> SUBSET Messages]
  /\ at \in [Clients -> Nat]
  /\ batch \in [Clients -> SUBSET Messages]
  /\ found \in [Clients -> SUBSET Messages]
  /\ drop \in [Clients -> SUBSET Messages]
  /\ inbox \subseteq Messages
  /\ until \in [Messages -> Nat]
  /\ settled \subseteq Messages
  /\ gone \in [Clients -> SUBSET Messages]
  /\ crossed \in BOOLEAN
  /\ failures \in Nat

\* The broker still owes m to the recipient: its sender was answered 200 and
\* neither its expires_at nor, without one, the default TTL has come.
Due(m) ==
  /\ pc[m] = "accepted"
  /\ IF ExpiresAt[m] # 0 THEN now < ExpiresAt[m] ELSE now < until[m]

\* A message whose sender was answered 200 is, until it expires, listed in the
\* mailbox with its body, or already in the recipient's inbox: no overlap of
\* sends, pulls and acks, and no failure part way, makes it disappear.
NoLostMessage ==
  \A m \in Messages : Due(m) => m \in inbox \/ (m \in pending /\ HasBody(m))

\* A pull that arrives after an ack of m was answered 200 never returns m, even
\* where a read-modify-write has put the id of m back on the pending index.
NoRedeliveryAfterAck ==
  \A c \in Clients : pc[c] # "idle" => found[c] \cap gone[c] = {}

\* Ids leave the index before their bodies leave the store, and never come
\* back: an id on the index has its body until the body's TTL ends, so acks
\* never leave entries that only take up room in a pull's batch.
NoDanglingId == \A m \in pending : HasBody(m) \/ until[m] <= now

\* On plain KV both hold as long as no two updates of the index overlap: a
\* request that stops in the middle of one, pulls that read the index in the
\* middle of one, and overlaps of all other steps are no harm.
SafeInTurns == ~crossed => NoLostMessage /\ NoDanglingId

\* Every accepted message reaches the inbox unless it expires first: ids at the
\* head of the index that are expired, dangling or already fetched cannot keep a
\* message behind them out of every batch.  The one other way out, which only
\* plain KV has, is that an overlapping update has dropped its id from the index.
AcceptedReachesInbox ==
  \A m \in Messages :
    pc[m] = "accepted" ~> \/ m \in inbox \/ ~Due(m)
                          \/ crossed /\ m \notin pending

(***************************************************************************)
(* The mailbox implements Delivery: what a sender and a recipient may      *)
(* expect of the broker, whatever the requests in flight.                  *)
(***************************************************************************)

Phase(m) ==
  IF m \in inbox THEN "taken"
  ELSE IF place[m] = 0 THEN "unsent"
  ELSE IF until[m] <= now \/ PastExpiry(m, now) THEN "expired"
  ELSE IF m \in pending THEN "held"
  ELSE "lost"

Phases == [m \in Messages |-> Phase(m)]

Promise == INSTANCE Delivery WITH phase <- Phases

\* Every step is a step of Delivery or leaves it unchanged: always on a native
\* list, and on plain KV as long as no two updates of the index overlap.
ImplementsDelivery == Promise!Spec

===============================================================================
