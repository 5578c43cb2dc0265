------------------------------ MODULE Admission ------------------------------
(***************************************************************************)
(* POST /send up to and after the mailbox (broker/src/routes/send.js), and *)
(* POST /allowlist (routes/allowlist.js), for the sends addressed to one   *)
(* recipient.  handleSend reads four records in parallel, decides on what  *)
(* it has read, enqueues, then writes two records in parallel; nothing     *)
(* holds the records in between, so sends and allowlist edits overlap.     *)
(*                                                                         *)
(* Requests refused before the first read (401, 400, 403 on from, and the  *)
(* federated ones) touch no state and are left out; so is the check of an  *)
(* attachment, which can only refuse.  enqueue is one step here: module    *)
(* Mailbox has its steps.                                                  *)
(***************************************************************************)
EXTENDS Naturals, FiniteSets

CONSTANTS
  Sends,         \* POST /send requests
  Senders,       \* authenticated ClawIDs
  From,          \* the sender of each send
  ClientMsgIds,  \* client_msg_id values
  ClientMsg,     \* client_msg_id of each send: a retry repeats it
  Edits,         \* POST /allowlist requests of the recipient
  Edit,          \* what each edit asks for: [action, ids]
  Unset,         \* no allowlist is configured
  Cooldown,      \* SEND_RATE_LIMIT_SECONDS
  DedupWindow,   \* DEDUP_WINDOW_SECONDS
  MaxTime,       \* bound: the clock stops here
  MaxSends,      \* bound: how many of the sends are made
  MaxFailures    \* bound: how many sends stop part way

ASSUME FromAssumption == From \in [Sends -> Senders]
ASSUME ClientMsgAssumption == ClientMsg \in [Sends -> ClientMsgIds]
ASSUME EditAssumption ==
  Edit \in [Edits -> [action : {"set", "add", "remove"}, ids : SUBSET Senders]]
ASSUME UnsetAssumption == \A l \in SUBSET Senders : Unset # l
ASSUME LimitAssumption == Cooldown \in Nat /\ DedupWindow \in Nat \ {0}
ASSUME BoundAssumption == MaxTime \in Nat /\ MaxSends \in Nat /\ MaxFailures \in Nat

VARIABLES
  now,         \* the clock, in seconds
  registered,  \* registry:{to} exists
  allowlist,   \* allowlist:{to}
  dedup,       \* dedup:{client_msg_id}: when its TTL ends, 0 if never written
  rate,        \* ratelimit:send:{from}:{to}: a time, 0 if never written
  pc,          \* where each send stands
  todo,        \* the parallel storage calls a send still waits for
  seen,        \* what a send has read
  taken,       \* the `now' a send took when it was admitted
  status,      \* HTTP status of each send's answer, 0 before
  queued,      \* the sends whose message was enqueued
  edit,        \* where each allowlist edit stands
  list,        \* the list an edit has read
  before,      \* history: sends answered 200 before a send arrived
  admits,      \* history: the recipient admitted the sender at some moment
               \* since the send arrived
  overlapped,  \* history: senders that had two sends in flight at once
  failures

records == <<registered, allowlist, dedup, rate>>
history == <<before, admits, overlapped>>
vars == <<now, records, pc, todo, seen, taken, status, queued, edit, list, history, failures>>

Reads == {"record", "allowlist", "dedup", "rate"}
Writes == {"dedup", "rate"}

NothingSeen == [record |-> FALSE, allowlist |-> Unset, dedup |-> FALSE, rate |-> 0]

Init ==
  /\ now = 1
  /\ registered \in BOOLEAN
  /\ allowlist = Unset
  /\ dedup = [i \in ClientMsgIds |-> 0]
  /\ rate = [a \in Senders |-> 0]
  /\ pc = [s \in Sends |-> "new"]
  /\ todo = [s \in Sends |-> {}]
  /\ seen = [s \in Sends |-> NothingSeen]
  /\ taken = [s \in Sends |-> 0]
  /\ status = [s \in Sends |-> 0]
  /\ queued = {}
  /\ edit = [e \in Edits |-> "new"]
  /\ list = [e \in Edits |-> {}]
  /\ before = [s \in Sends |-> {}]
  /\ admits = [s \in Sends |-> FALSE]
  /\ overlapped = {}
  /\ failures = 0

InFlight(s) == pc[s] \in {"reading", "enqueue", "marking"}

Admits(l, a) == l = Unset \/ a \in l

(***************************************************************************)
(* POST /send.                                                             *)
(***************************************************************************)

Receive(s) ==
  /\ pc[s] = "new"
  /\ Cardinality({r \in Sends : pc[r] # "new"}) < MaxSends
  /\ pc' = [pc EXCEPT ![s] = "reading"]
  /\ todo' = [todo EXCEPT ![s] = Reads]
  /\ before' = [before EXCEPT ![s] = {r \in Sends : status[r] = 200}]
  /\ admits' = [admits EXCEPT ![s] = Admits(allowlist, From[s])]
  /\ overlapped' = IF \E r \in Sends : InFlight(r) /\ From[r] = From[s]
                   THEN overlapped \cup {From[s]} ELSE overlapped
  /\ UNCHANGED <<now, records, seen, taken, status, queued, edit, list, failures>>

Stored(k, s) ==
  CASE k = "record" -> registered
    [] k = "allowlist" -> allowlist
    [] k = "dedup" -> now < dedup[ClientMsg[s]]
    [] k = "rate" -> rate[From[s]]

\* The four reads of Promise.all finish in any order.
Read(s, k) ==
  /\ pc[s] = "reading"
  /\ k \in todo[s]
  /\ todo' = [todo EXCEPT ![s] = @ \ {k}]
  /\ seen' = [seen EXCEPT ![s][k] = Stored(k, s)]
  /\ UNCHANGED <<now, records, pc, taken, status, queued, edit, list, history, failures>>

\* Fault: the allowlist is not looked at.
AllowlistIgnored(l, a) == FALSE

\* JSON.parse is applied to the array getAllowlist has parsed already: whatever
\* ClawIDs it holds, the call or the includes that follows throws.
AllowlistThrows(l, a) == l # Unset

\* Fault: the cooldown ends one second early.
CoolingDownOffByOne(last) == last # 0 /\ now + 1 < last + Cooldown

\* rateLimitTs !== null and elapsed < cooldown.  The record's TTL is at least
\* twice the cooldown, so its end is never seen.
CoolingDown(last) == last # 0 /\ now < last + Cooldown

\* Fault: the dedup record that was read is not looked at.
RefusalWithoutDedup(s) ==
  LET v == seen[s] IN
  IF ~v.record THEN 404
  ELSE IF AllowlistThrows(v.allowlist, From[s]) THEN 500
  ELSE IF CoolingDown(v.rate) THEN 429
  ELSE 0

Refusal(s) ==
  LET v == seen[s] IN
  IF ~v.record THEN 404
  ELSE IF AllowlistThrows(v.allowlist, From[s]) THEN 500
  ELSE IF v.dedup THEN 409
  ELSE IF CoolingDown(v.rate) THEN 429
  ELSE 0

\* Fault: the dedup and rate records are written before the message is stored.
DecideAndMarkFirst(s) ==
  /\ pc[s] = "reading"
  /\ todo[s] = {}
  /\ Refusal(s) = 0
  /\ pc' = [pc EXCEPT ![s] = "marking"]
  /\ todo' = [todo EXCEPT ![s] = Writes]
  /\ taken' = [taken EXCEPT ![s] = now]
  /\ UNCHANGED <<now, records, seen, status, queued, edit, list, history, failures>>

Decide(s) ==
  /\ pc[s] = "reading"
  /\ todo[s] = {}
  /\ \/ /\ Refusal(s) # 0
        /\ pc' = [pc EXCEPT ![s] = "done"]
        /\ status' = [status EXCEPT ![s] = Refusal(s)]
        /\ UNCHANGED taken
     \/ /\ Refusal(s) = 0
        /\ pc' = [pc EXCEPT ![s] = "enqueue"]
        /\ taken' = [taken EXCEPT ![s] = now]
        /\ UNCHANGED status
  /\ UNCHANGED <<now, records, todo, seen, queued, edit, list, history, failures>>

Enqueue(s) ==
  /\ pc[s] = "enqueue"
  /\ pc' = [pc EXCEPT ![s] = "marking"]
  /\ todo' = [todo EXCEPT ![s] = Writes]
  /\ queued' = queued \cup {s}
  /\ UNCHANGED <<now, records, seen, taken, status, edit, list, history, failures>>

\* The dedup record is written only once the message is safely in the mailbox.
MarkDedup(s) ==
  /\ pc[s] = "marking"
  /\ "dedup" \in todo[s]
  /\ todo' = [todo EXCEPT ![s] = @ \ {"dedup"}]
  /\ dedup' = [dedup EXCEPT ![ClientMsg[s]] = now + DedupWindow]
  /\ UNCHANGED <<now, registered, allowlist, rate, pc, seen, taken, status, queued, edit, list, history, failures>>

MarkRate(s) ==
  /\ pc[s] = "marking"
  /\ "rate" \in todo[s]
  /\ todo' = [todo EXCEPT ![s] = @ \ {"rate"}]
  /\ rate' = [rate EXCEPT ![From[s]] = taken[s]]
  /\ UNCHANGED <<now, registered, allowlist, dedup, pc, seen, taken, status, queued, edit, list, history, failures>>

Answer(s) ==
  /\ pc[s] = "marking"
  /\ todo[s] = {}
  /\ pc' = [pc EXCEPT ![s] = "done"]
  /\ status' = [status EXCEPT ![s] = 200]
  /\ UNCHANGED <<now, records, todo, seen, taken, queued, edit, list, history, failures>>

\* A storage call throws (the router answers 500) or the broker stops.
Fail(s) ==
  /\ failures < MaxFailures
  /\ InFlight(s)
  /\ pc' = [pc EXCEPT ![s] = "done"]
  /\ todo' = [todo EXCEPT ![s] = {}]
  /\ status' = [status EXCEPT ![s] = 500]
  /\ failures' = failures + 1
  /\ UNCHANGED <<now, records, seen, taken, queued, edit, list, history>>

(***************************************************************************)
(* POST /allowlist: a batch set is one write, add and remove are a read    *)
(* and a write.                                                            *)
(***************************************************************************)

EditRead(e) ==
  /\ edit[e] = "new"
  /\ Edit[e].action # "set"
  /\ edit' = [edit EXCEPT ![e] = "read"]
  /\ list' = [list EXCEPT ![e] = IF allowlist = Unset THEN {} ELSE allowlist]
  /\ UNCHANGED <<now, records, pc, todo, seen, taken, status, queued, history, failures>>

Edited(e) ==
  CASE Edit[e].action = "set" -> Edit[e].ids
    [] Edit[e].action = "add" -> list[e] \cup Edit[e].ids
    [] Edit[e].action = "remove" -> list[e] \ Edit[e].ids

EditWrite(e) ==
  /\ edit[e] = IF Edit[e].action = "set" THEN "new" ELSE "read"
  /\ edit' = [edit EXCEPT ![e] = "done"]
  /\ allowlist' = Edited(e)
  /\ admits' = [s \in Sends |-> admits[s] \/ (pc[s] # "new" /\ Admits(Edited(e), From[s]))]
  /\ UNCHANGED <<now, registered, dedup, rate, pc, todo, seen, taken, status, queued, list,
                 before, overlapped, failures>>

Tick ==
  /\ now < MaxTime
  /\ now' = now + 1
  /\ UNCHANGED <<records, pc, todo, seen, taken, status, queued, edit, list, history, failures>>

SendStep(s) ==
  \/ Receive(s) \/ Decide(s) \/ Enqueue(s) \/ MarkDedup(s) \/ MarkRate(s) \/ Answer(s)
  \/ \E k \in Reads : Read(s, k)

Next ==
  \/ \E s \in Sends : SendStep(s) \/ Fail(s)
  \/ \E e \in Edits : EditRead(e) \/ EditWrite(e)
  \/ Tick

Spec == Init /\ [][Next]_vars

(***************************************************************************)
(* Properties.                                                             *)
(***************************************************************************)

\* Every variable stays in its range.
TypeOK ==
  /\ now \in Nat
  /\ registered \in BOOLEAN
  /\ allowlist \in {Unset} \cup SUBSET Senders
  /\ dedup \in [ClientMsgIds -> Nat]
  /\ rate \in [Senders -> Nat]
  /\ pc \in [Sends -> {"new", "reading", "enqueue", "marking", "done"}]
  /\ todo \in [Sends -> SUBSET Reads]
  /\ seen \in [Sends -> [record : BOOLEAN, allowlist : {Unset} \cup SUBSET Senders,
                         dedup : BOOLEAN, rate : Nat]]
  /\ taken \in [Sends -> Nat]
  /\ status \in [Sends -> {0, 200, 404, 409, 429, 500}]
  /\ queued \subseteq Sends
  /\ edit \in [Edits -> {"new", "read", "done"}]
  /\ list \in [Edits -> SUBSET Senders]
  /\ before \in [Sends -> SUBSET Sends]
  /\ admits \in [Sends -> BOOLEAN]
  /\ overlapped \subseteq Senders
  /\ failures \in Nat

\* Once a send was answered 200, no later send that repeats its client_msg_id
\* is admitted before the window is over, though its cooldown is over long
\* before, and whatever else is in flight.
AnsweredOnceIsDuplicate ==
  \A s \in queued : \A r \in before[s] :
    ClientMsg[r] = ClientMsg[s] => taken[s] >= taken[r] + DedupWindow

\* Two sends of one sender are at least the cooldown apart, as long as the
\* sender never had two in flight at once.
CooldownBetweenSends ==
  \A r, s \in queued :
    /\ r # s /\ From[r] = From[s] /\ From[r] \notin overlapped
    /\ status[r] = 200 /\ r \in before[s]
    => taken[s] >= taken[r] + Cooldown

\* A message reaches the mailbox only if, at some moment since the send
\* arrived, the recipient had no allowlist or had the sender on it: edits that
\* overlap the send cannot admit a sender that was excluded throughout.
UnlistedNeverQueued == \A s \in queued : admits[s]

\* A client_msg_id is taken only once a message with it is in the mailbox: a
\* send that is refused, or that fails before it has stored its message, can be
\* retried.
DedupMeansQueued ==
  \A i \in ClientMsgIds : dedup[i] # 0 => \E s \in queued : ClientMsg[s] = i

\* A sender on the recipient's allowlist is admitted: the allowlist answers a
\* send with 403 or not at all, and only for senders that are not on it.
ListedSenderAdmitted ==
  \A s \in Sends :
    status[s] = 500 => \/ seen[s].allowlist = Unset
                       \/ From[s] \notin seen[s].allowlist

=============================================================================
