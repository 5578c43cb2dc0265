# MoltPost verification

TLA+ models of MoltPost, an end-to-end encrypted mailbox service for agents: a
broker (`src/broker/`, a Cloudflare Worker or a Node server) that keeps
encrypted messages, registrations, allowlists and groups in key-value storage,
and a command-line client (`src/client/`) that agents run by hand or from a
heartbeat. The models are checked with TLC on small instances; every
property but the liveness properties is proved with TLAPS for every value of
the constants.

Paths below are relative to `src/`. `PROJECT.json` gives, for every definition
that models code, the lines it models.

## 1. The system

Nothing in MoltPost takes a lock. A request handler is an async function that
reads records, decides, and writes them back some awaits later; the storage
(Redis, SQLite or Cloudflare KV) is atomic per call only. The client keeps its
state in files that every command loads and rewrites whole. So the hard
questions are the same everywhere: what survives when two actors overlap
between a read and a write, when one stops part way, when an answer is lost and
the request repeated, and when a record's TTL ends in between.

| Component | State | Operations | Module |
|---|---|---|---|
| Message queue (`broker/src/lib/queue.js`, `kv.js`) | `msg:{id}` bodies with a TTL, `pending:{clawid}` index | `enqueue`, `dequeueForClawid`, `ackMessages` | `Mailbox`, `Delivery` |
| Pull rate limit (`middleware/rateLimit.js`, `routes/pull.js`) | `ratelimit:pull:{clawid}` | `checkPullRateLimit` in front of a pull | `Polling` |
| Queue hints (`handleQueueBatch`, `adapters/queue-redis.js`, `server.mjs`) | a Redis stream with its consumer group; the commands on the shared connection | hint of a send, poll, deliver, acknowledge | `Hints` |
| Sending (`routes/send.js`, `middleware/dedup.js`) | `dedup:{client_msg_id}`, `ratelimit:send:*` | `POST /send` | `Admission` |
| Allowlist (`routes/allowlist.js`) | `allowlist:{clawid}` | `POST /allowlist` | `Admission` |
| Registration (`routes/register.js`, `middleware/auth.js`, `client/scripts/cmd/register.mjs`, `lib/broker.mjs`) | `registry:`, `token:`, `pubkey_history:`; the owner's key files and `config.json` | fresh, `--force` and signed registration; `last_seen` write-back; `admin.mjs delete-user` | `Registration` |
| Groups (`routes/group/{create,invite,join,leave}.js`) | `group:{id}`, `invite:{token}` | create, invite, join, leave, kick, dissolve | `Groups` |
| Group send (`routes/group/send.js`) | reads `group:`, writes `dedup:` and mailboxes | `POST /group/send` | `GroupSend` |
| Peer cache and send command (`storage.mjs` 175-207, `cmd/send.mjs`, `lib/broker.mjs`, `routes/peer.js`) | `peers.json`; the recipient's key pair | look up, refresh, fall back; send with retries and recovery | `Peers` |
| Inbox files (`client/scripts/lib/storage.mjs`, `cmd/{pull,read,archive}.mjs`) | `inbox/active.json`, archive files, auto-reply audit | pull, read, archive, processAutoReply | `Inbox` |
| Router, read-only routes, federation, audit, cryptography, security scan, group commands, provisioning | none, or outside the process | | not modelled (section 8) |

How they interact: `/send` and `/group/send` end in `enqueue`, which ends with a
hint; `/pull` passes the rate limit and calls
`dequeueForClawid`; the CLI's pull saves what it got in `Inbox`'s files before
it calls `/ack`. Every authenticated request reads the `token:` index that
registration maintains, and `/send` and `/pull` write `last_seen` back into the
registry record after they have answered. `/register` with `group_name` is one
more creator of groups. The send command reads the recipient's record through
`/peer` before it sends. On Redis all of them share one connection with the
consumer of the hints. Each module takes the next one's operation as one step
(for `Admission` and `Peers`, `enqueue` is one step; `Mailbox` has its steps);
`Polling` is `Mailbox` itself with the limit in front of it.

What makes each of them correct:

- **Queue.** What a sender was told is stored stays retrievable until it is in
  the recipient's inbox or expires; what was acknowledged is not delivered by
  a later pull; index and bodies agree; nothing blocks the head of the index.
- **Pull rate limit.** It keeps no message from the inbox for good, and who
  waits out a `retry_after` is let in.
- **Hints.** A hint comes after its message was stored; the consumer gets every hint once it is
  on the stream; the consumer's blocking read delays requests by a bounded time only.
- **Sending.** A repeated `client_msg_id` is refused after a 200, and only if a
  message with it was stored; a sender keeps the cooldown; the allowlist decides.
- **Registration.** One valid token per record, no key lost to a rotation, a
  version names one key, and an owner whose token stops working gets a new one.
- **Groups.** The member limit, the owner's membership, admission by token, and
  requests that take turns behave as if applied one after the other.
- **Group send.** It reaches members of one group value in which its sender may
  post, all of them when it is answered 200, once.
- **Peer cache.** A message is encrypted with the key its recipient has, but for
  a rotation after the last lookup; who is told "duplicate" has sent.
- **Inbox.** A message leaves the broker only for the inbox or the archive, is
  in one of them once, and the inbox stays within its limit.

## 2. Modules

- `Delivery` - what a mailbox promises, seen from its two ends: a message is
  unsent, held, expired or taken. `Mailbox` implements it on a native list, and
  on plain KV as long as no two updates of the index overlap.
- `Mailbox` - `enqueue`, `dequeueForClawid`, `ackMessages` and the client that
  drives them, one action per storage call. `NativeList` selects the adapter:
  Redis with `RPUSH`/`LRANGE`/`LREM`, or plain KV (Cloudflare, SQLite) with one
  JSON value that is read, changed and written. `body[m]` is the time at which
  the TTL of `msg:{m}` ends; the pending list is the set `pending` with the
  position `place[m]`, which is enough because every operation appends at the
  end or filters. `crossed` records that two read-modify-writes of the index have
  overlapped, which happens on plain KV only.
- `Polling` - extends `Mailbox`: a pull starts only when `checkPullRateLimit`
  lets it in. The limit's record is its age, since only differences of times
  are compared. Every behaviour of `Polling` is one of `Mailbox`.
- `Hints` - one broker on Redis, seen from its connection: the sequence of
  commands that Redis has not answered, the handlers and the poll loop that put
  commands on it, the stream with its group and pending entries, other brokers
  that add hints, acks and expiry that take messages out, and a broker that stops
  and starts again.
- `Admission` - `handleSend` from its four parallel reads (any order) to its
  answer, and the allowlist's set (one write), add and remove (read, write).
- `Registration` - one ClawID's record, token index and key history, written by
  registrations, `last_seen` updates and `delete-user`, with the key pair and
  token its owner keeps. A token and a key pair are named by the request that
  made them.
- `Groups` - one group object and its invite tokens. `serial` is the value the
  group would have if every write had been applied to the current one instead
  of to the copy its request had read.
- `GroupSend` - one group's sends. The group changes to any value of
  `GroupValues`, deletion included; which changes really happen is `Groups`'
  business, and every one of them is among these.
- `Peers` - one sender's commands, which may overlap, and one recipient who
  rotates, is deleted and registers anew. A key pair is its number, an
  encrypted message the number of the key that opens it.
- `Inbox` - the inbox file and the archive under overlapping commands, with the
  truncation of `writeFileSync` as a step of its own. What `filter` returns is
  stated by the places it keeps (`Nth`, `Picked`), without recursion, so that the
  prover can reason about it; `MCInbox` has TLC compare it with `SelectSeq`.
- `MC*` - values for the constants. `*_proofs` - the theorems.

How state and actions correspond to the code:

| Module | Variables | Actions |
|---|---|---|
| `Mailbox` | `body` = `msg:{id}` (end of TTL), `pending`/`place` = `pending:{clawid}`, `copy` = the index a read-modify-write holds, `batch`/`found`/`drop` = the locals of `dequeueForClawid` and `ackMessages`, `inbox` = what `appendMessages` has saved | `StoreBody`, `AppendPendingId`, `Accept` = `enqueue`; `PullStart`, `PullList`, `Fetch`, `Fetched`, `Prune` = `dequeueForClawid`; `Receive`, `Keep` = `cmdPull`; `Unlist`, `DeleteBody`, `AckDone` = `ackMessages`; `RemovePendingIds` in `Prune` and `Unlist` |
| `Polling` | `age` = `ratelimit:pull:{clawid}`, `gate`/`delay` = the locals of `checkPullRateLimit` | `Ask`, `Refused`, `Allowed`, `LetIn` = `checkPullRateLimit` and its caller; `Elapse` = time |
| `Hints` | `line` = the connection, `group`/`unread`/`pel` = stream, group and pending entries, `kept`/`gone` = bodies and index in Redis, and taken out of it, `step` = the next call of a handler, `hands` = the batch in `handleQueueBatch` | `Start` = `server.mjs`; `Call`, `Answer` = a handler's awaits; `Poll`, `Handle` = the poll loop; `PutBody` ... `Acknowledge` = Redis, one command at a time; `Unlist`, `DropBody` = acks, prunes and the TTL of a body; `Stop`, `RedisError` |
| `Admission` | `registered`, `allowlist`, `dedup`, `rate` = the four records; `seen` = what `Promise.all` returned; `list` = the list an edit has read | `Receive`, `Read`, `Decide`, `Enqueue`, `MarkDedup`, `MarkRate`, `Answer` = `handleSend`; `EditRead`, `EditWrite` = `handleAllowlist` |
| `Registration` | `record`, `tokens`, `history` = `registry:`, `token:`, `pubkey_history:`; `localKey`, `config` = key files and `config.json`; `old`, `oldHistory`, `ucopy`, `dcopy` = copies in flight | `RunRegister`, `RunRecover` = the CLI; `ReadRecord` ... `IndexToken` = `handleRegister`; `UpdateRead`/`UpdateWrite` = the `waitUntil` of `/send` and `/pull`; `Delete*` = `cmdDeleteUser` |
| `Groups` | `group` = `group:{id}`, `tokens` = `invite:{token}`, `copy` = the object a request has read | `CreateRead`/`CreateWrite`, `InviteRead`/`InviteWrite`, `JoinCheckToken`/`JoinRead`/`JoinWrite`/`JoinBurnToken`, `LeaveRead`/`LeaveWrite` = the four handlers; `Expire` = the TTL of a token |
| `GroupSend` | `group`, `marked` = `dedup:`, `copy` = the group that was read, `todo` = targets left, `reached` = mailboxes that hold the message | `Arrive`, `ReadGroup`, `CheckDedup`, `Enqueue`, `MarkDedup`, `Answer` = `handleGroupSend`; `ChangeGroup` = the handlers of `Groups`; `Lapse` = the dedup TTL |
| `Peers` | `record` = the recipient's `registry:`, `made` = the number of the key pair on its disk, `cache` = its entry in `peers.json`, `mailbox`, `marked` = index and `dedup:`, `token` = the sender's token is valid, `sealed` = messages saved as raw payload | `Lookup*` = `GET /peer`; `UseAnswer`, `Refresh`, `UseCache` = `getPeerPubkey`, `updatePeersCache`; `Admit`, `Enqueue`, `MarkDedup` = `handleSend`; `Report`, `PostFails`, `Recover` = `cmdSend`, `fetchWithRetry`; `SaveKeyPair`, `Register` = `cmdRegister`; `Pull` = `cmdPull`; `Delete*` = `cmdDeleteUser` |
| `Inbox` | `active`, `archive` = the files, `held` = the broker, `next`/`surplus` = what a command will write, `triggered` = the auto-reply audit | `Fetch`, `AppendMessages`, `Ack`, `AutoReply` = `cmdPull`; `Choose`, `UpdateMessage` = `cmdRead`; `Archive` = `cmdArchive`; `ArchiveMessages`, `Truncate`, `Write` = the file operations they share |

Variables commented *history* in the modules record what happened; no action's
guard reads them, but for `sent` in `Inbox`, which keeps a message from arriving twice.

In every module a failure action (`Fail`, `FailSend`, `FailClient`, `PostFails`,
`Stop`, ...) ends a request between any two steps: a storage call that throws
(the router answers 500), a broker that stops, a killed command, or a lost answer.

The definitions marked *Fault* in the modules are plausible mistakes at that
spot (a dropped guard, a swapped order, a missing write). Each property is
accompanied by one that breaks it, listed in `PROJECT.json` under `mutants`.

## 3. What the runs check

| Run | Distinct states | What it shows |
|---|---|---|
| `mailbox_redis` | 1.5 million | On a native list: nothing accepted is lost, an id on the index has its body, and the mailbox implements `Delivery`. |
| `mailbox_kv_lost` | finding 1 | On plain KV an accepted message can be lost. |
| `polling` | 420 thousand | On plain KV behind the rate limit: until two updates of the index overlap, nothing accepted is lost and the index has no dangling ids; accepted messages reach the inbox unless they expire or such an overlap dropped their id, what was acknowledged never comes again, and `retry_after` is kept. |
| `admission` | 4.7 million | Deduplication, cooldown and allowlist, with two of three sends, a repetition among them that comes after the cooldown and within the dedup window, under three allowlist edits. |
| `admission_listed` | finding 2 | A listed sender is answered 500. |
| `register_turns` | 840 thousand | Tokens, key history and what its limit pushes out, versions and the owner's key when the writers take turns, whichever stops part way; and that an owner with a `config.json` ends up with a valid token, unless a rotation failed or met another writer. |
| `register_last_seen` | finding 3 | A `last_seen` update undoes a rotation. |
| `groups_races` | 3.1 million | Limit, owner, invitation under every overlap; serial outcome and single use of tokens in turns. |
| `groupsend` | 830 thousand | Audience, completeness and deduplication of group sends. |
| `inbox` | 3.1 million | What overlapping and stopping commands leave in the inbox files. |
| `peers` | 1.0 million | Which messages their recipient cannot open, and what a cache, a retry and a deleted recipient do to a send. |
| `hints` | 500 thousand | No call waits for two blocking reads, no hint comes before its message was stored, every hint is delivered, every request answered. |

The type invariants are proved and not repeated in a run.

Bounds, and why they are enough:

- *Mailbox.* Two messages, one with an early `expires_at` and one without, two
  concurrent clients, clock values 0 to 3. Every hazard of the queue is a race
  of two requests over one index; a third process could only repeat what one of
  the two does. With `BatchSize = 1` a message waits behind the head, which is
  the case in which pruning and order matter. `MinTtl` is 2: a body outlives the
  message's `expires_at`, as with the 60 seconds of the code. One failure, anywhere.
- *Polling.* Two messages, the first of which expires at the head, one client,
  `BatchSize` 1: a message that is not reached by the first pull needs another,
  which the limit refuses for a while. The message clock stops at `MaxTime`, the
  interval keeps running. A check takes at most one interval. With one client no two
  pulls are checked at once here; the proof of `RetryAfterSteps` covers any number of
  clients and any interval.
- *Hints.* One send and one pull of this broker and two hints of others, so that
  a batch is full (`ReadCount` 2) or is not, and a read finds a hint or runs out.
  One stop and one Redis error, at any command. The group may exist
  already (another broker) or not. Hints of others are numbered as they come, since only
  their order matters. Body and index entry are taken out of Redis at any time after they
  were written. The safety properties are proved for any numbers.
- *Admission.* `MaxSends` is two of three sends - one, its repetition, one of another
  sender - since the properties relate two. `Cooldown` 2 is less than `DedupWindow` 3, as 10
  seconds are less than a day, so only the dedup record refuses a repetition that comes
  in between; `MaxTime` 4 lets the clock pass the end of both. The edits add, set and
  remove, so that the sender is off, on and off the list.
- *Registration.* One fresh registration, two forced ones and two recoveries: with a
  `HistoryMax` of 2 (10 in the code) the history overflows. A valid token is lost to the
  deletion first; a failure can cost one recovery, and the second must succeed. One
  update that repeats, one deletion, one failure.
- *Groups.* Two of each request, with a group of two places: the joins compete
  for the last one. `create.js:60-84` does not compare `max_members` with the members it
  seeds; a third creation seeds two in a group of one place. `WithinLimit` says of such a
  group that nobody joins it: it has only members of the seed.
- *GroupSend.* Six group values - all policies, a removed sender, a member who
  was removed, no group - one change, a broadcast with a retry, and a unicast.
- *Peers.* Two send commands and two key pairs, one deletion and two failures: the
  cache is filled by one command and used by the other, and two lookups see at
  most two keys. One retry of `POST /send` instead of three. The proofs
  cover any numbers.
- *Inbox.* `ActiveMax` and `BatchSize` are 2 with three messages: overflow,
  a second batch and redelivery all occur. The archive cutoff may pass for any
  message at any time. The months of the archive are one file, so a call of
  `archiveMessages` is one append.

Symmetry is used over processes or ids that are compared for equality only, and
never in a run with a liveness property. Deadlock is checked where something
runs for ever: the clients of the mailbox runs and of `polling`, and the poll loop
of `hints`. The other modules have a bounded number of requests and stop when all
are answered.

## 4. Fairness

- `Polling!PollingSpec`: each step of a client's command and of its pull is
  weakly fair, and so is the clock. The runtime resumes every await of a handler, and the
  client is started by a heartbeat again and again (`client/SKILL.md`). Nothing
  is assumed of senders, who may stop anywhere, nor of the number of failures
  other than that it is finite.
- `Hints!Fairness`: Redis answers the first command of a connection, and a
  blocking read runs out after `BLOCK_MS` if nothing comes; the event loop
  resumes what has been answered; a broker that stopped is started again.
  No fairness is assumed of arrivals or of other brokers' hints.
- `Registration!FairSpec`: handlers and a deletion that has begun run to their
  end, and a heartbeat whose pull is answered 401 tries to re-register
  (`cmdPull`, `reregisterWithSignature`). Forced registrations are the owner's
  decision and are not fair.

## 5. Findings

1. **Messages lost on plain KV** (`mailbox_kv_lost`). `README.md:274` and `:277`
   say that after a 200 the body *and the index entry* are in KV.
   `appendPendingId` (`kv.js:105`) is a read-modify-write there: of two
   overlapping sends to one recipient the later write drops the other's id. Its
   body is stored, and no pull ever lists it.
2. **Allowlisted senders are refused with 500** (`admission_listed`).
   `test/broker/allowlist.test.js:81` expects 200. `handleSend` applies
   `JSON.parse` (`send.js:77`) to the array `getAllowlist` has parsed already.
   `Admission` models the code: with a list set, `Refusal` is 500. What
   `UnlistedNeverQueued` says is therefore about the senders that were read
   under an unset list; the property stays meaningful once the parse is repaired,
   because it speaks of edits that overlap a send.
3. **`last_seen` undoes a key rotation** (`register_last_seen`).
   `pull.js:34-37` and `send.js` write a whole record back that was read before
   a forced registration replaced it, so `/peer` returns the old key, which
   `test/e2e/real-e2e.test.mjs:171` rules out.

The models also admit the following; the properties exclude it by naming the
condition (`overlapped`, `crossed`, `Reborn`, `lapsed`, `failures`, `damaged`),
and no run is spent on it:

- two joins that overlap both use one invite token, a join that has read the
  group before its owner dissolved it brings it back, and overlapping joins and
  leaves undo each other (`join.js:43-97`, `leave.js:71-82`);
- duplicates that overlap are both admitted (`send.js:61`, `dedup.js`);
- a `--force` registration that is refused, or fails before the broker has
  written the record, has already replaced the key pair on disk (`register.mjs:52`):
  a signed recovery then signs with a key the broker does not know. If only the 200 is
  lost the keys agree, but `--force` sends the dead token and is refused:
  `OwnerHoldsRegisteredKey` and `RecoversToken` are about owners whose rotations
  were answered;
- the client keeps no private key but its last one: messages encrypted before a
  rotation cannot be opened after it (`sealed` in `Peers`), although
  `SECURITY.md:34` speaks of decrypting them with the broker's history, which
  holds public keys, and of these the last ten only (`kv.js:186`);
- a deleted recipient who registers anew starts at version 1, so its new key does
  not replace a cached one of a higher version until the hour has passed
  (`storage.mjs:182`); of two lookups that overlap the older answer may be cached
  last; a send that cannot look the key up then uses the wrong one;
- a deletion that stops before its last step leaves the pending index to who
  registers the name next, and a second run of `delete-user` does not find the
  user (`admin.mjs:392-418`);
- an idle broker on Redis holds each storage call up for as long as the poll
  loop's blocking read lasts, for the two share a connection
  (`env-local.js`, `server.mjs`, `queue-redis.js:55`): a request of n calls in a row
  may take n times `BLOCK_MS`;
- a hint that a stopped broker had read is not handled by anybody: the comment
  at `queue-redis.js:73` ("message stays in PEL for re-delivery") has no reader
  of pending entries behind it, so the hint stays in the group's list after its message
  is acknowledged or expired. An `XACK` that fails ends the process;
- overlapping client commands lose messages, as each rewrites `active.json`;
  a crash between truncation and write leaves it empty, and every later command
  throws on it (`storage.mjs:83-94`);
- a `send_policy` that is none of the three known texts, which `create.js:77`
  stores, lets everybody post.

Seen while reading, and outside the models: `README.md:277` says the hint is sent
after the response, while `enqueue` awaits it before; `client/SKILL.md:100` says 5 s,
`rateLimit.js:11` defaults to 300 s; `group add` prints a `group join` command that the
CLI does not have (`cmd/group.mjs:93`); a federated `/send` forwards no token
(`federation.js:16`), which a broker of this code answers 401.

## 6. What is proved

`TLAPS` checks these theorems and their lemmas, for any number of messages,
clients, requests and members and for any bounds. Assumptions are those named
in the modules; TLC evaluates each in the runs of its module. Every module with
proofs has `TypeCorrect` (and `PollingTypeCorrect` in `Mailbox_proofs`): each variable
stays in its range.

`Mailbox_proofs`

- `TurnsAreSafe`, on either adapter: as long as no two updates of the index
  overlap, nothing accepted is lost and no id dangles. That is not inductive:
  `SafeInv` adds what each request in flight knows. The one request inside a
  read-modify-write has read what the index still holds (`TurnInv`), so its write
  changes the index as one call would; a body is stored before its
  id is listed (`SendInv`); an id that a client is removing was expired, fetched
  or deleted, so removing it loses nothing; an ack's ids are in the inbox before
  they leave the index, and leave the index before their bodies go (`ClientInv`). The order of
  steps in `ackMessages` and in `cmdPull` is exactly what makes these hold.
- `NothingLost`, `NothingDangling`, assuming `NativeList`: on a native list updates
  never overlap (`NativeInTurns`).
- `DeliveryInTurns`, on either adapter, and `DeliveryImplemented`, assuming
  `NativeList`: initial states map to initial states, and each step, under
  `SafeInv`, to `Hold`, `Take`, `Expire` or a stutter.
- `NothingRedelivered`, on either adapter. A lost update may list an id again,
  so the argument cannot use the index: `SettledInv` says that what was settled
  has no body, and that nothing stores a body twice.
- `ImplementsMailbox`: each step of `Polling` is one of `Mailbox` or changes only
  the limit, so what is proved of `Mailbox` holds behind the rate limit;
  `SafeBehindLimit`, `DeliveryBehindLimit` and `NothingRedeliveredBehindLimit` are instances.
- `RetryAfterKept` from `LimitInv` and `OwedInv`: what a client still owes and the age of
  the record together make at least an interval, which a refused or a failed pull
  does not change and a pull that is let in ends.

`Inbox_proofs`

- The operators first: `PickedList` says what a filter returns (each kept entry once,
  in order, and nothing else), from the rank of a place among those kept
  (`RankGrows` and what follows it); `AppendShares`, `ArchiveShares` and `MarkShares` say
  that what the three commands compute shares the entries of the list they loaded
  between the list to write and the lists to archive (`Shared`): none is lost, none is in
  two of them.
- `NeverOverActiveMax` from `LimitInv`: however commands overlap, no list that a
  run is going to write is too long: `moltpost read` and `archive` write no more than
  they loaded, and `Excess` takes off enough for every `active_max` (`ExcessBounds`).
- `Turns` says for commands that take turns that at most one is under way;
  the next four rest on it and on `PlaceInv`, where each run can stand.
- `NeverLostInTurns` from `KeptInv`: what the running command has loaded, or was
  answered by the broker, is in the list it will write, in a list it will append to the
  archive, or archived; an ack drops only what the file or the archive has.
- `KeptOnce` from `OnceInv`: the lists a command holds have no message in common
  with each other or the archive, and a message that the broker still holds is in
  the batch being saved or in neither file. Without failures an ack
  removes all that was saved, so no batch brings anything twice.
- `RepliedOnce` from `RepliedInv`: a message that has triggered is off the broker.
- `StaysRead` from `ReadInv`: a message that was shown has left the broker, so no
  pull brings an unread copy, and the commands that rewrite the file keep the flag.

`Hints_proofs`

- `HintsFollowMessages` from `StoreInv`: a send past its second call has written
  body and index entry, whether or not they were taken out since, and it makes the
  call for the hint third.
- `OneReadAtMost` from `DelayInv`: a call whose request has waited for one read is
  in front of any other, for the next read is put behind it.
- `NoHintBeforeGroup`: as long as the group is not there, its creation is first on
  the connection or the broker is down and the connection empty.
- `OnlyStopsStrand`, `TypeCorrect` from `BaseInv`, which relates the handlers and the
  poll loop to the commands of theirs on the connection (`CallInv`, `LoopInv`).

`Admission_proofs`

- `DedupQueued` from `StoredFirst`: a send writes its dedup record after its
  message is queued.
- `AnsweredIsDuplicate` from `WindowInv`: a send that was answered 200 has left a
  record that lasts for the window (`Recorded`), and a repetition that arrived
  later has read it or arrived when the window was over (`Repeats`).
- `UnlistedRefused` from `ListInv`: a list that a send has read was stored at some
  moment since the send arrived.
- `CooldownKept` from `CooldownInv`: a sender that takes turns has one send in flight,
  which has read the time that the last admitted one has left (`Charged`, `Spaced`).

`Registration_proofs`, all from `TurnInv`, which says for the one writer that may be
in flight, while they take turns, what it has read and what it has changed already:

- `CurrentTokenOnly`: the old token is off the index before the new record is written.
- `KeysKept`: the old key is in the history before the record gives it up. The history
  lists published keys in the order of their versions, so that what a full one pushes
  out is older than all it keeps.
- `OneKeyPerVersion`: published versions are below the record's, or are it.
- `OwnerHoldsKey`: a registration that is answered registers the pair on disk.

`Groups_proofs`

- `LimitKept`, `OwnerStays` from `SoundInv`: every copy that a request may still
  write back is sound, and a copy a join will write was not full. That is why
  stale writes cannot exceed the limit, nor add anybody to a group seeded beyond it.
- `MembersInvited` from `InvitedInv`: a join that has passed the token check
  carries a minted token though it looks at it no more.
- `TurnsSerial` from `SerialInv`: while nothing overlapped, the only copy that
  will be written is the stored group.
- `TokenUsedOnce` from `SpendInv`: in turns and without failures, the token of a
  join that has added its member is gone when that join is answered, before
  another looks for it, and no invite mints it again.

`GroupSend_proofs`

- `ReachedAudience`, `BroadcastComplete` from `AddressInv`: a send past the policy check
  works from one group value, current while it was in flight, and has still to
  reach exactly the targets it has not reached.
- `DuplicateComplete` from `DedupInv`: a record exists only after a send that
  went through.
- `ReachedOnce` from `OnceInv`: two sends in flight under one `client_msg_id`
  have overlapped; otherwise a send that has reached somebody has either not
  stopped enqueueing or recorded its `client_msg_id`, and nobody enqueues under
  a recorded one. It needs `AddressInv` for the sends that have reached nobody.

`Peers_proofs`

- `StoredBeforeDuplicate` from `StoredInv`: what is marked has been stored.
- `NothingInherited` from `DeletionInv`: no command is between its admission and
  its enqueue while there is no record, so the index stays empty once the
  deletion has removed it.
- `LastAnswerCached`, `SealedByRotation` from `KeyInv`: key pairs are numbered
  upwards (`RecordKeys`); a command whose own lookup named the recipient's last
  key encrypts with it (`SendKeys`); unless the recipient was deleted, a copy of
  its record is not newer than the record (`CopyInv`); and while lookups take
  turns, the last answer is in a command's hand or cached (`TurnInv`).

## 7. What is only model-checked

- Liveness (`AcceptedReachesInbox`, `RecoversToken`, `RequestsAnswered`,
  `HintsDelivered`): the prover does not treat `ENABLED`. Every invariant and every
  action property that a passing run checks is proved, as is the refinement.
- The findings are counterexamples and need no proof.

## 8. What is not modelled, and why

- *Router*: stateless; its `catch` is the failure action of every module.
- *Read-only routes* (peers, group peers, `GET /allowlist`): no state changes.
  `GET /peer` is a step of `Peers`.
- *Federation*: one forwarded request without state here.
- *Cryptography, security scan, audit*: conversions of data that no property
  tells apart. A signature is "fits this key"; a message is its id, or the key
  that opens it. A signature is made over the client's second and verified over
  the broker's (`pull.mjs:110`), so it often does not verify; nothing depends on it.
- *Group commands of the client* (`cmd/group.mjs`): one request each, and a list of
  group ids that only `group list` shows.
- *Provisioning, `admin.mjs` purge and stats*: calls of Wrangler and prefix
  deletion without concurrency control; `delete-user` is in `Registration` and `Peers`.
- *The SQL of the SQLite adapter*: its `get`, `put` and `delete` are atomic calls.
- *`config.json` but for the token, the audit file*: written whole by one command,
  read by no decision.
- *Attachments and body validation*: refusals before any state is touched.
- *Crashed Redis or lost storage*: the code has no provision for either.

Where a model is coarser than the code:

- `Hints!Stop` ends the requests in flight at once. `server.mjs:83-94` lets the server
  close first, which drains them unless the process is killed; the model has the runs
  in which none is drained, or all have ended before.
- `Peers!PostFails` ends the broker's handler with the client's connection. In the code
  the handler goes on, and may overlap the client's retry (`broker.mjs:30-35`); that
  overlap is in `Admission`, not in `Peers`.
- `Mailbox!Keep` saves a batch in one step (`appendMessages`, `storage.mjs:91-126`). What
  two commands do to one file is in `Inbox`.

## 9. Plan

Done, in this order: `Mailbox` and `Delivery`, `Admission`, `Registration`,
`Groups`, `GroupSend`, `Inbox`, `Peers`, `Polling`, `Hints`, and the proofs of all of them.

What would add most to it:

1. A composition of `Mailbox` with `Inbox`, in which the recipient's `inbox` is
   the file, as a refinement of `Delivery` from the sender to the file.
2. Memberships and allowlists of a deleted user (`admin.mjs:420`), as a
   composition of `Groups`, `Admission` and `Registration`.
