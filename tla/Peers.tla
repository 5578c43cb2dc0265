-------------------------------- MODULE Peers --------------------------------
(***************************************************************************)
(* The key a message is encrypted with.  `moltpost send' asks the broker   *)
(* for the recipient's public key, keeps it in peers.json, and falls back  *)
(* to that cache when the broker does not answer (client/scripts/cmd/      *)
(* send.mjs, lib/storage.mjs, lib/broker.mjs; broker/src/routes/peer.js).  *)
(* Meanwhile the recipient may rotate its key pair, of which it keeps the  *)
(* last one only (cmd/register.mjs), or be deleted and register anew.  A   *)
(* message whose key has gone cannot be decrypted: `moltpost pull' keeps   *)
(* its raw payload (cmd/pull.mjs).                                         *)
(*                                                                         *)
(* One sender, whose commands may overlap, and one recipient.  A message   *)
(* and its client_msg_id are named by the command that sends it; key pairs *)
(* are numbered in the order in which the recipient makes them, 0 is none. *)
(* Encryption is the number of the key that opens the message.             *)
(***************************************************************************)
EXTENDS Naturals

CONSTANTS
  Sends,       \* `moltpost send' commands
  Retries,     \* MAX_RETRIES of fetchWithRetry
  MaxKeys,     \* bound: how many key pairs the recipient makes
  MaxDeletions,\* bound: how often an administrator deletes the recipient
  MaxFailures  \* bound: how many calls fail, tokens lapse and rotations break

ASSUME PeersBounds ==
  /\ Retries \in Nat /\ MaxKeys \in Nat \ {0}
  /\ MaxDeletions \in Nat /\ MaxFailures \in Nat

VARIABLES
  record,      \* the recipient's registry record; version 0: there is none
  mailbox,     \* the messages on the recipient's pending index
  marked,      \* the client_msg_ids with a dedup record
  made,        \* key pairs made so far: the last one is on the recipient's disk
  rotating,    \* a register command has saved a key pair and awaits the broker
  deleting,    \* delete-user is between the record and the pending index
  cache,       \* the recipient's entry in the sender's peers.json
  token,       \* the sender's access token authenticates
  pc,          \* where each send command stands
  answer,      \* the record that GET /peer has returned to it
  key,         \* the key it encrypts with
  tries,       \* failed attempts of its POST /send
  renewed,     \* the commands that have registered anew after a 401
  stored,      \* the commands whose message has been enqueued
  sealed,      \* the messages saved as their raw payload
  current,     \* history: sends whose last answered lookup, be it their own or
               \* an earlier one, named the key pair the recipient still has
  latest,      \* history: the same for the last answered lookup of all
  direct,      \* history: sends whose own lookup was answered
  inherited,   \* history: messages admitted under an earlier registration
  deletions,   \* how often the recipient's record was deleted
  overlapped,  \* history: two lookups were in flight at once
  crossed,     \* history: a deletion stopped or met a send or a registration
  failures

recipient == <<made, rotating, sealed>>
broker == <<record, mailbox, marked, deleting>>
sender == <<cache, token>>
command == <<pc, answer, key, tries, renewed, stored>>
observed == <<current, latest, direct, inherited, overlapped, crossed>>
vars == <<recipient, broker, sender, command, observed, deletions, failures>>

NoRecord == [key |-> 0, version |-> 0]
Exists(rec) == rec.version # 0
Absent == [key |-> 0, version |-> 0, fresh |-> FALSE]

\* The recipient registers once before the model starts.
Init ==
  /\ record = [key |-> 1, version |-> 1]
  /\ made = 1
  /\ rotating = FALSE
  /\ sealed = {}
  /\ mailbox = {} /\ marked = {} /\ deleting = FALSE
  /\ cache = Absent /\ token = TRUE
  /\ pc = [s \in Sends |-> "new"]
  /\ answer = [s \in Sends |-> NoRecord]
  /\ key = [s \in Sends |-> 0]
  /\ tries = [s \in Sends |-> 0]
  /\ renewed = {} /\ stored = {}
  /\ current = {} /\ latest = FALSE /\ direct = {} /\ inherited = {}
  /\ overlapped = FALSE /\ crossed = FALSE
  /\ deletions = 0 /\ failures = 0

Goto(s, from, to) ==
  /\ pc[s] = from
  /\ pc' = [pc EXCEPT ![s] = to]

Fault == failures < MaxFailures /\ failures' = failures + 1

(***************************************************************************)
(* cmdSend, the key: GET /peer, then peers.json.                           *)
(***************************************************************************)

\* Fault: whatever is cached will do.
CachedKeyIgnoringVersion(known) == IF cache.fresh THEN cache.key ELSE 0

\* getPeerPubkey; known is 0 for a caller that names no version.
CachedKey(known) == IF cache.fresh /\ cache.version >= known THEN cache.key ELSE 0

LookingUp(s) == pc[s] \in {"found", "refresh", "fallback"}
NoteLookup(s) == overlapped' = (overlapped \/ \E t \in Sends \ {s} : LookingUp(t))

\* handlePeer answers with the record, which may have changed when the
\* command goes on.
LookupAnswered(s) ==
  /\ token /\ Exists(record)
  /\ Goto(s, "new", "found")
  /\ answer' = [answer EXCEPT ![s] = record]
  /\ latest' = (record.key = made)
  /\ current' = IF latest' THEN current \cup {s} ELSE current
  /\ direct' = direct \cup {s}
  /\ NoteLookup(s)
  /\ UNCHANGED <<recipient, broker, sender, key, tries, renewed, stored, inherited, crossed, deletions,
                 failures>>

\* 404: the recipient is not registered, and the command gives up.
LookupUnknown(s) ==
  /\ token /\ ~Exists(record)
  /\ Goto(s, "new", "nokey")
  /\ UNCHANGED <<recipient, broker, sender, answer, key, tries, renewed, stored, observed,
                 deletions, failures>>

\* Every other status: four attempts have met a 5xx, or the token is refused,
\* which cmdSend does not tell apart.
LookupRefused(s) ==
  /\ IF token THEN Fault ELSE UNCHANGED failures
  /\ Goto(s, "new", "fallback")
  /\ current' = IF latest THEN current \cup {s} ELSE current
  /\ NoteLookup(s)
  /\ UNCHANGED <<recipient, broker, sender, answer, key, tries, renewed, stored, latest, direct,
                 inherited, crossed, deletions>>

\* Fault: a cached key is preferred to the one just received.
UseCachedAnswer(s) ==
  /\ Goto(s, "found", IF CachedKey(0) = 0 THEN "refresh" ELSE "post")
  /\ key' = [key EXCEPT ![s] = IF CachedKey(0) = 0 THEN answer[s].key ELSE CachedKey(0)]
  /\ UNCHANGED <<recipient, broker, sender, answer, tries, renewed, stored, observed, deletions,
                 failures>>

UseAnswer(s) ==
  /\ Goto(s, "found", IF CachedKey(answer[s].version) = 0 THEN "refresh" ELSE "post")
  /\ key' = [key EXCEPT ![s] = answer[s].key]
  /\ answer' = IF pc'[s] = "post" THEN [answer EXCEPT ![s] = NoRecord] ELSE answer
  /\ UNCHANGED <<recipient, broker, sender, tries, renewed, stored, observed, deletions, failures>>

\* updatePeersCache
Refresh(s) ==
  /\ Goto(s, "refresh", "post")
  /\ cache' = [key |-> answer[s].key, version |-> answer[s].version, fresh |-> TRUE]
  /\ answer' = [answer EXCEPT ![s] = NoRecord]
  /\ UNCHANGED <<recipient, broker, token, key, tries, renewed, stored, observed, deletions, failures>>

UseCache(s) ==
  /\ Goto(s, "fallback", IF CachedKey(0) = 0 THEN "nokey" ELSE "post")
  /\ key' = [key EXCEPT ![s] = CachedKey(0)]
  /\ UNCHANGED <<recipient, broker, sender, answer, tries, renewed, stored, observed, deletions,
                 failures>>

\* An hour has passed since cached_at.
CacheEnds ==
  /\ cache.fresh
  /\ cache' = [cache EXCEPT !.fresh = FALSE]
  /\ UNCHANGED <<recipient, broker, token, command, observed, deletions, failures>>

(***************************************************************************)
(* cmdSend, the message: POST /send, repeated by fetchWithRetry after a    *)
(* 5xx or a broken connection, and once more after a 401 and a signed      *)
(* registration.                                                           *)
(***************************************************************************)

Admit(s) ==
  /\ Goto(s, "post", IF ~token THEN IF s \in renewed THEN "failed" ELSE "recover"
                     ELSE IF ~Exists(record) THEN "unknown"
                     ELSE IF s \in marked THEN "duplicate" ELSE "admitted")
  /\ crossed' = (crossed \/ deleting)
  /\ UNCHANGED <<recipient, broker, sender, answer, key, tries, renewed, stored, current, latest,
                 direct, inherited, overlapped, deletions, failures>>

\* Fault: handleSend writes the dedup record before it stores the message.
EnqueueLast(s) ==
  /\ IF s \in marked
     THEN /\ Goto(s, "admitted", "answered")
          /\ mailbox' = mailbox \cup {s}
          /\ stored' = stored \cup {s}
          /\ UNCHANGED marked
     ELSE /\ pc[s] = "admitted"
          /\ marked' = marked \cup {s}
          /\ UNCHANGED <<pc, mailbox, stored>>
  /\ UNCHANGED <<recipient, record, deleting, sender, answer, key, tries, renewed, observed,
                 deletions, failures>>

Enqueue(s) ==
  /\ Goto(s, "admitted", "queued")
  /\ mailbox' = mailbox \cup {s}
  /\ stored' = stored \cup {s}
  /\ UNCHANGED <<recipient, record, marked, deleting, sender, answer, key, tries, renewed,
                 observed, deletions, failures>>

MarkDedup(s) ==
  /\ Goto(s, "queued", "answered")
  /\ marked' = marked \cup {s}
  /\ UNCHANGED <<recipient, record, mailbox, deleting, sender, answer, key, tries, renewed, stored,
                 observed, deletions, failures>>

Report(s) ==
  /\ Goto(s, "answered", "sent")
  /\ UNCHANGED <<recipient, broker, sender, answer, key, tries, renewed, stored, observed,
                 deletions, failures>>

\* The request is lost, a storage call throws, or the answer is lost.
PostFails(s) ==
  /\ Fault
  /\ pc[s] \in {"post", "admitted", "queued", "answered"}
  /\ pc' = [pc EXCEPT ![s] = IF tries[s] < Retries THEN "post" ELSE "failed"]
  /\ tries' = [tries EXCEPT ![s] = @ + 1]
  /\ UNCHANGED <<recipient, broker, sender, answer, key, renewed, stored, observed, deletions>>

\* reregisterWithSignature, patchConfig, and a new client with new retries.
Recover(s) ==
  /\ Goto(s, "recover", "post")
  /\ token' = TRUE
  /\ renewed' = renewed \cup {s}
  /\ tries' = [tries EXCEPT ![s] = 0]
  /\ UNCHANGED <<recipient, broker, cache, answer, key, stored, observed, deletions, failures>>

RecoverFails(s) ==
  /\ Fault
  /\ Goto(s, "recover", "failed")
  /\ UNCHANGED <<recipient, broker, sender, answer, key, tries, renewed, stored, observed, deletions>>

\* The sender was deleted, or lost the answer of its last registration.
TokenLapses ==
  /\ Fault
  /\ token /\ token' = FALSE
  /\ UNCHANGED <<recipient, broker, cache, command, observed, deletions>>

(***************************************************************************)
(* The recipient: register and pull; an administrator: delete-user.        *)
(***************************************************************************)

\* cmdRegister overwrites the key pair on disk and only then asks the broker.
SaveKeyPair ==
  /\ ~rotating /\ made < MaxKeys
  /\ rotating' = TRUE
  /\ made' = made + 1
  /\ current' = {} /\ latest' = FALSE
  /\ UNCHANGED <<sealed, broker, sender, command, direct, inherited, overlapped, crossed,
                 deletions, failures>>

NextVersion == record.version + 1

\* handleRegister accepts.
Register ==
  /\ rotating /\ rotating' = FALSE
  /\ record' = [key |-> made, version |-> NextVersion]
  /\ inherited' = IF Exists(record) THEN inherited ELSE mailbox
  /\ crossed' = (crossed \/ deleting)
  /\ UNCHANGED <<made, sealed, mailbox, marked, deleting, sender, command, current, latest,
                 direct, overlapped, deletions, failures>>

\* The broker refuses, or does not answer: the key pair on disk stays the new one.
RegisterFails ==
  /\ Fault
  /\ rotating /\ rotating' = FALSE
  /\ UNCHANGED <<made, sealed, broker, sender, command, observed, deletions>>

\* decrypt(privkey, msg.data) does not throw.
Openable(s) == key[s] = made

\* cmdPull: readPrivateKey, decrypt, appendMessages, ack.
Pull ==
  /\ mailbox # {} /\ mailbox' = {}
  /\ sealed' = sealed \cup {s \in mailbox : ~Openable(s)}
  /\ UNCHANGED <<made, rotating, record, marked, deleting, sender, command, observed, deletions,
                 failures>>

DeleteRecord ==
  /\ ~deleting /\ deleting' = TRUE
  /\ deletions < MaxDeletions /\ deletions' = deletions + 1
  /\ Exists(record)
  /\ record' = NoRecord
  /\ crossed' = (crossed \/ \E s \in Sends : pc[s] \in {"admitted", "queued"})
  /\ UNCHANGED <<recipient, mailbox, marked, sender, command, current, latest, direct, inherited,
                 overlapped, failures>>

\* Fault: the pending index is left to the next registration.
DeleteNoIndex ==
  /\ deleting /\ deleting' = FALSE
  /\ UNCHANGED <<recipient, record, mailbox, marked, sender, command, observed, deletions, failures>>

DeleteIndex ==
  /\ deleting /\ deleting' = FALSE
  /\ mailbox' = {}
  /\ UNCHANGED <<recipient, record, marked, sender, command, observed, deletions, failures>>

\* A second run finds no record and stops there: the index stays.
DeletionStops ==
  /\ Fault
  /\ deleting /\ deleting' = FALSE
  /\ crossed' = TRUE
  /\ UNCHANGED <<recipient, record, mailbox, marked, sender, command, current, latest, direct,
                 inherited, overlapped, deletions>>

(***************************************************************************)
(* The specification.                                                      *)
(***************************************************************************)

SendStep(s) ==
  \/ LookupAnswered(s) \/ LookupUnknown(s) \/ LookupRefused(s)
  \/ UseAnswer(s) \/ Refresh(s) \/ UseCache(s)
  \/ Admit(s) \/ Enqueue(s) \/ MarkDedup(s) \/ Report(s) \/ PostFails(s) \/ Recover(s) \/ RecoverFails(s)

RecipientStep == SaveKeyPair \/ Register \/ RegisterFails \/ Pull

DeletionStep == DeleteRecord \/ DeleteIndex \/ DeletionStops

Next == (\E s \in Sends : SendStep(s)) \/ RecipientStep \/ DeletionStep \/ CacheEnds \/ TokenLapses

Spec == Init /\ [][Next]_vars

(***************************************************************************)
(* Properties.                                                             *)
(***************************************************************************)

Version == [key : Nat, version : Nat]

\* Every variable stays in its range.
TypeOK ==
  /\ record \in Version /\ answer \in [Sends -> Version]
  /\ cache \in [key : Nat, version : Nat, fresh : BOOLEAN]
  /\ mailbox \subseteq Sends /\ marked \subseteq Sends
  /\ sealed \subseteq Sends /\ stored \subseteq Sends /\ renewed \subseteq Sends
  /\ current \subseteq Sends /\ direct \subseteq Sends /\ inherited \subseteq Sends
  /\ rotating \in BOOLEAN /\ deleting \in BOOLEAN /\ token \in BOOLEAN
  /\ latest \in BOOLEAN /\ overlapped \in BOOLEAN /\ crossed \in BOOLEAN
  /\ pc \in [Sends -> {"new", "found", "refresh", "fallback", "post", "recover", "admitted", "queued",
                       "answered", "sent", "nokey", "unknown", "duplicate", "failed"}]
  /\ key \in [Sends -> Nat] /\ tries \in [Sends -> Nat]
  /\ made \in Nat /\ deletions \in Nat /\ failures \in Nat

\* The recipient's versions may have started again.
Reborn == deletions > 0

\* A message is lost to its reader only because the recipient replaced its key
\* pair after the last lookup that was answered before the message was
\* encrypted, or had replaced it without the broker knowing.  A command that
\* falls back to peers.json may rely on it while no two lookups overlap and no
\* deleted recipient starts again at version 1.
SealedOnlyByRotation ==
  \A s \in sealed \cap current : s \notin direct /\ (overlapped \/ Reborn)

\* As long as lookups take turns and versions grow, peers.json has the key of
\* the last answer, though not every answer is written to it.
CacheHoldsLastAnswer ==
  latest /\ ~overlapped /\ ~Reborn /\ (\A s \in Sends : ~LookingUp(s)) => cache.key = made

\* A command that is told its message is a duplicate, because a retry met the
\* dedup record of an attempt that failed late, has had its message stored.
DuplicateWasStored == \A s \in Sends : pc[s] = "duplicate" => s \in stored

\* Who registers a deleted name finds no message for the one who had it, unless
\* the deletion stopped part way or met a send or a registration.
InheritsNothing ==
  Exists(record) /\ ~crossed => mailbox \cap inherited = {}

=============================================================================
