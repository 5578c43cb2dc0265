---------------------------- MODULE Registration ----------------------------
(***************************************************************************)
(* The identity of one ClawID: its registry record, the index of valid     *)
(* access tokens and the history of public keys at the broker              *)
(* (broker/src/routes/register.js, middleware/auth.js, lib/kv.js), and the *)
(* key pair and token its owner keeps in files (client/scripts/cmd).       *)
(*                                                                         *)
(* The record is written by three kinds of actor that know nothing of each *)
(* other: POST /register, the background last_seen update that /send and   *)
(* /pull hand to waitUntil, and `admin.mjs delete-user'.  Each reads the   *)
(* record, and writes it some awaits later.                                *)
(*                                                                         *)
(* A request's new access token and a CLI run's new key pair are named by  *)
(* the request.                                                            *)
(***************************************************************************)
EXTENDS Naturals, Sequences

CONSTANTS
  Requests,    \* POST /register requests
  Kind,        \* "fresh": moltpost register; "force": with --force;
               \* "recover": the signed re-registration after a 401
  Updates,     \* background last_seen updates
  Deletions,   \* runs of admin.mjs delete-user
  SerialOwner, \* the owner never runs two of these commands at once
  None,        \* no key, no token
  HistoryMax,  \* how many entries the key history keeps, 10 in the code
  MaxFailures  \* bound: how many requests stop part way

ASSUME KindAssumption == Kind \in [Requests -> {"fresh", "force", "recover"}]
ASSUME SerialAssumption == SerialOwner \in BOOLEAN
ASSUME NoneAssumption == None \notin Requests
ASSUME HistoryAssumption == HistoryMax \in Nat \ {0}
ASSUME BoundAssumption == MaxFailures \in Nat

VARIABLES
  record,      \* registry:{clawid}; version 0 means there is none
  tokens,      \* the tokens with a token:{access_token} key
  history,     \* pubkey_history:{clawid}, the newest entry last
  localKey,    \* the key pair in the owner's keys directory
  config,      \* access_token in the owner's config.json
  pc,          \* where each register request stands
  key,         \* the public key a request registers
  bearer,      \* its Authorization token
  signer,      \* the key that signed its X-Force-Challenge
  old,         \* the record it has read (existing)
  oldHistory,  \* the history it has read
  status,      \* HTTP status of its answer, 0 before
  upc, ucopy,  \* where each last_seen update stands, and the record it read
  dpc, dcopy,  \* the same for each deletion
  published,   \* history variable: versions and keys the record has had
  overlapped,  \* history variable: two writers of the record were in flight
  failures

broker == <<record, tokens, history>>
owner == <<localKey, config>>
request == <<pc, key, bearer, signer, old, oldHistory, status>>
others == <<upc, ucopy, dpc, dcopy>>
observed == <<published, overlapped>>
vars == <<broker, owner, request, others, observed, failures>>

NoRecord == [key |-> None, token |-> None, version |-> 0]
Exists(rec) == rec.version # 0

\* What the history keeps of a record.
Entry(rec) == [version |-> rec.version, key |-> rec.key]

Init ==
  /\ record = NoRecord
  /\ tokens = {}
  /\ history = <<>>
  /\ localKey = None
  /\ config = None
  /\ pc = [r \in Requests |-> "new"]
  /\ key = [r \in Requests |-> None]
  /\ bearer = [r \in Requests |-> None]
  /\ signer = [r \in Requests |-> None]
  /\ old = [r \in Requests |-> NoRecord]
  /\ oldHistory = [r \in Requests |-> <<>>]
  /\ status = [r \in Requests |-> 0]
  /\ upc = [u \in Updates |-> "idle"]
  /\ ucopy = [u \in Updates |-> NoRecord]
  /\ dpc = [d \in Deletions |-> "new"]
  /\ dcopy = [d \in Deletions |-> NoRecord]
  /\ published = {}
  /\ overlapped = FALSE
  /\ failures = 0

Goto(r, from, to) ==
  /\ pc[r] = from
  /\ pc' = [pc EXCEPT ![r] = to]

InFlight(r) == pc[r] \notin {"new", "done"}

\* Some other actor is between its read and its write of the record.
Busy ==
  \/ \E r \in Requests : InFlight(r)
  \/ \E u \in Updates : upc[u] # "idle"
  \/ \E d \in Deletions : dpc[d] \notin {"new", "done"}

\* authenticate: the token is on the index.
Authenticates(t) == t \in tokens

MayRun == SerialOwner => \A r \in Requests : ~InFlight(r)

NoteOverlap == overlapped' = (overlapped \/ Busy)

Finish(r, code) ==
  /\ pc' = [pc EXCEPT ![r] = "done"]
  /\ status' = [status EXCEPT ![r] = code]

(***************************************************************************)
(* The owner's CLI.                                                        *)
(***************************************************************************)

\* cmdRegister: the new key pair is written to disk before the broker is asked;
\* --force adds the header and the token of config.json, if there is one.
RunRegister(r) ==
  /\ Kind[r] # "recover"
  /\ Kind[r] = "fresh" => localKey = None
  /\ MayRun
  /\ Goto(r, "new", "sent")
  /\ localKey' = r
  /\ key' = [key EXCEPT ![r] = r]
  /\ bearer' = [bearer EXCEPT ![r] = IF Kind[r] = "force" THEN config ELSE None]
  /\ NoteOverlap
  /\ UNCHANGED <<broker, config, signer, old, oldHistory, status, others, published, failures>>

\* reregisterWithSignature: no token, but a challenge signed with the local key.
SignChallenge(r) == signer' = [signer EXCEPT ![r] = localKey]

\* Fault: the recovery makes a new key pair and saves it before it is accepted.
RunRecoverWithNewKey(r) ==
  /\ Kind[r] = "recover"
  /\ config # None
  /\ ~Authenticates(config)
  /\ MayRun
  /\ Goto(r, "new", "sent")
  /\ localKey' = r
  /\ key' = [key EXCEPT ![r] = r]
  /\ SignChallenge(r)
  /\ NoteOverlap
  /\ UNCHANGED <<broker, config, bearer, old, oldHistory, status, others, published, failures>>

\* cmdPull, cmdSend: the broker answered 401 to the token of config.json, so
\* the current key is registered again under a signature of its own.
RunRecover(r) ==
  /\ Kind[r] = "recover"
  /\ config # None
  /\ ~Authenticates(config)
  /\ MayRun
  /\ Goto(r, "new", "sent")
  /\ key' = [key EXCEPT ![r] = localKey]
  /\ SignChallenge(r)
  /\ NoteOverlap
  /\ UNCHANGED <<broker, owner, bearer, old, oldHistory, status, others, published, failures>>

(***************************************************************************)
(* handleRegister.                                                         *)
(***************************************************************************)

ReadRecord(r) ==
  /\ pc[r] = "sent"
  /\ old' = [old EXCEPT ![r] = record]
  /\ IF Exists(record) /\ Kind[r] = "fresh"
     THEN Finish(r, 409)
     ELSE /\ pc' = [pc EXCEPT ![r] = IF Exists(record) THEN "auth" ELSE "write"]
          /\ UNCHANGED status
  /\ UNCHANGED <<broker, owner, key, bearer, signer, oldHistory, others, observed, failures>>

\* Fault: the signature is no alternative to the token.
AuthorisedByTokenOnly(r) == Authenticates(bearer[r])

\* The challenge is fresh: a CLI signs it when it sends it.
Authorised(r) == Authenticates(bearer[r]) \/ signer[r] = old[r].key

Authenticate(r) ==
  /\ pc[r] = "auth"
  /\ IF Authorised(r)
     THEN pc' = [pc EXCEPT ![r] = "history"] /\ UNCHANGED status
     ELSE Finish(r, 401)
  /\ UNCHANGED <<broker, owner, key, bearer, signer, old, oldHistory, others, observed, failures>>

\* appendPubkeyHistory.
ReadHistory(r) ==
  /\ Goto(r, "history", "rotate")
  /\ oldHistory' = [oldHistory EXCEPT ![r] = history]
  /\ UNCHANGED <<broker, owner, key, bearer, signer, old, status, others, observed, failures>>

\* history.slice(-HistoryMax)
Latest(h) == SubSeq(h, IF Len(h) > HistoryMax THEN Len(h) - HistoryMax + 1 ELSE 1, Len(h))

\* Fault: the list is cut at the wrong end.
WriteHistoryOldest(r) ==
  /\ Goto(r, "rotate", "revoke")
  /\ LET h == Append(oldHistory[r], Entry(old[r])) IN
     history' = SubSeq(h, 1, IF Len(h) > HistoryMax THEN HistoryMax ELSE Len(h))
  /\ UNCHANGED <<record, tokens, owner, key, bearer, signer, old, oldHistory, status, others, observed, failures>>

\* The key is pushed, and what is then too long loses its oldest entries.
WriteHistory(r) ==
  /\ Goto(r, "rotate", "revoke")
  /\ history' = Latest(Append(oldHistory[r], Entry(old[r])))
  /\ UNCHANGED <<record, tokens, owner, key, bearer, signer, old, oldHistory, status, others, observed, failures>>

\* Fault: the old token stays valid.
RevokeNothing(r) ==
  /\ Goto(r, "revoke", "write")
  /\ UNCHANGED <<broker, owner, key, bearer, signer, old, oldHistory, status, others, observed, failures>>

RevokeToken(r) ==
  /\ Goto(r, "revoke", "write")
  /\ tokens' = tokens \ {old[r].token}
  /\ UNCHANGED <<record, history, owner, key, bearer, signer, old, oldHistory, status, others, observed, failures>>

\* Fault: the version is not carried over.
NewRecordVersionOne(r) == [key |-> key[r], token |-> r, version |-> 1]

NewRecord(r) == [key |-> key[r], token |-> r, version |-> old[r].version + 1]

WriteRecord(r) ==
  /\ Goto(r, "write", "index")
  /\ record' = NewRecord(r)
  /\ published' = published \cup {Entry(NewRecord(r))}
  /\ UNCHANGED <<tokens, history, owner, key, bearer, signer, old, oldHistory, status, others,
                 overlapped, failures>>

IndexToken(r) ==
  /\ Goto(r, "index", "answer")
  /\ tokens' = tokens \cup {r}
  /\ UNCHANGED <<record, history, owner, key, bearer, signer, old, oldHistory, status, others, observed, failures>>

\* The 200 arrives and the CLI writes the token to config.json.
Answer(r) ==
  /\ pc[r] = "answer"
  /\ Finish(r, 200)
  /\ config' = r
  /\ UNCHANGED <<broker, localKey, key, bearer, signer, old, oldHistory, others, observed, failures>>

\* A storage call throws, the broker stops, or the answer is lost.
Fail(r) ==
  /\ failures < MaxFailures
  /\ InFlight(r)
  /\ Finish(r, 500)
  /\ failures' = failures + 1
  /\ UNCHANGED <<broker, owner, key, bearer, signer, old, oldHistory, others, observed>>

(***************************************************************************)
(* waitUntil(getRegistry(...).then(put { ...record, last_seen })): the     *)
(* whole record is written back.  Only a request that has authenticated    *)
(* starts one, so the owner has had a token.                               *)
(***************************************************************************)

UpdateRead(u) ==
  /\ upc[u] = "idle"
  /\ config # None
  /\ Exists(record)
  /\ upc' = [upc EXCEPT ![u] = "read"]
  /\ ucopy' = [ucopy EXCEPT ![u] = record]
  /\ NoteOverlap
  /\ UNCHANGED <<broker, owner, request, dpc, dcopy, published, failures>>

UpdateWrite(u) ==
  /\ upc[u] = "read"
  /\ upc' = [upc EXCEPT ![u] = "idle"]
  /\ ucopy' = [ucopy EXCEPT ![u] = NoRecord]
  /\ record' = ucopy[u]
  /\ UNCHANGED <<tokens, history, owner, request, dpc, dcopy, observed, failures>>

(***************************************************************************)
(* cmdDeleteUser: token, record, key history, one call each.  It ends with *)
(* the pending index, which is not part of the identity.                   *)
(***************************************************************************)

DeleteStep(d, from, to) ==
  /\ dpc[d] = from
  /\ dpc' = [dpc EXCEPT ![d] = to]
  /\ UNCHANGED <<owner, request, upc, ucopy, failures>>

DeleteRead(d) ==
  /\ DeleteStep(d, "new", "token")
  /\ Exists(record)
  /\ dcopy' = [dcopy EXCEPT ![d] = record]
  /\ NoteOverlap
  /\ UNCHANGED <<broker, published>>

DeleteToken(d) ==
  /\ DeleteStep(d, "token", "record")
  /\ tokens' = tokens \ {dcopy[d].token}
  /\ UNCHANGED <<record, history, dcopy, published, overlapped>>

DeleteRecord(d) ==
  /\ DeleteStep(d, "record", "history")
  /\ record' = NoRecord
  /\ published' = {}
  /\ UNCHANGED <<tokens, history, dcopy, overlapped>>

DeleteHistory(d) ==
  /\ DeleteStep(d, "history", "done")
  /\ history' = <<>>
  /\ UNCHANGED <<record, tokens, dcopy, published, overlapped>>

(***************************************************************************)
(* The specification.                                                      *)
(***************************************************************************)

RegisterStep(r) ==
  \/ ReadRecord(r) \/ Authenticate(r) \/ ReadHistory(r) \/ WriteHistory(r)
  \/ RevokeToken(r) \/ WriteRecord(r) \/ IndexToken(r) \/ Answer(r)

UpdateStep(u) == UpdateRead(u) \/ UpdateWrite(u)

DeletionStep(d) == DeleteRead(d) \/ DeleteToken(d) \/ DeleteRecord(d) \/ DeleteHistory(d)

Next ==
  \/ \E r \in Requests : RunRegister(r) \/ RunRecover(r) \/ RegisterStep(r) \/ Fail(r)
  \/ \E u \in Updates : UpdateStep(u)
  \/ \E d \in Deletions : DeletionStep(d)

Spec == Init /\ [][Next]_vars

\* A handler runs to its end, a deletion that has begun too, and a heartbeat
\* whose pull is answered 401 tries to recover.
Fairness ==
  /\ \A r \in Requests : WF_vars(RegisterStep(r)) /\ WF_vars(RunRecover(r))
  /\ \A u \in Updates : WF_vars(UpdateWrite(u))
  /\ \A d \in Deletions : WF_vars(DeleteToken(d) \/ DeleteRecord(d) \/ DeleteHistory(d))

FairSpec == Spec /\ Fairness

(***************************************************************************)
(* Properties.                                                             *)
(***************************************************************************)

Key == Requests \cup {None}
Record == [key : Key, token : Key, version : Nat]
Entries == [version : Nat, key : Key]

\* Every variable stays in its range.
TypeOK ==
  /\ record \in Record
  /\ tokens \subseteq Requests
  /\ history \in Seq(Entries)
  /\ localKey \in Key
  /\ config \in Key
  /\ pc \in [Requests -> {"new", "sent", "auth", "history", "rotate", "revoke", "write",
                          "index", "answer", "done"}]
  /\ key \in [Requests -> Key]
  /\ bearer \in [Requests -> Key]
  /\ signer \in [Requests -> Key]
  /\ old \in [Requests -> Record]
  /\ oldHistory \in [Requests -> Seq(Entries)]
  /\ status \in [Requests -> {0, 200, 401, 409, 500}]
  /\ upc \in [Updates -> {"idle", "read"}]
  /\ ucopy \in [Updates -> Record]
  /\ dpc \in [Deletions -> {"new", "token", "record", "history", "done"}]
  /\ dcopy \in [Deletions -> Record]
  /\ published \subseteq Entries
  /\ overlapped \in BOOLEAN
  /\ failures \in Nat

\* As long as the writers of the record take turns, the only token that
\* authenticates is the one in the record, whichever of them stopped part way.
OnlyCurrentTokenValid == ~overlapped => tokens \subseteq {record.token}

Listed(e) == \E i \in DOMAIN history : history[i] = e

\* The history is full of entries that are all newer than e.
PushedOut(e) ==
  Len(history) = HistoryMax /\ \A i \in DOMAIN history : history[i].version > e.version

\* As long as they take turns, every key the record has had is its key, or in
\* the history, or was pushed out of it: no rotation, complete or not, loses a
\* key before HistoryMax newer entries are there.
KeysRetained ==
  ~overlapped => \A e \in published : e = Entry(record) \/ Listed(e) \/ PushedOut(e)

\* As long as they take turns, a version names one key: a peer that has cached
\* a version never mistakes another key for it.
VersionNamesOneKey ==
  ~overlapped => \A p, q \in published : p.version = q.version => p.key = q.key

\* No --force run ended without a 200: such a run has replaced the key pair on
\* disk by one the broker does not know.
NoBrokenRotation ==
  \A r \in Requests : Kind[r] = "force" => pc[r] = "new" \/ status[r] = 200

\* An owner with a config.json can always sign for the registered key, so a
\* token lost to a failed recovery, to a deletion or to a lost answer can be
\* replaced without help, as long as no rotation broke.
OwnerHoldsRegisteredKey ==
  ~overlapped /\ NoBrokenRotation /\ config # None /\ Exists(record) => record.key = localKey

\* Every forced registration was answered 200, and none met another writer.
RotationsHeld ==
  /\ NoBrokenRotation
  /\ overlapped => \A r \in Requests : Kind[r] = "force" => pc[r] = "new"

\* An owner with a config.json ends up with a token that authenticates, whatever
\* failed, was deleted or was written back, as long as its rotations held.
RecoversToken == config # None ~> config \in tokens \/ ~RotationsHeld

\* When the last writer is done, the record has the key of the last rotation.
NewKeyIsStored ==
  ~Busy /\ config # None /\ NoBrokenRotation => record.key = localKey

=============================================================================
