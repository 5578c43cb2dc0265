------------------------------ MODULE Peers_proofs ------------------------------
(***************************************************************************)
(* Theorems about the key a message is encrypted with, for any commands,   *)
(* retries, rotations, deletions and failures.                             *)
(***************************************************************************)
EXTENDS Peers, TLAPS

(***************************************************************************)
(* Type correctness.                                                       *)
(***************************************************************************)

LEMMA NoRecordType == NoRecord \in Version /\ NoRecord.key = 0 /\ NoRecord.version = 0
BY DEF NoRecord, Version

LEMMA TypeInit == Init => TypeOK
<1>. SUFFICES ASSUME Init PROVE TypeOK
  OBVIOUS
<1>1. answer \in [Sends -> Version] /\ record \in Version
  BY NoRecordType DEF Init, Version
<1>2. cache \in [key : Nat, version : Nat, fresh : BOOLEAN]
  BY DEF Init, Absent
<1>. QED
  BY <1>1, <1>2 DEF Init, TypeOK

LEMMA CachedKeyType == ASSUME TypeOK, NEW known PROVE CachedKey(known) \in Nat
BY DEF TypeOK, CachedKey

LEMMA TypeLookup ==
  ASSUME TypeOK, NEW s \in Sends, LookupAnswered(s) \/ LookupUnknown(s) \/ LookupRefused(s)
  PROVE  TypeOK'
<1>. USE DEF TypeOK, Goto, Fault, NoteLookup, LookingUp, recipient, broker, sender, command, observed
<1>1. CASE LookupAnswered(s)
  BY <1>1 DEF LookupAnswered
<1>2. CASE LookupUnknown(s)
  BY <1>2 DEF LookupUnknown
<1>3. CASE LookupRefused(s)
  BY <1>3 DEF LookupRefused
<1>. QED
  BY <1>1, <1>2, <1>3

LEMMA TypeKey ==
  ASSUME TypeOK, NEW s \in Sends, UseAnswer(s) \/ Refresh(s) \/ UseCache(s) \/ CacheEnds
  PROVE  TypeOK'
<1>. USE CachedKeyType, NoRecordType
     DEF TypeOK, Goto, Version, recipient, broker, sender, command, observed
<1>1. CASE UseAnswer(s)
  BY <1>1 DEF UseAnswer
<1>2. CASE Refresh(s)
  BY <1>2 DEF Refresh
<1>3. CASE UseCache(s)
  BY <1>3 DEF UseCache
<1>4. CASE CacheEnds
  BY <1>4 DEF CacheEnds
<1>. QED
  BY <1>1, <1>2, <1>3, <1>4

LEMMA TypePost ==
  ASSUME TypeOK, NEW s \in Sends,
         \/ Admit(s) \/ Enqueue(s) \/ MarkDedup(s) \/ Report(s) \/ PostFails(s) \/ Recover(s)
         \/ RecoverFails(s)
  PROVE  TypeOK'
<1>. USE DEF TypeOK, Goto, Fault, recipient, broker, sender, command, observed
<1>1. CASE Admit(s)
  BY <1>1 DEF Admit
<1>2. CASE Enqueue(s)
  BY <1>2 DEF Enqueue
<1>3. CASE MarkDedup(s)
  BY <1>3 DEF MarkDedup
<1>4. CASE Report(s)
  BY <1>4 DEF Report
<1>5. CASE PostFails(s)
  BY <1>5 DEF PostFails
<1>6. CASE Recover(s)
  BY <1>6 DEF Recover
<1>7. CASE RecoverFails(s)
  BY <1>7 DEF RecoverFails
<1>. QED
  BY <1>1, <1>2, <1>3, <1>4, <1>5, <1>6, <1>7

LEMMA Counts == ASSUME TypeOK PROVE Fault => failures' \in Nat
BY DEF TypeOK, Fault

LEMMA TypeRecipient ==
  ASSUME TypeOK, RecipientStep \/ DeletionStep \/ TokenLapses PROVE TypeOK'
<1>. USE NoRecordType, Counts DEF TypeOK, recipient, broker, sender, command, observed
<1>1. CASE SaveKeyPair
  <2>1. made' \in Nat
    BY <1>1 DEF SaveKeyPair
  <2>. QED
    BY <1>1, <2>1, Zenon DEF SaveKeyPair
<1>2. CASE Register
  <2>1. record' \in Version
    BY <1>2 DEF Register, NextVersion, Version
  <2>. QED
    BY <1>2, <2>1, Zenon DEF Register
<1>3. CASE RegisterFails
  BY <1>3, Zenon DEF RegisterFails
<1>4. CASE Pull
  BY <1>4 DEF Pull
<1>5. CASE DeleteRecord
  BY <1>5 DEF DeleteRecord
<1>6. CASE DeleteIndex
  BY <1>6 DEF DeleteIndex
<1>7. CASE DeletionStops
  BY <1>7, Zenon DEF DeletionStops
<1>8. CASE TokenLapses
  BY <1>8, Zenon DEF TokenLapses
<1>. QED
  BY <1>1, <1>2, <1>3, <1>4, <1>5, <1>6, <1>7, <1>8 DEF RecipientStep, DeletionStep

LEMMA TypeNext == TypeOK /\ [Next]_vars => TypeOK'
<1>. SUFFICES ASSUME TypeOK, [Next]_vars PROVE TypeOK'
  OBVIOUS
<1>1. CASE UNCHANGED vars
  BY <1>1 DEF TypeOK, vars, recipient, broker, sender, command, observed
<1>2. CASE \E s \in Sends : SendStep(s)
  BY <1>2, TypeLookup, TypeKey, TypePost DEF SendStep
<1>3. CASE CacheEnds
  BY <1>3 DEF CacheEnds, TypeOK, recipient, broker, command, observed
<1>. QED
  BY <1>1, <1>2, <1>3, TypeRecipient DEF Next

\* Every variable of the peer cache keeps its range.
THEOREM TypeCorrect == Spec => []TypeOK
BY TypeInit, TypeNext, PTL DEF Spec

(***************************************************************************)
(* A duplicate has been stored: the dedup record is written after the      *)
(* message, whatever attempt wrote it.                                     *)
(***************************************************************************)

StoredInv ==
  /\ marked \subseteq stored
  /\ \A s \in Sends : pc[s] \in {"queued", "answered", "duplicate"} => s \in stored

LEMMA StoredNext == TypeOK /\ StoredInv /\ [Next]_vars => StoredInv'
<1>. SUFFICES ASSUME TypeOK, StoredInv, [Next]_vars PROVE StoredInv'
  OBVIOUS
<1>. USE DEF Goto, recipient, broker, sender, command
<1>1. ASSUME NEW s \in Sends, Admit(s) \/ Enqueue(s) \/ MarkDedup(s) \/ PostFails(s) PROVE StoredInv'
  BY <1>1 DEF TypeOK, StoredInv, Admit, Enqueue, MarkDedup, PostFails
<1>2. ASSUME NEW s \in Sends,
             \/ LookupAnswered(s) \/ LookupUnknown(s) \/ LookupRefused(s) \/ UseAnswer(s) \/ Refresh(s)
             \/ UseCache(s) \/ Report(s) \/ Recover(s) \/ RecoverFails(s)
      PROVE  StoredInv'
  <2>1. /\ marked' = marked /\ stored' = stored
        /\ \A t \in Sends : pc'[t] = pc[t] \/ pc'[t] \notin {"queued", "answered", "duplicate"}
    BY <1>2 DEF TypeOK, LookupAnswered, LookupUnknown, LookupRefused, UseAnswer, Refresh, UseCache,
                Report, Recover, RecoverFails
  <2>. QED
    BY <2>1 DEF StoredInv
<1>3. CASE RecipientStep \/ DeletionStep \/ CacheEnds \/ TokenLapses \/ UNCHANGED vars
  <2>1. UNCHANGED <<marked, stored, pc>>
    BY <1>3, Zenon DEF RecipientStep, DeletionStep, CacheEnds, TokenLapses, SaveKeyPair, Register,
                RegisterFails, Pull, DeleteRecord, DeleteIndex, DeletionStops, vars
  <2>. QED
    BY <2>1 DEF StoredInv
<1>. QED
  BY <1>1, <1>2, <1>3 DEF Next, SendStep

\* A retry that is told `duplicate' has had its message stored.
THEOREM StoredBeforeDuplicate == Spec => []DuplicateWasStored
<1>1. Init => StoredInv
  BY DEF Init, StoredInv
<1>2. StoredInv => DuplicateWasStored
  BY DEF StoredInv, DuplicateWasStored
<1>. QED
  BY <1>1, <1>2, StoredNext, TypeCorrect, PTL DEF Spec

(***************************************************************************)
(* A registration inherits nothing: no command is between its admission    *)
(* and its enqueue when the record is gone, so the pending index stays     *)
(* empty once the deletion has removed it.                                 *)
(***************************************************************************)

DeletionInv ==
  ~crossed =>
    /\ inherited = {}
    /\ ~Exists(record) => \A s \in Sends : pc[s] # "admitted"
    /\ ~Exists(record) /\ ~deleting => mailbox = {}

LEMMA DeletionNext == TypeOK /\ DeletionInv /\ [Next]_vars => DeletionInv'
<1>. SUFFICES ASSUME TypeOK, DeletionInv, [Next]_vars, ~crossed' PROVE DeletionInv'
  BY DEF DeletionInv
<1>. USE DEF Goto, recipient, broker, sender, command, observed
<1>1. ASSUME NEW s \in Sends, Admit(s) \/ Enqueue(s) PROVE DeletionInv'
  BY <1>1 DEF TypeOK, DeletionInv, Admit, Enqueue
<1>2. ASSUME NEW s \in Sends,
             \/ LookupAnswered(s) \/ LookupUnknown(s) \/ LookupRefused(s) \/ UseAnswer(s) \/ Refresh(s)
             \/ UseCache(s) \/ MarkDedup(s) \/ Report(s) \/ PostFails(s) \/ Recover(s) \/ RecoverFails(s)
      PROVE  DeletionInv'
  <2>1. /\ UNCHANGED <<record, mailbox, deleting, inherited, crossed>>
        /\ \A t \in Sends : pc'[t] = pc[t] \/ pc'[t] # "admitted"
    BY <1>2 DEF TypeOK, LookupAnswered, LookupUnknown, LookupRefused, UseAnswer, Refresh, UseCache,
                MarkDedup, Report, PostFails, Recover, RecoverFails
  <2>. QED
    BY <2>1 DEF DeletionInv
<1>3. CASE SaveKeyPair \/ RegisterFails \/ CacheEnds \/ TokenLapses \/ UNCHANGED vars
  <2>1. UNCHANGED <<record, mailbox, deleting, inherited, crossed, pc>>
    BY <1>3, Zenon DEF SaveKeyPair, RegisterFails, CacheEnds, TokenLapses, vars
  <2>. QED
    BY <2>1 DEF DeletionInv
<1>4. CASE Register
  <2>1. record'.version # 0
    BY <1>4 DEF Register, NextVersion, TypeOK, Version
  <2>2. ~crossed /\ ~deleting
    BY <1>4, Zenon DEF Register
  <2>3. inherited' = {}
    BY <1>4, <2>2 DEF Register, DeletionInv
  <2>. QED
    BY <2>1, <2>3 DEF DeletionInv, Exists
<1>5. CASE Pull
  <2>1. UNCHANGED <<record, deleting, inherited, crossed, pc>> /\ mailbox' = {}
    BY <1>5, Zenon DEF Pull
  <2>. QED
    BY <2>1 DEF DeletionInv
<1>6. CASE DeleteRecord
  <2>1. ~crossed /\ UNCHANGED <<inherited, pc>> /\ deleting' /\ \A s \in Sends : pc[s] # "admitted"
    BY <1>6 DEF DeleteRecord
  <2>. QED
    BY <2>1 DEF DeletionInv
<1>7. CASE DeleteIndex
  <2>1. UNCHANGED <<record, inherited, crossed, pc>> /\ mailbox' = {}
    BY <1>7, Zenon DEF DeleteIndex
  <2>. QED
    BY <2>1 DEF DeletionInv
<1>8. CASE DeletionStops
  BY <1>8 DEF DeletionStops
<1>. QED
  BY <1>1, <1>2, <1>3, <1>4, <1>5, <1>6, <1>7, <1>8 DEF Next, SendStep, RecipientStep, DeletionStep

\* Who registers a deleted name finds none of the earlier owner's messages.
THEOREM NothingInherited == Spec => []InheritsNothing
<1>1. Init => DeletionInv
  BY DEF Init, DeletionInv, Exists
<1>2. DeletionInv => InheritsNothing
  BY DEF DeletionInv, InheritsNothing
<1>. QED
  BY <1>1, <1>2, DeletionNext, TypeCorrect, PTL DEF Spec

(***************************************************************************)
(* Which key each command holds.                                           *)
(***************************************************************************)

\* A command that has chosen its key.
Chosen(s) ==
  pc[s] \in {"post", "recover", "admitted", "queued", "answered", "sent", "unknown", "duplicate",
             "failed"}

HasAnswer(s) == pc[s] \in {"found", "refresh"}

\* The recipient's key pairs are numbered upwards, and a rotation that awaits
\* the broker has left the record behind.
RecordKeys == record.key <= made /\ cache.key <= made /\ (rotating => record.key < made)

SendKeys(s) ==
  /\ answer[s].key <= made /\ key[s] <= made
  /\ s \in current => pc[s] # "new"
  /\ s \in direct => HasAnswer(s) \/ Chosen(s)
  /\ HasAnswer(s) => s \in direct
  /\ s \in mailbox \cup sealed => Chosen(s)
  /\ s \in sealed => key[s] < made
  /\ s \in current \cap direct => (IF pc[s] = "found" THEN answer[s].key = made ELSE key[s] = made)

\* While the recipient's versions grow, a copy of its record is at most as new
\* as the record, and the same if it is as new.
NotNewer(entry) ==
  /\ entry.version <= record.version
  /\ entry.version = record.version => entry.key = record.key

CopyInv ==
  /\ Exists(record) /\ NotNewer(cache)
  /\ \A s \in Sends : HasAnswer(s) => NotNewer(answer[s])
  /\ latest => record.key = made

\* While lookups take turns, the last answer is in a command's hand or cached.
TurnInv ==
  /\ \A s, t \in Sends : LookingUp(s) /\ LookingUp(t) => s = t
  /\ latest => /\ \A s \in Sends : HasAnswer(s) => answer[s] = record
               /\ (\A s \in Sends : ~HasAnswer(s)) => cache.key = made
  /\ \A s \in current \ direct : /\ pc[s] = "fallback" => latest
                                 /\ Chosen(s) => key[s] = made

KeyInv ==
  /\ RecordKeys /\ \A s \in Sends : SendKeys(s)
  /\ ~Reborn => CopyInv
  /\ ~Reborn /\ ~overlapped => TurnInv

LEMMA KeyInit == Init => KeyInv
BY DEF Init, KeyInv, RecordKeys, SendKeys, CopyInv, TurnInv, NotNewer, HasAnswer, Chosen, LookingUp,
       NoRecord, Absent, Exists

\* What the commands know, once their keys are chosen, only moves along.
LEMMA KeyPost ==
  ASSUME TypeOK, KeyInv, NEW s \in Sends,
         \/ Admit(s) \/ Enqueue(s) \/ MarkDedup(s) \/ Report(s) \/ PostFails(s) \/ Recover(s)
         \/ RecoverFails(s) \/ LookupUnknown(s)
  PROVE  KeyInv'
<1>. USE DEF Goto, recipient, broker, sender, command, observed
<1>1. UNCHANGED <<made, rotating, sealed, record, cache, answer, key, current, latest, direct,
                  deletions, overlapped>>
  BY Zenon DEF Admit, Enqueue, MarkDedup, Report, PostFails, Recover, RecoverFails, LookupUnknown
<1>2. /\ \A t \in Sends \ {s} : pc'[t] = pc[t]
      /\ mailbox' \subseteq mailbox \cup {s}
      /\ \/ Chosen(s) /\ Chosen(s)'
         \/ pc[s] = "new" /\ pc'[s] = "nokey" /\ mailbox' = mailbox
  BY DEF TypeOK, Chosen, Admit, Enqueue, MarkDedup, Report, PostFails, Recover, RecoverFails,
         LookupUnknown
<1>3. \A t \in Sends : SendKeys(t)'
  BY <1>1, <1>2 DEF KeyInv, SendKeys, HasAnswer, Chosen
<1>4. \A t \in Sends : (LookingUp(t)' <=> LookingUp(t)) /\ (HasAnswer(t)' <=> HasAnswer(t))
  BY <1>2 DEF LookingUp, HasAnswer, Chosen
<1>5. ~Reborn' => CopyInv'
  BY <1>1, <1>4 DEF KeyInv, CopyInv, NotNewer, Reborn, Exists
<1>6. ~Reborn' /\ ~overlapped' => TurnInv'
  <2>. SUFFICES ASSUME TurnInv PROVE TurnInv'
    BY <1>1 DEF KeyInv, Reborn
  <2>1. \A t \in current \ direct : /\ pc'[t] = "fallback" => latest
                                    /\ Chosen(t)' => key[t] = made
    BY <1>2 DEF TypeOK, TurnInv, Chosen
  <2>. QED
    BY <1>1, <1>4, <2>1 DEF TurnInv
<1>. QED
  BY <1>1, <1>3, <1>5, <1>6 DEF KeyInv, RecordKeys

LEMMA KeyLookup ==
  ASSUME TypeOK, KeyInv, NEW s \in Sends, LookupAnswered(s) \/ LookupRefused(s)
  PROVE  KeyInv'
<1>. USE DEF Goto, recipient, broker, sender, command, observed
<1>1. /\ UNCHANGED <<made, rotating, sealed, mailbox, record, cache, key, deletions>>
      /\ pc[s] = "new"
      /\ overlapped' = (overlapped \/ \E t \in Sends \ {s} : LookingUp(t))
      /\ current' \subseteq current \cup {s}
  BY DEF LookupAnswered, LookupRefused, NoteLookup
<1>2. CASE LookupAnswered(s)
  <2>1. /\ pc' = [pc EXCEPT ![s] = "found"] /\ answer' = [answer EXCEPT ![s] = record]
        /\ latest' = (record.key = made) /\ direct' = direct \cup {s}
        /\ s \in current' => latest'
    BY <1>1, <1>2 DEF LookupAnswered, KeyInv, SendKeys
  <2>2. /\ pc'[s] = "found" /\ answer'[s] = record
        /\ \A t \in Sends \ {s} : pc'[t] = pc[t] /\ answer'[t] = answer[t]
    BY <2>1 DEF TypeOK
  <2>3. \A t \in Sends : SendKeys(t)'
    BY <1>1, <2>1, <2>2 DEF KeyInv, RecordKeys, SendKeys, HasAnswer, Chosen, TypeOK, Version
  <2>4. ~Reborn' => CopyInv'
    BY <1>1, <2>1, <2>2 DEF KeyInv, CopyInv, NotNewer, HasAnswer, Reborn, Exists, TypeOK, Version
  <2>5. ~Reborn' /\ ~overlapped' => TurnInv'
    <3>. SUFFICES ASSUME TurnInv, \A t \in Sends \ {s} : ~LookingUp(t) PROVE TurnInv'
      BY <1>1 DEF KeyInv, Reborn
    <3>1. \A t \in Sends : LookingUp(t)' => t = s
      BY <2>2 DEF LookingUp
    <3>2. \A t \in Sends : HasAnswer(t)' => t = s
      BY <2>2 DEF LookingUp, HasAnswer
    <3>3. HasAnswer(s)'
      BY <2>2 DEF HasAnswer
    <3>4. \A t \in current' \ direct' : /\ t \in current \ direct /\ t # s /\ t \in Sends
                                        /\ pc'[t] # "fallback" /\ pc'[t] = pc[t]
      BY <1>1, <2>1, <2>2 DEF LookingUp, TypeOK
    <3>5. \A t \in current' \ direct' : Chosen(t)' => key[t] = made
      BY <3>4 DEF TurnInv, Chosen
    <3>. QED
      BY <1>1, <2>2, <3>1, <3>2, <3>3, <3>4, <3>5 DEF TurnInv
  <2>. QED
    BY <1>1, <2>3, <2>4, <2>5 DEF KeyInv, RecordKeys
<1>3. CASE LookupRefused(s)
  <2>1. /\ pc' = [pc EXCEPT ![s] = "fallback"] /\ UNCHANGED <<answer, latest, direct>>
        /\ s \in current' => latest
    BY <1>1, <1>3 DEF LookupRefused, KeyInv, SendKeys
  <2>2. pc'[s] = "fallback" /\ \A t \in Sends \ {s} : pc'[t] = pc[t]
    BY <2>1 DEF TypeOK
  <2>3. s \notin direct
    BY <1>1 DEF KeyInv, SendKeys, HasAnswer, Chosen
  <2>4. \A t \in Sends : SendKeys(t)'
    BY <1>1, <2>1, <2>2, <2>3 DEF KeyInv, SendKeys, HasAnswer, Chosen
  <2>5. \A t \in Sends : HasAnswer(t)' <=> HasAnswer(t)
    BY <1>1, <2>2 DEF HasAnswer
  <2>6. ~Reborn' => CopyInv'
    BY <1>1, <2>1, <2>5 DEF KeyInv, CopyInv, NotNewer, Reborn, Exists
  <2>7. ~Reborn' /\ ~overlapped' => TurnInv'
    <3>. SUFFICES ASSUME TurnInv, \A t \in Sends \ {s} : ~LookingUp(t) PROVE TurnInv'
      BY <1>1 DEF KeyInv, Reborn
    <3>1. \A t \in Sends : LookingUp(t)' => t = s
      BY <2>2 DEF LookingUp
    <3>2. \A t \in current' \ direct : /\ pc'[t] = "fallback" => latest
                                       /\ Chosen(t)' => key[t] = made
      BY <1>1, <2>1, <2>2 DEF TypeOK, TurnInv, Chosen
    <3>. QED
      BY <1>1, <2>1, <2>5, <3>1, <3>2 DEF TurnInv
  <2>. QED
    BY <1>1, <2>4, <2>6, <2>7 DEF KeyInv, RecordKeys
<1>. QED
  BY <1>2, <1>3

LEMMA KeyUse ==
  ASSUME TypeOK, KeyInv, NEW s \in Sends, UseAnswer(s) \/ Refresh(s) \/ UseCache(s)
  PROVE  KeyInv'
<1>. USE DEF Goto, recipient, broker, sender, command, observed
<1>1. /\ UNCHANGED <<made, rotating, sealed, mailbox, record, current, latest, direct, deletions,
                     overlapped>>
      /\ \A t \in Sends \ {s} : pc'[t] = pc[t] /\ answer'[t] = answer[t] /\ key'[t] = key[t]
      /\ LookingUp(s)
  BY DEF TypeOK, UseAnswer, Refresh, UseCache, LookingUp
<1>2. ASSUME TurnInv PROVE \A t \in Sends \ {s} : ~LookingUp(t) /\ ~HasAnswer(t)
  BY <1>1, <1>2 DEF TurnInv, LookingUp, HasAnswer
<1>3. /\ pc'[s] \in {"refresh", "post", "nokey"}
      /\ ~Reborn' => ~Reborn /\ CopyInv
      /\ ~Reborn' /\ ~overlapped' => TurnInv
  BY <1>1 DEF TypeOK, UseAnswer, Refresh, UseCache, KeyInv, Reborn
<1>4. \A t \in Sends \ {s} : SendKeys(t)'
  BY <1>1 DEF KeyInv, SendKeys, HasAnswer, Chosen
<1>5. /\ answer'[s] \in {answer[s], NoRecord} /\ key'[s] \in {key[s], answer[s].key, CachedKey(0)}
      /\ cache' = cache \/ (cache'.key = answer[s].key /\ cache'.version = answer[s].version)
  BY DEF TypeOK, UseAnswer, Refresh, UseCache
<1>6. CachedKey(0) <= made /\ RecordKeys' /\ answer'[s].key <= made /\ key'[s] <= made
  <2>1. CachedKey(0) <= made
    BY DEF TypeOK, KeyInv, RecordKeys, CachedKey
  <2>. QED
    BY <1>1, <1>5, <2>1, NoRecordType DEF TypeOK, KeyInv, RecordKeys, SendKeys
<1>7. CASE UseAnswer(s)
  <2>1. /\ pc[s] = "found" /\ pc'[s] \in {"refresh", "post"}
        /\ pc'[s] = "refresh" => answer'[s] = answer[s]
        /\ key'[s] = answer[s].key /\ cache' = cache
    BY <1>7 DEF TypeOK, UseAnswer
  <2>2. pc'[s] = "post" => /\ CachedKey(answer[s].version) # 0
                           /\ cache.version >= answer[s].version
    BY <1>7 DEF TypeOK, UseAnswer, CachedKey
  <2>3. SendKeys(s)'
    BY <1>1, <1>6, <2>1 DEF KeyInv, SendKeys, HasAnswer, Chosen
  <2>4. \A t \in Sends : HasAnswer(t)' => HasAnswer(t) /\ answer'[t] = answer[t]
    BY <1>1, <2>1 DEF HasAnswer
  <2>5. ~Reborn' => CopyInv'
    BY <1>1, <1>3, <2>1, <2>4 DEF CopyInv, NotNewer, Exists
  <2>6. ~Reborn' /\ ~overlapped' => TurnInv'
    <3>. SUFFICES ASSUME CopyInv, TurnInv PROVE TurnInv'
      BY <1>3
    <3>1. \A t, u \in Sends : LookingUp(t)' /\ LookingUp(u)' => t = u
      BY <1>1, <1>2 DEF LookingUp
    <3>2. latest /\ pc'[s] = "post" => cache.key = made
      <4>1. HasAnswer(s)
        BY <2>1 DEF HasAnswer
      <4>2. latest => answer[s] = record /\ record.key = made
        BY <4>1 DEF TurnInv, CopyInv
      <4>3. cache.version \in Nat /\ record.version \in Nat
        BY DEF TypeOK, Version
      <4>. HIDE DEF recipient, broker, sender, command, observed
      <4>. QED
        BY <2>2, <4>2, <4>3 DEF CopyInv, NotNewer
    <3>3. pc'[s] = "refresh" => HasAnswer(s)'
      BY DEF HasAnswer
    <3>4. s \in direct
      BY <2>1 DEF KeyInv, SendKeys, HasAnswer
    <3>5. \A t \in current \ direct : /\ pc'[t] = "fallback" => latest
                                      /\ Chosen(t)' => key'[t] = made
      BY <1>1, <3>4 DEF TypeOK, TurnInv, Chosen
    <3>. QED
      BY <1>1, <2>1, <2>4, <3>1, <3>2, <3>3, <3>5 DEF TurnInv
  <2>. QED
    BY <1>1, <1>4, <1>6, <2>3, <2>5, <2>6 DEF KeyInv
<1>8. CASE Refresh(s)
  <2>1. /\ pc[s] = "refresh" /\ pc'[s] = "post" /\ key' = key
        /\ cache'.key = answer[s].key /\ cache'.version = answer[s].version
    BY <1>8 DEF TypeOK, Refresh
  <2>2. SendKeys(s)'
    BY <1>1, <1>6, <2>1 DEF KeyInv, SendKeys, HasAnswer, Chosen
  <2>3. \A t \in Sends : HasAnswer(t)' => HasAnswer(t) /\ answer'[t] = answer[t]
    BY <1>1, <2>1 DEF HasAnswer
  <2>4. HasAnswer(s) /\ s \in direct
    BY <2>1 DEF HasAnswer, KeyInv, SendKeys
  <2>5. ~Reborn' => CopyInv'
    BY <1>1, <1>3, <2>1, <2>3, <2>4 DEF CopyInv, NotNewer, Exists
  <2>6. ~Reborn' /\ ~overlapped' => TurnInv'
    <3>. SUFFICES ASSUME CopyInv, TurnInv PROVE TurnInv'
      BY <1>3
    <3>1. \A t \in Sends : ~LookingUp(t)'
      BY <1>1, <1>2, <2>1 DEF LookingUp
    <3>2. latest => cache'.key = made
      BY <2>1, <2>4 DEF TurnInv, CopyInv
    <3>3. \A t \in Sends : ~HasAnswer(t)'
      BY <3>1 DEF LookingUp, HasAnswer
    <3>4. \A t \in current \ direct : /\ pc'[t] = "fallback" => latest
                                      /\ Chosen(t)' => key'[t] = made
      BY <1>1, <2>4 DEF TypeOK, TurnInv, Chosen
    <3>. QED
      BY <1>1, <3>1, <3>2, <3>3, <3>4 DEF TurnInv
  <2>. QED
    BY <1>1, <1>4, <1>6, <2>2, <2>5, <2>6 DEF KeyInv
<1>9. CASE UseCache(s)
  <2>1. /\ pc[s] = "fallback" /\ pc'[s] \in {"post", "nokey"} /\ UNCHANGED <<cache, answer>>
        /\ pc'[s] = "post" => key'[s] = cache.key
    BY <1>9 DEF TypeOK, UseCache, CachedKey
  <2>2. s \notin direct /\ ~HasAnswer(s)
    BY <2>1 DEF KeyInv, SendKeys, HasAnswer, Chosen
  <2>3. SendKeys(s)'
    BY <1>1, <1>6, <2>1, <2>2 DEF KeyInv, SendKeys, HasAnswer, Chosen
  <2>4. \A t \in Sends : HasAnswer(t)' <=> HasAnswer(t)
    BY <1>1, <2>1 DEF HasAnswer
  <2>5. ~Reborn' => CopyInv'
    BY <1>1, <1>3, <2>1, <2>4 DEF CopyInv, NotNewer, Exists
  <2>6. ~Reborn' /\ ~overlapped' => TurnInv'
    <3>. SUFFICES ASSUME TurnInv PROVE TurnInv'
      BY <1>3
    <3>1. \A t \in Sends : ~LookingUp(t)' /\ ~HasAnswer(t)
      BY <1>1, <1>2, <2>1, <2>2 DEF LookingUp
    <3>2. s \in current => cache.key = made
      BY <2>1, <2>2, <3>1 DEF TurnInv
    <3>3. \A t \in current \ direct : /\ pc'[t] = "fallback" => latest
                                      /\ Chosen(t)' => key'[t] = made
      BY <1>1, <2>1, <3>2 DEF TypeOK, TurnInv, Chosen
    <3>. QED
      BY <1>1, <2>1, <2>4, <3>1, <3>3 DEF TurnInv
  <2>. QED
    BY <1>1, <1>4, <1>6, <2>3, <2>5, <2>6 DEF KeyInv
<1>. QED
  BY <1>7, <1>8, <1>9

LEMMA KeyRecipient ==
  ASSUME TypeOK, KeyInv, RecipientStep \/ DeletionStep \/ CacheEnds \/ TokenLapses \/ UNCHANGED vars
  PROVE  KeyInv'
<1>. USE DEF recipient, broker, sender, command, observed
<1>1. UNCHANGED <<pc, answer, key, direct, overlapped>>
  BY Zenon DEF RecipientStep, DeletionStep, CacheEnds, TokenLapses, SaveKeyPair, Register,
               RegisterFails, Pull, DeleteRecord, DeleteIndex, DeletionStops, vars
<1>2. \A s \in Sends : /\ LookingUp(s)' <=> LookingUp(s)
                       /\ HasAnswer(s)' <=> HasAnswer(s)
                       /\ Chosen(s)' <=> Chosen(s)
  BY <1>1 DEF LookingUp, HasAnswer, Chosen
<1>3. CASE SaveKeyPair
  <2>1. /\ UNCHANGED <<record, cache, sealed, mailbox, deletions>>
        /\ made' = made + 1 /\ current' = {} /\ latest' = FALSE
    BY <1>3, Zenon DEF SaveKeyPair
  <2>2. RecordKeys'
    BY <2>1 DEF KeyInv, RecordKeys, TypeOK, Version
  <2>3. \A s \in Sends : SendKeys(s)'
    BY <1>1, <1>2, <2>1 DEF KeyInv, SendKeys, TypeOK, Version
  <2>4. ~Reborn' => CopyInv'
    BY <1>1, <1>2, <2>1 DEF KeyInv, CopyInv, NotNewer, Reborn, Exists
  <2>5. ~Reborn' /\ ~overlapped' => TurnInv'
    BY <1>1, <1>2, <2>1 DEF KeyInv, TurnInv, Reborn
  <2>. QED
    BY <2>2, <2>3, <2>4, <2>5 DEF KeyInv
<1>4. CASE Register
  <2>1. /\ UNCHANGED <<made, cache, sealed, mailbox, deletions, current, latest>>
        /\ rotating /\ ~rotating'
        /\ record' = [key |-> made, version |-> record.version + 1]
    BY <1>4, Zenon DEF Register, NextVersion
  <2>2. RecordKeys' /\ record.key < made
    BY <2>1 DEF KeyInv, RecordKeys, TypeOK
  <2>3. \A s \in Sends : SendKeys(s)'
    BY <1>1, <1>2, <2>1 DEF KeyInv, SendKeys
  <2>4. ~Reborn => ~latest
    BY <2>2 DEF KeyInv, CopyInv, TypeOK, Version
  <2>5. ~Reborn' => CopyInv'
    BY <1>1, <1>2, <2>1, <2>4 DEF KeyInv, CopyInv, NotNewer, Reborn, Exists, TypeOK, Version
  <2>6. ~Reborn' /\ ~overlapped' => TurnInv'
    <3>. SUFFICES ASSUME TurnInv, ~latest PROVE TurnInv'
      BY <1>1, <2>1, <2>4 DEF KeyInv, Reborn
    <3>1. ~latest'
      BY <2>1
    <3>2. current \subseteq Sends
      BY DEF TypeOK
    <3>. QED
      BY <1>1, <1>2, <2>1, <3>1, <3>2 DEF TurnInv
  <2>. QED
    BY <2>2, <2>3, <2>5, <2>6 DEF KeyInv
<1>5. CASE DeleteRecord
  <2>1. /\ UNCHANGED <<made, rotating, cache, sealed, mailbox, current>>
        /\ record' = NoRecord /\ deletions' = deletions + 1
    BY <1>5, Zenon DEF DeleteRecord
  <2>2. Reborn'
    BY <2>1 DEF Reborn, TypeOK
  <2>3. RecordKeys'
    BY <2>1, NoRecordType DEF KeyInv, RecordKeys, TypeOK, Version
  <2>4. \A s \in Sends : SendKeys(s)'
    BY <1>1, <1>2, <2>1 DEF KeyInv, SendKeys
  <2>. QED
    BY <2>2, <2>3, <2>4 DEF KeyInv
<1>6. CASE \/ RegisterFails \/ Pull \/ DeleteIndex \/ DeletionStops \/ CacheEnds \/ TokenLapses
           \/ UNCHANGED vars
  <2>0. UNCHANGED rotating \/ ~rotating'
    BY <1>6, Zenon DEF RegisterFails, Pull, DeleteIndex, DeletionStops, CacheEnds, TokenLapses, vars
  <2>1. UNCHANGED <<made, record, deletions, current, latest>> /\ (rotating' => rotating)
    <3>1. UNCHANGED <<made, record, deletions, current, latest>>
      BY <1>6, Zenon DEF RegisterFails, Pull, DeleteIndex, DeletionStops, CacheEnds, TokenLapses, vars
    <3>. QED
      BY <2>0, <3>1
  <2>2. cache'.key = cache.key /\ cache'.version = cache.version
    BY <1>6 DEF TypeOK, RegisterFails, Pull, DeleteIndex, DeletionStops, CacheEnds, TokenLapses, vars
  <2>3. mailbox' \subseteq mailbox /\ \A s \in sealed' : s \in sealed \/ (s \in mailbox /\ key[s] # made)
    BY <1>6 DEF RegisterFails, Pull, Openable, DeleteIndex, DeletionStops, CacheEnds, TokenLapses, vars
  <2>4. RecordKeys'
    BY <2>1, <2>2 DEF KeyInv, RecordKeys
  <2>5. \A s \in Sends : SendKeys(s)'
    BY <1>1, <1>2, <2>1, <2>3 DEF KeyInv, SendKeys, TypeOK
  <2>6. ~Reborn' => CopyInv'
    BY <1>1, <1>2, <2>1, <2>2 DEF KeyInv, CopyInv, NotNewer, Reborn, Exists
  <2>7. ~Reborn' /\ ~overlapped' => TurnInv'
    <3>. SUFFICES ASSUME TurnInv PROVE TurnInv'
      BY <1>1, <2>1 DEF KeyInv, Reborn
    <3>1. current \subseteq Sends
      BY DEF TypeOK
    <3>. QED
      BY <1>1, <1>2, <2>1, <2>2, <3>1 DEF TurnInv
  <2>. QED
    BY <2>4, <2>5, <2>6, <2>7 DEF KeyInv
<1>. QED
  BY <1>3, <1>4, <1>5, <1>6 DEF RecipientStep, DeletionStep

LEMMA KeyNext == TypeOK /\ KeyInv /\ [Next]_vars => KeyInv'
BY KeyPost, KeyLookup, KeyUse, KeyRecipient DEF Next, SendStep

LEMMA KeyAlways == Spec => []KeyInv
BY TypeCorrect, KeyInit, KeyNext, PTL DEF Spec

\* A message is lost to its reader only by a rotation that the last answered
\* lookup could not tell, by overlapping lookups or by a version that restarts.
THEOREM SealedByRotation == Spec => []SealedOnlyByRotation
<1>1. TypeOK /\ KeyInv => SealedOnlyByRotation
  <2>. SUFFICES ASSUME TypeOK, KeyInv, NEW s \in sealed \cap current
                PROVE  s \notin direct /\ (overlapped \/ Reborn)
    BY DEF SealedOnlyByRotation
  <2>1. s \in Sends /\ SendKeys(s) /\ Chosen(s) /\ key[s] # made
    BY DEF TypeOK, KeyInv, SendKeys
  <2>2. s \notin direct
    BY <2>1 DEF SendKeys, Chosen
  <2>. QED
    BY <2>1, <2>2 DEF KeyInv, TurnInv
<1>. QED
  BY <1>1, TypeCorrect, KeyAlways, PTL

\* peers.json has the key of the last answered lookup.
THEOREM LastAnswerCached == Spec => []CacheHoldsLastAnswer
<1>1. KeyInv => CacheHoldsLastAnswer
  BY DEF KeyInv, TurnInv, CacheHoldsLastAnswer, LookingUp, HasAnswer
<1>. QED
  BY <1>1, KeyAlways, PTL

=============================================================================
