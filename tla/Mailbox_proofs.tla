--------------------------- MODULE Mailbox_proofs ---------------------------
(***************************************************************************)
(* Theorems about module Mailbox, for any finite set of messages, any set  *)
(* of clients, either adapter, and any expiries, batch size and bounds;    *)
(* at the end, about module Polling, which puts the rate limit of          *)
(* POST /pull in front of it.                                              *)
(***************************************************************************)
EXTENDS Polling, FiniteSetTheorems, TLAPS

(***************************************************************************)
(* Lemmas about the helpers.                                               *)
(***************************************************************************)

\* Positions on the pending index count from 1.
LEMMA NextPlaceType == NextPlace \in Nat \ {0}
<1>1. IsFiniteSet({m \in Messages : place[m] # 0})
  BY FS_Subset, MessagesAssumption
<1>2. Cardinality({m \in Messages : place[m] # 0}) \in Nat
  BY <1>1, FS_CardinalityType
<1> QED
  BY <1>2 DEF NextPlace

\* A body is stored with a positive TTL, which its expires_at does not exceed.
LEMMA TtlType ==
  ASSUME NEW m \in Messages, now \in Nat
  PROVE  /\ Ttl(m) \in Nat \ {0}
         /\ ExpiresAt[m] <= now + Ttl(m)
BY ExpiryAssumption, TtlAssumption DEF Ttl

(***************************************************************************)
(* Type correctness.                                                       *)
(***************************************************************************)

LEMMA TypeInit == Init => TypeOK
<1>. SUFFICES ASSUME Init PROVE TypeOK
  OBVIOUS
<1>1. crossed \in BOOLEAN
  BY DEF Init
<1>. QED
  BY <1>1, MessagesAssumption
     DEF Init, TypeOK, Requests, SendStates, PullStates, AckStates, ClientStates

\* The steps of enqueue.
LEMMA TypeSend ==
  ASSUME TypeOK, NEW m \in Messages, SendStep(m) \/ FailSend(m)
  PROVE  TypeOK'
<1>. USE MessagesAssumption DEF TypeOK, Requests, SendStates, ClientStates, Goto, store, history
<1>1. CASE StoreBody(m)
  BY <1>1, TtlType DEF StoreBody
<1>2. CASE AppendNative(m)
  BY <1>2, NextPlaceType DEF AppendNative
<1>3. CASE AppendRead(m)
  BY <1>3, NextPlaceType DEF AppendRead
<1>4. CASE AppendWrite(m)
  BY <1>4, NextPlaceType DEF AppendWrite
<1>5. CASE Accept(m)
  BY <1>5 DEF Accept
<1>6. CASE FailSend(m)
  BY <1>6 DEF FailSend
<1>. QED
  BY <1>1, <1>2, <1>3, <1>4, <1>5, <1>6 DEF SendStep, AppendPendingId

\* The steps of removePendingIds, wherever they start and end.
LEMMA TypeRemove ==
  ASSUME TypeOK, NEW c \in Clients,
         NEW from \in ClientStates, NEW to \in ClientStates,
         \/ RemoveNative(c, from, to)
         \/ RemoveRead(c, from, to)
         \/ RemoveWrite(c, from, to)
  PROVE  TypeOK'
<1>. USE MessagesAssumption DEF TypeOK, Requests, Goto, store, history
<1>1. CASE RemoveNative(c, from, to)
  BY <1>1 DEF RemoveNative
<1>2. CASE RemoveRead(c, from, to)
  BY <1>2 DEF RemoveRead
<1>3. CASE RemoveWrite(c, from, to)
  BY <1>3 DEF RemoveWrite
<1>. QED
  BY <1>1, <1>2, <1>3

\* The steps of dequeueForClawid, of the client and of ackMessages.
LEMMA TypeClient ==
  ASSUME TypeOK, NEW c \in Clients, ClientStep(c) \/ FailClient(c)
  PROVE  TypeOK'
<1>. USE MessagesAssumption
     DEF TypeOK, Requests, ClientStates, PullStates, AckStates, Goto, store, history
<1>1. CASE PullStart(c)
  BY <1>1 DEF PullStart
<1>2. CASE PullList(c)
  BY <1>2 DEF PullList, FirstBatch
<1>3. CASE Fetch(c)
  BY <1>3 DEF Fetch, IsNext
<1>4. CASE Fetched(c)
  BY <1>4 DEF Fetched
<1>5. CASE Prune(c)
  BY <1>5, TypeRemove DEF Prune, RemovePendingIds
<1>6. CASE Receive(c)
  BY <1>6 DEF Receive
<1>7. CASE Keep(c)
  BY <1>7 DEF Keep
<1>8. CASE Unlist(c)
  BY <1>8, TypeRemove DEF Unlist, RemovePendingIds
<1>9. CASE DeleteBody(c)
  BY <1>9 DEF DeleteBody, IsNext
<1>10. CASE AckDone(c)
  BY <1>10 DEF AckDone
<1>11. CASE FailClient(c)
  BY <1>11 DEF FailClient
<1>. QED
  BY <1>1, <1>2, <1>3, <1>4, <1>5, <1>6, <1>7, <1>8, <1>9, <1>10, <1>11 DEF ClientStep

LEMMA TypeNext == TypeOK /\ [Next]_vars => TypeOK'
<1>. SUFFICES ASSUME TypeOK, [Next]_vars PROVE TypeOK'
  OBVIOUS
<1>1. CASE Tick
  BY <1>1 DEF Tick, TypeOK, store, locals, history
<1>2. CASE UNCHANGED vars
  BY <1>2 DEF TypeOK, vars, store, locals, history
<1>. QED
  BY <1>1, <1>2, TypeSend, TypeClient DEF Next

\* Whatever the requests in flight, every variable stays in its range.
THEOREM TypeCorrect == Spec => []TypeOK
BY TypeInit, TypeNext, PTL DEF Spec

(***************************************************************************)
(* As long as updates of the index take turns, as the one-call updates of  *)
(* a native list always do: no message is lost, no id dangles.             *)
(***************************************************************************)

\* m may be withheld from the recipient: its TTL or its expires_at has passed.
Expired(m) == until[m] <= now \/ PastExpiry(m, now)

\* No request is inside a read-modify-write on a native list, and on plain KV
\* the one that is will write back what the index still holds.
TurnInv ==
  /\ NativeList => Updating = {}
  /\ \A r \in Updating : copy[r] = pending
  /\ \A r, q \in Updating : r = q

\* A message has a place on the index from its append on, and never before.
SendInv(m) ==
  /\ pc[m] = "send" => place[m] = 0
  /\ pc[m] \in {"stored", "appending"} =>
       place[m] = 0 /\ body[m] = until[m] /\ until[m] >= ExpiresAt[m]
  /\ pc[m] \in {"listed", "accepted"} => place[m] # 0
  /\ m \in pending \cup inbox => place[m] # 0

\* From then on its body lasts until its TTL ends, or the recipient has it; and
\* its id is on the index until the recipient has it or it has expired.
StoreInv(m) ==
  place[m] # 0 =>
    /\ until[m] >= ExpiresAt[m]
    /\ body[m] # until[m] => m \in inbox /\ m \notin pending
    /\ m \in pending \/ m \in inbox \/ Expired(m)

\* What a client has in hand was on the index; it removes only what has expired
\* or is in the inbox, and deletes bodies of what is off the index.
ClientInv(c) ==
  /\ at[c] <= now
  /\ \A m \in batch[c] \cup found[c] \cup drop[c] : place[m] # 0
  /\ \A m \in drop[c] : m \in inbox \/ Expired(m)
  /\ pc[c] \in {"unlist", "unlisting", "unlisted"} => batch[c] \subseteq inbox
  /\ pc[c] \in {"unlist", "unlisting"} => batch[c] \cap pending \subseteq drop[c]
  /\ pc[c] = "unlisted" => batch[c] \cap pending = {}

SafeInv ==
  /\ TypeOK
  /\ TurnInv
  /\ \A m \in Messages : SendInv(m)
  /\ \A m \in Messages : StoreInv(m)
  /\ \A c \in Clients : ClientInv(c)

LEMMA SafeInit == Init => SafeInv
<1>. SUFFICES ASSUME Init PROVE SafeInv
  OBVIOUS
<1>1. TypeOK
  BY TypeInit
<1>2. TurnInv
  BY MessagesAssumption DEF Init, TurnInv, Updating, Requests
<1>. QED
  BY <1>1, <1>2, MessagesAssumption DEF Init, SafeInv, SendInv, StoreInv, ClientInv, Requests

\* The steps of enqueue.
LEMMA SafeSend ==
  ASSUME SafeInv, ~crossed', NEW m \in Messages, SendStep(m) \/ FailSend(m)
  PROVE  SafeInv'
<1>. USE MessagesAssumption, ExpiryAssumption
     DEF TypeOK, Requests, Goto, store, history, PastExpiry, Expired, Updating
<1>1. TypeOK /\ TypeOK'
  BY TypeSend DEF SafeInv
<1>2. CASE StoreBody(m)
  <2>1. until'[m] >= ExpiresAt[m]
    BY <1>1, <1>2, TtlType DEF StoreBody
  <2>2. TurnInv'
    BY <1>1, <1>2 DEF StoreBody, SafeInv, TurnInv
  <2>3. \A k \in Messages : SendInv(k)'
    BY <1>1, <1>2, <2>1 DEF StoreBody, SafeInv, SendInv
  <2>4. \A k \in Messages : StoreInv(k)'
    BY <1>1, <1>2 DEF StoreBody, SafeInv, SendInv, StoreInv
  <2>5. \A c \in Clients : ClientInv(c)'
    BY <1>1, <1>2 DEF StoreBody, SafeInv, SendInv, ClientInv
  <2>. QED
    BY <1>1, <2>2, <2>3, <2>4, <2>5 DEF SafeInv
<1>3. CASE AppendNative(m)
  <2>1. NextPlace \in Nat \ {0}
    BY NextPlaceType
  <2>2. TurnInv'
    BY <1>1, <1>3 DEF AppendNative, SafeInv, TurnInv
  <2>3. \A k \in Messages : SendInv(k)'
    BY <1>1, <1>3, <2>1 DEF AppendNative, SafeInv, SendInv
  <2>4. \A k \in Messages : StoreInv(k)'
    BY <1>1, <1>3, <2>1 DEF AppendNative, SafeInv, SendInv, StoreInv
  <2>5. \A c \in Clients : ClientInv(c)'
    BY <1>1, <1>3, <2>1 DEF AppendNative, SafeInv, SendInv, ClientInv
  <2>. QED
    BY <1>1, <2>2, <2>3, <2>4, <2>5 DEF SafeInv
<1>4. CASE Accept(m) \/ FailSend(m)
  <2>1. Updating' \subseteq Updating /\ \A r \in Updating' : copy'[r] = copy[r]
    BY <1>1, <1>4 DEF Accept, FailSend
  <2>2. TurnInv'
    BY <1>4, <2>1 DEF Accept, FailSend, SafeInv, TurnInv
  <2>3. \A k \in Messages : SendInv(k)'
    BY <1>1, <1>4 DEF Accept, FailSend, SafeInv, SendInv
  <2>4. \A k \in Messages : StoreInv(k)'
    BY <1>1, <1>4 DEF Accept, FailSend, SafeInv, StoreInv
  <2>5. \A c \in Clients : ClientInv(c)'
    BY <1>1, <1>4 DEF Accept, FailSend, SafeInv, ClientInv
  <2>. QED
    BY <1>1, <2>2, <2>3, <2>4, <2>5 DEF SafeInv
<1>5. CASE AppendRead(m)
  <2>2. TurnInv'
    BY <1>1, <1>5 DEF AppendRead, SafeInv, TurnInv
  <2>3. \A k \in Messages : SendInv(k)'
    BY <1>1, <1>5 DEF AppendRead, SafeInv, SendInv
  <2>4. \A k \in Messages : StoreInv(k)'
    BY <1>1, <1>5 DEF AppendRead, SafeInv, StoreInv
  <2>5. \A c \in Clients : ClientInv(c)'
    BY <1>1, <1>5 DEF AppendRead, SafeInv, ClientInv
  <2>. QED
    BY <1>1, <2>2, <2>3, <2>4, <2>5 DEF SafeInv
<1>6. CASE AppendWrite(m)
  <2>1. /\ NextPlace \in Nat \ {0}
        /\ pending' = pending \cup {m}
    BY <1>6, NextPlaceType DEF AppendWrite, SafeInv, TurnInv
  <2>2. TurnInv'
    BY <1>1, <1>6 DEF AppendWrite, SafeInv, TurnInv
  <2>3. \A k \in Messages : SendInv(k)'
    BY <1>1, <1>6, <2>1 DEF AppendWrite, SafeInv, SendInv
  <2>4. \A k \in Messages : StoreInv(k)'
    BY <1>1, <1>6, <2>1 DEF AppendWrite, SafeInv, SendInv, StoreInv
  <2>5. \A c \in Clients : ClientInv(c)'
    BY <1>1, <1>6, <2>1 DEF AppendWrite, SafeInv, SendInv, ClientInv
  <2>. QED
    BY <1>1, <2>2, <2>3, <2>4, <2>5 DEF SafeInv
<1>. QED
  BY <1>2, <1>3, <1>4, <1>5, <1>6 DEF SendStep, AppendPendingId

\* The steps of removePendingIds, for a pull or for an ack: what leaves the index
\* is what the request is to drop.
LEMMA SafeRemove ==
  ASSUME SafeInv, ~crossed', TypeOK', NEW c \in Clients, Prune(c) \/ Unlist(c)
  PROVE  /\ SafeInv'
         /\ UNCHANGED <<now, place, inbox, until>>
         /\ pending' \subseteq pending
         /\ pending \ pending' \subseteq drop[c]
<1>. USE MessagesAssumption
     DEF TypeOK, Requests, Goto, store, history, PastExpiry, Expired, Updating
<1>0. c \notin Messages /\ TypeOK
  BY DEF SafeInv
<1>1. CASE RemoveNative(c, "prune", "pruned") \/ RemoveNative(c, "unlist", "unlisted")
  <2>1. TurnInv'
    BY <1>0, <1>1 DEF RemoveNative, SafeInv, TurnInv
  <2>2. \A k \in Messages : SendInv(k)'
    BY <1>0, <1>1 DEF RemoveNative, SafeInv, SendInv
  <2>3. \A k \in Messages : StoreInv(k)'
    BY <1>0, <1>1 DEF RemoveNative, SafeInv, StoreInv, ClientInv
  <2>4. \A d \in Clients : ClientInv(d)'
    BY <1>0, <1>1 DEF RemoveNative, SafeInv, ClientInv
  <2>. QED
    BY <1>0, <1>1, <2>1, <2>2, <2>3, <2>4 DEF SafeInv, RemoveNative
<1>2. CASE RemoveRead(c, "prune", "pruning") \/ RemoveRead(c, "unlist", "unlisting")
  <2>1. TurnInv'
    BY <1>0, <1>2 DEF RemoveRead, SafeInv, TurnInv
  <2>2. \A k \in Messages : SendInv(k)'
    BY <1>0, <1>2 DEF RemoveRead, SafeInv, SendInv
  <2>3. \A k \in Messages : StoreInv(k)'
    BY <1>0, <1>2 DEF RemoveRead, SafeInv, StoreInv
  <2>4. \A d \in Clients : ClientInv(d)'
    BY <1>0, <1>2 DEF RemoveRead, SafeInv, ClientInv
  <2>. QED
    BY <1>0, <1>2, <2>1, <2>2, <2>3, <2>4 DEF SafeInv, RemoveRead
<1>3. CASE RemoveWrite(c, "pruning", "pruned") \/ RemoveWrite(c, "unlisting", "unlisted")
  <2>0. pending' = pending \ drop[c]
    BY <1>0, <1>3 DEF RemoveWrite, SafeInv, TurnInv
  <2>1. TurnInv'
    <3>1. c \in Updating
      BY <1>0, <1>3 DEF RemoveWrite
    <3>2. Updating' \subseteq Updating \ {c}
      BY <1>0, <1>3 DEF RemoveWrite
    <3>. HIDE DEF Updating
    <3>. QED
      BY <3>1, <3>2 DEF SafeInv, TurnInv
  <2>2. \A k \in Messages : SendInv(k)'
    BY <1>0, <1>3, <2>0 DEF RemoveWrite, SafeInv, SendInv
  <2>3. \A k \in Messages : StoreInv(k)'
    BY <1>0, <1>3, <2>0 DEF RemoveWrite, SafeInv, StoreInv, ClientInv
  <2>4. \A d \in Clients : ClientInv(d)'
    BY <1>0, <1>3, <2>0 DEF RemoveWrite, SafeInv, ClientInv
  <2>. QED
    BY <1>0, <1>3, <2>0, <2>1, <2>2, <2>3, <2>4 DEF SafeInv, RemoveWrite
<1>. QED
  BY <1>1, <1>2, <1>3 DEF Prune, Unlist, RemovePendingIds

\* The steps of dequeueForClawid, of the client and of ackMessages.
LEMMA SafeClient ==
  ASSUME SafeInv, ~crossed', NEW c \in Clients, ClientStep(c) \/ FailClient(c)
  PROVE  SafeInv'
<1>. USE MessagesAssumption, ExpiryAssumption
     DEF TypeOK, Requests, Goto, store, history, PastExpiry, Expired, Updating
<1>0. TypeOK /\ TypeOK'
  BY TypeClient DEF SafeInv
<1>1. CASE PullStart(c)
  <2>1. TurnInv'
    BY <1>0, <1>1 DEF PullStart, SafeInv, TurnInv
  <2>2. \A k \in Messages : SendInv(k)'
    BY <1>0, <1>1 DEF PullStart, SafeInv, SendInv
  <2>3. \A k \in Messages : StoreInv(k)'
    BY <1>0, <1>1 DEF PullStart, SafeInv, StoreInv
  <2>4. \A d \in Clients : ClientInv(d)'
    BY <1>0, <1>1 DEF PullStart, SafeInv, ClientInv
  <2>. QED
    BY <1>0, <2>1, <2>2, <2>3, <2>4 DEF SafeInv
<1>2. CASE PullList(c)
  <2>1. TurnInv'
    BY <1>0, <1>2 DEF PullList, SafeInv, TurnInv
  <2>2. \A k \in Messages : SendInv(k)'
    BY <1>0, <1>2 DEF PullList, SafeInv, SendInv
  <2>3. \A k \in Messages : StoreInv(k)'
    BY <1>0, <1>2 DEF PullList, SafeInv, StoreInv
  <2>4. \A d \in Clients : ClientInv(d)'
    BY <1>0, <1>2 DEF PullList, SafeInv, ClientInv, FirstBatch, SendInv
  <2>. QED
    BY <1>0, <2>1, <2>2, <2>3, <2>4 DEF SafeInv
<1>3. CASE Fetch(c)
  <2>1. TurnInv'
    BY <1>0, <1>3 DEF Fetch, SafeInv, TurnInv
  <2>2. \A k \in Messages : SendInv(k)'
    BY <1>0, <1>3 DEF Fetch, SafeInv, SendInv
  <2>3. \A k \in Messages : StoreInv(k)'
    BY <1>0, <1>3 DEF Fetch, SafeInv, StoreInv
  <2>4. \A d \in Clients : ClientInv(d)'
    BY <1>0, <1>3 DEF Fetch, SafeInv, ClientInv, IsNext, Deliverable, HasBody, StoreInv
  <2>. QED
    BY <1>0, <2>1, <2>2, <2>3, <2>4 DEF SafeInv
<1>4. CASE Fetched(c)
  <2>1. TurnInv'
    BY <1>0, <1>4 DEF Fetched, SafeInv, TurnInv
  <2>2. \A k \in Messages : SendInv(k)'
    BY <1>0, <1>4 DEF Fetched, SafeInv, SendInv
  <2>3. \A k \in Messages : StoreInv(k)'
    BY <1>0, <1>4 DEF Fetched, SafeInv, StoreInv
  <2>4. \A d \in Clients : ClientInv(d)'
    BY <1>0, <1>4 DEF Fetched, SafeInv, ClientInv
  <2>. QED
    BY <1>0, <2>1, <2>2, <2>3, <2>4 DEF SafeInv
<1>5. CASE Receive(c)
  <2>1. TurnInv'
    BY <1>0, <1>5 DEF Receive, SafeInv, TurnInv
  <2>2. \A k \in Messages : SendInv(k)'
    BY <1>0, <1>5 DEF Receive, SafeInv, SendInv
  <2>3. \A k \in Messages : StoreInv(k)'
    BY <1>0, <1>5 DEF Receive, SafeInv, StoreInv
  <2>4. \A d \in Clients : ClientInv(d)'
    BY <1>0, <1>5 DEF Receive, SafeInv, ClientInv
  <2>. QED
    BY <1>0, <2>1, <2>2, <2>3, <2>4 DEF SafeInv
<1>6. CASE Keep(c)
  <2>1. TurnInv'
    BY <1>0, <1>6 DEF Keep, SafeInv, TurnInv
  <2>2. \A k \in Messages : SendInv(k)'
    BY <1>0, <1>6 DEF Keep, SafeInv, SendInv, ClientInv
  <2>3. \A k \in Messages : StoreInv(k)'
    BY <1>0, <1>6 DEF Keep, SafeInv, StoreInv
  <2>4. \A d \in Clients : ClientInv(d)'
    BY <1>0, <1>6 DEF Keep, SafeInv, ClientInv
  <2>. QED
    BY <1>0, <2>1, <2>2, <2>3, <2>4 DEF SafeInv
<1>7. CASE DeleteBody(c)
  <2>1. TurnInv'
    BY <1>0, <1>7 DEF DeleteBody, SafeInv, TurnInv
  <2>2. \A k \in Messages : SendInv(k)'
    BY <1>0, <1>7 DEF DeleteBody, SafeInv, SendInv, ClientInv, IsNext
  <2>3. \A k \in Messages : StoreInv(k)'
    BY <1>0, <1>7 DEF DeleteBody, SafeInv, StoreInv, ClientInv, IsNext
  <2>4. \A d \in Clients : ClientInv(d)'
    BY <1>0, <1>7 DEF DeleteBody, SafeInv, ClientInv, IsNext
  <2>. QED
    BY <1>0, <2>1, <2>2, <2>3, <2>4 DEF SafeInv
<1>8. CASE AckDone(c)
  <2>1. TurnInv'
    BY <1>0, <1>8 DEF AckDone, SafeInv, TurnInv
  <2>2. \A k \in Messages : SendInv(k)'
    BY <1>0, <1>8 DEF AckDone, SafeInv, SendInv
  <2>3. \A k \in Messages : StoreInv(k)'
    BY <1>0, <1>8 DEF AckDone, SafeInv, StoreInv
  <2>4. \A d \in Clients : ClientInv(d)'
    BY <1>0, <1>8 DEF AckDone, SafeInv, ClientInv
  <2>. QED
    BY <1>0, <2>1, <2>2, <2>3, <2>4 DEF SafeInv
<1>9. CASE FailClient(c)
  <2>1. TurnInv'
    BY <1>0, <1>9 DEF FailClient, SafeInv, TurnInv
  <2>2. \A k \in Messages : SendInv(k)'
    BY <1>0, <1>9 DEF FailClient, SafeInv, SendInv
  <2>3. \A k \in Messages : StoreInv(k)'
    BY <1>0, <1>9 DEF FailClient, SafeInv, StoreInv
  <2>4. \A d \in Clients : ClientInv(d)'
    BY <1>0, <1>9 DEF FailClient, SafeInv, ClientInv
  <2>. QED
    BY <1>0, <2>1, <2>2, <2>3, <2>4 DEF SafeInv
<1>10. CASE Prune(c) \/ Unlist(c)
  BY <1>0, <1>10, SafeRemove
<1>. QED
  BY <1>1, <1>2, <1>3, <1>4, <1>5, <1>6, <1>7, <1>8, <1>9, <1>10 DEF ClientStep

LEMMA SafeTick == SafeInv /\ Tick => SafeInv'
<1>. SUFFICES ASSUME SafeInv, Tick PROVE SafeInv'
  OBVIOUS
<1>. USE ExpiryAssumption DEF Tick, SafeInv, TypeOK, store, locals, history
<1>1. TypeOK'
  OBVIOUS
<1>2. \A m \in Messages : StoreInv(m)'
  BY DEF StoreInv, Expired, PastExpiry
<1>3. \A c \in Clients : ClientInv(c)'
  BY DEF ClientInv, Expired, PastExpiry
<1>. QED
  BY <1>1, <1>2, <1>3 DEF TurnInv, SendInv, Updating

LEMMA SafeNext ==
  ASSUME SafeInv, ~crossed', [Next]_vars
  PROVE  SafeInv'
<1>1. CASE UNCHANGED vars
  BY <1>1 DEF vars, store, locals, history, SafeInv, TypeOK, TurnInv, SendInv, StoreInv,
              ClientInv, Expired, PastExpiry, Updating
<1>. QED
  BY <1>1, SafeSend, SafeClient, SafeTick DEF Next

\* Updates that have overlapped once stay recorded.
LEMMA CrossedStays ==
  ASSUME TypeOK, [Next]_vars, crossed PROVE crossed'
BY DEF TypeOK, Next, vars, store, locals, history, SendStep, ClientStep, StoreBody,
       AppendPendingId, AppendNative, AppendRead, AppendWrite, Accept, FailSend, PullStart,
       PullList, Fetch, Fetched, Prune, Unlist, RemovePendingIds, RemoveNative, RemoveRead,
       RemoveWrite, Receive, Keep, DeleteBody, AckDone, FailClient, Tick

LEMMA SafeAlways == Spec => [](~crossed => SafeInv)
<1>1. Init => TypeOK /\ (~crossed => SafeInv)
  BY TypeInit, SafeInit
<1>2. TypeOK /\ (~crossed => SafeInv) /\ [Next]_vars => TypeOK' /\ (~crossed => SafeInv)'
  BY TypeNext, CrossedStays, SafeNext
<1>. QED
  BY <1>1, <1>2, PTL DEF Spec

\* On a native list updates of the index do not overlap.
LEMMA NativeInTurns ==
  ASSUME NativeList PROVE Spec => []~crossed
<1>1. Init => ~crossed
  BY DEF Init
<1>2. ~crossed /\ [Next]_vars => ~crossed'
  BY DEF Next, vars, store, locals, history, SendStep, ClientStep, StoreBody,
         AppendPendingId, AppendNative, Accept, FailSend, PullStart, PullList, Fetch, Fetched,
         Prune, Unlist, RemovePendingIds, RemoveNative, Receive, Keep, DeleteBody, AckDone,
         FailClient, Tick
<1>. QED
  BY <1>1, <1>2, PTL DEF Spec

\* What SafeInv says of an accepted message and of an entry on the index.
LEMMA SafeImplies ==
  ASSUME SafeInv
  PROVE  NoLostMessage /\ NoDanglingId
<1>. USE ExpiryAssumption DEF SafeInv, TypeOK, SendInv, StoreInv
<1>1. NoLostMessage
  BY DEF NoLostMessage, Due, HasBody, Expired, PastExpiry
<1>2. NoDanglingId
  BY DEF NoDanglingId, HasBody
<1>. QED
  BY <1>1, <1>2

\* On either adapter: as long as updates of the index take turns, an accepted
\* message is listed with its body until it expires or is kept, and acks leave
\* nothing behind on the index, however the requests overlap otherwise and
\* whichever stops part way.
THEOREM TurnsAreSafe == Spec => []SafeInTurns
<1>1. (~crossed => SafeInv) => SafeInTurns
  BY SafeImplies DEF SafeInTurns
<1>. QED
  BY <1>1, SafeAlways, PTL

\* On a native list no overlap of sends, pulls and acks, and no failure part
\* way, makes an accepted message disappear before it expires or is kept.
THEOREM NothingLost ==
  ASSUME NativeList PROVE Spec => []NoLostMessage
<1>1. SafeInTurns /\ ~crossed => NoLostMessage
  BY DEF SafeInTurns
<1>. QED
  BY <1>1, TurnsAreSafe, NativeInTurns, PTL

\* On a native list acks leave nothing behind on the index.
THEOREM NothingDangling ==
  ASSUME NativeList PROVE Spec => []NoDanglingId
<1>1. SafeInTurns /\ ~crossed => NoDanglingId
  BY DEF SafeInTurns
<1>. QED
  BY <1>1, TurnsAreSafe, NativeInTurns, PTL

(***************************************************************************)
(* As long as updates of the index take turns the mailbox implements       *)
(* Delivery.                                                               *)
(***************************************************************************)

\* No message is ever in the phase that Delivery does not know.
LEMMA NeverLost ==
  ASSUME SafeInv, NEW m \in Messages
  PROVE  Phase(m) = IF m \in inbox THEN "taken"
                    ELSE IF place[m] = 0 THEN "unsent"
                    ELSE IF Expired(m) THEN "expired"
                    ELSE "held"
BY DEF SafeInv, StoreInv, Phase, Expired

LEMMA PromiseInit == Init => Promise!Init
BY DEF Init, Promise!Init, Phases, Phase

\* enqueue: the append is the one step the two ends of the mailbox can see.
LEMMA PromiseSend ==
  ASSUME SafeInv, SafeInv', ~crossed', NEW m \in Messages, SendStep(m) \/ FailSend(m)
  PROVE  [Promise!Next]_Phases
<1>. USE MessagesAssumption
     DEF TypeOK, Requests, Goto, store, history, PastExpiry, Expired, Phases
<1>0. TypeOK /\ TypeOK'
  BY DEF SafeInv
<1>1. CASE AppendNative(m) \/ AppendWrite(m)
  <2>1. /\ NextPlace # 0
        /\ pending' = pending \cup {m}
        /\ place' = [place EXCEPT ![m] = NextPlace]
        /\ UNCHANGED <<now, inbox, until>>
    BY <1>1, NextPlaceType DEF AppendNative, AppendWrite, SafeInv, TurnInv, Updating
  <2>2. \A k \in Messages \ {m} : Phase(k)' = Phase(k)
    BY <1>0, <2>1 DEF Phase
  <2>3. Phase(m) = "unsent"
    BY <1>1 DEF AppendNative, AppendWrite, Phase, SafeInv, SendInv
  <2>4. Phase(m)' \in {"held", "expired"}
    BY <1>0, <1>1, <2>1 DEF AppendNative, AppendWrite, Phase, SafeInv, SendInv
  <2>5. Promise!Hold(m)
    BY <2>2, <2>3, <2>4 DEF Promise!Hold
  <2>. QED
    BY <2>5 DEF Promise!Next
<1>2. CASE StoreBody(m)
  BY <1>0, <1>2 DEF StoreBody, Phase, SafeInv, SendInv
<1>3. CASE Accept(m) \/ FailSend(m)
  BY <1>3 DEF Accept, FailSend, Phase
<1>4. CASE AppendRead(m)
  BY <1>4 DEF AppendRead, Phase
<1>. QED
  BY <1>1, <1>2, <1>3, <1>4 DEF SendStep, AppendPendingId

\* pull and ack: only saving the messages to the inbox file shows; what is taken
\* off the index has expired or is in the inbox.
LEMMA PromiseClient ==
  ASSUME SafeInv, SafeInv', ~crossed', NEW c \in Clients, ClientStep(c) \/ FailClient(c)
  PROVE  [Promise!Next]_Phases
<1>. USE DEF TypeOK, Goto, store, history, PastExpiry, Expired, Phases
<1>0. TypeOK /\ TypeOK'
  BY DEF SafeInv
<1>1. CASE Keep(c)
  <2>. DEFINE S == found[c] \ inbox
  <2>1. S \in SUBSET Messages
    BY <1>0
  <2>2. \A m \in S : Phase(m) \in {"held", "expired"}
    BY <1>0, NeverLost DEF SafeInv, ClientInv
  <2>3. \A m \in Messages : Phase(m)' = IF m \in S THEN "taken" ELSE Phase(m)
    BY <1>0, <1>1 DEF Keep, Phase
  <2>4. Promise!Take(S)
    BY <2>1, <2>2, <2>3 DEF Promise!Take
  <2>. QED
    BY <2>1, <2>4 DEF Promise!Next
<1>2. CASE Prune(c) \/ Unlist(c)
  <2>1. /\ UNCHANGED <<now, place, inbox, until>>
        /\ pending' \subseteq pending
        /\ pending \ pending' \subseteq drop[c]
    BY <1>0, <1>2, SafeRemove
  <2>2. \A m \in Messages : Phase(m)' = Phase(m)
    BY <2>1 DEF Phase, SafeInv, ClientInv
  <2>. QED
    BY <2>2
<1>3. CASE \/ PullStart(c) \/ PullList(c) \/ Fetch(c) \/ Fetched(c) \/ Receive(c)
           \/ DeleteBody(c) \/ AckDone(c) \/ FailClient(c)
  <2>1. UNCHANGED <<now, place, pending, inbox, until>>
    BY <1>3 DEF PullStart, PullList, Fetch, Fetched, Receive, DeleteBody, AckDone, FailClient
  <2>. QED
    BY <2>1 DEF Phase
<1>. QED
  BY <1>1, <1>2, <1>3 DEF ClientStep

\* The clock: messages that were held expire together.
LEMMA PromiseTick ==
  ASSUME SafeInv, SafeInv', Tick
  PROVE  [Promise!Next]_Phases
<1>. DEFINE S == {m \in Messages : Phase(m) = "held" /\ Phase(m)' = "expired"}
<1>1. \A m \in Messages : Phase(m)' = IF m \in S THEN "expired" ELSE Phase(m)
  <2>. SUFFICES ASSUME NEW m \in Messages
                PROVE  Phase(m)' = IF m \in S THEN "expired" ELSE Phase(m)
    OBVIOUS
  <2>1. Phase(m) # "lost"
    BY NeverLost
  <2>. QED
    BY <2>1, ExpiryAssumption
       DEF Tick, SafeInv, TypeOK, store, locals, history, Phase, PastExpiry
<1>2. Promise!Expire(S)
  BY <1>1 DEF Promise!Expire, Phases
<1>. QED
  BY <1>2 DEF Promise!Next

\* On either adapter the mailbox does what Delivery promises, and nothing else,
\* as long as updates of the index take turns.
THEOREM DeliveryInTurns == Spec /\ []~crossed => ImplementsDelivery
<1>1. Init => Promise!Init
  BY PromiseInit
<1>2. SafeInv /\ SafeInv' /\ ~crossed' /\ [Next]_vars => [Promise!Next]_Phases
  <2>1. ASSUME UNCHANGED vars PROVE UNCHANGED Phases
    BY <2>1 DEF vars, store, locals, history, Phases, Phase, PastExpiry
  <2>. QED
    BY <2>1, PromiseSend, PromiseClient, PromiseTick DEF Next
<1>. QED
  BY <1>1, <1>2, SafeAlways, PTL DEF Spec, ImplementsDelivery, Promise!Spec

\* On a native list it always does.
THEOREM DeliveryImplemented ==
  ASSUME NativeList PROVE Spec => ImplementsDelivery
BY DeliveryInTurns, NativeInTurns, PTL

(***************************************************************************)
(* On either adapter: what was acknowledged is not delivered again.        *)
(***************************************************************************)

\* An id that any request holds, or that is on the index, has been sent.
SentInv ==
  /\ \A m \in pending \cup settled : pc[m] # "send"
  /\ \A r \in Requests : \A m \in copy[r] : pc[m] # "send"
  /\ \A c \in Clients : \A m \in batch[c] \cup found[c] : pc[m] # "send"

\* An ack deletes the body of all it settles, and a pull finds no body that was
\* gone when it arrived.
AckInv(c) ==
  /\ pc[c] \in {"idle", "list"} => found[c] = {}
  /\ pc[c] \in {"unlist", "unlisting"} => batch[c] = found[c]
  /\ pc[c] = "unlisted" => \A m \in found[c] \ batch[c] : body[m] = 0
  /\ gone[c] \subseteq settled
  /\ found[c] \cap gone[c] = {}

SettledInv ==
  /\ TypeOK
  /\ SentInv
  /\ \A m \in settled : body[m] = 0
  /\ \A c \in Clients : AckInv(c)

LEMMA SettledInit == Init => SettledInv
BY TypeInit, MessagesAssumption
   DEF Init, SettledInv, SentInv, AckInv, Requests

LEMMA SettledSend ==
  ASSUME SettledInv, NEW m \in Messages, SendStep(m) \/ FailSend(m)
  PROVE  SettledInv'
<1>. USE MessagesAssumption
     DEF SettledInv, TypeOK, Requests, Goto, store, history,
         StoreBody, AppendNative, AppendRead, AppendWrite, Accept, FailSend
<1>1. TypeOK'
  BY TypeSend
<1>2. SentInv'
  <2>1. \A r \in Requests : copy'[r] \subseteq copy[r] \cup pending
    BY DEF SendStep, AppendPendingId
  <2>2. pending' \subseteq pending \cup copy[m] \cup {m}
    BY DEF SendStep, AppendPendingId
  <2>3. \A k \in Messages : pc'[k] = pc[k] \/ pc'[k] # "send"
    BY DEF SendStep, AppendPendingId
  <2>4. UNCHANGED <<batch, found, settled>>
    BY DEF SendStep, AppendPendingId
  <2>5. m \in pending' => m \in pending \cup copy[m] \/ pc'[m] # "send"
    BY DEF SendStep, AppendPendingId
  <2>. QED
    BY <2>1, <2>2, <2>3, <2>4, <2>5 DEF SentInv
<1>3. \A k \in settled' : body'[k] = 0
  BY DEF SendStep, AppendPendingId, SentInv
<1>4. \A c \in Clients : AckInv(c)'
  BY DEF SendStep, AppendPendingId, SentInv, AckInv
<1>. QED
  BY <1>1, <1>2, <1>3, <1>4

LEMMA SettledRemove ==
  ASSUME SettledInv, TypeOK', NEW c \in Clients, Prune(c) \/ Unlist(c)
  PROVE  SettledInv'
<1>. USE MessagesAssumption
     DEF SettledInv, TypeOK, Requests, Goto, store, history,
         Prune, Unlist, RemovePendingIds, RemoveNative, RemoveRead, RemoveWrite
<1>1. SentInv'
  <2>1. \A r \in Requests : copy'[r] \subseteq copy[r] \cup pending
    <3>1. copy' = copy \/ copy' = [copy EXCEPT ![c] = pending] \/ copy' = [copy EXCEPT ![c] = {}]
      BY Zenon
    <3>. QED
      BY <3>1
  <2>2. pending' \subseteq pending \cup copy[c]
    OBVIOUS
  <2>3. \A m \in Messages : pc'[m] = pc[m]
    OBVIOUS
  <2>4. UNCHANGED <<batch, found, settled>>
    OBVIOUS
  <2>. QED
    BY <2>1, <2>2, <2>3, <2>4 DEF SentInv
<1>2. \A k \in settled' : body'[k] = 0
  OBVIOUS
<1>3. \A d \in Clients : AckInv(d)'
  BY DEF AckInv
<1>. QED
  BY <1>1, <1>2, <1>3

LEMMA SettledClient ==
  ASSUME SettledInv, NEW c \in Clients, ClientStep(c) \/ FailClient(c)
  PROVE  SettledInv'
<1>. USE MessagesAssumption DEF SettledInv, TypeOK, Requests, Goto, store, history
<1>0. TypeOK /\ TypeOK'
  BY TypeClient
<1>1. CASE PullStart(c)
  <2>1. SentInv'
    BY <1>0, <1>1 DEF PullStart, SentInv
  <2>2. \A k \in settled' : body'[k] = 0
    BY <1>0, <1>1 DEF PullStart, AckInv
  <2>3. \A d \in Clients : AckInv(d)'
    BY <1>0, <1>1 DEF PullStart, AckInv
  <2>. QED
    BY <1>0, <2>1, <2>2, <2>3
<1>2. CASE PullList(c)
  <2>1. SentInv'
    BY <1>0, <1>2 DEF PullList, SentInv, FirstBatch
  <2>2. \A k \in settled' : body'[k] = 0
    BY <1>0, <1>2 DEF PullList, AckInv
  <2>3. \A d \in Clients : AckInv(d)'
    BY <1>0, <1>2 DEF PullList, AckInv
  <2>. QED
    BY <1>0, <2>1, <2>2, <2>3
<1>3. CASE Fetch(c)
  <2>1. SentInv'
    BY <1>0, <1>3 DEF Fetch, SentInv, IsNext
  <2>2. \A k \in settled' : body'[k] = 0
    BY <1>0, <1>3 DEF Fetch, AckInv
  <2>3. \A d \in Clients : AckInv(d)'
    BY <1>0, <1>3 DEF Fetch, AckInv, IsNext, Deliverable, HasBody
  <2>. QED
    BY <1>0, <2>1, <2>2, <2>3
<1>4. CASE Fetched(c)
  <2>1. SentInv'
    BY <1>0, <1>4 DEF Fetched, SentInv
  <2>2. \A k \in settled' : body'[k] = 0
    BY <1>0, <1>4 DEF Fetched, AckInv
  <2>3. \A d \in Clients : AckInv(d)'
    BY <1>0, <1>4 DEF Fetched, AckInv
  <2>. QED
    BY <1>0, <2>1, <2>2, <2>3
<1>5. CASE Receive(c)
  <2>1. SentInv'
    BY <1>0, <1>5 DEF Receive, SentInv
  <2>2. \A k \in settled' : body'[k] = 0
    BY <1>0, <1>5 DEF Receive, AckInv
  <2>3. \A d \in Clients : AckInv(d)'
    BY <1>0, <1>5 DEF Receive, AckInv
  <2>. QED
    BY <1>0, <2>1, <2>2, <2>3
<1>6. CASE Keep(c)
  <2>1. SentInv'
    BY <1>0, <1>6 DEF Keep, SentInv
  <2>2. \A k \in settled' : body'[k] = 0
    BY <1>0, <1>6 DEF Keep, AckInv
  <2>3. \A d \in Clients : AckInv(d)'
    BY <1>0, <1>6 DEF Keep, AckInv
  <2>. QED
    BY <1>0, <2>1, <2>2, <2>3
<1>7. CASE DeleteBody(c)
  <2>1. SentInv'
    BY <1>0, <1>7 DEF DeleteBody, SentInv
  <2>2. \A k \in settled' : body'[k] = 0
    BY <1>0, <1>7 DEF DeleteBody, AckInv
  <2>3. \A d \in Clients : AckInv(d)'
    BY <1>0, <1>7 DEF DeleteBody, AckInv, IsNext
  <2>. QED
    BY <1>0, <2>1, <2>2, <2>3
<1>8. CASE AckDone(c)
  <2>1. SentInv'
    BY <1>0, <1>8 DEF AckDone, SentInv, AckInv
  <2>2. \A k \in settled' : body'[k] = 0
    BY <1>0, <1>8 DEF AckDone, AckInv
  <2>3. \A d \in Clients : AckInv(d)'
    BY <1>0, <1>8 DEF AckDone, AckInv
  <2>. QED
    BY <1>0, <2>1, <2>2, <2>3
<1>9. CASE FailClient(c)
  <2>1. SentInv'
    BY <1>0, <1>9 DEF FailClient, SentInv
  <2>2. \A k \in settled' : body'[k] = 0
    BY <1>0, <1>9 DEF FailClient, AckInv
  <2>3. \A d \in Clients : AckInv(d)'
    BY <1>0, <1>9 DEF FailClient, AckInv
  <2>. QED
    BY <1>0, <2>1, <2>2, <2>3
<1>10. CASE Prune(c) \/ Unlist(c)
  BY <1>0, <1>10, SettledRemove
<1>. QED
  BY <1>1, <1>2, <1>3, <1>4, <1>5, <1>6, <1>7, <1>8, <1>9, <1>10 DEF ClientStep

LEMMA SettledNext == SettledInv /\ [Next]_vars => SettledInv'
<1>. SUFFICES ASSUME SettledInv, [Next]_vars PROVE SettledInv'
  OBVIOUS
<1>1. CASE Tick \/ UNCHANGED vars
  <2>1. TypeOK'
    BY <1>1, TypeNext DEF SettledInv
  <2>2. UNCHANGED <<store, locals, history>>
    BY <1>1 DEF Tick, vars
  <2>. QED
    BY <2>1, <2>2 DEF store, locals, history, SettledInv, SentInv, AckInv
<1>. QED
  BY <1>1, SettledSend, SettledClient DEF Next

\* On either adapter, lost updates of the index included, a pull that arrives
\* after an ack of m was answered 200 never returns m.
THEOREM NothingRedelivered == Spec => []NoRedeliveryAfterAck
<1>1. SettledInv => NoRedeliveryAfterAck
  BY DEF SettledInv, AckInv, NoRedeliveryAfterAck
<1>. QED
  BY <1>1, SettledInit, SettledNext, PTL DEF Spec

(***************************************************************************)
(* Behind the rate limit of POST /pull (module Polling).                   *)
(* Every step is a step of Mailbox or leaves it alone: what is proved of   *)
(* Mailbox holds behind the rate limit.                                    *)
(***************************************************************************)

LEMMA BrokenType == PollingSpec => [](broken \in Nat)
<1>1. PollingInit => broken \in Nat
  BY DEF PollingInit
<1>2. broken \in Nat /\ [PollingNext]_pollingVars => (broken \in Nat)'
  <2>. SUFFICES ASSUME broken \in Nat, [PollingNext]_pollingVars PROVE broken' \in Nat
    OBVIOUS
  <2>1. broken' = broken \/ broken' = broken + 1
    BY DEF PollingNext, PollStep, Ask, Refused, Allowed, LetIn, MailboxStep, FailCheck,
           MailboxFailure, Elapse, limit, pollingVars
  <2>. QED
    BY <2>1
<1>. QED
  BY <1>1, <1>2, PTL DEF PollingSpec

LEMMA StepOfMailbox ==
  ASSUME TypeOK, broken \in Nat, [PollingNext]_pollingVars PROVE [Next]_vars
<1>1. CASE UNCHANGED pollingVars
  BY <1>1 DEF pollingVars
<1>2. CASE \E m \in Messages : SendStep(m) /\ UNCHANGED limit
  BY <1>2 DEF Next
<1>3. CASE \E c \in Clients : PollStep(c) \/ FailCheck(c)
  <2>1. PICK c \in Clients : PollStep(c) \/ FailCheck(c)
    BY <1>3
  <2>2. CASE Ask(c) \/ Refused(c) \/ Allowed(c) \/ FailCheck(c)
    BY <2>2 DEF Ask, Refused, Allowed, FailCheck
  <2>3. CASE LetIn(c)
    BY <2>3 DEF LetIn, ClientStep, Next
  <2>4. CASE MailboxStep(c)
    BY <2>4 DEF MailboxStep, ClientStep, Next
  <2>. QED
    BY <2>1, <2>2, <2>3, <2>4 DEF PollStep
<1>4. CASE MailboxFailure
  BY <1>4 DEF MailboxFailure, Next
<1>5. CASE Elapse
  BY <1>5 DEF Elapse, Next
<1>. QED
  BY <1>1, <1>2, <1>3, <1>4, <1>5 DEF PollingNext

\* Refused and charged pulls only leave out steps of the mailbox: whatever the
\* rate limit does, its messages are handled as Mailbox says.
THEOREM ImplementsMailbox == PollingSpec => Spec
<1>1. PollingInit => Init
  BY DEF PollingInit
<1>2. PollingInit /\ [][PollingNext]_pollingVars /\ [](broken \in Nat) => [][Next]_vars
  <2>1. TypeOK /\ broken \in Nat /\ [PollingNext]_pollingVars => [Next]_vars
    BY StepOfMailbox
  <2>2. TypeOK /\ broken \in Nat /\ [PollingNext]_pollingVars => TypeOK'
    BY <2>1, TypeNext
  <2>. QED
    BY <1>1, <2>1, <2>2, TypeInit, PTL
<1>. QED
  BY <1>1, <1>2, BrokenType, PTL DEF PollingSpec, Spec

\* A message that was acknowledged is not delivered again, whoever polls.
THEOREM NothingRedeliveredBehindLimit == PollingSpec => []NoRedeliveryAfterAck
BY ImplementsMailbox, NothingRedelivered, PTL

\* Neither a refused pull nor one that was charged and then failed loses a
\* message: only updates of the index that overlap can.
THEOREM SafeBehindLimit == PollingSpec => []SafeInTurns
BY ImplementsMailbox, TurnsAreSafe, PTL

\* Seen from outside, the mailbox behind the limit still keeps the promise of
\* module Delivery as long as updates of the index take turns.
THEOREM DeliveryBehindLimit == PollingSpec /\ []~crossed => ImplementsDelivery
BY ImplementsMailbox, DeliveryInTurns, PTL

(***************************************************************************)
(* The limit's own state.                                                  *)
(***************************************************************************)

LimitType ==
  /\ age \in 0 .. Old
  /\ gate \in [Clients -> {"out", "read", "write"}]
  /\ delay \in [Clients -> 0 .. Interval]
  /\ owed \in [Clients -> 0 .. NoPromise]
  /\ broken \in Nat

\* What is left of a retry_after, and the record's age, add up to the interval;
\* a check that was started when it was over stays behind the record.
OwedInv ==
  \A c \in Clients :
    /\ owed[c] # NoPromise => age + owed[c] >= Interval
    /\ gate[c] # "out" => owed[c] = NoPromise \/ (owed[c] = 0 /\ age >= Interval + delay[c])

LimitInv == LimitType /\ OwedInv

LEMMA LimitInit == PollingInit => LimitInv
<1>1. /\ Old \in Nat /\ 0 <= Old /\ NoPromise \in 0 .. NoPromise /\ Interval \in Nat
  BY IntervalAssumption DEF Old, NoPromise
<1>. QED
  BY <1>1 DEF PollingInit, LimitInv, LimitType, OwedInv

LEMMA LimitNext == LimitInv /\ [PollingNext]_pollingVars => LimitInv'
<1>. SUFFICES ASSUME LimitInv, [PollingNext]_pollingVars PROVE LimitInv'
  OBVIOUS
<1>. USE IntervalAssumption DEF LimitInv, LimitType, OwedInv, Old, NoPromise
<1>1. CASE UNCHANGED limit
  BY <1>1 DEF limit
<1>2. ASSUME NEW c \in Clients, Ask(c) PROVE LimitInv'
  <2>1. /\ age' = age /\ broken' = broken /\ gate[c] = "out"
        /\ gate' = [gate EXCEPT ![c] = "read"] /\ delay' = [delay EXCEPT ![c] = 0]
        /\ owed' = [owed EXCEPT ![c] = IF owed[c] = 0 THEN 0 ELSE NoPromise]
    BY <1>2 DEF Ask
  <2>. QED
    BY <2>1
<1>3. ASSUME NEW c \in Clients, Refused(c) PROVE LimitInv'
  <2>1. RetryAfter(c) \in 1 .. Old
    BY <1>3 DEF Refused, TooSoon, RetryAfter
  <2>2. /\ UNCHANGED <<age, delay, broken>>
        /\ gate' = [gate EXCEPT ![c] = "out"]
        /\ owed' = [owed EXCEPT ![c] = RetryAfter(c)]
    BY <1>3 DEF Refused
  <2>3. age + RetryAfter(c) >= Interval
    BY DEF RetryAfter
  <2>. QED
    BY <2>1, <2>2, <2>3
<1>4. ASSUME NEW c \in Clients, Allowed(c) PROVE LimitInv'
  BY <1>4 DEF Allowed
<1>5. ASSUME NEW c \in Clients, LetIn(c) PROVE LimitInv'
  <2>1. /\ UNCHANGED <<delay, broken>> /\ age' = delay[c]
        /\ gate' = [gate EXCEPT ![c] = "out"]
        /\ owed' = [d \in Clients |-> NoPromise]
    BY <1>5 DEF LetIn
  <2>. QED
    BY <2>1
<1>6. ASSUME NEW c \in Clients, FailCheck(c) PROVE LimitInv'
  BY <1>6 DEF FailCheck
<1>7. CASE Elapse
  <2>1. /\ \A c \in Clients : gate[c] # "out" => delay[c] < Interval
        /\ age' = IF age < Old THEN age + 1 ELSE Old
        /\ delay' = [c \in Clients |-> IF gate[c] = "out" THEN 0 ELSE delay[c] + 1]
        /\ owed' = [c \in Clients |->
                      IF owed[c] \in {0, NoPromise} THEN owed[c] ELSE owed[c] - 1]
        /\ UNCHANGED <<gate, broken>>
    BY <1>7 DEF Elapse
  <2>2. LimitType'
    BY <2>1
  <2>3. ASSUME NEW c \in Clients
        PROVE  /\ owed'[c] # NoPromise => age' + owed'[c] >= Interval
               /\ gate'[c] # "out" =>
                    owed'[c] = NoPromise \/ (owed'[c] = 0 /\ age' >= Interval + delay'[c])
    BY <2>1
  <2>. QED
    BY <2>2, <2>3
<1>. QED
  BY <1>1, <1>2, <1>3, <1>4, <1>5, <1>6, <1>7
  DEF PollingNext, PollStep, MailboxStep, MailboxFailure, pollingVars

LEMMA LimitAlways == PollingSpec => []LimitInv
BY LimitInit, LimitNext, PTL DEF PollingSpec

\* Every variable of the mailbox and of the limit keeps its range.
THEOREM PollingTypeCorrect == PollingSpec => []PollingTypeOK
<1>1. TypeOK /\ LimitInv => PollingTypeOK
  BY DEF LimitInv, LimitType, PollingTypeOK
<1>. QED
  BY <1>1, ImplementsMailbox, TypeCorrect, LimitAlways, PTL

\* Who waits out a retry_after is not refused again.
THEOREM RetryAfterKept == PollingSpec => RetryAfterSteps
<1>1. ASSUME LimitInv, [PollingNext]_pollingVars, NEW c \in Clients,
             gate[c] = "read", gate'[c] = "out", broken' = broken
      PROVE  owed[c] # 0
  <2>. USE DEF LimitInv, LimitType
  <2>1. Refused(c)
    BY <1>1 DEF PollingNext, PollStep, Ask, Refused, Allowed, LetIn, MailboxStep, FailCheck,
                MailboxFailure, Elapse, limit, pollingVars
  <2>. QED
    BY <1>1, <2>1, IntervalAssumption DEF Refused, TooSoon, OwedInv, NoPromise, Old
<1>2. LimitInv /\ [PollingNext]_pollingVars =>
        [\A c \in Clients :
           gate[c] = "read" /\ gate'[c] = "out" /\ broken' = broken => owed[c] # 0]_pollingVars
  BY <1>1
<1>. QED
  BY <1>2, LimitAlways, PTL DEF PollingSpec, RetryAfterSteps

=============================================================================
