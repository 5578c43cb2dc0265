---------------------------- MODULE Inbox_proofs ----------------------------
(***************************************************************************)
(* Theorems about module Inbox, for any messages, any runs of the three    *)
(* commands, any batch size and any active_max.                            *)
(***************************************************************************)
EXTENDS Inbox, FiniteSetTheorems, SequenceTheorems, TLAPS

(***************************************************************************)
(* The places of a list, and the entries picked from it.                   *)
(***************************************************************************)

Rank(places, k) == Cardinality({j \in places : j <= k})

\* A later place has a higher rank.
LEMMA RankGrows ==
  ASSUME NEW n \in Nat, NEW S \in SUBSET (1 .. n), NEW j \in S, NEW k \in S, j < k
  PROVE  Rank(S, j) < Rank(S, k)
<1>. DEFINE A == {i \in S : i <= j}
            B == {i \in S : i <= k}
<1>0. j \in Nat /\ k \in Nat /\ ~(k <= j) /\ \A i \in S : i \in Nat
  OBVIOUS
<1>1. IsFiniteSet(S)
  <2>1. IsFiniteSet(1 .. n)
    BY FS_Interval
  <2>. QED
    BY <2>1, FS_Subset
<1>2. B \in SUBSET S /\ IsFiniteSet(B)
  BY <1>1, FS_Subset
<1>3. A \in SUBSET B /\ A # B
  <2>1. \A i \in S : i <= j => i <= k
    BY <1>0
  <2>3. A \in SUBSET B
    BY <2>1
  <2>2. k \in B /\ k \notin A
    BY <1>0
  <2>. QED
    BY <2>2, <2>3
<1>4. Cardinality(A) < Cardinality(B)
  <2>. HIDE DEF A, B
  <2>1. Cardinality(A) <= Cardinality(B) /\ (Cardinality(A) = Cardinality(B) => A = B)
    BY <1>2, <1>3, FS_Subset
  <2>2. Cardinality(A) \in Nat /\ Cardinality(B) \in Nat
    BY <1>2, <1>3, FS_Subset, FS_CardinalityType
  <2>. QED
    BY <1>3, <2>1, <2>2
<1>. QED
  BY <1>4 DEF Rank

\* The ranks of the places are 1 to their number.
LEMMA RankOnto ==
  ASSUME NEW n \in Nat, NEW S \in SUBSET (1 .. n)
  PROVE  /\ IsFiniteSet(S) /\ Cardinality(S) \in Nat /\ Cardinality(S) <= n
         /\ \A k \in S : Rank(S, k) \in 1 .. Cardinality(S)
         /\ \A j, k \in S : Rank(S, j) = Rank(S, k) => j = k
         /\ \A i \in 1 .. Cardinality(S) : \E k \in S : Rank(S, k) = i
<1>1. IsFiniteSet(1 .. n) /\ Cardinality(1 .. n) = n
  BY FS_Interval
<1>2. IsFiniteSet(S) /\ Cardinality(S) \in Nat /\ Cardinality(S) <= n
  BY <1>1, FS_Subset, FS_CardinalityType
<1>3. ASSUME NEW k \in S PROVE Rank(S, k) \in 1 .. Cardinality(S)
  <2>. DEFINE A == {i \in S : i <= k}
  <2>1. A \in SUBSET S /\ A # {}
    OBVIOUS
  <2>. HIDE DEF A
  <2>2. IsFiniteSet(A) /\ Cardinality(A) \in Nat /\ Cardinality(A) <= Cardinality(S)
    BY <1>2, <2>1, FS_Subset, FS_CardinalityType
  <2>3. Cardinality(A) # 0
    BY <2>1, <2>2, FS_EmptySet
  <2>. QED
    BY <1>2, <2>2, <2>3 DEF Rank, A
<1>4. ASSUME NEW j \in S, NEW k \in S, Rank(S, j) = Rank(S, k) PROVE j = k
  <2>1. Rank(S, j) \in Nat /\ Rank(S, k) \in Nat
    BY <1>3
  <2>2. ~(Rank(S, j) < Rank(S, k)) /\ ~(Rank(S, k) < Rank(S, j))
    BY <1>4, <2>1
  <2>3. ~(j < k) /\ ~(k < j)
    BY <2>2, RankGrows, Zenon
  <2>. QED
    BY <2>3
<1>5. ASSUME NEW i \in 1 .. Cardinality(S) PROVE \E k \in S : Rank(S, k) = i
  <2>. DEFINE f == [k \in S |-> Rank(S, k)]
              R == 1 .. Cardinality(S)
  <2>1. f \in Injection(S, R)
    BY <1>3, <1>4 DEF Injection, IsInjective
  <2>2. IsFiniteSet(R) /\ Cardinality(R) = Cardinality(S)
    BY <1>2, FS_Interval
  <2>3. f \in Surjection(S, R)
    <3>. HIDE DEF f, R
    <3>. QED
      BY <2>1, <2>2, FS_Injection
  <2>. QED
    BY <2>3 DEF Surjection
<1>. QED
  BY <1>2, <1>3, <1>4, <1>5

\* Nth counts the places off.
LEMMA NthIs ==
  ASSUME NEW n \in Nat, NEW S \in SUBSET (1 .. n)
  PROVE  /\ Cardinality(S) \in Nat /\ Cardinality(S) <= n
         /\ \A i \in 1 .. Cardinality(S) : Nth(S, i) \in S
         /\ \A i, j \in 1 .. Cardinality(S) : Nth(S, i) = Nth(S, j) => i = j
         /\ \A k \in S : \E i \in 1 .. Cardinality(S) : Nth(S, i) = k
<1>1. ASSUME NEW i \in 1 .. Cardinality(S) PROVE Nth(S, i) \in S /\ Rank(S, Nth(S, i)) = i
  <2>1. \E k \in S : Rank(S, k) = i
    BY RankOnto
  <2>. QED
    BY <2>1 DEF Nth, Rank
<1>2. ASSUME NEW k \in S PROVE \E i \in 1 .. Cardinality(S) : Nth(S, i) = k
  <2>1. Rank(S, k) \in 1 .. Cardinality(S)
    BY RankOnto
  <2>2. /\ Nth(S, Rank(S, k)) \in S
        /\ Rank(S, Nth(S, Rank(S, k))) = Rank(S, k)
    BY <1>1, <2>1
  <2>3. \A j \in S : Rank(S, j) = Rank(S, k) => j = k
    BY RankOnto
  <2>4. Nth(S, Rank(S, k)) = k
    BY <2>2, <2>3
  <2>. QED
    BY <2>1, <2>4
<1>. QED
  BY <1>1, <1>2, RankOnto

\* What is picked from a list: the entries at the places, each once.
LEMMA PickedList ==
  ASSUME NEW T, NEW list \in Seq(T), NEW S \in SUBSET (DOMAIN list)
  PROVE  /\ Picked(list, S) \in Seq(T)
         /\ Len(Picked(list, S)) <= Len(list)
         /\ \A i \in DOMAIN Picked(list, S) :
              Nth(S, i) \in S /\ Picked(list, S)[i] = list[Nth(S, i)]
         /\ \A i, j \in DOMAIN Picked(list, S) : Nth(S, i) = Nth(S, j) => i = j
         /\ \A k \in S : \E i \in DOMAIN Picked(list, S) : Picked(list, S)[i] = list[k]
<1>1. Len(list) \in Nat /\ DOMAIN list = 1 .. Len(list) /\ \A k \in DOMAIN list : list[k] \in T
  BY LenProperties, ElementOfSeq
<1>2. /\ Cardinality(S) \in Nat /\ Cardinality(S) <= Len(list)
      /\ \A i \in 1 .. Cardinality(S) : Nth(S, i) \in S
      /\ \A i, j \in 1 .. Cardinality(S) : Nth(S, i) = Nth(S, j) => i = j
      /\ \A k \in S : \E i \in 1 .. Cardinality(S) : Nth(S, i) = k
  BY <1>1, NthIs
<1>3. /\ DOMAIN Picked(list, S) = 1 .. Cardinality(S)
      /\ \A i \in 1 .. Cardinality(S) : Picked(list, S)[i] = list[Nth(S, i)]
  BY DEF Picked
<1>4. Picked(list, S) \in [1 .. Cardinality(S) -> T]
  BY <1>1, <1>2 DEF Picked
<1>5. Picked(list, S) \in Seq(T) /\ Len(Picked(list, S)) = Cardinality(S)
  <2>1. Picked(list, S) \in Seq(T)
    BY <1>2, <1>4, IsASeq
  <2>. QED
    BY <1>2, <1>3, <2>1, LenProperties
<1>. QED
  BY <1>1, <1>2, <1>3, <1>5

(***************************************************************************)
(* Lists of entries: which ids they hold, whether an id is there twice, and *)
(* whether every copy of a message is read.                                *)
(***************************************************************************)

Distinct(list) == \A j, k \in DOMAIN list : list[j].id = list[k].id => j = k
ReadIn(list, m) == \A k \in DOMAIN list : list[k].id = m => list[k].isRead
Once(ids) == \A j, k \in DOMAIN ids : ids[j] = ids[k] => j = k
In(ids) == {ids[k] : k \in DOMAIN ids}
AllIds(lists) == UNION {Ids(lists[i]) : i \in DOMAIN lists}

\* An entry is a record of a message and a flag.
LEMMA EntryFields ==
  ASSUME NEW list \in Seq(Entry), NEW k \in DOMAIN list
  PROVE  list[k] \in Entry /\ list[k].id \in Messages /\ list[k].isRead \in BOOLEAN
<1>1. list[k] \in Entry
  BY LenProperties, ElementOfSeq
<1>. QED
  BY <1>1 DEF Entry

\* Picking makes no new ids, no second copies and no unread ones.
LEMMA PickedEntries ==
  ASSUME NEW list \in Seq(Entry), NEW S \in SUBSET (DOMAIN list)
  PROVE  /\ Picked(list, S) \in Seq(Entry)
         /\ Len(Picked(list, S)) <= Len(list)
         /\ Ids(Picked(list, S)) = {list[k].id : k \in S}
         /\ Distinct(list) => Distinct(Picked(list, S))
         /\ \A m : ReadIn(list, m) => ReadIn(Picked(list, S), m)
<1>. DEFINE p == Picked(list, S)
<1>1. /\ p \in Seq(Entry) /\ Len(p) <= Len(list)
      /\ \A i \in DOMAIN p : Nth(S, i) \in S /\ p[i] = list[Nth(S, i)]
      /\ \A i, j \in DOMAIN p : Nth(S, i) = Nth(S, j) => i = j
      /\ \A k \in S : \E i \in DOMAIN p : p[i] = list[k]
  BY PickedList
<1>. HIDE DEF p
<1>2. Ids(p) = {list[k].id : k \in S}
  BY <1>1 DEF Ids
<1>3. ASSUME Distinct(list) PROVE Distinct(p)
  BY <1>1, <1>3 DEF Distinct
<1>4. ASSUME NEW m, ReadIn(list, m) PROVE ReadIn(p, m)
  BY <1>1, <1>4 DEF ReadIn
<1>. QED
  BY <1>1, <1>2, <1>3, <1>4 DEF p

\* The entries without some ids, with some ids, and the read ones.
LEMMA Filtered ==
  ASSUME NEW list \in Seq(Entry), NEW ids
  PROVE  /\ Without(list, ids) \in Seq(Entry) /\ Len(Without(list, ids)) <= Len(list)
         /\ Only(list, ids) \in Seq(Entry) /\ OnlyRead(list) \in Seq(Entry)
         /\ Ids(Without(list, ids)) = Ids(list) \ ids
         /\ Ids(Only(list, ids)) = Ids(list) \cap ids
         /\ Ids(OnlyRead(list)) \subseteq Ids(list)
         /\ Distinct(list) =>
              Distinct(Without(list, ids)) /\ Distinct(Only(list, ids)) /\ Distinct(OnlyRead(list))
         /\ \A m : ReadIn(list, m) => ReadIn(Without(list, ids), m)
<1>. DEFINE out == {k \in DOMAIN list : list[k].id \notin ids}
            in == {k \in DOMAIN list : list[k].id \in ids}
            read == {k \in DOMAIN list : list[k].isRead}
<1>1. /\ Picked(list, out) \in Seq(Entry) /\ Len(Picked(list, out)) <= Len(list)
      /\ Ids(Picked(list, out)) = {list[k].id : k \in out}
      /\ Distinct(list) => Distinct(Picked(list, out))
      /\ \A m : ReadIn(list, m) => ReadIn(Picked(list, out), m)
  <2>1. out \in SUBSET (DOMAIN list)
    OBVIOUS
  <2>. QED
    BY <2>1, PickedEntries
<1>2. /\ Picked(list, in) \in Seq(Entry)
      /\ Ids(Picked(list, in)) = {list[k].id : k \in in}
      /\ Distinct(list) => Distinct(Picked(list, in))
  <2>1. in \in SUBSET (DOMAIN list)
    OBVIOUS
  <2>. QED
    BY <2>1, PickedEntries
<1>3. /\ Picked(list, read) \in Seq(Entry)
      /\ Ids(Picked(list, read)) = {list[k].id : k \in read}
      /\ Distinct(list) => Distinct(Picked(list, read))
  <2>1. read \in SUBSET (DOMAIN list)
    OBVIOUS
  <2>. QED
    BY <2>1, PickedEntries
<1>4. /\ {list[k].id : k \in out} = Ids(list) \ ids
      /\ {list[k].id : k \in in} = Ids(list) \cap ids
      /\ {list[k].id : k \in read} \subseteq Ids(list)
  BY DEF Ids
<1>5. /\ Without(list, ids) = Picked(list, out)
      /\ Only(list, ids) = Picked(list, in)
      /\ OnlyRead(list) = Picked(list, read)
  BY DEF Without, Only, OnlyRead
<1>. HIDE DEF out, in, read
<1>. QED
  BY <1>1, <1>2, <1>3, <1>4, <1>5

\* A list cut in two: the halves share its entries out.
LEMMA Halves ==
  ASSUME NEW list \in Seq(Entry), NEW n \in Nat, n <= Len(list)
  PROVE  /\ SubSeq(list, 1, n) \in Seq(Entry)
         /\ SubSeq(list, n + 1, Len(list)) \in Seq(Entry)
         /\ Len(SubSeq(list, n + 1, Len(list))) = Len(list) - n
         /\ Ids(SubSeq(list, 1, n)) \cup Ids(SubSeq(list, n + 1, Len(list))) = Ids(list)
         /\ Distinct(list) =>
              /\ Distinct(SubSeq(list, 1, n)) /\ Distinct(SubSeq(list, n + 1, Len(list)))
              /\ Ids(SubSeq(list, 1, n)) \cap Ids(SubSeq(list, n + 1, Len(list))) = {}
         /\ \A m : ReadIn(list, m) => ReadIn(SubSeq(list, n + 1, Len(list)), m)
<1>. DEFINE N == Len(list)
            a == SubSeq(list, 1, n)
            b == SubSeq(list, n + 1, N)
<1>1. N \in Nat /\ DOMAIN list = 1 .. N /\ \A k \in 1 .. N : list[k] \in Entry
  BY LenProperties, ElementOfSeq
<1>. HIDE DEF N
<1>2. a \in Seq(Entry) /\ Len(a) = n /\ DOMAIN a = 1 .. n /\ \A i \in 1 .. n : a[i] = list[i]
  <2>1. \A i \in 1 .. n : list[i] \in Entry
    BY <1>1 DEF N
  <2>2. /\ a \in Seq(Entry) /\ Len(a) = IF 1 <= n THEN n - 1 + 1 ELSE 0
        /\ \A i \in 1 .. n - 1 + 1 : a[i] = list[1 + i - 1]
    BY <2>1, SubSeqProperties
  <2>3. Len(a) = n
    BY <2>2
  <2>. HIDE DEF a
  <2>4. DOMAIN a = 1 .. n
    BY <2>2, <2>3, LenProperties
  <2>5. \A i \in 1 .. n : a[i] = list[i]
    BY <2>2
  <2>. QED
    BY <2>2, <2>3, <2>4, <2>5
<1>3. /\ b \in Seq(Entry) /\ Len(b) = N - n /\ DOMAIN b = 1 .. N - n
      /\ \A i \in 1 .. N - n : b[i] = list[n + i]
  <2>0. n <= N
    BY DEF N
  <2>1. \A i \in n + 1 .. N : list[i] \in Entry
    BY <1>1, <2>0
  <2>2. /\ b \in Seq(Entry) /\ Len(b) = IF n + 1 <= N THEN N - (n + 1) + 1 ELSE 0
        /\ \A i \in 1 .. N - (n + 1) + 1 : b[i] = list[n + 1 + i - 1]
    BY <1>1, <2>1, SubSeqProperties
  <2>3. Len(b) = N - n
    BY <2>2, <2>0, <1>1
  <2>. HIDE DEF b
  <2>4. DOMAIN b = 1 .. N - n
    BY <2>2, <2>3, LenProperties
  <2>5. \A i \in 1 .. N - n : b[i] = list[n + i]
    BY <2>2, <1>1, <2>0
  <2>. QED
    BY <2>2, <2>3, <2>4, <2>5
<1>4. n <= N
  BY DEF N
<1>. HIDE DEF a, b
<1>5. Ids(a) \cup Ids(b) = Ids(list)
  <2>1. Ids(a) \subseteq Ids(list) /\ Ids(b) \subseteq Ids(list)
    <3>1. \A i \in 1 .. n : i \in 1 .. N /\ a[i] = list[i]
      BY <1>1, <1>2, <1>4
    <3>2. \A i \in 1 .. N - n : n + i \in 1 .. N /\ b[i] = list[n + i]
      BY <1>1, <1>3, <1>4
    <3>3. Ids(a) \subseteq Ids(list)
      BY <3>1, <1>1, <1>2 DEF Ids
    <3>4. Ids(b) \subseteq Ids(list)
      BY <3>2, <1>1, <1>3 DEF Ids
    <3>. QED
      BY <3>3, <3>4
  <2>2. ASSUME NEW k \in 1 .. N PROVE list[k].id \in Ids(a) \cup Ids(b)
    <3>1. CASE k <= n
      BY <3>1, <1>1, <1>2 DEF Ids
    <3>2. CASE ~(k <= n)
      <4>1. k - n \in 1 .. N - n /\ n + (k - n) = k
        BY <3>2, <1>1, <1>4
      <4>2. b[k - n] = list[k]
        BY <4>1, <1>3
      <4>. QED
        BY <4>1, <4>2, <1>3 DEF Ids
    <3>. QED
      BY <3>1, <3>2
  <2>. QED
    BY <1>1, <2>1, <2>2 DEF Ids
<1>6. ASSUME Distinct(list) PROVE Distinct(a) /\ Distinct(b) /\ Ids(a) \cap Ids(b) = {}
  <2>1. Distinct(a)
    BY <1>1, <1>2, <1>4, <1>6 DEF Distinct
  <2>2. Distinct(b)
    <3>1. ASSUME NEW j \in 1 .. N - n, NEW k \in 1 .. N - n, b[j].id = b[k].id PROVE j = k
      <4>1. n + j \in 1 .. N /\ n + k \in 1 .. N
        BY <1>1, <1>4
      <4>2. list[n + j].id = list[n + k].id
        BY <1>3, <3>1
      <4>3. n + j = n + k
        BY <4>1, <4>2, <1>1, <1>6 DEF Distinct
      <4>. QED
        BY <4>3
    <3>. QED
      BY <1>3, <3>1 DEF Distinct
  <2>3. ASSUME NEW j \in 1 .. n, NEW k \in 1 .. N - n, a[j].id = b[k].id PROVE FALSE
    <3>1. j \in 1 .. N /\ n + k \in 1 .. N /\ j # n + k
      BY <1>1, <1>4
    <3>2. list[j].id = list[n + k].id
      BY <1>2, <1>3, <2>3
    <3>. QED
      BY <3>1, <3>2, <1>1, <1>6 DEF Distinct
  <2>4. Ids(a) \cap Ids(b) = {}
    <3>1. Ids(a) = {a[j].id : j \in 1 .. n} /\ Ids(b) = {b[k].id : k \in 1 .. N - n}
      BY <1>2, <1>3 DEF Ids
    <3>. QED
      BY <3>1, <2>3
  <2>. QED
    BY <2>1, <2>2, <2>4
<1>7. ASSUME NEW m, ReadIn(list, m) PROVE ReadIn(b, m)
  <2>1. ASSUME NEW k \in 1 .. N - n PROVE n + k \in 1 .. N
    BY <1>1, <1>4
  <2>. QED
    BY <2>1, <1>1, <1>3, <1>7 DEF ReadIn
<1>. QED
  BY <1>2, <1>3, <1>5, <1>6, <1>7 DEF a, b, N

\* The inbox with a batch added to it.
LEMMA Joined ==
  ASSUME NEW list \in Seq(Entry), NEW ids \in Seq(Messages)
  PROVE  /\ list \o Unread(ids) \in Seq(Entry)
         /\ Ids(list \o Unread(ids)) = Ids(list) \cup In(ids)
         /\ Distinct(list) /\ Once(ids) /\ Ids(list) \cap In(ids) = {} =>
              Distinct(list \o Unread(ids))
         /\ \A m : ReadIn(list, m) /\ m \notin In(ids) => ReadIn(list \o Unread(ids), m)
<1>. DEFINE u == Unread(ids)
            l == list \o u
            N == Len(list)
            M == Len(ids)
<1>1. /\ N \in Nat /\ DOMAIN list = 1 .. N /\ \A k \in 1 .. N : list[k] \in Entry
      /\ M \in Nat /\ DOMAIN ids = 1 .. M /\ \A k \in 1 .. M : ids[k] \in Messages
  BY LenProperties, ElementOfSeq
<1>2. /\ u \in Seq(Entry) /\ Len(u) = M /\ DOMAIN u = 1 .. M
      /\ \A k \in 1 .. M : u[k].id = ids[k] /\ u[k].isRead = FALSE
  <2>1. u = [k \in 1 .. M |-> [id |-> ids[k], isRead |-> FALSE]]
    BY <1>1 DEF Unread
  <2>2. \A k \in 1 .. M : [id |-> ids[k], isRead |-> FALSE] \in Entry
    BY <1>1 DEF Entry
  <2>3. u \in [1 .. M -> Entry]
    BY <2>1, <2>2
  <2>. HIDE DEF u, M
  <2>4. u \in Seq(Entry)
    BY <2>3, <1>1, SeqDef
  <2>. QED
    BY <2>1, <2>4, <1>1, LenProperties
<1>. HIDE DEF u, N, M
<1>3. /\ l \in Seq(Entry) /\ DOMAIN l = 1 .. N + M
      /\ \A i \in 1 .. N + M : l[i] = IF i <= N THEN list[i] ELSE u[i - N]
  <2>1. /\ l \in Seq(Entry) /\ Len(l) = Len(list) + Len(u)
        /\ \A i \in 1 .. Len(list) + Len(u) : l[i] = IF i <= Len(list) THEN list[i] ELSE u[i - Len(list)]
    BY <1>2, ConcatProperties
  <2>. HIDE DEF l
  <2>. QED
    BY <2>1, <1>2, LenProperties DEF N
<1>. HIDE DEF l
<1>4. ASSUME NEW i \in 1 .. N + M, ~(i <= N)
      PROVE  i - N \in 1 .. M /\ l[i] = u[i - N] /\ l[i].id = ids[i - N]
  <2>1. i - N \in 1 .. M
    BY <1>1, <1>4
  <2>2. l[i] = u[i - N]
    BY <1>3, <1>4
  <2>. QED
    BY <1>2, <2>1, <2>2
<1>5. ASSUME NEW i \in 1 .. N + M, i <= N
      PROVE  i \in 1 .. N /\ l[i] = list[i]
  BY <1>1, <1>3, <1>5
<1>6. Ids(l) = Ids(list) \cup In(ids)
  <2>1. ASSUME NEW i \in 1 .. N + M PROVE l[i].id \in Ids(list) \cup In(ids)
    <3>1. CASE i <= N
      BY <3>1, <1>5, <1>1 DEF Ids
    <3>2. CASE ~(i <= N)
      BY <3>2, <1>4, <1>1 DEF In
    <3>. QED
      BY <3>1, <3>2
  <2>2. ASSUME NEW k \in 1 .. N PROVE list[k].id \in Ids(l)
    <3>1. k \in 1 .. N + M /\ k <= N
      BY <1>1
    <3>. QED
      BY <3>1, <1>3, <1>5 DEF Ids
  <2>3. ASSUME NEW k \in 1 .. M PROVE ids[k] \in Ids(l)
    <3>1. PICK i \in 1 .. N + M : ~(i <= N) /\ i - N = k
      BY <1>1
    <3>2. l[i].id = ids[i - N]
      BY <3>1, <1>4
    <3>3. i \in DOMAIN l /\ l[i].id = ids[k]
      BY <3>1, <3>2, <1>3
    <3>. QED
      BY <3>3 DEF Ids
  <2>. QED
    BY <1>1, <1>3, <2>1, <2>2, <2>3 DEF Ids, In
<1>7. ASSUME Distinct(list), Once(ids), Ids(list) \cap In(ids) = {}
      PROVE  Distinct(l)
  <2>1. ASSUME NEW i \in 1 .. N + M, NEW j \in 1 .. N + M, l[i].id = l[j].id
        PROVE  i = j
    <3>1. CASE i <= N /\ j <= N
      BY <3>1, <2>1, <1>5, <1>1, <1>7 DEF Distinct
    <3>2. CASE ~(i <= N) /\ ~(j <= N)
      <4>1. i - N = j - N
        BY <3>2, <2>1, <1>4, <1>1, <1>7 DEF Once
      <4>. QED
        BY <4>1, <1>1
    <3>3. CASE i <= N /\ ~(j <= N)
      <4>1. l[i].id \in Ids(list) /\ l[j].id \in In(ids)
        BY <3>3, <1>4, <1>5, <1>1 DEF Ids, In
      <4>. QED
        BY <4>1, <2>1, <1>7
    <3>4. CASE ~(i <= N) /\ j <= N
      <4>1. l[j].id \in Ids(list) /\ l[i].id \in In(ids)
        BY <3>4, <1>4, <1>5, <1>1 DEF Ids, In
      <4>. QED
        BY <4>1, <2>1, <1>7
    <3>. QED
      BY <3>1, <3>2, <3>3, <3>4
  <2>. QED
    BY <1>3, <2>1 DEF Distinct
<1>8. ASSUME NEW m, ReadIn(list, m), m \notin In(ids) PROVE ReadIn(l, m)
  <2>1. ASSUME NEW i \in 1 .. N + M, l[i].id = m PROVE l[i].isRead
    <3>1. CASE i <= N
      BY <3>1, <2>1, <1>5, <1>1, <1>8 DEF ReadIn
    <3>2. CASE ~(i <= N)
      BY <3>2, <2>1, <1>4, <1>1, <1>8 DEF In
    <3>. QED
      BY <3>1, <3>2
  <2>. QED
    BY <1>3, <2>1 DEF ReadIn
<1>. QED
  BY <1>3, <1>6, <1>7, <1>8 DEF l, u

(***************************************************************************)
(* What a command makes of the list it has loaded: the list it will write, *)
(* and the lists it will append to the archive, share its entries out.     *)
(***************************************************************************)

Shared(list, kept, lists) ==
  /\ Ids(kept) \cup AllIds(lists) = Ids(list)
  /\ Distinct(list) =>
       /\ Distinct(kept)
       /\ \A i \in DOMAIN lists :
            /\ Distinct(lists[i])
            /\ Ids(lists[i]) \cap Ids(kept) = {}
            /\ \A j \in DOMAIN lists \ {i} : Ids(lists[i]) \cap Ids(lists[j]) = {}
  /\ \A m : ReadIn(list, m) => ReadIn(kept, m)

\* An empty list holds no id.
LEMMA EmptyIds == Ids(<<>>) = {}
  BY DEF Ids

\* archiveMessages is called for the lists that are not empty, each once.
LEMMA CallsLists ==
  ASSUME NEW lists \in Seq(Seq(Entry))
  PROVE  /\ Calls(lists) \in Seq(Seq(Entry))
         /\ AllIds(Calls(lists)) = AllIds(lists)
         /\ \A P \in SUBSET Seq(Entry) : (\A i \in DOMAIN lists : lists[i] \in P) =>
              \A i \in DOMAIN Calls(lists) : Calls(lists)[i] \in P
         /\ (\A i, j \in DOMAIN lists : i # j => Ids(lists[i]) \cap Ids(lists[j]) = {}) =>
              \A i, j \in DOMAIN Calls(lists) : i # j =>
                Ids(Calls(lists)[i]) \cap Ids(Calls(lists)[j]) = {}
<1>. DEFINE S == {k \in DOMAIN lists : lists[k] # <<>>}
            c == Picked(lists, S)
<1>1. S \in SUBSET (DOMAIN lists)
  OBVIOUS
<1>2. \A k \in DOMAIN lists : k \notin S => Ids(lists[k]) = {}
  BY EmptyIds
<1>3. \A k \in S : lists[k] \in Seq(Entry) /\ k \in DOMAIN lists
  BY LenProperties, ElementOfSeq
<1>0. Calls(lists) = c
  BY DEF Calls
<1>. HIDE DEF S
<1>4. /\ c \in Seq(Seq(Entry))
      /\ \A i \in DOMAIN c : Nth(S, i) \in S /\ c[i] = lists[Nth(S, i)]
      /\ \A i, j \in DOMAIN c : Nth(S, i) = Nth(S, j) => i = j
      /\ \A k \in S : \E i \in DOMAIN c : c[i] = lists[k]
  BY <1>1, PickedList
<1>. HIDE DEF c
<1>5. AllIds(c) = AllIds(lists)
  <2>1. AllIds(c) \subseteq AllIds(lists)
    BY <1>1, <1>4 DEF AllIds
  <2>2. ASSUME NEW k \in DOMAIN lists, NEW m \in Ids(lists[k]) PROVE m \in AllIds(c)
    <3>1. k \in S
      BY <1>2, <2>2
    <3>. QED
      BY <3>1, <1>4, <2>2 DEF AllIds
  <2>. QED
    BY <2>1, <2>2 DEF AllIds
<1>6. ASSUME NEW P \in SUBSET Seq(Entry), \A i \in DOMAIN lists : lists[i] \in P
      PROVE  \A i \in DOMAIN c : c[i] \in P
  BY <1>3, <1>4, <1>6
<1>7. ASSUME \A i, j \in DOMAIN lists : i # j => Ids(lists[i]) \cap Ids(lists[j]) = {}
      PROVE  \A i, j \in DOMAIN c : i # j => Ids(c[i]) \cap Ids(c[j]) = {}
  BY <1>3, <1>4, <1>7
<1>. QED
  BY <1>0, <1>4, <1>5, <1>6, <1>7

\* Lists that share a list out still do when the empty ones are left out.
LEMMA CallsShare ==
  ASSUME NEW list \in Seq(Entry), NEW kept \in Seq(Entry), NEW lists \in Seq(Seq(Entry)),
         Shared(list, kept, lists)
  PROVE  Calls(lists) \in Seq(Seq(Entry)) /\ Shared(list, kept, Calls(lists))
<1>. DEFINE c == Calls(lists)
            P == {l \in Seq(Entry) : Distinct(l) /\ Ids(l) \cap Ids(kept) = {}}
<1>1. /\ c \in Seq(Seq(Entry))
      /\ AllIds(c) = AllIds(lists)
      /\ (\A i \in DOMAIN lists : lists[i] \in P) => \A i \in DOMAIN c : c[i] \in P
      /\ (\A i, j \in DOMAIN lists : i # j => Ids(lists[i]) \cap Ids(lists[j]) = {}) =>
           \A i, j \in DOMAIN c : i # j => Ids(c[i]) \cap Ids(c[j]) = {}
  <2>1. P \in SUBSET Seq(Entry)
    OBVIOUS
  <2>. HIDE DEF P
  <2>. QED
    BY <2>1, CallsLists
<1>. HIDE DEF c
<1>2. \A i \in DOMAIN lists : lists[i] \in Seq(Entry)
  BY LenProperties, ElementOfSeq
<1>3. ASSUME Distinct(list)
      PROVE  /\ Distinct(kept)
             /\ \A i \in DOMAIN c :
                  /\ Distinct(c[i])
                  /\ Ids(c[i]) \cap Ids(kept) = {}
                  /\ \A j \in DOMAIN c \ {i} : Ids(c[i]) \cap Ids(c[j]) = {}
  <2>1. /\ Distinct(kept)
        /\ \A i \in DOMAIN lists : lists[i] \in P
        /\ \A i, j \in DOMAIN lists : i # j => Ids(lists[i]) \cap Ids(lists[j]) = {}
    BY <1>2, <1>3 DEF Shared
  <2>. QED
    BY <1>1, <2>1
<1>. QED
  BY <1>1, <1>3 DEF Shared, c

\* appendMessages takes at most the whole list, and leaves active_max entries.
LEMMA ExcessBounds ==
  ASSUME NEW list \in Seq(Entry)
  PROVE  Excess(list) \in Nat /\ Excess(list) <= Len(list) /\ Len(list) - Excess(list) <= ActiveMax
<1>1. Len(list) \in Nat /\ ActiveMax \in Nat \ {0} /\ ActiveMax \div 2 \in Nat
      /\ ActiveMax \div 2 <= ActiveMax
  BY LenProperties, SizeAssumption
<1>. QED
  BY <1>1 DEF Excess, Larger

\* What appendMessages makes of a list.
LEMMA AppendShares ==
  ASSUME NEW list \in Seq(Entry), NEW ids
  PROVE  LET recent == Without(list, ids)
             cut == Excess(recent)
             kept == SubSeq(recent, cut + 1, Len(recent))
             lists == Calls(<<Only(list, ids), SubSeq(recent, 1, cut)>>)
         IN /\ kept \in Seq(Entry) /\ Len(kept) <= ActiveMax
            /\ lists \in Seq(Seq(Entry))
            /\ Shared(list, kept, lists)
<1>. DEFINE recent == Without(list, ids)
            cut == Excess(recent)
            kept == SubSeq(recent, cut + 1, Len(recent))
            first == Only(list, ids)
            second == SubSeq(recent, 1, cut)
            lists == <<first, second>>
<1>1. /\ recent \in Seq(Entry) /\ first \in Seq(Entry)
      /\ Ids(recent) = Ids(list) \ ids /\ Ids(first) = Ids(list) \cap ids
      /\ Distinct(list) => Distinct(recent) /\ Distinct(first)
      /\ \A m : ReadIn(list, m) => ReadIn(recent, m)
  BY Filtered
<1>. HIDE DEF recent, first
<1>2. cut \in Nat /\ cut <= Len(recent) /\ Len(recent) - cut <= ActiveMax
  BY <1>1, ExcessBounds
<1>. HIDE DEF cut
<1>3. /\ second \in Seq(Entry) /\ kept \in Seq(Entry)
      /\ Len(kept) = Len(recent) - cut
      /\ Ids(second) \cup Ids(kept) = Ids(recent)
      /\ Distinct(recent) =>
           Distinct(second) /\ Distinct(kept) /\ Ids(second) \cap Ids(kept) = {}
      /\ \A m : ReadIn(recent, m) => ReadIn(kept, m)
  BY <1>1, <1>2, Halves
<1>. HIDE DEF kept, second
<1>4. lists \in Seq(Seq(Entry)) /\ DOMAIN lists = {1, 2} /\ lists[1] = first /\ lists[2] = second
  BY <1>1, <1>3
<1>. HIDE DEF lists
<1>5. AllIds(lists) = Ids(first) \cup Ids(second)
  BY <1>4 DEF AllIds
<1>6. Ids(kept) \cup AllIds(lists) = Ids(list)
  BY <1>1, <1>3, <1>5
<1>7. ASSUME Distinct(list)
      PROVE  /\ Distinct(kept)
             /\ \A i \in DOMAIN lists :
                  /\ Distinct(lists[i])
                  /\ Ids(lists[i]) \cap Ids(kept) = {}
                  /\ \A j \in DOMAIN lists \ {i} : Ids(lists[i]) \cap Ids(lists[j]) = {}
  <2>1. /\ Distinct(kept) /\ Distinct(first) /\ Distinct(second)
        /\ Ids(first) \cap Ids(kept) = {} /\ Ids(second) \cap Ids(kept) = {}
        /\ Ids(first) \cap Ids(second) = {}
    BY <1>1, <1>3, <1>7
  <2>. QED
    BY <1>4, <2>1
<1>8. Shared(list, kept, lists)
  BY <1>1, <1>3, <1>6, <1>7 DEF Shared
<1>9. Calls(lists) \in Seq(Seq(Entry)) /\ Shared(list, kept, Calls(lists))
  BY <1>1, <1>3, <1>4, <1>8, CallsShare
<1>10. Len(kept) <= ActiveMax
  BY <1>2, <1>3
<1>. QED
  BY <1>3, <1>9, <1>10 DEF recent, cut, kept, first, second, lists

\* What `moltpost archive' makes of the inbox.
LEMMA ArchiveShares ==
  ASSUME active \in Seq(Entry), NEW all \in BOOLEAN
  PROVE  LET kept == Without(active, Ids(ToArchive(all)))
             lists == Calls(<<ToArchive(all)>>)
         IN /\ kept \in Seq(Entry) /\ Len(kept) <= Len(active)
            /\ lists \in Seq(Seq(Entry))
            /\ Shared(active, kept, lists)
            /\ ToArchive(all) = <<>> => lists = <<>>
<1>. DEFINE out == ToArchive(all)
            kept == Without(active, Ids(out))
            lists == <<out>>
<1>1. out \in Seq(Entry) /\ Ids(out) \subseteq Ids(active) /\ (Distinct(active) => Distinct(out))
  BY Filtered DEF ToArchive
<1>2. /\ kept \in Seq(Entry) /\ Len(kept) <= Len(active)
      /\ Ids(kept) = Ids(active) \ Ids(out)
      /\ Distinct(active) => Distinct(kept)
      /\ \A m : ReadIn(active, m) => ReadIn(kept, m)
  BY Filtered
<1>. HIDE DEF out, kept
<1>3. lists \in Seq(Seq(Entry)) /\ DOMAIN lists = {1} /\ lists[1] = out
  BY <1>1
<1>. HIDE DEF lists
<1>4. AllIds(lists) = Ids(out)
  BY <1>3 DEF AllIds
<1>5. Ids(kept) \cup AllIds(lists) = Ids(active)
  BY <1>1, <1>2, <1>4
<1>6. \A i \in DOMAIN lists : Ids(lists[i]) \cap Ids(kept) = {} /\ DOMAIN lists \ {i} = {}
  BY <1>2, <1>3
<1>7. Shared(active, kept, lists)
  BY <1>1, <1>2, <1>3, <1>5, <1>6 DEF Shared
<1>8. Calls(lists) \in Seq(Seq(Entry)) /\ Shared(active, kept, Calls(lists))
  BY <1>2, <1>3, <1>7, CallsShare
<1>9. ASSUME out = <<>> PROVE Calls(lists) = <<>>
  <2>1. {k \in DOMAIN lists : lists[k] # <<>>} = {}
    BY <1>3, <1>9
  <2>2. Calls(lists) = [i \in 1 .. 0 |-> lists[Nth({}, i)]]
    BY <2>1, FS_EmptySet DEF Calls, Picked
  <2>. QED
    BY <2>2
<1>. QED
  BY <1>2, <1>8, <1>9 DEF out, kept, lists

\* What updateMessage makes of the inbox: the message is read, if it was there
\* once, and the rest is as it was.
LEMMA MarkShares ==
  ASSUME NEW list \in Seq(Entry), NEW m \in Ids(list)
  PROVE  /\ MarkRead(list, m) \in Seq(Entry) /\ Len(MarkRead(list, m)) = Len(list)
         /\ Shared(list, MarkRead(list, m), <<>>)
         /\ Distinct(list) => ReadIn(MarkRead(list, m), m)
<1>. DEFINE S == {k \in DOMAIN list : list[k].id = m}
            f == Nth(S, 1)
            l == MarkRead(list, m)
<1>1. DOMAIN list = 1 .. Len(list) /\ Len(list) \in Nat
      /\ \A k \in DOMAIN list : list[k] \in Entry
  BY EntryFields, LenProperties
<1>2. f \in S
  <2>1. \E k \in S : TRUE
    BY DEF Ids
  <2>2. S \in SUBSET (1 .. Len(list))
    BY <1>1
  <2>. HIDE DEF S
  <2>3. \E i \in 1 .. Cardinality(S) : TRUE
    BY <1>1, <2>1, <2>2, NthIs
  <2>4. 1 \in 1 .. Cardinality(S)
    BY <1>1, <2>2, <2>3, NthIs
  <2>. QED
    BY <1>1, <2>2, <2>4, NthIs
<1>3. f \in DOMAIN list /\ list[f].id = m
  BY <1>2
<1>4. l = [list EXCEPT ![f] = [list[f] EXCEPT !.isRead = TRUE]]
  BY <1>3 DEF MarkRead
<1>. HIDE DEF S, f, l
<1>5. [list[f] EXCEPT !.isRead = TRUE] \in Entry
      /\ [list[f] EXCEPT !.isRead = TRUE].id = m
      /\ [list[f] EXCEPT !.isRead = TRUE].isRead = TRUE
  BY <1>1, <1>3 DEF Entry
<1>6. /\ l \in Seq(Entry) /\ Len(l) = Len(list)
      /\ l[f].id = m /\ l[f].isRead
      /\ \A k \in DOMAIN list : k # f => l[k] = list[k]
  BY <1>1, <1>3, <1>4, <1>5, ExceptSeq
<1>7. DOMAIN l = DOMAIN list /\ \A k \in DOMAIN list : l[k].id = list[k].id
  BY <1>1, <1>3, <1>6, LenProperties
<1>8. AllIds(<<>>) = {} /\ DOMAIN <<>> = {}
  BY DEF AllIds
<1>9. Ids(l) = Ids(list)
  BY <1>7 DEF Ids
<1>10. Distinct(list) => Distinct(l)
  BY <1>7 DEF Distinct
<1>11. \A n : ReadIn(list, n) => ReadIn(l, n)
  BY <1>3, <1>6, <1>7 DEF ReadIn
<1>12. Shared(list, l, <<>>)
  BY <1>8, <1>9, <1>10, <1>11 DEF Shared
<1>13. Distinct(list) => ReadIn(l, m)
  BY <1>3, <1>6, <1>7 DEF ReadIn, Distinct
<1>. QED
  BY <1>6, <1>12, <1>13 DEF l

\* Whatever a command does with a list of distinct entries, archiveMessages
\* writes each of its ids once.
LEMMA CopiesOf ==
  ASSUME NEW list \in Seq(Entry), NEW m
  PROVE  /\ Copies(list, m) \in Nat
         /\ Copies(list, m) = 0 <=> m \notin Ids(list)
         /\ Distinct(list) => Copies(list, m) <= 1
<1>. DEFINE S == {k \in DOMAIN list : list[k].id = m}
<1>1. IsFiniteSet(S) /\ Cardinality(S) \in Nat
  <2>1. S \in SUBSET (1 .. Len(list)) /\ Len(list) \in Nat
    BY LenProperties
  <2>. QED
    BY <2>1, RankOnto
<1>2. S = {} <=> m \notin Ids(list)
  BY DEF Ids
<1>3. ASSUME Distinct(list) PROVE S = {} \/ \E k : S = {k}
  BY <1>3 DEF Distinct
<1>4. Copies(list, m) = Cardinality(S)
  BY DEF Copies
<1>. HIDE DEF S
<1>5. Cardinality(S) = 0 <=> S = {}
  BY <1>1, FS_EmptySet
<1>6. ASSUME Distinct(list) PROVE Cardinality(S) <= 1
  <2>1. CASE S = {}
    BY <2>1, <1>5
  <2>2. ASSUME NEW k, S = {k} PROVE Cardinality(S) = 1
    BY <2>2, FS_Singleton
  <2>. QED
    BY <1>3, <1>6, <2>1, <2>2
<1>. QED
  BY <1>1, <1>2, <1>4, <1>5, <1>6

(***************************************************************************)
(* Type correctness.                                                       *)
(***************************************************************************)

LEMMA TypeInit == Init => TypeOK
<1>. SUFFICES ASSUME Init PROVE TypeOK
  OBVIOUS
<1>1. <<>> \in Seq(Entry) /\ <<>> \in Seq(Messages) /\ <<>> \in Seq(Seq(Entry))
  OBVIOUS
<1>. QED
  BY <1>1 DEF Init, TypeOK

\* The part of a list of messages that the broker answers with.
LEMMA Answer ==
  ASSUME NEW ids \in Seq(Messages)
  PROVE  LET part == SubSeq(ids, 1, Smaller(BatchSize, Len(ids)))
         IN part \in Seq(Messages) /\ In(part) \subseteq In(ids) /\ (Once(ids) => Once(part))
<1>. DEFINE n == Smaller(BatchSize, Len(ids))
            part == SubSeq(ids, 1, n)
<1>1. /\ Len(ids) \in Nat /\ DOMAIN ids = 1 .. Len(ids)
      /\ \A k \in 1 .. Len(ids) : ids[k] \in Messages
  BY LenProperties, ElementOfSeq
<1>2. n \in Nat /\ n <= Len(ids)
  BY <1>1, SizeAssumption DEF Smaller
<1>. HIDE DEF n
<1>3. \A i \in 1 .. n : i \in 1 .. Len(ids) /\ ids[i] \in Messages
  BY <1>1, <1>2
<1>4. /\ part \in Seq(Messages) /\ Len(part) = IF 1 <= n THEN n - 1 + 1 ELSE 0
      /\ \A i \in 1 .. n - 1 + 1 : part[i] = ids[1 + i - 1]
  BY <1>2, <1>3, SubSeqProperties
<1>. HIDE DEF part
<1>5. DOMAIN part = 1 .. n
  BY <1>2, <1>4, LenProperties
<1>6. \A i \in 1 .. n : part[i] = ids[i]
  BY <1>2, <1>4
<1>7. In(part) \subseteq In(ids)
  BY <1>1, <1>3, <1>5, <1>6 DEF In
<1>8. Once(ids) => Once(part)
  BY <1>1, <1>3, <1>5, <1>6 DEF Once
<1>. QED
  BY <1>4, <1>7, <1>8 DEF part, n

\* The messages that stay with the broker.
LEMMA Remaining ==
  ASSUME NEW ids \in Seq(Messages), NEW out
  PROVE  LET rest == Picked(ids, {k \in DOMAIN ids : ids[k] \notin out})
         IN rest \in Seq(Messages) /\ In(rest) = In(ids) \ out /\ (Once(ids) => Once(rest))
<1>. DEFINE S == {k \in DOMAIN ids : ids[k] \notin out}
            rest == Picked(ids, S)
<1>1. S \in SUBSET (DOMAIN ids) /\ In(ids) \ out = {ids[k] : k \in S}
  BY DEF In
<1>2. S \subseteq DOMAIN ids
  BY <1>1
<1>. HIDE DEF S
<1>3. /\ rest \in Seq(Messages)
      /\ \A i \in DOMAIN rest : Nth(S, i) \in S /\ rest[i] = ids[Nth(S, i)]
      /\ \A i, j \in DOMAIN rest : Nth(S, i) = Nth(S, j) => i = j
      /\ \A k \in S : \E i \in DOMAIN rest : rest[i] = ids[k]
  BY <1>1, PickedList
<1>. HIDE DEF rest
<1>4. In(rest) = In(ids) \ out
  BY <1>1, <1>3 DEF In
<1>5. Once(ids) => Once(rest)
  BY <1>3, <1>2 DEF Once
<1>. QED
  BY <1>3, <1>4, <1>5 DEF rest, S

\* A message that arrives.
LEMMA Arrived ==
  ASSUME NEW ids \in Seq(Messages), NEW m \in Messages
  PROVE  /\ In(Append(ids, m)) = In(ids) \cup {m}
         /\ Once(ids) /\ m \notin In(ids) => Once(Append(ids, m))
<1>. DEFINE N == Len(ids)
            l == Append(ids, m)
<1>1. N \in Nat /\ DOMAIN ids = 1 .. N
  BY LenProperties
<1>2. /\ l \in Seq(Messages) /\ Len(l) = N + 1
      /\ \A i \in 1 .. N : l[i] = ids[i]
      /\ l[N + 1] = m
  BY AppendProperties
<1>. HIDE DEF N, l
<1>3. /\ DOMAIN l = 1 .. N \cup {N + 1}
      /\ N + 1 \notin 1 .. N
  BY <1>1, <1>2, LenProperties
<1>4. In(l) = In(ids) \cup {m}
  BY <1>1, <1>2, <1>3 DEF In
<1>5. ASSUME Once(ids), m \notin In(ids) PROVE Once(l)
  BY <1>1, <1>2, <1>3, <1>5 DEF In, Once
<1>. QED
  BY <1>4, <1>5 DEF l

\* The list of active.json is never what a truncated file holds.
LEMMA ListNotEmpty == \A list \in Seq(Entry) : list # Empty
  BY EmptyAssumption DEF Entry

\* What the steps that compute a list compute: lists of entries.
LEMMA ComputedLists ==
  ASSUME TypeOK, active # Empty
  PROVE  /\ \A p \in Pulls : AppendMessages(p) =>
              /\ next'[p] \in Seq(Entry) /\ Len(next'[p]) <= ActiveMax
              /\ surplus'[p] \in Seq(Seq(Entry))
              /\ Shared(active \o Unread(batch[p]), next'[p], surplus'[p])
         /\ \A r \in Reads : UpdateMessage(r) /\ chosen[r] \in Ids(active) =>
              /\ next'[r] \in Seq(Entry) /\ Len(next'[r]) = Len(active)
              /\ Shared(active, next'[r], <<>>)
              /\ Distinct(active) => ReadIn(next'[r], chosen[r])
         /\ \A r \in Archives, all \in BOOLEAN : Archive(r, all) =>
              /\ next'[r] \in Seq(Entry) /\ Len(next'[r]) <= Len(active)
              /\ surplus'[r] \in Seq(Seq(Entry))
              /\ Shared(active, next'[r], surplus'[r])
              /\ pc'[r] = "done" => surplus'[r] = <<>>
<1>1. /\ active \in Seq(Entry)
      /\ \A r \in Pulls : r \in Runs
      /\ \A r \in Reads : r \in Runs
      /\ \A r \in Archives : r \in Runs
  BY DEF TypeOK, Runs
<1>2. ASSUME NEW p \in Pulls, AppendMessages(p)
      PROVE  /\ next'[p] \in Seq(Entry) /\ Len(next'[p]) <= ActiveMax
             /\ surplus'[p] \in Seq(Seq(Entry))
             /\ Shared(active \o Unread(batch[p]), next'[p], surplus'[p])
  <2>. DEFINE list == active \o Unread(batch[p])
              recent == Without(list, old)
              cut == Excess(recent)
              kept == SubSeq(recent, cut + 1, Len(recent))
              lists == Calls(<<Only(list, old), SubSeq(recent, 1, cut)>>)
  <2>1. list \in Seq(Entry)
    <3>1. batch[p] \in Seq(Messages)
      BY <1>1 DEF TypeOK
    <3>. QED
      BY <1>1, <3>1, Joined
  <2>2. next'[p] = kept /\ surplus'[p] = lists
    BY <1>1, <1>2 DEF AppendMessages, TypeOK
  <2>. HIDE DEF list
  <2>3. /\ kept \in Seq(Entry) /\ Len(kept) <= ActiveMax
        /\ lists \in Seq(Seq(Entry)) /\ Shared(list, kept, lists)
    BY <2>1, AppendShares
  <2>. QED
    BY <2>2, <2>3 DEF list
<1>3. ASSUME NEW r \in Reads, UpdateMessage(r), chosen[r] \in Ids(active)
      PROVE  /\ next'[r] \in Seq(Entry) /\ Len(next'[r]) = Len(active)
             /\ Shared(active, next'[r], <<>>)
             /\ Distinct(active) => ReadIn(next'[r], chosen[r])
  <2>1. next'[r] = MarkRead(active, chosen[r])
    BY <1>1, <1>3 DEF UpdateMessage, TypeOK
  <2>. QED
    BY <1>1, <1>3, <2>1, MarkShares
<1>4. ASSUME NEW r \in Archives, NEW all \in BOOLEAN, Archive(r, all)
      PROVE  /\ next'[r] \in Seq(Entry) /\ Len(next'[r]) <= Len(active)
             /\ surplus'[r] \in Seq(Seq(Entry))
             /\ Shared(active, next'[r], surplus'[r])
             /\ pc'[r] = "done" => surplus'[r] = <<>>
  <2>1. /\ next'[r] = Without(active, Ids(ToArchive(all)))
        /\ surplus'[r] = Calls(<<ToArchive(all)>>)
        /\ pc'[r] = IF ToArchive(all) = <<>> THEN "done" ELSE "archive"
    BY <1>1, <1>4 DEF Archive, Start, TypeOK
  <2>. QED
    BY <1>1, <2>1, ArchiveShares
<1>. QED
  BY <1>2, <1>3, <1>4

LEMMA TypeNext == TypeOK /\ [Next]_vars => TypeOK'
<1>. SUFFICES ASSUME TypeOK, [Next]_vars PROVE TypeOK'
  OBVIOUS
<1>. USE DEF files, locals
<1>0. /\ \A r \in Pulls : r \in Runs
      /\ \A r \in Reads : r \in Runs
      /\ \A r \in Archives : r \in Runs
  BY DEF Runs
<1>1. ASSUME NEW p \in Pulls, Fetch(p) PROVE TypeOK'
  <2>1. SubSeq(held, 1, Smaller(BatchSize, Len(held))) \in Seq(Messages)
    BY Answer DEF TypeOK
  <2>. QED
    BY <1>0, <1>1, <2>1 DEF TypeOK, Fetch, Start
<1>2. ASSUME NEW p \in Pulls, AppendMessages(p) PROVE TypeOK'
  <2>1. next'[p] \in Seq(Entry) /\ surplus'[p] \in Seq(Seq(Entry))
    BY <1>2, ComputedLists DEF AppendMessages
  <2>2. next' \in [Runs -> Seq(Entry)] /\ surplus' \in [Runs -> Seq(Seq(Entry))]
    BY <1>0, <1>2, <2>1 DEF TypeOK, AppendMessages
  <2>. QED
    BY <1>0, <1>2, <2>2 DEF TypeOK, AppendMessages
<1>3. ASSUME NEW p \in Pulls, Ack(p) PROVE TypeOK'
  <2>1. held' \in Seq(Messages)
    BY <1>3, Remaining DEF TypeOK, Ack
  <2>. QED
    BY <1>0, <1>3, <2>1 DEF TypeOK, Ack, Goto
<1>4. ASSUME NEW p \in Pulls, AckFails(p) PROVE TypeOK'
  BY <1>0, <1>4 DEF TypeOK, AckFails, Goto
<1>5. ASSUME NEW p \in Pulls, AutoReply(p) PROVE TypeOK'
  BY <1>0, <1>5 DEF TypeOK, AutoReply, Goto, Counted
<1>6. ASSUME NEW r \in Reads, Choose(r) PROVE TypeOK'
  <2>1. \A k \in DOMAIN active : active[k].id \in Messages
    BY <1>6, EntryFields DEF TypeOK, Choose
  <2>. QED
    BY <1>0, <1>6, <2>1 DEF TypeOK, Choose, Start
<1>7. ASSUME NEW r \in Reads, UpdateMessage(r) PROVE TypeOK'
  <2>1. CASE chosen[r] \in Ids(active)
    <3>1. next'[r] \in Seq(Entry)
      BY <1>7, <2>1, ComputedLists DEF UpdateMessage
    <3>2. next' \in [Runs -> Seq(Entry)]
      BY <1>0, <1>7, <2>1, <3>1 DEF TypeOK, UpdateMessage
    <3>. QED
      BY <1>0, <1>7, <2>1, <3>2 DEF TypeOK, UpdateMessage, Goto
  <2>2. CASE chosen[r] \notin Ids(active)
    BY <1>0, <1>7, <2>2 DEF TypeOK, UpdateMessage, Goto
  <2>. QED
    BY <2>1, <2>2
<1>8. ASSUME NEW r \in Archives, NEW all \in BOOLEAN, Archive(r, all) PROVE TypeOK'
  <2>1. next'[r] \in Seq(Entry) /\ surplus'[r] \in Seq(Seq(Entry))
    BY <1>8, ComputedLists DEF Archive
  <2>2. next' \in [Runs -> Seq(Entry)] /\ surplus' \in [Runs -> Seq(Seq(Entry))]
    BY <1>0, <1>8, <2>1 DEF TypeOK, Archive
  <2>. QED
    BY <1>0, <1>8, <2>2 DEF TypeOK, Archive, Start
<1>9. ASSUME NEW r \in Runs, ArchiveMessages(r) PROVE TypeOK'
  <2>1. surplus[r] \in Seq(Seq(Entry)) /\ surplus[r] # <<>>
    BY <1>9 DEF TypeOK, ArchiveMessages
  <2>2. Head(surplus[r]) \in Seq(Entry) /\ Tail(surplus[r]) \in Seq(Seq(Entry))
    BY <2>1, HeadTailProperties
  <2>3. \A m \in Messages : Copies(Head(surplus[r]), m) \in Nat
    BY <2>2, CopiesOf
  <2>4. archive' \in [Messages -> Nat]
    BY <1>9, <2>3 DEF TypeOK, ArchiveMessages
  <2>. QED
    BY <1>9, <2>2, <2>4 DEF TypeOK, ArchiveMessages
<1>10. ASSUME NEW r \in Runs, Truncate(r) PROVE TypeOK'
  BY <1>10 DEF TypeOK, Truncate, Goto
<1>11. ASSUME NEW r \in Runs, Write(r) PROVE TypeOK'
  BY <1>11 DEF TypeOK, Write, Goto
<1>12. ASSUME NEW r \in Runs, Refuse(r) PROVE TypeOK'
  BY <1>12 DEF TypeOK, Refuse, Goto, Start
<1>13. ASSUME NEW r \in Runs, Stop(r) PROVE TypeOK'
  BY <1>13 DEF TypeOK, Stop
<1>14. ASSUME NEW m \in Messages, Arrive(m) PROVE TypeOK'
  <2>1. held' \in Seq(Messages)
    BY <1>14, AppendProperties DEF TypeOK, Arrive
  <2>. QED
    BY <1>14, <2>1 DEF TypeOK, Arrive
<1>15. ASSUME NEW m \in Messages, Age(m) PROVE TypeOK'
  BY <1>15 DEF TypeOK, Age
<1>16. ASSUME UNCHANGED vars PROVE TypeOK'
  BY <1>16 DEF TypeOK, vars
<1>. QED
  BY <1>1, <1>2, <1>3, <1>4, <1>5, <1>6, <1>7, <1>8, <1>9, <1>10, <1>11, <1>12, <1>13,
     <1>14, <1>15, <1>16 DEF Next, PullStep, ReadStep

\* The lists the commands compute and the files they write are always lists of
\* messages of the broker, and each has its flag.
THEOREM TypeCorrect == Spec => []TypeOK
<1>. QED
  BY TypeInit, TypeNext, PTL DEF Spec

(***************************************************************************)
(* Where a run may stand, and the length of the inbox.                     *)
(***************************************************************************)

\* Only a pull answers, acknowledges or replies; a run has lists to archive
\* only from its computation of them to the truncation of the file.
PlaceInv ==
  /\ \A r \in Runs :
       /\ pc[r] \in {"append", "ack", "reply"} => r \in Pulls
       /\ pc[r] = "update" => r \in Reads
       /\ pc[r] \in {"new", "append", "update", "write"} => surplus[r] = <<>>
       /\ r \notin Pulls => batch[r] = <<>>
       /\ pc[r] = "new" => chosen[r] = Nothing
  /\ damaged => failures > 0

LEMMA PlaceNext == TypeOK /\ PlaceInv /\ [Next]_vars => PlaceInv'
<1>. SUFFICES ASSUME TypeOK, PlaceInv, [Next]_vars PROVE PlaceInv'
  OBVIOUS
<1>. USE DEF files, locals
<1>0. /\ \A r \in Pulls : r \in Runs
      /\ \A r \in Reads : r \in Runs /\ r \notin Pulls
      /\ \A r \in Archives : r \in Runs /\ r \notin Pulls
  BY RunsAssumption DEF Runs
<1>1. ASSUME NEW p \in Pulls, Fetch(p) PROVE PlaceInv'
  BY <1>0, <1>1 DEF PlaceInv, TypeOK, Fetch, Start
<1>2. ASSUME NEW p \in Pulls, AppendMessages(p) PROVE PlaceInv'
  <2>1. \A q \in Runs : q # p => surplus'[q] = surplus[q] /\ pc'[q] = pc[q]
    BY <1>2 DEF TypeOK, AppendMessages
  <2>2. pc'[p] = "archive"
    BY <1>0, <1>2 DEF TypeOK, AppendMessages
  <2>. QED
    BY <1>0, <1>2, <2>1, <2>2 DEF PlaceInv, AppendMessages
<1>3. ASSUME NEW p \in Pulls, Ack(p) PROVE PlaceInv'
  BY <1>0, <1>3 DEF PlaceInv, TypeOK, Ack, Goto
<1>4. ASSUME NEW p \in Pulls, AckFails(p) PROVE PlaceInv'
  BY <1>0, <1>4 DEF PlaceInv, TypeOK, AckFails, Goto
<1>5. ASSUME NEW p \in Pulls, AutoReply(p) PROVE PlaceInv'
  BY <1>0, <1>5 DEF PlaceInv, TypeOK, AutoReply, Goto
<1>6. ASSUME NEW r \in Reads, Choose(r) PROVE PlaceInv'
  BY <1>0, <1>6 DEF PlaceInv, TypeOK, Choose, Start
<1>7. ASSUME NEW r \in Reads, UpdateMessage(r) PROVE PlaceInv'
  <2>1. pc'[r] \in {"archive", "done"} /\ \A q \in Runs : q # r => pc'[q] = pc[q]
    BY <1>0, <1>7 DEF TypeOK, UpdateMessage, Goto
  <2>. QED
    BY <1>0, <1>7, <2>1 DEF PlaceInv, UpdateMessage
<1>8. ASSUME NEW r \in Archives, NEW all \in BOOLEAN, Archive(r, all) PROVE PlaceInv'
  <2>1. pc'[r] \in {"archive", "done"}
    BY <1>0, <1>8 DEF TypeOK, Archive, Start
  <2>2. \A q \in Runs : q # r => surplus'[q] = surplus[q] /\ pc'[q] = pc[q]
    BY <1>8 DEF TypeOK, Archive, Start
  <2>. QED
    BY <1>0, <1>8, <2>1, <2>2 DEF PlaceInv, Archive
<1>9. ASSUME NEW r \in Runs, ArchiveMessages(r) PROVE PlaceInv'
  BY <1>9 DEF PlaceInv, TypeOK, ArchiveMessages
<1>10. ASSUME NEW r \in Runs, Truncate(r) PROVE PlaceInv'
  BY <1>10 DEF PlaceInv, TypeOK, Truncate, Goto
<1>11. ASSUME NEW r \in Runs, Write(r) PROVE PlaceInv'
  BY <1>11 DEF PlaceInv, TypeOK, Write, Goto
<1>12. ASSUME NEW r \in Runs, Refuse(r) PROVE PlaceInv'
  BY <1>12 DEF PlaceInv, TypeOK, Refuse, Goto, Start
<1>13. ASSUME NEW r \in Runs, Stop(r) PROVE PlaceInv'
  BY <1>13 DEF PlaceInv, TypeOK, Stop
<1>14. ASSUME NEW m \in Messages, Arrive(m) \/ Age(m) PROVE PlaceInv'
  BY <1>14 DEF PlaceInv, Arrive, Age
<1>15. ASSUME UNCHANGED vars PROVE PlaceInv'
  BY <1>15 DEF PlaceInv, vars
<1>. QED
  BY <1>1, <1>2, <1>3, <1>4, <1>5, <1>6, <1>7, <1>8, <1>9, <1>10, <1>11, <1>12, <1>13,
     <1>14, <1>15 DEF Next, PullStep, ReadStep

LEMMA Placed == Spec => [](TypeOK /\ PlaceInv)
<1>1. Init => PlaceInv
  BY DEF Init, PlaceInv
<1>. QED
  BY <1>1, TypeInit, TypeNext, PlaceNext, PTL DEF Spec

\* The list a run is going to write is short enough, as the file is.
LimitInv ==
  /\ WithinActiveMax
  /\ \A r \in Runs : pc[r] \in {"archive", "write"} => Len(next[r]) <= ActiveMax

LEMMA LimitNext == TypeOK /\ LimitInv /\ [Next]_vars => LimitInv'
<1>. SUFFICES ASSUME TypeOK, LimitInv, [Next]_vars PROVE LimitInv'
  OBVIOUS
<1>. USE DEF files, locals
<1>0. /\ \A r \in Pulls : r \in Runs
      /\ \A r \in Reads : r \in Runs
      /\ \A r \in Archives : r \in Runs
  BY DEF Runs
<1>1. ASSUME NEW p \in Pulls, Fetch(p) \/ Ack(p) \/ AckFails(p) \/ AutoReply(p) PROVE LimitInv'
  BY <1>0, <1>1
     DEF LimitInv, WithinActiveMax, TypeOK, Fetch, Ack, AckFails, AutoReply, Start, Goto
<1>2. ASSUME NEW p \in Pulls, AppendMessages(p) PROVE LimitInv'
  <2>1. Len(next'[p]) <= ActiveMax
    BY <1>2, ComputedLists DEF AppendMessages
  <2>2. \A q \in Runs : q # p => next'[q] = next[q] /\ pc'[q] = pc[q]
    BY <1>2 DEF TypeOK, AppendMessages
  <2>. QED
    BY <1>2, <2>1, <2>2 DEF LimitInv, WithinActiveMax, AppendMessages
<1>3. ASSUME NEW r \in Reads, Choose(r) PROVE LimitInv'
  BY <1>0, <1>3 DEF LimitInv, WithinActiveMax, TypeOK, Choose, Start
<1>4. ASSUME NEW r \in Reads, UpdateMessage(r) PROVE LimitInv'
  <2>1. CASE chosen[r] \in Ids(active)
    <3>1. Len(next'[r]) <= ActiveMax
      BY <1>4, <2>1, ComputedLists DEF LimitInv, WithinActiveMax, UpdateMessage
    <3>2. \A q \in Runs : q # r => next'[q] = next[q] /\ pc'[q] = pc[q]
      BY <1>4, <2>1 DEF TypeOK, UpdateMessage, Goto
    <3>. QED
      BY <1>4, <3>1, <3>2 DEF LimitInv, WithinActiveMax, UpdateMessage
  <2>2. CASE chosen[r] \notin Ids(active)
    BY <1>0, <1>4, <2>2 DEF LimitInv, WithinActiveMax, TypeOK, UpdateMessage, Goto
  <2>. QED
    BY <2>1, <2>2
<1>5. ASSUME NEW r \in Archives, NEW all \in BOOLEAN, Archive(r, all) PROVE LimitInv'
  <2>1. Len(next'[r]) <= ActiveMax
    <3>1. next'[r] \in Seq(Entry) /\ active \in Seq(Entry) /\ Len(next'[r]) <= Len(active)
          /\ Len(active) <= ActiveMax
      BY <1>5, ComputedLists DEF LimitInv, WithinActiveMax, Archive, TypeOK
    <3>2. Len(next'[r]) \in Nat /\ Len(active) \in Nat /\ ActiveMax \in Nat
      BY <3>1, LenProperties, SizeAssumption
    <3>. QED
      BY <3>1, <3>2
  <2>2. \A q \in Runs : q # r => next'[q] = next[q] /\ pc'[q] = pc[q]
    BY <1>5 DEF TypeOK, Archive, Start
  <2>. QED
    BY <1>5, <2>1, <2>2 DEF LimitInv, WithinActiveMax, Archive
<1>6. ASSUME NEW r \in Runs, ArchiveMessages(r) \/ Truncate(r) \/ Write(r) PROVE LimitInv'
  <2>1. CASE ArchiveMessages(r)
    BY <2>1 DEF LimitInv, WithinActiveMax, ArchiveMessages
  <2>2. CASE Truncate(r)
    BY <2>2 DEF LimitInv, WithinActiveMax, TypeOK, Truncate, Goto
  <2>3. CASE Write(r)
    BY <2>3 DEF LimitInv, WithinActiveMax, TypeOK, Write, Goto
  <2>. QED
    BY <1>6, <2>1, <2>2, <2>3
<1>7. ASSUME NEW r \in Runs, Refuse(r) \/ Stop(r) PROVE LimitInv'
  BY <1>7 DEF LimitInv, WithinActiveMax, TypeOK, Refuse, Stop, Goto, Start
<1>8. ASSUME NEW m \in Messages, Arrive(m) \/ Age(m) PROVE LimitInv'
  BY <1>8 DEF LimitInv, WithinActiveMax, Arrive, Age
<1>9. ASSUME UNCHANGED vars PROVE LimitInv'
  BY <1>9 DEF LimitInv, WithinActiveMax, vars
<1>. QED
  BY <1>1, <1>2, <1>3, <1>4, <1>5, <1>6, <1>7, <1>8, <1>9 DEF Next, PullStep, ReadStep

\* However commands overlap, fail or stop, active.json never holds more than
\* active_max messages: every list that is computed is short enough, and only
\* such a list is written.
THEOREM NeverOverActiveMax == Spec => []WithinActiveMax
<1>1. Init => LimitInv
  BY SizeAssumption DEF Init, LimitInv, WithinActiveMax
<1>2. LimitInv => WithinActiveMax
  BY DEF LimitInv
<1>. QED
  BY <1>1, <1>2, LimitNext, TypeInit, TypeNext, PTL DEF Spec

(***************************************************************************)
(* Commands that take turns.                                               *)
(***************************************************************************)

IdleBut(r) == \A q \in Runs : q # r => pc[q] \in {"new", "done"}
Turns == ~overlapped => \A r \in Runs : Running(r) => IdleBut(r)

\* A step of a run, as the others see it.
RunStep(r) ==
  /\ \A q \in Runs : q # r => pc'[q] = pc[q]
  /\ \/ Running(r) /\ overlapped' = overlapped
     \/ pc[r] = "new" /\ overlapped' = (overlapped \/ \E q \in Runs : Running(q))

\* As long as no two runs have been under way at once, the others are idle
\* when a run takes a step.
LEMMA Alone ==
  ASSUME TypeOK, Turns, NEW r \in Runs, RunStep(r), ~overlapped'
  PROVE  ~overlapped /\ IdleBut(r) /\ IdleBut(r)'
<1>1. ~overlapped /\ IdleBut(r)
  <2>1. CASE Running(r) /\ overlapped' = overlapped
    BY <2>1, Zenon DEF Turns
  <2>2. CASE pc[r] = "new" /\ overlapped' = (overlapped \/ \E q \in Runs : Running(q))
    <3>1. ~overlapped /\ \A q \in Runs : ~Running(q)
      BY <2>2, Zenon
    <3>. QED
      BY <3>1 DEF IdleBut, Running
  <2>. QED
    BY <2>1, <2>2, Zenon DEF RunStep
<1>2. IdleBut(r)'
  BY <1>1 DEF IdleBut, RunStep
<1>. QED
  BY <1>1, <1>2

\* Every step is one run's, or of none of them.
LEMMA Steps ==
  ASSUME TypeOK, Next
  PROVE  /\ \A p \in Pulls : PullStep(p) => p \in Runs /\ RunStep(p)
         /\ \A r \in Reads : ReadStep(r) => r \in Runs /\ RunStep(r)
         /\ \A r \in Archives, all \in BOOLEAN : Archive(r, all) => r \in Runs /\ RunStep(r)
         /\ \A r \in Runs :
              ArchiveMessages(r) \/ Truncate(r) \/ Write(r) \/ Refuse(r) \/ Stop(r) => RunStep(r)
         /\ \A m \in Messages : Arrive(m) \/ Age(m) => UNCHANGED <<pc, overlapped>>
<1>. USE DEF RunStep, Running, TypeOK, Goto, Start
<1>0. Pulls \subseteq Runs /\ Reads \subseteq Runs /\ Archives \subseteq Runs
  BY DEF Runs
<1>1. ASSUME NEW p \in Pulls, PullStep(p) PROVE RunStep(p)
  <2>1. CASE Fetch(p)
    BY <1>0, <2>1 DEF Fetch
  <2>2. CASE AppendMessages(p)
    BY <1>0, <2>2 DEF AppendMessages
  <2>3. CASE Ack(p) \/ AckFails(p) \/ AutoReply(p)
    BY <1>0, <2>3 DEF Ack, AckFails, AutoReply
  <2>. QED
    BY <1>1, <2>1, <2>2, <2>3 DEF PullStep
<1>2. ASSUME NEW r \in Reads, ReadStep(r) PROVE RunStep(r)
  <2>1. CASE Choose(r)
    BY <1>0, <2>1 DEF Choose
  <2>2. CASE UpdateMessage(r)
    BY <1>0, <2>2 DEF UpdateMessage
  <2>. QED
    BY <1>2, <2>1, <2>2 DEF ReadStep
<1>3. ASSUME NEW r \in Archives, NEW all \in BOOLEAN, Archive(r, all) PROVE RunStep(r)
  BY <1>0, <1>3 DEF Archive
<1>4. ASSUME NEW r \in Runs,
             ArchiveMessages(r) \/ Truncate(r) \/ Write(r) \/ Refuse(r) \/ Stop(r)
      PROVE  RunStep(r)
  BY <1>4 DEF ArchiveMessages, Truncate, Write, Refuse, Stop
<1>5. ASSUME NEW m \in Messages, Arrive(m) \/ Age(m) PROVE UNCHANGED <<pc, overlapped>>
  BY <1>5 DEF Arrive, Age
<1>. QED
  BY <1>0, <1>1, <1>2, <1>3, <1>4, <1>5

LEMMA TurnsNext == TypeOK /\ Turns /\ [Next]_vars => Turns'
<1>. SUFFICES ASSUME TypeOK, Turns, [Next]_vars PROVE Turns'
  OBVIOUS
<1>1. ASSUME NEW r \in Runs, RunStep(r) PROVE Turns'
  <2>. SUFFICES ASSUME ~overlapped' PROVE \A q \in Runs : Running(q)' => IdleBut(q)'
    BY DEF Turns
  <2>1. IdleBut(r)'
    BY <1>1, Alone
  <2>. QED
    BY <2>1 DEF IdleBut, Running
<1>2. ASSUME UNCHANGED <<pc, overlapped>> PROVE Turns'
  BY <1>2 DEF Turns, IdleBut, Running
<1>3. CASE Next
  BY <1>1, <1>2, <1>3, Steps DEF Next
<1>4. CASE UNCHANGED vars
  BY <1>2, <1>4 DEF vars
<1>. QED
  BY <1>3, <1>4

(***************************************************************************)
(* No message is lost while commands take turns.                           *)
(***************************************************************************)

Held == In(held)
Archived == {m \in Messages : archive[m] > 0}
Covered(r) == Ids(next[r]) \cup AllIds(surplus[r]) \cup Archived

\* What a run has loaded and fetched is in what it will write, in what it will
\* append to the archive, or archived; once it has truncated the file, its list
\* is all of the inbox.
KeptRun(r) ==
  /\ pc[r] = "archive" => Ids(active) \subseteq Covered(r)
  /\ pc[r] \in {"archive", "write"} => In(batch[r]) \subseteq Covered(r)
  /\ pc[r] = "write" => active = Empty /\ sent \subseteq Held \cup Archived \cup Ids(next[r])
  /\ pc[r] = "ack" => In(batch[r]) \subseteq Ids(active) \cup Archived

KeptTurn ==
  /\ (\A r \in Runs : pc[r] # "write") =>
       active # Empty /\ sent \subseteq Held \cup Archived \cup Ids(active)
  /\ \A r \in Runs : KeptRun(r)

KeptInv == ~overlapped /\ ~damaged => KeptTurn

\* While the others are idle, only the run that steps matters.
LEMMA KeptFor ==
  ASSUME NEW r \in Runs, IdleBut(r)', KeptRun(r)',
         pc'[r] # "write" => active' # Empty /\ sent' \subseteq (Held \cup Archived \cup Ids(active))'
  PROVE  KeptTurn'
<1>1. ASSUME NEW q \in Runs, q # r PROVE KeptRun(q)'
  BY <1>1 DEF KeptRun, IdleBut
<1>. QED
  BY <1>1 DEF KeptTurn

\* The broker drops what is acknowledged.
LEMMA Acked ==
  ASSUME TypeOK, NEW p \in Pulls, Ack(p)
  PROVE  Held' = Held \ In(batch[p]) /\ (Once(held) => Once(held'))
<1>1. BatchIds(p) = In(batch[p])
  BY DEF BatchIds, In
<1>2. held \in Seq(Messages)
      /\ held' = Picked(held, {k \in DOMAIN held : held[k] \notin In(batch[p])})
  BY <1>1 DEF Ack, TypeOK
<1>. QED
  BY <1>2, Remaining DEF Held

\* archiveMessages moves ids from what is left to archive to the archive.
LEMMA Moved ==
  ASSUME TypeOK, NEW r \in Runs, ArchiveMessages(r)
  PROVE  /\ Head(surplus[r]) \in Seq(Entry) /\ Tail(surplus[r]) \in Seq(Seq(Entry))
         /\ surplus'[r] = Tail(surplus[r])
         /\ DOMAIN surplus[r] = 1 .. Len(surplus[r]) /\ Len(surplus[r]) \in Nat \ {0}
         /\ Head(surplus[r]) = surplus[r][1]
         /\ \A i \in DOMAIN surplus'[r] :
              i + 1 \in DOMAIN surplus[r] /\ i + 1 # 1 /\ surplus'[r][i] = surplus[r][i + 1]
         /\ AllIds(surplus[r]) = Ids(Head(surplus[r])) \cup AllIds(surplus'[r])
         /\ Archived' = Archived \cup Ids(Head(surplus[r]))
<1>. DEFINE s == surplus[r]
            t == Tail(s)
            N == Len(s)
<1>1. s \in Seq(Seq(Entry)) /\ s # <<>>
  BY DEF TypeOK, ArchiveMessages
<1>2. surplus'[r] = t /\ archive' = [m \in Messages |-> archive[m] + Copies(Head(s), m)]
  BY DEF TypeOK, ArchiveMessages
<1>. HIDE DEF s
<1>3. /\ Head(s) \in Seq(Entry) /\ t \in Seq(Seq(Entry)) /\ Len(t) = N - 1
      /\ \A i \in 1 .. Len(t) : t[i] = s[i + 1]
  BY <1>1, HeadTailProperties
<1>4. DOMAIN s = 1 .. N /\ N \in Nat \ {0} /\ Head(s) = s[1]
  BY <1>1, LenProperties, EmptySeq
<1>. HIDE DEF t, N
<1>5. DOMAIN t = 1 .. N - 1
  BY <1>3, LenProperties
<1>6. \A i \in DOMAIN t : i + 1 \in DOMAIN s /\ i + 1 # 1 /\ t[i] = s[i + 1]
  BY <1>3, <1>4, <1>5
<1>7. AllIds(s) = Ids(Head(s)) \cup AllIds(t)
  <2>1. ASSUME NEW k \in DOMAIN s PROVE Ids(s[k]) \subseteq Ids(Head(s)) \cup AllIds(t)
    <3>1. CASE k = 1
      BY <3>1, <1>4
    <3>2. CASE k # 1
      <4>1. PICK i \in 1 .. N - 1 : i + 1 = k
        BY <3>2, <1>4
      <4>. QED
        BY <4>1, <1>5, <1>6 DEF AllIds
    <3>. QED
      BY <3>1, <3>2
  <2>2. Ids(Head(s)) \subseteq AllIds(s) /\ AllIds(t) \subseteq AllIds(s)
    BY <1>4, <1>6 DEF AllIds
  <2>. QED
    BY <2>1, <2>2 DEF AllIds
<1>8. Archived' = Archived \cup Ids(Head(s))
  <2>1. ASSUME NEW m \in Messages
        PROVE  archive'[m] > 0 <=> archive[m] > 0 \/ m \in Ids(Head(s))
    <3>1. /\ archive[m] \in Nat /\ Copies(Head(s), m) \in Nat
          /\ Copies(Head(s), m) = 0 <=> m \notin Ids(Head(s))
      BY <1>3, CopiesOf DEF TypeOK
    <3>. QED
      BY <3>1, <1>2
  <2>2. Ids(Head(s)) \subseteq Messages
    BY <1>3, EntryFields DEF Ids
  <2>. QED
    BY <2>1, <2>2 DEF Archived
<1>. QED
  BY <1>2, <1>3, <1>4, <1>5, <1>6, <1>7, <1>8 DEF s, t, N

LEMMA KeptNext == TypeOK /\ PlaceInv /\ Turns /\ KeptInv /\ [Next]_vars => KeptInv'
<1>. SUFFICES ASSUME TypeOK, PlaceInv, Turns, KeptInv, [Next]_vars, ~overlapped', ~damaged'
              PROVE  KeptTurn'
  BY DEF KeptInv
<1>. USE DEF files, locals
<1>0. /\ \A r \in Pulls : r \in Runs
      /\ \A r \in Reads : r \in Runs /\ r \notin Pulls
      /\ \A r \in Archives : r \in Runs /\ r \notin Pulls
  BY RunsAssumption DEF Runs
\* What the run that steps may rely on.
<1>a. ASSUME NEW r \in Runs, RunStep(r), ~damaged
      PROVE  /\ IdleBut(r) /\ IdleBut(r)' /\ KeptRun(r)
             /\ pc[r] # "write" =>
                  active # Empty /\ sent \subseteq Held \cup Archived \cup Ids(active)
  <2>1. ~overlapped /\ IdleBut(r) /\ IdleBut(r)'
    BY <1>a, Alone
  <2>2. KeptTurn
    BY <1>a, <2>1 DEF KeptInv
  <2>3. ASSUME pc[r] # "write" PROVE \A q \in Runs : pc[q] # "write"
    BY <2>1, <2>3 DEF IdleBut
  <2>. QED
    BY <2>1, <2>2, <2>3 DEF KeptTurn
<1>1. ASSUME NEW p \in Pulls, Fetch(p), RunStep(p) PROVE KeptTurn'
  <2>1. /\ pc'[p] \in {"append", "done"} /\ pc[p] = "new"
        /\ UNCHANGED <<held, active, archive, sent, damaged>>
    BY <1>0, <1>1 DEF Fetch, Start, TypeOK
  <2>2. KeptRun(p)'
    BY <2>1 DEF KeptRun
  <2>. QED
    BY <1>0, <1>1, <1>a, <2>1, <2>2, KeptFor DEF Held, Archived
<1>2. ASSUME NEW p \in Pulls, AppendMessages(p), RunStep(p) PROVE KeptTurn'
  <2>1. /\ pc'[p] = "archive" /\ pc[p] = "append" /\ active # Empty /\ batch[p] \in Seq(Messages)
        /\ active \in Seq(Entry)
        /\ UNCHANGED <<held, active, archive, sent, damaged, batch>>
    BY <1>0, <1>2 DEF AppendMessages, TypeOK
  <2>2. Ids(active) \cup In(batch[p]) = Ids(next'[p]) \cup AllIds(surplus'[p])
    <3>1. Ids(active \o Unread(batch[p])) = Ids(next'[p]) \cup AllIds(surplus'[p])
      BY <1>2, <2>1, ComputedLists DEF Shared
    <3>. QED
      BY <2>1, <3>1, Joined
  <2>3. KeptRun(p)'
    BY <2>1, <2>2 DEF KeptRun, Covered, Archived
  <2>. QED
    BY <1>0, <1>2, <1>a, <2>1, <2>3, KeptFor DEF Held, Archived
<1>3. ASSUME NEW p \in Pulls, Ack(p), RunStep(p) PROVE KeptTurn'
  <2>1. /\ pc'[p] = "reply" /\ pc[p] = "ack"
        /\ UNCHANGED <<active, archive, sent, damaged>>
    BY <1>0, <1>3 DEF Ack, Goto, TypeOK
  <2>2. Held' = Held \ In(batch[p])
    BY <1>3, Acked
  <2>3. KeptRun(p)'
    BY <2>1 DEF KeptRun
  <2>4. /\ IdleBut(p)' /\ KeptRun(p) /\ active # Empty
        /\ sent \subseteq Held \cup Archived \cup Ids(active)
    BY <1>0, <1>3, <1>a, <2>1
  <2>5. In(batch[p]) \subseteq Ids(active) \cup Archived
    BY <2>1, <2>4 DEF KeptRun
  <2>6. sent' \subseteq (Held \cup Archived \cup Ids(active))'
    BY <2>1, <2>2, <2>4, <2>5 DEF Archived
  <2>. QED
    BY <1>0, <2>1, <2>3, <2>4, <2>6, KeptFor
<1>4. ASSUME NEW p \in Pulls, AckFails(p) \/ AutoReply(p), RunStep(p) PROVE KeptTurn'
  <2>1. /\ pc'[p] \in {"reply", "done"} /\ pc[p] \in {"ack", "reply"}
        /\ UNCHANGED <<held, active, archive, sent, damaged>>
    BY <1>0, <1>4 DEF AckFails, AutoReply, Goto, TypeOK
  <2>2. KeptRun(p)'
    BY <2>1 DEF KeptRun
  <2>. QED
    BY <1>0, <1>4, <1>a, <2>1, <2>2, KeptFor DEF Held, Archived
<1>5. ASSUME NEW r \in Reads, Choose(r), RunStep(r) PROVE KeptTurn'
  <2>1. /\ pc'[r] \in {"update", "done"} /\ pc[r] = "new"
        /\ UNCHANGED <<held, active, archive, sent, damaged>>
    BY <1>0, <1>5 DEF Choose, Start, TypeOK
  <2>2. KeptRun(r)'
    BY <2>1 DEF KeptRun
  <2>. QED
    BY <1>0, <1>5, <1>a, <2>1, <2>2, KeptFor DEF Held, Archived
<1>6. ASSUME NEW r \in Reads, UpdateMessage(r), RunStep(r) PROVE KeptTurn'
  <2>1. /\ pc'[r] \in {"archive", "done"} /\ pc[r] = "update" /\ active # Empty
        /\ UNCHANGED <<held, active, archive, sent, damaged, batch, surplus>>
        /\ pc'[r] = "archive" => chosen[r] \in Ids(active)
    BY <1>0, <1>6 DEF UpdateMessage, Goto, TypeOK
  <2>2. KeptRun(r)'
    <3>. SUFFICES ASSUME pc'[r] = "archive" PROVE Ids(active) \subseteq Covered(r)' /\ In(batch[r]) = {}
      BY <2>1 DEF KeptRun
    <3>1. batch[r] = <<>>
      BY <1>0 DEF PlaceInv
    <3>2. Ids(active) \subseteq Ids(next'[r]) \cup AllIds(<<>>) /\ AllIds(<<>>) = {}
      BY <1>6, <2>1, ComputedLists DEF Shared, AllIds
    <3>. QED
      BY <3>1, <3>2 DEF Covered, In
  <2>. QED
    BY <1>0, <1>6, <1>a, <2>1, <2>2, KeptFor DEF Held, Archived
<1>7. ASSUME NEW r \in Archives, NEW all \in BOOLEAN, Archive(r, all), RunStep(r) PROVE KeptTurn'
  <2>1. /\ pc'[r] \in {"archive", "done"} /\ pc[r] = "new" /\ active # Empty
        /\ UNCHANGED <<held, active, archive, sent, damaged, batch>>
    BY <1>0, <1>7 DEF Archive, Start, TypeOK
  <2>2. In(batch[r]) = {}
    BY <1>0 DEF PlaceInv, In
  <2>3. Ids(active) = Ids(next'[r]) \cup AllIds(surplus'[r])
    BY <1>7, <2>1, ComputedLists DEF Shared
  <2>4. KeptRun(r)'
    BY <2>1, <2>2, <2>3 DEF KeptRun, Covered
  <2>. QED
    BY <1>0, <1>7, <1>a, <2>1, <2>4, KeptFor DEF Held, Archived
<1>8. ASSUME NEW r \in Runs, ArchiveMessages(r), RunStep(r) PROVE KeptTurn'
  <2>1. /\ pc'[r] = "archive" /\ pc[r] = "archive"
        /\ UNCHANGED <<held, active, sent, damaged, batch, next>>
    BY <1>8 DEF ArchiveMessages, TypeOK
  <2>2. /\ AllIds(surplus[r]) = Ids(Head(surplus[r])) \cup AllIds(surplus'[r])
        /\ Archived' = Archived \cup Ids(Head(surplus[r]))
    BY <1>8, Moved
  <2>3. Covered(r)' = Covered(r)
    BY <2>1, <2>2 DEF Covered
  <2>4. /\ IdleBut(r)' /\ KeptRun(r) /\ active # Empty
        /\ sent \subseteq Held \cup Archived \cup Ids(active)
    BY <1>8, <1>a, <2>1
  <2>5. KeptRun(r)'
    BY <2>1, <2>3, <2>4 DEF KeptRun
  <2>6. active' # Empty /\ sent' \subseteq (Held \cup Archived \cup Ids(active))'
    BY <2>1, <2>2, <2>4 DEF Held
  <2>. QED
    BY <2>4, <2>5, <2>6, KeptFor
<1>9. ASSUME NEW r \in Runs, Truncate(r), RunStep(r) PROVE KeptTurn'
  <2>1. /\ pc'[r] = "write" /\ pc[r] = "archive" /\ active' = Empty /\ surplus[r] = <<>>
        /\ UNCHANGED <<held, archive, sent, damaged, batch, next, surplus>>
    BY <1>9 DEF Truncate, Goto, TypeOK
  <2>2. /\ IdleBut(r)' /\ KeptRun(r) /\ sent \subseteq Held \cup Archived \cup Ids(active)
    BY <1>9, <1>a, <2>1
  <2>3. Covered(r) = Ids(next[r]) \cup Archived
    BY <2>1 DEF Covered, AllIds
  <2>4. Ids(active) \subseteq Covered(r) /\ In(batch[r]) \subseteq Covered(r)
    BY <2>1, <2>2 DEF KeptRun
  <2>5. Covered(r)' = Covered(r) /\ Archived' = Archived /\ Held' = Held
    BY <2>1 DEF Covered, Archived, Held
  <2>6. KeptRun(r)'
    BY <2>1, <2>2, <2>3, <2>4, <2>5 DEF KeptRun
  <2>. QED
    BY <2>1, <2>2, <2>6, KeptFor
<1>10. ASSUME NEW r \in Runs, Write(r), RunStep(r) PROVE KeptTurn'
  <2>1. /\ pc'[r] \in {"ack", "done"} /\ pc[r] = "write" /\ active' = next[r]
        /\ UNCHANGED <<held, archive, sent, damaged, batch, next, surplus>>
        /\ next[r] \in Seq(Entry)
    BY <1>10 DEF Write, Goto, TypeOK
  <2>2. /\ IdleBut(r)' /\ KeptRun(r)
    BY <1>10, <1>a, <2>1
  <2>3. In(batch[r]) \subseteq Ids(next[r]) \cup Archived
    BY <2>1, <2>2 DEF KeptRun, PlaceInv, Covered, AllIds
  <2>4. KeptRun(r)'
    BY <2>1, <2>3 DEF KeptRun, Archived
  <2>5. active' # Empty
    BY <2>1, ListNotEmpty
  <2>6. sent' \subseteq (Held \cup Archived \cup Ids(active))'
    BY <2>1, <2>2 DEF KeptRun, Held, Archived
  <2>. QED
    BY <2>2, <2>4, <2>5, <2>6, KeptFor
<1>11. ASSUME NEW r \in Runs, Refuse(r) \/ Stop(r), RunStep(r) PROVE KeptTurn'
  <2>1. /\ pc'[r] = "done" /\ pc[r] # "write" /\ ~damaged
        /\ UNCHANGED <<held, active, archive, sent>>
    <3>1. CASE Refuse(r)
      BY <3>1 DEF Refuse, Goto, Start, TypeOK
    <3>2. CASE Stop(r)
      <4>1. ~damaged /\ pc[r] # "write"
        BY <3>2, Zenon DEF Stop
      <4>. QED
        BY <3>2, <4>1 DEF Stop, TypeOK
    <3>. QED
      BY <1>11, <3>1, <3>2
  <2>2. KeptRun(r)'
    BY <2>1 DEF KeptRun
  <2>. QED
    BY <1>11, <1>a, <2>1, <2>2, KeptFor DEF Held, Archived
<1>12. ASSUME NEW m \in Messages, Arrive(m) PROVE KeptTurn'
  <2>1. /\ UNCHANGED <<active, archive, pc, batch, surplus, next, overlapped, damaged>>
        /\ held' = Append(held, m) /\ sent' = sent \cup {m}
    BY <1>12 DEF Arrive
  <2>2. Held' = Held \cup {m}
    BY <2>1, Arrived DEF Held, TypeOK
  <2>3. KeptTurn
    BY <2>1 DEF KeptInv
  <2>. QED
    BY <2>1, <2>2, <2>3 DEF KeptTurn, KeptRun, Covered, Archived
<1>13. ASSUME NEW m \in Messages, Age(m) PROVE KeptTurn'
  <2>1. UNCHANGED <<held, active, archive, pc, batch, surplus, next, sent, overlapped, damaged>>
    BY <1>13 DEF Age
  <2>. QED
    BY <2>1 DEF KeptInv, KeptTurn, KeptRun, Covered, Archived, Held
<1>14. ASSUME UNCHANGED vars PROVE KeptTurn'
  BY <1>14 DEF vars, KeptInv, KeptTurn, KeptRun, Covered, Archived, Held
<1>15. CASE Next
  BY <1>1, <1>2, <1>3, <1>4, <1>5, <1>6, <1>7, <1>8, <1>9, <1>10, <1>11, <1>12, <1>13, <1>15,
     Steps DEF Next, PullStep, ReadStep
<1>. QED
  BY <1>14, <1>15

\* The inbox is in the file, or in the list of the run that has truncated it.
LEMMA StoredIs ==
  ASSUME TypeOK, Turns, ~overlapped, KeptTurn
  PROVE  /\ (\A r \in Runs : pc[r] # "write") => active \in Seq(Entry) /\ Stored = {active}
         /\ \A r \in Runs : pc[r] = "write" => next[r] \in Seq(Entry) /\ Stored = {next[r]}
<1>1. ASSUME \A r \in Runs : pc[r] # "write" PROVE active \in Seq(Entry) /\ Stored = {active}
  BY <1>1 DEF KeptTurn, TypeOK, Stored
<1>2. ASSUME NEW r \in Runs, pc[r] = "write"
      PROVE  next[r] \in Seq(Entry) /\ Stored = {next[r]}
  <2>1. \A q \in Runs : pc[q] = "write" => q = r
    BY <1>2 DEF Turns, IdleBut, Running
  <2>2. active = Empty
    BY <1>2 DEF KeptTurn, KeptRun
  <2>. QED
    BY <1>2, <2>1, <2>2 DEF TypeOK, Stored
<1>. QED
  BY <1>1, <1>2

LEMMA KeptImplied == TypeOK /\ Turns /\ KeptInv => KeptInTurns
<1>. SUFFICES ASSUME TypeOK, Turns, KeptInv, ~overlapped, ~damaged, NEW m \in sent
              PROVE  \/ \E k \in DOMAIN held : held[k] = m
                     \/ archive[m] > 0
                     \/ \E list \in Stored : m \in Ids(list)
  BY DEF KeptInTurns
<1>1. KeptTurn
  BY DEF KeptInv
<1>2. \E list \in Stored : sent \subseteq Held \cup Archived \cup Ids(list)
  <2>1. CASE \A r \in Runs : pc[r] # "write"
    BY <1>1, <2>1, StoredIs DEF KeptTurn
  <2>2. CASE \E r \in Runs : pc[r] = "write"
    BY <1>1, <2>2, StoredIs DEF KeptTurn, KeptRun
  <2>. QED
    BY <2>1, <2>2
<1>. QED
  BY <1>2 DEF Held, In, Archived

LEMMA InitKept == Init => PlaceInv /\ Turns /\ KeptInv
<1>. SUFFICES ASSUME Init PROVE PlaceInv /\ Turns /\ KeptInv
  OBVIOUS
<1>1. PlaceInv /\ Turns
  BY DEF Init, PlaceInv, Turns, Running
<1>2. \A r \in Runs : KeptRun(r)
  BY DEF Init, KeptRun
<1>3. active # Empty /\ sent = {}
  <2>1. <<>> \in Seq(Entry)
    OBVIOUS
  <2>. QED
    BY <2>1, ListNotEmpty DEF Init
<1>. QED
  BY <1>1, <1>2, <1>3 DEF KeptInv, KeptTurn

\* While commands take turns, whichever of them stops, but for the time between
\* the truncation of active.json and its write, no message that reached the
\* broker is lost: appendMessages and cmdArchive append what they take out to
\* the archive before they write the rest, and cmdPull acknowledges what it has
\* saved.
THEOREM NeverLostInTurns == Spec => []KeptInTurns
<1>. QED
  BY InitKept, TypeInit, TypeNext, PlaceNext, TurnsNext, KeptNext, KeptImplied, PTL DEF Spec

(***************************************************************************)
(* No message is there twice while commands take turns and none fails.     *)
(***************************************************************************)

\* What a run will append and what it will write are shared out, apart from what
\* is archived, and only what the run was answered is still with the broker.
Ready(r) ==
  /\ Distinct(next[r])
  /\ \A i \in DOMAIN surplus[r] :
       /\ Distinct(surplus[r][i])
       /\ Ids(surplus[r][i]) \cap (Ids(next[r]) \cup Archived) = {}
       /\ \A j \in DOMAIN surplus[r] \ {i} : Ids(surplus[r][i]) \cap Ids(surplus[r][j]) = {}
  /\ Ids(next[r]) \cap Archived = {}
  /\ Ids(next[r]) \cup AllIds(surplus[r]) \subseteq sent
  /\ Covered(r) \cap Held \subseteq In(batch[r])

OnceRun(r) ==
  /\ pc[r] \in {"append", "archive", "write", "ack"} => In(batch[r]) \subseteq Held
  /\ pc[r] = "append" => Once(batch[r])
  /\ pc[r] \in {"archive", "write"} => Ready(r)
  /\ pc[r] = "ack" => (Ids(active) \cup Archived) \cap Held \subseteq In(batch[r])
  /\ pc[r] = "reply" => In(batch[r]) \subseteq sent \ Held

Known ==
  /\ Once(held)
  /\ Held \cup Archived \subseteq sent
  /\ \A m \in Messages : archive[m] <= 1
  /\ active # Empty => Ids(active) \subseteq sent

OnceStored == Distinct(active) /\ Ids(active) \cap Archived = {}
OnceHeld == (Ids(active) \cup Archived) \cap Held = {}

OnceTurn ==
  /\ Known
  /\ \A r \in Runs : OnceRun(r)
  /\ (\A r \in Runs : pc[r] \notin {"archive", "write"}) => OnceStored
  /\ (\A r \in Runs : pc[r] \notin {"archive", "write", "ack"}) => OnceHeld

OnceInv == ~overlapped /\ failures = 0 => OnceTurn

\* While the others are idle, only the run that steps matters.
LEMMA OnceFor ==
  ASSUME NEW r \in Runs, IdleBut(r)', Known', OnceRun(r)',
         pc'[r] \notin {"archive", "write"} => OnceStored',
         pc'[r] \notin {"archive", "write", "ack"} => OnceHeld'
  PROVE  OnceTurn'
<1>1. ASSUME NEW q \in Runs, q # r PROVE OnceRun(q)'
  BY <1>1 DEF OnceRun, IdleBut
<1>. QED
  BY <1>1 DEF OnceTurn

\* What the run that steps may rely on.
LEMMA Rely ==
  ASSUME TypeOK, PlaceInv, Turns, KeptInv, NEW r \in Runs, RunStep(r), ~overlapped', failures = 0
  PROVE  /\ ~overlapped /\ ~damaged /\ IdleBut(r) /\ IdleBut(r)' /\ KeptTurn
         /\ pc[r] # "write" => active # Empty
<1>1. ~overlapped /\ ~damaged /\ IdleBut(r) /\ IdleBut(r)'
  BY Alone DEF PlaceInv
<1>2. KeptTurn
  BY <1>1 DEF KeptInv
<1>3. ASSUME pc[r] # "write" PROVE \A q \in Runs : pc[q] # "write"
  BY <1>1, <1>3 DEF IdleBut
<1>. QED
  BY <1>1, <1>2, <1>3 DEF KeptTurn

LEMMA RelyOnce ==
  ASSUME OnceInv, ~overlapped, failures = 0, NEW r \in Runs, IdleBut(r)
  PROVE  /\ Known /\ OnceRun(r)
         /\ pc[r] \notin {"archive", "write"} => OnceStored
         /\ pc[r] \notin {"archive", "write", "ack"} => OnceHeld
<1>1. OnceTurn
  BY DEF OnceInv
<1>2. ASSUME pc[r] \notin {"archive", "write"} PROVE \A q \in Runs : pc[q] \notin {"archive", "write"}
  BY <1>2 DEF IdleBut
<1>3. ASSUME pc[r] \notin {"archive", "write", "ack"}
      PROVE  \A q \in Runs : pc[q] \notin {"archive", "write", "ack"}
  BY <1>3 DEF IdleBut
<1>. QED
  BY <1>1, <1>2, <1>3 DEF OnceTurn

\* A list without second copies is shared out without second copies.
LEMMA ReadyFrom ==
  ASSUME NEW r \in Runs, NEW list,
         Distinct(list), Ids(list) \cap Archived = {}, Ids(list) \subseteq sent,
         (Ids(list) \cup Archived) \cap Held \subseteq In(batch[r]),
         Shared(list, next'[r], surplus'[r]),
         UNCHANGED <<held, archive, batch, sent>>
  PROVE  Ready(r)'
<1>1. /\ Ids(next'[r]) \cup AllIds(surplus'[r]) = Ids(list)
      /\ Distinct(next'[r])
      /\ \A i \in DOMAIN surplus'[r] :
           /\ Distinct(surplus'[r][i])
           /\ Ids(surplus'[r][i]) \cap Ids(next'[r]) = {}
           /\ \A j \in DOMAIN surplus'[r] \ {i} : Ids(surplus'[r][i]) \cap Ids(surplus'[r][j]) = {}
  BY DEF Shared
<1>2. \A i \in DOMAIN surplus'[r] : Ids(surplus'[r][i]) \subseteq Ids(list)
  BY <1>1 DEF AllIds
<1>3. Archived' = Archived /\ Held' = Held
  BY DEF Archived, Held
<1>4. Covered(r)' = Ids(list) \cup Archived
  BY <1>1, <1>3 DEF Covered
<1>. QED
  BY <1>1, <1>2, <1>3, <1>4 DEF Ready

LEMMA OnceNext ==
  TypeOK /\ PlaceInv /\ Turns /\ KeptInv /\ OnceInv /\ [Next]_vars => OnceInv'
<1>. SUFFICES ASSUME TypeOK, PlaceInv, Turns, KeptInv, OnceInv, [Next]_vars,
                     ~overlapped', failures' = 0
              PROVE  OnceTurn'
  BY DEF OnceInv
<1>. USE DEF files, locals
<1>0. /\ \A r \in Pulls : r \in Runs
      /\ \A r \in Reads : r \in Runs /\ r \notin Pulls
      /\ \A r \in Archives : r \in Runs /\ r \notin Pulls
  BY RunsAssumption DEF Runs
\* What the run that steps may rely on.
<1>a. ASSUME NEW r \in Runs, RunStep(r), failures = 0
      PROVE  /\ IdleBut(r)' /\ Known /\ OnceRun(r)
             /\ pc[r] # "write" => active # Empty
             /\ pc[r] \notin {"archive", "write"} => OnceStored
             /\ pc[r] \notin {"archive", "write", "ack"} => OnceHeld
  BY <1>a, Rely, RelyOnce
<1>1. ASSUME NEW p \in Pulls, Fetch(p), RunStep(p) PROVE OnceTurn'
  <2>1. /\ pc'[p] \in {"append", "done"} /\ pc[p] = "new"
        /\ batch'[p] = SubSeq(held, 1, Smaller(BatchSize, Len(held)))
        /\ UNCHANGED <<held, active, archive, sent, failures>>
    BY <1>0, <1>1 DEF Fetch, Start, TypeOK
  <2>2. In(batch'[p]) \subseteq Held /\ (Once(held) => Once(batch'[p]))
    BY <2>1, Answer DEF Held, TypeOK
  <2>3. IdleBut(p)' /\ Known /\ OnceStored /\ OnceHeld
    BY <1>0, <1>1, <1>a, <2>1
  <2>4. Known' /\ OnceStored' /\ OnceHeld' /\ Held' = Held
    BY <2>1, <2>3 DEF Known, OnceStored, OnceHeld, Held, Archived
  <2>5. OnceRun(p)'
    BY <2>1, <2>2, <2>3, <2>4 DEF OnceRun, Known
  <2>. QED
    BY <1>0, <2>3, <2>4, <2>5, OnceFor
<1>2. ASSUME NEW p \in Pulls, AppendMessages(p), RunStep(p) PROVE OnceTurn'
  <2>1. /\ pc'[p] = "archive" /\ pc[p] = "append" /\ active # Empty /\ batch[p] \in Seq(Messages)
        /\ active \in Seq(Entry)
        /\ UNCHANGED <<held, active, archive, sent, batch, failures>>
    BY <1>0, <1>2 DEF AppendMessages, TypeOK
  <2>2. /\ IdleBut(p)' /\ Known /\ OnceStored /\ OnceHeld
        /\ In(batch[p]) \subseteq Held /\ Once(batch[p])
    BY <1>0, <1>2, <1>a, <2>1 DEF OnceRun
  <2>. DEFINE list == active \o Unread(batch[p])
  <2>3. Ids(list) = Ids(active) \cup In(batch[p]) /\ Distinct(list)
    <3>1. Ids(active) \cap In(batch[p]) = {}
      BY <2>2 DEF OnceHeld
    <3>. QED
      BY <2>1, <2>2, <3>1, Joined DEF OnceStored
  <2>4. Shared(list, next'[p], surplus'[p])
    BY <1>2, <2>1, ComputedLists
  <2>. HIDE DEF list
  <2>5. /\ Ids(list) \cap Archived = {} /\ Ids(list) \subseteq sent
        /\ (Ids(list) \cup Archived) \cap Held \subseteq In(batch[p])
    BY <2>1, <2>2, <2>3 DEF Known, OnceStored, OnceHeld
  <2>6. Ready(p)'
    BY <1>0, <2>1, <2>3, <2>4, <2>5, ReadyFrom
  <2>7. Known'
    BY <2>1, <2>2 DEF Known, Held, Archived
  <2>8. OnceRun(p)'
    BY <2>1, <2>2, <2>6 DEF OnceRun, Held
  <2>. QED
    BY <1>0, <2>1, <2>2, <2>7, <2>8, OnceFor
<1>3. ASSUME NEW p \in Pulls, Ack(p), RunStep(p) PROVE OnceTurn'
  <2>1. /\ pc'[p] = "reply" /\ pc[p] = "ack"
        /\ UNCHANGED <<active, archive, sent, batch, failures>>
    BY <1>0, <1>3 DEF Ack, Goto, TypeOK
  <2>2. Held' = Held \ In(batch[p]) /\ (Once(held) => Once(held'))
    BY <1>3, Acked
  <2>3. /\ IdleBut(p)' /\ Known /\ OnceStored /\ In(batch[p]) \subseteq Held
        /\ (Ids(active) \cup Archived) \cap Held \subseteq In(batch[p])
    BY <1>0, <1>3, <1>a, <2>1 DEF OnceRun
  <2>4. Known' /\ OnceStored' /\ OnceHeld'
    BY <2>1, <2>2, <2>3 DEF Known, OnceStored, OnceHeld, Archived
  <2>5. OnceRun(p)'
    BY <2>1, <2>2, <2>3 DEF OnceRun, Known
  <2>. QED
    BY <1>0, <2>3, <2>4, <2>5, OnceFor
<1>4. ASSUME NEW p \in Pulls, AutoReply(p), RunStep(p) PROVE OnceTurn'
  <2>1. /\ pc'[p] = "done" /\ pc[p] = "reply"
        /\ UNCHANGED <<held, active, archive, sent, failures>>
    BY <1>0, <1>4 DEF AutoReply, Goto, TypeOK
  <2>2. IdleBut(p)' /\ Known /\ OnceStored /\ OnceHeld
    BY <1>0, <1>4, <1>a, <2>1
  <2>3. Known' /\ OnceStored' /\ OnceHeld'
    BY <2>1, <2>2 DEF Known, OnceStored, OnceHeld, Held, Archived
  <2>4. OnceRun(p)'
    BY <2>1 DEF OnceRun
  <2>. QED
    BY <1>0, <2>2, <2>3, <2>4, OnceFor
<1>5. ASSUME NEW p \in Pulls, AckFails(p) PROVE FALSE
  BY <1>5 DEF AckFails, TypeOK
<1>6. ASSUME NEW r \in Reads, Choose(r), RunStep(r) PROVE OnceTurn'
  <2>1. /\ pc'[r] \in {"update", "done"} /\ pc[r] = "new"
        /\ UNCHANGED <<held, active, archive, sent, failures>>
    BY <1>0, <1>6 DEF Choose, Start, TypeOK
  <2>2. IdleBut(r)' /\ Known /\ OnceStored /\ OnceHeld
    BY <1>0, <1>6, <1>a, <2>1
  <2>3. Known' /\ OnceStored' /\ OnceHeld'
    BY <2>1, <2>2 DEF Known, OnceStored, OnceHeld, Held, Archived
  <2>4. OnceRun(r)'
    BY <2>1 DEF OnceRun
  <2>. QED
    BY <1>0, <2>2, <2>3, <2>4, OnceFor
<1>7. ASSUME NEW r \in Reads, UpdateMessage(r), RunStep(r) PROVE OnceTurn'
  <2>1. /\ pc'[r] \in {"archive", "done"} /\ pc[r] = "update" /\ active # Empty
        /\ UNCHANGED <<held, active, archive, sent, batch, surplus, failures>>
        /\ pc'[r] = "archive" => chosen[r] \in Ids(active)
    BY <1>0, <1>7 DEF UpdateMessage, Goto, TypeOK
  <2>2. /\ IdleBut(r)' /\ Known /\ OnceStored /\ OnceHeld
        /\ In(batch[r]) = {} /\ surplus'[r] = <<>>
    BY <1>0, <1>7, <1>a, <2>1 DEF PlaceInv, In
  <2>3. Known' /\ OnceStored' /\ OnceHeld'
    BY <2>1, <2>2 DEF Known, OnceStored, OnceHeld, Held, Archived
  <2>4. ASSUME pc'[r] = "archive" PROVE Ready(r)'
    <3>1. Shared(active, next'[r], surplus'[r])
      BY <1>7, <2>1, <2>2, <2>4, ComputedLists
    <3>. QED
      BY <1>0, <2>1, <2>2, <3>1, ReadyFrom DEF Known, OnceStored, OnceHeld
  <2>5. OnceRun(r)'
    BY <2>1, <2>2, <2>4 DEF OnceRun
  <2>. QED
    BY <1>0, <2>2, <2>3, <2>5, OnceFor
<1>8. ASSUME NEW r \in Archives, NEW all \in BOOLEAN, Archive(r, all), RunStep(r) PROVE OnceTurn'
  <2>1. /\ pc'[r] \in {"archive", "done"} /\ pc[r] = "new" /\ active # Empty
        /\ UNCHANGED <<held, active, archive, sent, batch, failures>>
    BY <1>0, <1>8 DEF Archive, Start, TypeOK
  <2>2. /\ IdleBut(r)' /\ Known /\ OnceStored /\ OnceHeld /\ In(batch[r]) = {}
    BY <1>0, <1>8, <1>a, <2>1 DEF PlaceInv, In
  <2>3. Known' /\ OnceStored' /\ OnceHeld'
    BY <2>1, <2>2 DEF Known, OnceStored, OnceHeld, Held, Archived
  <2>4. Shared(active, next'[r], surplus'[r])
    BY <1>8, <2>1, ComputedLists
  <2>5. Ready(r)'
    BY <1>0, <2>1, <2>2, <2>4, ReadyFrom DEF Known, OnceStored, OnceHeld
  <2>6. OnceRun(r)'
    BY <2>1, <2>2, <2>5 DEF OnceRun
  <2>. QED
    BY <1>0, <2>2, <2>3, <2>6, OnceFor
<1>9. ASSUME NEW r \in Runs, ArchiveMessages(r), RunStep(r) PROVE OnceTurn'
  <2>. DEFINE first == Head(surplus[r])
  <2>1. /\ pc'[r] = "archive" /\ pc[r] = "archive"
        /\ archive' = [m \in Messages |-> archive[m] + Copies(first, m)]
        /\ UNCHANGED <<held, active, sent, batch, next, failures>>
    BY <1>9 DEF ArchiveMessages, TypeOK
  <2>2. /\ first \in Seq(Entry) /\ first = surplus[r][1] /\ 1 \in DOMAIN surplus[r]
        /\ \A i \in DOMAIN surplus'[r] :
             i + 1 \in DOMAIN surplus[r] \ {1} /\ surplus'[r][i] = surplus[r][i + 1]
        /\ AllIds(surplus[r]) = Ids(first) \cup AllIds(surplus'[r])
        /\ Archived' = Archived \cup Ids(first)
    <3>1. 1 \in DOMAIN surplus[r]
      BY <1>9, Moved
    <3>2. /\ first \in Seq(Entry) /\ first = surplus[r][1]
          /\ AllIds(surplus[r]) = Ids(first) \cup AllIds(surplus'[r])
          /\ Archived' = Archived \cup Ids(first)
      BY <1>9, Moved
    <3>3. \A i \in DOMAIN surplus'[r] :
            i + 1 \in DOMAIN surplus[r] \ {1} /\ surplus'[r][i] = surplus[r][i + 1]
      BY <1>9, Moved
    <3>. QED
      BY <3>1, <3>2, <3>3
  <2>. HIDE DEF first
  <2>3. IdleBut(r)' /\ Known /\ Ready(r) /\ In(batch[r]) \subseteq Held
    BY <1>9, <1>a, <2>1 DEF OnceRun
  <2>4. /\ Distinct(first) /\ Ids(first) \cap Archived = {} /\ Ids(first) \subseteq sent
        /\ Ids(first) \cap Ids(next[r]) = {}
        /\ \A i \in DOMAIN surplus'[r] : Ids(first) \cap Ids(surplus'[r][i]) = {}
    BY <2>2, <2>3 DEF Ready
  <2>5. \A m \in Messages : archive'[m] <= 1
    <3>1. ASSUME NEW m \in Messages PROVE archive[m] + Copies(first, m) <= 1
      <4>1. /\ archive[m] \in Nat /\ archive[m] <= 1 /\ Copies(first, m) \in Nat
            /\ Copies(first, m) <= 1
            /\ Copies(first, m) = 0 <=> m \notin Ids(first)
        BY <2>2, <2>3, <2>4, CopiesOf DEF TypeOK, Known
      <4>2. archive[m] = 0 \/ m \notin Ids(first)
        BY <2>4, <4>1 DEF Archived
      <4>. QED
        BY <4>1, <4>2
    <3>. QED
      BY <2>1, <3>1
  <2>6. Known'
    BY <2>1, <2>2, <2>3, <2>4, <2>5 DEF Known, Held
  <2>7. \A i \in DOMAIN surplus'[r] :
          /\ Distinct(surplus'[r][i])
          /\ Ids(surplus'[r][i]) \cap (Ids(next[r]) \cup Archived \cup Ids(first)) = {}
          /\ \A j \in DOMAIN surplus'[r] \ {i} : Ids(surplus'[r][i]) \cap Ids(surplus'[r][j]) = {}
    <3>1. ASSUME NEW i \in DOMAIN surplus'[r]
          PROVE  /\ Distinct(surplus'[r][i])
                 /\ Ids(surplus'[r][i]) \cap (Ids(next[r]) \cup Archived \cup Ids(first)) = {}
      BY <2>2, <2>3, <2>4 DEF Ready
    <3>2. ASSUME NEW i \in DOMAIN surplus'[r], NEW j \in DOMAIN surplus'[r], i # j
          PROVE  Ids(surplus'[r][i]) \cap Ids(surplus'[r][j]) = {}
      <4>1. i + 1 # j + 1
        <5>1. i \in Nat /\ j \in Nat
          <6>1. surplus'[r] \in Seq(Seq(Entry))
            BY <1>9, Moved
          <6>2. DOMAIN surplus'[r] = 1 .. Len(surplus'[r]) /\ Len(surplus'[r]) \in Nat
            BY <6>1, LenProperties
          <6>. QED
            BY <6>2
        <5>. QED
          BY <3>2, <5>1
      <4>. QED
        BY <2>2, <2>3, <4>1 DEF Ready
    <3>. QED
      BY <3>1, <3>2
  <2>8. Covered(r)' = Covered(r)
    BY <2>1, <2>2 DEF Covered
  <2>9. Ready(r)'
    <3>1. /\ Distinct(next[r]) /\ Ids(next[r]) \cap (Archived \cup Ids(first)) = {}
          /\ Ids(next[r]) \cup AllIds(surplus'[r]) \subseteq sent
          /\ Covered(r) \cap Held \subseteq In(batch[r])
      BY <2>2, <2>3, <2>4 DEF Ready
    <3>. QED
      BY <2>1, <2>2, <2>7, <2>8, <3>1 DEF Ready, Held
  <2>10. OnceRun(r)'
    BY <2>1, <2>3, <2>9 DEF OnceRun, Held
  <2>. QED
    BY <2>1, <2>3, <2>6, <2>10, OnceFor
<1>10. ASSUME NEW r \in Runs, Truncate(r), RunStep(r) PROVE OnceTurn'
  <2>1. /\ pc'[r] = "write" /\ pc[r] = "archive" /\ active' = Empty
        /\ UNCHANGED <<held, archive, sent, batch, next, surplus, failures>>
    BY <1>10 DEF Truncate, Goto, TypeOK
  <2>2. IdleBut(r)' /\ Known /\ Ready(r) /\ In(batch[r]) \subseteq Held
    BY <1>10, <1>a, <2>1 DEF OnceRun
  <2>3. Known'
    BY <2>1, <2>2 DEF Known, Held, Archived
  <2>4. OnceRun(r)'
    BY <2>1, <2>2 DEF OnceRun, Ready, Covered, Held, Archived
  <2>. QED
    BY <2>1, <2>2, <2>3, <2>4, OnceFor
<1>11. ASSUME NEW r \in Runs, Write(r), RunStep(r) PROVE OnceTurn'
  <2>1. /\ pc'[r] = (IF r \in Pulls THEN "ack" ELSE "done") /\ pc[r] = "write"
        /\ active' = next[r]
        /\ UNCHANGED <<held, archive, sent, batch, next, failures>>
    BY <1>11 DEF Write, Goto, TypeOK
  <2>2. /\ IdleBut(r)' /\ Known /\ Ready(r) /\ In(batch[r]) \subseteq Held
    BY <1>11, <1>a, <2>1 DEF OnceRun
  <2>3. (Ids(next[r]) \cup Archived) \cap Held \subseteq In(batch[r])
    BY <2>2 DEF Ready, Covered
  <2>4. Known' /\ OnceStored'
    BY <2>1, <2>2 DEF Known, OnceStored, Ready, Held, Archived
  <2>5. OnceRun(r)'
    BY <2>1, <2>2, <2>3 DEF OnceRun, Held, Archived
  <2>6. ASSUME r \notin Pulls PROVE OnceHeld'
    <3>1. In(batch[r]) = {}
      BY <2>6 DEF PlaceInv, In
    <3>. QED
      BY <2>1, <2>3, <3>1 DEF OnceHeld, Held, Archived
  <2>. QED
    BY <2>1, <2>2, <2>4, <2>5, <2>6, OnceFor
<1>12. ASSUME NEW r \in Runs, Refuse(r), RunStep(r) PROVE FALSE
  <2>1. active = Empty /\ pc[r] # "write" /\ failures = 0
    BY <1>12 DEF Refuse, Start
  <2>. QED
    BY <1>12, <1>a, <2>1
<1>13. ASSUME NEW r \in Runs, Stop(r) PROVE FALSE
  BY <1>13 DEF Stop, TypeOK
<1>14. ASSUME NEW m \in Messages, Arrive(m) PROVE OnceTurn'
  <2>1. /\ UNCHANGED <<active, archive, pc, batch, surplus, next, overlapped, failures>>
        /\ held' = Append(held, m) /\ sent' = sent \cup {m} /\ m \notin sent
    BY <1>14 DEF Arrive
  <2>2. Held' = Held \cup {m} /\ (Once(held) /\ m \notin Held => Once(held'))
    BY <2>1, Arrived DEF Held, TypeOK
  <2>3. OnceTurn
    BY <2>1 DEF OnceInv
  <2>4. Known'
    BY <2>1, <2>2, <2>3 DEF OnceTurn, Known, Archived
  <2>5. OnceStored' <=> OnceStored
    BY <2>1 DEF OnceStored, Archived
  <2>6. ASSUME OnceHeld, active # Empty PROVE OnceHeld'
    BY <2>1, <2>2, <2>3, <2>6 DEF OnceTurn, Known, OnceHeld, Archived
  <2>7. (\A r \in Runs : pc[r] # "write") => active # Empty
    BY <2>1 DEF KeptInv, KeptTurn, PlaceInv
  <2>8. ASSUME NEW r \in Runs PROVE OnceRun(r)'
    <3>1. Covered(r)' = Covered(r) /\ Archived' = Archived
      BY <2>1 DEF Covered, Archived
    <3>2. OnceRun(r) /\ Known
      BY <2>3 DEF OnceTurn
    <3>3. ASSUME Ready(r) PROVE Ready(r)'
      <4>1. Covered(r) \subseteq sent
        BY <3>2, <3>3 DEF Ready, Covered, Known
      <4>2. (Covered(r) \cap Held)' = Covered(r) \cap Held
        BY <2>1, <2>2, <3>1, <4>1
      <4>. QED
        BY <2>1, <3>1, <3>3, <4>2 DEF Ready
    <3>4. ASSUME pc[r] = "ack" PROVE active # Empty
      <4>1. IdleBut(r) /\ ~overlapped
        BY <2>1, <3>4 DEF Turns, Running
      <4>. QED
        BY <2>7, <3>4, <4>1 DEF IdleBut
    <3>5. pc[r] = "ack" => (Ids(active) \cup Archived) \subseteq sent
      BY <3>2, <3>4 DEF Known
    <3>. QED
      BY <2>1, <2>2, <3>1, <3>2, <3>3, <3>5 DEF OnceRun
  <2>. QED
    BY <2>1, <2>3, <2>4, <2>5, <2>6, <2>7, <2>8 DEF OnceTurn
<1>15. ASSUME NEW m \in Messages, Age(m) PROVE OnceTurn'
  <2>1. UNCHANGED <<held, active, archive, pc, batch, surplus, next, sent, overlapped, failures>>
    BY <1>15 DEF Age
  <2>2. OnceTurn
    BY <2>1 DEF OnceInv
  <2>. QED
    BY <2>1, <2>2 DEF OnceTurn, OnceRun, OnceStored, OnceHeld, Known, Ready, Covered, Archived, Held
<1>16. ASSUME UNCHANGED vars PROVE OnceTurn'
  <2>1. OnceTurn
    BY <1>16 DEF OnceInv, vars
  <2>. QED
    BY <1>16, <2>1
       DEF vars, OnceTurn, OnceRun, OnceStored, OnceHeld, Known, Ready, Covered, Archived, Held
<1>17. CASE Next
  BY <1>1, <1>2, <1>3, <1>4, <1>5, <1>6, <1>7, <1>8, <1>9, <1>10, <1>11, <1>12, <1>13, <1>14,
     <1>15, <1>17, Steps DEF Next, PullStep, ReadStep
<1>. QED
  BY <1>16, <1>17

LEMMA OnceImplied ==
  TypeOK /\ PlaceInv /\ Turns /\ KeptInv /\ OnceInv => KeptOnceInTurns
<1>. SUFFICES ASSUME TypeOK, PlaceInv, Turns, KeptInv, OnceInv, ~overlapped, failures = 0,
                     NEW m \in Messages, NEW list \in Stored,
                     \A r \in Runs : pc[r] # "archive"
              PROVE  archive[m] + Copies(list, m) <= 1
  BY DEF KeptOnceInTurns
<1>1. KeptTurn /\ OnceTurn
  BY DEF KeptInv, OnceInv, PlaceInv
<1>2. list \in Seq(Entry) /\ Distinct(list) /\ Ids(list) \cap Archived = {}
  <2>1. CASE \A r \in Runs : pc[r] # "write"
    BY <1>1, <2>1, StoredIs DEF OnceTurn, OnceStored
  <2>2. CASE \E r \in Runs : pc[r] = "write"
    BY <1>1, <2>2, StoredIs DEF OnceTurn, OnceRun, Ready
  <2>. QED
    BY <2>1, <2>2
<1>3. /\ archive[m] \in Nat /\ archive[m] <= 1 /\ Copies(list, m) \in Nat
      /\ Copies(list, m) <= 1
      /\ Copies(list, m) = 0 <=> m \notin Ids(list)
  BY <1>1, <1>2, CopiesOf DEF TypeOK, OnceTurn, Known
<1>4. archive[m] = 0 \/ m \notin Ids(list)
  BY <1>2, <1>3 DEF Archived
<1>. QED
  BY <1>3, <1>4

TurnsInv == PlaceInv /\ Turns /\ KeptInv /\ OnceInv

LEMMA TurnsInvariant == Spec => [](TypeOK /\ TurnsInv)
<1>1. Init => OnceInv
  <2>. SUFFICES ASSUME Init PROVE OnceTurn
    BY DEF OnceInv
  <2>1. \A r \in Runs : OnceRun(r)
    BY DEF Init, OnceRun
  <2>2. Held = {} /\ Archived = {} /\ Ids(active) = {} /\ Once(held) /\ Distinct(active)
    BY DEF Init, Held, In, Archived, Ids, Once, Distinct
  <2>3. \A m \in Messages : archive[m] <= 1
    BY DEF Init
  <2>. QED
    BY <2>1, <2>2, <2>3 DEF OnceTurn, Known, OnceStored, OnceHeld
<1>. QED
  BY <1>1, InitKept, TypeInit, TypeNext, PlaceNext, TurnsNext, KeptNext, OnceNext, PTL
     DEF Spec, TurnsInv

\* While commands take turns and none stops or fails, a message is once in the
\* inbox or once in the archive, but for the time a command archives: the broker
\* holds what a pull was answered until the pull has saved it, and the lists a
\* command archives and writes share out the one it has loaded.
THEOREM KeptOnce == Spec => []KeptOnceInTurns
<1>. QED
  BY TurnsInvariant, OnceImplied, PTL DEF TurnsInv

(***************************************************************************)
(* A message triggers one auto-reply while commands take turns and none    *)
(* fails.                                                                  *)
(***************************************************************************)

\* What has triggered a reply has left the broker, and what a pull is about to
\* reply to has not triggered one.
RepliedTurn ==
  /\ \A m \in Messages : triggered[m] <= 1 /\ (triggered[m] = 1 => m \in sent \ Held)
  /\ \A r \in Runs : pc[r] = "reply" => \A m \in In(batch[r]) : triggered[m] = 0

RepliedInv == ~overlapped /\ failures = 0 => RepliedTurn

\* A step that leaves the broker and the audit log alone, and brings no run to
\* its replies.
Unreplied ==
  /\ UNCHANGED <<held, sent, triggered>>
  /\ overlapped => overlapped'
  /\ failures' = failures
  /\ \A r \in Runs : pc'[r] = "reply" => pc[r] = "reply" /\ batch'[r] = batch[r]

LEMMA RepliedNext ==
  TypeOK /\ TurnsInv /\ RepliedInv /\ [Next]_vars => RepliedInv'
<1>. SUFFICES ASSUME TypeOK, TurnsInv, RepliedInv, [Next]_vars, ~overlapped', failures' = 0
              PROVE  RepliedTurn'
  BY DEF RepliedInv
<1>. USE DEF files, locals
<1>0. /\ \A r \in Pulls : r \in Runs
      /\ \A r \in Reads : r \in Runs
      /\ \A r \in Archives : r \in Runs
  BY DEF Runs
<1>a. ASSUME Unreplied PROVE RepliedTurn'
  BY <1>a DEF RepliedInv, RepliedTurn, Unreplied, Held
<1>b. ASSUME NEW r \in Runs, RunStep(r), failures = 0
      PROVE  IdleBut(r)' /\ RepliedTurn /\ Known /\ OnceRun(r)
  BY <1>b, Rely, RelyOnce DEF TurnsInv, RepliedInv
<1>1. ASSUME NEW p \in Pulls, Fetch(p) \/ AppendMessages(p) PROVE RepliedTurn'
  <2>1. Unreplied
    BY <1>0, <1>1 DEF Fetch, AppendMessages, Start, TypeOK, Unreplied
  <2>. QED
    BY <2>1, <1>a
<1>2. ASSUME NEW p \in Pulls, Ack(p), RunStep(p) PROVE RepliedTurn'
  <2>1. /\ pc[p] = "ack" /\ UNCHANGED <<sent, triggered, batch, failures>>
        /\ batch[p] \in Seq(Messages)
    BY <1>0, <1>2 DEF Ack, Goto, TypeOK
  <2>2. Held' = Held \ In(batch[p])
    BY <1>2, Acked
  <2>3. IdleBut(p)' /\ RepliedTurn /\ In(batch[p]) \subseteq Held
    BY <1>0, <1>2, <1>b, <2>1 DEF OnceRun
  <2>4. In(batch[p]) \subseteq Messages
    BY <2>1, ElementOfSeq, LenProperties DEF In
  <2>5. \A m \in In(batch[p]) : triggered[m] = 0
    <3>1. ASSUME NEW m \in In(batch[p]) PROVE triggered[m] = 0
      <4>1. triggered[m] \in Nat /\ triggered[m] <= 1 /\ triggered[m] # 1
        BY <2>3, <2>4 DEF RepliedTurn, TypeOK
      <4>. QED
        BY <4>1
    <3>. QED
      BY <3>1
  <2>6. \A r \in Runs : pc'[r] = "reply" => r = p
    BY <2>3 DEF IdleBut
  <2>. QED
    BY <2>1, <2>2, <2>3, <2>5, <2>6 DEF RepliedTurn
<1>3. ASSUME NEW p \in Pulls, AutoReply(p), RunStep(p) PROVE RepliedTurn'
  <2>1. /\ pc[p] = "reply" /\ pc'[p] = "done"
        /\ triggered' = Counted(triggered, In(batch[p]) \cap Matching)
        /\ UNCHANGED <<held, sent, failures>>
    BY <1>0, <1>3 DEF AutoReply, Goto, TypeOK, BatchIds, In
  <2>2. IdleBut(p)' /\ RepliedTurn /\ In(batch[p]) \subseteq sent \ Held
        /\ \A m \in In(batch[p]) : triggered[m] = 0
    BY <1>0, <1>3, <1>b, <2>1 DEF OnceRun, RepliedTurn
  <2>3. ASSUME NEW m \in Messages
        PROVE  triggered'[m] <= 1 /\ (triggered'[m] = 1 => m \in sent \ Held)
    <3>1. CASE m \in In(batch[p]) \cap Matching
      BY <2>1, <2>2, <3>1 DEF Counted
    <3>2. CASE m \notin In(batch[p]) \cap Matching
      BY <2>1, <2>2, <3>2 DEF Counted, RepliedTurn
    <3>. QED
      BY <3>1, <3>2
  <2>4. \A r \in Runs : pc'[r] # "reply"
    BY <2>1, <2>2 DEF IdleBut
  <2>. QED
    BY <2>1, <2>3, <2>4 DEF RepliedTurn, Held
<1>4. ASSUME NEW p \in Pulls, AckFails(p) PROVE FALSE
  BY <1>4 DEF AckFails, TypeOK
<1>5. ASSUME NEW r \in Reads, ReadStep(r) PROVE RepliedTurn'
  <2>1. Unreplied
    <3>1. CASE Choose(r)
      BY <1>0, <3>1 DEF Choose, Start, TypeOK, Unreplied
    <3>2. CASE UpdateMessage(r)
      BY <1>0, <3>2 DEF UpdateMessage, Goto, TypeOK, Unreplied
    <3>. QED
      BY <1>5, <3>1, <3>2 DEF ReadStep
  <2>. QED
    BY <2>1, <1>a
<1>6. ASSUME NEW r \in Archives, NEW all \in BOOLEAN, Archive(r, all) PROVE RepliedTurn'
  <2>1. Unreplied
    BY <1>0, <1>6 DEF Archive, Start, TypeOK, Unreplied
  <2>. QED
    BY <2>1, <1>a
<1>7. ASSUME NEW r \in Runs, ArchiveMessages(r) \/ Truncate(r) \/ Write(r) \/ Refuse(r)
      PROVE  RepliedTurn'
  <2>1. Unreplied
    BY <1>7 DEF ArchiveMessages, Truncate, Write, Refuse, Start, Goto, TypeOK, Unreplied
  <2>. QED
    BY <2>1, <1>a
<1>8. ASSUME NEW r \in Runs, Stop(r) PROVE FALSE
  BY <1>8 DEF Stop, TypeOK
<1>9. ASSUME NEW m \in Messages, Arrive(m) PROVE RepliedTurn'
  <2>1. /\ UNCHANGED <<pc, batch, triggered, overlapped, failures>>
        /\ held' = Append(held, m) /\ sent' = sent \cup {m} /\ m \notin sent
    BY <1>9 DEF Arrive
  <2>2. Held' = Held \cup {m}
    BY <2>1, Arrived DEF Held, TypeOK
  <2>. QED
    BY <2>1, <2>2 DEF RepliedInv, RepliedTurn
<1>10. ASSUME NEW m \in Messages, Age(m) PROVE RepliedTurn'
  <2>1. Unreplied
    BY <1>10 DEF Age, Unreplied
  <2>. QED
    BY <2>1, <1>a
<1>11. ASSUME UNCHANGED vars PROVE RepliedTurn'
  <2>1. Unreplied
    BY <1>11 DEF vars, Unreplied
  <2>. QED
    BY <2>1, <1>a
<1>12. CASE Next
  BY <1>1, <1>2, <1>3, <1>4, <1>5, <1>6, <1>7, <1>8, <1>9, <1>10, <1>12, Steps
     DEF Next, PullStep
<1>. QED
  BY <1>11, <1>12

LEMMA RepliedImplied == TypeOK /\ TurnsInv /\ RepliedInv => RepliedOnceInTurns
<1>. SUFFICES ASSUME TypeOK, TurnsInv, RepliedInv, ~overlapped, failures = 0, NEW m \in Messages
              PROVE  /\ triggered[m] <= 1
                     /\ triggered[m] = 1 => archive[m] > 0 \/ \E list \in Stored : m \in Ids(list)
  BY DEF RepliedOnceInTurns
<1>1. KeptInTurns /\ RepliedTurn /\ ~damaged
  BY KeptImplied DEF TurnsInv, PlaceInv, RepliedInv
<1>2. ASSUME triggered[m] = 1 PROVE archive[m] > 0 \/ \E list \in Stored : m \in Ids(list)
  BY <1>1, <1>2 DEF KeptInTurns, RepliedTurn, Held, In
<1>. QED
  BY <1>1, <1>2 DEF RepliedTurn

\* While commands take turns and none stops or fails, a message triggers at most
\* one auto-reply, and it has been saved by then: processAutoReply is given the
\* batch of one pull, after it was saved and acknowledged.
THEOREM RepliedOnce == Spec => []RepliedOnceInTurns
<1>1. Init => RepliedInv
  BY DEF Init, RepliedInv, RepliedTurn
<1>. QED
  BY <1>1, TurnsInvariant, RepliedNext, RepliedImplied, PTL DEF Spec

(***************************************************************************)
(* A message that was read stays read while commands take turns and none   *)
(* fails.                                                                  *)
(***************************************************************************)

\* The message a read has chosen has left the broker, so that no pull adds an
\* unread copy; once the read has ended, the inbox and what a run will write
\* have it as read.
ReadRun(r) ==
  chosen[r] # Nothing =>
    /\ chosen[r] \in sent \ Held
    /\ pc[r] \in {"archive", "write"} => ReadIn(next[r], chosen[r])
    /\ pc[r] = "done" =>
         /\ active # Empty => ReadIn(active, chosen[r])
         /\ \A q \in Runs : pc[q] \in {"archive", "write"} => ReadIn(next[q], chosen[r])

ReadInv == ~overlapped /\ failures = 0 => \A r \in Reads : ReadRun(r)

\* A read that has ended, when another run takes a step.
LEMMA ReadBefore ==
  ASSUME NEW r \in Reads, NEW s \in Runs, s # r, PlaceInv, ReadRun(r), RunStep(s),
         IdleBut(s), IdleBut(s)',
         chosen'[r] = chosen[r], sent' = sent, Held' \subseteq Held,
         chosen[r] \in sent \ Held /\ (active # Empty => ReadIn(active, chosen[r])) /\
           (pc[s] \in {"archive", "write"} => ReadIn(next[s], chosen[r])) =>
             /\ active' # Empty => ReadIn(active', chosen[r])
             /\ pc'[s] \in {"archive", "write"} => ReadIn(next'[s], chosen[r])
  PROVE  ReadRun(r)'
<1>. SUFFICES ASSUME chosen[r] # Nothing PROVE ReadRun(r)'
  BY DEF ReadRun
<1>0. r \in Runs
  BY DEF Runs
<1>1. pc[r] = "done" /\ pc'[r] = "done"
  BY <1>0 DEF IdleBut, PlaceInv, RunStep
<1>2. /\ chosen[r] \in sent \ Held /\ (active # Empty => ReadIn(active, chosen[r]))
      /\ \A q \in Runs : pc[q] \in {"archive", "write"} => ReadIn(next[q], chosen[r])
  BY <1>1 DEF ReadRun
<1>3. \A q \in Runs : pc'[q] \in {"archive", "write"} => q = s
  BY DEF IdleBut
<1>. QED
  BY <1>1, <1>2, <1>3 DEF ReadRun

LEMMA ReadNext ==
  TypeOK /\ TurnsInv /\ ReadInv /\ [Next]_vars => ReadInv'
<1>. SUFFICES ASSUME TypeOK, TurnsInv, ReadInv, [Next]_vars, ~overlapped', failures' = 0,
                     NEW r \in Reads
              PROVE  ReadRun(r)'
  BY DEF ReadInv
<1>. USE DEF files, locals
<1>0. /\ \A p \in Pulls : p \in Runs /\ p # r
      /\ \A q \in Reads : q \in Runs
      /\ \A q \in Archives : q \in Runs /\ q # r
  BY RunsAssumption DEF Runs
\* What the run that steps may rely on.
<1>a. ASSUME NEW s \in Runs, RunStep(s), failures = 0
      PROVE  /\ PlaceInv /\ IdleBut(s) /\ IdleBut(s)' /\ ReadRun(r) /\ Known /\ OnceRun(s)
             /\ pc[s] # "write" => active # Empty
             /\ pc[s] \notin {"archive", "write"} => OnceStored
             /\ pc[s] \notin {"archive", "write", "ack"} => OnceHeld
  BY <1>a, Rely, RelyOnce DEF TurnsInv, ReadInv
<1>1. ASSUME NEW p \in Pulls, Fetch(p) \/ AutoReply(p), RunStep(p) PROVE ReadRun(r)'
  <2>1. /\ pc'[p] \in {"append", "done"} /\ UNCHANGED <<active, chosen, held, sent, failures>>
    BY <1>0, <1>1 DEF Fetch, AutoReply, Start, Goto, TypeOK
  <2>. QED
    BY <1>0, <1>1, <1>a, <2>1, ReadBefore DEF Held
<1>2. ASSUME NEW p \in Pulls, AppendMessages(p), RunStep(p) PROVE ReadRun(r)'
  <2>1. /\ pc[p] = "append" /\ active # Empty /\ active \in Seq(Entry) /\ batch[p] \in Seq(Messages)
        /\ UNCHANGED <<active, chosen, held, sent, failures>>
    BY <1>0, <1>2 DEF AppendMessages, TypeOK
  <2>2. Shared(active \o Unread(batch[p]), next'[p], surplus'[p])
    BY <1>2, <2>1, ComputedLists
  <2>3. In(batch[p]) \subseteq Held
    BY <1>0, <1>2, <1>a, <2>1 DEF OnceRun
  <2>4. ASSUME chosen[r] \in sent \ Held, ReadIn(active, chosen[r])
        PROVE  ReadIn(next'[p], chosen[r])
    <3>1. ReadIn(active \o Unread(batch[p]), chosen[r])
      BY <2>1, <2>3, <2>4, Joined
    <3>. QED
      BY <2>2, <3>1 DEF Shared
  <2>. QED
    BY <1>0, <1>2, <1>a, <2>1, <2>4, ReadBefore DEF Held
<1>3. ASSUME NEW p \in Pulls, Ack(p), RunStep(p) PROVE ReadRun(r)'
  <2>1. /\ pc'[p] = "reply" /\ UNCHANGED <<active, chosen, sent, failures>>
    BY <1>0, <1>3 DEF Ack, Goto, TypeOK
  <2>2. Held' \subseteq Held
    BY <1>3, Acked
  <2>. QED
    BY <1>0, <1>3, <1>a, <2>1, <2>2, ReadBefore
<1>4. ASSUME NEW p \in Pulls, AckFails(p) PROVE FALSE
  BY <1>4 DEF AckFails, TypeOK
<1>5. ASSUME NEW s \in Reads, Choose(s), RunStep(s) PROVE ReadRun(r)'
  <2>1. /\ pc[s] = "new" /\ pc'[s] \in {"update", "done"} /\ active # Empty /\ active \in Seq(Entry)
        /\ UNCHANGED <<active, held, sent, failures>>
        /\ \E k \in DOMAIN active :
             chosen'[s] = active[k].id /\ (pc'[s] = "done" => active[k].isRead)
    BY <1>0, <1>5 DEF Choose, Start, TypeOK
  <2>2. CASE s # r
    <3>1. chosen'[r] = chosen[r]
      BY <1>0, <1>5, <2>2 DEF Choose, TypeOK
    <3>. QED
      BY <1>0, <1>5, <1>a, <2>1, <2>2, <3>1, ReadBefore DEF Held
  <2>3. CASE s = r
    <3>1. IdleBut(r)' /\ Known /\ OnceStored /\ OnceHeld
      BY <1>0, <1>5, <1>a, <2>1, <2>3
    <3>2. PICK k \in DOMAIN active :
            chosen'[r] = active[k].id /\ (pc'[r] = "done" => active[k].isRead)
      BY <2>1, <2>3
    <3>3. active[k].id \in sent \ Held
      BY <2>1, <3>1 DEF Known, OnceHeld, Ids
    <3>4. active[k].isRead => ReadIn(active, active[k].id)
      BY <3>1 DEF OnceStored, Distinct, ReadIn
    <3>5. \A q \in Runs : pc'[q] \notin {"archive", "write"}
      BY <2>1, <2>3, <3>1 DEF IdleBut
    <3>. QED
      BY <1>0, <2>1, <3>2, <3>3, <3>4, <3>5 DEF ReadRun, Held
  <2>. QED
    BY <2>2, <2>3
<1>6. ASSUME NEW s \in Reads, UpdateMessage(s), RunStep(s) PROVE ReadRun(r)'
  <2>1. /\ pc[s] = "update" /\ pc'[s] \in {"archive", "done"} /\ active # Empty /\ active \in Seq(Entry)
        /\ UNCHANGED <<active, chosen, held, sent, failures>>
        /\ pc'[s] = "archive" <=> chosen[s] \in Ids(active)
    <3>1. CASE chosen[s] \in Ids(active)
      BY <1>0, <1>6, <3>1 DEF UpdateMessage, Goto, TypeOK
    <3>2. CASE chosen[s] \notin Ids(active)
      BY <1>0, <1>6, <3>2 DEF UpdateMessage, Goto, TypeOK
    <3>. QED
      BY <3>1, <3>2
  <2>2. CASE s # r
    <3>1. ASSUME pc'[s] = "archive", ReadIn(active, chosen[r]) PROVE ReadIn(next'[s], chosen[r])
      BY <1>6, <2>1, <3>1, ComputedLists DEF Shared
    <3>. QED
      BY <1>0, <1>6, <1>a, <2>1, <2>2, <3>1, ReadBefore DEF Held
  <2>3. CASE s = r
    <3>1. IdleBut(r)' /\ ReadRun(r) /\ OnceStored
      BY <1>0, <1>6, <1>a, <2>1, <2>3
    <3>2. ASSUME pc'[r] = "archive" PROVE ReadIn(next'[r], chosen[r])
      BY <1>6, <2>1, <2>3, <3>1, <3>2, ComputedLists DEF OnceStored
    <3>3. ASSUME pc'[r] = "done"
          PROVE  ReadIn(active, chosen[r]) /\ \A q \in Runs : pc'[q] \notin {"archive", "write"}
      BY <2>1, <2>3, <3>1, <3>3 DEF ReadIn, Ids, IdleBut
    <3>. QED
      BY <1>0, <2>1, <2>3, <3>1, <3>2, <3>3 DEF ReadRun, Held
  <2>. QED
    BY <2>2, <2>3
<1>7. ASSUME NEW s \in Archives, NEW all \in BOOLEAN, Archive(s, all), RunStep(s) PROVE ReadRun(r)'
  <2>1. /\ active # Empty /\ UNCHANGED <<active, chosen, held, sent, failures>>
    BY <1>0, <1>7 DEF Archive, TypeOK
  <2>2. ASSUME ReadIn(active, chosen[r]) PROVE ReadIn(next'[s], chosen[r])
    BY <1>7, <2>1, <2>2, ComputedLists DEF Shared
  <2>. QED
    BY <1>0, <1>7, <1>a, <2>1, <2>2, ReadBefore DEF Held
<1>8. ASSUME NEW s \in Runs, ArchiveMessages(s) \/ Truncate(s) \/ Write(s), RunStep(s)
      PROVE  ReadRun(r)'
  <2>1. /\ pc[s] \in {"archive", "write"} /\ active' \in {active, Empty, next[s]}
        /\ UNCHANGED <<chosen, next, held, sent, failures>>
    BY <1>8 DEF ArchiveMessages, Truncate, Write, Goto, TypeOK
  <2>2. CASE s # r
    BY <1>8, <1>a, <2>1, <2>2, ReadBefore DEF Held
  <2>3. CASE s = r
    <3>1. IdleBut(r)' /\ ReadRun(r)
      BY <1>8, <1>a, <2>1, <2>3
    <3>2. ASSUME pc'[r] = "done"
          PROVE  active' = next[r] /\ \A q \in Runs : pc'[q] \notin {"archive", "write"}
      BY <1>8, <2>3, <3>1, <3>2 DEF IdleBut, ArchiveMessages, Truncate, Write, Goto, TypeOK
    <3>. QED
      BY <2>1, <2>3, <3>1, <3>2 DEF ReadRun, Held
  <2>. QED
    BY <2>2, <2>3
<1>9. ASSUME NEW s \in Runs, Refuse(s), RunStep(s) PROVE FALSE
  <2>1. active = Empty /\ pc[s] # "write" /\ failures = 0
    BY <1>9 DEF Refuse, Start
  <2>. QED
    BY <1>9, <1>a, <2>1
<1>10. ASSUME NEW s \in Runs, Stop(s) PROVE FALSE
  BY <1>10 DEF Stop, TypeOK
<1>11. ASSUME NEW m \in Messages, Arrive(m) PROVE ReadRun(r)'
  <2>1. /\ UNCHANGED <<active, pc, next, chosen, overlapped, failures>>
        /\ held' = Append(held, m) /\ sent' = sent \cup {m} /\ m \notin sent
    BY <1>11 DEF Arrive
  <2>2. Held' = Held \cup {m}
    BY <2>1, Arrived DEF Held, TypeOK
  <2>. QED
    BY <2>1, <2>2 DEF ReadInv, ReadRun
<1>12. ASSUME NEW m \in Messages, Age(m) PROVE ReadRun(r)'
  BY <1>12 DEF Age, ReadInv, ReadRun, Held
<1>13. ASSUME UNCHANGED vars PROVE ReadRun(r)'
  BY <1>13 DEF vars, ReadInv, ReadRun, Held
<1>14. CASE Next
  BY <1>1, <1>2, <1>3, <1>4, <1>5, <1>6, <1>7, <1>8, <1>9, <1>10, <1>11, <1>12, <1>14, Steps
     DEF Next, PullStep, ReadStep
<1>. QED
  BY <1>13, <1>14

LEMMA ReadImplied == TypeOK /\ TurnsInv /\ ReadInv => ReadStaysRead
<1>. SUFFICES ASSUME TypeOK, TurnsInv, ReadInv, ~overlapped, failures = 0, NEW r \in Reads,
                     pc[r] = "done", chosen[r] # Nothing, NEW list \in Stored
              PROVE  ReadIn(list, chosen[r])
  BY DEF ReadStaysRead, ReadIn
<1>1. KeptTurn /\ ReadRun(r)
  BY DEF TurnsInv, PlaceInv, KeptInv, ReadInv
<1>2. CASE \A q \in Runs : pc[q] # "write"
  BY <1>1, <1>2, StoredIs DEF ReadRun, TurnsInv, KeptTurn
<1>3. CASE \E q \in Runs : pc[q] = "write"
  BY <1>1, <1>3, StoredIs DEF ReadRun, TurnsInv
<1>. QED
  BY <1>2, <1>3

\* While commands take turns and none stops or fails, a message that `moltpost
\* read' has shown is never unread again: no command writes back an entry it
\* loaded before, and the broker no longer holds a copy to pull.
THEOREM StaysRead == Spec => []ReadStaysRead
<1>1. Init => ReadInv
  BY DEF Init, ReadInv, ReadRun, Runs
<1>. QED
  BY <1>1, TurnsInvariant, ReadNext, ReadImplied, PTL DEF Spec

=============================================================================
