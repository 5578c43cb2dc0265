-------------------------------- MODULE Inbox --------------------------------
(***************************************************************************)
(* The recipient's inbox files (client/scripts/lib/storage.mjs): the       *)
(* rolling inbox/active.json and the append-only archive, as the commands  *)
(* `moltpost pull', `read' and `archive' use them.  Every command is a     *)
(* process of its own: it loads the whole inbox, changes it in memory and  *)
(* writes all of it back, and nothing keeps two commands apart.            *)
(*                                                                         *)
(* writeFileSync truncates the file before it writes it, so that another   *)
(* command may find it empty (its JSON.parse throws), and a command that   *)
(* stops in between leaves it so.                                          *)
(*                                                                         *)
(* The broker is the list of messages it holds for the recipient and drops *)
(* when they are acknowledged: module Mailbox has its steps, and expiry.   *)
(* The monthly files of the archive are one file, so that a call of        *)
(* archiveMessages is one append.                                          *)
(***************************************************************************)
EXTENDS Naturals, Sequences, FiniteSets

CONSTANTS
  Messages,     \* message ids
  Pulls,        \* runs of moltpost pull
  Reads,        \* runs of moltpost read
  Archives,     \* runs of moltpost archive, with or without --all
  Matching,     \* the messages that are not flagged and match a rule
  BatchSize,    \* PULL_BATCH_SIZE of the broker
  ActiveMax,    \* inbox.active_max
  Empty,        \* active.json has been truncated and not written
  Nothing,      \* no message
  MaxFailures   \* bound: how many runs stop part way

Runs == Pulls \cup Reads \cup Archives

ASSUME RunsAssumption ==
  Pulls \cap Reads = {} /\ Pulls \cap Archives = {} /\ Reads \cap Archives = {}
ASSUME MatchingAssumption == Matching \subseteq Messages
ASSUME SizeAssumption == BatchSize \in Nat \ {0} /\ ActiveMax \in Nat \ {0}
ASSUME NothingAssumption == Nothing \notin Messages
ASSUME EmptyAssumption == Empty \notin Seq([id : Messages, isRead : BOOLEAN])
ASSUME BoundAssumption == MaxFailures \in Nat

VARIABLES
  held,        \* the messages the broker holds, in the order of the index
  active,      \* inbox/active.json: a list of [id, isRead]
  archive,     \* how many lines of the archive have each id
  triggered,   \* how many auto-reply triggers were audited for each id
  old,         \* the ids whose timestamp is before the archive cutoff
  pc,          \* where each run stands
  batch,       \* the ids a pull was answered
  chosen,      \* the message a read shows
  surplus,     \* what a run has still to append to the archive, call by call
  next,        \* the list a run is going to write
  sent,        \* history: the ids the broker has ever held
  overlapped,  \* history: two runs were under way at once
  damaged,     \* history: a run stopped between truncation and write
  failures

files == <<active, archive, triggered>>
locals == <<batch, chosen, surplus, next>>
vars == <<held, files, old, pc, locals, sent, overlapped, damaged, failures>>

Init ==
  /\ held = <<>>
  /\ active = <<>>
  /\ archive = [m \in Messages |-> 0]
  /\ triggered = [m \in Messages |-> 0]
  /\ old = {}
  /\ pc = [r \in Runs |-> "new"]
  /\ batch = [r \in Runs |-> <<>>]
  /\ chosen = [r \in Runs |-> Nothing]
  /\ surplus = [r \in Runs |-> <<>>]
  /\ next = [r \in Runs |-> <<>>]
  /\ sent = {}
  /\ overlapped = FALSE
  /\ damaged = FALSE
  /\ failures = 0

(***************************************************************************)
(* Helpers.                                                                *)
(***************************************************************************)

Running(r) == pc[r] \notin {"new", "done"}

Start(r, to) ==
  /\ pc[r] = "new"
  /\ pc' = [pc EXCEPT ![r] = to]
  /\ overlapped' = (overlapped \/ \E q \in Runs : Running(q))

Goto(r, from, to) ==
  /\ pc[r] = from
  /\ pc' = [pc EXCEPT ![r] = to]

Ids(list) == {list[k].id : k \in DOMAIN list}

\* A message as cmdPull makes it from the broker's answer.
Unread(ids) == [k \in DOMAIN ids |-> [id |-> ids[k], isRead |-> FALSE]]

\* What filter returns for the places of a list that pass its test: the entries
\* at these places, in the order of the list.
Nth(places, i) == CHOOSE k \in places : Cardinality({j \in places : j <= k}) = i
Picked(list, places) == [i \in 1 .. Cardinality(places) |-> list[Nth(places, i)]]

Without(list, ids) == Picked(list, {k \in DOMAIN list : list[k].id \notin ids})
Only(list, ids) == Picked(list, {k \in DOMAIN list : list[k].id \in ids})
OnlyRead(list) == Picked(list, {k \in DOMAIN list : list[k].isRead})
BatchIds(p) == {batch[p][k] : k \in DOMAIN batch[p]}
Copies(list, m) == Cardinality({k \in DOMAIN list : list[k].id = m})
Counted(count, ids) == [m \in Messages |-> IF m \in ids THEN count[m] + 1 ELSE count[m]]
Smaller(a, b) == IF a <= b THEN a ELSE b
Larger(a, b) == IF a <= b THEN b ELSE a

\* archiveMessages does nothing for an empty list.
Calls(lists) == Picked(lists, {k \in DOMAIN lists : lists[k] # <<>>})

(***************************************************************************)
(* moltpost pull: the broker's answer, appendMessages, the ack, and the    *)
(* auto-reply rules.                                                       *)
(***************************************************************************)

Fetch(p) ==
  /\ Start(p, IF held = <<>> THEN "done" ELSE "append")
  /\ batch' = [batch EXCEPT ![p] = SubSeq(held, 1, Smaller(BatchSize, Len(held)))]
  /\ UNCHANGED <<held, files, old, chosen, surplus, next, sent, damaged, failures>>

\* Fault: only half of the maximum is ever archived.
ExcessHalf(list) == IF Len(list) > ActiveMax THEN ActiveMax \div 2 ELSE 0

\* How many of the oldest messages appendMessages archives.
Excess(list) ==
  IF Len(list) > ActiveMax THEN Larger(Len(list) - ActiveMax, ActiveMax \div 2) ELSE 0

\* appendMessages loads the inbox, adds the batch, and takes out first the
\* messages that are too old, then the oldest ones if there are too many.
AppendMessages(p) ==
  /\ pc[p] = "append"
  /\ active # Empty
  /\ LET list == active \o Unread(batch[p])
         recent == Without(list, old)
         cut == Excess(recent)
     IN /\ next' = [next EXCEPT ![p] = SubSeq(recent, cut + 1, Len(recent))]
        /\ surplus' = [surplus EXCEPT ![p] =
             Calls(<<Only(list, old), SubSeq(recent, 1, cut)>>)]
  /\ pc' = [pc EXCEPT ![p] = "archive"]
  /\ UNCHANGED <<held, files, old, batch, chosen, sent, overlapped, damaged, failures>>

Ack(p) ==
  /\ Goto(p, "ack", "reply")
  /\ held' = Picked(held, {k \in DOMAIN held : held[k] \notin BatchIds(p)})
  /\ UNCHANGED <<files, old, locals, sent, overlapped, damaged, failures>>

\* The broker answers the ack with an error: cmdPull warns and goes on.
AckFails(p) ==
  /\ failures < MaxFailures
  /\ Goto(p, "ack", "reply")
  /\ failures' = failures + 1
  /\ UNCHANGED <<held, files, old, locals, sent, overlapped, damaged>>

\* Fault: the rules are applied to the whole inbox.
AutoReplyToInbox(p) ==
  /\ Goto(p, "reply", "done")
  /\ active # Empty
  /\ triggered' = Counted(triggered, Ids(active) \cap Matching)
  /\ UNCHANGED <<held, active, archive, old, locals, sent, overlapped, damaged, failures>>

\* processAutoReply: a trigger in the audit log for every match in the batch.
AutoReply(p) ==
  /\ Goto(p, "reply", "done")
  /\ triggered' = Counted(triggered, BatchIds(p) \cap Matching)
  /\ UNCHANGED <<held, active, archive, old, locals, sent, overlapped, damaged, failures>>

(***************************************************************************)
(* moltpost read: cmdRead loads the inbox and finds the message, and       *)
(* updateMessage loads it again to mark the first copy read.               *)
(***************************************************************************)

Choose(r) ==
  /\ active # Empty
  /\ \E k \in DOMAIN active :
       /\ Start(r, IF active[k].isRead THEN "done" ELSE "update")
       /\ chosen' = [chosen EXCEPT ![r] = active[k].id]
  /\ UNCHANGED <<held, files, old, batch, surplus, next, sent, damaged, failures>>

\* Fault: the changed message is not put back into the list.
MarkNothing(list, m) == list

MarkRead(list, m) ==
  [list EXCEPT ![Nth({k \in DOMAIN list : list[k].id = m}, 1)].isRead = TRUE]

UpdateMessage(r) ==
  /\ active # Empty
  /\ IF chosen[r] \in Ids(active)
     THEN /\ Goto(r, "update", "archive")
          /\ next' = [next EXCEPT ![r] = MarkRead(active, chosen[r])]
     ELSE Goto(r, "update", "done") /\ UNCHANGED next
  /\ UNCHANGED <<held, files, old, batch, chosen, surplus, sent, overlapped, damaged, failures>>

(***************************************************************************)
(* moltpost archive [--all].                                               *)
(***************************************************************************)

ToArchive(all) == IF all THEN active ELSE OnlyRead(active)

\* Fault: the archived messages stay in the inbox.
ArchiveAndKeep(r, all) ==
  /\ active # Empty
  /\ Start(r, IF ToArchive(all) = <<>> THEN "done" ELSE "archive")
  /\ surplus' = [surplus EXCEPT ![r] = Calls(<<ToArchive(all)>>)]
  /\ next' = [next EXCEPT ![r] = active]
  /\ UNCHANGED <<held, files, old, batch, chosen, sent, damaged, failures>>

\* Fault: the messages are taken out and not written to the archive.
ArchiveNothing(r, all) ==
  /\ active # Empty
  /\ Start(r, IF ToArchive(all) = <<>> THEN "done" ELSE "archive")
  /\ next' = [next EXCEPT ![r] = Without(active, Ids(ToArchive(all)))]
  /\ UNCHANGED <<held, files, old, batch, chosen, surplus, sent, damaged, failures>>

Archive(r, all) ==
  /\ active # Empty
  /\ Start(r, IF ToArchive(all) = <<>> THEN "done" ELSE "archive")
  /\ surplus' = [surplus EXCEPT ![r] = Calls(<<ToArchive(all)>>)]
  /\ next' = [next EXCEPT ![r] = Without(active, Ids(ToArchive(all)))]
  /\ UNCHANGED <<held, files, old, batch, chosen, sent, damaged, failures>>

(***************************************************************************)
(* archiveMessages and writeActiveInbox, called by all three.              *)
(***************************************************************************)

ArchiveMessages(r) ==
  /\ pc[r] = "archive"
  /\ surplus[r] # <<>>
  /\ archive' = [m \in Messages |-> archive[m] + Copies(Head(surplus[r]), m)]
  /\ surplus' = [surplus EXCEPT ![r] = Tail(@)]
  /\ UNCHANGED <<held, active, triggered, old, pc, batch, chosen, next, sent, overlapped, damaged, failures>>

Truncate(r) ==
  /\ surplus[r] = <<>>
  /\ Goto(r, "archive", "write")
  /\ active' = Empty
  /\ UNCHANGED <<held, archive, triggered, old, locals, sent, overlapped, damaged, failures>>

Write(r) ==
  /\ Goto(r, "write", IF r \in Pulls THEN "ack" ELSE "done")
  /\ active' = next[r]
  /\ UNCHANGED <<held, archive, triggered, old, locals, sent, overlapped, damaged, failures>>

\* JSON.parse throws on an empty file.
Refuse(r) ==
  /\ active = Empty
  /\ \/ pc[r] \in {"append", "update"} /\ Goto(r, pc[r], "done") /\ UNCHANGED overlapped
     \/ r \notin Pulls /\ Start(r, "done")
  /\ UNCHANGED <<held, files, old, locals, sent, damaged, failures>>

\* A run is killed, or its request to the broker fails for good.
Stop(r) ==
  /\ failures < MaxFailures
  /\ Running(r)
  /\ pc' = [pc EXCEPT ![r] = "done"]
  /\ damaged' = (damaged \/ pc[r] = "write")
  /\ failures' = failures + 1
  /\ UNCHANGED <<held, files, old, locals, sent, overlapped>>

(***************************************************************************)
(* The rest of the world.                                                  *)
(***************************************************************************)

Arrive(m) ==
  /\ m \notin sent
  /\ held' = Append(held, m)
  /\ sent' = sent \cup {m}
  /\ UNCHANGED <<files, old, pc, locals, overlapped, damaged, failures>>

\* archive_after_days have passed since the timestamp of m.
Age(m) ==
  /\ m \in sent \ old
  /\ old' = old \cup {m}
  /\ UNCHANGED <<held, files, pc, locals, sent, overlapped, damaged, failures>>

PullStep(p) == Fetch(p) \/ AppendMessages(p) \/ Ack(p) \/ AckFails(p) \/ AutoReply(p)
ReadStep(r) == Choose(r) \/ UpdateMessage(r)

Next ==
  \/ \E p \in Pulls : PullStep(p)
  \/ \E r \in Reads : ReadStep(r)
  \/ \E r \in Archives, all \in BOOLEAN : Archive(r, all)
  \/ \E r \in Runs : ArchiveMessages(r) \/ Truncate(r) \/ Write(r) \/ Refuse(r) \/ Stop(r)
  \/ \E m \in Messages : Arrive(m) \/ Age(m)

Spec == Init /\ [][Next]_vars

(***************************************************************************)
(* Properties.                                                             *)
(***************************************************************************)

Entry == [id : Messages, isRead : BOOLEAN]

\* Every variable stays in its range.
TypeOK ==
  /\ held \in Seq(Messages)
  /\ active = Empty \/ active \in Seq(Entry)
  /\ archive \in [Messages -> Nat]
  /\ triggered \in [Messages -> Nat]
  /\ old \subseteq sent /\ sent \subseteq Messages
  /\ pc \in [Runs -> {"new", "append", "update", "archive", "write", "ack", "reply", "done"}]
  /\ batch \in [Runs -> Seq(Messages)]
  /\ chosen \in [Runs -> Messages \cup {Nothing}]
  /\ surplus \in [Runs -> Seq(Seq(Entry))]
  /\ next \in [Runs -> Seq(Entry)]
  /\ overlapped \in BOOLEAN /\ damaged \in BOOLEAN
  /\ failures \in Nat

\* The lists that hold the inbox: the file, or what a run is about to write.
Stored == {next[r] : r \in {q \in Runs : pc[q] = "write"}} \cup
          (IF active = Empty THEN {} ELSE {active})

\* As long as commands take turns, a message the broker has taken is with the
\* broker, in the inbox or in the archive, whichever command stops part way,
\* except between the truncation and the write of the file.
KeptInTurns ==
  ~overlapped /\ ~damaged =>
    \A m \in sent : \/ \E k \in DOMAIN held : held[k] = m
                    \/ archive[m] > 0
                    \/ \E list \in Stored : m \in Ids(list)

\* As long as commands take turns and none stops part way, no message is in
\* the inbox and the archive twice.
KeptOnceInTurns ==
  ~overlapped /\ failures = 0 =>
    \A m \in Messages : \A list \in Stored :
      (\E r \in Runs : pc[r] = "archive") \/ archive[m] + Copies(list, m) <= 1

\* However commands overlap or stop, the inbox never has more than active_max
\* messages.
WithinActiveMax == active # Empty => Len(active) <= ActiveMax

\* As long as commands take turns and none fails, a message triggers at most
\* one auto-reply, and only once it has been saved.
RepliedOnceInTurns ==
  ~overlapped /\ failures = 0 =>
    \A m \in Messages :
      /\ triggered[m] <= 1
      /\ triggered[m] = 1 => archive[m] > 0 \/ \E list \in Stored : m \in Ids(list)

\* As long as commands take turns and none stops part way, a message that was
\* shown by `moltpost read' never turns up unread again.
ReadStaysRead ==
  ~overlapped /\ failures = 0 =>
    \A r \in Reads : pc[r] = "done" /\ chosen[r] # Nothing =>
      \A list \in Stored : \A k \in DOMAIN list :
        list[k].id = chosen[r] => list[k].isRead

=============================================================================
