------------------------------ MODULE Polling -------------------------------
(***************************************************************************)
(* The mailbox behind the rate limit of POST /pull: handlePull lets        *)
(* checkPullRateLimit (broker/src/middleware/rateLimit.js) read and write  *)
(* the time of the recipient's last pull before it calls dequeueForClawid. *)
(* A pull is charged when it is let in, not when it is answered: one that  *)
(* fails afterwards leaves the recipient refused until the interval ends.  *)
(*                                                                         *)
(* The record ratelimit:pull:{clawid} is represented by its age.  Its TTL  *)
(* is at least twice the interval: a record that old and a record that is  *)
(* gone mean the same to the check, and both are the age Old.              *)
(***************************************************************************)
EXTENDS Mailbox

CONSTANT Interval    \* PULL_MIN_INTERVAL_SECONDS

ASSUME IntervalAssumption == Interval \in Nat \ {0}

VARIABLES
  age,     \* seconds since the time in ratelimit:pull:{clawid}
  gate,    \* where each pull stands in checkPullRateLimit, "out" if it is not there
  delay,   \* seconds since that pull took its clock
  owed,    \* history: what is left of the retry_after a client is waiting out
  broken   \* how many checks have failed

limit == <<age, gate, delay, owed, broken>>
pollingVars == <<vars, limit>>

Old == 2 * Interval
NoPromise == Old + 1

PollingInit ==
  /\ Init
  /\ age = Old
  /\ gate = [c \in Clients |-> "out"]
  /\ delay = [c \in Clients |-> 0]
  /\ owed = [c \in Clients |-> NoPromise]
  /\ broken = 0

\* `moltpost pull' posts; the check takes its clock and asks for the record.
\* A client that asks before its retry_after is over has no claim to be let in.
Ask(c) ==
  /\ pc[c] = "idle"
  /\ gate[c] = "out"
  /\ gate' = [gate EXCEPT ![c] = "read"]
  /\ delay' = [delay EXCEPT ![c] = 0]
  /\ owed' = [owed EXCEPT ![c] = IF @ = 0 THEN 0 ELSE NoPromise]
  /\ UNCHANGED <<vars, age, broken>>

\* Fault: a pull at the very end of the interval is refused.
TooSoonInclusive(c) == age <= Interval + delay[c]

\* elapsed < minInterval, for the elapsed = age - delay of the check's clock.
TooSoon(c) == age < Interval + delay[c]

RetryAfter(c) == Interval + delay[c] - age

\* Fault: the refused pull is recorded too.
RefusedAndRecorded(c) ==
  /\ gate[c] = "read"
  /\ TooSoon(c)
  /\ gate' = [gate EXCEPT ![c] = "out"]
  /\ owed' = [owed EXCEPT ![c] = RetryAfter(c)]
  /\ age' = delay[c]
  /\ UNCHANGED <<vars, delay, broken>>

\* 429 with retry_after: nothing is written, and the command ends.
Refused(c) ==
  /\ gate[c] = "read"
  /\ TooSoon(c)
  /\ gate' = [gate EXCEPT ![c] = "out"]
  /\ owed' = [owed EXCEPT ![c] = RetryAfter(c)]
  /\ UNCHANGED <<vars, age, delay, broken>>

Allowed(c) ==
  /\ gate[c] = "read"
  /\ ~TooSoon(c)
  /\ gate' = [gate EXCEPT ![c] = "write"]
  /\ UNCHANGED <<vars, age, delay, owed, broken>>

\* setPullRateLimit with the clock of the check, then dequeueForClawid.
LetIn(c) ==
  /\ gate[c] = "write"
  /\ PullStart(c)
  /\ gate' = [gate EXCEPT ![c] = "out"]
  /\ age' = delay[c]
  /\ owed' = [d \in Clients |-> NoPromise]
  /\ UNCHANGED <<delay, broken>>

\* The storage call of the check throws, the broker stops, or the CLI does.
FailCheck(c) ==
  /\ broken + failures < MaxFailures
  /\ gate[c] # "out"
  /\ gate' = [gate EXCEPT ![c] = "out"]
  /\ broken' = broken + 1
  /\ UNCHANGED <<vars, age, delay, owed>>

\* A second passes.  Expiry times after MaxTime are too far off to be reached:
\* the interval keeps running out when the mailbox's clock has stopped.  Bound:
\* no check takes more than an interval.
Elapse ==
  /\ \A c \in Clients : gate[c] # "out" => delay[c] < Interval
  /\ Tick \/ (now = MaxTime /\ UNCHANGED vars)
  /\ age' = IF age < Old THEN age + 1 ELSE Old
  /\ delay' = [c \in Clients |-> IF gate[c] = "out" THEN 0 ELSE delay[c] + 1]
  /\ owed' = [c \in Clients |-> IF owed[c] \in {0, NoPromise} THEN owed[c] ELSE owed[c] - 1]
  /\ UNCHANGED <<gate, broken>>

(***************************************************************************)
(* The specification.  The steps of the mailbox are those of Mailbox, but  *)
(* that PullStart and Tick are parts of LetIn and Elapse.                  *)
(***************************************************************************)

MailboxStep(c) ==
  /\ \/ PullList(c) \/ Fetch(c) \/ Fetched(c) \/ Prune(c)
     \/ Receive(c) \/ Keep(c) \/ Unlist(c) \/ DeleteBody(c) \/ AckDone(c)
  /\ UNCHANGED limit

PollStep(c) == Ask(c) \/ Refused(c) \/ Allowed(c) \/ LetIn(c) \/ MailboxStep(c)

MailboxFailure ==
  /\ broken + failures < MaxFailures
  /\ (\E m \in Messages : FailSend(m)) \/ (\E c \in Clients : FailClient(c))
  /\ UNCHANGED limit

PollingNext ==
  \/ \E m \in Messages : SendStep(m) /\ UNCHANGED limit
  \/ \E c \in Clients : PollStep(c) \/ FailCheck(c)
  \/ MailboxFailure
  \/ Elapse

\* A command that was started runs to its end, the recipient's heartbeat keeps
\* asking, and time passes.
PollingSpec ==
  /\ PollingInit /\ [][PollingNext]_pollingVars
  /\ \A c \in Clients : WF_pollingVars(PollStep(c))
  /\ WF_pollingVars(Elapse)

(***************************************************************************)
(* Properties.  AcceptedReachesInbox of Mailbox is checked of PollingSpec: *)
(* neither pulls that are refused nor one that was let in and then failed  *)
(* keep a message from the inbox for good.                                 *)
(***************************************************************************)

\* Every variable stays in its range.
PollingTypeOK ==
  /\ TypeOK
  /\ age \in 0 .. Old
  /\ gate \in [Clients -> {"out", "read", "write"}]
  /\ delay \in [Clients -> 0 .. Interval]
  /\ owed \in [Clients -> 0 .. NoPromise]
  /\ broken \in Nat

\* A client that has waited out the retry_after of its last 429 is not refused
\* again, unless another pull of the recipient was let in meanwhile: refused
\* pulls, failed ones and slow checks do not push the end of the interval back.
RetryAfterSteps ==
  [][\A c \in Clients :
       gate[c] = "read" /\ gate'[c] = "out" /\ broken' = broken => owed[c] # 0]_pollingVars

=============================================================================
