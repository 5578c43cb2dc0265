------------------------------ MODULE Delivery ------------------------------
(***************************************************************************)
(* What a mailbox promises, seen from its two ends.  A message is unsent,  *)
(* then held by the broker, and leaves the broker in one of two ways: the  *)
(* recipient takes it, or it expires.  A message that has expired may      *)
(* still be taken by a recipient whose pull had already fetched it.        *)
(***************************************************************************)
CONSTANT Messages

VARIABLE phase

Init == phase = [m \in Messages |-> "unsent"]

\* One send puts one message in the mailbox, perhaps too late to be of use.
Hold(m) ==
  /\ phase[m] = "unsent"
  /\ \E p \in {"held", "expired"} : phase' = [phase EXCEPT ![m] = p]

\* A recipient keeps the messages of one answer.  Those it already has, after
\* an ack that failed or a concurrent pull, are not taken twice.
Take(S) ==
  /\ \A m \in S : phase[m] \in {"held", "expired"}
  /\ phase' = [m \in Messages |-> IF m \in S THEN "taken" ELSE phase[m]]

\* The clock passes the expiry of some messages.
Expire(S) ==
  /\ \A m \in S : phase[m] = "held"
  /\ phase' = [m \in Messages |-> IF m \in S THEN "expired" ELSE phase[m]]

Next ==
  \/ \E m \in Messages : Hold(m)
  \/ \E S \in SUBSET Messages : Take(S) \/ Expire(S)

Spec == Init /\ [][Next]_phase

=============================================================================
