------------------------------ MODULE MCMailbox ------------------------------
(* Values of the constants of Mailbox for the runs of mailbox_*.cfg. *)
EXTENDS Mailbox, TLC

CONSTANTS m1, m2, m3, c1, c2

\* m1 expires early, m2 late, m3 has no expires_at.
MCExpiresAt == [m \in Messages |-> IF m = m1 THEN 2 ELSE IF m = m2 THEN 4 ELSE 0]

\* Nothing tells the recipient's CLI processes apart.
MCSymmetry == Permutations(Clients)

=============================================================================
