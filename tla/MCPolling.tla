------------------------------ MODULE MCPolling ------------------------------
(* Values of the constants of Polling for polling.cfg. *)
EXTENDS Polling

CONSTANTS m1, m2, c1

\* m1 expires early, m2 has no expires_at.
MCExpiresAt == [m \in Messages |-> IF m = m1 THEN 1 ELSE 0]

==============================================================================
