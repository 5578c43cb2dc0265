----------------------------- MODULE MCAdmission -----------------------------
(* Values of the constants of Admission for the runs of admission*.cfg. *)
EXTENDS Admission, TLC

CONSTANTS s1, s2, s3, alice, bob, i1, i2, e1, e2, e3

\* alice sends s1 and retries it as s2; s3 is another message of hers.
MCFrom == [s \in Sends |-> alice]
MCClientMsg == [s \in Sends |-> IF s = s3 THEN i2 ELSE i1]

\* The recipient adds bob, then alice too, and takes bob off the list again.
MCEdit == [e \in Edits |-> IF e = e1 THEN [action |-> "add", ids |-> {bob}]
                           ELSE IF e = e2 THEN [action |-> "set", ids |-> {alice, bob}]
                           ELSE [action |-> "remove", ids |-> {bob}]]


\* s1 and s2 are the same request; nothing tells them apart.
MCSymmetry == Permutations(Sends \cap {s1, s2})

=============================================================================
