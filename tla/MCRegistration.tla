--------------------------- MODULE MCRegistration ---------------------------
(* Values of the constants of Registration for the runs of register_*.cfg. *)
EXTENDS Registration, TLC

CONSTANTS r0, f1, f2, f3, a1, a2, a3, a4, u1, u2, d1

MCKind == [r \in Requests |-> IF r = r0 THEN "fresh"
                              ELSE IF r \in {f1, f2, f3} THEN "force" ELSE "recover"]

\* Requests of one kind, and updates, are interchangeable.
MCSymmetry ==
  Permutations(Requests \cap {f1, f2, f3}) \cup Permutations(Requests \cap {a1, a2, a3, a4})
    \cup Permutations(Updates)

=============================================================================
