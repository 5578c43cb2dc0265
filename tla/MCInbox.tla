------------------------------- MODULE MCInbox -------------------------------
(* The model values of the run of inbox.cfg. *)
EXTENDS Inbox, TLC

CONSTANTS m1, m2, m3, p1, p2, r1, a1

\* Ids are only compared for equality, and so are the runs of a command.
MCSymmetry == Permutations(Messages) \cup Permutations(Pulls)

\* Picked, which is stated without recursion, is SelectSeq.
Lists == UNION {[1 .. n -> Entry] : n \in 0 .. 4}
ASSUME PickedIsSelectSeq ==
  \A list \in Lists :
    LET Unseen(x) == ~x.isRead
    IN Picked(list, {k \in DOMAIN list : ~list[k].isRead}) = SelectSeq(list, Unseen)

=============================================================================
