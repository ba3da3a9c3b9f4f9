----------------------- MODULE MCSubmissionAuthority ------------------------
(* Small instances of SubmissionAuthority for TLC. *)
EXTENDS SubmissionAuthority, TLC

CONSTANT MaxAsides    \* bound: the side events of one state

\* Side events: withdrawals, resolutions, a lost event stream; and one
\* reconcile call at a time.
FewAsides ==
    /\ Cardinality(recalled) + Cardinality(givenUp)
         + (IF listening THEN 0 ELSE 1) <= MaxAsides
    /\ Cardinality(asked) <= 1

\* The callers' request ids are interchangeable.
RequestSymmetry == Permutations(Requests)

=============================================================================
