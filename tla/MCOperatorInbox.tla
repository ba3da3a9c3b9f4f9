-------------------------- MODULE MCOperatorInbox ---------------------------
(* Small instances of OperatorInbox for TLC. *)
EXTENDS OperatorInbox, TLC

CONSTANTS s1, s2, poster1, stalled, idle,
          MaxAsides     \* bound: the side events of one state

Post(kind, address, gated) == [kind |-> kind, address |-> address, gated |-> gated]

OwnerPosts == {Post("message", "owner", FALSE)}
CapPosts == {Post("message", "seat", TRUE), Post("turn-report", "seat", FALSE)}
BriefPosts == {Post("message", "owner", FALSE), Post("message", "exact", FALSE),
               Post("dispatch-brief", "exact", FALSE)}
NoPosts == {}

KindOfCauses == [c \in Causes |-> IF c = idle THEN "state-signal" ELSE "escalation"]
SubjectOfCauses == [c \in Causes |-> CHOOSE s \in Sessions : TRUE]

\* Side events: elapsed windows, consumed rows, completions, crashes; and,
\* where the question is not about terminal states, superseded rows.
Asides == Cardinality(old) + Cardinality(faded) + Cardinality(sync.todo) + crashes
          + Cardinality({r \in Rows : inbox[r].consumed})
          + Cardinality({r \in Rows : inbox[r].adapter = "completed"})
FewAsides == Asides <= MaxAsides
FewInterventions == Asides + Cardinality({r \in Rows : inbox[r].state = "superseded"}) <= MaxAsides

\* The sessions of a seat are interchangeable where no escalation is about one.
SessionSymmetry == Permutations(Sessions)

=============================================================================
