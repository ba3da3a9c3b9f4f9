----------------------------- MODULE SyncAtomic -----------------------------
(***************************************************************************)
(* What a source synchronization promises its contract: the work branches  *)
(* of code and memory and the recorded pair of bases move together, or not *)
(* at all.                                                                 *)
(***************************************************************************)
EXTENDS Integers

Sides == {"code", "memory"}

VARIABLES
    branch, \* side -> head of the work branch, as [own, at, was]
    base    \* side -> the source version the contract records

\* A branch holds the source version the contract records for it.
Init == /\ branch \in [Sides -> [own : Nat, at : Nat, was : Nat]]
        /\ base \in [Sides -> Nat]
        /\ \A s \in Sides : base[s] <= branch[s].at

\* The agent commits on a work branch.
Work(s) == /\ branch' = [branch EXCEPT ![s] = [own |-> @.own + 1, at |-> @.at, was |-> @.at]]
           /\ UNCHANGED base

\* The head that holds version v of the source.
With(c, v) == IF v <= c.at THEN c
              ELSE IF c.own = 0 THEN [own |-> 0, at |-> v, was |-> v]
              ELSE [own |-> c.own, at |-> v, was |-> c.at]

\* A sync completes: every side that is not skipped holds its source version,
\* and the contract says so.
Sync == \E skipped \in SUBSET {"memory"} :
    /\ base' \in [Sides -> Nat]
    /\ \A s \in Sides : IF s \in skipped THEN base'[s] = base[s] ELSE base'[s] >= base[s]
    /\ branch' = [s \in Sides |-> IF s \in skipped THEN branch[s]
                                  ELSE With(branch[s], base'[s])]

Next == Sync \/ \E s \in Sides : Work(s)

Spec == Init /\ [][Next]_<<branch, base>>
=============================================================================
