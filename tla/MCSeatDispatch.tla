--------------------------- MODULE MCSeatDispatch ---------------------------
(* A small instance of SeatDispatch for TLC. *)
EXTENDS SeatDispatch, TLC

CONSTANTS c1, c2

\* Callers are interchangeable: no action and no property tells them apart.
CallerSymmetry == Permutations(Callers)

=============================================================================
