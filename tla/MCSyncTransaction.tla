-------------------------- MODULE MCSyncTransaction -------------------------
(* A small instance of SyncTransaction for TLC. *)
EXTENDS SyncTransaction

\* Two faults: crashes, or a crash and a damaged journal.
FewFaults == crashes + (IF damaged = "no" THEN 0 ELSE 1) <= 2

\* A second generation meets a single crash, and starts from an undamaged journal
\* and clean worktrees.
SecondIsPlain ==
    journal.generation > 1 \/ call.admits \/ call.record.generation > 1 =>
        crashes <= 1 /\ damaged = "no" /\ \A s \in Sides : edits[s] = 0

=============================================================================
