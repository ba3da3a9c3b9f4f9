--------------------------- MODULE InboxDelivery ----------------------------
(***************************************************************************)
(* One attempt to put a row in front of its addressee                      *)
(* (serving/inbox_delivery.py): which session it goes to, and what the     *)
(* attempt may report.  `seats` maps each session to its catalog status,   *)
(* `boundary` holds the sessions at a turn boundary, `sent` the pairs      *)
(* <<row, session>> whose prompt reached that session's adapter.           *)
(***************************************************************************)
EXTENDS InboxRecords

CONSTANT SeatSessions   \* the sessions bound to the task document and role
                        \* that seated rows are addressed to

Running(seats) == {s \in Sessions : seats[s] = "running"}

\* current_seat_occupant
Occupant(seats) == Running(seats) \cap SeatSessions

\* Mutant: the recorded agentId is taken for the session.
TargetSessionByAgent(e, seats) == {e.agent}

\* target_session_for_entry: the occupant of the seat, or the exact session
TargetSession(e, seats) ==
    IF e.seated /\ e.kind # "dispatch-brief" THEN Occupant(seats)
    ELSE {e.agent} \cap Running(seats)

\* is_seat_dead, for a row with an agentId
TargetDead(e, seats) == e.agent # NoSession /\ e.agent \notin Running(seats)

\* derive_row_owner: the occupant of the owner's seat, also for a row that is
\* addressed to an exact session (it carries the task it is about)
RowOwner(e, seats) == IF e.kind = "dispatch-brief" THEN {} ELSE Occupant(seats)

\* An attempt: where it went, what it reports, and whether the prompt was
\* handed to the adapter in it.
Try(s, adapter, req, landed, reached) ==
    [session |-> s, adapter |-> adapter, req |-> req,
     landed |-> landed, reached |-> reached]

NoTry == Try(NoSession, "none", FALSE, FALSE, FALSE)

Tries == [session : Sessions \cup {NoSession}, adapter : AdapterStates,
          req : BOOLEAN, landed : BOOLEAN, reached : BOOLEAN]

\* _delivery_refusal: no tmux session; no adapter or a closed brief gate
Refusals(s) == {Try(s, "none", FALSE, FALSE, FALSE),
                Try(s, "refused", FALSE, FALSE, FALSE)}

\* The availability gate of state signals.
HeldForBoundary(e, s, boundary) == e.kind = "state-signal" /\ s \notin boundary

\* Mutant: an ambiguous answer counts as an acceptance.
ReceiptsOptimistic(s, atBoundary) ==
    {Try(s, "queued", TRUE, FALSE, TRUE),
     Try(s, "refused", TRUE, FALSE, FALSE)}
    \cup {Try(s, "accepted", TRUE, atBoundary, b) : b \in BOOLEAN}

\* submit_control_prompt and _record_receipt.  The adapter may have taken a
\* prompt whose acceptance is unknown, also after a transport error.
Receipts(s, atBoundary) ==
    {Try(s, "accepted", TRUE, atBoundary, TRUE),
     Try(s, "queued", TRUE, FALSE, TRUE),
     Try(s, "refused", TRUE, FALSE, FALSE)}
    \cup {Try(s, "unknown", TRUE, FALSE, b) : b \in BOOLEAN}

\* _record_reconciliation: an adapter vouches only for a prompt it has seen
Reconciliations(s, atBoundary, known) ==
    {Try(s, a, TRUE, FALSE, FALSE) : a \in {"unknown", "refused"}}
    \cup (IF known THEN {Try(s, "accepted", TRUE, atBoundary, FALSE)} ELSE {})

\* _redelivery: a correlated row is not submitted again
Redeliveries(e, s, atBoundary, known) ==
    IF e.adapter \in {"accepted", "queued", "completed"}
    THEN {Try(s, e.adapter, TRUE, atBoundary /\ e.adapter = "accepted", FALSE)}
    ELSE Reconciliations(s, atBoundary, known)

\* deliver_inbox_entry: every attempt that row `r`, read as `e`, may lead to
Attempts(r, e, seats, boundary, sent) ==
    IF TargetSession(e, seats) = {} THEN {NoTry}
    ELSE UNION {Refusals(s) \cup
                (IF HeldForBoundary(e, s, boundary)
                 THEN {Try(s, "queued", FALSE, FALSE, FALSE)}
                 ELSE IF e.req THEN Redeliveries(e, s, s \in boundary, <<r, s>> \in sent)
                 ELSE Receipts(s, s \in boundary)) : s \in TargetSession(e, seats)}

=============================================================================
