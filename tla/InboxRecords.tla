---------------------------- MODULE InboxRecords ----------------------------
(***************************************************************************)
(* One row of the operator inbox (controlplane/operator_inbox_records.py), *)
(* what its next snapshot says (operator_inbox_transitions.py), and which  *)
(* rows a compaction keeps (interaction_retention.py).                     *)
(***************************************************************************)
EXTENDS Integers, FiniteSets

CONSTANTS
    Sessions,       \* terminal sessions, each of which hosts at most one agent
    NoSession,
    Causes,         \* root causes the agent notifier raises signals for
    NoCause,
    CauseKind,      \* cause -> the message kind of its signal
    Subject,        \* cause -> the session it is about
    MaxRows,        \* bound: rows ever posted
    Cap,            \* INBOX_MAX_CURRENT_ROWS
    AttemptLimit    \* PERSISTENT_FAILURE_ATTEMPTS

Rows == 1..MaxRows
Kinds == {"message", "turn-report", "dispatch-brief", "escalation", "state-signal"}
TerminalStates == {"landed", "superseded", "unresolved", "expired", "ladder-resolved"}
States == {"absent", "pending"} \cup TerminalStates

\* adapterDeliveryState; "refused" stands for rejected and unsupported
AdapterStates == {"none", "accepted", "queued", "completed", "unknown", "refused"}

ASSUME InboxConstants ==
    /\ MaxRows \in Nat
    /\ Cap \in Nat
    /\ AttemptLimit \in Nat \ {0}
    /\ NoSession \notin Sessions
    /\ NoCause \notin Causes
    /\ CauseKind \in [Causes -> {"escalation", "state-signal"}]
    /\ Subject \in [Causes -> Sessions]

-----------------------------------------------------------------------------
(* A snapshot.  `seated`: addressed by task document and role; `agent`: the *)
(* agentId of the address; `req`: an adapterRequestId is recorded;          *)
(* `session`: where the last attempt went; `consumed`: consumedAt is set.   *)
(* An attempt stamps the count and both attempt times together, so the      *)
(* times are not kept; nor is the deliveryState, which no decision reads.   *)

Entry ==
    [state : States, kind : Kinds, seated : BOOLEAN, agent : Sessions \cup {NoSession},
     gated : BOOLEAN, cause : Causes \cup {NoCause},
     adapter : AdapterStates, req : BOOLEAN, session : Sessions \cup {NoSession},
     attempts : 0..AttemptLimit, consumed : BOOLEAN]

NoEntry ==
    [state |-> "absent", kind |-> "message", seated |-> FALSE, agent |-> NoSession,
     gated |-> FALSE, cause |-> NoCause, adapter |-> "none",
     req |-> FALSE, session |-> NoSession, attempts |-> 0, consumed |-> FALSE]

\* create_operator_inbox_entry
CreateEntry(kind, seated, agent, gated, cause) ==
    [NoEntry EXCEPT !.state = "pending", !.kind = kind, !.seated = seated,
                    !.agent = agent, !.gated = gated, !.cause = cause]

Present(e) == e.state # "absent"
Pending(e) == e.state = "pending"
Terminal(e) == e.state \in TerminalStates

\* Mutant: the last snapshot wins.
FoldLastWins(old, new) == new

\* fold_operator_inbox_entries: a pending snapshot cannot reverse a terminal one
Fold(old, new) == IF Terminal(old) /\ Pending(new) THEN old ELSE new

-----------------------------------------------------------------------------
(* The transitions.                                                         *)

\* The count is only compared with zero and the ceiling: it stops there.
CountAttempt(n) == IF n < AttemptLimit THEN n + 1 ELSE n

\* _delivery_evidence_update, for one attempt `t`
Evidence(e, t) ==
    [e EXCEPT !.session = t.session,
              !.adapter = IF t.adapter = "none" THEN @ ELSE t.adapter,
              !.req = @ \/ t.req, !.attempts = CountAttempt(@)]

\* record_delivery decides on a landing from the caller's copy ...
LandsFrom(e, t) == t.landed /\ t.adapter = "accepted" /\ Pending(e)

\* Mutant: the landing is written over whatever the latest snapshot is.
LandAlways(latest, t) == [Evidence(latest, t) EXCEPT !.state = "landed"]

\* ... and applies it to the latest snapshot, unless that one is terminal
Land(latest, t) ==
    IF Pending(latest) THEN [Evidence(latest, t) EXCEPT !.state = "landed"] ELSE latest

\* Mutant: a consumed row is left alone, as if it were no longer pending.
MarkUnlessConsumed(latest, state) ==
    IF Pending(latest) /\ ~latest.consumed THEN [latest EXCEPT !.state = state] ELSE latest

\* mark_superseded, mark_unresolved, mark_expired
Mark(latest, state) == IF Pending(latest) THEN [latest EXCEPT !.state = state] ELSE latest

\* consume_operator_inbox_entry: an attribution, the state is left alone
ConsumeEntry(e) == [e EXCEPT !.consumed = TRUE]

\* rebind_entry: the row is readdressed to the seat of its owner, and the
\* evidence of the dead session is cleared
RebindEntry(e, owner) ==
    [e EXCEPT !.agent = owner, !.seated = TRUE, !.adapter = "none", !.req = FALSE,
              !.session = NoSession, !.attempts = 0]

\* renew: the condition fired again, and its row is readdressed
RenewEntry(e, owner) == [e EXCEPT !.agent = owner]

\* record_adapter_completion
CompleteEntry(e) == [e EXCEPT !.adapter = "completed"]

-----------------------------------------------------------------------------
(* Retention.  `faded` are the rows whose terminal marker is older than the *)
(* marker window, `registered` the turn reports whose task holds proof.     *)

\* _unregistered_execution_report_ids
ProtectedReports(cur, registered) ==
    {r \in Rows : Present(cur[r]) /\ cur[r].kind = "turn-report" /\ r \notin registered}

\* _keep_inbox_entry
KeepEntry(e, isFaded) ==
    Pending(e) \/ (Terminal(e) /\ e.state # "ladder-resolved" /\ ~isFaded)

\* Rows are numbered in the order of their creation.
Newest(S, n) == {r \in S : Cardinality({q \in S : q >= r}) <= n}

\* Mutants: the oldest rows go whatever their state; the cap counts reports
\* like every other row.
EvictOldest(cur, kept, protected) ==
    LET free == kept \ protected IN
    protected \cup Newest(free, IF Cap > Cardinality(protected)
                                THEN Cap - Cardinality(protected) ELSE 0)
EvictReports(cur, kept, protected) == Newest(kept, Cap)

\* inbox_keep_ids over the cap: pending rows survive before terminal markers
Evict(cur, kept, protected) ==
    LET room == IF Cap > Cardinality(protected) THEN Cap - Cardinality(protected) ELSE 0
        pending == {r \in kept \ protected : Pending(cur[r])}
        selected == Newest(pending, room)
    IN protected \cup selected
       \cup Newest(kept \ (protected \cup pending), room - Cardinality(selected))

\* inbox_keep_ids
KeepIds(cur, faded, registered) ==
    LET protected == ProtectedReports(cur, registered)
        kept == protected \cup {r \in Rows : KeepEntry(cur[r], r \in faded)}
    IN IF Cardinality(kept) > Cap THEN Evict(cur, kept, protected) ELSE kept

KeepOnly(cur, ids) == [r \in Rows |-> IF r \in ids THEN cur[r] ELSE NoEntry]

=============================================================================
