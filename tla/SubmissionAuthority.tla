------------------------ MODULE SubmissionAuthority -------------------------
(***************************************************************************)
(* The prompt queue of one hosted session                                  *)
(* (serving/harness_submission_authority.py), the rows it answers from     *)
(* (serving/harness_submission_ledger.py) and the bridge's event loop that *)
(* feeds it (serving/harness_control_bridge.py).                           *)
(*                                                                         *)
(* Callers submit, withdraw, reconcile and resolve; one dispatcher task    *)
(* takes the head of the timeline to the adapter.  Every critical section  *)
(* of the code holds the lock without awaiting, so each is one action; the *)
(* adapter's preflight, its operation call and its reconcile call are      *)
(* awaited outside the lock, and anything may happen meanwhile.            *)
(*                                                                         *)
(* The adapter and the vendor behind it are the environment: `wire` is the *)
(* sequence of operations whose bytes crossed to the vendor, `over` those  *)
(* whose turn the vendor has declared over.  The adapter is trusted for    *)
(* what the protocol makes it certify: busy means no byte was sent, and    *)
(* rejected means the vendor will not run the operation.                   *)
(***************************************************************************)
EXTENDS Naturals, FiniteSets, Sequences, SequencesExt

CONSTANTS
    Requests,        \* request ids the callers own
    Cockpit,         \* those submitted from the cockpit: only they can be withdrawn
    MaxOps,          \* bound: operations admitted in one bridge epoch
    MaxSetters,      \* bound: setters among them
    TimelineLimit,   \* SubmissionLimits.timeline
    LedgerLimit,     \* SubmissionLimits.ledger
    Reconciles,      \* whether callers reconcile
    PreflightSends,  \* whether the adapter's preflight awaits the vendor and may
                     \* fail claiming that it sent something (Pi's does)
    PreflightBreaks, \* whether it may raise anything else: Pi's does when the
                     \* vendor answers with an error or unreadably, Claude's when
                     \* the adapter is no longer available
    None

ASSUME SubmissionAssumption ==
    /\ Cockpit \subseteq Requests
    /\ Requests \cap Nat = {}
    /\ None \notin Requests \cup Nat
    /\ MaxOps \in Nat /\ MaxSetters \in Nat
    /\ TimelineLimit \in Nat \ {0}
    /\ LedgerLimit \in Nat \ {0}
    /\ TimelineLimit <= LedgerLimit
    /\ Reconciles \in BOOLEAN /\ PreflightSends \in BOOLEAN /\ PreflightBreaks \in BOOLEAN

VARIABLES
    rows,       \* SubmissionLedger._records, by operation key
    order,      \* their order: least recently answered first
    timeline,   \* _timeline
    active,     \* _active
    ordinal,    \* SubmissionLedger._sequence
    snap,       \* the bridge's snapshot: its control state and idleness
    listening,  \* whether the bridge's event task is running
    wake,       \* _wake
    pc,         \* where the dispatcher task is
    chosen,     \* the record it is working on
    owed,       \* the adapter declined and owes a readiness event
    asked,      \* records for which a reconcile call is out
    wire, over,
    recalled,   \* ordinals a caller was told are withdrawn
    givenUp,    \* ordinals an operator resolved
    mixed       \* whether a reconcile answer met another operation's row

ledger  == <<rows, order, timeline, active, ordinal>>
bridge  == <<snap, listening>>
task    == <<pc, chosen, owed>>
history == <<wire, over, recalled, givenUp, mixed>>
vars == <<ledger, bridge, wake, task, asked, history>>

\* A setter has no caller id: its key is named by its ordinal (next_ref).
Setters == 1..MaxOps
Keys == Requests \cup Setters

States == {"queued", "dispatching", "delivered", "withdrawn", "unknown",
           "rejected", "unsupported"}

\* EVICTABLE_STATES
Evictable == {"delivered", "withdrawn", "rejected", "unsupported"}

\* OperationRecord: its ordinal, its state and whether the completion came
\* before the result of the call.
Row == [seq : Nat, state : States, buffered : BOOLEAN]
NoRow == [seq |-> 0, state |-> "rejected", buffered |-> FALSE]
Retained(k) == rows[k] # NoRow

Controls == {"ready", "disconnected", "failed", "unsupported"}
Ready == [control |-> "ready", idle |-> TRUE]

TypeOK ==
    /\ rows \in [Keys -> Row]
    /\ order \in Seq(Keys) /\ Len(order) <= LedgerLimit
    /\ timeline \in Seq(Keys)
    /\ active \in Keys \cup {None}
    /\ ordinal \in 0..MaxOps
    /\ snap \in [control : Controls, idle : BOOLEAN]
    /\ listening \in BOOLEAN
    /\ wake \in BOOLEAN
    /\ pc \in {"wait", "look", "preflight", "call", "dead", "stopped"}
    /\ owed \in BOOLEAN
    /\ chosen \in [key : Keys \cup {None}, seq : Nat]
    /\ asked \in SUBSET (Requests \X Nat)
    /\ wire \in Seq(1..MaxOps)
    /\ over \in SUBSET (1..MaxOps)
    /\ recalled \in SUBSET (1..MaxOps)
    /\ givenUp \in SUBSET (1..MaxOps)
    /\ mixed \in BOOLEAN

-----------------------------------------------------------------------------
\* HarnessControlBridge.submissions, _require_running: what every call needs
Running == pc # "stopped" /\ snap.control # "failed"

\* _snapshot_allows_dispatch
AllowsDispatch == snap = Ready

\* OperationRecord.live, live_count
Live(k) == Retained(k) /\ rows[k].state \in {"queued", "dispatching", "unknown"}
LiveCount == Cardinality({k \in Keys : Live(k) \/ (Retained(k) /\ k = active)})

\* _pinned
Pinned(k) == k = active \/ k \in Range(timeline)

\* make_room: the rows it may drop
Droppable(k) ==
    Retained(k) /\ ~Pinned(k) /\ rows[k].state \in Evictable

\* make_room: the least recently answered of them
Evictee == order[CHOOSE i \in DOMAIN order :
                    /\ Droppable(order[i])
                    /\ \A j \in 1..(i - 1) : ~Droppable(order[j])]

\* Mutant: room is made only once the limit is exceeded.
LedgerFullLate == Len(order) > LedgerLimit

\* make_room: the ledger holds as many rows as it may
LedgerFull == Len(order) >= LedgerLimit

\* _has_admission_room
HasRoom ==
    /\ LiveCount < TimelineLimit
    /\ LedgerFull => \E k \in Keys : Droppable(k)

\* touch
Touched(k) == Append(RemoveFirst(order, k), k)

\* The ledger with room made and the operation k enrolled in state st.
Enrol(k, st) ==
    /\ ordinal' = ordinal + 1
    /\ LET kept == [rows EXCEPT ![k] = [seq |-> ordinal + 1, state |-> st,
                                        buffered |-> FALSE]]
       IN IF LedgerFull
          THEN /\ rows' = [kept EXCEPT ![Evictee] = NoRow]
               /\ order' = Append(RemoveFirst(order, Evictee), k)
          ELSE /\ rows' = kept
               /\ order' = Append(order, k)

\* The record object that is the ledger's row for its key.
IsRow(r) == r.key \in Keys /\ rows[r.key].seq = r.seq /\ r.seq # 0

\* mark_terminal, mark_unknown: the row takes the state st.
Marked(k, st) == [rows EXCEPT ![k].state = st]

\* _release_head, after the row was marked
ReleaseHead(k) ==
    /\ active' = IF active = k THEN None ELSE active
    /\ timeline' = RemoveFirst(timeline, k)
    /\ order' = Touched(k)

\* Mutant: the dispatcher is not woken for the next operation.
SettleQuietly(k, st) ==
    /\ rows' = [rows EXCEPT ![k].state = st, ![k].buffered = FALSE]
    /\ ReleaseHead(k)
    /\ UNCHANGED <<wake, ordinal>>

\* Settle the operation: mark it terminal, release the head, wake the
\* dispatcher.
Settle(k, st) ==
    /\ rows' = [rows EXCEPT ![k].state = st, ![k].buffered = FALSE]
    /\ ReleaseHead(k)
    /\ wake' = TRUE
    /\ UNCHANGED ordinal

-----------------------------------------------------------------------------
(* The callers' operations.                                                *)

\* submit: the request id is retained, so the caller gets the receipt the
\* first submission is owed and the row becomes the youngest.
Resubmit(k) ==
    /\ Running /\ Retained(k)
    /\ order' = Touched(k)
    /\ UNCHANGED <<rows, timeline, active, ordinal, bridge, wake, task, asked, history>>

\* submit: the new prompt is enrolled and joins the timeline.
Submit(k) ==
    /\ Running /\ ~Retained(k) /\ HasRoom
    /\ ordinal < MaxOps
    /\ snap.control # "unsupported"
    /\ Enrol(k, "queued")
    /\ timeline' = Append(timeline, k)
    /\ wake' = TRUE
    /\ UNCHANGED <<active, bridge, task, asked, history>>

\* submit, _unsupported_prompt_locked: the row is only there to answer.
SubmitUnsupported(k) ==
    /\ Running /\ ~Retained(k) /\ HasRoom
    /\ ordinal < MaxOps
    /\ snap.control = "unsupported"
    /\ Enrol(k, "unsupported")
    /\ UNCHANGED <<timeline, active, bridge, wake, task, asked, history>>

\* set_model, set_effort: _admit_setter
AdmitSetter ==
    /\ Running /\ HasRoom
    /\ ordinal < MaxOps
    /\ Cardinality({k \in Setters : Retained(k)}) < MaxSetters
    /\ snap.control # "unsupported"
    /\ Enrol(ordinal + 1, "queued")
    /\ timeline' = Append(timeline, ordinal + 1)
    /\ wake' = TRUE
    /\ UNCHANGED <<active, bridge, task, asked, history>>

\* Mutant: a dispatching prompt is withdrawn too.
WithdrawableUntilSent(k) == rows[k].state \in {"queued", "dispatching"}

\* withdraw: only what is still queued
Withdrawable(k) == rows[k].state = "queued"

\* withdraw
Withdraw(k) ==
    /\ Running /\ k \in Cockpit /\ Retained(k) /\ Withdrawable(k)
    /\ rows' = Marked(k, "withdrawn")
    /\ timeline' = RemoveFirst(timeline, k)
    /\ recalled' = recalled \cup {rows[k].seq}
    /\ wake' = TRUE
    /\ UNCHANGED <<order, active, ordinal, bridge, task, asked, wire, over, givenUp, mixed>>

\* resolve_operation: the operator settles an unknown operation.
Resolve(k, st) ==
    /\ Running /\ Retained(k) /\ rows[k].state = "unknown"
    /\ Settle(k, st)
    /\ givenUp' = givenUp \cup {rows[k].seq}
    /\ UNCHANGED <<bridge, task, asked, wire, over, recalled, mixed>>

\* reconcile: the row is ambiguous, so the adapter is asked, outside the lock.
AskReconcile(k) ==
    /\ Reconciles /\ Running /\ Retained(k) /\ rows[k].state = "unknown"
    /\ asked' = asked \cup {<<k, rows[k].seq>>}
    /\ UNCHANGED <<ledger, bridge, wake, task, history>>

\* reconcile: the answer is applied to the row its key names by then.
\* Adapters answer `accepted` on evidence and `rejected` when the vendor
\* refused or was never reached.
ApplyReconcile(k, n, answer) ==
    /\ <<k, n>> \in asked
    /\ asked' = asked \ {<<k, n>>}
    /\ answer = "accepted" => n \in Range(wire)
    /\ answer = "rejected" => n \notin Range(wire)
    /\ IF ~Retained(k)
       THEN UNCHANGED <<ledger, wake>>
       ELSE CASE answer = "accepted" ->
                    /\ rows' = Marked(k, "delivered")
                    /\ wake' = TRUE
                    /\ UNCHANGED <<order, timeline, active, ordinal>>
              [] answer = "rejected" -> Settle(k, "rejected")
              [] OTHER -> wake' = TRUE /\ UNCHANGED ledger
    /\ mixed' = (mixed \/ (Retained(k) /\ rows[k].seq # n))
    /\ UNCHANGED <<bridge, task, wire, over, recalled, givenUp>>

\* stop: the dispatcher is cancelled wherever it is.
Stop ==
    /\ pc # "stopped"
    /\ pc' = "stopped"
    /\ snap' = [control |-> "disconnected", idle |-> FALSE]
    /\ listening' = FALSE
    /\ UNCHANGED <<ledger, wake, chosen, owed, asked, history>>

-----------------------------------------------------------------------------
(* The dispatcher task.                                                    *)

\* _dispatchable_head_locked
HasDispatchableHead ==
    /\ timeline # <<>> /\ active = None
    /\ rows[Head(timeline)].state = "queued"
    /\ AllowsDispatch

\* _dispatch_one: take the head to the preflight, or wait.
TakeHead ==
    /\ IF HasDispatchableHead
       THEN /\ pc' = "preflight"
            /\ chosen' = [key |-> Head(timeline), seq |-> rows[Head(timeline)].seq]
       ELSE pc' = "wait" /\ UNCHANGED chosen
    /\ UNCHANGED <<ledger, bridge, owed, asked, history>>

\* _run_dispatcher: it was woken.
Woken == pc = "wait" /\ wake /\ wake' = FALSE /\ TakeHead

\* _run_dispatcher: the previous operation left the head.
Look == pc = "look" /\ UNCHANGED wake /\ TakeHead

\* _preflight_declined: busy or not connected, and nothing was sent
PreflightDeclines ==
    /\ pc = "preflight"
    /\ pc' = "wait"
    /\ owed' = TRUE
    /\ UNCHANGED <<ledger, bridge, wake, chosen, asked, history>>

\* _unknown_after_preflight_claim: the record becomes the blocker as it is.
PreflightClaimsSend ==
    /\ PreflightSends /\ pc = "preflight"
    /\ rows' = IF IsRow(chosen) THEN Marked(chosen.key, "unknown") ELSE rows
    /\ active' = chosen.key
    /\ snap' = [control |-> "disconnected", idle |-> FALSE]
    /\ pc' = "wait"
    /\ UNCHANGED <<order, timeline, ordinal, listening, wake, chosen, owed, asked, history>>

\* _preflight_declined catches neither of the two: the exception leaves
\* _dispatch_one and _run_dispatcher and ends the task.
PreflightRaises ==
    /\ PreflightBreaks /\ pc = "preflight"
    /\ pc' = "dead"
    /\ UNCHANGED <<ledger, bridge, wake, chosen, owed, asked, history>>

\* Mutant: the claim trusts what was read before the preflight.
ClaimableStale(r) == active = None /\ IsRow(r)

\* _claim_head_locked: nothing moved while the preflight ran
Claimable(r) ==
    /\ timeline # <<>> /\ Head(timeline) = r.key
    /\ active = None
    /\ IsRow(r) /\ rows[r.key].state = "queued"
    /\ AllowsDispatch

\* _dispatch_one, after the preflight: claim the head or look again.
PreflightPasses ==
    /\ pc = "preflight"
    /\ IF Claimable(chosen)
       THEN /\ pc' = "call"
            /\ rows' = Marked(chosen.key, "dispatching")
            /\ active' = chosen.key
       ELSE pc' = "look" /\ UNCHANGED <<rows, active>>
    /\ UNCHANGED <<order, timeline, ordinal, bridge, wake, chosen, owed, asked, history>>

-----------------------------------------------------------------------------
(* The adapter's operation call.                                           *)

Sent == chosen.seq \in Range(wire)

\* The bytes of the operation cross to the vendor.
AdapterWrites ==
    /\ pc = "call" /\ ~Sent
    /\ wire' = Append(wire, chosen.seq)
    /\ UNCHANGED <<ledger, bridge, wake, task, asked, over, recalled, givenUp, mixed>>

\* The operation is still the active one (_apply_method_result).
StillActive == active = chosen.key /\ IsRow(chosen)

\* Mutant: an operation that comes back busy goes to the end of the timeline.
RequeuedAtTail(k) == Append(RemoveFirst(timeline, k), k)

\* _certified_pre_send_busy: the record keeps its place in the timeline.
Requeued(k) == timeline

\* _send_and_settle: the adapter certifies that no byte was sent.  A record
\* that is no longer the active dispatch raises, and ends the task.
CallBusy ==
    /\ pc = "call" /\ ~Sent
    /\ IF StillActive /\ rows[chosen.key].state = "dispatching"
       THEN /\ rows' = Marked(chosen.key, "queued")
            /\ timeline' = Requeued(chosen.key)
            /\ active' = None
            /\ pc' = "wait"
       ELSE pc' = "dead" /\ UNCHANGED <<rows, timeline, active>>
    /\ owed' = TRUE
    /\ UNCHANGED <<order, ordinal, bridge, wake, chosen, asked, history>>

\* _mark_unknown_locked: the record becomes the blocker.
Block ==
    /\ rows' = IF IsRow(chosen) THEN Marked(chosen.key, "unknown") ELSE rows
    /\ UNCHANGED active

\* _possible_send_failure: disconnected in mid-send, or any other exception
CallFails ==
    /\ pc = "call"
    /\ Block
    /\ snap' = [control |-> "disconnected", idle |-> FALSE]
    /\ pc' = "wait"
    /\ UNCHANGED <<order, timeline, ordinal, listening, wake, chosen, owed, asked, history>>

\* _apply_method_result raises, _incoherent_method_result raises: the task dies.
CallOrphaned ==
    /\ pc = "call" /\ ~StillActive
    /\ pc' = "dead"
    /\ UNCHANGED <<ledger, bridge, wake, chosen, owed, asked, history>>

\* _apply_prompt_receipt_locked: unknown, and the forbidden queued receipt;
\* _apply_set_result_locked: unknown.  A buffered completion is the missing
\* evidence, except after `queued`.
CallUnknown(forbidden) ==
    /\ pc = "call" /\ Sent /\ StillActive
    /\ forbidden => chosen.key \in Requests
    /\ IF rows[chosen.key].buffered /\ ~forbidden
       THEN Settle(chosen.key, "delivered") /\ pc' = "look"
       ELSE /\ rows' = Marked(chosen.key, "unknown")
            /\ pc' = "wait"
            /\ UNCHANGED <<order, timeline, active, ordinal, wake>>
    /\ UNCHANGED <<bridge, chosen, owed, asked, history>>

\* Mutant: acceptance of the prompt releases the head.
TurnOverOnAcceptance(k, stamped) == TRUE

\* _apply_prompt_receipt_locked: an accepted prompt is over when its
\* completion came first or the adapter stamps terminalCompletion.
TurnOver(k, stamped) == rows[k].buffered \/ stamped

\* _apply_prompt_receipt_locked: immediate
CallAccepted(stamped) ==
    /\ pc = "call" /\ Sent /\ StillActive
    /\ chosen.key \in Requests
    /\ over' = IF stamped THEN over \cup {chosen.seq} ELSE over
    /\ IF TurnOver(chosen.key, stamped)
       THEN Settle(chosen.key, "delivered") /\ pc' = "look"
       ELSE /\ rows' = Marked(chosen.key, "delivered")
            /\ pc' = "wait"
            /\ UNCHANGED <<order, timeline, active, ordinal, wake>>
    /\ UNCHANGED <<bridge, chosen, owed, asked, wire, recalled, givenUp, mixed>>

\* _apply_prompt_receipt_locked: rejected, unsupported;
\* _apply_set_result_locked: anything but unknown
CallTerminal(st) ==
    /\ pc = "call" /\ StillActive
    /\ st = "delivered" => chosen.key \in Setters /\ Sent
    /\ st = "rejected" => chosen.key \in Requests
    /\ over' = IF Sent THEN over \cup {chosen.seq} ELSE over
    /\ Settle(chosen.key, st)
    /\ pc' = "look"
    /\ UNCHANGED <<bridge, chosen, owed, asked, wire, recalled, givenUp, mixed>>

-----------------------------------------------------------------------------
(* The bridge's event loop.                                                *)

\* _run_events: an event that only carries a snapshot; observe_event and
\* notify_snapshot_updated wake the dispatcher.
Reports(s) ==
    /\ listening
    /\ snap' = s
    /\ wake' = TRUE
    /\ owed' = FALSE
    /\ UNCHANGED <<ledger, listening, pc, chosen, asked, history>>

\* observe_event: the completion names the active operation.
Completes(n) == active # None /\ Retained(active) /\ rows[active].seq = n

\* observe_event, _run_events: the vendor's completion of n.  Before the
\* call returned it is buffered; otherwise it releases the head.  One that
\* does not name the active operation, or comes twice, fails the bridge and
\* ends its event loop.
Completed(n) ==
    /\ listening
    /\ n \in Range(wire)
    /\ over' = over \cup {n}
    /\ CASE Completes(n) /\ rows[active].state = "dispatching" /\ ~rows[active].buffered ->
              /\ rows' = [rows EXCEPT ![active].buffered = TRUE]
              /\ snap' = Ready
              /\ wake' = TRUE
              /\ UNCHANGED <<order, timeline, active, ordinal, listening>>
         [] Completes(n) /\ rows[active].state \in {"delivered", "unknown"} ->
              /\ Settle(active, "delivered")
              /\ snap' = Ready
              /\ UNCHANGED listening
         [] OTHER ->
              /\ snap' = [control |-> "failed", idle |-> FALSE]
              /\ listening' = FALSE
              /\ UNCHANGED <<ledger, wake>>
    /\ UNCHANGED <<task, asked, wire, recalled, givenUp, mixed>>

\* _run_events: the adapter's event stream ends.
StreamEnds ==
    /\ listening
    /\ listening' = FALSE
    /\ snap' = IF snap.control = "ready"
               THEN [control |-> "disconnected", idle |-> FALSE] ELSE snap
    /\ UNCHANGED <<ledger, wake, task, asked, history>>

-----------------------------------------------------------------------------
\* HarnessControlBridge.start, HarnessSubmissionAuthority.start
Init ==
    /\ rows = [k \in Keys |-> NoRow]
    /\ order = <<>> /\ timeline = <<>> /\ active = None /\ ordinal = 0
    /\ snap \in {Ready, [control |-> "unsupported", idle |-> FALSE]}
    /\ listening = (snap.control # "unsupported")
    /\ wake = FALSE
    /\ pc = "wait" /\ chosen = [key |-> None, seq |-> 0] /\ owed = FALSE
    /\ asked = {}
    /\ wire = <<>> /\ over = {} /\ recalled = {} /\ givenUp = {} /\ mixed = FALSE

Callers ==
    \/ \E k \in Requests :
        \/ Submit(k) \/ SubmitUnsupported(k) \/ Resubmit(k)
        \/ Withdraw(k) \/ AskReconcile(k)
        \/ \E n \in 1..MaxOps, answer \in {"accepted", "rejected", "unresolved"} :
              ApplyReconcile(k, n, answer)
    \/ \E k \in Keys, st \in {"delivered", "rejected"} : Resolve(k, st)
    \/ AdmitSetter
    \/ Stop

Dispatcher ==
    \/ Woken \/ Look
    \/ PreflightDeclines \/ PreflightClaimsSend \/ PreflightRaises \/ PreflightPasses

CallEnds ==
    \/ CallFails \/ CallOrphaned
    \/ \E forbidden \in BOOLEAN : CallUnknown(forbidden)
    \/ \E stamped \in BOOLEAN : CallAccepted(stamped)
    \/ \E st \in {"delivered", "rejected", "unsupported"} : CallTerminal(st)

Calls == AdapterWrites \/ CallBusy \/ CallEnds

Events ==
    \/ \E s \in {Ready, [control |-> "ready", idle |-> FALSE],
                 [control |-> "disconnected", idle |-> FALSE],
                 [control |-> "failed", idle |-> FALSE]} : Reports(s)
    \/ \E n \in 1..MaxOps : Completed(n)
    \/ StreamEnds

Next == Callers \/ Dispatcher \/ Calls \/ Events

Spec == Init /\ [][Next]_vars

\* The event loop runs its tasks; a call returns, its waits being bounded; the
\* vendor ends the turns it accepted; and an adapter that declined reports
\* when it is ready ("A direct adapter readiness event wakes the dispatcher").
\* A head that is ready again and again is looked at and claimed in the end:
\* the steps from the wake to the claim are not interleaved when the
\* preflight does not await.
Fairness ==
    /\ WF_vars(Woken) /\ WF_vars(Look)
    /\ WF_vars(PreflightPasses)
    /\ SF_vars((Woken \/ Look) /\ HasDispatchableHead)
    /\ SF_vars(PreflightPasses /\ Claimable(chosen))
    /\ SF_vars(CallEnds)
    /\ WF_vars(\E n \in 1..MaxOps : Completes(n) /\ Completed(n))
    /\ WF_vars((owed \/ ~snap.idle) /\ snap.control = "ready" /\ Reports(Ready))

FairSpec == Spec /\ Fairness

-----------------------------------------------------------------------------
\* Operations reach the vendor in the order they were admitted, and each at
\* most once, whatever fails, is requeued, reconciled or submitted again.
WireInOrder ==
    \A i, j \in DOMAIN wire : i < j => wire[i] < wire[j]

\* A prompt answered as withdrawn never reaches the vendor, also when the
\* withdrawal comes while the preflight of that prompt is out.
RecalledNeverSent == recalled \cap Range(wire) = {}

\* An operation the vendor may still be working on is the active one, so that
\* nothing else is dispatched and its row is not forgotten: only its own
\* completion, its own terminal result or an operator release it.  (An answer
\* of reconcile that meets a later operation under the same request id is the
\* exception: see `mixed`.)
UnfinishedIsPinned ==
    mixed \/ \A n \in Range(wire) \ (over \cup givenUp) :
                active # None /\ rows[active].seq = n

\* What is out at the adapter is the active operation, and its row says so:
\* no withdrawal, resolution or completion takes it away from under the call,
\* whose result would then end the dispatcher task (_certified_pre_send_busy
\* and _apply_method_result raise on it).  The same exception for reconcile.
CallKeepsDispatch ==
    pc = "call" /\ ~mixed => StillActive /\ rows[chosen.key].state = "dispatching"

\* Once answered as withdrawn, a row says so as long as it is retained.  Holds
\* of the adapters whose preflight sends nothing, with the same exception.
WithdrawnIsFinal ==
    [][mixed' \/ \A k \in Keys :
        (rows[k].state = "withdrawn" /\ rows'[k].seq = rows[k].seq)
            => rows'[k].state = "withdrawn"]_vars

\* A queued operation does not wait for ever, unless the session is lost, the
\* head is in doubt, or the vendor never ended an operation the operator gave
\* up on: no wake-up of the dispatcher is lost.  Holds of the adapters whose
\* preflight raises only what the dispatcher expects; otherwise the readiness
\* event, which "wakes the dispatcher", finds no task to wake.
QueueMoves ==
    \A k \in Keys :
        (rows[k].state = "queued") ~>
            \/ rows[k].state # "queued"
            \/ snap.control # "ready"
            \/ active # None /\ rows[active].state = "unknown"
            \/ givenUp \ over # {}

=============================================================================
