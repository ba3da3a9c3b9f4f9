--------------------------- MODULE OperatorInbox ----------------------------
(***************************************************************************)
(* The operator inbox log (controlplane/operator_inbox_store.py) and the   *)
(* processes that write it: posts from the MCP server and the dashboard,   *)
(* the agent notifier's sweep, the synchronizer of adapter completions,    *)
(* and the tools that consume, supersede and cancel.                       *)
(*                                                                         *)
(* The log is read only through its fold, which is the state kept here.    *)
(* `transition`, `consume`, `compact` and the deletions read and write     *)
(* under one lock and are one step.  A delivery record, a rebind, a        *)
(* renewal and a completion are written from a copy read earlier.          *)
(***************************************************************************)
EXTENDS InboxDelivery

CONSTANTS
    Posters,    \* requests that post to the inbox
    Posts,      \* bound: the posts they make, [kind, address, gated]
    MaxCrashes  \* bound: how often a process dies inside an operation

\* The kinds of findings, in the order in which the sweep acts on them.
FindingOrder == [redeliver |-> 1, escalation |-> 2, rebind |-> 3, grace |-> 3,
                 ttl |-> 4, signal |-> 5, drain |-> 6]

Findings == [do : DOMAIN FindingOrder, row : Rows \cup {0}, cause : Causes \cup {NoCause}]

ASSUME PostConstants ==
    /\ Posts \subseteq [kind : {"message", "turn-report", "dispatch-brief"},
                        address : {"seat", "owner", "exact"}, gated : BOOLEAN]
    /\ MaxCrashes \in Nat

VARIABLES
    inbox,      \* the fold of the log: row -> latest snapshot
    post,       \* poster -> its post in flight
    sweep,      \* the sweep in flight, with the fold it works from
    sync,       \* the completions still to be recorded, from the fold they read
    nextRow,    \* the next row id
    seats,      \* the catalog: session -> fresh, running, terminated
    boundary,   \* the sessions at a turn boundary
    sent,       \* <<row, session>>: the session's adapter got the prompt
    old,        \* rows past the pending TTL
    faded,      \* rows whose terminal marker is past its window
    registered, \* turn reports whose task holds proof
    cancelled,  \* whether the gate of the gated rows was cancelled
    crashes,    \* how often a process died
    removed     \* history: rows that were physically removed

vars == <<inbox, post, sweep, sync, nextRow, seats, boundary, sent, old, faded,
          registered, cancelled, crashes, removed>>

-----------------------------------------------------------------------------
(* Operations in flight.                                                    *)

NoRows == [r \in Rows |-> NoEntry]

IdlePost == [step |-> "idle", row |-> 0, entry |-> NoEntry, try |-> NoTry]
PostOps == [step : {"idle", "compact", "deliver", "read", "record"}, row : Rows \cup {0},
            entry : Entry, try : Tries]

NoFinding == [do |-> "redeliver", row |-> 0, cause |-> NoCause]
IdleSweep == [step |-> "idle", gone |-> {}, held |-> NoRows, todo |-> {}, expiring |-> {},
              now |-> NoFinding, try |-> NoTry]
SweepOps == [step : {"idle", "reconcile", "evaluate", "act", "deliver", "record",
                     "unresolve", "expire", "beat"},
             gone : SUBSET Sessions, held : [Rows -> Entry], todo : SUBSET Findings,
             expiring : SUBSET Rows, now : Findings, try : Tries]

IdleSync == [todo |-> {}, held |-> NoRows]

Init ==
    /\ inbox = NoRows
    /\ post = [p \in Posters |-> IdlePost]
    /\ sweep = IdleSweep
    /\ sync = IdleSync
    /\ nextRow = 1
    /\ seats = [s \in Sessions |-> "fresh"]
    /\ boundary = {}
    /\ sent = {}
    /\ old = {}
    /\ faded = {}
    /\ registered = {}
    /\ cancelled = FALSE
    /\ crashes = 0
    /\ removed = {}

Append(r, e) == inbox' = [inbox EXCEPT ![r] = Fold(@, e)]

\* The file is replaced by the rows that are kept.
Replace(cur, ids) ==
    /\ inbox' = KeepOnly(cur, ids)
    /\ removed' = removed \cup {r \in Rows : Present(inbox[r]) /\ r \notin ids}

\* The adapter call of an attempt.
Reach(r, t) == sent' = IF t.reached THEN sent \cup {<<r, t.session>>} ELSE sent

EnvVars == <<seats, boundary, old, faded, crashes>>

-----------------------------------------------------------------------------
(* post_operator_inbox_entry: append, compact, deliver, record.             *)

\* _post_address: a seat address stays as it is, an owner address is resolved
\* to the current owner, an exact address is kept.
PostAgents(address) ==
    CASE address = "seat" -> {NoSession}
      [] address = "owner" -> IF Occupant(seats) = {} THEN {NoSession} ELSE Occupant(seats)
      [] address = "exact" -> Running(seats)

PostAppend(p, x) ==
    /\ post[p].step = "idle"
    /\ nextRow \in Rows
    /\ x.gated => ~cancelled
    /\ \E agent \in PostAgents(x.address) :
         LET e == CreateEntry(x.kind, x.address # "exact", agent, x.gated, NoCause) IN
         /\ Append(nextRow, e)
         /\ post' = [post EXCEPT ![p] = [IdlePost EXCEPT !.step = "compact", !.row = nextRow,
                                                         !.entry = e]]
    /\ nextRow' = nextRow + 1
    /\ UNCHANGED <<sweep, sync, sent, registered, cancelled, EnvVars, removed>>

\* OperatorInboxStore.compact; a post registers no execution evidence
PostCompact(p) ==
    /\ post[p].step = "compact"
    /\ Replace(inbox, KeepIds(inbox, faded, {}))
    /\ post' = [post EXCEPT ![p].step = "deliver"]
    /\ UNCHANGED <<sweep, sync, nextRow, sent, registered, cancelled, EnvVars>>

PostDeliver(p) ==
    /\ post[p].step = "deliver"
    /\ \E t \in Attempts(post[p].row, post[p].entry, seats, boundary, sent) :
         /\ Reach(post[p].row, t)
         /\ post' = [post EXCEPT ![p] = [@ EXCEPT !.step = "read", !.entry = NoEntry, !.try = t]]
    /\ UNCHANGED <<inbox, sweep, sync, nextRow, registered, cancelled, EnvVars, removed>>

\* record_delivery without a fold of its own reads one; a missing row raises.
PostRead(p) ==
    /\ post[p].step = "read"
    /\ post' = [post EXCEPT ![p] = IF Present(inbox[post[p].row])
                                   THEN [@ EXCEPT !.step = "record", !.entry = inbox[post[p].row]]
                                   ELSE IdlePost]
    /\ UNCHANGED <<inbox, sweep, sync, nextRow, sent, registered, cancelled, EnvVars, removed>>

PostRecord(p) ==
    LET r == post[p].row
        t == post[p].try
    IN
    /\ post[p].step = "record"
    /\ IF LandsFrom(post[p].entry, t)
       THEN inbox' = [inbox EXCEPT ![r] = Land(@, t)]   \* a missing row raises
       ELSE Append(r, Evidence(post[p].entry, t))
    /\ post' = [post EXCEPT ![p] = IdlePost]
    /\ UNCHANGED <<sweep, sync, nextRow, sent, registered, cancelled, EnvVars, removed>>

-----------------------------------------------------------------------------
(* run_agent_notifier_sweep.                                                *)

\* The catalog snapshot and the registration of turn reports.
SweepBegin ==
    /\ sweep.step = "idle"
    /\ \E proofs \in SUBSET {r \in Rows : inbox[r].kind = "turn-report"} :
         registered' = registered \cup proofs
    /\ sweep' = [IdleSweep EXCEPT !.step = "reconcile",
                                  !.gone = {s \in Sessions : seats[s] = "terminated"}]
    /\ UNCHANGED <<inbox, post, sync, nextRow, sent, cancelled, EnvVars, removed>>

\* plan_confirmed_gone_reclamation
ConfirmedGone(cur, gone) ==
    {r \in Rows : /\ Pending(cur[r]) /\ cur[r].kind = "escalation"
                  /\ cur[r].cause # NoCause /\ Subject[cur[r].cause] \in gone}

\* reconcile_and_compact: the file is replaced only when a row is dropped
SweepReconcile ==
    LET gone == ConfirmedGone(inbox, sweep.gone)
        cur == [r \in Rows |-> IF r \in gone THEN [inbox[r] EXCEPT !.state = "ladder-resolved"]
                               ELSE inbox[r]]
        keep == KeepIds(cur, faded, registered)
    IN
    /\ sweep.step = "reconcile"
    /\ IF \E r \in Rows : Present(inbox[r]) /\ r \notin keep
       THEN Replace(cur, keep)
       ELSE UNCHANGED <<inbox, removed>>
    /\ sweep' = [sweep EXCEPT !.step = "evaluate", !.gone = {}, !.held = KeepOnly(cur, keep)]
    /\ UNCHANGED <<post, sync, nextRow, sent, registered, cancelled, EnvVars>>

PendingHeld == {r \in Rows : Pending(sweep.held[r])}

\* A state signal is redelivered by the drain while its target runs.
Redeliverable ==
    {r \in PendingHeld :
        LET e == sweep.held[r] IN
        /\ ~TargetDead(e, seats)
        /\ e.kind = "state-signal" => TargetSession(e, seats) = {}}

\* Whether a replacement occupies the seat of a row with a dead addressee.
Replaced(e) == \E s \in RowOwner(e, seats) : s # e.agent

DeadRows == {r \in PendingHeld : /\ sweep.held[r].kind # "dispatch-brief"
                                 /\ TargetDead(sweep.held[r], seats)}

Drainable ==
    {r \in PendingHeld :
        LET e == sweep.held[r] IN
        /\ ~TargetDead(e, seats)
        /\ TargetSession(e, seats) \cap boundary # {}
        /\ e.attempts > 0 \/ e.kind = "state-signal"}

RowFindings(do, S) == {[do |-> do, row |-> r, cause |-> NoCause] : r \in S}
CauseFindings(kind, C) ==
    {[do |-> IF kind = "escalation" THEN kind ELSE "signal", row |-> 0, cause |-> c] :
        c \in {d \in C : CauseKind[d] = kind}}

\* evaluate_predicates.  Whether a backoff or a grace window has passed, a
\* cause fired, or a boundary is news depends on the clock and the budgets.
SweepEvaluate ==
    /\ sweep.step = "evaluate"
    /\ \E due \in SUBSET Redeliverable, over \in SUBSET {r \in DeadRows : ~Replaced(sweep.held[r])},
          fired \in SUBSET Causes, drain \in SUBSET Drainable :
         LET all == UNION {RowFindings("redeliver", due), CauseFindings("escalation", fired),
                           RowFindings("rebind", {r \in DeadRows : Replaced(sweep.held[r])}),
                           RowFindings("grace", over), RowFindings("ttl", PendingHeld \cap old),
                           CauseFindings("state-signal", fired), RowFindings("drain", drain)}
         IN sweep' = [sweep EXCEPT !.step = "act", !.todo = all]
    /\ UNCHANGED <<inbox, post, sync, nextRow, sent, registered, cancelled, EnvVars, removed>>

\* The finding that is next.
NextUp(f) == f \in sweep.todo /\ \A g \in sweep.todo : FindingOrder[f.do] <= FindingOrder[g.do]

Done(f) == [sweep EXCEPT !.todo = @ \ {f}]

Remember(s, r, e) == [s EXCEPT !.held = [@ EXCEPT ![r] = e]]

\* A finding whose row is no longer pending in the sweep's fold is skipped; so
\* is a signal in its cooldown window or without an owner to route it to.
SkipFinding(f) ==
    /\ sweep.step = "act" /\ NextUp(f)
    /\ f.row \in Rows => ~Pending(sweep.held[f.row])
    /\ sweep' = Done(f)
    /\ UNCHANGED <<inbox, post, sync, nextRow, sent, registered, cancelled, EnvVars, removed>>

\* _redeliver and _drain_boundary
Redeliver(f) ==
    /\ sweep.step = "act" /\ NextUp(f)
    /\ f.do \in {"redeliver", "drain"} /\ Pending(sweep.held[f.row])
    /\ sweep' = [Done(f) EXCEPT !.step = "deliver", !.now = f]
    /\ UNCHANGED <<inbox, post, sync, nextRow, sent, registered, cancelled, EnvVars, removed>>

\* _rebind_due; also for an overdue row whose replacement has appeared
RebindDue(f) ==
    /\ sweep.step = "act" /\ NextUp(f)
    /\ f.do \in {"rebind", "grace"} /\ Pending(sweep.held[f.row])
    /\ \/ /\ f.do = "rebind" /\ ~Replaced(sweep.held[f.row])
          /\ sweep' = Done(f)
          /\ UNCHANGED inbox
       \/ \E s \in RowOwner(sweep.held[f.row], seats) \ {sweep.held[f.row].agent} :
            LET e == RebindEntry(sweep.held[f.row], s) IN
            Append(f.row, e) /\ sweep' = Remember(Done(f), f.row, e)
    /\ UNCHANGED <<post, sync, nextRow, sent, registered, cancelled, EnvVars, removed>>

\* _prepare_expiry; a row without a task address is skipped
PrepareExpiry(f) ==
    LET e == sweep.held[f.row] IN
    /\ sweep.step = "act" /\ NextUp(f)
    /\ f.do = "ttl" \/ (f.do = "grace" /\ ~Replaced(e))
    /\ Pending(e)
    /\ sweep' = [Done(f) EXCEPT !.expiring = IF f.do = "ttl" \/ e.seated THEN @ \cup {f.row} ELSE @]
    /\ UNCHANGED <<inbox, post, sync, nextRow, sent, registered, cancelled, EnvVars, removed>>

\* Mutant: the condition's row is looked for under its current address.
CoalescibleAtAddress(c, owner) ==
    {r \in PendingHeld : sweep.held[r].cause = c /\ sweep.held[r].agent = owner}

\* _find_coalescible: matched on the condition, not on the address
Coalescible(c, owner) == {r \in PendingHeld : sweep.held[r].cause = c}

\* _post_owner_signal: renew the condition's pending row, or post a new one
PostOwnerSignal(f) ==
    /\ sweep.step = "act" /\ NextUp(f)
    /\ f.do \in {"escalation", "signal"}
    /\ \E owner \in PostAgents("owner") :
         LET same == Coalescible(f.cause, owner)
             r == IF same = {} THEN nextRow ELSE CHOOSE q \in same : \A o \in same : q <= o
             e == IF same = {} THEN CreateEntry(CauseKind[f.cause], TRUE, owner, FALSE, f.cause)
                  ELSE RenewEntry(sweep.held[r], owner)
         IN /\ r \in Rows
            /\ Append(r, e)
            /\ nextRow' = IF same = {} THEN nextRow + 1 ELSE nextRow
            /\ sweep' = Remember([Done(f) EXCEPT !.step = "deliver", !.now = [f EXCEPT !.row = r]],
                                 r, e)
    /\ UNCHANGED <<post, sync, sent, registered, cancelled, EnvVars, removed>>

SweepDeliver ==
    /\ sweep.step = "deliver"
    /\ \E t \in Attempts(sweep.now.row, sweep.held[sweep.now.row], seats, boundary, sent) :
         /\ Reach(sweep.now.row, t)
         /\ sweep' = [sweep EXCEPT !.step = "record", !.try = t]
    /\ UNCHANGED <<inbox, post, sync, nextRow, registered, cancelled, EnvVars, removed>>

\* The sweep after a recorded attempt, and the ceiling of _redeliver.
Recorded(r, e) ==
    LET next == [Remember(sweep, r, e) EXCEPT !.try = NoTry] IN
    IF sweep.now.do \in {"redeliver", "drain"} /\ Pending(e) /\ e.attempts >= AttemptLimit
    THEN [next EXCEPT !.step = "unresolve"] ELSE [next EXCEPT !.step = "act", !.now = NoFinding]

\* record_delivery from the sweep's fold; landing a row that is gone raises
\* KeyError, which ends the sweep.
SweepRecord ==
    LET r == sweep.now.row
        landed == Land(inbox[r], sweep.try)
        tried == Evidence(sweep.held[r], sweep.try)
    IN
    /\ sweep.step = "record"
    /\ \/ /\ LandsFrom(sweep.held[r], sweep.try) /\ ~Present(inbox[r])
          /\ sweep' = IdleSweep
          /\ UNCHANGED inbox
       \/ /\ LandsFrom(sweep.held[r], sweep.try) /\ Present(inbox[r])
          /\ inbox' = [inbox EXCEPT ![r] = landed]
          /\ sweep' = Recorded(r, landed)
       \/ /\ ~LandsFrom(sweep.held[r], sweep.try)
          /\ Append(r, tried)
          /\ sweep' = Recorded(r, tried)
    /\ UNCHANGED <<post, sync, nextRow, sent, registered, cancelled, EnvVars, removed>>

\* _mark_unresolved: the one caller that expects a missing row
MarkUnresolved ==
    LET r == sweep.now.row
        e == Mark(inbox[r], "unresolved")
    IN
    /\ sweep.step = "unresolve"
    /\ IF Present(inbox[r])
       THEN /\ inbox' = [inbox EXCEPT ![r] = e]
            /\ sweep' = [Remember(sweep, r, e) EXCEPT !.step = "act", !.now = NoFinding]
       ELSE sweep' = [sweep EXCEPT !.step = "act", !.now = NoFinding] /\ UNCHANGED inbox
    /\ UNCHANGED <<post, sync, nextRow, sent, registered, cancelled, EnvVars, removed>>

ActDone ==
    /\ sweep.step = "act" /\ sweep.todo = {}
    /\ sweep' = [sweep EXCEPT !.step = "expire", !.held = NoRows]
    /\ UNCHANGED <<inbox, post, sync, nextRow, sent, registered, cancelled, EnvVars, removed>>

\* transition_many: one batch under the lock; one missing row fails it all
ExpireBatch ==
    /\ sweep.step = "expire"
    /\ IF \A r \in sweep.expiring : Present(inbox[r])
       THEN /\ inbox' = [r \in Rows |-> IF r \in sweep.expiring THEN Mark(inbox[r], "expired")
                                        ELSE inbox[r]]
            /\ sweep' = [IdleSweep EXCEPT !.step = "beat"]
       ELSE sweep' = IdleSweep /\ UNCHANGED inbox
    /\ UNCHANGED <<post, sync, nextRow, sent, registered, cancelled, EnvVars, removed>>

\* heartbeat_store.tick
Heartbeat ==
    /\ sweep.step = "beat"
    /\ sweep' = IdleSweep
    /\ UNCHANGED <<inbox, post, sync, nextRow, sent, registered, cancelled, EnvVars, removed>>

-----------------------------------------------------------------------------
(* The other writers.                                                       *)

\* _sync_completions: one fold, then one append per finished prompt of s
SyncBegin(s) ==
    /\ sync.todo = {} /\ seats[s] = "running"
    /\ \E finished \in SUBSET {r \in Rows : /\ <<r, s>> \in sent /\ Present(inbox[r])
                                            /\ inbox[r].adapter # "completed"} :
         finished # {} /\ sync' = [todo |-> finished, held |-> KeepOnly(inbox, finished)]
    /\ UNCHANGED <<inbox, post, sweep, nextRow, sent, registered, cancelled, EnvVars, removed>>

SyncComplete(r) ==
    /\ r \in sync.todo
    /\ Append(r, CompleteEntry(sync.held[r]))
    /\ sync' = IF sync.todo = {r} THEN IdleSync
               ELSE [todo |-> sync.todo \ {r}, held |-> [sync.held EXCEPT ![r] = NoEntry]]
    /\ UNCHANGED <<post, sweep, nextRow, sent, registered, cancelled, EnvVars, removed>>

\* OperatorInboxStore.consume
Consume(r) ==
    /\ Pending(inbox[r]) /\ ~inbox[r].consumed
    /\ inbox' = [inbox EXCEPT ![r] = ConsumeEntry(@)]
    /\ UNCHANGED <<post, sweep, sync, nextRow, sent, registered, cancelled, EnvVars, removed>>

\* operator_inbox_supersede
Supersede(r) ==
    /\ Pending(inbox[r])
    /\ inbox' = [inbox EXCEPT ![r] = Mark(@, "superseded")]
    /\ UNCHANGED <<post, sweep, sync, nextRow, sent, registered, cancelled, EnvVars, removed>>

\* A cancelled gate: OperatorInboxStore.delete_by_gate
CancelGate ==
    /\ ~cancelled
    /\ \E x \in Posts : x.gated
    /\ cancelled' = TRUE
    /\ Replace(inbox, {r \in Rows : Present(inbox[r]) /\ ~inbox[r].gated})
    /\ UNCHANGED <<post, sweep, sync, nextRow, sent, registered, EnvVars>>

-----------------------------------------------------------------------------
(* The environment: sessions start, reach turn boundaries and end; time     *)
(* passes; a process dies.  Both retention windows are 48 hours, so no      *)
(* operation is in flight when one elapses.                                 *)

\* A seat has one occupant.
Spawn(s) ==
    /\ seats[s] = "fresh"
    /\ s \in SeatSessions => Occupant(seats) = {}
    /\ seats' = [seats EXCEPT ![s] = "running"]
    /\ UNCHANGED <<inbox, post, sweep, sync, nextRow, boundary, sent, old, faded,
                   registered, cancelled, crashes, removed>>

TurnChange(s) ==
    /\ seats[s] = "running"
    /\ boundary' = IF s \in boundary THEN boundary \ {s} ELSE boundary \cup {s}
    /\ UNCHANGED <<inbox, post, sweep, sync, nextRow, seats, sent, old, faded,
                   registered, cancelled, crashes, removed>>

Terminate(s) ==
    /\ seats[s] = "running"
    /\ seats' = [seats EXCEPT ![s] = "terminated"]
    /\ boundary' = boundary \ {s}
    /\ UNCHANGED <<inbox, post, sweep, sync, nextRow, sent, old, faded,
                   registered, cancelled, crashes, removed>>

Quiet == sweep.step = "idle" /\ sync.todo = {} /\ \A p \in Posters : post[p].step = "idle"

PendingTTL(r) ==
    /\ Quiet /\ Pending(inbox[r]) /\ r \notin old
    /\ old' = old \cup {r}
    /\ UNCHANGED <<inbox, post, sweep, sync, nextRow, seats, boundary, sent, faded,
                   registered, cancelled, crashes, removed>>

MarkerTTL(r) ==
    /\ Quiet /\ Terminal(inbox[r]) /\ r \notin faded
    /\ faded' = faded \cup {r}
    /\ UNCHANGED <<inbox, post, sweep, sync, nextRow, seats, boundary, sent, old,
                   registered, cancelled, crashes, removed>>

\* The dashboard server dies, with its sweep, its synchronizer and the posts
\* it was serving, or an MCP server does, with its posts.
Crash ==
    /\ crashes < MaxCrashes /\ ~Quiet
    /\ \E dead \in SUBSET Posters :
         post' = [p \in Posters |-> IF p \in dead THEN IdlePost ELSE post[p]]
    /\ \/ sweep' = IdleSweep /\ sync' = IdleSync
       \/ UNCHANGED <<sweep, sync>>
    /\ crashes' = crashes + 1
    /\ UNCHANGED <<inbox, nextRow, seats, boundary, sent, old, faded, registered, cancelled,
                   removed>>

PostStep(p) == PostCompact(p) \/ PostDeliver(p) \/ PostRead(p) \/ PostRecord(p)

Act(f) == SkipFinding(f) \/ Redeliver(f) \/ RebindDue(f) \/ PrepareExpiry(f) \/ PostOwnerSignal(f)

SweepStep ==
    \/ SweepReconcile \/ SweepEvaluate
    \/ \E f \in sweep.todo : Act(f)
    \/ SweepDeliver \/ SweepRecord \/ MarkUnresolved
    \/ ActDone \/ ExpireBatch \/ Heartbeat

Tools == \/ \E r \in Rows : Consume(r) \/ Supersede(r)
         \/ CancelGate

Environment ==
    \/ \E s \in Sessions : Spawn(s) \/ TurnChange(s) \/ Terminate(s)
    \/ \E r \in Rows : PendingTTL(r) \/ MarkerTTL(r)
    \/ Crash

Next ==
    \/ \E p \in Posters : (\E x \in Posts : PostAppend(p, x)) \/ PostStep(p)
    \/ SweepBegin \/ SweepStep
    \/ \E s \in Sessions : SyncBegin(s)
    \/ \E r \in Rows : SyncComplete(r)
    \/ Tools
    \/ Environment

Spec == Init /\ [][Next]_vars

\* The notifier loop sweeps again and again, a thread that runs goes on
\* running, and time passes between operations.
FairSpec ==
    /\ Spec
    /\ WF_vars(SweepBegin) /\ WF_vars(SweepStep)
    /\ \A p \in Posters : WF_vars(PostStep(p))
    /\ WF_vars(\E r \in Rows : SyncComplete(r))
    /\ \A r \in Rows : SF_vars(PendingTTL(r))

-----------------------------------------------------------------------------
(* Properties.                                                              *)

\* Every variable has its type.
TypeOK ==
    /\ inbox \in [Rows -> Entry]
    /\ post \in [Posters -> PostOps]
    /\ sweep \in SweepOps
    /\ sync \in [todo : SUBSET Rows, held : [Rows -> Entry]]
    /\ nextRow \in 1..(MaxRows + 1)
    /\ seats \in [Sessions -> {"fresh", "running", "terminated"}]
    /\ boundary \subseteq Sessions
    /\ sent \subseteq (Rows \X Sessions)
    /\ old \subseteq Rows /\ faded \subseteq Rows /\ registered \subseteq Rows
    /\ cancelled \in BOOLEAN
    /\ crashes \in 0..MaxCrashes
    /\ removed \subseteq Rows

\* Terminal states are not interchangeable: a row that landed, was superseded,
\* expired or stayed unresolved keeps that state, whatever deliveries, rebinds
\* and completions were computed from older copies, until it is physically
\* removed (OperatorInboxStore.transition: "a stale terminal write must not
\* overwrite a different terminal truth").
TerminalIsFinal ==
    [][\A r \in Rows \ removed :
         Terminal(inbox[r]) /\ Present(inbox'[r]) => inbox'[r].state = inbox[r].state]_vars

\* A row lands only after some session's adapter got its prompt: a queued,
\* ambiguous or refused answer is never a landing, and no stale copy makes it
\* one (operator_inbox_records.state_signal_landed).
LandedWasSent ==
    \A r \in Rows : inbox[r].state = "landed" => \E s \in Sessions : <<r, s>> \in sent

\* One row per root cause: a condition that fires again while its row is
\* pending renews that row, also after the row was readdressed or rebound
\* (owner_signals._post_owner_signal).
OneRowPerCause ==
    \A q, r \in Rows \ removed : Pending(inbox[q]) /\ Pending(inbox[r]) /\ inbox[q].cause # NoCause
        /\ inbox[q].cause = inbox[r].cause => q = r

\* A task-bound turn report is not dropped by age or by the cap before its
\* task holds proof of it (compact: "only after task-bound turn reports have
\* durable task proof").
ReportsAwaitProof ==
    [][\A r \in Rows : inbox[r].kind = "turn-report" /\ Present(inbox[r]) /\ ~inbox[r].gated
         /\ r \notin registered => Present(inbox'[r])]_vars

\* Over the cap, a pending row is dropped only when no terminal marker that
\* could be dropped instead is kept (inbox_keep_ids: "pending rows survive
\* before terminal markers").  The escalations of a session that is confirmed
\* gone are resolved and dropped by the sweep, whatever the cap.
PendingOutlivesMarkers ==
    [][(\E r \in Rows \ ConfirmedGone(inbox, sweep.gone) :
            Pending(inbox[r]) /\ ~Present(inbox'[r])) /\ cancelled' = cancelled =>
         \A r \in Rows : Terminal(inbox'[r]) => inbox[r].kind = "turn-report"]_vars

\* Every pending row is resolved in the end: it lands, is superseded, hits the
\* attempt ceiling, or expires at the retention boundary at the latest.
EveryRowResolves == \A r \in Rows : Pending(inbox[r]) ~> ~Pending(inbox[r])

=============================================================================
