# agents-remember: TLA+ specifications

agents-remember lets coding agents work on a repository under the control of a
developer. It is one Python package (`src/mcp/src/agents_remember`, some 240 000
lines) that runs as several processes over one set of files: an MCP server per
agent session, one dashboard server with its background loops, and detached
lifecycle workers. They coordinate through append-only JSON-lines logs, catalogs
and git references; there is no database and no broker. What is hard in it is
therefore what happens when two of these processes read and write the same log.

Paths below are relative to `src/mcp/src/agents_remember/`.

## 1. Inventory

### Control plane

| Component | State | Operations | What makes it correct |
|---|---|---|---|
| Gate authority (`controlplane/store.py`, `records.py`, `enforcement.py`, `gate_policy.py`, `application/gate_tools.py`) | one append-only log of gate snapshots per lifecycle, read through a last-wins fold | raise (expires what is open), wait, decide (dashboard, agent tool, structural seat), claim, cancel, reclaim | an approval is spent once; it comes from somebody who may give it; history is dropped without changing a verdict |
| Operator inbox (`controlplane/operator_inbox_*.py`) | one log of message rows, folded so that a pending snapshot cannot reverse a terminal one | append, transition, consume, supersede, delete by gate, compact, reconcile | a terminal outcome is final; nothing is lost silently at the cap |
| Expectation rows (`controlplane/expectation_rows.py`) | rows that promise an answer by some time | write with a gate or a dispatch, meet, mark overdue | a met promise is not reported overdue |
| Closeout queue (`controlplane/closeout_queue_*.py`) | queued closeouts of a repository | enqueue, claim, finish, requeue | one closeout at a time, none forgotten |
| Durable stores and lock (`controlplane/durable_store.py`, `kernel/file_lock.py`) | the files and their lock files | append, rewrite by atomic rename, lock across processes and threads | a section under the lock is atomic; a reader never sees half a rewrite |
| Seats and dispatch (`controlplane/seats.py`, `application/structural/`, `serving/structural_dispatch.py`) | which session occupies which role of which task; one lock per seat | dispatch, brief, reconcile, roll back | one occupant per seat; a briefed generation is not retired |

### Serving

| Component | State | Operations | What makes it correct |
|---|---|---|---|
| Inbox delivery (`serving/inbox_delivery.py`, `operator_inbox_posts.py`) | none of its own: it records attempts on inbox rows | resolve an address, refuse, submit, reconcile, redeliver | a row counts as landed only if the addressee got it; a prompt is not submitted twice |
| Agent notifier (`serving/agent_notifier.py`, `_agent_notifier_*.py`, `owner_signals.py`) | cooldowns, budgets and episodes; a heartbeat | a periodic sweep: snapshot, reconcile, evaluate, act, expire, tick | every row is resolved in the end; one row per root cause; the heartbeat tells that sweeps run |
| Hosted interactions (`serving/hosted_interactions.py`) | vendor questions projected to gates | project, answer with bounded retries, record completions | an answer reaches the vendor at most once |
| Submission authority and ledger (`serving/harness_submission_*.py`, `harness_control_bridge.py`) | a timeline of operations, a bounded ledger of rows by request id, one active operation | submit, withdraw, reconcile, resolve, respond; one dispatcher task | operations reach the vendor once and in order; what is withdrawn is not sent; nothing overtakes an operation in doubt |
| Harness adapters (`serving/claude_*`, `codex_*`) | protocol state of a vendor process | translate prompts, questions and turns | - |
| Terminal catalog and liveness (`serving/terminal_*`) | the sessions and their state | open, observe, attach, land, retire; batches under a catalog lock | a batch does not overwrite what others wrote meanwhile |
| Conversation control, application (`serving/conversation`, `serving/app.py`) | transcripts; the background loops | paging, HTTP | - |

### Worktrees, tasks and the rest

| Component | State | Operations | What makes it correct |
|---|---|---|---|
| Lifecycle operations (`worktrees/integration/lifecycle`) | a store of operations, one worker per operation | admit, run detached, recover, retry under the same key | an operation takes effect once across retries |
| Integration (`worktrees/integration`) | git refs of a series of repositories | land a series atomically, recover after a crash | all refs move, or none |
| Sync transaction (`worktrees/sync_transaction*.py`) | a journal, pinned git refs, parked work, the bases in the contract | admit, merge, continue after a conflict, cancel, recover | branches and bases move together or not at all; no commit and no edit of the agent is lost |
| Activation and series closeout (`worktrees/activation`, `series_closeout.py`) | activated leaves | activate in order, close | - |
| Tasks (`tasks/`) | task documents, written by compare and swap | create, update, register evidence | no update is lost |
| Observer (`observer/`) | event logs and projections | append, reduce, retain | projections agree with the log |
| Providers, memory, certification, kernel, models, MCP registration, dashboard client | see PROJECT.json | | text processing, external processes, settings and user interface |

### How they interact

- A **lifecycle** raises a gate through its MCP server; the decision arrives from
  the dashboard, from the agent's own tool, or from a structural seat
  (a manager, an orchestrator) in another session. The closeout or the
  integration that needs the approval folds the same log in yet another process.
- Gates, escalations, reports and dispatch briefs reach people and agents as
  **inbox rows**. A post appends the row, compacts the log, tries a delivery and
  records it; the notifier's sweep in the dashboard process redelivers, rebinds,
  escalates and expires; adapter completions are written back by a third thread.
  Cancelling a gate deletes its rows.
- Nobody holds a lock across a read and the append that is derived from it,
  except where the code says so (`claim_approval`, `transition`, `consume`,
  `compact`, the deletions). Everything else is **read without the lock, compute,
  append**: the copy may be stale by the time it is written.

### What is hard here

Stale copies written over newer snapshots; one section of several under the lock
and the others not; a process that dies between an append and the follow-up that
completes it; time stamps that tie; retention that drops the record another
decision depends on; lost answers of adapters; sessions replaced while a row is on
its way; queues at their cap; a sweep that has to go on whatever it meets.
PROJECT.json lists these as `hazards`, each at its line, with the properties below
that would catch it.

## 2. Modules

| Module | Models |
|---|---|
| `GateAuthority` | the gate log of one lifecycle and every operation on it |
| `GateAuthorityProofs` | its theorems |
| `MCGateAuthority` + `GateAuthority_*.cfg` | its instances for TLC |
| `InboxRecords` | an inbox row, its transitions, the fold and the retention rules |
| `InboxDelivery` | one delivery attempt: the target session and what it may report |
| `OperatorInbox` | the inbox log with all its writers: posts, sweep, completions, tools |
| `InboxProofs` | its theorems |
| `MCOperatorInbox` + `OperatorInbox_*.cfg` | its instances for TLC |
| `HostedInteractions` + `HostedInteractions_relay.cfg` | a vendor's question, its gate, the sweep that carries the answer, the bridge |
| `InteractionProofs` | its theorems |
| `SubmissionAuthority` | the prompt queue of a hosted session, its ledger, dispatcher and event loop |
| `SubmissionProofs` | its theorems |
| `MCSubmissionAuthority` + `SubmissionAuthority_*.cfg` | its instances for TLC |
| `SyncTransaction` + `SyncTransaction_*.cfg` | the source synchronization of one leaf, with crashes |
| `MCSyncTransaction` | its constraints for TLC |
| `SyncAtomic` | what a synchronization promises: the abstract specification that `SyncTransaction` implements |
| `SyncProofs`, `SyncRefinement` | its theorems; the proof that it implements `SyncAtomic` |
| `SeatDispatch` | one role seat: dispatch, catalog, liveness sweep, dashboard and stamps |
| `SeatProofs` | its theorems |
| `MCSeatDispatch` + `SeatDispatch_seat.cfg` | its instance for TLC |

`OperatorInbox` extends `InboxDelivery`, which extends `InboxRecords`. Each mutated
definition stands just before the definition it distorts, with a comment "Mutant".

### GateAuthority

`gates` is the last-wins fold of the log; nothing reads the log otherwise. `rows` is the
verdict-by expectation row of each gate. `op[a]` is what actor `a` (a session's MCP
server, a dashboard request, a worker) is doing and the copies it has read. A step is
either one section under the log's lock or one unlocked read.

| Action | Code |
|---|---|
| `GateCreate`, `CreateRead`, `CreateExpire`, `CreateOpen`, `WriteVerdictByRow`, `GateResponseWait` | `lifecycle_gate`/`gate_create`: take `now`, read the open gates, append their expiry one by one, append the new gate, write its row, wait |
| `DecideLatestGate`/`ChooseLatest`, `DecideStructural`/`Stamp`, `DecideAddressedGate` | the surfaces that decide, in the order in which each reads and takes its stamp |
| `DecideTarget`, `DecideAppend`, `GateDelete`, `MeetVerdictExpectation`, `ReclaimGateLog` | `record_gate_decision`: read again, check the policy, append, delete a cancelled gate, meet the row, compact |
| `CloseoutBegin`, `Stamp`, `ClaimApproval` | the unlocked check of a closeout, then `GateStore.claim_approval` |
| `HandoverIntegrate` | the guard of an integration over the handover gates |
| `Crash`, `TimePasses` | a process dies between two steps; a retention TTL passes |

Modelling decisions:

- One lifecycle has one log, and logs do not interact, so one is modelled. The policy is a
  constant: it is read from settings that no operation here writes.
- Stamps are distinct, except that a create uses one `now` for what it expires and
  what it opens, as the code does. A TTL passes by moving `horizon` up to the clock.
- `decidedAt` (the stamp) identifies a decision, so "this approval" means the same
  thing in `decisions`, in the fold and in `acts`.
- An actor "model" is the agent deciding its own gate through the builder
  `gate_decide`; the surface is kept for compatibility and is modelled because the policy check
  guards against it.
- A wait that ends while the gate is open stands for an operator's chat entry and for
  a timeout. Deleting the inbox rows of a cancelled gate belongs to `OperatorInbox`.
- Every gate of a seam kind carries the enclosure that the integration looks for.
- `decisions` and `acts` are histories; no guard reads them.

### OperatorInbox

`inbox` is the fold of the log. `post[p]`, `sweep` and `sync` are the operations in
flight, each with the copies it works from. `seats` and `boundary` are what the
catalog says about the sessions; `sent` is what adapters have really received.

| Action | Code |
|---|---|
| `PostAppend`, `PostCompact`, `PostDeliver`, `PostRead`, `PostRecord` | `post_operator_inbox_entry` |
| `SweepBegin`, `SweepReconcile`, `SweepEvaluate` | `run_agent_notifier_sweep` up to its findings |
| `SkipFinding`, `Redeliver`, `RebindDue`, `PrepareExpiry`, `PostOwnerSignal` | one finding, in the order of the code (`FindingOrder`) |
| `SweepDeliver`, `SweepRecord`, `MarkUnresolved` | an attempt of the sweep, its record, the attempt ceiling |
| `ActDone`, `ExpireBatch`, `Heartbeat` | the end of a sweep |
| `SyncBegin`, `SyncComplete` | `_sync_completions` of hosted interactions |
| `Consume`, `Supersede`, `CancelGate` | the tools, and `delete_by_gate` |
| `Spawn`, `TurnChange`, `Terminate`, `PendingTTL`, `MarkerTTL`, `Crash` | the environment |

Modelling decisions:

- One seat stands for the hierarchy of owners. It has one occupant at a time; that the
  dispatcher guarantees this is the subject of `SeatDispatch`.
- Which causes fire, backoffs, cooldowns and budgets depend on clocks: every subset
  that the other conditions allow may be found by a sweep.
- The attempt count is compared with zero and with the ceiling only, so it stops at the
  ceiling (`CountAttempt`): no behaviour is lost.
- Row ids are in the order of creation, which is the order the cap uses.
- Both windows are 48 hours while an operation takes seconds, so windows elapse only
  between operations (`Quiet`).
- A crash takes the dashboard server (sweep, synchronizer and the posts it serves), or an MCP
  server with its posts.
- Left out: the conversion of rows of older versions, the readdressing of an expired
  marker to the architect's mailbox, expectation rows of dispatch briefs.

### HostedInteractions

`gates` is the fold of the agent-question gates. `deciders[p]` and `sweep` hold the copy of the
gate that each of them has read; `pending`, `responded`, `calls` and `connected` are the state of
the bridge, which runs in another process and survives the server; `taken` is what the vendor
really received. `offers`, `unrecorded` and `crashes` are histories.

| Action | Code |
|---|---|
| `ReadsGate`, `AppendsDecision`, `DeletesGate`, `ReclaimsLog` | `record_gate_decision`: read without the lock, append, delete a cancelled gate, compact where the process owns compaction |
| `Sees`, `FoldsNoQuestion`, `FoldsQuestion` | one tick of the sweep: the snapshot of the session, then the fold of the log, and what follows from the pair |
| `Expires`, `Creates`, `ReopensUnspeakable` | `_sync_interaction`: the gate of a question that is gone, the mirror gate, a decision that no vendor answer can express |
| `OfferUnsent`, `OfferRefused`, `OfferAdmitted`, `GivesUp` | `respond_control_interaction`: not sent for certain, refused by the authority, admitted, exchange timeout |
| `Applies`, `HandsBack`, `KeepsOrReopens` | `apply_gate`; `_record_delivery_failure` |
| `AnswersDirectly`, `Writes`, `Returns`, `Refuses`, `Breaks` | `HarnessSubmissionAuthority.respond`, from the sweep and from the cockpit |
| `Asks`, `TurnEnds`, `Crash` | the vendor; the serving process dies |

Decisions are numbered, so the attribution of a failure to "this decision" (`decidedAt` in the code) is
exact. Retention by age (24 hours) and the refusals of the delegation policy, which `GateAuthority`
has, are left out.

### SubmissionAuthority

Everything happens on one event loop: a critical section does not await, so it is one action, and
every await (preflight, operation call, reconcile call) is a place where anything may happen.
`rows`, `order` and `timeline` are the ledger and its queue, `active` the operation at the adapter,
`pc` and `chosen` the dispatcher task, `wake` its event. `wire` is the sequence of operations whose
bytes reached the vendor; `recalled`, `givenUp`, `over` and `mixed` are histories.

| Action | Code |
|---|---|
| `Submit`, `Resubmit`, `SubmitUnsupported`, `AdmitSetter` | `submit` and `_admit_setter`, with the ledger's `make_room` |
| `Withdraw`, `Resolve`, `AskReconcile`, `ApplyReconcile`, `Stop` | the other calls; reconcile awaits the adapter between reading and applying |
| `Woken`, `Look`, `PreflightDeclines`, `PreflightRaises`, `PreflightClaimsSend`, `PreflightPasses` | `_run_dispatcher`, `_dispatch_one` up to the claim of the head |
| `AdapterWrites`, `CallBusy`, `CallFails`, `CallOrphaned`, `CallUnknown`, `CallAccepted`, `CallTerminal` | the operation call and each of its ends |
| `Reports`, `Completed`, `StreamEnds` | the bridge's `_run_events` and `observe_event` |

Trusted of an adapter is what its protocol makes it certify: busy means that nothing was sent, and
rejected that the vendor will not run it. One bridge epoch is modelled: a restart begins with an empty ledger.

### SyncTransaction

One step is one durable effect, a git command, a ref, a journal write or a contract write, with the
reads that decide it; `Crash` may fall between any two. A commit is abstracted to the agent's
commits in it (`own`), the source version in it (`at`) and the one in its first parent (`was`),
which is what the code's ancestry checks tell apart.

| Action | Code |
|---|---|
| `CallAdmits`, `CallFindsTerminal`, `CallResumes`, `CallCancels`, `CallContinuesMerge`, `CallContinuesReapply` | what a call finds in the journal, in the order of `sync_contract_under_authority` |
| `CallQuarantines`, `CallRecovers`, `CallRecoversPartly`, `DeletePartial` | an unreadable or missing journal, rebuilt from the refs |
| `ParkWip`, `ParkFails`, `PinRef`, `PublishRecord` | admission: stash, pin the refs one by one, write the journal |
| `RunUnmoved`, `AdoptMerged`, `StartMerge`, `FinishMemoryMerge`, `RetainMerge`, `RunRefused` | `_run_automatic` on one side |
| `CarryUnparked`, `ReapplyWip`, `RetainReapply`, `DropStash`, `RecordRestored`, `AdvanceRestored` | the return of parked work |
| `WriteContract`, `PublishCompleted`, `FinalizeRefused`, `DeleteAuthority` | `finalize_sync`, and the idempotent removal of the refs |
| `DiscardReturned`, `DiscardReapply`, `RollbackSide`, `RollbackRefused`, `RestoreCancelled`, `PublishCancelled` | `cancel_sync` |
| `Agent...`, `SourceMoves`, `DamageJournal` | the agent between calls (edit, commit, discard, resolve, end a merge), the source branches, a damaged file |

`SyncAtomic` has a branch and a base per side and two actions: the agent commits, or a sync moves every
side that is not skipped together with its base. The refinement mapping shows the head of a side as its
pinned pre-sync head while a transaction is open (`Open`), so a merge that is later rolled back
is invisible, and a completed one takes effect in the step that publishes the terminal record "completed".

### SeatDispatch

`rows` is the catalog file, `batch` the buffer of whoever is inside `TerminalCatalog.batch` and
`catalogLock` its holder; `seatLock` is the structural lock of the seat. A generation is a session
spawned for the seat; `panes` are the tmux sessions that exist, `briefs` what the inbox holds for each
generation. `calls[a]` is where a caller (an MCP process that dispatches) or the operator (a request to
the dashboard) is, with the row it has read. `stamp` is a row read by a `get` that will be written back.

| Action | Code |
|---|---|
| `Dispatch`, `Return`, `Retry` | `execute_serialized_dispatch`, `execute_dispatch_transaction`: the seat's lock from the first to the last step, one second spawn |
| `SpawnRefused`, `FindAmbiguous`, `FindSeatTaken`, `BeginOpen`, `CreatePane`, `CommitOpen`, `OpenFails` | `open_terminal_session`: one batch that finds the owner, marks a dead one, creates the tmux session and writes the row |
| `Post`, `PostRefused`, `Bind` | the brief and its receipt |
| `ReadOccupant`, `EvidenceRefused`, `Weigh`, `Repair` | `_reconcile_existing_dispatch`: the row, then the inbox, then what the pair means |
| `ReadGeneration`, `StopControl`, `KillPane`, `MarkClosed`, `MarkFails` | `_retire_unbriefed_child`, `retire_entry`, and the operator's terminate and retire |
| `RequestOpen`, `RequestClose`, `Land`, `AttachProbe`, `AttachClient`, `MarkAttached`, `ClientEnds` | routes of the dashboard, and completion |
| `StampRead`, `StampWrite` | `serving/seat_turn_truth.py` and the deferred interaction sync: `get`, then `upsert` of the whole row |
| `SweepStart`, `SweepLook`, `SweepCommit`, `Compact` | `TerminalCatalogLivenessSweeper.refresh` |
| `PaneExits`, `BriefMoves`, `BriefReturns`, `Crash`, `ServerDies` | the environment (a brief fails, is reclaimed, is put back by a stale delivery record); a process that dies drops its locks and its buffer |

Modelling decisions:

- The count of failed probes is reset when a row stops running; the code resets it before it is
  read again. That a probe's minimum window has passed is a choice.
- `dispatched` (`spawned_by_kind`) is written once with the row and never rewritten, so it is kept beside the rows.
- A read takes no file lock and sees the last commit; a read by a thread of the server waits for the instance lock of
  a batch of its own process (`DaemonReads`).
- The dashboard serves one modelled request at a time. Requests, stamps, failed tmux commands and deaths share the
  budget `MaxFaults`.
- Left out: staged heirs, moves of a session to another task, opening an existing session id again, the
  projection of control state onto a row, and why admission or a structural parent refuses (a refusal is
  possible at the points where the code may refuse).

## 3. Runs

Each run is one question. Deadlock is checked in `seat_dispatch` alone; elsewhere a server with nothing
to do, or at the bound of its ids and stamps, may stop. The bounds are named in the constants of the modules.

### Gates

| Run | Bounds | Shows |
|---|---|---|
| `gate_concurrent` | closeout and handover gates, 2 gates, 4 stamps, 2 operations at a time, an inline closeout and a worker with its operation key, crashes anywhere; the developer approves or cancels, a peer approves without evidence, the owner with it; a handover asks for evidence | `SpentOnce`, `ActsAreAuthorised`, `RecoveryOwnsSpend`, `SpentVerdictSurvivesReclaim` under every interleaving of two operations; 2 million states |
| `gate_marker` (a violation) | closeout and handover gates, 2 gates, 2 interchangeable sessions that decide for each other, 6 stamps, 2 operations at a time | `SpentMarkerGoverns` fails: a create reads the first gate as open; a peer approves it and a closeout claims it; the create appends its expiry over the applied marker and opens its own gate; the reclaim of the next decision drops the expired one; a closeout now finds no gate of its kind and passes as gateless |

Two gates of one kind are the least for a fold to choose between an old and a new one;
two operations at a time are the least for a stale append; four stamps allow raise,
decide, claim and a retry or a second decision, six allow a second round. A retention
window is days and an operation takes seconds, so no window passes inside an operation of `gate_concurrent` unless it
waits (`WithinRetention`); between operations one may pass at any point. The theorems below lift these bounds for
the properties of the passing run. The violation refutes what the code says of itself: that the marker of a spent
approval is retained and that a reclaim drops "history, never authority" (`controlplane/interaction_retention.py:98`).

### Inbox

| Run | Bounds | Shows |
|---|---|---|
| `inbox_handover` | 2 sessions of a seat, 1 row: a message to the owner or to one session, a brief or a state signal | `LandedWasSent`, `TerminalIsFinal` |
| `inbox_causes` | 2 rows, an escalation that fires again and again, 1 session that comes and goes | `OneRowPerCause` |
| `inbox_cap` | 3 rows (messages tied to a gate, turn reports), a cap of 1, a crash | `ReportsAwaitProof`, `PendingOutlivesMarkers` |
| `inbox_resolve` | 1 row, 1 session, fairness | `EveryRowResolves` |

A second row matters only where rows compete (`causes`, `cap`) and a second session
only where one replaces another (`handover`, where the two are interchangeable, hence the
symmetry), so each run has what its question needs. The attempt ceiling is 1 in the passing
runs: the first failed attempt reaches it.
`FewAsides` bounds how many side events (elapsed windows, consumed rows, completions,
crashes) one state may contain; each of them still happens, at any point. In `inbox_causes`
superseded rows count too (`FewInterventions`). `inbox_resolve` has no such
constraint, which would be unsound for liveness.

Fairness of `inbox_resolve`: the notifier loop starts a sweep again and again
(`serving/_app_lifespan.py`), a thread that runs goes on running (weak fairness of its steps), and a
row that stays pending passes its retention window at some time (strong fairness of
`PendingTTL`, since time passes only between operations). Nothing is assumed of
sessions, adapters, posts or tools.

### Hosted interactions

| Run | Bounds | Shows |
|---|---|---|
| `interaction_relay` | a dashboard and an MCP server that decide (the latter compacts), 1 question, 2 decisions, 2 gates, 2 attempts per decision, 1 crash; 900 000 states | `AnsweredOnce`, `AppliedWasTaken`, `NotSentIsTrue`, `OffersBounded`, and `DecisionServed` under fairness |

Two decisions are the least for one to be written over the other or to follow a hand-back, two gates
for a mirror opened anew, two attempts (three in the code) for a retry that is followed by the
last one. Fairness is weak fairness of the sweep alone: the liveness loop ticks again and again, and the exchange
with the bridge has a timeout. Nothing is assumed of deciders, bridge or vendor.

### Submission

| Run | Bounds | Shows |
|---|---|---|
| `submission_order` | 2 request ids, 4 operations with 1 setter, timeline and ledger of 2, an adapter whose preflight may send and may raise an unexpected error; interchangeable ids; one side event per state (`FewAsides`) | `WireInOrder`, `RecalledNeverSent`, `UnfinishedIsPinned`, `CallKeepsDispatch` |
| `submission_live` | 2 operations, fairness, no constraint, an adapter whose preflight raises only what the dispatcher catches | `QueueMoves`, `WithdrawnIsFinal`. `QueueMoves` does not hold of an adapter whose preflight raises an unexpected error (`PreflightBreaks`): see the known deviations |

`CallKeepsDispatch` is what the results of an operation call rely on: while the call is out, no withdrawal,
resolution or completion takes its operation from the dispatcher (an answer of reconcile that meets another operation
excepted), so no result finds another one in its place.

A ledger of two with four operations evicts rows and lets a request id come back. Fairness of
`submission_live`: the event loop runs its tasks; an operation call returns, its waits being
bounded; the vendor ends a turn it accepted; an adapter that declined reports when it is ready, which
the code relies on too. Strong fairness of the look at a ready head and of its claim stands for the fact that
these steps do not await and so are not interleaved. No fairness is assumed of
callers, operators or completions that were given up.

### Sync

| Run | Bounds | Shows |
|---|---|---|
| `sync_crash` | 1 source version, 1 commit and 1 edit of the agent per side, 2 transactions, 2 crashes, a damaged journal; crashes and damage at most 2 together (`FewFaults`), and behaviours with a second transaction have no damage, no edit and at most 1 crash (`SecondIsPlain`) | `AuthorityPinned`, `ParkedWorkKept`, `TerminalReturnsWork`, `OwnCommitsKept`, `SyncLogChains` over two generations, and `AllOrNothing`: it implements `SyncAtomic` until the record of an ended sync is damaged beside the refs it left |
| `sync_residue` (a violation) | 2 source versions, 2 transactions, 1 crash, no edits | `ResidueIsOwn` fails: see the finding in PROJECT.json |

Two crashes are the least for a crash in the recovery from a crash. `sync_residue` refutes a comment
of the code: the next generation pins its refs, under the same names, before it writes its journal. A crash in
between leaves the old terminal record beside refs that are not its own; every later call begins with
the cleanup of that record, which finds the refs changed and raises.

### Seats

| Run | Bounds | Shows |
|---|---|---|
| `seat_dispatch` | 2 interchangeable callers, 2 generations, threshold 1, one fault (a request, a stamp, a failed command, a reclaimed brief that comes back or a death, at any point); 2.4 million states | `OneOccupant`, `RollbackSparesBriefed`, `BatchLosesNothing`; no deadlock between the seat's lock, the catalog's lock and the batches |

Two generations are the least for a second occupant, two callers the least for a contended seat. Sweeps, ending
sessions, failing and reclaimed briefs cost no fault and happen at any time. The theorems below hold without these
bounds. That a dead session is noticed and that a dispatch ends were not checked: without the
bounds that make a liveness check unsound the graph is beyond TLC.

### Known deviations

What the code does where a reader might expect otherwise. The models do it too, and the properties of the passing runs
are worded so that they say what does hold; where a property excepts a case, its comment says so. Two of them
refute a comment of the source by a violation run; the others are described here. What the models leave out is named in section 2, in section 5
and in the notes of PROJECT.json.

Gates. Raising a gate expires open gates of every kind, and a reclaim drops them, so a kind whose only
gate was expired by a gate of another kind is permitted as gateless. A create that read a gate open appends its
expiry over the applied marker (`gate_marker`), and a decision that falls between a gate and its expectation row leaves
the row pending for a gate that is decided, although `application/gate_tools.py:121` says that a gate open
"atomically writes" its row. The agent's own tool
decides a gate by its id whatever its state, so it may write a decision over an applied marker; that
decision ages out like any other, and the kind is gateless again. A wait deletes
a refused handover gate, and the integration proceeds as gateless.

Inbox. A row that one occupant of a seat accepted lands at its replacement, which never got the
prompt. A delivery record of an older copy puts a deleted row back (`TerminalIsFinal` and `OneRowPerCause`
speak of rows that were never removed), and erases `consumedAt`, although
`controlplane/operator_inbox_store.py:8` calls a consume that won the lock terminal. A row
deleted under a sweep makes the sweep raise, and it ends without its heartbeat.

Hosted interactions. After a crash in the middle of an offer, a later attempt that is certified unsent is
reported as not sent although the first one arrived. The sweep's append puts a cancelled gate back; a
cancel that the sweep sees before the deletion is delivered to the vendor as an answer; a second decision may be
overwritten by the sweep's record of the first; a stale append can leave two gates for one question, of which the
sweep serves the first.

Submission. After a preflight that claims it may have sent, the withdrawal is not checked
again (`harness_submission_authority.py:661`). A completion after an operator's resolution fails the
bridge. A preflight error that is neither busy nor disconnected ends the dispatcher task, which
nothing restarts, while the session reports ready and admits prompts (`PreflightRaises`, an action of
`submission_order`); Pi's and Claude's preflights can raise one. A reconcile that says "accepted" after
the turn was over pins the head until an operator resolves it, and its answer is applied by key, so it may
meet a later operation under that key: an operation that is resolved, evicted and submitted again under its id is
released by the late answer "rejected" for the first one, while the vendor works on the second (the properties except
such behaviours by `mixed`). A request id whose row was evicted is a new operation.

Sync. A crash between stash and journal leaves the candidate on the stash stack without a record that names
it. A cancellation after the contract was written stays cancelling. A crash between the reapplication of parked
work and its record leaves a dirty worktree, on which resume and cancel refuse until the agent settles it. The damaged record of
an ended sync whose refs are still there is taken for that of an open one: a completed sync is rolled back, and the
cancellation is then refused for ever on the moved bases (`AllOrNothing` ends there). Nothing
in the source keeps two calls of one worktree apart, although the store's docstring assumes a lock.

Seats. A stamp that was read before a row was retired writes it back as running (`terminal_catalog.py:196` says that a
terminated row is never resurrected) and may erase a receipt that was bound meanwhile. An attach that races a terminate creates the
session anew (`new-session -A`) and marks the row running. `task_binding_conflict_owner` takes a failed tmux command for an
empty seat; the owner it gave up is healed by a later sweep and runs beside its successor, after which every dispatch is
refused as ambiguous (`OneOccupant` excepts generations that came back). A failed brief that was reclaimed while
its receipt stays is answered as queued. A brief that was settled and reclaimed before its receipt was bound lets a
later dispatch retire its generation, also when a stale delivery record has put it back (`RollbackSparesBriefed` excepts it). A crash between `host.ensure` and the commit leaves a session without a row.

## 4. Proofs

`GateAuthorityProofs` proves, for every set of actors, kinds and keys, every policy and every
bound (assumption `GateConstants`), crashes included:

- `TypeCorrect`: `Spec => []TypeOK`
- `ApprovalSpentOnce`: `Spec => []SpentOnce`
- `MutationsAuthorised`: `Spec => []ActsAreAuthorised`
- `RecoveryIsOwn`: `Spec => []RecoveryOwnsSpend`
- `SpentMarkersSurviveReclaim`: `Spec => SpentVerdictSurvivesReclaim`

None of the first four is inductive by itself. The inductive invariant is `IInv`, a conjunction of

- `TypeInv`: `TypeOK` and what each step of an operation already holds (`OpFits`);
- `StampInv`: the stamps of decisions in the fold and of spent approvals lie below the clock, an
  open gate is undecided, a decision that is still to be appended has a stamp that no
  other one, no gate and no spent approval carries, and a create that is expiring
  gates holds undecided ones only;
- `LogInv`: what the fold says `approved` is a decision on record that nobody spent, and
  what it says `applied` is a spend on record, with its operation key;
- `Authority`: the safety properties themselves.

The argument: an approval becomes spendable only when `DecideAppend` writes a stamp
that was fresh when it was taken; the claim replaces it by `applied` in the same
section; and no stale copy can bring it back, because a create holds open (undecided)
gates only, and a decision overwrites the attribution of its copy with its own stamp.
Hence `approved` in the fold implies unspent. Steps that neither decide nor claim are
handled once, by the lemma `QuietKeeps`; `DecideAppend`, `ClaimApproval` and
`HandoverIntegrate` have lemmas of their own.

`SpentMarkersSurviveReclaim` needs only types: what a reclaim drops is neither applied nor newer than what
it keeps, so the marker that governed a kind governs it still. That a marker is still there when the reclaim looks is
another question, which `gate_marker` answers.

`InboxProofs` proves, for every number of rows, sessions, posters and causes, every cap
and every attempt ceiling (assumptions `InboxConstants`, `PostConstants`):

- `InboxTypeCorrect`: `Spec => []TypeOK`
- `InboxLandedWasSent`: `Spec => []LandedWasSent`
- `InboxTerminalIsFinal`: `Spec => TerminalIsFinal`
- `InboxReportsAwaitProof`: `Spec => ReportsAwaitProof`
- `InboxOneRowPerCause`: `Spec => []OneRowPerCause`
- `InboxPendingOutlivesMarkers`: `Spec => PendingOutlivesMarkers`

What makes these hard is that posts, the sweep and the synchronizer write rows from
copies they read earlier. So the invariant `IInv` claims of every copy what the theorems
claim of the rows:

- `TypeInv`: `TypeOK` and the row or cause that each operation in flight holds;
- `SentInv`: a row or a copy that landed, or that an adapter accepted, has a prompt in
  `sent`, and so has an attempt that reports an acceptance;
- `CopyInv`: a terminal copy agrees with the state of its row, unless the row was removed;
- `HeldInv`: what is about to be appended is a row, not the absence of one.

`StepKeeps` says what one step does to the rows (terminal states stay, reports stay,
removed rows are gone). The lemma `Carry` derives the claims about all copies from it, so
that each action only shows `StepKeeps` and that the copies it makes are fresh. An append
keeps the rows because the copy agrees with the row or is pending, and then the fold
discards it; a landing is applied to the latest snapshot under the lock; a compaction
keeps the protected reports on either side of the cap (`KeepIdsKeeps`). TLC checked `IInv`
and `StepKeeps` on the instances of `inbox_handover`, `inbox_causes` and `inbox_cap`
before the proof.

`InboxOneRowPerCause` rests on a second invariant, `CauseInv`, beside `IInv`. The sweep looks for the row of a cause in the
fold it took at its start, not in the log. So: every copy is of a row that was posted and carries its cause (`CopiesKnown`), row
ids not yet given are free (`RowsPosted`), and a sweep that acts holds as pending every row that is pending for
a cause (`CausesHeld`), since nobody but the sweep posts such rows and it remembers what it posts. `CauseStep` says what a step does to causes (a
row goes on, or one is posted for a cause without a pending row), and `CauseCarry` derives the rest. TLC checked `CauseInv` on the same
three instances. `InboxPendingOutlivesMarkers` counts: if the newest pending rows that fit the
room are not all of them, they fill it (`NewestFills`, over the last row that is left out), so
no room is left for a marker (`NewestOfNone`). Every other step keeps the rows it finds (`RowsStay`).

`InteractionProofs` proves, for every set of deciders and compactors, every attempt limit and every
number of questions, decisions, gates and crashes (assumption `InteractionAssumption`):

- `TypeCorrect`: `Spec => []TypeOK`
- `OneAnswerPerQuestion`: `Spec => []AnsweredOnce`
- `AppliedReachedTheVendor`: `Spec => []AppliedWasTaken`
- `NotSentClaimHolds`: `Spec => []NotSentIsTrue`
- `OffersStayBounded`: `Spec => []OffersBounded`

The sweep writes from a copy that deciders may have made stale, and after the bridge has gone on without it.
The inductive invariant `IInv` follows a decision through all the places it may be in:

- `Custody`: what the sweep may hold at each point (`SweepHolds`); gates carry decisions that were given, and a
  decided one has attempts left (`GatesSound`); a decision stands on one gate only, so the stale snapshots that
  deciders append never carry an old decision back (`OneGate`);
- `Accounting`: the offers of a decision are paid for (`Paid`) by the attempts its gate records, the one that is out
  (`OutOf`) and the crashes that kept one from the record;
- `Delivery`: a call of the pending question is marked as responded and is the only one; an answer taken of it is
  that call's, as long as the vendor is connected;
- `Evidence`: bytes of a decision that is still decided left (`Gone`) only while the sweep watches it, or a
  crash closed its eyes (`Watched`, `Vouched`); and what is recorded as not sent (`NotSent`) is held by no gate and no
  sweep any more.

`AnsweredOnce` rests on `Delivery`: the authority admits one call per question, and the crash of the
server does not touch it. `OffersBounded` needs the accounting, since the attempts live on a gate that is
rewritten from copies. `NotSentIsTrue` needs everything. TLC checked `IInv` on the instance of
`interaction_relay` before the proof.

`SeatProofs` proves, for every set of callers, every failure threshold, every number of generations and
every number of faults (assumption `SeatAssumption`):

- `SeatTypes`: `Spec => []TypeOK`, which contains the discipline of the two locks
- `SeatHasOneOccupant`: `Spec => []OneOccupant`
- `RollbackIsJustified`: `Spec => []RollbackSparesBriefed`
- `BatchesLoseNothing`: `Spec => BatchLosesNothing`

The inductive invariant `IInv` adds what these rest on: generations are named only once they were spawned, and the one being
opened has no row yet (`Numbered`); the buffer of an open holds no running row (`SeatVacated`); any buffer agrees
with the file but for running and exited (`BufferTracks`); a caller that is on its way to close a generation found
that it was dispatched and has no open brief, and only the holder of the seat's lock can post one
(`BriefsJustified`). Most steps are one move of one call beside at most one mutator outside a batch: `CallStep` and
`QuietStep` treat these shapes once, and each action only shows that it has the shape. The steps inside a batch and
the deaths have lemmas of their own. TLC checked `IInv` on the instance of `seat_dispatch` before the proof.

`SubmissionProofs` proves, for every set of request ids, every size of the ledger and of the timeline, every number of
operations and any kind of adapter (assumption `SubmissionAssumption`; a timeline is not longer than the ledger, as
the code's constants are):

- `SubmissionTypes`: `Spec => []TypeOK`
- `OperationsReachTheVendorInOrder`: `Spec => []WireInOrder`
- `WithdrawnIsNeverSent`: `Spec => []RecalledNeverSent`
- `UnfinishedStaysPinned`: `Spec => []UnfinishedIsPinned`
- `CallKeepsItsOperation`: `Spec => []CallKeepsDispatch`
- `WithdrawalIsFinal`: `Spec => WithdrawnIsFinal`, if the adapter's preflight sends nothing

The argument is about ordinals. `TimelineInv`: the timeline is sorted by them and contains whatever is queued, so the
head that the dispatcher looks at is the least. `SendInv`: what is queued lies above everything on the wire and, while a call
is out, above the operation of that call. `LedgerInv`: a row carries an ordinal of its own, so an evicted request id that comes back is
told apart from what it was. `RecallInv` and `CallInv` say what a withdrawal and a call out at the adapter exclude;
`ReconcileInv` that a reconcile answer meets only rows that left the queue for good, or another generation of the key
(`mixed`). The sequence lemmas (what `RemoveFirst` and the eviction of the oldest row do to order and distinctness) are
stated first. The assumption of the last theorem is the known deviation of `harness_submission_authority.py:661`. TLC checked `IInv` on the
instance of `submission_order` before the proof.

`SyncProofs` proves, for any number of source versions, commits, edits, generations and crashes, with and without a
damaged journal (assumption `SyncBounds`: the bounds are numbers):

- `SyncTypes`: `Spec => []TypeOK`
- `AuthorityStaysPinned`: `Spec => []AuthorityPinned`
- `ParkedWorkIsNeverLost`: `Spec => []ParkedWorkKept`
- `LogIsGapless`: `Spec => []SyncLogChains`
- `TerminalRecordReturnsWork`: `Spec => TerminalReturnsWork`
- `AgentCommitsAreKept`: `Spec => OwnCommitsKept`

The inductive invariant has a part about what is on disk (`StateInv`) and one about the call (`ProgressInv`). On disk: an
open journal names the sides, plans and bases that were pinned (`JournalInv`), bases are never ahead of the sources
(`BaseInv`), and every edit that is owed is in the worktree, on the stash stack or named by the journal (`OwedInv`,
`NamedInv`, `CandidateInv`). Of the call: the record of an admission is of the heads and bases as they are (`AdmissionInv`,
`ParkingInv`), and each later step finds the journal in the phase that the step belongs to (`CallInv`, `ReturnInv`), which is
what makes a crash between any two steps harmless. Whatever a call writes to the journal names the same
sides (`SameSides`), and refs are deleted only once the journal is terminal or lost.

`SyncRefinement` proves `SyncIsAllOrNothing`: `Spec => AllOrNothing`, that `SyncTransaction` implements `SyncAtomic` under
the refinement mapping of section 2, until the record of an ended sync is damaged beside the refs it left. It needs more (`RInv`): a merge in progress belongs to the open transaction and is on its pinned head
(`MergeInv`, `IndexInv`), refs that are left without a journal are those of an interrupted admission (`LostInv`), and what
a cancellation or a recovery has passed is back at its pinned head (`CancelInv`, `PartialInv`). Then there are three kinds of steps. What
moves on a side is hidden while that side is open (`HiddenMove`); a side opens, or closes without completing, where it is as its pins say
(`SeamlessMove`); and `PublishCompleted` is the abstract `Sync`, the agent's commits the abstract
`Work`. TLC checked `IInv` and `RInv` on the instance of `sync_crash` before the proofs.

Every safety property that a passing run checks has a theorem. Liveness (`EveryRowResolves`, `DecisionServed`,
`QueueMoves`) is beyond the prover and is only model-checked.

## 5. Not modelled

PROJECT.json gives a reason for each part. In short: protocol adapters, providers,
memory quality, settings, registration and the browser client are I/O, text
processing or external. The launcher of detached lifecycle workers starts a module that is
no longer in the package, so the operation store has no running writer to model. Durable stores,
integration and the closeout queue are planned. The package has some 240 000 lines, most of
them of the first sort; the modules cover the parts where processes, tasks and crashes meet.

## 6. Plan

In this order:

1. **Composition**: `sent` of `OperatorInbox` as a refinement of `SubmissionAuthority`.
2. **Durable log and file lock**: flock, in-process mutex, rename; refinement of the
   atomic log that the modules above assume; lock order of catalog and inbox.
3. **Integration**: the ref transaction of a series landing and its recovery.
4. **Closeout queue, expectation rows**; staged heirs and task moves of seats, and the liveness of dispatch and
   sweep on an abstraction of `SeatDispatch` that is small enough.
5. **The notifier's clocks**: cooldowns, budgets and episodes in place of the choice.
