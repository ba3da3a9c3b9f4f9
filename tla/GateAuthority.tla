--------------------------- MODULE GateAuthority ---------------------------
(***************************************************************************)
(* The durable gate log of one lifecycle (controlplane/store.py) and every *)
(* operation that writes it: raising a gate, waiting on it, deciding it,   *)
(* claiming an approval, and reclaiming the log.                           *)
(*                                                                         *)
(* The log is append-only and is read only through its last-wins fold, so  *)
(* the state kept here is that fold.  An append, a delete, a compaction    *)
(* and a claim each run inside the log's lock and are one step.  A read    *)
(* takes no lock: an operation keeps the copy it read and appends a new    *)
(* snapshot derived from that copy in a later step, by which time any      *)
(* other process may have written.                                         *)
(***************************************************************************)
EXTENDS Integers, FiniteSets

CONSTANTS
    Mcp,            \* sessions served by the MCP process
    Dashboard,      \* requests served by the dashboard process
    Worker,         \* lifecycle-operation workers
    Kinds,          \* gate kinds
    MutatingKinds,  \* MUTATING_TOOL_GATE_KINDS
    SeamKinds,      \* SEAM_CONSUMED_GATE_KINDS
    EnforcedKinds,  \* the kinds a mutation claims through claim_approval
    Roles,          \* non-human decision roles
    NoRole,         \* "no role": a decision, or a policy rule, without one
    Policy,         \* gate kind -> [role, verdict]: its delegation rule
    Verdicts,       \* bound: the verdicts that deciders give
    OpenEvidence,   \* bound: whether a gate is raised with reviewer evidence
    Keys,           \* operation keys of detached closeouts
    NoKey,          \* an inline closeout has no operation key
    MaxGates,       \* bound: gates ever raised
    MaxClock,       \* bound: time stamps ever taken
    MaxInFlight,    \* bound: operations running at the same time
    CanCrash        \* whether a process may die inside an operation

Actors == Mcp \cup Dashboard \cup Worker
GateIds == 1..MaxGates
ConsumedKinds == MutatingKinds \cup SeamKinds
Deciders == {"developer", "model", "peer", "owner"}
DecisionStates ==
    [approve |-> "approved", reject |-> "rejected",
     revise |-> "revision-requested", cancel |-> "cancelled"]
States == {"absent", "open", "expired", "applied",
           "approved", "rejected", "revision-requested", "cancelled"}

ASSUME GateConstants ==
    /\ MaxGates \in Nat
    /\ MaxClock \in Nat
    /\ MaxInFlight \in Nat
    /\ CanCrash \in BOOLEAN
    /\ MutatingKinds \subseteq Kinds
    /\ SeamKinds \subseteq Kinds
    /\ EnforcedKinds \subseteq ConsumedKinds
    /\ NoRole \notin Roles
    /\ NoKey \notin Keys
    /\ Policy \in [Kinds -> [role : Roles \cup {NoRole}, verdict : BOOLEAN]]
    /\ OpenEvidence \subseteq BOOLEAN
    /\ Verdicts \subseteq [decision : DOMAIN DecisionStates, by : Deciders,
                           role : Roles \cup {NoRole}, evid : BOOLEAN]

VARIABLES
    gates,      \* the fold of the log: gate id -> latest snapshot
    rows,       \* gate id -> state of its verdict-by expectation row
    op,         \* actor -> the operation it runs and the copies it read
    nextId,     \* the next gate id to mint
    clock,      \* the next time stamp
    horizon,    \* stamps below it are older than the retention TTL
    decisions,  \* history: the decisions recorded
    acts        \* history: the mutations that a gate verdict permitted

vars == <<gates, rows, op, nextId, clock, horizon, decisions, acts>>

-----------------------------------------------------------------------------
(* Snapshots.  `by`/`role`/`evid` are the decision attribution the policy   *)
(* reads, `decidedAt` the stamp of the decision (0: undecided).             *)

Snapshot ==
    [kind : Kinds \cup {"none"}, state : States, ts : Nat,
     by : Deciders \cup {"nobody"}, role : Roles \cup {NoRole},
     evid : BOOLEAN, decidedAt : Nat, key : Keys \cup {NoKey}]

Absent ==
    [kind |-> "none", state |-> "absent", ts |-> 0, by |-> "nobody",
     role |-> NoRole, evid |-> FALSE, decidedAt |-> 0, key |-> NoKey]

NoVerdict == [decision |-> "none", by |-> "nobody", role |-> NoRole, evid |-> FALSE]

\* create_gate
CreateGate(k, now, evid) ==
    [Absent EXCEPT !.kind = k, !.state = "open", !.ts = now, !.evid = evid]

\* Mutant: the decision's word is stored as the gate's state.
DecideGateUnmapped(s, v, now) ==
    [s EXCEPT !.ts = now, !.state = v.decision, !.by = v.by,
              !.role = v.role, !.evid = @ \/ v.evid, !.decidedAt = now]

\* decide_gate: evidence accumulates, appliedOperation is carried along
DecideGate(s, v, now) ==
    [s EXCEPT !.ts = now, !.state = DecisionStates[v.decision], !.by = v.by,
              !.role = v.role, !.evid = @ \/ v.evid, !.decidedAt = now]

\* expire_gate
ExpireGate(s, now) == [s EXCEPT !.ts = now, !.state = "expired"]

\* Mutant: the claim records its operation and leaves the gate approved.
ApplyGateUnmarked(s, now, key) == [s EXCEPT !.ts = now, !.key = key]

\* apply_gate: the decision attribution is kept
ApplyGate(s, now, key) == [s EXCEPT !.ts = now, !.state = "applied", !.key = key]

-----------------------------------------------------------------------------
(* Policy and enforcement.                                                  *)

Relevant(gs, k) == {g \in GateIds : gs[g].state # "absent" /\ gs[g].kind = k}

\* Python's max(..., key=ts) keeps the first of several maximal elements, in
\* the order the fold inserted them.  Stamps are equal only between a gate and
\* the gates its creation expired, and those were inserted before it.
Latest(gs, S) ==
    {g \in S : \A h \in S : \/ gs[h].ts < gs[g].ts
                            \/ gs[h].ts = gs[g].ts /\ g <= h}

\* The gate of a kind that governs: one, or none when the kind has no gate.
Governing(gs, k) == Latest(gs, Relevant(gs, k))

\* Mutants: the gate-owning lifecycle decides its own gate; the reviewer
\* evidence is not asked for.
DelegatedToOwner(s) ==
    s.by \in {"peer", "owner"} /\ s.role \in Roles /\ s.role = Policy[s.kind].role
DelegatedWithoutEvidence(s) ==
    s.by = "peer" /\ s.role \in Roles /\ s.role = Policy[s.kind].role

\* delegated_decision_failure_reason is None
DelegatedDecisionValid(s) ==
    /\ s.by = "peer"                 \* orchestration, not the owning lifecycle
    /\ s.role \in Roles
    /\ s.role = Policy[s.kind].role
    /\ Policy[s.kind].verdict => s.evid

\* approval_failure_reason is None
ApprovalValid(s) == s.by = "developer" \/ DelegatedDecisionValid(s)

\* evaluate_gate: the three ways a gate set permits a kind
PermittedGateless(gs, k) == Relevant(gs, k) = {}
ApprovedGate(gs, k) == {g \in Governing(gs, k) : gs[g].state = "approved" /\ ApprovalValid(gs[g])}

\* Mutant: any detached operation resumes a spent approval.
RecoveringAnyOperation(gs, k, key) ==
    {g \in Governing(gs, k) : gs[g].state = "applied" /\ key # NoKey}

\* A retried operation resumes the approval it spent itself.
RecoveringGate(gs, k, key) ==
    {g \in Governing(gs, k) : gs[g].state = "applied" /\ key # NoKey /\ gs[g].key = key}

EvaluateGate(gs, k, key) ==
    \/ PermittedGateless(gs, k)
    \/ ApprovedGate(gs, k) # {}
    \/ RecoveringGate(gs, k, key) # {}

\* Mutant: a spent gate is history like a cancelled one.
KeepGateUnspent(s, h) == s.state \notin {"applied", "cancelled", "expired"} /\ s.ts >= h

\* _keep_gate, with `h` the caller's retention horizon
KeepGate(s, h) ==
    CASE s.state = "applied" -> s.kind \in ConsumedKinds
      [] s.state \in {"cancelled", "expired"} -> FALSE
      [] OTHER -> s.ts >= h

-----------------------------------------------------------------------------
(* Operations in flight.  `held` is the copy of the fold an operation still *)
(* has to append from.  `now` is the stamp it took, and `horizon` the end  *)
(* of the retention TTL then: reads and appends come before and after it.  *)

Steps == {"idle", "stamp", "read", "expire", "row", "wait", "delete", "choose",
          "target", "append", "met", "reclaim", "claim"}

Idle == [step |-> "idle", now |-> 0, horizon |-> 0, gate |-> 0, kind |-> "none",
         wait |-> FALSE, evid |-> FALSE, verdict |-> NoVerdict, key |-> NoKey,
         held |-> [g \in GateIds |-> Absent]]

Ops == [step : Steps, now : Nat, horizon : Nat, gate : Nat,
        kind : Kinds \cup {"none"}, wait : BOOLEAN, evid : BOOLEAN,
        verdict : Verdicts \cup {NoVerdict}, key : Keys \cup {NoKey},
        held : [GateIds -> Snapshot]]

InFlight == {a \in Actors : op[a].step # "idle"}

\* No two time stamps are equal.
TakeStamp == clock <= MaxClock /\ clock' = clock + 1

\* An operation of an idle actor starts.
Begin(a, o) ==
    /\ op[a].step = "idle"
    /\ Cardinality(InFlight) < MaxInFlight
    /\ op' = [op EXCEPT ![a] = o]

At(o, step) == [o EXCEPT !.step = step]
Hold(o, g, s) == [o EXCEPT !.held = [@ EXCEPT ![g] = s]]
Goto(a, step) == op' = [op EXCEPT ![a] = At(op[a], step)]
Finish(a) == op' = [op EXCEPT ![a] = Idle]
Append(g, s) == gates' = [gates EXCEPT ![g] = s]

Init ==
    /\ gates = [g \in GateIds |-> Absent]
    /\ rows = [g \in GateIds |-> "none"]
    /\ op = [a \in Actors |-> Idle]
    /\ nextId = 1
    /\ clock = 1
    /\ horizon = 0
    /\ decisions = {}
    /\ acts = {}

-----------------------------------------------------------------------------
(* lifecycle_gate / gate_create: read the open gates, expire each of them,  *)
(* append the new gate, write its expectation row, and wait if asked to.    *)

CreateOp(k, wait, evid) ==
    [Idle EXCEPT !.step = "read", !.now = clock, !.kind = k, !.wait = wait, !.evid = evid]

GateCreate(a, k, wait, evid) ==
    /\ a \in Mcp
    /\ wait \/ (k \in SeamKinds /\ Policy[k].role # NoRole)
    /\ Begin(a, CreateOp(k, wait, evid))
    /\ TakeStamp
    /\ UNCHANGED <<gates, rows, nextId, horizon, decisions, acts>>

\* The open gates it read, and the id of the gate it raises.
OpenRead(o) ==
    [o EXCEPT !.step = "expire", !.gate = nextId,
              !.held = [g \in GateIds |-> IF gates[g].state = "open" THEN gates[g] ELSE Absent]]

CreateRead(a) ==
    /\ op[a].step = "read"
    /\ nextId \in GateIds
    /\ op' = [op EXCEPT ![a] = OpenRead(op[a])]
    /\ nextId' = nextId + 1
    /\ UNCHANGED <<gates, rows, clock, horizon, decisions, acts>>

Held(a) == {g \in GateIds : op[a].held[g].state # "absent"}

CreateExpire(a) ==
    /\ op[a].step = "expire"
    /\ \E g \in Held(a) :
         /\ \A h \in Held(a) : g <= h
         /\ Append(g, ExpireGate(op[a].held[g], op[a].now))
         /\ op' = [op EXCEPT ![a] = Hold(op[a], g, Absent)]
    /\ UNCHANGED <<rows, nextId, clock, horizon, decisions, acts>>

CreateOpen(a) ==
    /\ op[a].step = "expire"
    /\ Held(a) = {}
    /\ Append(op[a].gate, CreateGate(op[a].kind, op[a].now, op[a].evid))
    /\ Goto(a, "row")
    /\ UNCHANGED <<rows, nextId, clock, horizon, decisions, acts>>

WriteVerdictByRow(a) ==
    /\ op[a].step = "row"
    /\ rows' = [rows EXCEPT ![op[a].gate] = "pending"]
    /\ IF op[a].wait THEN Goto(a, "wait") ELSE Finish(a)
    /\ UNCHANGED <<gates, nextId, clock, horizon, decisions, acts>>

\* gate_response_wait: one unlocked look.  An operator's chat entry also ends
\* the wait.  A settled gate of a kind no mutating tool consumes is deleted.
GateResponseWait(a) ==
    LET s == gates[op[a].gate] IN
    /\ op[a].step = "wait"
    /\ IF s.state \notin {"absent", "open"} /\ s.kind \notin MutatingKinds
       THEN Goto(a, "delete")
       ELSE Finish(a)
    /\ UNCHANGED <<gates, rows, nextId, clock, horizon, decisions, acts>>

-----------------------------------------------------------------------------
(* record_gate_decision: choose the gate, read it again, check the policy,  *)
(* append the decision, delete a cancelled gate, meet its row, reclaim.     *)

\* Who may decide through which surface: the dashboard as the developer, the
\* agent's own tool as the model, a structural seat through orchestration.
SurfaceAllows(a, v) ==
    \/ a \in Dashboard /\ v.by = "developer" /\ v.role = NoRole /\ ~v.evid
    \/ a \in Mcp /\ v.by = "model" /\ v.role = NoRole
    \/ a \in Mcp /\ v.by \in {"peer", "owner"} /\ v.role \in Roles

DecisionOp(step, g, v) ==
    [Idle EXCEPT !.step = step, !.now = clock, !.horizon = horizon, !.gate = g, !.verdict = v]

OpenGates == {g \in GateIds : gates[g].state = "open"}

\* The dashboard decides the lifecycle's latest open gate: stamp, then choose.
DecideLatestGate(a, v) ==
    /\ SurfaceAllows(a, v) /\ v.by = "developer"
    /\ Begin(a, DecisionOp("choose", 0, v))
    /\ TakeStamp
    /\ UNCHANGED <<gates, rows, nextId, horizon, decisions, acts>>

Choose(o, g) == [o EXCEPT !.step = "target", !.gate = g]

ChooseLatest(a) ==
    /\ op[a].step = "choose"
    /\ \/ \E g \in Latest(gates, OpenGates) : op' = [op EXCEPT ![a] = Choose(op[a], g)]
       \/ OpenGates = {} /\ Finish(a)
    /\ UNCHANGED <<gates, rows, nextId, clock, horizon, decisions, acts>>

\* A structural seat chooses the one open gate of a kind, then stamps.
DecideStructural(a, g, v) ==
    /\ SurfaceAllows(a, v) /\ v.by \in {"peer", "owner"}
    /\ g \in OpenGates
    /\ \A h \in OpenGates : gates[h].kind = gates[g].kind => h = g
    /\ Begin(a, [DecisionOp("stamp", g, v) EXCEPT !.now = 0, !.horizon = 0])
    /\ UNCHANGED <<gates, rows, nextId, clock, horizon, decisions, acts>>

\* A decision addressed by gate id alone: the dashboard's cancel and the
\* agent's gate_decide.  No state of the gate is required.
DecideAddressedGate(a, g, v) ==
    /\ SurfaceAllows(a, v)
    /\ v.by = "model" \/ (v.by = "developer" /\ v.decision = "cancel")
    /\ Begin(a, DecisionOp("target", g, v))
    /\ TakeStamp
    /\ UNCHANGED <<gates, rows, nextId, horizon, decisions, acts>>

\* datetime.now() of an operation that has read before: a structural decision
\* and a claim.
Stamped(o) ==
    [o EXCEPT !.step = IF o.verdict = NoVerdict THEN "claim" ELSE "target",
              !.now = clock, !.horizon = horizon]

Stamp(a) ==
    /\ op[a].step = "stamp"
    /\ TakeStamp
    /\ op' = [op EXCEPT ![a] = Stamped(op[a])]
    /\ UNCHANGED <<gates, rows, nextId, horizon, decisions, acts>>

\* _target_gate and the two policy checks; a missing gate or a refusal raises.
DecideTarget(a) ==
    LET g == op[a].gate
        s == gates[g]
        v == op[a].verdict
        allowed == /\ s.state # "absent"
                   /\ (v.by = "model" /\ v.decision # "cancel") => Policy[s.kind].role = NoRole
                   /\ v.by \in {"peer", "owner"} =>
                        DelegatedDecisionValid(DecideGate(s, v, op[a].now))
    IN
    /\ op[a].step = "target"
    /\ IF allowed
       THEN op' = [op EXCEPT ![a] = At(Hold(op[a], g, s), "append")]
       ELSE Finish(a)
    /\ UNCHANGED <<gates, rows, nextId, clock, horizon, decisions, acts>>

DecideAppend(a) ==
    LET g == op[a].gate
        v == op[a].verdict
    IN
    /\ op[a].step = "append"
    /\ Append(g, DecideGate(op[a].held[g], v, op[a].now))
    /\ Goto(a, IF v.decision = "cancel" THEN "delete" ELSE "met")
    /\ decisions' = decisions \cup {[gate |-> g, kind |-> op[a].held[g].kind,
                                     stamp |-> op[a].now, by |-> v.by,
                                     evid |-> op[a].held[g].evid \/ v.evid,
                                     decision |-> v.decision]}
    /\ UNCHANGED <<rows, nextId, clock, horizon, acts>>

\* GateStore.delete, for a cancelled gate and after a wait
GateDelete(a) ==
    /\ op[a].step = "delete"
    /\ Append(op[a].gate, Absent)
    /\ IF op[a].verdict = NoVerdict THEN Finish(a) ELSE Goto(a, "met")
    /\ UNCHANGED <<rows, nextId, clock, horizon, decisions, acts>>

MeetVerdictExpectation(a) ==
    /\ op[a].step = "met"
    /\ rows' = [rows EXCEPT ![op[a].gate] = IF @ = "pending" THEN "met" ELSE @]
    /\ IF a \in Mcp THEN Goto(a, "reclaim") ELSE Finish(a)   \* is_compaction_owner
    /\ UNCHANGED <<gates, nextId, clock, horizon, decisions, acts>>

\* GateStore.compact: read, filter and rewrite under the lock
ReclaimGateLog(a) ==
    /\ op[a].step = "reclaim"
    /\ gates' = [g \in GateIds |->
                   IF KeepGate(gates[g], op[a].horizon) THEN gates[g] ELSE Absent]
    /\ Finish(a)
    /\ UNCHANGED <<rows, nextId, clock, horizon, decisions, acts>>

-----------------------------------------------------------------------------
(* A closeout: an unlocked check that can only refuse, then the claim.      *)

CloseoutOp(k, key) == [Idle EXCEPT !.step = "stamp", !.kind = k, !.key = key]

CloseoutBegin(a, k, key) ==
    /\ (a \in Mcp /\ key = NoKey) \/ (a \in Worker /\ key \in Keys)
    /\ EvaluateGate(gates, k, key)
    /\ Begin(a, CloseoutOp(k, key))
    /\ UNCHANGED <<gates, rows, nextId, clock, horizon, decisions, acts>>

\* A permitted mutation, with how its gate verdict let it through.
Act(k, g, how, key, now) ==
    [kind |-> k, gate |-> g, how |-> how, key |-> key, at |-> now,
     approval |-> IF g = 0 THEN 0 ELSE gates[g].decidedAt]

\* GateStore.claim_approval: fold, verdict and `applied` append in one lock
ClaimApproval(a) ==
    LET k == op[a].kind
        key == op[a].key
        now == op[a].now
    IN
    /\ op[a].step = "claim"
    /\ \/ ~EvaluateGate(gates, k, key) /\ UNCHANGED <<gates, acts>>
       \/ /\ PermittedGateless(gates, k)
          /\ acts' = acts \cup {Act(k, 0, "gateless", key, now)}
          /\ UNCHANGED gates
       \/ \E g \in RecoveringGate(gates, k, key) :
            /\ acts' = acts \cup {Act(k, g, "resumed", key, now)}
            /\ UNCHANGED gates
       \/ \E g \in ApprovedGate(gates, k) :
            /\ acts' = acts \cup {Act(k, g, "spent", key, now)}
            /\ Append(g, ApplyGate(gates[g], now, key))
    /\ Finish(a)
    /\ UNCHANGED <<rows, nextId, clock, horizon, decisions>>

\* Integration folds the handover gates of its master and lands; it claims
\* nothing.  Every gate of a seam kind here carries the matching enclosure.
HandoverIntegrate(a, k) ==
    /\ a \in Mcp /\ op[a].step = "idle"
    /\ TakeStamp
    /\ \/ /\ PermittedGateless(gates, k)
          /\ acts' = acts \cup {Act(k, 0, "gateless", NoKey, clock)}
       \/ \E g \in ApprovedGate(gates, k) :
            acts' = acts \cup {Act(k, g, "folded", NoKey, clock)}
    /\ UNCHANGED <<gates, rows, op, nextId, horizon, decisions>>

-----------------------------------------------------------------------------
(* The environment: a process dies between two steps of an operation, and   *)
(* a retention TTL passes during which no operation starts.                 *)

Crash(a) ==
    /\ CanCrash
    /\ op[a].step # "idle"
    /\ Finish(a)
    /\ UNCHANGED <<gates, rows, nextId, clock, horizon, decisions, acts>>

TimePasses ==
    /\ horizon < clock
    /\ horizon' = clock
    /\ UNCHANGED <<gates, rows, op, nextId, clock, decisions, acts>>

Start(a) ==
    \/ \E k \in Kinds, wait \in BOOLEAN, evid \in OpenEvidence : GateCreate(a, k, wait, evid)
    \/ \E v \in Verdicts : DecideLatestGate(a, v)
    \/ \E g \in GateIds, v \in Verdicts : DecideStructural(a, g, v)
    \/ \E g \in GateIds, v \in Verdicts : DecideAddressedGate(a, g, v)
    \/ \E k \in EnforcedKinds, key \in Keys \cup {NoKey} : CloseoutBegin(a, k, key)
    \/ \E k \in SeamKinds : HandoverIntegrate(a, k)

Continue(a) ==
    \/ Stamp(a)
    \/ CreateRead(a)
    \/ CreateExpire(a)
    \/ CreateOpen(a)
    \/ WriteVerdictByRow(a)
    \/ GateResponseWait(a)
    \/ ChooseLatest(a)
    \/ DecideTarget(a)
    \/ DecideAppend(a)
    \/ GateDelete(a)
    \/ MeetVerdictExpectation(a)
    \/ ReclaimGateLog(a)
    \/ ClaimApproval(a)

Next ==
    \/ \E a \in Actors : Start(a) \/ Continue(a) \/ Crash(a)
    \/ TimePasses

Spec == Init /\ [][Next]_vars

-----------------------------------------------------------------------------
(* Properties.                                                              *)

Acts == [kind : Kinds, gate : Nat, how : {"gateless", "spent", "resumed", "folded"},
         key : Keys \cup {NoKey}, at : Nat, approval : Nat]

\* Every variable has its type.
TypeOK ==
    /\ gates \in [GateIds -> Snapshot]
    /\ rows \in [GateIds -> {"none", "pending", "met"}]
    /\ op \in [Actors -> Ops]
    /\ nextId \in 1..(MaxGates + 1)
    /\ clock \in 1..(MaxClock + 1)
    /\ horizon \in 0..clock
    /\ decisions \subseteq [gate : GateIds, kind : Kinds \cup {"none"}, stamp : Nat,
                        by : Deciders, evid : BOOLEAN, decision : DOMAIN DecisionStates]
    /\ acts \subseteq Acts

\* The mutations that spent an approval (claim_approval wrote `applied`).
Spends == {x \in acts : x.how = "spent"}

\* One recorded approval is spent by at most one mutation, whatever stale
\* snapshots other processes append around the claim (claim_approval: "exactly
\* one caller can see the gate approved and be the one that marks it consumed").
SpentOnce ==
    \A x, y \in Spends : x.gate = y.gate /\ x.approval = y.approval => x = y

\* A mutation that a gate let through rests on an approval of the developer,
\* or of a peer lifecycle whose kind the policy delegates and with the reviewer
\* evidence the policy asks for: never on the agent's own decision or on the
\* gate-owning lifecycle's (enforcement.py, the anti-self-approval rule), even
\* when stale snapshots were appended between the decision and the mutation.
ActsAreAuthorised ==
    \A x \in acts : x.how \in {"spent", "folded"} => \E d \in decisions :
        /\ d.gate = x.gate /\ d.stamp = x.approval /\ d.decision = "approve"
        /\ \/ d.by = "developer"
           \/ /\ d.by = "peer" /\ Policy[x.kind].role # NoRole
              /\ Policy[x.kind].verdict => d.evid

\* A claim that finds the gate already applied is let through only for the
\* operation that spent that very approval (appliedOperation): a retried
\* worker resumes, another closeout does not ride on its approval.
RecoveryOwnsSpend ==
    \A x \in acts : x.how = "resumed" =>
        \E y \in Spends : /\ y.gate = x.gate /\ y.approval = x.approval
                          /\ y.key = x.key /\ x.key # NoKey

\* Reclaiming the log never changes an "already applied" verdict: the applied
\* gate that governed a kind before the compaction governs it afterwards.
SpentVerdictSurvivesReclaim ==
    [][\A a \in Actors, k \in EnforcedKinds :
         op[a].step = "reclaim" /\ op'[a].step = "idle" =>
         \A g \in Governing(gates, k) :
             gates[g].state = "applied" => g \in Governing(gates, k)']_vars

\* What interaction_retention.py:99-110 claims of the applied marker ("there is
\* nothing to fall back to ... keep for the life of the lifecycle") and line 98
\* of an expired one ("drops history, never authority"): once an approval of a
\* kind was spent, and nobody decided its gate again, no mutation of that kind
\* is permitted as gateless.  The code breaks it: a create appends the expiry
\* of the copy it read over the marker, and the next reclaim drops that.
SpentMarkerGoverns ==
    [][\A x \in acts' \ acts : x.how = "gateless" =>
         ~ \E y \in Spends :
             /\ y.kind = x.kind
             /\ \A d \in decisions : d.gate = y.gate => d.stamp <= y.approval]_vars

=============================================================================
