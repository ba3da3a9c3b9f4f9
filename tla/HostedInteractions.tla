------------------------- MODULE HostedInteractions -------------------------
(***************************************************************************)
(* How the answer to a vendor's question reaches it                        *)
(* (serving/hosted_interactions.py, HarnessSubmissionAuthority.respond,    *)
(* controlplane/gate_decisions.py).                                        *)
(*                                                                         *)
(* The question pending in a hosted session is mirrored as an              *)
(* agent-question gate.  Deciders (the dashboard and the MCP server) read  *)
(* the gate without a lock and append their decision; the liveness sweep   *)
(* of the serving process, which never overlaps itself, offers a decided   *)
(* gate to the session's bridge and records what became of it.  The        *)
(* cockpit may answer the question directly.  The serving process may      *)
(* crash at any point; the bridge runs in another process and goes on.     *)
(*                                                                         *)
(* The log is represented by its fold: the last snapshot of every gate.    *)
(* All the gates here are of the kind agent-question.  Age-based retention *)
(* (24 hours) is left out.                                                 *)
(***************************************************************************)
EXTENDS Naturals, FiniteSets

CONSTANTS
    Deciders,       \* processes that record decisions
    Compactors,     \* those that own compaction of the gate log
    AttemptLimit,   \* INTERACTION_DELIVERY_ATTEMPT_LIMIT
    MaxQuestions,   \* bound: questions the vendor asks
    MaxDecisions,   \* bound: decisions and direct answers given
    MaxGates,       \* bound: gates the sweep opens
    MaxCrashes      \* bound: crashes of the serving process

ASSUME InteractionAssumption ==
    /\ Compactors \subseteq Deciders
    /\ AttemptLimit \in Nat \ {0}
    /\ MaxQuestions \in Nat /\ MaxDecisions \in Nat
    /\ MaxGates \in Nat /\ MaxCrashes \in Nat

VARIABLES
    gates,       \* the fold of the gate log, by gate id
    minted,      \* gate ids used so far
    decisions,   \* answers given so far: they number the decisions (decidedAt)
    deciders,    \* where each decider is, and the gate it read
    sweep,       \* where the sweep is, the question it saw and the gate it read
    pending,     \* the question the session's snapshot shows; 0 is none
    questions,   \* questions asked so far
    responded,   \* _responded_interactions
    calls,       \* respond calls in the bridge
    connected,   \* whether the adapter still has its vendor
    taken,       \* answers that reached the vendor
    offers,      \* respond calls made by the sweep, by decision
    unrecorded,  \* those of them whose end a crash kept from the record
    crashes

log     == <<gates, minted>>
bridge  == <<pending, questions, responded, calls, connected, taken>>
history == <<offers, unrecorded, crashes>>
vars == <<log, decisions, deciders, sweep, bridge, history>>

Questions == 1..MaxQuestions
Decisions == 1..MaxDecisions
GateIds == 1..MaxGates

\* adapterDecisionFailure: the decision it is about, the attempts and what is
\* claimed of its delivery
Failures == [decision : 0..MaxDecisions, attempts : 0..AttemptLimit,
             delivery : {"none", "not-sent", "unknown"}]
NoFailure == [decision |-> 0, attempts |-> 0, delivery |-> "none"]

\* GateRecord: the interaction it mirrors, its state, its decision, whether
\* there is a note and it is an answer the vendor's contract accepts, and the
\* failure.
Gate == [question : 0..MaxQuestions,
         state : {"absent", "open", "decided", "cancelled", "applied", "expired"},
         decision : 0..MaxDecisions, note : {"none", "valid", "invalid"},
         failure : Failures]
Absent == [question |-> 0, state |-> "absent", decision |-> 0,
           note |-> "none", failure |-> NoFailure]

\* A respond call the authority admitted, and how far it got.
Calls == [question : Questions, decision : Decisions, at : {"admitted", "written"}]

SweepPoints == {"idle", "seen", "expire", "create", "reopen", "offer", "wait",
                "apply", "unsent", "failed"}

TypeOK ==
    /\ gates \in [GateIds -> Gate]
    /\ minted \in 0..MaxGates
    /\ decisions \in 0..MaxDecisions
    /\ deciders \in [Deciders -> [at : {"idle", "read", "delete", "compact"},
                                  id : 0..MaxGates, gate : Gate]]
    /\ sweep \in [at : SweepPoints, seen : 0..MaxQuestions,
                  id : 0..MaxGates, gate : Gate]
    /\ pending \in 0..MaxQuestions
    /\ questions \in 0..MaxQuestions
    /\ responded \in SUBSET Questions
    /\ calls \in SUBSET Calls
    /\ connected \in BOOLEAN
    /\ taken \in SUBSET (Questions \X Decisions)
    /\ offers \in [Decisions -> 0..(AttemptLimit + MaxCrashes + 1)]
    /\ unrecorded \in [Decisions -> 0..MaxCrashes]
    /\ crashes \in 0..MaxCrashes

-----------------------------------------------------------------------------
(* The gate snapshots.                                                     *)

\* create_gate
Fresh(q) == [Absent EXCEPT !.question = q, !.state = "open"]

\* Mutant: the attempts are not kept between two sweeps.
AttemptsAnew(gate) == 0

\* _delivery_failure, _delivery_attempts: the budget is per decision.
DeliveryAttempts(gate) ==
    IF gate.failure.decision = gate.decision THEN gate.failure.attempts ELSE 0

\* _with_delivery_failure
WithFailure(gate, delivery, attempts) ==
    [gate EXCEPT !.failure = [decision |-> gate.decision, attempts |-> attempts,
                              delivery |-> delivery]]

\* reopen_gate
Reopened(gate) == [gate EXCEPT !.state = "open", !.decision = 0, !.note = "none"]

\* decide_gate
Decide(gate, state, n, note) ==
    [gate EXCEPT !.state = state, !.decision = n, !.note = note]

\* The states whose decision the sweep offers.
IsDecided(gate) == gate.state \in {"decided", "cancelled"}

\* _keep_gate: the snapshots of an agent-question that compaction drops
Prunable(gate) == gate.state \in {"applied", "cancelled", "expired"}

\* _interaction_gate: the gates that mirror question q
Matching(q) == {g \in GateIds : gates[g].state # "absent" /\ gates[g].question = q}

-----------------------------------------------------------------------------
(* The deciders: record_gate_decision.                                     *)

\* _target_gate, the read
ReadsGate(p, g) ==
    /\ deciders[p].at = "idle" /\ gates[g].state # "absent"
    /\ decisions < MaxDecisions
    /\ deciders' = [deciders EXCEPT ![p] = [at |-> "read", id |-> g, gate |-> gates[g]]]
    /\ UNCHANGED <<log, decisions, sweep, bridge, history>>

\* Where decider p goes when the gate is decided: only an owner compacts.
AfterDecision(p) ==
    [at |-> IF p \in Compactors THEN "compact" ELSE "idle", id |-> 0, gate |-> Absent]

\* decide_gate and append, onto whatever the log holds by then
AppendsDecision(p, state, note) ==
    /\ deciders[p].at = "read" /\ decisions < MaxDecisions
    /\ decisions' = decisions + 1
    /\ gates' = [gates EXCEPT ![deciders[p].id] =
                    Decide(deciders[p].gate, state, decisions + 1, note)]
    /\ deciders' = [deciders EXCEPT ![p] =
                        IF state = "cancelled"
                        THEN [at |-> "delete", id |-> @.id, gate |-> Absent]
                        ELSE AfterDecision(p)]
    /\ UNCHANGED <<minted, sweep, bridge, history>>

\* A cancelled gate is removed from the log.
DeletesGate(p) ==
    /\ deciders[p].at = "delete"
    /\ gates' = [gates EXCEPT ![deciders[p].id] = Absent]
    /\ deciders' = [deciders EXCEPT ![p] = AfterDecision(p)]
    /\ UNCHANGED <<minted, decisions, sweep, bridge, history>>

\* _reclaim_gate_log, compact
ReclaimsLog(p) ==
    /\ deciders[p].at = "compact"
    /\ gates' = [g \in GateIds |-> IF Prunable(gates[g]) THEN Absent ELSE gates[g]]
    /\ deciders' = [deciders EXCEPT ![p] = [at |-> "idle", id |-> 0, gate |-> Absent]]
    /\ UNCHANGED <<minted, decisions, sweep, bridge, history>>

-----------------------------------------------------------------------------
(* The sweep: _sync_interaction.                                           *)

\* The sweep holds nothing.
AtRest == [at |-> "idle", seen |-> 0, id |-> 0, gate |-> Absent]

\* The snapshot is read in the batch; the synchronizer runs after it.
Sees ==
    /\ sweep.at = "idle"
    /\ sweep' = [AtRest EXCEPT !.at = "seen", !.seen = pending]
    /\ UNCHANGED <<log, decisions, deciders, bridge, history>>

\* The sweep goes on with gate g as it is now.
Holding(point, g) ==
    sweep' = [sweep EXCEPT !.at = point, !.id = g, !.gate = gates[g]]

\* _sync_interaction with no question pending: an open gate expires.
FoldsNoQuestion ==
    /\ sweep.at = "seen" /\ sweep.seen = 0
    /\ \/ \E g \in GateIds : gates[g].state = "open" /\ Holding("expire", g)
       \/ (\A g \in GateIds : gates[g].state # "open") /\ sweep' = AtRest
    /\ UNCHANGED <<log, decisions, deciders, bridge, history>>

\* _sync_interaction with a question pending: its gate is opened, offered,
\* handed back or left alone.
FoldsQuestion ==
    /\ sweep.at = "seen" /\ sweep.seen # 0
    /\ \/ /\ Matching(sweep.seen) = {}
          /\ sweep' = IF minted < MaxGates THEN [sweep EXCEPT !.at = "create"] ELSE AtRest
       \/ \E g \in Matching(sweep.seen) :
             \/ ~IsDecided(gates[g]) /\ sweep' = AtRest
             \/ IsDecided(gates[g]) /\ gates[g].note = "invalid" /\ Holding("reopen", g)
             \/ IsDecided(gates[g]) /\ gates[g].note # "invalid" /\ Holding("offer", g)
    /\ UNCHANGED <<log, decisions, deciders, bridge, history>>

\* The sweep appends its snapshot of the gate it read and is done.
Appends(gate) ==
    /\ gates' = [gates EXCEPT ![sweep.id] = gate]
    /\ sweep' = AtRest
    /\ UNCHANGED <<minted, decisions, deciders, bridge, history>>

\* expire_gate
Expires == sweep.at = "expire" /\ Appends([sweep.gate EXCEPT !.state = "expired"])

\* create_gate
Creates ==
    /\ sweep.at = "create"
    /\ minted' = minted + 1
    /\ gates' = [gates EXCEPT ![minted + 1] = Fresh(sweep.seen)]
    /\ sweep' = AtRest
    /\ UNCHANGED <<decisions, deciders, bridge, history>>

\* _gate_response raises: no retry can change that, so the gate reopens.
ReopensUnspeakable ==
    sweep.at = "reopen" /\ Appends(Reopened(WithFailure(sweep.gate, "not-sent", 0)))

\* Mutant: an interaction that was already submitted is submitted again.
AdmittableTwice(q) == pending = q

\* HarnessSubmissionAuthority.respond: it is the pending interaction, and no
\* answer to it was submitted
Admittable(q) == pending = q /\ q \notin responded

\* The authority takes the call.
Admit(q, d) ==
    /\ Admittable(q)
    /\ calls' = calls \cup {[question |-> q, decision |-> d, at |-> "admitted"]}
    /\ responded' = responded \cup {q}

\* respond_control_interaction: one more offer of the decision
Offers(point) ==
    /\ sweep.at = "offer"
    /\ sweep' = [sweep EXCEPT !.at = point]
    /\ offers' = [offers EXCEPT ![sweep.gate.decision] =
                    IF @ <= AttemptLimit + MaxCrashes THEN @ + 1 ELSE @]
    /\ UNCHANGED <<log, decisions, deciders, pending, questions, connected, taken,
                   unrecorded, crashes>>

\* The connection fails before any byte is written (may_have_sent = False).
OfferUnsent == Offers("unsent") /\ UNCHANGED <<responded, calls>>

\* The authority refuses: not pending, or already submitted.
OfferRefused ==
    /\ Offers("failed")
    /\ ~Admittable(sweep.seen)
    /\ UNCHANGED <<responded, calls>>

\* The authority takes it and the sweep waits for the answer.
OfferAdmitted == Offers("wait") /\ Admit(sweep.seen, sweep.gate.decision)

\* The exchange fails after bytes were sent, or its answer does not come.
GivesUp ==
    /\ sweep.at = "wait"
    /\ sweep' = [sweep EXCEPT !.at = "failed"]
    /\ UNCHANGED <<log, decisions, deciders, bridge, history>>

\* apply_gate
Applies == sweep.at = "apply" /\ Appends([sweep.gate EXCEPT !.state = "applied"])

\* Mutant: the failure is swallowed.
SwallowsFailure ==
    sweep.at = "failed" /\ Appends([sweep.gate EXCEPT !.state = "applied"])

\* Mutant: an error without a certificate is taken for a failure to connect.
TrustsFailure ==
    /\ sweep.at = "failed"
    /\ Appends(Reopened(WithFailure(sweep.gate, "not-sent",
                                    DeliveryAttempts(sweep.gate) + 1)))

\* _record_delivery_failure, no certificate: the gate reopens as unknown.
HandsBack ==
    /\ sweep.at = "failed"
    /\ Appends(Reopened(WithFailure(sweep.gate, "unknown",
                                    DeliveryAttempts(sweep.gate) + 1)))

\* Mutant: one attempt too many.
SpentLate(attempts) == attempts > AttemptLimit

\* The budget of the decision is spent.
Spent(attempts) == attempts >= AttemptLimit

\* _record_delivery_failure, certified unsent: the decision is kept for the
\* next sweep, or handed back when its budget is spent.
KeepsOrReopens ==
    /\ sweep.at = "unsent"
    /\ LET attempts == DeliveryAttempts(sweep.gate) + 1
           stamped == WithFailure(sweep.gate, "not-sent", attempts)
       IN Appends(IF Spent(attempts) THEN Reopened(stamped) ELSE stamped)

\* The serving process dies: the sweep is lost wherever it was.
Crash ==
    /\ crashes < MaxCrashes
    /\ crashes' = crashes + 1
    /\ sweep' = AtRest
    /\ unrecorded' = IF sweep.at \in {"wait", "apply", "unsent", "failed"}
                     THEN [unrecorded EXCEPT ![sweep.gate.decision] = @ + 1]
                     ELSE unrecorded
    /\ UNCHANGED <<log, decisions, deciders, bridge, offers>>

-----------------------------------------------------------------------------
(* The bridge, its adapter and the vendor.                                 *)

\* The vendor asks.
Asks ==
    /\ pending = 0 /\ questions < MaxQuestions /\ connected
    /\ questions' = questions + 1
    /\ pending' = questions + 1
    /\ UNCHANGED <<log, decisions, deciders, sweep, responded, calls, connected, taken, history>>

\* The turn ends without an answer: _release_head forgets what was submitted.
TurnEnds ==
    /\ pending # 0
    /\ pending' = 0
    /\ responded' = {}
    /\ UNCHANGED <<log, decisions, deciders, sweep, questions, calls, connected, taken, history>>

\* _answer_interaction: the cockpit answers the question itself.
AnswersDirectly ==
    /\ pending # 0 /\ decisions < MaxDecisions
    /\ decisions' = decisions + 1
    /\ Admit(pending, decisions + 1)
    /\ UNCHANGED <<log, deciders, sweep, pending, questions, connected, taken, history>>

\* The adapter's respond: its own check and the first byte are not interleaved.
Writes(c) ==
    /\ c \in calls /\ c.at = "admitted" /\ connected /\ pending = c.question
    /\ calls' = (calls \ {c}) \cup {[c EXCEPT !.at = "written"]}
    /\ taken' = taken \cup {<<c.question, c.decision>>}
    /\ UNCHANGED <<log, decisions, deciders, sweep, pending, questions, responded,
                   connected, history>>

\* The call ends: whoever waits for it in the sweep goes on at that point.
Ends(c, point) ==
    /\ c \in calls
    /\ calls' = calls \ {c}
    /\ sweep' = IF /\ sweep.at = "wait"
                   /\ sweep.seen = c.question /\ sweep.gate.decision = c.decision
                THEN [sweep EXCEPT !.at = point] ELSE sweep
    /\ UNCHANGED <<log, decisions, deciders, questions, taken, history>>

\* respond returns: the question is no longer pending.
Returns(c) ==
    /\ Ends(c, "apply")
    /\ c.at = "written"
    /\ pending' = IF pending = c.question THEN 0 ELSE pending
    /\ UNCHANGED <<responded, connected>>

\* The adapter refuses before it writes anything.
Refuses(c) ==
    /\ Ends(c, "failed")
    /\ c.at = "admitted"
    /\ responded' = responded \ {c.question}
    /\ UNCHANGED <<pending, connected>>

\* The vendor goes away in the write: the adapter cannot write any more.
Breaks(c) ==
    /\ Ends(c, "failed")
    /\ c.at = "written"
    /\ responded' = responded \ {c.question}
    /\ connected' = FALSE
    /\ UNCHANGED pending

-----------------------------------------------------------------------------
Init ==
    /\ gates = [g \in GateIds |-> Absent] /\ minted = 0 /\ decisions = 0
    /\ deciders = [p \in Deciders |-> [at |-> "idle", id |-> 0, gate |-> Absent]]
    /\ sweep = AtRest
    /\ pending = 0 /\ questions = 0 /\ responded = {} /\ calls = {}
    /\ connected = TRUE /\ taken = {}
    /\ offers = [d \in Decisions |-> 0] /\ unrecorded = [d \in Decisions |-> 0]
    /\ crashes = 0

Decider(p) ==
    \/ \E g \in GateIds : ReadsGate(p, g)
    \/ \E note \in {"valid", "invalid"} : AppendsDecision(p, "decided", note)
    \/ AppendsDecision(p, "cancelled", "none")
    \/ DeletesGate(p) \/ ReclaimsLog(p)

Sweep ==
    \/ Sees \/ FoldsNoQuestion \/ FoldsQuestion
    \/ Expires \/ Creates \/ ReopensUnspeakable
    \/ OfferUnsent \/ OfferRefused \/ OfferAdmitted
    \/ GivesUp \/ Applies \/ HandsBack \/ KeepsOrReopens

Bridge ==
    \/ Asks \/ TurnEnds \/ AnswersDirectly
    \/ \E c \in calls : Writes(c) \/ Returns(c) \/ Refuses(c) \/ Breaks(c)

Next == (\E p \in Deciders : Decider(p)) \/ Sweep \/ Crash \/ Bridge

\* The sweep runs on the liveness tick, and its exchange has a timeout.
Spec == Init /\ [][Next]_vars /\ WF_vars(Sweep)

-----------------------------------------------------------------------------
\* The vendor gets at most one answer to a question, whoever gives it: the
\* sweep again after a failure or a restart, the cockpit, a second decision.
AnsweredOnce ==
    \A x, y \in taken : x[1] = y[1] => x = y

\* A gate that says applied stands for an answer that reached the vendor: the
\* one its decision gives to its question.
AppliedWasTaken ==
    \A g \in GateIds :
        gates[g].state = "applied" => <<gates[g].question, gates[g].decision>> \in taken

\* A decision handed back to the operator as not sent did not reach the vendor
\* and is not on its way to it: to decide again cannot answer twice.  (A crash
\* while the decision was offered is the exception: the claim is about the
\* last attempt only.)
NotSentIsTrue ==
    \A g \in GateIds :
        LET n == gates[g].failure.decision
        IN (/\ gates[g].state = "open" /\ gates[g].failure.delivery = "not-sent"
            /\ unrecorded[n] = 0) =>
                /\ \A t \in taken : t[2] # n
                /\ \A c \in calls : c.decision # n

\* One decision is offered to the adapter at most AttemptLimit times, and once
\* more for every crash in the middle of an offer.
OffersBounded ==
    \A d \in Decisions : offers[d] <= AttemptLimit + unrecorded[d]

\* A decision on the question that is pending does not stay decided: it is
\* applied or handed back, or the question goes away.  (Two gates for one
\* question, the work of two deciders, are the exception: the sweep serves the
\* first.)
DecisionServed ==
    \A d \in Decisions :
        LET Waiting == \E g \in GateIds :
                /\ IsDecided(gates[g]) /\ gates[g].decision = d
                /\ pending # 0 /\ Matching(pending) = {g}
        IN Waiting ~> ~Waiting

=============================================================================
