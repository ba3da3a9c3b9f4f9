------------------------- MODULE InteractionProofs --------------------------
(***************************************************************************)
(* Theorems about HostedInteractions: for any number of deciders,          *)
(* questions, decisions, gates and crashes, and any attempt limit.         *)
(*                                                                         *)
(* The inductive invariant has four parts.  Custody says what the sweep    *)
(* may hold, and that a decision lives in one gate: the stale snapshots    *)
(* that deciders append never carry an old decision back.  Accounting      *)
(* relates the offers of a decision to the attempts its gate records.      *)
(* Delivery relates calls, pending question and answers taken.  Evidence   *)
(* says when no bytes of a decision can have left.                         *)
(***************************************************************************)
EXTENDS HostedInteractions, TLAPS

\* The sweep holds a decided gate; an offer of it is out.
Active == sweep.at \in {"reopen", "offer", "wait", "apply", "unsent", "failed"}
Out == sweep.at \in {"wait", "apply", "unsent", "failed"}

SweepHolds ==
    /\ Active => /\ sweep.id \in GateIds /\ sweep.seen \in Questions
                 /\ sweep.gate.question = sweep.seen
                 /\ IsDecided(sweep.gate)
                 /\ sweep.gate.decision \in 1..decisions
                 /\ DeliveryAttempts(sweep.gate) < AttemptLimit
    /\ sweep.at = "expire" => /\ sweep.id \in GateIds /\ sweep.gate.decision = 0
                             /\ sweep.gate.question # 0
    /\ sweep.at = "create" => minted < MaxGates /\ sweep.seen \in Questions
    /\ sweep.gate.failure.decision <= decisions

GateSound(gate) ==
    /\ gate.decision <= decisions /\ gate.failure.decision <= decisions
    /\ IsDecided(gate) => gate.decision # 0 /\ DeliveryAttempts(gate) < AttemptLimit
    /\ gate.state = "open" => gate.decision = 0
    /\ gate.state # "absent" => gate.question # 0

GatesSound ==
    /\ \A g \in GateIds : GateSound(gates[g])
    /\ \A p \in Deciders :
            /\ deciders[p].gate.failure.decision <= decisions
            /\ deciders[p].at = "read" => deciders[p].gate.question # 0
            /\ deciders[p].at \in {"read", "delete"} => deciders[p].id \in GateIds

OneGate ==
    /\ \A g, h \in GateIds :
            (gates[g].decision = gates[h].decision /\ gates[g].decision # 0) => g = h
    /\ \A g \in GateIds :
            (Active /\ gates[g].decision = sweep.gate.decision) => g = sweep.id

Custody == SweepHolds /\ GatesSound /\ OneGate

\* Offers of d that are out when the sweep is s
OutOf(s, d) == IF s.at \in {"wait", "apply", "unsent", "failed"} /\ s.gate.decision = d THEN 1 ELSE 0

\* The attempts of a decided gate account for the offers of its decision.
Paid(gate, o, u, s) ==
    o[gate.decision] <= DeliveryAttempts(gate) + u[gate.decision] + OutOf(s, gate.decision)

Accounting ==
    /\ \A d \in Decisions : unrecorded[d] <= crashes
    /\ \A d \in Decisions : d > decisions => offers[d] = 0
    /\ \A d \in Decisions : offers[d] <= AttemptLimit + unrecorded[d]
    /\ \A g \in GateIds : IsDecided(gates[g]) => Paid(gates[g], offers, unrecorded, sweep)
    /\ Active => Paid(sweep.gate, offers, unrecorded, sweep)

Delivery ==
    /\ pending <= questions
    /\ \A c \in calls : c.question <= questions /\ c.decision <= decisions
    /\ \A t \in taken : t[1] <= questions /\ t[2] <= decisions
    /\ \A c \in calls : c.at = "written" => <<c.question, c.decision>> \in taken
    /\ \A c \in calls : c.question = pending => pending \in responded
    /\ \A c, e \in calls : (c.question = pending /\ e.question = pending) => c = e
    /\ \A t \in taken : (t[1] = pending /\ connected) =>
            \E c \in calls : c.question = pending /\ c.at = "written"
    /\ sweep.at = "apply" => <<sweep.seen, sweep.gate.decision>> \in taken

\* Bytes of d may have left, given the answers taken and the calls.
Gone(tk, cs, d) == (\E t \in tk : t[2] = d) \/ (\E c \in cs : c.decision = d)

\* A sweep s may still learn what became of d.
Watched(s, d) == s.at \in {"wait", "apply", "failed"} /\ s.gate.decision = d

\* Bytes of d leave only under the eyes of the sweep, or a crash closed them.
Vouched(tk, cs, u, s, d) == Gone(tk, cs, d) => u[d] > 0 \/ Watched(s, d)

NotSent(gate) == gate.state = "open" /\ gate.failure.delivery = "not-sent"

Evidence ==
    /\ \A g \in GateIds : IsDecided(gates[g]) =>
            Vouched(taken, calls, unrecorded, sweep, gates[g].decision)
    /\ Active => Vouched(taken, calls, unrecorded, sweep, sweep.gate.decision)
    /\ \A g \in GateIds : NotSent(gates[g]) =>
            LET n == gates[g].failure.decision
            IN /\ n \in 1..decisions
               /\ Gone(taken, calls, n) => unrecorded[n] > 0
               /\ \A h \in GateIds : gates[h].decision # n
               /\ Active => sweep.gate.decision # n

IInv == TypeOK /\ Custody /\ Accounting /\ Delivery /\ AnsweredOnce /\ AppliedWasTaken /\ Evidence

-----------------------------------------------------------------------------
(* The snapshots keep their type.                                          *)

GateStates == {"absent", "open", "decided", "cancelled", "applied", "expired"}

\* A snapshot with another state, decision and note.
Update(gate, st, n, b) == [gate EXCEPT !.state = st, !.decision = n, !.note = b]

\* Such a snapshot is a gate.
LEMMA UpdatedSnapshot ==
    ASSUME NEW gate \in Gate, NEW st \in GateStates, NEW n \in 0..MaxDecisions,
           NEW b \in {"none", "valid", "invalid"}
    PROVE  /\ Update(gate, st, n, b) \in Gate
           /\ Update(gate, st, n, b).state = st
           /\ Update(gate, st, n, b).decision = n
           /\ Update(gate, st, n, b).question = gate.question
           /\ Update(gate, st, n, b).failure = gate.failure
BY DEF Gate, GateStates, Update

\* Every snapshot operator yields a gate (records.py, hosted_interactions.py).
LEMMA ReopenedSnapshot ==
    ASSUME NEW gate \in Gate
    PROVE  /\ Reopened(gate) \in Gate
           /\ Reopened(gate).state = "open" /\ Reopened(gate).decision = 0
           /\ Reopened(gate).question = gate.question
           /\ Reopened(gate).failure = gate.failure
<1>1. "open" \in GateStates /\ 0 \in 0..MaxDecisions /\ "none" \in {"none", "valid", "invalid"}
  BY InteractionAssumption DEF GateStates
<1>2. Reopened(gate) = Update(gate, "open", 0, "none")
  BY DEF Reopened, Update
<1> QED
  BY <1>1, <1>2, UpdatedSnapshot

LEMMA DecidedSnapshot ==
    ASSUME NEW gate \in Gate, NEW n \in Decisions,
           NEW st \in {"decided", "cancelled"}, NEW b \in {"none", "valid", "invalid"}
    PROVE  /\ Decide(gate, st, n, b) \in Gate
           /\ Decide(gate, st, n, b).state = st
           /\ Decide(gate, st, n, b).decision = n
           /\ Decide(gate, st, n, b).question = gate.question
           /\ Decide(gate, st, n, b).failure = gate.failure
<1>1. st \in GateStates /\ n \in 0..MaxDecisions
  BY InteractionAssumption DEF Decisions, GateStates
<1>2. Decide(gate, st, n, b) = Update(gate, st, n, b)
  BY DEF Decide, Update
<1> QED
  BY <1>1, <1>2, UpdatedSnapshot

LEMMA RestSnapshots ==
    /\ NoFailure \in Failures /\ Absent \in Gate
    /\ Absent.state = "absent" /\ Absent.decision = 0 /\ Absent.failure.decision = 0
    /\ Absent.question = 0 /\ Absent.failure = NoFailure
<1>1. NoFailure \in Failures /\ NoFailure.decision = 0
  BY InteractionAssumption DEF NoFailure, Failures
<1>2. ASSUME NEW z \in 0..MaxQuestions, NEW n \in 0..MaxDecisions, NEW st \in GateStates,
             NEW b \in {"none", "valid", "invalid"}, NEW f \in Failures
      PROVE  [question |-> z, state |-> st, decision |-> n, note |-> b, failure |-> f] \in Gate
  BY DEF Gate, GateStates
<1>3. /\ 0 \in 0..MaxQuestions /\ 0 \in 0..MaxDecisions
      /\ "absent" \in GateStates /\ "none" \in {"none", "valid", "invalid"}
  BY InteractionAssumption DEF GateStates
<1>4. Absent \in Gate
  BY <1>1, <1>2, <1>3 DEF Absent
<1>5. /\ Absent.state = "absent" /\ Absent.decision = 0 /\ Absent.failure = NoFailure
      /\ Absent.question = 0
  BY DEF Absent
<1> QED
  BY <1>1, <1>4, <1>5

LEMMA FreshSnapshot ==
    ASSUME NEW q \in Questions
    PROVE  /\ Fresh(q) \in Gate /\ Fresh(q).state = "open" /\ Fresh(q).decision = 0
           /\ Fresh(q).question = q /\ Fresh(q).failure = NoFailure
<1>1. ASSUME NEW gate \in Gate, NEW st \in GateStates, NEW z \in 0..MaxQuestions
      PROVE  LET r == [gate EXCEPT !.question = z, !.state = st]
             IN /\ r \in Gate /\ r.state = st /\ r.decision = gate.decision
                /\ r.question = z /\ r.failure = gate.failure
  BY DEF Gate, GateStates
<1>2. "open" \in GateStates /\ q \in 0..MaxQuestions
  BY InteractionAssumption DEF GateStates, Questions
<1>3. LET r == [Absent EXCEPT !.question = q, !.state = "open"]
      IN /\ r \in Gate /\ r.state = "open" /\ r.decision = Absent.decision
         /\ r.question = q /\ r.failure = Absent.failure
  BY <1>1, <1>2, RestSnapshots
<1> QED
  BY <1>3, RestSnapshots DEF Fresh

LEMMA Attempts ==
    ASSUME NEW gate \in Gate
    PROVE  DeliveryAttempts(gate) \in 0..AttemptLimit
BY InteractionAssumption DEF Gate, Failures, DeliveryAttempts

LEMMA FailureSnapshot ==
    ASSUME NEW gate \in Gate, NEW k \in 0..AttemptLimit, NEW dl \in {"not-sent", "unknown"}
    PROVE  /\ WithFailure(gate, dl, k) \in Gate
           /\ WithFailure(gate, dl, k).state = gate.state
           /\ WithFailure(gate, dl, k).decision = gate.decision
           /\ WithFailure(gate, dl, k).question = gate.question
           /\ WithFailure(gate, dl, k).failure.decision = gate.decision
           /\ WithFailure(gate, dl, k).failure.attempts = k
           /\ WithFailure(gate, dl, k).failure.delivery = dl
           /\ DeliveryAttempts(WithFailure(gate, dl, k)) = k
<1> DEFINE f == [decision |-> gate.decision, attempts |-> k, delivery |-> dl]
<1>1. f \in Failures
  BY InteractionAssumption DEF Gate, Failures
<1>2. WithFailure(gate, dl, k) = [gate EXCEPT !.failure = f]
  BY DEF WithFailure
<1> HIDE DEF f
<1>3. /\ [gate EXCEPT !.failure = f] \in Gate
      /\ [gate EXCEPT !.failure = f].failure = f
      /\ [gate EXCEPT !.failure = f].state = gate.state
      /\ [gate EXCEPT !.failure = f].decision = gate.decision
      /\ [gate EXCEPT !.failure = f].question = gate.question
  BY <1>1 DEF Gate
<1>4. f.decision = gate.decision /\ f.attempts = k /\ f.delivery = dl
  BY DEF f
<1> QED
  BY <1>2, <1>3, <1>4 DEF DeliveryAttempts

\* A snapshot with another state.
LEMMA RestatedSnapshot ==
    ASSUME NEW gate \in Gate, NEW st \in {"applied", "expired"}
    PROVE  LET r == [gate EXCEPT !.state = st]
           IN /\ r \in Gate /\ r.state = st /\ r.decision = gate.decision
              /\ r.question = gate.question /\ r.failure = gate.failure
BY DEF Gate

\* The idle records of the sweep and of a decider.
LEMMA RestTypes ==
    /\ AtRest \in [at : SweepPoints, seen : 0..MaxQuestions, id : 0..MaxGates, gate : Gate]
    /\ \A p \in Deciders : AfterDecision(p) \in
            [at : {"idle", "read", "delete", "compact"}, id : 0..MaxGates, gate : Gate]
BY RestSnapshots, InteractionAssumption DEF AtRest, AfterDecision, SweepPoints

-----------------------------------------------------------------------------
(* Type correctness.  The invariant is needed: an attempt past the limit   *)
(* would leave the type.                                                   *)

SweepSet == [at : SweepPoints, seen : 0..MaxQuestions, id : 0..MaxGates, gate : Gate]

\* How the steps move the sweep.
LEMMA SweepMoves ==
    ASSUME NEW s \in SweepSet, NEW point \in SweepPoints
    PROVE  /\ [s EXCEPT !.at = point] \in SweepSet
           /\ [s EXCEPT !.at = point].at = point
           /\ [s EXCEPT !.at = point].seen = s.seen
           /\ [s EXCEPT !.at = point].id = s.id
           /\ [s EXCEPT !.at = point].gate = s.gate
BY DEF SweepSet

\* The sweep takes the snapshot of gate g with it.
LEMMA HoldingTakes ==
    ASSUME TypeOK, NEW g \in GateIds, NEW point \in SweepPoints, Holding(point, g)
    PROVE  /\ sweep' \in SweepSet /\ sweep'.at = point /\ sweep'.seen = sweep.seen
           /\ sweep'.id = g /\ sweep'.gate = gates[g]
<1>1. g \in 0..MaxGates
  BY InteractionAssumption DEF GateIds
<1>2. gates[g] \in Gate
  BY DEF TypeOK
<1>3. sweep \in SweepSet
  BY DEF TypeOK, SweepSet
<1>4. sweep' = [sweep EXCEPT !.at = point, !.id = g, !.gate = gates[g]]
  BY DEF Holding
<1>5. ASSUME NEW gate \in Gate, sweep' = [sweep EXCEPT !.at = point, !.id = g, !.gate = gate]
      PROVE  /\ sweep' \in SweepSet /\ sweep'.at = point /\ sweep'.seen = sweep.seen
             /\ sweep'.id = g /\ sweep'.gate = gate
  BY <1>1, <1>3, <1>5 DEF SweepSet
<1> QED
  BY <1>2, <1>4, <1>5

LEMMA SweepSees ==
    ASSUME NEW s \in SweepSet, NEW point \in SweepPoints, NEW q \in 0..MaxQuestions
    PROVE  LET t == [s EXCEPT !.at = point, !.seen = q]
           IN t \in SweepSet /\ t.at = point /\ t.seen = q /\ t.id = s.id /\ t.gate = s.gate
BY DEF SweepSet

\* One more offer of the decision the sweep holds.
LEMMA OneMoreOffer ==
    ASSUME TypeOK, NEW point \in SweepPoints, Offers(point), sweep.gate.decision \in Decisions
    PROVE  /\ offers' \in [Decisions -> 0..(AttemptLimit + MaxCrashes + 1)]
           /\ offers'[sweep.gate.decision] <= offers[sweep.gate.decision] + 1
           /\ \A d \in Decisions \ {sweep.gate.decision} : offers'[d] = offers[d]
<1> DEFINE e == sweep.gate.decision
           top == AttemptLimit + MaxCrashes
           v == IF offers[e] <= top THEN offers[e] + 1 ELSE offers[e]
<1>1. top \in Nat
  BY InteractionAssumption
<1>2. offers \in [Decisions -> 0..(top + 1)]
  BY DEF TypeOK
<1>3. offers' = [offers EXCEPT ![e] = v]
  BY DEF Offers
<1> HIDE DEF e, top
<1>4. v \in 0..(top + 1) /\ v <= offers[e] + 1
  BY <1>1, <1>2 DEF e
<1> HIDE DEF v
<1>5. e \in Decisions
  BY DEF e
<1> QED
  BY <1>2, <1>3, <1>4, <1>5 DEF e, top

\* A crash counts the offer that was out.
LEMMA CrashCounts ==
    ASSUME TypeOK, Crash, Out => sweep.gate.decision \in Decisions
    PROVE  /\ unrecorded' \in [Decisions -> Nat]
           /\ \A d \in Decisions : unrecorded'[d] = unrecorded[d] + OutOf(sweep, d)
<1>1. unrecorded \in [Decisions -> Nat]
  BY InteractionAssumption DEF TypeOK
<1>2. CASE Out
  <2>1. unrecorded' = [unrecorded EXCEPT ![sweep.gate.decision] = unrecorded[sweep.gate.decision] + 1]
    BY <1>2 DEF Crash, Out
  <2> QED
    BY <1>1, <1>2, <2>1 DEF OutOf, Out
<1>3. CASE ~Out
  BY <1>1, <1>3 DEF Crash, Out, OutOf
<1> QED
  BY <1>2, <1>3

LEMMA InitInvariant == Init => IInv
<1> SUFFICES ASSUME Init PROVE IInv
  OBVIOUS
<1> USE InteractionAssumption DEF Init
<1>1. TypeOK
  BY RestSnapshots, RestTypes DEF TypeOK, AtRest, Questions, Decisions, GateIds
<1>2. ~Active /\ ~Out /\ sweep.at = "idle" /\ sweep.gate = Absent
  BY DEF Active, Out, AtRest
<1>3. Custody
  BY <1>2, RestSnapshots DEF Custody, SweepHolds, GatesSound, GateSound, OneGate, IsDecided
<1>4. Accounting
  BY <1>2, RestSnapshots DEF Accounting, IsDecided, Decisions
<1>5. Delivery /\ AnsweredOnce
  BY <1>2 DEF Delivery, AnsweredOnce
<1>6. AppliedWasTaken /\ Evidence
  BY <1>2, RestSnapshots DEF AppliedWasTaken, Evidence, IsDecided, NotSent
<1> QED
  BY <1>1, <1>3, <1>4, <1>5, <1>6 DEF IInv

-----------------------------------------------------------------------------
(* What the sweep records.                                                 *)

RecordsExpiry(x) ==
    /\ sweep.at = "expire" /\ x.state = "expired"
    /\ x.decision = 0 /\ x.failure = sweep.gate.failure
    /\ x.question = sweep.gate.question

RecordsApplied(x) ==
    /\ sweep.at = "apply" /\ x.state = "applied"
    /\ x.decision = sweep.gate.decision /\ x.failure = sweep.gate.failure
    /\ x.question = sweep.seen

RecordsReopened(x) ==
    /\ sweep.at \in {"reopen", "failed", "unsent"} /\ x.state = "open"
    /\ x.decision = 0 /\ x.failure.decision = sweep.gate.decision
    /\ sweep.at = "failed" => x.failure.delivery = "unknown"
    /\ x.question = sweep.seen

RecordsAttempt(x) ==
    /\ sweep.at = "unsent" /\ x.state = sweep.gate.state
    /\ x.decision = sweep.gate.decision /\ x.failure.decision = sweep.gate.decision
    /\ DeliveryAttempts(x) = DeliveryAttempts(sweep.gate) + 1
    /\ DeliveryAttempts(x) < AttemptLimit
    /\ x.question = sweep.seen

\* The snapshot x the sweep appends, in one of four cases.
Recorded(x) ==
    /\ Appends(x) /\ sweep.id \in GateIds
    /\ RecordsExpiry(x) \/ RecordsApplied(x) \/ RecordsReopened(x) \/ RecordsAttempt(x)

SweepRecords == Expires \/ ReopensUnspeakable \/ Applies \/ HandsBack \/ KeepsOrReopens

\* Every append of the sweep is one of them (_sync_interaction,
\* _record_delivery_failure, _reopen_undelivered).
LEMMA RecordKinds ==
    ASSUME TypeOK, SweepHolds, SweepRecords
    PROVE  \E x \in Gate : Recorded(x)
<1> DEFINE h == sweep.gate
           d == h.decision
           k == DeliveryAttempts(h)
<1>1. h \in Gate /\ k \in 0..AttemptLimit
  BY Attempts DEF TypeOK
<1>2. AttemptLimit \in Nat
  BY InteractionAssumption
<1>3. CASE Expires
  <2> DEFINE x == [h EXCEPT !.state = "expired"]
  <2>1. /\ x \in Gate /\ x.state = "expired" /\ x.decision = d /\ x.failure = h.failure
        /\ x.question = h.question
    BY <1>1, RestatedSnapshot
  <2>2. sweep.at = "expire" /\ Appends(x) /\ sweep.id \in GateIds /\ d = 0
    BY <1>3 DEF Expires, SweepHolds
  <2> HIDE DEF x, h
  <2> QED
    BY <2>1, <2>2 DEF Recorded, RecordsExpiry, h
<1>4. CASE Applies
  <2> DEFINE x == [h EXCEPT !.state = "applied"]
  <2>1. /\ x \in Gate /\ x.state = "applied" /\ x.decision = d /\ x.failure = h.failure
        /\ x.question = h.question
    BY <1>1, RestatedSnapshot
  <2>2. sweep.at = "apply" /\ Appends(x) /\ sweep.id \in GateIds /\ h.question = sweep.seen
    BY <1>4 DEF Applies, SweepHolds, Active
  <2> HIDE DEF x, h
  <2> QED
    BY <2>1, <2>2 DEF Recorded, RecordsApplied, h
<1>5. ASSUME NEW n \in 0..AttemptLimit, NEW dl \in {"not-sent", "unknown"},
             sweep.at \in {"reopen", "failed", "unsent"},
             sweep.at = "failed" => dl = "unknown",
             Appends(Reopened(WithFailure(h, dl, n)))
      PROVE  \E x \in Gate : Recorded(x)
  <2> DEFINE w == WithFailure(h, dl, n)
             x == Reopened(w)
  <2>1. w \in Gate /\ w.question = h.question /\ w.failure.decision = d /\ w.failure.delivery = dl
    <3> n \in 0..AttemptLimit /\ dl \in {"not-sent", "unknown"}
      OBVIOUS
    <3> HIDE DEF h
    <3> QED
      BY <1>1, FailureSnapshot, SMTT(30)
  <2>2. /\ x \in Gate /\ x.state = "open" /\ x.decision = 0
        /\ x.question = w.question /\ x.failure = w.failure
    BY <2>1, ReopenedSnapshot
  <2>3. sweep.id \in GateIds /\ h.question = sweep.seen
    BY <1>5 DEF SweepHolds, Active
  <2>4. Appends(x)
    BY <1>5
  <2> HIDE DEF w, x, h
  <2> QED
    BY <1>5, <2>1, <2>2, <2>3, <2>4 DEF Recorded, RecordsReopened, h
<1>6. CASE ReopensUnspeakable
  BY <1>5, <1>6, InteractionAssumption DEF ReopensUnspeakable
<1>7. Active => k + 1 \in 0..AttemptLimit
  BY <1>1, <1>2 DEF SweepHolds
<1>8. CASE HandsBack
  <2>1. sweep.at = "failed" /\ Appends(Reopened(WithFailure(h, "unknown", k + 1)))
    BY <1>8 DEF HandsBack
  <2> HIDE DEF k, h
  <2> QED
    BY <1>5, <1>7, <2>1 DEF Active
<1>9. CASE KeepsOrReopens
  <2> DEFINE w == WithFailure(h, "not-sent", k + 1)
  <2>1. /\ sweep.at = "unsent" /\ Active
        /\ Appends(IF Spent(k + 1) THEN Reopened(w) ELSE w)
    BY <1>9 DEF KeepsOrReopens, Active
  <2>2. CASE Spent(k + 1)
    BY <1>5, <1>7, <2>1, <2>2
  <2>3. CASE ~Spent(k + 1)
    <3>1. /\ w \in Gate /\ w.state = h.state /\ w.decision = d /\ w.question = h.question
          /\ w.failure.decision = d /\ DeliveryAttempts(w) = k + 1
      BY <1>1, <1>7, <2>1, FailureSnapshot
    <3>2. k + 1 < AttemptLimit
      BY <1>1, <1>2, <2>3 DEF Spent
    <3>3. sweep.id \in GateIds /\ h.question = sweep.seen
      BY <2>1 DEF SweepHolds
    <3>4. Appends(w)
      BY <2>1, <2>3
    <3> HIDE DEF w
    <3> QED
      BY <2>1, <3>1, <3>2, <3>3, <3>4 DEF Recorded, RecordsAttempt
  <2> QED
    BY <2>2, <2>3
<1> QED
  BY <1>3, <1>4, <1>6, <1>8, <1>9 DEF SweepRecords

\* A step keeps the types.
LEMMA TypeStep == IInv /\ [Next]_vars => TypeOK'
<1> SUFFICES ASSUME IInv, [Next]_vars PROVE TypeOK'
  OBVIOUS
<1> USE DEF IInv
<1>1. ASSUME NEW p \in Deciders, NEW g \in GateIds, ReadsGate(p, g)
      PROVE  TypeOK'
  <2>1. [at |-> "read", id |-> g, gate |-> gates[g]] \in
            [at : {"idle", "read", "delete", "compact"}, id : 0..MaxGates, gate : Gate]
    BY InteractionAssumption DEF TypeOK, GateIds
  <2> QED
    BY <1>1, <2>1 DEF ReadsGate, TypeOK, log, bridge, history
<1>2. ASSUME NEW p \in Deciders, NEW st \in {"decided", "cancelled"},
             NEW note \in {"none", "valid", "invalid"}, AppendsDecision(p, st, note)
      PROVE  TypeOK'
  <2>1. decisions + 1 \in Decisions /\ deciders[p].gate \in Gate
    BY <1>2, InteractionAssumption DEF AppendsDecision, TypeOK, Decisions
  <2>2. Decide(deciders[p].gate, st, decisions + 1, note) \in Gate
    BY <2>1, DecidedSnapshot
  <2>3. gates' \in [GateIds -> Gate] /\ decisions' \in 0..MaxDecisions
    <3>1. decisions' \in 0..MaxDecisions
      BY <1>2, <2>1, InteractionAssumption DEF AppendsDecision, Decisions
    <3>2. gates' \in [GateIds -> Gate]
      BY <1>2, <2>2 DEF AppendsDecision, TypeOK
    <3> QED
      BY <3>1, <3>2
  <2>4. deciders' \in [Deciders -> [at : {"idle", "read", "delete", "compact"},
                                    id : 0..MaxGates, gate : Gate]]
    <3>1. CASE st = "cancelled"
      BY <1>2, <3>1, RestSnapshots DEF AppendsDecision, TypeOK
    <3>2. CASE st # "cancelled"
      BY <1>2, <3>2, RestTypes DEF AppendsDecision, TypeOK
    <3> QED
      BY <3>1, <3>2
  <2> QED
    BY <1>2, <2>3, <2>4 DEF AppendsDecision, TypeOK, bridge, history
<1>3. ASSUME NEW p \in Deciders, DeletesGate(p)
      PROVE  TypeOK'
  BY <1>3, RestSnapshots, RestTypes DEF DeletesGate, TypeOK, bridge, history
<1>4. ASSUME NEW p \in Deciders, ReclaimsLog(p)
      PROVE  TypeOK'
  BY <1>4, RestSnapshots, InteractionAssumption DEF ReclaimsLog, TypeOK, bridge, history
<1>5. ASSUME Sees
      PROVE  TypeOK'
  <2>1. sweep' \in SweepSet
    <3>1. AtRest \in SweepSet /\ "seen" \in SweepPoints /\ pending \in 0..MaxQuestions
      BY RestTypes DEF SweepSet, SweepPoints, TypeOK
    <3> QED
      BY <1>5, <3>1, SweepSees DEF Sees
  <2> QED
    BY <1>5, <2>1 DEF Sees, TypeOK, SweepSet, log, bridge, history
<1>6. ASSUME FoldsNoQuestion
      PROVE  TypeOK'
  <2>1. sweep' \in SweepSet
    <3>1. ASSUME NEW g \in GateIds, Holding("expire", g) PROVE sweep' \in SweepSet
      <4>1. "expire" \in SweepPoints
        BY DEF SweepPoints
      <4> QED
        BY <3>1, <4>1, HoldingTakes
    <3> QED
      BY <1>6, <3>1, RestTypes DEF FoldsNoQuestion, SweepSet
  <2> QED
    BY <1>6, <2>1 DEF FoldsNoQuestion, TypeOK, SweepSet, log, bridge, history
<1>7. ASSUME FoldsQuestion
      PROVE  TypeOK'
  <2>1. sweep' \in SweepSet
    <3>1. ASSUME NEW point \in {"reopen", "offer"}, NEW g \in GateIds, Holding(point, g)
          PROVE  sweep' \in SweepSet
      <4>1. point \in SweepPoints
        BY DEF SweepPoints
      <4> QED
        BY <3>1, <4>1, HoldingTakes
    <3>2. AtRest \in SweepSet
      BY RestTypes DEF SweepSet
    <3>3. [sweep EXCEPT !.at = "create"] \in SweepSet
      BY SweepMoves DEF TypeOK, SweepSet, SweepPoints
    <3> QED
      BY <1>7, <3>1, <3>2, <3>3 DEF FoldsQuestion, Matching
  <2> QED
    BY <1>7, <2>1 DEF FoldsQuestion, TypeOK, SweepSet, log, bridge, history
<1>8. ASSUME Creates
      PROVE  TypeOK'
  <2>1. sweep.seen \in Questions /\ minted + 1 \in 0..MaxGates
    BY <1>8, InteractionAssumption DEF Creates, IInv, Custody, SweepHolds, TypeOK
  <2>2. gates' \in [GateIds -> Gate]
    BY <1>8, <2>1, FreshSnapshot DEF Creates, TypeOK
  <2> QED
    BY <1>8, <2>1, <2>2, RestTypes DEF Creates, TypeOK, bridge, history
<1>9. ASSUME NEW x \in Gate, Recorded(x)
      PROVE  TypeOK'
  BY <1>9, RestTypes DEF Recorded, Appends, TypeOK, bridge, history
<1>10. ASSUME OfferUnsent
      PROVE  TypeOK'
  <2>1. sweep' \in SweepSet
    BY <1>10, SweepMoves DEF OfferUnsent, Offers, TypeOK, SweepSet, SweepPoints
  <2>2. offers' \in [Decisions -> 0..(AttemptLimit + MaxCrashes + 1)]
    <3>1. sweep.gate.decision \in Decisions
      BY <1>10, InteractionAssumption DEF OfferUnsent, Offers, Custody, SweepHolds, Active, TypeOK, Decisions
    <3> QED
      BY <1>10, <3>1, OneMoreOffer DEF OfferUnsent, SweepPoints
  <2> QED
    BY <1>10, <2>1, <2>2 DEF OfferUnsent, Offers, TypeOK, SweepSet, log
<1>11. ASSUME OfferRefused
      PROVE  TypeOK'
  <2>1. sweep' \in SweepSet
    BY <1>11, SweepMoves DEF OfferRefused, Offers, TypeOK, SweepSet, SweepPoints
  <2>2. offers' \in [Decisions -> 0..(AttemptLimit + MaxCrashes + 1)]
    <3>1. sweep.gate.decision \in Decisions
      BY <1>11, InteractionAssumption DEF OfferRefused, Offers, Custody, SweepHolds, Active, TypeOK, Decisions
    <3> QED
      BY <1>11, <3>1, OneMoreOffer DEF OfferRefused, SweepPoints
  <2> QED
    BY <1>11, <2>1, <2>2 DEF OfferRefused, Offers, TypeOK, SweepSet, log
<1>12. ASSUME OfferAdmitted
      PROVE  TypeOK'
  <2>1. sweep' \in SweepSet
    BY <1>12, SweepMoves DEF OfferAdmitted, Offers, TypeOK, SweepSet, SweepPoints
  <2>2. offers' \in [Decisions -> 0..(AttemptLimit + MaxCrashes + 1)]
    <3>1. sweep.gate.decision \in Decisions
      BY <1>12, InteractionAssumption DEF OfferAdmitted, Offers, Custody, SweepHolds, Active, TypeOK, Decisions
    <3> QED
      BY <1>12, <3>1, OneMoreOffer DEF OfferAdmitted, SweepPoints
  <2>3. sweep.seen \in Questions /\ sweep.gate.decision \in Decisions
    BY <1>12, InteractionAssumption DEF OfferAdmitted, Offers, IInv, Custody, SweepHolds, Active, TypeOK, Decisions
  <2>4. calls' \in SUBSET Calls /\ responded' \in SUBSET Questions
    BY <1>12, <2>3 DEF OfferAdmitted, Admit, TypeOK, Calls
  <2> QED
    BY <1>12, <2>1, <2>2, <2>4 DEF OfferAdmitted, Offers, TypeOK, SweepSet, log
<1>13. ASSUME GivesUp
      PROVE  TypeOK'
  <2>1. sweep' \in SweepSet
    BY <1>13, SweepMoves DEF GivesUp, TypeOK, SweepSet, SweepPoints
  <2> QED
    BY <1>13, <2>1 DEF GivesUp, TypeOK, SweepSet, log, bridge, history
<1>14. ASSUME Crash
      PROVE  TypeOK'
  <2>1. crashes' \in 0..MaxCrashes
    BY <1>14, InteractionAssumption DEF Crash, TypeOK
  <2>2. unrecorded' \in [Decisions -> 0..MaxCrashes]
    <3>1. \A d \in Decisions : unrecorded[d] <= crashes
      BY DEF IInv, Accounting
    <3>2. Out => sweep.gate.decision \in Decisions
      BY InteractionAssumption DEF Custody, SweepHolds, Active, Out, TypeOK, Decisions
    <3>3. \A d \in Decisions : OutOf(sweep, d) \in 0..1
      BY DEF OutOf
    <3>4. crashes + 1 <= MaxCrashes /\ crashes \in Nat
      BY <1>14, InteractionAssumption DEF Crash, TypeOK
    <3>5. \A d \in Decisions : unrecorded[d] \in Nat
      BY InteractionAssumption DEF TypeOK
    <3>6. /\ unrecorded' \in [Decisions -> Nat]
          /\ \A d \in Decisions : unrecorded'[d] = unrecorded[d] + OutOf(sweep, d)
      BY <1>14, <3>2, CrashCounts
    <3>7. \A d \in Decisions : unrecorded'[d] \in 0..MaxCrashes
      BY <3>1, <3>3, <3>4, <3>5, <3>6, InteractionAssumption
    <3> QED
      BY <3>6, <3>7
  <2> QED
    BY <1>14, <2>1, <2>2, RestTypes DEF Crash, TypeOK, log, bridge
<1>15. ASSUME Asks
      PROVE  TypeOK'
  BY <1>15, InteractionAssumption DEF Asks, TypeOK, log, history
<1>16. ASSUME TurnEnds
      PROVE  TypeOK'
  BY <1>16, InteractionAssumption DEF TurnEnds, TypeOK, log, history
<1>17. ASSUME AnswersDirectly
      PROVE  TypeOK'
  <2>1. pending \in Questions /\ decisions + 1 \in Decisions
    BY <1>17, InteractionAssumption DEF AnswersDirectly, TypeOK, Questions, Decisions
  <2>2. calls' \in SUBSET Calls /\ responded' \in SUBSET Questions
    BY <1>17, <2>1 DEF AnswersDirectly, Admit, TypeOK, Calls
  <2> QED
    BY <1>17, <2>1, <2>2 DEF AnswersDirectly, TypeOK, log, history, Decisions
<1>18. ASSUME NEW c \in calls, Writes(c)
      PROVE  TypeOK'
  <2>1. c \in Calls
    BY <1>18 DEF TypeOK
  <2>2. [c EXCEPT !.at = "written"] \in Calls
    BY <2>1 DEF Calls
  <2>3. calls' \in SUBSET Calls /\ taken' \in SUBSET (Questions \X Decisions)
    BY <1>18, <2>1, <2>2 DEF Writes, TypeOK, Calls
  <2> QED
    BY <1>18, <2>3 DEF Writes, TypeOK, log, history
<1>19. ASSUME NEW c \in calls, Returns(c)
      PROVE  TypeOK'
  <2>1. sweep' \in SweepSet
    BY <1>19, SweepMoves DEF Returns, Ends, TypeOK, SweepSet, SweepPoints
  <2> QED
    BY <1>19, <2>1, InteractionAssumption DEF Returns, Ends, TypeOK, SweepSet, log, history
<1>20. ASSUME NEW c \in calls, Refuses(c)
      PROVE  TypeOK'
  <2>1. sweep' \in SweepSet
    BY <1>20, SweepMoves DEF Refuses, Ends, TypeOK, SweepSet, SweepPoints
  <2> QED
    BY <1>20, <2>1, InteractionAssumption DEF Refuses, Ends, TypeOK, SweepSet, log, history
<1>21. ASSUME NEW c \in calls, Breaks(c)
      PROVE  TypeOK'
  <2>1. sweep' \in SweepSet
    BY <1>21, SweepMoves DEF Breaks, Ends, TypeOK, SweepSet, SweepPoints
  <2> QED
    BY <1>21, <2>1, InteractionAssumption DEF Breaks, Ends, TypeOK, SweepSet, log, history
<1>22. ASSUME UNCHANGED vars
      PROVE  TypeOK'
  BY <1>22 DEF TypeOK, vars, log, bridge, history
<1>23. CASE SweepRecords
  <2>1. PICK x \in Gate : Recorded(x)
    BY <1>23, RecordKinds DEF IInv, Custody
  <2> QED
    BY <1>9, <2>1
<1> QED
  BY <1>1, <1>2, <1>3, <1>4, <1>5, <1>6, <1>7, <1>8, <1>10, <1>11, <1>12, <1>13, <1>14, <1>15, <1>16, <1>17, <1>18, <1>19, <1>20, <1>21, <1>22, <1>23
  DEF Next, Decider, Sweep, Bridge, SweepRecords

-----------------------------------------------------------------------------
(* Custody.                                                                *)

\* A step keeps what the sweep may hold.
LEMMA SweepHoldsStep == IInv /\ [Next]_vars => SweepHolds'
<1> SUFFICES ASSUME IInv, [Next]_vars PROVE SweepHolds'
  OBVIOUS
<1> USE DEF IInv, Custody
<1>t. TypeOK' /\ decisions \in Nat
  BY TypeStep, InteractionAssumption DEF TypeOK
<1>1. ASSUME NEW p \in Deciders, NEW g \in GateIds, ReadsGate(p, g)
      PROVE  SweepHolds'
  BY <1>1 DEF ReadsGate, log, bridge, history, SweepHolds, Active, IsDecided, DeliveryAttempts
<1>2. ASSUME NEW p \in Deciders, NEW st \in {"decided", "cancelled"},
             NEW note \in {"none", "valid", "invalid"}, AppendsDecision(p, st, note)
      PROVE  SweepHolds'
  BY <1>2, <1>t, InteractionAssumption DEF AppendsDecision, bridge, history, TypeOK, Gate, Failures, SweepHolds, Active, IsDecided, DeliveryAttempts
<1>3. ASSUME NEW p \in Deciders, DeletesGate(p)
      PROVE  SweepHolds'
  BY <1>3 DEF DeletesGate, log, bridge, history, SweepHolds, Active, IsDecided, DeliveryAttempts
<1>4. ASSUME NEW p \in Deciders, ReclaimsLog(p)
      PROVE  SweepHolds'
  BY <1>4 DEF ReclaimsLog, log, bridge, history, SweepHolds, Active, IsDecided, DeliveryAttempts
<1>5. ASSUME Sees
      PROVE  SweepHolds'
  <2>1. sweep'.at = "seen" /\ sweep'.gate = Absent
    BY <1>5 DEF Sees, AtRest
  <2>2. decisions' = decisions
    BY <1>5 DEF Sees
  <2> QED
    BY <2>1, <2>2, <1>t, RestSnapshots DEF SweepHolds, Active
<1>6. ASSUME FoldsNoQuestion
      PROVE  SweepHolds'
  <2>1. CASE \E g \in GateIds : gates[g].state = "open" /\ Holding("expire", g)
    <3>1. PICK g \in GateIds : gates[g].state = "open" /\ Holding("expire", g)
      BY <2>1
    <3>p. "expire" \in SweepPoints
      BY DEF SweepPoints
    <3>2. sweep'.at = "expire" /\ sweep'.id = g /\ sweep'.gate = gates[g]
      BY <3>1, <3>p, HoldingTakes
    <3>3. GateSound(gates[g]) /\ decisions' = decisions
      BY <1>6 DEF GatesSound, FoldsNoQuestion
    <3> QED
      BY <3>1, <3>2, <3>3 DEF SweepHolds, Active, GateSound
  <2>2. CASE sweep' = AtRest
    <3>1. sweep'.at = "idle" /\ sweep'.gate = Absent /\ decisions' = decisions
      BY <1>6, <2>2 DEF AtRest, FoldsNoQuestion
    <3> QED
      BY <3>1, <1>t, RestSnapshots DEF SweepHolds, Active
  <2> QED
    BY <1>6, <2>1, <2>2 DEF FoldsNoQuestion
<1>7. ASSUME FoldsQuestion
      PROVE  SweepHolds'
  <2>1. ASSUME NEW g \in Matching(sweep.seen), NEW point \in {"reopen", "offer"},
               IsDecided(gates[g]), Holding(point, g)
        PROVE  SweepHolds'
    <3>1. g \in GateIds /\ gates[g].question = sweep.seen
      BY <2>1 DEF Matching
    <3>t. point \in SweepPoints /\ g \in 0..MaxGates /\ gates[g] \in Gate /\ sweep \in SweepSet
      BY <3>1, InteractionAssumption DEF SweepPoints, GateIds, TypeOK, SweepSet
    <3>2. sweep'.at = point /\ sweep'.id = g /\ sweep'.gate = gates[g] /\ sweep'.seen = sweep.seen
      BY <2>1, <3>t DEF Holding, SweepSet
    <3>3. GateSound(gates[g]) /\ decisions' = decisions /\ gates[g] \in Gate
      BY <1>7, <3>1 DEF GatesSound, FoldsQuestion, TypeOK
    <3>4. gates[g].decision \in 1..decisions
      BY <2>1, <3>3, <1>t, InteractionAssumption DEF GateSound, Gate
    <3>5. sweep.seen \in Questions
      BY <1>7, InteractionAssumption DEF FoldsQuestion, TypeOK, Questions
    <3> QED
      BY <2>1, <3>1, <3>2, <3>3, <3>4, <3>5 DEF SweepHolds, Active, GateSound
  <2>2. CASE sweep' = AtRest
    <3>1. sweep'.at = "idle" /\ sweep'.gate = Absent /\ decisions' = decisions
      BY <1>7, <2>2 DEF AtRest, FoldsQuestion
    <3> QED
      BY <3>1, <1>t, RestSnapshots DEF SweepHolds, Active
  <2>3. CASE minted < MaxGates /\ sweep' = [sweep EXCEPT !.at = "create"]
    <3>1. sweep'.at = "create" /\ sweep'.gate = sweep.gate /\ sweep'.seen = sweep.seen
      BY <2>3, SweepMoves DEF TypeOK, SweepSet, SweepPoints
    <3>2. sweep.seen \in Questions /\ decisions' = decisions /\ minted' = minted
      BY <1>7, InteractionAssumption DEF FoldsQuestion, TypeOK, Questions, log
    <3> QED
      BY <2>3, <3>1, <3>2 DEF SweepHolds, Active
  <2> QED
    BY <1>7, <2>1, <2>2, <2>3 DEF FoldsQuestion
<1>8. ASSUME Creates
      PROVE  SweepHolds'
  <2>1. sweep'.at = "idle" /\ sweep'.gate = Absent
    BY <1>8 DEF Creates, AtRest
  <2>2. decisions' = decisions
    BY <1>8 DEF Creates
  <2> QED
    BY <2>1, <2>2, <1>t, RestSnapshots DEF SweepHolds, Active
<1>9. ASSUME NEW x \in Gate, Recorded(x)
      PROVE  SweepHolds'
  <2>1. sweep'.at = "idle" /\ sweep'.gate = Absent
    BY <1>9 DEF Recorded, Appends, AtRest
  <2>2. decisions' = decisions
    BY <1>9 DEF Recorded, Appends
  <2> QED
    BY <2>1, <2>2, <1>t, RestSnapshots DEF SweepHolds, Active
<1>10. ASSUME OfferUnsent
      PROVE  SweepHolds'
  <2>1. /\ sweep.at = "offer" /\ sweep'.at = "unsent" /\ sweep'.id = sweep.id
        /\ sweep'.seen = sweep.seen /\ sweep'.gate = sweep.gate
    BY <1>10, SweepMoves DEF OfferUnsent, Offers, TypeOK, SweepSet, SweepPoints
  <2>2. decisions' = decisions
    BY <1>10 DEF OfferUnsent, Offers
  <2> QED
    BY <2>1, <2>2 DEF SweepHolds, Active
<1>11. ASSUME OfferRefused
      PROVE  SweepHolds'
  <2>1. /\ sweep.at = "offer" /\ sweep'.at = "failed" /\ sweep'.id = sweep.id
        /\ sweep'.seen = sweep.seen /\ sweep'.gate = sweep.gate
    BY <1>11, SweepMoves DEF OfferRefused, Offers, TypeOK, SweepSet, SweepPoints
  <2>2. decisions' = decisions
    BY <1>11 DEF OfferRefused, Offers
  <2> QED
    BY <2>1, <2>2 DEF SweepHolds, Active
<1>12. ASSUME OfferAdmitted
      PROVE  SweepHolds'
  <2>1. /\ sweep.at = "offer" /\ sweep'.at = "wait" /\ sweep'.id = sweep.id
        /\ sweep'.seen = sweep.seen /\ sweep'.gate = sweep.gate
    BY <1>12, SweepMoves DEF OfferAdmitted, Offers, TypeOK, SweepSet, SweepPoints
  <2>2. decisions' = decisions
    BY <1>12 DEF OfferAdmitted, Offers
  <2> QED
    BY <2>1, <2>2 DEF SweepHolds, Active
<1>13. ASSUME GivesUp
      PROVE  SweepHolds'
  <2>1. /\ sweep.at = "wait" /\ sweep'.at = "failed" /\ sweep'.id = sweep.id
        /\ sweep'.seen = sweep.seen /\ sweep'.gate = sweep.gate
    BY <1>13, SweepMoves DEF GivesUp, TypeOK, SweepSet, SweepPoints
  <2>2. decisions' = decisions
    BY <1>13 DEF GivesUp
  <2> QED
    BY <2>1, <2>2 DEF SweepHolds, Active
<1>14. ASSUME Crash
      PROVE  SweepHolds'
  <2>1. sweep'.at = "idle" /\ sweep'.gate = Absent
    BY <1>14 DEF Crash, AtRest
  <2>2. decisions' = decisions
    BY <1>14 DEF Crash, log
  <2> QED
    BY <2>1, <2>2, <1>t, RestSnapshots DEF SweepHolds, Active
<1>15. ASSUME Asks
      PROVE  SweepHolds'
  BY <1>15 DEF Asks, log, bridge, history, SweepHolds, Active, IsDecided, DeliveryAttempts
<1>16. ASSUME TurnEnds
      PROVE  SweepHolds'
  BY <1>16 DEF TurnEnds, log, bridge, history, SweepHolds, Active, IsDecided, DeliveryAttempts
<1>17. ASSUME AnswersDirectly
      PROVE  SweepHolds'
  BY <1>17, <1>t, InteractionAssumption DEF AnswersDirectly, log, history, TypeOK, Gate, Failures, SweepHolds, Active, IsDecided, DeliveryAttempts
<1>18. ASSUME NEW c \in calls, Writes(c)
      PROVE  SweepHolds'
  BY <1>18 DEF Writes, log, bridge, history, SweepHolds, Active, IsDecided, DeliveryAttempts
<1>19. ASSUME NEW c \in calls, Returns(c)
      PROVE  SweepHolds'
  <2>1. CASE sweep' = sweep
    BY <1>19, <2>1 DEF Returns, Ends, log, SweepHolds, Active
  <2>2. CASE sweep.at = "wait" /\ sweep' = [sweep EXCEPT !.at = "apply"]
    <3>1. /\ sweep'.at = "apply" /\ sweep'.id = sweep.id
          /\ sweep'.seen = sweep.seen /\ sweep'.gate = sweep.gate
      BY <2>2, SweepMoves DEF TypeOK, SweepSet, SweepPoints
    <3>2. decisions' = decisions
      BY <1>19 DEF Returns, Ends
    <3> QED
      BY <2>2, <3>1, <3>2 DEF SweepHolds, Active
  <2> QED
    BY <1>19, <2>1, <2>2 DEF Returns, Ends
<1>20. ASSUME NEW c \in calls, Refuses(c)
      PROVE  SweepHolds'
  <2>1. CASE sweep' = sweep
    BY <1>20, <2>1 DEF Refuses, Ends, log, SweepHolds, Active
  <2>2. CASE sweep.at = "wait" /\ sweep' = [sweep EXCEPT !.at = "failed"]
    <3>1. /\ sweep'.at = "failed" /\ sweep'.id = sweep.id
          /\ sweep'.seen = sweep.seen /\ sweep'.gate = sweep.gate
      BY <2>2, SweepMoves DEF TypeOK, SweepSet, SweepPoints
    <3>2. decisions' = decisions
      BY <1>20 DEF Refuses, Ends
    <3> QED
      BY <2>2, <3>1, <3>2 DEF SweepHolds, Active
  <2> QED
    BY <1>20, <2>1, <2>2 DEF Refuses, Ends
<1>21. ASSUME NEW c \in calls, Breaks(c)
      PROVE  SweepHolds'
  <2>1. CASE sweep' = sweep
    BY <1>21, <2>1 DEF Breaks, Ends, log, SweepHolds, Active
  <2>2. CASE sweep.at = "wait" /\ sweep' = [sweep EXCEPT !.at = "failed"]
    <3>1. /\ sweep'.at = "failed" /\ sweep'.id = sweep.id
          /\ sweep'.seen = sweep.seen /\ sweep'.gate = sweep.gate
      BY <2>2, SweepMoves DEF TypeOK, SweepSet, SweepPoints
    <3>2. decisions' = decisions
      BY <1>21 DEF Breaks, Ends
    <3> QED
      BY <2>2, <3>1, <3>2 DEF SweepHolds, Active
  <2> QED
    BY <1>21, <2>1, <2>2 DEF Breaks, Ends
<1>22. ASSUME UNCHANGED vars
      PROVE  SweepHolds'
  BY <1>22 DEF vars, log, bridge, history, SweepHolds, Active, IsDecided, DeliveryAttempts
<1>23. CASE SweepRecords
  <2>1. PICK x \in Gate : Recorded(x)
    BY <1>23, RecordKinds DEF IInv, Custody
  <2> QED
    BY <1>9, <2>1
<1> QED
  BY <1>1, <1>2, <1>3, <1>4, <1>5, <1>6, <1>7, <1>8, <1>10, <1>11, <1>12, <1>13, <1>14, <1>15, <1>16, <1>17, <1>18, <1>19, <1>20, <1>21, <1>22, <1>23
  DEF Next, Decider, Sweep, Bridge, SweepRecords

\* A step keeps the gates sound.
LEMMA GatesSoundStep == IInv /\ [Next]_vars => GatesSound'
<1> SUFFICES ASSUME IInv, [Next]_vars PROVE GatesSound'
  OBVIOUS
<1> USE DEF IInv, Custody
<1>t. TypeOK' /\ decisions \in Nat
  BY TypeStep, InteractionAssumption DEF TypeOK
<1>1. ASSUME NEW p \in Deciders, NEW g \in GateIds, ReadsGate(p, g)
      PROVE  GatesSound'
  <2>1. GateSound(gates[g]) /\ gates[g].question # 0 /\ gates' = gates /\ decisions' = decisions
    BY <1>1 DEF ReadsGate, log, GatesSound, GateSound
  <2>2. deciders' = [deciders EXCEPT ![p] = [at |-> "read", id |-> g, gate |-> gates[g]]]
    BY <1>1 DEF ReadsGate
  <2> DEFINE new == [at |-> "read", id |-> g, gate |-> gates[g]]
  <2>3. new.id = g /\ new.gate = gates[g]
    OBVIOUS
  <2>4. \A r \in Deciders : deciders'[r] = IF r = p THEN new ELSE deciders[r]
    BY <2>2 DEF TypeOK
  <2> HIDE DEF new
  <2>5. ASSUME NEW r \in Deciders
        PROVE  /\ deciders'[r].gate.failure.decision <= decisions'
               /\ deciders'[r].at = "read" => deciders'[r].gate.question # 0
               /\ deciders'[r].at \in {"read", "delete"} => deciders'[r].id \in GateIds
    BY <1>1, <2>1, <2>3, <2>4 DEF GatesSound, GateSound
  <2> QED
    BY <2>1, <2>5 DEF GatesSound, GateSound, IsDecided, DeliveryAttempts
<1>2. ASSUME NEW p \in Deciders, NEW st \in {"decided", "cancelled"},
             NEW note \in {"none", "valid", "invalid"}, AppendsDecision(p, st, note)
      PROVE  GatesSound'
  <2>n. PICK n \in Decisions : n = decisions + 1
    BY <1>2, InteractionAssumption DEF AppendsDecision, TypeOK, Decisions
  <2>1. deciders[p].gate \in Gate /\ decisions' = n /\ deciders[p].id \in GateIds
    BY <1>2, <2>n DEF AppendsDecision, TypeOK, GatesSound
  <2>h. PICK h \in Gate : h = deciders[p].gate
    BY <2>1
  <2>x. PICK x \in Gate : x = Decide(h, st, n, note)
    BY DecidedSnapshot
  <2>2. /\ x.state = st /\ x.decision = n
        /\ x.question = deciders[p].gate.question /\ x.failure = deciders[p].gate.failure
    BY <2>h, <2>x DEF Decide, Gate
  <2>3. deciders[p].gate.failure.decision <= decisions /\ deciders[p].gate.question # 0
    BY <1>2 DEF GatesSound, AppendsDecision
  <2>4. \A g \in GateIds : gates'[g] = IF g = deciders[p].id THEN x ELSE gates[g]
    BY <1>2, <2>1, <2>n, <2>h, <2>x DEF AppendsDecision, TypeOK
  <2>5. deciders[p].gate.failure.decision \in Nat
    BY <2>1, InteractionAssumption DEF Gate, Failures
  <2>6. GateSound(x)'
    BY <1>t, <2>1, <2>n, <2>2, <2>3, <2>5, InteractionAssumption DEF GateSound, IsDecided, DeliveryAttempts
  <2>7. ASSUME NEW g \in GateIds PROVE GateSound(gates[g])'
    <3>1. CASE g = deciders[p].id
      BY <2>4, <2>6, <3>1 DEF GateSound, IsDecided, DeliveryAttempts
    <3>2. CASE g # deciders[p].id
      <4>1. GateSound(gates[g]) /\ gates[g] \in Gate /\ gates'[g] = gates[g]
        BY <2>4, <3>2 DEF GatesSound, TypeOK
      <4> QED
        BY <1>t, <2>1, <2>n, <4>1, InteractionAssumption DEF GateSound, IsDecided, DeliveryAttempts, Gate, Failures
    <3> QED
      BY <3>1, <3>2
  <2>8. deciders[p].at = "read" /\ \A r \in Deciders : deciders[r].gate \in Gate
    BY <1>2 DEF AppendsDecision, TypeOK
  <2>9. ASSUME NEW r \in Deciders
        PROVE  /\ deciders'[r].gate.failure.decision <= decisions'
               /\ deciders'[r].at = "read" => deciders'[r].gate.question # 0
               /\ deciders'[r].at \in {"read", "delete"} => deciders'[r].id \in GateIds
    <3>1. CASE r # p
      BY <1>2, <3>1, <1>t, <2>1, <2>n, <2>8, InteractionAssumption DEF Gate, Failures, AppendsDecision, GatesSound, TypeOK
    <3>2. CASE r = p
      <4>1. deciders'[p].gate = Absent /\ deciders'[p].at # "read"
        BY <1>2 DEF AppendsDecision, AfterDecision, TypeOK
      <4>2. deciders'[p].at = "delete" => deciders'[p].id \in GateIds
        BY <1>2 DEF AppendsDecision, AfterDecision, TypeOK, GatesSound
      <4>3. decisions' \in Nat
        BY <1>t, InteractionAssumption DEF TypeOK
      <4> QED
        BY <3>2, <4>1, <4>2, <4>3, RestSnapshots
    <3> QED
      BY <3>1, <3>2
  <2> QED
    BY <2>7, <2>9 DEF GatesSound
<1>3. ASSUME NEW p \in Deciders, DeletesGate(p)
      PROVE  GatesSound'
  <2>1. decisions' = decisions /\ \A g \in GateIds : gates'[g] = gates[g] \/ gates'[g] = Absent
    BY <1>3 DEF DeletesGate, TypeOK
  <2>2. ASSUME NEW g \in GateIds PROVE GateSound(gates[g])'
    BY <1>t, <2>1, <2>2, RestSnapshots DEF GatesSound, GateSound, IsDecided, DeliveryAttempts
  <2>3. ASSUME NEW r \in Deciders
        PROVE  /\ deciders'[r].gate.failure.decision <= decisions'
               /\ deciders'[r].at = "read" => deciders'[r].gate.question # 0
               /\ deciders'[r].at \in {"read", "delete"} => deciders'[r].id \in GateIds
    <3>1. CASE r # p
      BY <1>3, <3>1, <1>t DEF DeletesGate, GatesSound, TypeOK
    <3>2. CASE r = p
      <4>1. deciders'[p].gate = Absent /\ deciders'[p].at # "read"
        BY <1>3 DEF DeletesGate, AfterDecision, TypeOK
      <4>2. deciders'[p].at = "delete" => deciders'[p].id \in GateIds
        BY <1>3 DEF DeletesGate, AfterDecision, TypeOK, GatesSound
      <4>3. decisions' \in Nat
        BY <1>t, InteractionAssumption DEF TypeOK
      <4> QED
        BY <3>2, <4>1, <4>2, <4>3, RestSnapshots
    <3> QED
      BY <3>1, <3>2
  <2> QED
    BY <2>2, <2>3 DEF GatesSound
<1>4. ASSUME NEW p \in Deciders, ReclaimsLog(p)
      PROVE  GatesSound'
  <2>1. decisions' = decisions /\ \A g \in GateIds : gates'[g] = gates[g] \/ gates'[g] = Absent
    BY <1>4 DEF ReclaimsLog, TypeOK
  <2>2. ASSUME NEW g \in GateIds PROVE GateSound(gates[g])'
    BY <1>t, <2>1, <2>2, RestSnapshots DEF GatesSound, GateSound, IsDecided, DeliveryAttempts
  <2>3. ASSUME NEW r \in Deciders
        PROVE  /\ deciders'[r].gate.failure.decision <= decisions'
               /\ deciders'[r].at = "read" => deciders'[r].gate.question # 0
               /\ deciders'[r].at \in {"read", "delete"} => deciders'[r].id \in GateIds
    <3>1. CASE r # p
      BY <1>4, <3>1, <1>t DEF ReclaimsLog, GatesSound, TypeOK
    <3>2. CASE r = p
      <4>1. deciders'[p].gate = Absent /\ deciders'[p].at # "read"
        BY <1>4 DEF ReclaimsLog, AfterDecision, TypeOK
      <4>2. deciders'[p].at = "delete" => deciders'[p].id \in GateIds
        BY <1>4 DEF ReclaimsLog, AfterDecision, TypeOK, GatesSound
      <4>3. decisions' \in Nat
        BY <1>t, InteractionAssumption DEF TypeOK
      <4> QED
        BY <3>2, <4>1, <4>2, <4>3, RestSnapshots
    <3> QED
      BY <3>1, <3>2
  <2> QED
    BY <2>2, <2>3 DEF GatesSound
<1>5. ASSUME Sees
      PROVE  GatesSound'
  BY <1>5 DEF Sees, log, bridge, history, GatesSound, GateSound, IsDecided, DeliveryAttempts
<1>6. ASSUME FoldsNoQuestion
      PROVE  GatesSound'
  BY <1>6 DEF FoldsNoQuestion, log, bridge, history, GatesSound, GateSound, IsDecided, DeliveryAttempts
<1>7. ASSUME FoldsQuestion
      PROVE  GatesSound'
  BY <1>7 DEF FoldsQuestion, log, bridge, history, GatesSound, GateSound, IsDecided, DeliveryAttempts
<1>8. ASSUME Creates
      PROVE  GatesSound'
  <2>1. sweep.seen \in Questions /\ sweep.seen # 0
    BY <1>8 DEF Creates, SweepHolds, Questions
  <2>2. /\ decisions' = decisions /\ deciders' = deciders
        /\ \A g \in GateIds : gates'[g] = gates[g] \/ gates'[g] = Fresh(sweep.seen)
    BY <1>8 DEF Creates, TypeOK
  <2>3. ASSUME NEW g \in GateIds PROVE GateSound(gates[g])'
    BY <1>t, <2>1, <2>2, FreshSnapshot, RestSnapshots DEF GatesSound, GateSound, IsDecided, DeliveryAttempts, NoFailure
  <2> QED
    BY <2>2, <2>3 DEF GatesSound
<1>9. ASSUME NEW x \in Gate, Recorded(x)
      PROVE  GatesSound'
  <2>1. /\ decisions' = decisions /\ deciders' = deciders
        /\ \A g \in GateIds : gates'[g] = gates[g] \/ gates'[g] = x
    BY <1>9 DEF Recorded, Appends, TypeOK
  <2>2. GateSound(x)'
    <3>1. CASE RecordsExpiry(x)
      BY <2>1, <3>1, <1>t DEF RecordsExpiry, SweepHolds, GateSound, IsDecided, DeliveryAttempts
    <3>2. CASE RecordsApplied(x)
      BY <2>1, <3>2, <1>t DEF RecordsApplied, SweepHolds, Active, GateSound, IsDecided, DeliveryAttempts, Questions
    <3>3. CASE RecordsReopened(x)
      BY <2>1, <3>3, <1>t DEF RecordsReopened, SweepHolds, Active, GateSound, IsDecided, DeliveryAttempts, Questions
    <3>4. CASE RecordsAttempt(x)
      BY <2>1, <3>4, <1>t DEF RecordsAttempt, SweepHolds, Active, GateSound, IsDecided, DeliveryAttempts, Questions
    <3> QED
      BY <1>9, <3>1, <3>2, <3>3, <3>4 DEF Recorded
  <2>3. ASSUME NEW g \in GateIds PROVE GateSound(gates[g])'
    BY <2>1, <2>2 DEF GatesSound, GateSound, IsDecided, DeliveryAttempts
  <2> QED
    BY <2>1, <2>3 DEF GatesSound
<1>10. ASSUME OfferUnsent
      PROVE  GatesSound'
  BY <1>10 DEF OfferUnsent, Offers, log, bridge, history, GatesSound, GateSound, IsDecided, DeliveryAttempts
<1>11. ASSUME OfferRefused
      PROVE  GatesSound'
  BY <1>11 DEF OfferRefused, Offers, log, bridge, history, GatesSound, GateSound, IsDecided, DeliveryAttempts
<1>12. ASSUME OfferAdmitted
      PROVE  GatesSound'
  BY <1>12 DEF OfferAdmitted, Offers, log, bridge, history, GatesSound, GateSound, IsDecided, DeliveryAttempts
<1>13. ASSUME GivesUp
      PROVE  GatesSound'
  BY <1>13 DEF GivesUp, log, bridge, history, GatesSound, GateSound, IsDecided, DeliveryAttempts
<1>14. ASSUME Crash
      PROVE  GatesSound'
  BY <1>14 DEF Crash, log, bridge, history, GatesSound, GateSound, IsDecided, DeliveryAttempts
<1>15. ASSUME Asks
      PROVE  GatesSound'
  BY <1>15 DEF Asks, log, bridge, history, GatesSound, GateSound, IsDecided, DeliveryAttempts
<1>16. ASSUME TurnEnds
      PROVE  GatesSound'
  BY <1>16 DEF TurnEnds, log, bridge, history, GatesSound, GateSound, IsDecided, DeliveryAttempts
<1>17. ASSUME AnswersDirectly
      PROVE  GatesSound'
  BY <1>17, <1>t, InteractionAssumption DEF AnswersDirectly, TypeOK, Gate, Failures, log, bridge, history, GatesSound, GateSound, IsDecided, DeliveryAttempts
<1>18. ASSUME NEW c \in calls, Writes(c)
      PROVE  GatesSound'
  BY <1>18 DEF Writes, log, bridge, history, GatesSound, GateSound, IsDecided, DeliveryAttempts
<1>19. ASSUME NEW c \in calls, Returns(c)
      PROVE  GatesSound'
  BY <1>19 DEF Returns, Ends, log, bridge, history, GatesSound, GateSound, IsDecided, DeliveryAttempts
<1>20. ASSUME NEW c \in calls, Refuses(c)
      PROVE  GatesSound'
  BY <1>20 DEF Refuses, Ends, log, bridge, history, GatesSound, GateSound, IsDecided, DeliveryAttempts
<1>21. ASSUME NEW c \in calls, Breaks(c)
      PROVE  GatesSound'
  BY <1>21 DEF Breaks, Ends, log, bridge, history, GatesSound, GateSound, IsDecided, DeliveryAttempts
<1>22. ASSUME UNCHANGED vars
      PROVE  GatesSound'
  BY <1>22 DEF vars, log, bridge, history, GatesSound, GateSound, IsDecided, DeliveryAttempts
<1>23. CASE SweepRecords
  <2>1. PICK x \in Gate : Recorded(x)
    BY <1>23, RecordKinds DEF IInv, Custody
  <2> QED
    BY <1>9, <2>1
<1> QED
  BY <1>1, <1>2, <1>3, <1>4, <1>5, <1>6, <1>7, <1>8, <1>10, <1>11, <1>12, <1>13, <1>14, <1>15, <1>16, <1>17, <1>18, <1>19, <1>20, <1>21, <1>22, <1>23
  DEF Next, Decider, Sweep, Bridge, SweepRecords

\* A decision stays in one gate.
LEMMA OneGateStep == IInv /\ [Next]_vars => OneGate'
<1> SUFFICES ASSUME IInv, [Next]_vars PROVE OneGate'
  OBVIOUS
<1> USE DEF IInv, Custody
<1>t. TypeOK' /\ decisions \in Nat
  BY TypeStep, InteractionAssumption DEF TypeOK
<1>1. ASSUME NEW p \in Deciders, NEW g \in GateIds, ReadsGate(p, g)
      PROVE  OneGate'
  BY <1>1 DEF ReadsGate, log, bridge, history, OneGate, Active
<1>2. ASSUME NEW p \in Deciders, NEW st \in {"decided", "cancelled"},
             NEW note \in {"none", "valid", "invalid"}, AppendsDecision(p, st, note)
      PROVE  OneGate'
  <2>n. PICK n \in Decisions : n = decisions + 1
    BY <1>2, InteractionAssumption DEF AppendsDecision, TypeOK, Decisions
  <2>1. deciders[p].gate \in Gate /\ deciders[p].id \in GateIds /\ sweep' = sweep
    BY <1>2 DEF AppendsDecision, TypeOK, GatesSound
  <2>h. PICK h \in Gate : h = deciders[p].gate
    BY <2>1
  <2>x. PICK x \in Gate : x = Decide(h, st, n, note)
    BY DecidedSnapshot
  <2>2. x.decision = n
    BY <2>h, <2>x DEF Decide, Gate
  <2>3. \A g \in GateIds : gates'[g] = IF g = deciders[p].id THEN x ELSE gates[g]
    BY <1>2, <2>1, <2>n, <2>h, <2>x DEF AppendsDecision, TypeOK
  <2>4. \A g \in GateIds : gates[g].decision < n
    BY <1>t, <2>n, InteractionAssumption DEF GatesSound, GateSound, TypeOK, Gate
  <2>5. Active => sweep.gate.decision < n
    BY <1>t, <2>n DEF SweepHolds
  <2> QED
    BY <2>1, <2>2, <2>3, <2>4, <2>5, <2>n, <1>t DEF OneGate, Active
<1>3. ASSUME NEW p \in Deciders, DeletesGate(p)
      PROVE  OneGate'
  <2>1. sweep' = sweep /\ \A g \in GateIds : gates'[g] = gates[g] \/ gates'[g].decision = 0
    BY <1>3, RestSnapshots DEF DeletesGate, TypeOK
  <2>2. Active => sweep.gate.decision # 0
    BY <1>t DEF SweepHolds
  <2> QED
    BY <2>1, <2>2 DEF OneGate, Active
<1>4. ASSUME NEW p \in Deciders, ReclaimsLog(p)
      PROVE  OneGate'
  <2>1. sweep' = sweep /\ \A g \in GateIds : gates'[g] = gates[g] \/ gates'[g].decision = 0
    BY <1>4, RestSnapshots DEF ReclaimsLog, TypeOK
  <2>2. Active => sweep.gate.decision # 0
    BY <1>t DEF SweepHolds
  <2> QED
    BY <2>1, <2>2 DEF OneGate, Active
<1>5. ASSUME Sees
      PROVE  OneGate'
  <2>1. gates' = gates
    BY <1>5 DEF Sees, log
  <2>2. ~Active'
    BY <1>5 DEF Sees, AtRest, Active
  <2> QED
    BY <2>1, <2>2 DEF OneGate
<1>6. ASSUME FoldsNoQuestion
      PROVE  OneGate'
  <2>1. gates' = gates
    BY <1>6 DEF FoldsNoQuestion, log
  <2>2. ~Active'
    <3>1. ASSUME NEW g \in GateIds, Holding("expire", g) PROVE ~Active'
      <4>1. sweep'.at = "expire"
        BY <3>1 DEF Holding, TypeOK
      <4> QED
        BY <4>1 DEF Active
    <3> QED
      BY <1>6, <3>1 DEF FoldsNoQuestion, AtRest, Active
  <2> QED
    BY <2>1, <2>2 DEF OneGate
<1>7. ASSUME FoldsQuestion
      PROVE  OneGate'
  <2>1. gates' = gates
    BY <1>7 DEF FoldsQuestion, log
  <2>2. ASSUME NEW g \in Matching(sweep.seen), NEW point \in {"reopen", "offer"},
               IsDecided(gates[g]), Holding(point, g)
        PROVE  OneGate'
    <3>1. g \in GateIds
      BY <2>2 DEF Matching
    <3>p. point \in SweepPoints
      BY DEF SweepPoints
    <3>2. sweep'.at = point /\ sweep'.id = g /\ sweep'.gate = gates[g]
      BY <2>2, <3>1, <3>p, HoldingTakes
    <3>3. gates[g].decision # 0
      BY <2>2, <3>1 DEF GatesSound, GateSound
    <3> QED
      BY <2>1, <3>1, <3>2, <3>3 DEF OneGate, Active
  <2>3. CASE sweep' = AtRest
    BY <2>1, <2>3 DEF OneGate, AtRest, Active
  <2>4. CASE sweep' = [sweep EXCEPT !.at = "create"]
    <3>1. ~Active'
      BY <2>4 DEF Active, TypeOK
    <3> QED
      BY <2>1, <3>1 DEF OneGate
  <2> QED
    BY <1>7, <2>2, <2>3, <2>4 DEF FoldsQuestion
<1>8. ASSUME Creates
      PROVE  OneGate'
  <2>1. sweep.seen \in Questions
    BY <1>8 DEF Creates, SweepHolds
  <2>2. \A g \in GateIds : gates'[g] = gates[g] \/ gates'[g].decision = 0
    BY <1>8, <2>1, FreshSnapshot DEF Creates, TypeOK
  <2>3. ~Active'
    BY <1>8 DEF Creates, AtRest, Active
  <2> QED
    BY <2>2, <2>3 DEF OneGate
<1>9. ASSUME NEW x \in Gate, Recorded(x)
      PROVE  OneGate'
  <2>1. \A g \in GateIds : gates'[g] = IF g = sweep.id THEN x ELSE gates[g]
    BY <1>9 DEF Recorded, Appends, TypeOK
  <2>2. x.decision = 0 \/ (Active /\ x.decision = sweep.gate.decision)
    BY <1>9 DEF Recorded, RecordsExpiry, RecordsApplied, RecordsReopened, RecordsAttempt, Active
  <2>3. ~Active'
    BY <1>9 DEF Recorded, Appends, AtRest, Active
  <2> QED
    BY <2>1, <2>2, <2>3 DEF OneGate
<1>10. ASSUME OfferUnsent
      PROVE  OneGate'
  <2>1. /\ sweep.at = "offer" /\ sweep'.id = sweep.id /\ sweep'.gate = sweep.gate
    BY <1>10, SweepMoves DEF OfferUnsent, Offers, TypeOK, SweepSet, SweepPoints
  <2>2. gates' = gates
    BY <1>10 DEF OfferUnsent, Offers, log
  <2> QED
    BY <2>1, <2>2 DEF OneGate, Active
<1>11. ASSUME OfferRefused
      PROVE  OneGate'
  <2>1. /\ sweep.at = "offer" /\ sweep'.id = sweep.id /\ sweep'.gate = sweep.gate
    BY <1>11, SweepMoves DEF OfferRefused, Offers, TypeOK, SweepSet, SweepPoints
  <2>2. gates' = gates
    BY <1>11 DEF OfferRefused, Offers, log
  <2> QED
    BY <2>1, <2>2 DEF OneGate, Active
<1>12. ASSUME OfferAdmitted
      PROVE  OneGate'
  <2>1. /\ sweep.at = "offer" /\ sweep'.id = sweep.id /\ sweep'.gate = sweep.gate
    BY <1>12, SweepMoves DEF OfferAdmitted, Offers, TypeOK, SweepSet, SweepPoints
  <2>2. gates' = gates
    BY <1>12 DEF OfferAdmitted, Offers, log
  <2> QED
    BY <2>1, <2>2 DEF OneGate, Active
<1>13. ASSUME GivesUp
      PROVE  OneGate'
  <2>1. /\ sweep.at = "wait" /\ sweep'.id = sweep.id /\ sweep'.gate = sweep.gate
    BY <1>13, SweepMoves DEF GivesUp, TypeOK, SweepSet, SweepPoints
  <2>2. gates' = gates
    BY <1>13 DEF GivesUp, log
  <2> QED
    BY <2>1, <2>2 DEF OneGate, Active
<1>14. ASSUME Crash
      PROVE  OneGate'
  <2>1. gates' = gates
    BY <1>14 DEF Crash, log
  <2>2. ~Active'
    BY <1>14 DEF Crash, AtRest, Active
  <2> QED
    BY <2>1, <2>2 DEF OneGate
<1>15. ASSUME Asks
      PROVE  OneGate'
  BY <1>15 DEF Asks, log, bridge, history, OneGate, Active
<1>16. ASSUME TurnEnds
      PROVE  OneGate'
  BY <1>16 DEF TurnEnds, log, bridge, history, OneGate, Active
<1>17. ASSUME AnswersDirectly
      PROVE  OneGate'
  BY <1>17 DEF AnswersDirectly, log, bridge, history, OneGate, Active
<1>18. ASSUME NEW c \in calls, Writes(c)
      PROVE  OneGate'
  BY <1>18 DEF Writes, log, bridge, history, OneGate, Active
<1>19. ASSUME NEW c \in calls, Returns(c)
      PROVE  OneGate'
  <2>1. gates' = gates
    BY <1>19 DEF Returns, Ends, log
  <2>2. CASE sweep' = sweep
    BY <2>1, <2>2 DEF OneGate, Active
  <2>3. CASE sweep.at = "wait" /\ sweep' = [sweep EXCEPT !.at = "apply"]
    <3>1. sweep'.id = sweep.id /\ sweep'.gate = sweep.gate
      BY <2>3, SweepMoves DEF TypeOK, SweepSet, SweepPoints
    <3> QED
      BY <2>1, <2>3, <3>1 DEF OneGate, Active
  <2> QED
    BY <1>19, <2>2, <2>3 DEF Returns, Ends
<1>20. ASSUME NEW c \in calls, Refuses(c)
      PROVE  OneGate'
  <2>1. gates' = gates
    BY <1>20 DEF Refuses, Ends, log
  <2>2. CASE sweep' = sweep
    BY <2>1, <2>2 DEF OneGate, Active
  <2>3. CASE sweep.at = "wait" /\ sweep' = [sweep EXCEPT !.at = "failed"]
    <3>1. sweep'.id = sweep.id /\ sweep'.gate = sweep.gate
      BY <2>3, SweepMoves DEF TypeOK, SweepSet, SweepPoints
    <3> QED
      BY <2>1, <2>3, <3>1 DEF OneGate, Active
  <2> QED
    BY <1>20, <2>2, <2>3 DEF Refuses, Ends
<1>21. ASSUME NEW c \in calls, Breaks(c)
      PROVE  OneGate'
  <2>1. gates' = gates
    BY <1>21 DEF Breaks, Ends, log
  <2>2. CASE sweep' = sweep
    BY <2>1, <2>2 DEF OneGate, Active
  <2>3. CASE sweep.at = "wait" /\ sweep' = [sweep EXCEPT !.at = "failed"]
    <3>1. sweep'.id = sweep.id /\ sweep'.gate = sweep.gate
      BY <2>3, SweepMoves DEF TypeOK, SweepSet, SweepPoints
    <3> QED
      BY <2>1, <2>3, <3>1 DEF OneGate, Active
  <2> QED
    BY <1>21, <2>2, <2>3 DEF Breaks, Ends
<1>22. ASSUME UNCHANGED vars
      PROVE  OneGate'
  BY <1>22 DEF vars, log, bridge, history, OneGate, Active
<1>23. CASE SweepRecords
  <2>1. PICK x \in Gate : Recorded(x)
    BY <1>23, RecordKinds DEF IInv, Custody
  <2> QED
    BY <1>9, <2>1
<1> QED
  BY <1>1, <1>2, <1>3, <1>4, <1>5, <1>6, <1>7, <1>8, <1>10, <1>11, <1>12, <1>13, <1>14, <1>15, <1>16, <1>17, <1>18, <1>19, <1>20, <1>21, <1>22, <1>23
  DEF Next, Decider, Sweep, Bridge, SweepRecords

-----------------------------------------------------------------------------
(* Accounting.                                                             *)

\* The offers, the attempts and what was not recorded are numbers.
LEMMA Counts ==
    ASSUME TypeOK
    PROVE  /\ \A d \in Decisions : offers[d] \in Nat /\ unrecorded[d] \in Nat
           /\ \A g \in GateIds : DeliveryAttempts(gates[g]) \in Nat /\ gates[g].decision \in 0..MaxDecisions
           /\ DeliveryAttempts(sweep.gate) \in Nat
           /\ AttemptLimit \in Nat /\ decisions \in Nat /\ crashes \in Nat
BY Attempts, InteractionAssumption DEF TypeOK, Gate

\* Accounting survives a step that makes no offer, records none and takes no
\* decided gate but a new one.
LEMMA AccountingKept ==
    ASSUME IInv, offers' = offers, unrecorded' = unrecorded, crashes' = crashes,
           decisions' \in Nat, decisions' >= decisions,
           \A d \in Decisions : OutOf(sweep', d) = OutOf(sweep, d),
           \A g \in GateIds : IsDecided(gates'[g]) =>
                \/ gates'[g] = gates[g]
                \/ gates'[g].decision > decisions /\ gates'[g].decision \in Decisions
                   /\ DeliveryAttempts(gates'[g]) \in Nat,
           Active' => Active /\ sweep'.gate = sweep.gate
    PROVE  Accounting'
<1> USE DEF IInv, Custody
<1>1. /\ \A d \in Decisions : offers[d] \in Nat /\ unrecorded[d] \in Nat
      /\ decisions \in Nat /\ \A d \in Decisions : OutOf(sweep, d) \in 0..1
  BY Counts DEF OutOf
<1>2. \A d \in Decisions : unrecorded'[d] <= crashes'
  BY DEF Accounting, Paid
<1>3. \A d \in Decisions : d > decisions' => offers'[d] = 0
  BY <1>1, InteractionAssumption DEF Accounting, Paid, Decisions
<1>4. \A d \in Decisions : offers'[d] <= AttemptLimit + unrecorded'[d]
  BY DEF Accounting, Paid
<1>5. ASSUME NEW g \in GateIds, IsDecided(gates'[g])
      PROVE  Paid(gates'[g], offers', unrecorded', sweep')
  <2>1. CASE gates'[g] = gates[g]
    <3>1. gates[g].decision \in Decisions
      BY <1>5, <2>1, Counts DEF GatesSound, GateSound, Decisions
    <3> QED
      BY <1>5, <2>1, <3>1 DEF Accounting, Paid
  <2>2. CASE /\ gates'[g].decision > decisions /\ gates'[g].decision \in Decisions
             /\ DeliveryAttempts(gates'[g]) \in Nat
    <3>1. offers[gates'[g].decision] = 0
      BY <2>2 DEF Accounting, Paid
    <3> QED
      BY <1>1, <2>2, <3>1 DEF Paid
  <2> QED
    BY <1>5, <2>1, <2>2
<1>6. ASSUME Active'
      PROVE  Paid(sweep'.gate, offers', unrecorded', sweep')
  <2>1. Active /\ sweep'.gate = sweep.gate
    BY <1>6
  <2>2. sweep.gate.decision \in Decisions
    BY <2>1, Counts, InteractionAssumption DEF SweepHolds, Decisions, TypeOK
  <2> QED
    BY <2>1, <2>2 DEF Accounting, Paid
<1> QED
  BY <1>2, <1>3, <1>4, <1>5, <1>6 DEF Accounting, IsDecided, DeliveryAttempts

\* The ways a step leaves the sweep.
LEMMA EndsSweep ==
    ASSUME TypeOK, NEW c \in calls, NEW point \in SweepPoints, Ends(c, point)
    PROVE  \/ sweep' = sweep
           \/ /\ sweep.at = "wait" /\ sweep'.at = point
              /\ sweep'.seen = sweep.seen /\ sweep'.id = sweep.id /\ sweep'.gate = sweep.gate
              /\ sweep.seen = c.question /\ sweep.gate.decision = c.decision
<1>1. CASE sweep' = sweep
  BY <1>1
<1>2. CASE /\ sweep.at = "wait" /\ sweep' = [sweep EXCEPT !.at = point]
           /\ sweep.seen = c.question /\ sweep.gate.decision = c.decision
  BY <1>2, SweepMoves DEF TypeOK, SweepSet
<1> QED
  BY <1>1, <1>2 DEF Ends

\* The sweep and the gate it takes in FoldsQuestion.
LEMMA FoldsTo ==
    ASSUME TypeOK, FoldsQuestion
    PROVE  \/ /\ ~Active'
              /\ sweep'.at \notin {"apply", "failed", "wait"}
           \/ \E g \in GateIds : /\ IsDecided(gates[g]) /\ sweep'.at \in {"reopen", "offer"}
                                 /\ sweep'.id = g /\ sweep'.gate = gates[g]
                                 /\ gates[g].question = sweep.seen
<1>1. ASSUME NEW g \in Matching(sweep.seen), NEW point \in {"reopen", "offer"},
             IsDecided(gates[g]), Holding(point, g)
      PROVE  /\ g \in GateIds /\ IsDecided(gates[g]) /\ sweep'.at \in {"reopen", "offer"}
             /\ sweep'.id = g /\ sweep'.gate = gates[g] /\ gates[g].question = sweep.seen
  <2>1. g \in GateIds /\ gates[g].question = sweep.seen
    BY <1>1 DEF Matching
  <2>2. point \in SweepPoints /\ g \in 0..MaxGates /\ gates[g] \in Gate /\ sweep \in SweepSet
    BY <2>1, InteractionAssumption DEF SweepPoints, GateIds, TypeOK, SweepSet
  <2> QED
    BY <1>1, <2>1, <2>2 DEF Holding, SweepSet
<1>2. CASE sweep' = AtRest
  BY <1>2 DEF AtRest, Active
<1>3. CASE sweep' = [sweep EXCEPT !.at = "create"]
  BY <1>3 DEF Active, TypeOK
<1> QED
  BY <1>1, <1>2, <1>3 DEF FoldsQuestion

\* FoldsNoQuestion leaves the sweep inactive.
LEMMA FoldsNoneTo ==
    ASSUME TypeOK, FoldsNoQuestion
    PROVE  ~Active' /\ ~Out' /\ sweep'.at # "apply"
<1>1. ASSUME NEW g \in GateIds, Holding("expire", g) PROVE sweep'.at = "expire"
  BY <1>1 DEF Holding, TypeOK
<1> QED
  BY <1>1 DEF FoldsNoQuestion, AtRest, Active, Out

\* What a decision appends.
LEMMA DecisionAppended ==
    ASSUME IInv, NEW p \in Deciders, NEW st \in {"decided", "cancelled"},
           NEW note \in {"none", "valid", "invalid"}, AppendsDecision(p, st, note)
    PROVE  \E x \in Gate :
              /\ x.state = st /\ x.decision = decisions + 1 /\ decisions + 1 \in Decisions
              /\ deciders[p].id \in GateIds
              /\ \A g \in GateIds : gates'[g] = IF g = deciders[p].id THEN x ELSE gates[g]
<1> USE DEF IInv, Custody
<1>1. PICK n \in Decisions : n = decisions + 1
  BY InteractionAssumption DEF AppendsDecision, TypeOK, Decisions
<1>2. PICK h \in Gate : h = deciders[p].gate
  BY DEF TypeOK
<1>3. PICK x \in Gate : x = Decide(h, st, n, note)
  BY DecidedSnapshot
<1>4. x.state = st /\ x.decision = n
  BY <1>2, <1>3 DEF Decide, Gate
<1>5. deciders[p].id \in GateIds
  BY DEF AppendsDecision, GatesSound
<1>6. \A g \in GateIds : gates'[g] = IF g = deciders[p].id THEN x ELSE gates[g]
  BY <1>1, <1>2, <1>3, <1>5 DEF AppendsDecision, TypeOK
<1> QED
  BY <1>1, <1>4, <1>5, <1>6

\* A step keeps the accounts.
LEMMA AccountingStep == IInv /\ [Next]_vars => Accounting'
<1> SUFFICES ASSUME IInv, [Next]_vars PROVE Accounting'
  OBVIOUS
<1>t. TypeOK'
  BY TypeStep
<1> USE DEF IInv, Custody
<1>1. ASSUME NEW p \in Deciders, NEW g \in GateIds, ReadsGate(p, g)
      PROVE  Accounting'
  <2>1. /\ offers' = offers /\ unrecorded' = unrecorded /\ crashes' = crashes /\ sweep' = sweep
        /\ decisions' = decisions /\ gates' = gates
    BY <1>1 DEF ReadsGate, log, history
  <2> QED
    BY <2>1, AccountingKept, Counts DEF OutOf, Out, Active
<1>2. ASSUME NEW p \in Deciders, NEW st \in {"decided", "cancelled"},
             NEW note \in {"none", "valid", "invalid"}, AppendsDecision(p, st, note)
      PROVE  Accounting'
  <2>1. /\ offers' = offers /\ unrecorded' = unrecorded /\ crashes' = crashes /\ sweep' = sweep
        /\ decisions' = decisions + 1
    BY <1>2 DEF AppendsDecision, history
  <2>2. decisions' \in Nat /\ decisions' >= decisions
    BY <2>1, Counts
  <2>3. PICK x \in Gate :
              /\ x.state = st /\ x.decision = decisions + 1 /\ decisions + 1 \in Decisions
              /\ \A g \in GateIds : gates'[g] = IF g = deciders[p].id THEN x ELSE gates[g]
    BY <1>2, DecisionAppended
  <2>4. decisions + 1 > decisions /\ DeliveryAttempts(x) \in Nat
    BY Counts, Attempts
  <2>5. \A g \in GateIds : IsDecided(gates'[g]) =>
                \/ gates'[g] = gates[g]
                \/ gates'[g].decision > decisions /\ gates'[g].decision \in Decisions
                   /\ DeliveryAttempts(gates'[g]) \in Nat
    BY <2>3, <2>4
  <2>6. (\A d \in Decisions : OutOf(sweep', d) = OutOf(sweep, d)) /\ (Active' => Active /\ sweep'.gate = sweep.gate)
    BY <2>1 DEF OutOf, Out, Active
  <2> QED
    BY <2>1, <2>2, <2>5, <2>6, AccountingKept
<1>3. ASSUME NEW p \in Deciders, DeletesGate(p)
      PROVE  Accounting'
  <2>1. /\ offers' = offers /\ unrecorded' = unrecorded /\ crashes' = crashes /\ sweep' = sweep
        /\ decisions' = decisions
    BY <1>3 DEF DeletesGate, history
  <2>2. \A g \in GateIds : IsDecided(gates'[g]) => gates'[g] = gates[g]
    BY <1>3, RestSnapshots DEF DeletesGate, TypeOK, IsDecided
  <2> QED
    BY <2>1, <2>2, AccountingKept, Counts DEF OutOf, Out, Active
<1>4. ASSUME NEW p \in Deciders, ReclaimsLog(p)
      PROVE  Accounting'
  <2>1. /\ offers' = offers /\ unrecorded' = unrecorded /\ crashes' = crashes /\ sweep' = sweep
        /\ decisions' = decisions
    BY <1>4 DEF ReclaimsLog, history
  <2>2. \A g \in GateIds : IsDecided(gates'[g]) => gates'[g] = gates[g]
    BY <1>4, RestSnapshots DEF ReclaimsLog, TypeOK, IsDecided
  <2> QED
    BY <2>1, <2>2, AccountingKept, Counts DEF OutOf, Out, Active
<1>5. ASSUME Sees
      PROVE  Accounting'
  <2>1. /\ offers' = offers /\ unrecorded' = unrecorded /\ crashes' = crashes
        /\ decisions' = decisions /\ gates' = gates
    BY <1>5 DEF Sees, log, history
  <2>2. ~Out /\ ~Out' /\ ~Active'
    BY <1>5 DEF Sees, AtRest, Out, Active
  <2> QED
    BY <2>1, <2>2, AccountingKept, Counts DEF OutOf, Out
<1>6. ASSUME FoldsNoQuestion
      PROVE  Accounting'
  <2>1. /\ offers' = offers /\ unrecorded' = unrecorded /\ crashes' = crashes
        /\ decisions' = decisions /\ gates' = gates
    BY <1>6 DEF FoldsNoQuestion, log, history
  <2>2. ~Out /\ ~Out' /\ ~Active'
    BY <1>6, FoldsNoneTo DEF FoldsNoQuestion, AtRest, Out, Active
  <2> QED
    BY <2>1, <2>2, AccountingKept, Counts DEF OutOf, Out
<1>7. ASSUME FoldsQuestion
      PROVE  Accounting'
  <2>1. /\ offers' = offers /\ unrecorded' = unrecorded /\ crashes' = crashes
        /\ decisions' = decisions /\ gates' = gates
    BY <1>7 DEF FoldsQuestion, log, history
  <2>2. ~Out /\ ~Out'
    BY <1>7, FoldsTo DEF FoldsQuestion, Out, Active
  <2>31. \A d \in Decisions : unrecorded'[d] <= crashes'
    BY <2>1 DEF Accounting, Paid
  <2>32. \A d \in Decisions : d > decisions' => offers'[d] = 0
    BY <2>1 DEF Accounting, Paid
  <2>33. \A d \in Decisions : offers'[d] <= AttemptLimit + unrecorded'[d]
    BY <2>1 DEF Accounting, Paid
  <2>34. ASSUME NEW g \in GateIds, IsDecided(gates'[g])
        PROVE  Paid(gates'[g], offers', unrecorded', sweep')
    BY <2>1, <2>2, <2>34 DEF Accounting, Paid, OutOf, Out
  <2>35. ASSUME Active'
        PROVE  Paid(sweep'.gate, offers', unrecorded', sweep')
    <3>1. PICK g \in GateIds : IsDecided(gates[g]) /\ sweep'.gate = gates[g]
      BY <1>7, <2>35, FoldsTo
    <3> QED
      BY <2>1, <2>2, <3>1 DEF Accounting, Paid, OutOf, Out
  <2> QED
    BY <2>31, <2>32, <2>33, <2>34, <2>35 DEF Accounting, IsDecided, DeliveryAttempts
<1>8. ASSUME Creates
      PROVE  Accounting'
  <2>1. /\ offers' = offers /\ unrecorded' = unrecorded /\ crashes' = crashes
        /\ decisions' = decisions
    BY <1>8 DEF Creates, history
  <2>2. ~Out /\ ~Out' /\ ~Active'
    BY <1>8 DEF Creates, AtRest, Out, Active
  <2>3. sweep.seen \in Questions
    BY <1>8 DEF Creates, SweepHolds
  <2>4. \A g \in GateIds : IsDecided(gates'[g]) => gates'[g] = gates[g]
    BY <1>8, <2>3, FreshSnapshot DEF Creates, TypeOK, IsDecided
  <2> QED
    BY <2>1, <2>2, <2>4, AccountingKept, Counts DEF OutOf, Out
<1>9. ASSUME NEW x \in Gate, Recorded(x)
      PROVE  Accounting'
  <2>1. /\ offers' = offers /\ unrecorded' = unrecorded /\ crashes' = crashes
        /\ decisions' = decisions /\ ~Out' /\ ~Active'
    BY <1>9 DEF Recorded, Appends, history, AtRest, Out, Active
  <2>2. \A g \in GateIds : gates'[g] = IF g = sweep.id THEN x ELSE gates[g]
    BY <1>9 DEF Recorded, Appends, TypeOK
  <2>3. \A d \in Decisions : OutOf(sweep, d) \in 0..1 /\ OutOf(sweep', d) = 0
    BY <2>1 DEF OutOf, Out
  <2>41. \A d \in Decisions : unrecorded'[d] <= crashes'
    BY <2>1 DEF Accounting, Paid
  <2>42. \A d \in Decisions : d > decisions' => offers'[d] = 0
    BY <2>1 DEF Accounting, Paid
  <2>43. \A d \in Decisions : offers'[d] <= AttemptLimit + unrecorded'[d]
    BY <2>1 DEF Accounting, Paid
  <2>44. ASSUME NEW g \in GateIds, IsDecided(gates'[g])
        PROVE  Paid(gates'[g], offers', unrecorded', sweep')
    <3>1. CASE g = sweep.id
      <4>1. gates'[g] = x /\ IsDecided(x)
        BY <2>2, <2>44, <3>1
      <4>2. RecordsAttempt(x)
        BY <1>9, <4>1 DEF Recorded, RecordsExpiry, RecordsApplied, RecordsReopened, IsDecided
      <4>3. /\ Active /\ x.decision = sweep.gate.decision /\ OutOf(sweep, x.decision) = 1
            /\ DeliveryAttempts(x) = DeliveryAttempts(sweep.gate) + 1
        BY <4>2 DEF RecordsAttempt, Active, OutOf, Out
      <4>4. x.decision \in Decisions
        BY <4>3, Counts, InteractionAssumption DEF SweepHolds, TypeOK, Decisions
      <4>5. offers[x.decision] <= DeliveryAttempts(sweep.gate) + unrecorded[x.decision] + OutOf(sweep, x.decision)
        BY <4>3 DEF Accounting, Paid
      <4> QED
        BY <2>1, <2>3, <4>1, <4>3, <4>4, <4>5, Counts DEF Paid
    <3>2. CASE g # sweep.id
      <4> DEFINE d == gates[g].decision
      <4>1. gates'[g] = gates[g] /\ IsDecided(gates[g])
        BY <2>2, <2>44, <3>2
      <4>2. d \in Decisions /\ DeliveryAttempts(gates[g]) \in Nat
        BY <4>1, Counts DEF GatesSound, GateSound, Decisions
      <4>3. OutOf(sweep, d) = 0
        BY <3>2 DEF OutOf, Out, Active, OneGate
      <4>4. offers[d] <= DeliveryAttempts(gates[g]) + unrecorded[d] + OutOf(sweep, d)
        BY <4>1 DEF Accounting, Paid
      <4> HIDE DEF d
      <4>5. offers'[d] <= DeliveryAttempts(gates[g]) + unrecorded'[d] + OutOf(sweep', d)
        BY <2>1, <2>3, <4>2, <4>3, <4>4
      <4> QED
        BY <4>1, <4>5 DEF d, Paid
    <3> QED
      BY <3>1, <3>2
  <2>45. ASSUME Active'
        PROVE  Paid(sweep'.gate, offers', unrecorded', sweep')
    BY <2>1, <2>45
  <2> QED
    BY <2>41, <2>42, <2>43, <2>44, <2>45 DEF Accounting, IsDecided, DeliveryAttempts
<1>10. ASSUME OfferUnsent
      PROVE  Accounting'
  <2> DEFINE e == sweep.gate.decision
  <2>1. /\ unrecorded' = unrecorded /\ crashes' = crashes
        /\ decisions' = decisions /\ gates' = gates /\ Offers("unsent")
    BY <1>10 DEF OfferUnsent, Offers, log
  <2>2. sweep.at = "offer" /\ sweep'.at = "unsent" /\ sweep'.gate = sweep.gate
    BY <2>1 DEF Offers, TypeOK
  <2>3. /\ e \in Decisions /\ e <= decisions /\ Active
        /\ DeliveryAttempts(sweep.gate) < AttemptLimit
    BY <2>2, Counts, InteractionAssumption DEF SweepHolds, Active, TypeOK, Decisions
  <2>4. /\ offers'[e] <= offers[e] + 1
        /\ \A d \in Decisions \ {e} : offers'[d] = offers[d]
    BY <2>1, <2>3, OneMoreOffer DEF SweepPoints
  <2>5. offers'[e] \in Nat /\ offers[e] \in Nat /\ unrecorded[e] \in Nat
    BY <1>t, <2>3, Counts, InteractionAssumption DEF TypeOK
  <2>6. /\ \A d \in Decisions : OutOf(sweep, d) = 0
        /\ \A d \in Decisions : OutOf(sweep', d) = IF d = e THEN 1 ELSE 0
    BY <2>2 DEF OutOf, Out
  <2>7. offers[e] <= DeliveryAttempts(sweep.gate) + unrecorded[e]
    <3>1. offers[e] <= DeliveryAttempts(sweep.gate) + unrecorded[e] + OutOf(sweep, e)
      BY <2>3 DEF Accounting, Paid
    <3> QED
      BY <2>3, <2>5, <2>6, <3>1, Counts
  <2> HIDE DEF e
  <2>81. \A d \in Decisions : unrecorded'[d] <= crashes'
    BY <2>1 DEF Accounting, Paid
  <2>82. \A d \in Decisions : d > decisions' => offers'[d] = 0
    BY <2>1, <2>3, <2>4, Counts, InteractionAssumption DEF Accounting, Paid, Decisions
  <2>83. \A d \in Decisions : offers'[d] <= AttemptLimit + unrecorded'[d]
    BY <2>1, <2>3, <2>4, <2>5, <2>7, Counts DEF Accounting, Paid
  <2>84. ASSUME NEW g \in GateIds, IsDecided(gates'[g])
        PROVE  Paid(gates'[g], offers', unrecorded', sweep')
    <3> DEFINE d == gates[g].decision
    <3>1. d \in Decisions /\ IsDecided(gates[g]) /\ DeliveryAttempts(gates[g]) \in Nat
      BY <2>1, <2>84, Counts DEF GatesSound, GateSound, Decisions
    <3>2. offers[d] <= DeliveryAttempts(gates[g]) + unrecorded[d] + OutOf(sweep, d)
      BY <3>1 DEF Accounting, Paid
    <3>3. gates'[g].decision = d /\ DeliveryAttempts(gates'[g]) = DeliveryAttempts(gates[g])
      BY <2>1
    <3>4. offers[d] \in Nat /\ unrecorded[d] \in Nat /\ offers'[d] \in Nat
      BY <1>t, <3>1, Counts, InteractionAssumption DEF TypeOK
    <3> HIDE DEF d
    <3>5. offers'[d] <= DeliveryAttempts(gates[g]) + unrecorded[d] + (IF d = e THEN 1 ELSE 0)
      BY <2>4, <2>5, <2>6, <3>1, <3>2, <3>4
    <3> QED
      BY <2>1, <2>6, <3>1, <3>3, <3>5 DEF Paid
  <2>85. ASSUME Active'
        PROVE  Paid(sweep'.gate, offers', unrecorded', sweep')
    <3>1. offers'[e] <= DeliveryAttempts(sweep.gate) + unrecorded[e] + 1
      BY <2>4, <2>5, <2>7, Counts
    <3>2. sweep'.gate.decision = e
      BY <2>2 DEF e
    <3> QED
      BY <2>1, <2>2, <2>3, <2>6, <3>1, <3>2 DEF Paid
  <2> QED
    BY <2>81, <2>82, <2>83, <2>84, <2>85 DEF Accounting, IsDecided, DeliveryAttempts
<1>11. ASSUME OfferRefused
      PROVE  Accounting'
  <2> DEFINE e == sweep.gate.decision
  <2>1. /\ unrecorded' = unrecorded /\ crashes' = crashes
        /\ decisions' = decisions /\ gates' = gates /\ Offers("failed")
    BY <1>11 DEF OfferRefused, Offers, log
  <2>2. sweep.at = "offer" /\ sweep'.at = "failed" /\ sweep'.gate = sweep.gate
    BY <2>1 DEF Offers, TypeOK
  <2>3. /\ e \in Decisions /\ e <= decisions /\ Active
        /\ DeliveryAttempts(sweep.gate) < AttemptLimit
    BY <2>2, Counts, InteractionAssumption DEF SweepHolds, Active, TypeOK, Decisions
  <2>4. /\ offers'[e] <= offers[e] + 1
        /\ \A d \in Decisions \ {e} : offers'[d] = offers[d]
    BY <2>1, <2>3, OneMoreOffer DEF SweepPoints
  <2>5. offers'[e] \in Nat /\ offers[e] \in Nat /\ unrecorded[e] \in Nat
    BY <1>t, <2>3, Counts, InteractionAssumption DEF TypeOK
  <2>6. /\ \A d \in Decisions : OutOf(sweep, d) = 0
        /\ \A d \in Decisions : OutOf(sweep', d) = IF d = e THEN 1 ELSE 0
    BY <2>2 DEF OutOf, Out
  <2>7. offers[e] <= DeliveryAttempts(sweep.gate) + unrecorded[e]
    <3>1. offers[e] <= DeliveryAttempts(sweep.gate) + unrecorded[e] + OutOf(sweep, e)
      BY <2>3 DEF Accounting, Paid
    <3> QED
      BY <2>3, <2>5, <2>6, <3>1, Counts
  <2> HIDE DEF e
  <2>81. \A d \in Decisions : unrecorded'[d] <= crashes'
    BY <2>1 DEF Accounting, Paid
  <2>82. \A d \in Decisions : d > decisions' => offers'[d] = 0
    BY <2>1, <2>3, <2>4, Counts, InteractionAssumption DEF Accounting, Paid, Decisions
  <2>83. \A d \in Decisions : offers'[d] <= AttemptLimit + unrecorded'[d]
    BY <2>1, <2>3, <2>4, <2>5, <2>7, Counts DEF Accounting, Paid
  <2>84. ASSUME NEW g \in GateIds, IsDecided(gates'[g])
        PROVE  Paid(gates'[g], offers', unrecorded', sweep')
    <3> DEFINE d == gates[g].decision
    <3>1. d \in Decisions /\ IsDecided(gates[g]) /\ DeliveryAttempts(gates[g]) \in Nat
      BY <2>1, <2>84, Counts DEF GatesSound, GateSound, Decisions
    <3>2. offers[d] <= DeliveryAttempts(gates[g]) + unrecorded[d] + OutOf(sweep, d)
      BY <3>1 DEF Accounting, Paid
    <3>3. gates'[g].decision = d /\ DeliveryAttempts(gates'[g]) = DeliveryAttempts(gates[g])
      BY <2>1
    <3>4. offers[d] \in Nat /\ unrecorded[d] \in Nat /\ offers'[d] \in Nat
      BY <1>t, <3>1, Counts, InteractionAssumption DEF TypeOK
    <3> HIDE DEF d
    <3>5. offers'[d] <= DeliveryAttempts(gates[g]) + unrecorded[d] + (IF d = e THEN 1 ELSE 0)
      BY <2>4, <2>5, <2>6, <3>1, <3>2, <3>4
    <3> QED
      BY <2>1, <2>6, <3>1, <3>3, <3>5 DEF Paid
  <2>85. ASSUME Active'
        PROVE  Paid(sweep'.gate, offers', unrecorded', sweep')
    <3>1. offers'[e] <= DeliveryAttempts(sweep.gate) + unrecorded[e] + 1
      BY <2>4, <2>5, <2>7, Counts
    <3>2. sweep'.gate.decision = e
      BY <2>2 DEF e
    <3> QED
      BY <2>1, <2>2, <2>3, <2>6, <3>1, <3>2 DEF Paid
  <2> QED
    BY <2>81, <2>82, <2>83, <2>84, <2>85 DEF Accounting, IsDecided, DeliveryAttempts
<1>12. ASSUME OfferAdmitted
      PROVE  Accounting'
  <2> DEFINE e == sweep.gate.decision
  <2>1. /\ unrecorded' = unrecorded /\ crashes' = crashes
        /\ decisions' = decisions /\ gates' = gates /\ Offers("wait")
    BY <1>12 DEF OfferAdmitted, Offers, log
  <2>2. sweep.at = "offer" /\ sweep'.at = "wait" /\ sweep'.gate = sweep.gate
    BY <2>1 DEF Offers, TypeOK
  <2>3. /\ e \in Decisions /\ e <= decisions /\ Active
        /\ DeliveryAttempts(sweep.gate) < AttemptLimit
    BY <2>2, Counts, InteractionAssumption DEF SweepHolds, Active, TypeOK, Decisions
  <2>4. /\ offers'[e] <= offers[e] + 1
        /\ \A d \in Decisions \ {e} : offers'[d] = offers[d]
    BY <2>1, <2>3, OneMoreOffer DEF SweepPoints
  <2>5. offers'[e] \in Nat /\ offers[e] \in Nat /\ unrecorded[e] \in Nat
    BY <1>t, <2>3, Counts, InteractionAssumption DEF TypeOK
  <2>6. /\ \A d \in Decisions : OutOf(sweep, d) = 0
        /\ \A d \in Decisions : OutOf(sweep', d) = IF d = e THEN 1 ELSE 0
    BY <2>2 DEF OutOf, Out
  <2>7. offers[e] <= DeliveryAttempts(sweep.gate) + unrecorded[e]
    <3>1. offers[e] <= DeliveryAttempts(sweep.gate) + unrecorded[e] + OutOf(sweep, e)
      BY <2>3 DEF Accounting, Paid
    <3> QED
      BY <2>3, <2>5, <2>6, <3>1, Counts
  <2> HIDE DEF e
  <2>81. \A d \in Decisions : unrecorded'[d] <= crashes'
    BY <2>1 DEF Accounting, Paid
  <2>82. \A d \in Decisions : d > decisions' => offers'[d] = 0
    BY <2>1, <2>3, <2>4, Counts, InteractionAssumption DEF Accounting, Paid, Decisions
  <2>83. \A d \in Decisions : offers'[d] <= AttemptLimit + unrecorded'[d]
    BY <2>1, <2>3, <2>4, <2>5, <2>7, Counts DEF Accounting, Paid
  <2>84. ASSUME NEW g \in GateIds, IsDecided(gates'[g])
        PROVE  Paid(gates'[g], offers', unrecorded', sweep')
    <3> DEFINE d == gates[g].decision
    <3>1. d \in Decisions /\ IsDecided(gates[g]) /\ DeliveryAttempts(gates[g]) \in Nat
      BY <2>1, <2>84, Counts DEF GatesSound, GateSound, Decisions
    <3>2. offers[d] <= DeliveryAttempts(gates[g]) + unrecorded[d] + OutOf(sweep, d)
      BY <3>1 DEF Accounting, Paid
    <3>3. gates'[g].decision = d /\ DeliveryAttempts(gates'[g]) = DeliveryAttempts(gates[g])
      BY <2>1
    <3>4. offers[d] \in Nat /\ unrecorded[d] \in Nat /\ offers'[d] \in Nat
      BY <1>t, <3>1, Counts, InteractionAssumption DEF TypeOK
    <3> HIDE DEF d
    <3>5. offers'[d] <= DeliveryAttempts(gates[g]) + unrecorded[d] + (IF d = e THEN 1 ELSE 0)
      BY <2>4, <2>5, <2>6, <3>1, <3>2, <3>4
    <3> QED
      BY <2>1, <2>6, <3>1, <3>3, <3>5 DEF Paid
  <2>85. ASSUME Active'
        PROVE  Paid(sweep'.gate, offers', unrecorded', sweep')
    <3>1. offers'[e] <= DeliveryAttempts(sweep.gate) + unrecorded[e] + 1
      BY <2>4, <2>5, <2>7, Counts
    <3>2. sweep'.gate.decision = e
      BY <2>2 DEF e
    <3> QED
      BY <2>1, <2>2, <2>3, <2>6, <3>1, <3>2 DEF Paid
  <2> QED
    BY <2>81, <2>82, <2>83, <2>84, <2>85 DEF Accounting, IsDecided, DeliveryAttempts
<1>13. ASSUME GivesUp
      PROVE  Accounting'
  <2>1. /\ offers' = offers /\ unrecorded' = unrecorded /\ crashes' = crashes
        /\ decisions' = decisions /\ gates' = gates
    BY <1>13 DEF GivesUp, log, history
  <2>2. sweep.at = "wait" /\ sweep'.at = "failed" /\ sweep'.gate = sweep.gate
    BY <1>13 DEF GivesUp, TypeOK
  <2> QED
    BY <2>1, <2>2, AccountingKept, Counts DEF OutOf, Out, Active
<1>14. ASSUME Crash
      PROVE  Accounting'
  <2>1. /\ offers' = offers /\ crashes' = crashes + 1 /\ decisions' = decisions /\ gates' = gates
        /\ ~Out' /\ ~Active'
    BY <1>14 DEF Crash, log, AtRest, Out, Active
  <2>2. \A d \in Decisions : unrecorded'[d] = unrecorded[d] + OutOf(sweep, d)
    <3>1. Out => sweep.gate.decision \in Decisions
      BY InteractionAssumption DEF SweepHolds, Active, Out, TypeOK, Decisions
    <3> QED
      BY <1>14, <3>1, CrashCounts
  <2>3. \A d \in Decisions : OutOf(sweep, d) \in 0..1 /\ OutOf(sweep', d) = 0
    BY <2>1 DEF OutOf, Out
  <2>41. \A d \in Decisions : unrecorded'[d] <= crashes'
    BY <2>1, <2>2, <2>3, Counts DEF Accounting, Paid
  <2>42. \A d \in Decisions : d > decisions' => offers'[d] = 0
    BY <2>1 DEF Accounting, Paid
  <2>43. \A d \in Decisions : offers'[d] <= AttemptLimit + unrecorded'[d]
    BY <2>1, <2>2, <2>3, Counts DEF Accounting, Paid
  <2>44. ASSUME NEW g \in GateIds, IsDecided(gates'[g])
        PROVE  Paid(gates'[g], offers', unrecorded', sweep')
    <3> DEFINE d == gates[g].decision
    <3>1. d \in Decisions /\ IsDecided(gates[g]) /\ DeliveryAttempts(gates[g]) \in Nat
      BY <2>1, <2>44, Counts DEF GatesSound, GateSound, Decisions
    <3>2. offers[d] <= DeliveryAttempts(gates[g]) + unrecorded[d] + OutOf(sweep, d)
      BY <3>1 DEF Accounting, Paid
    <3>3. offers[d] \in Nat /\ unrecorded[d] \in Nat
      BY <3>1, Counts
    <3>4. offers'[d] <= DeliveryAttempts(gates[g]) + unrecorded'[d] + OutOf(sweep', d)
      <4> HIDE DEF d
      <4> QED
        BY <2>1, <2>2, <2>3, <3>1, <3>2, <3>3
    <3> QED
      BY <2>1, <3>4 DEF Paid
  <2>45. ASSUME Active'
        PROVE  Paid(sweep'.gate, offers', unrecorded', sweep')
    BY <2>1, <2>45
  <2> QED
    BY <2>41, <2>42, <2>43, <2>44, <2>45 DEF Accounting, IsDecided, DeliveryAttempts
<1>15. ASSUME Asks
      PROVE  Accounting'
  <2>1. /\ offers' = offers /\ unrecorded' = unrecorded /\ crashes' = crashes /\ sweep' = sweep
        /\ decisions' = decisions /\ gates' = gates
    BY <1>15 DEF Asks, log, history
  <2> QED
    BY <2>1, AccountingKept, Counts DEF OutOf, Out, Active
<1>16. ASSUME TurnEnds
      PROVE  Accounting'
  <2>1. /\ offers' = offers /\ unrecorded' = unrecorded /\ crashes' = crashes /\ sweep' = sweep
        /\ decisions' = decisions /\ gates' = gates
    BY <1>16 DEF TurnEnds, log, history
  <2> QED
    BY <2>1, AccountingKept, Counts DEF OutOf, Out, Active
<1>17. ASSUME AnswersDirectly
      PROVE  Accounting'
  <2>1. /\ offers' = offers /\ unrecorded' = unrecorded /\ crashes' = crashes /\ sweep' = sweep
        /\ decisions' = decisions + 1 /\ gates' = gates
    BY <1>17 DEF AnswersDirectly, log, history
  <2>2. decisions' \in Nat /\ decisions' >= decisions
    BY <2>1, Counts
  <2> QED
    BY <2>1, <2>2, AccountingKept DEF OutOf, Out, Active
<1>18. ASSUME NEW c \in calls, Writes(c)
      PROVE  Accounting'
  <2>1. /\ offers' = offers /\ unrecorded' = unrecorded /\ crashes' = crashes /\ sweep' = sweep
        /\ decisions' = decisions /\ gates' = gates
    BY <1>18 DEF Writes, log, history
  <2> QED
    BY <2>1, AccountingKept, Counts DEF OutOf, Out, Active
<1>19. ASSUME NEW c \in calls, Returns(c)
      PROVE  Accounting'
  <2>1. /\ offers' = offers /\ unrecorded' = unrecorded /\ crashes' = crashes
        /\ decisions' = decisions /\ gates' = gates /\ Ends(c, "apply")
    BY <1>19 DEF Returns, Ends, log, history
  <2>2. \/ sweep' = sweep
        \/ sweep.at = "wait" /\ sweep'.at = "apply" /\ sweep'.gate = sweep.gate
    BY <2>1, EndsSweep DEF SweepPoints
  <2> QED
    BY <2>1, <2>2, AccountingKept, Counts DEF OutOf, Out, Active
<1>20. ASSUME NEW c \in calls, Refuses(c)
      PROVE  Accounting'
  <2>1. /\ offers' = offers /\ unrecorded' = unrecorded /\ crashes' = crashes
        /\ decisions' = decisions /\ gates' = gates /\ Ends(c, "failed")
    BY <1>20 DEF Refuses, Ends, log, history
  <2>2. \/ sweep' = sweep
        \/ sweep.at = "wait" /\ sweep'.at = "failed" /\ sweep'.gate = sweep.gate
    BY <2>1, EndsSweep DEF SweepPoints
  <2> QED
    BY <2>1, <2>2, AccountingKept, Counts DEF OutOf, Out, Active
<1>21. ASSUME NEW c \in calls, Breaks(c)
      PROVE  Accounting'
  <2>1. /\ offers' = offers /\ unrecorded' = unrecorded /\ crashes' = crashes
        /\ decisions' = decisions /\ gates' = gates /\ Ends(c, "failed")
    BY <1>21 DEF Breaks, Ends, log, history
  <2>2. \/ sweep' = sweep
        \/ sweep.at = "wait" /\ sweep'.at = "failed" /\ sweep'.gate = sweep.gate
    BY <2>1, EndsSweep DEF SweepPoints
  <2> QED
    BY <2>1, <2>2, AccountingKept, Counts DEF OutOf, Out, Active
<1>22. ASSUME UNCHANGED vars
      PROVE  Accounting'
  <2>1. /\ offers' = offers /\ unrecorded' = unrecorded /\ crashes' = crashes /\ sweep' = sweep
        /\ decisions' = decisions /\ gates' = gates
    BY <1>22 DEF vars, log, history
  <2> QED
    BY <2>1, AccountingKept, Counts DEF OutOf, Out, Active
<1>23. CASE SweepRecords
  <2>1. PICK x \in Gate : Recorded(x)
    BY <1>23, RecordKinds DEF IInv, Custody
  <2> QED
    BY <1>9, <2>1
<1> QED
  BY <1>1, <1>2, <1>3, <1>4, <1>5, <1>6, <1>7, <1>8, <1>10, <1>11, <1>12, <1>13, <1>14, <1>15, <1>16, <1>17, <1>18, <1>19, <1>20, <1>21, <1>22, <1>23
  DEF Next, Decider, Sweep, Bridge, SweepRecords

-----------------------------------------------------------------------------
(* Delivery.                                                               *)

\* Delivery survives a step that leaves the bridge alone.
LEMMA DeliveryKept ==
    ASSUME IInv, UNCHANGED bridge, decisions' \in Nat, decisions' >= decisions,
           sweep'.at = "apply" => /\ sweep.at = "apply" /\ sweep'.seen = sweep.seen
                                  /\ sweep'.gate = sweep.gate
    PROVE  Delivery'
<1>1. /\ pending' = pending /\ questions' = questions /\ responded' = responded
      /\ calls' = calls /\ connected' = connected /\ taken' = taken
  BY DEF bridge
<1>2. /\ decisions \in Nat /\ (\A c \in calls : c.decision \in Nat)
      /\ (\A t \in taken : t[2] \in Nat)
  BY InteractionAssumption DEF IInv, TypeOK, Calls, Decisions
<1>3. /\ \A c \in calls : c.decision <= decisions'
      /\ \A t \in taken : t[2] <= decisions'
  BY <1>2 DEF IInv, Delivery
<1> QED
  BY <1>1, <1>3 DEF IInv, Delivery

\* Delivery survives the admission of an answer to the pending question.
LEMMA DeliveryAdmitted ==
    ASSUME IInv, NEW d \in Decisions, Admit(pending, d), pending \in Questions,
           pending' = pending, questions' = questions, connected' = connected, taken' = taken,
           decisions' \in Nat, decisions' >= decisions, d <= decisions', sweep'.at # "apply"
              \/ (sweep'.at = sweep.at /\ sweep'.seen = sweep.seen /\ sweep'.gate = sweep.gate)
    PROVE  Delivery'
<1> DEFINE n == [question |-> pending, decision |-> d, at |-> "admitted"]
<1>1. /\ n.question = pending /\ n.decision = d /\ n.at # "written"
  OBVIOUS
<1>2. calls' = calls \cup {n} /\ responded' = responded \cup {pending} /\ pending \notin responded
  BY DEF Admit, Admittable
<1>3. /\ decisions \in Nat /\ (\A c \in calls : c.decision \in Nat)
      /\ (\A t \in taken : t[2] \in Nat)
  BY InteractionAssumption DEF IInv, TypeOK, Calls, Decisions
<1>4. \A c \in calls : c.question # pending
  BY <1>2 DEF IInv, Delivery
<1> HIDE DEF n
<1>5. /\ \A c \in calls' : c.decision <= decisions'
      /\ \A t \in taken' : t[2] <= decisions'
  BY <1>1, <1>2, <1>3 DEF IInv, Delivery
<1>6. \A c \in calls' : c.question <= questions'
  BY <1>1, <1>2 DEF IInv, Delivery
<1>7. \A c \in calls' : c.at = "written" => <<c.question, c.decision>> \in taken'
  BY <1>1, <1>2 DEF IInv, Delivery
<1>8. /\ \A c \in calls' : c.question = pending' => pending' \in responded'
      /\ \A c, e \in calls' : (c.question = pending' /\ e.question = pending') => c = e
  BY <1>2, <1>4
<1>9. \A t \in taken' : (t[1] = pending' /\ connected') =>
            \E c \in calls' : c.question = pending' /\ c.at = "written"
  BY <1>2 DEF IInv, Delivery
<1> QED
  BY <1>5, <1>6, <1>7, <1>8, <1>9 DEF IInv, Delivery

\* A step keeps calls, pending question and answers in agreement.
LEMMA DeliveryStep == IInv /\ [Next]_vars => Delivery'
<1> SUFFICES ASSUME IInv, [Next]_vars PROVE Delivery'
  OBVIOUS
<1> USE DEF IInv
<1>1. ASSUME NEW p \in Deciders, NEW g \in GateIds, ReadsGate(p, g)
      PROVE  Delivery'
  <2>1. UNCHANGED bridge /\ decisions' = decisions /\ sweep' = sweep
    BY <1>1 DEF ReadsGate
  <2> QED
    BY <2>1, DeliveryKept, Counts
<1>2. ASSUME NEW p \in Deciders, NEW st \in {"decided", "cancelled"},
             NEW note \in {"none", "valid", "invalid"}, AppendsDecision(p, st, note)
      PROVE  Delivery'
  <2>1. UNCHANGED bridge /\ decisions' = decisions + 1 /\ sweep' = sweep
    BY <1>2 DEF AppendsDecision
  <2>2. decisions' \in Nat /\ decisions' >= decisions
    BY <2>1, Counts
  <2> QED
    BY <2>1, <2>2, DeliveryKept
<1>3. ASSUME NEW p \in Deciders, DeletesGate(p)
      PROVE  Delivery'
  <2>1. UNCHANGED bridge /\ decisions' = decisions /\ sweep' = sweep
    BY <1>3 DEF DeletesGate
  <2> QED
    BY <2>1, DeliveryKept, Counts
<1>4. ASSUME NEW p \in Deciders, ReclaimsLog(p)
      PROVE  Delivery'
  <2>1. UNCHANGED bridge /\ decisions' = decisions /\ sweep' = sweep
    BY <1>4 DEF ReclaimsLog
  <2> QED
    BY <2>1, DeliveryKept, Counts
<1>5. ASSUME Sees
      PROVE  Delivery'
  <2>1. UNCHANGED bridge /\ decisions' = decisions
    BY <1>5 DEF Sees, bridge
  <2>2. sweep'.at # "apply"
    BY <1>5 DEF Sees, AtRest, TypeOK
  <2> QED
    BY <2>1, <2>2, DeliveryKept, Counts
<1>6. ASSUME FoldsNoQuestion
      PROVE  Delivery'
  <2>1. UNCHANGED bridge /\ decisions' = decisions
    BY <1>6 DEF FoldsNoQuestion, bridge
  <2>2. sweep'.at # "apply"
    BY <1>6, FoldsNoneTo DEF FoldsNoQuestion, AtRest, TypeOK
  <2> QED
    BY <2>1, <2>2, DeliveryKept, Counts
<1>7. ASSUME FoldsQuestion
      PROVE  Delivery'
  <2>1. UNCHANGED bridge /\ decisions' = decisions
    BY <1>7 DEF FoldsQuestion, bridge
  <2>2. sweep'.at # "apply"
    BY <1>7, FoldsTo DEF FoldsQuestion, AtRest, TypeOK, Active
  <2> QED
    BY <2>1, <2>2, DeliveryKept, Counts
<1>8. ASSUME Creates
      PROVE  Delivery'
  <2>1. UNCHANGED bridge /\ decisions' = decisions
    BY <1>8 DEF Creates, bridge
  <2>2. sweep'.at # "apply"
    BY <1>8 DEF Creates, AtRest, TypeOK
  <2> QED
    BY <2>1, <2>2, DeliveryKept, Counts
<1>9. ASSUME NEW x \in Gate, Recorded(x)
      PROVE  Delivery'
  <2>1. UNCHANGED bridge /\ decisions' = decisions
    BY <1>9 DEF Recorded, Appends, bridge
  <2>2. sweep'.at # "apply"
    BY <1>9 DEF Recorded, Appends, AtRest, TypeOK
  <2> QED
    BY <2>1, <2>2, DeliveryKept, Counts
<1>10. ASSUME OfferUnsent
      PROVE  Delivery'
  <2>1. UNCHANGED bridge /\ decisions' = decisions
    BY <1>10 DEF OfferUnsent, Offers, bridge
  <2>2. sweep'.at # "apply"
    BY <1>10 DEF OfferUnsent, Offers, AtRest, TypeOK
  <2> QED
    BY <2>1, <2>2, DeliveryKept, Counts
<1>11. ASSUME OfferRefused
      PROVE  Delivery'
  <2>1. UNCHANGED bridge /\ decisions' = decisions
    BY <1>11 DEF OfferRefused, Offers, bridge
  <2>2. sweep'.at # "apply"
    BY <1>11 DEF OfferRefused, Offers, AtRest, TypeOK
  <2> QED
    BY <2>1, <2>2, DeliveryKept, Counts
<1>12. ASSUME OfferAdmitted
      PROVE  Delivery'
  <2> DEFINE d == sweep.gate.decision
  <2>1. /\ pending' = pending /\ questions' = questions /\ connected' = connected /\ taken' = taken
        /\ decisions' = decisions /\ Admit(sweep.seen, d) /\ pending = sweep.seen
    BY <1>12 DEF OfferAdmitted, Offers, Admit, Admittable
  <2>2. sweep.at = "offer" /\ sweep'.at = "wait"
    BY <1>12 DEF OfferAdmitted, Offers, TypeOK
  <2>3. sweep.seen \in Questions /\ d \in Decisions /\ d <= decisions
    BY <2>2, Counts, InteractionAssumption DEF Custody, SweepHolds, Active, TypeOK, Decisions
  <2> HIDE DEF d
  <2> QED
    BY <2>1, <2>2, <2>3, DeliveryAdmitted, Counts
<1>13. ASSUME GivesUp
      PROVE  Delivery'
  <2>1. UNCHANGED bridge /\ decisions' = decisions
    BY <1>13 DEF GivesUp, bridge
  <2>2. sweep'.at # "apply"
    BY <1>13 DEF GivesUp, AtRest, TypeOK
  <2> QED
    BY <2>1, <2>2, DeliveryKept, Counts
<1>14. ASSUME Crash
      PROVE  Delivery'
  <2>1. UNCHANGED bridge /\ decisions' = decisions
    BY <1>14 DEF Crash, bridge
  <2>2. sweep'.at # "apply"
    BY <1>14 DEF Crash, AtRest, TypeOK
  <2> QED
    BY <2>1, <2>2, DeliveryKept, Counts
<1>15. ASSUME Asks
      PROVE  Delivery'
  <2>1. /\ questions \in Nat /\ \A c \in calls : c.question \in Nat
        /\ \A t \in taken : t[1] \in Nat
    BY InteractionAssumption DEF TypeOK, Calls, Questions
  <2>2. /\ questions' = questions + 1 /\ pending' = questions + 1 /\ calls' = calls /\ taken' = taken
        /\ responded' = responded /\ connected' = connected /\ sweep' = sweep /\ decisions' = decisions
    BY <1>15 DEF Asks
  <2>3. /\ \A c \in calls : c.question <= questions' /\ c.question # pending'
        /\ \A t \in taken : t[1] <= questions' /\ t[1] # pending'
        /\ pending' <= questions'
    BY <2>1, <2>2 DEF Delivery
  <2> QED
    BY <2>2, <2>3 DEF Delivery
<1>16. ASSUME TurnEnds
      PROVE  Delivery'
  <2>1. /\ questions' = questions /\ pending' = 0 /\ calls' = calls /\ taken' = taken
        /\ connected' = connected /\ sweep' = sweep /\ decisions' = decisions
    BY <1>16 DEF TurnEnds
  <2>2. /\ \A c \in calls : c.question # 0
        /\ \A t \in taken : t[1] # 0
        /\ 0 <= questions
    BY InteractionAssumption DEF TypeOK, Calls, Questions
  <2> QED
    BY <2>1, <2>2 DEF Delivery
<1>17. ASSUME AnswersDirectly
      PROVE  Delivery'
  <2>1. /\ pending' = pending /\ questions' = questions /\ connected' = connected /\ taken' = taken
        /\ decisions' = decisions + 1 /\ sweep' = sweep
    BY <1>17 DEF AnswersDirectly
  <2>n. PICK n \in Decisions : n = decisions + 1
    BY <1>17, InteractionAssumption DEF AnswersDirectly, TypeOK, Decisions
  <2>2. pending \in Questions /\ Admit(pending, n)
    BY <1>17, <2>n, InteractionAssumption DEF AnswersDirectly, TypeOK, Questions
  <2>3. decisions' \in Nat /\ decisions' >= decisions /\ n <= decisions'
    BY <2>1, <2>n, Counts
  <2> QED
    BY <2>1, <2>2, <2>3, DeliveryAdmitted
<1>18. ASSUME NEW c \in calls, Writes(c)
      PROVE  Delivery'
  <2>1. PICK w \in Calls : w = [c EXCEPT !.at = "written"]
    BY DEF TypeOK, Calls
  <2>2. c \in Calls /\ w.at = "written" /\ w.question = c.question /\ w.decision = c.decision
    BY <2>1 DEF TypeOK, Calls
  <2>3. /\ questions' = questions /\ pending' = pending /\ responded' = responded
        /\ connected' = connected /\ sweep' = sweep /\ decisions' = decisions
        /\ calls' = (calls \ {c}) \cup {w} /\ taken' = taken \cup {<<c.question, c.decision>>}
        /\ c.at = "admitted" /\ c.question = pending
    BY <1>18, <2>1 DEF Writes
  <2>4. /\ \A e \in calls' : e.question <= questions' /\ e.decision <= decisions'
        /\ \A t \in taken' : t[1] <= questions' /\ t[2] <= decisions'
    BY <2>2, <2>3 DEF Delivery
  <2>5. \A e \in calls' : e.at = "written" => <<e.question, e.decision>> \in taken'
    BY <2>2, <2>3 DEF Delivery
  <2>6. \A e \in calls : e.question = pending => e = c
    BY <2>3 DEF Delivery
  <2>7. \A e \in calls' : e.question = pending' => e = w /\ pending' \in responded'
    BY <2>3, <2>6 DEF Delivery
  <2>8. w \in calls' /\ w.question = pending' /\ w.at = "written"
    BY <2>2, <2>3
  <2> QED
    BY <2>3, <2>4, <2>5, <2>7, <2>8 DEF Delivery
<1>19. ASSUME NEW c \in calls, Returns(c)
      PROVE  Delivery'
  <2>1. /\ questions' = questions /\ taken' = taken /\ decisions' = decisions
        /\ calls' = calls \ {c} /\ Ends(c, "apply")
        /\ responded' = responded /\ connected' = connected /\ c.at = "written"
        /\ pending' = IF pending = c.question THEN 0 ELSE pending
    BY <1>19 DEF Returns, Ends
  <2>2. sweep'.at = "apply" => <<sweep'.seen, sweep'.gate.decision>> \in taken
    <3>1. \/ sweep' = sweep
          \/ sweep'.seen = c.question /\ sweep'.gate.decision = c.decision
      BY <2>1, EndsSweep DEF SweepPoints
    <3>2. <<c.question, c.decision>> \in taken
      BY <2>1 DEF Delivery
    <3> QED
      BY <3>1, <3>2 DEF Delivery
  <2>3. \A e \in calls' : e \in calls /\ e # c
    BY <2>1
  <2>4. /\ \A e \in calls : e.question # 0
        /\ \A t \in taken : t[1] # 0
        /\ 0 <= questions
    BY InteractionAssumption DEF TypeOK, Calls, Questions
  <2>5. \A t \in taken : (t[1] = pending' /\ connected) =>
            \E e \in calls' : e.question = pending' /\ e.at = "written"
    BY <2>1, <2>4 DEF Delivery
  <2>6. /\ pending' <= questions
        /\ \A e \in calls' : e.question = pending' => e.question = pending /\ pending' = pending
    BY <2>1, <2>3, <2>4 DEF Delivery
  <2> QED
    BY <2>1, <2>2, <2>3, <2>5, <2>6 DEF Delivery
<1>20. ASSUME NEW c \in calls, Refuses(c)
      PROVE  Delivery'
  <2>1. /\ questions' = questions /\ taken' = taken /\ decisions' = decisions
        /\ calls' = calls \ {c} /\ Ends(c, "failed")
        /\ responded' = responded \ {c.question} /\ connected' = connected /\ c.at = "admitted"
        /\ pending' = pending
    BY <1>20 DEF Refuses, Ends
  <2>2. sweep'.at = "apply" => <<sweep'.seen, sweep'.gate.decision>> \in taken
    BY <2>1, EndsSweep DEF SweepPoints, Delivery
  <2>3. \A e \in calls' : e \in calls /\ e # c
    BY <2>1
  <2>4. \A e \in calls' : e.question = pending' => pending' \in responded'
    BY <2>1, <2>3 DEF Delivery
  <2>5. \A t \in taken' : (t[1] = pending' /\ connected') =>
            \E e \in calls' : e.question = pending' /\ e.at = "written"
    BY <2>1 DEF Delivery
  <2> QED
    BY <2>1, <2>2, <2>3, <2>4, <2>5 DEF Delivery
<1>21. ASSUME NEW c \in calls, Breaks(c)
      PROVE  Delivery'
  <2>1. /\ questions' = questions /\ taken' = taken /\ decisions' = decisions
        /\ calls' = calls \ {c} /\ Ends(c, "failed")
        /\ responded' = responded \ {c.question} /\ ~connected'
        /\ pending' = pending
    BY <1>21 DEF Breaks, Ends
  <2>2. sweep'.at = "apply" => <<sweep'.seen, sweep'.gate.decision>> \in taken
    BY <2>1, EndsSweep DEF SweepPoints, Delivery
  <2>3. \A e \in calls' : e \in calls /\ e # c
    BY <2>1
  <2>4. \A e \in calls' : e.question = pending' => pending' \in responded'
    BY <2>1, <2>3 DEF Delivery
  <2> QED
    BY <2>1, <2>2, <2>3, <2>4 DEF Delivery
<1>22. ASSUME UNCHANGED vars
      PROVE  Delivery'
  <2>1. UNCHANGED bridge /\ decisions' = decisions /\ sweep' = sweep
    BY <1>22 DEF vars
  <2> QED
    BY <2>1, DeliveryKept, Counts
<1>23. CASE SweepRecords
  <2>1. PICK x \in Gate : Recorded(x)
    BY <1>23, RecordKinds DEF IInv, Custody
  <2> QED
    BY <1>9, <2>1
<1> QED
  BY <1>1, <1>2, <1>3, <1>4, <1>5, <1>6, <1>7, <1>8, <1>10, <1>11, <1>12, <1>13, <1>14, <1>15, <1>16, <1>17, <1>18, <1>19, <1>20, <1>21, <1>22, <1>23
  DEF Next, Decider, Sweep, Bridge, SweepRecords

\* A step answers no question a second time.
LEMMA AnsweredOnceStep == IInv /\ [Next]_vars => AnsweredOnce'
<1> SUFFICES ASSUME IInv, [Next]_vars PROVE AnsweredOnce'
  OBVIOUS
<1> USE DEF IInv
<1>1. ASSUME NEW p \in Deciders, NEW g \in GateIds, ReadsGate(p, g)
      PROVE  AnsweredOnce'
  BY <1>1 DEF ReadsGate, bridge, AnsweredOnce
<1>2. ASSUME NEW p \in Deciders, NEW st \in {"decided", "cancelled"},
             NEW note \in {"none", "valid", "invalid"}, AppendsDecision(p, st, note)
      PROVE  AnsweredOnce'
  BY <1>2 DEF AppendsDecision, bridge, AnsweredOnce
<1>3. ASSUME NEW p \in Deciders, DeletesGate(p)
      PROVE  AnsweredOnce'
  BY <1>3 DEF DeletesGate, bridge, AnsweredOnce
<1>4. ASSUME NEW p \in Deciders, ReclaimsLog(p)
      PROVE  AnsweredOnce'
  BY <1>4 DEF ReclaimsLog, bridge, AnsweredOnce
<1>5. ASSUME Sees
      PROVE  AnsweredOnce'
  BY <1>5 DEF Sees, bridge, AnsweredOnce
<1>6. ASSUME FoldsNoQuestion
      PROVE  AnsweredOnce'
  BY <1>6 DEF FoldsNoQuestion, bridge, AnsweredOnce
<1>7. ASSUME FoldsQuestion
      PROVE  AnsweredOnce'
  BY <1>7 DEF FoldsQuestion, bridge, AnsweredOnce
<1>8. ASSUME Creates
      PROVE  AnsweredOnce'
  BY <1>8 DEF Creates, bridge, AnsweredOnce
<1>9. ASSUME NEW x \in Gate, Recorded(x)
      PROVE  AnsweredOnce'
  BY <1>9 DEF Recorded, Appends, bridge, AnsweredOnce
<1>10. ASSUME OfferUnsent
      PROVE  AnsweredOnce'
  BY <1>10 DEF OfferUnsent, Offers, bridge, AnsweredOnce
<1>11. ASSUME OfferRefused
      PROVE  AnsweredOnce'
  BY <1>11 DEF OfferRefused, Offers, bridge, AnsweredOnce
<1>12. ASSUME OfferAdmitted
      PROVE  AnsweredOnce'
  BY <1>12 DEF OfferAdmitted, Offers, bridge, AnsweredOnce
<1>13. ASSUME GivesUp
      PROVE  AnsweredOnce'
  BY <1>13 DEF GivesUp, bridge, AnsweredOnce
<1>14. ASSUME Crash
      PROVE  AnsweredOnce'
  BY <1>14 DEF Crash, bridge, AnsweredOnce
<1>15. ASSUME Asks
      PROVE  AnsweredOnce'
  BY <1>15 DEF Asks, bridge, AnsweredOnce
<1>16. ASSUME TurnEnds
      PROVE  AnsweredOnce'
  BY <1>16 DEF TurnEnds, bridge, AnsweredOnce
<1>17. ASSUME AnswersDirectly
      PROVE  AnsweredOnce'
  BY <1>17 DEF AnswersDirectly, bridge, AnsweredOnce
<1>18. ASSUME NEW c \in calls, Writes(c)
      PROVE  AnsweredOnce'
  <2>1. /\ taken' = taken \cup {<<c.question, c.decision>>}
        /\ c.at = "admitted" /\ c.question = pending /\ connected
    BY <1>18 DEF Writes
  <2>2. \A t \in taken : t[1] # pending
    <3>1. SUFFICES ASSUME NEW t \in taken, t[1] = pending PROVE FALSE
      OBVIOUS
    <3>2. PICK e \in calls : e.question = pending /\ e.at = "written"
      BY <2>1, <3>1 DEF Delivery
    <3>3. e = c
      BY <2>1, <3>2 DEF Delivery
    <3> QED
      BY <2>1, <3>2, <3>3
  <2>3. <<c.question, c.decision>>[1] = pending
    BY <2>1
  <2> QED
    BY <2>1, <2>2, <2>3 DEF AnsweredOnce
<1>19. ASSUME NEW c \in calls, Returns(c)
      PROVE  AnsweredOnce'
  BY <1>19 DEF Returns, Ends, bridge, AnsweredOnce
<1>20. ASSUME NEW c \in calls, Refuses(c)
      PROVE  AnsweredOnce'
  BY <1>20 DEF Refuses, Ends, bridge, AnsweredOnce
<1>21. ASSUME NEW c \in calls, Breaks(c)
      PROVE  AnsweredOnce'
  BY <1>21 DEF Breaks, Ends, bridge, AnsweredOnce
<1>22. ASSUME UNCHANGED vars
      PROVE  AnsweredOnce'
  BY <1>22 DEF vars, bridge, AnsweredOnce
<1>23. CASE SweepRecords
  <2>1. PICK x \in Gate : Recorded(x)
    BY <1>23, RecordKinds DEF IInv, Custody
  <2> QED
    BY <1>9, <2>1
<1> QED
  BY <1>1, <1>2, <1>3, <1>4, <1>5, <1>6, <1>7, <1>8, <1>10, <1>11, <1>12, <1>13, <1>14, <1>15, <1>16, <1>17, <1>18, <1>19, <1>20, <1>21, <1>22, <1>23
  DEF Next, Decider, Sweep, Bridge, SweepRecords

\* A step applies no decision that was not taken.
LEMMA AppliedWasTakenStep == IInv /\ [Next]_vars => AppliedWasTaken'
<1> SUFFICES ASSUME IInv, [Next]_vars PROVE AppliedWasTaken'
  OBVIOUS
<1> USE DEF IInv
<1>1. ASSUME NEW p \in Deciders, NEW g \in GateIds, ReadsGate(p, g)
      PROVE  AppliedWasTaken'
  BY <1>1 DEF ReadsGate, log, bridge, AppliedWasTaken
<1>2. ASSUME NEW p \in Deciders, NEW st \in {"decided", "cancelled"},
             NEW note \in {"none", "valid", "invalid"}, AppendsDecision(p, st, note)
      PROVE  AppliedWasTaken'
  <2>1. taken' = taken
    BY <1>2 DEF AppendsDecision, bridge
  <2>2. PICK x \in Gate :
              /\ x.state = st
              /\ \A g \in GateIds : gates'[g] = IF g = deciders[p].id THEN x ELSE gates[g]
    BY <1>2, DecisionAppended
  <2> QED
    BY <2>1, <2>2 DEF AppliedWasTaken
<1>3. ASSUME NEW p \in Deciders, DeletesGate(p)
      PROVE  AppliedWasTaken'
  <2>1. taken' = taken /\ \A g \in GateIds : gates'[g] = gates[g] \/ gates'[g] = Absent
    BY <1>3 DEF DeletesGate, bridge, TypeOK
  <2> QED
    BY <2>1, RestSnapshots DEF AppliedWasTaken
<1>4. ASSUME NEW p \in Deciders, ReclaimsLog(p)
      PROVE  AppliedWasTaken'
  <2>1. taken' = taken /\ \A g \in GateIds : gates'[g] = gates[g] \/ gates'[g] = Absent
    BY <1>4 DEF ReclaimsLog, bridge, TypeOK
  <2> QED
    BY <2>1, RestSnapshots DEF AppliedWasTaken
<1>5. ASSUME Sees
      PROVE  AppliedWasTaken'
  BY <1>5 DEF Sees, log, bridge, AppliedWasTaken
<1>6. ASSUME FoldsNoQuestion
      PROVE  AppliedWasTaken'
  BY <1>6 DEF FoldsNoQuestion, log, bridge, AppliedWasTaken
<1>7. ASSUME FoldsQuestion
      PROVE  AppliedWasTaken'
  BY <1>7 DEF FoldsQuestion, log, bridge, AppliedWasTaken
<1>8. ASSUME Creates
      PROVE  AppliedWasTaken'
  <2>1. sweep.seen \in Questions
    BY <1>8 DEF Creates, Custody, SweepHolds
  <2>2. taken' = taken /\ \A g \in GateIds : gates'[g] = gates[g] \/ gates'[g] = Fresh(sweep.seen)
    BY <1>8 DEF Creates, bridge, TypeOK
  <2> QED
    BY <2>1, <2>2, FreshSnapshot DEF AppliedWasTaken
<1>9. ASSUME NEW x \in Gate, Recorded(x)
      PROVE  AppliedWasTaken'
  <2>1. taken' = taken /\ \A g \in GateIds : gates'[g] = gates[g] \/ gates'[g] = x
    BY <1>9 DEF Recorded, Appends, bridge, TypeOK
  <2>2. x.state = "applied" => <<x.question, x.decision>> \in taken
    <3>1. RecordsApplied(x) => <<x.question, x.decision>> \in taken
      BY DEF RecordsApplied, Delivery
    <3>2. RecordsAttempt(x) => x.state # "applied"
      BY DEF RecordsAttempt, Custody, SweepHolds, Active, IsDecided
    <3> QED
      BY <1>9, <3>1, <3>2 DEF Recorded, RecordsExpiry, RecordsReopened
  <2> QED
    BY <2>1, <2>2 DEF AppliedWasTaken
<1>10. ASSUME OfferUnsent
      PROVE  AppliedWasTaken'
  BY <1>10 DEF OfferUnsent, Offers, log, bridge, AppliedWasTaken
<1>11. ASSUME OfferRefused
      PROVE  AppliedWasTaken'
  BY <1>11 DEF OfferRefused, Offers, log, bridge, AppliedWasTaken
<1>12. ASSUME OfferAdmitted
      PROVE  AppliedWasTaken'
  BY <1>12 DEF OfferAdmitted, Offers, log, bridge, AppliedWasTaken
<1>13. ASSUME GivesUp
      PROVE  AppliedWasTaken'
  BY <1>13 DEF GivesUp, log, bridge, AppliedWasTaken
<1>14. ASSUME Crash
      PROVE  AppliedWasTaken'
  BY <1>14 DEF Crash, log, bridge, AppliedWasTaken
<1>15. ASSUME Asks
      PROVE  AppliedWasTaken'
  BY <1>15 DEF Asks, log, bridge, AppliedWasTaken
<1>16. ASSUME TurnEnds
      PROVE  AppliedWasTaken'
  BY <1>16 DEF TurnEnds, log, bridge, AppliedWasTaken
<1>17. ASSUME AnswersDirectly
      PROVE  AppliedWasTaken'
  BY <1>17 DEF AnswersDirectly, log, bridge, AppliedWasTaken
<1>18. ASSUME NEW c \in calls, Writes(c)
      PROVE  AppliedWasTaken'
  BY <1>18 DEF Writes, log, AppliedWasTaken
<1>19. ASSUME NEW c \in calls, Returns(c)
      PROVE  AppliedWasTaken'
  BY <1>19 DEF Returns, Ends, log, bridge, AppliedWasTaken
<1>20. ASSUME NEW c \in calls, Refuses(c)
      PROVE  AppliedWasTaken'
  BY <1>20 DEF Refuses, Ends, log, bridge, AppliedWasTaken
<1>21. ASSUME NEW c \in calls, Breaks(c)
      PROVE  AppliedWasTaken'
  BY <1>21 DEF Breaks, Ends, log, bridge, AppliedWasTaken
<1>22. ASSUME UNCHANGED vars
      PROVE  AppliedWasTaken'
  BY <1>22 DEF vars, log, bridge, AppliedWasTaken
<1>23. CASE SweepRecords
  <2>1. PICK x \in Gate : Recorded(x)
    BY <1>23, RecordKinds DEF IInv, Custody
  <2> QED
    BY <1>9, <2>1
<1> QED
  BY <1>1, <1>2, <1>3, <1>4, <1>5, <1>6, <1>7, <1>8, <1>10, <1>11, <1>12, <1>13, <1>14, <1>15, <1>16, <1>17, <1>18, <1>19, <1>20, <1>21, <1>22, <1>23
  DEF Next, Decider, Sweep, Bridge, SweepRecords

-----------------------------------------------------------------------------
(* Evidence.                                                               *)

\* A decided gate has a decision, and one on the record.
LEMMA DecidedNumbers ==
    ASSUME IInv
    PROVE  /\ \A g \in GateIds : IsDecided(gates[g]) => gates[g].decision \in Decisions
           /\ \A g \in GateIds : gates[g].decision <= decisions
           /\ Active => sweep.gate.decision \in Decisions /\ sweep.gate.decision <= decisions
           /\ \A n \in 1..decisions : n \in Decisions /\ n <= decisions
           /\ decisions \in Nat
<1> USE DEF IInv, Custody
<1>1. \A g \in GateIds : IsDecided(gates[g]) => gates[g].decision \in Decisions
  BY Counts DEF GatesSound, GateSound, Decisions
<1>2. \A g \in GateIds : gates[g].decision <= decisions
  BY DEF GatesSound, GateSound
<1>3. decisions \in 0..MaxDecisions
  BY DEF TypeOK
<1>4. \A n \in 1..decisions : n \in Decisions /\ n <= decisions
  BY <1>3, InteractionAssumption DEF Decisions
<1> QED
  BY <1>1, <1>2, <1>3, <1>4, Counts DEF SweepHolds

\* Evidence survives a step that sends nothing, records nothing and changes
\* no gate but to empty it.
LEMMA EvidenceKept ==
    ASSUME IInv, unrecorded' = unrecorded, decisions' = decisions,
           \A d \in Decisions : Gone(taken', calls', d) => Gone(taken, calls, d),
           \A d \in Decisions : Watched(sweep, d) => Watched(sweep', d),
           \A g \in GateIds : gates'[g] = gates[g] \/ gates'[g] = Absent,
           Active' => Active /\ sweep'.gate = sweep.gate
    PROVE  Evidence'
<1> USE DEF IInv
<1>1. \A g \in GateIds : IsDecided(gates'[g]) => gates'[g] = gates[g]
  BY RestSnapshots DEF IsDecided
<1>2. \A g \in GateIds : NotSent(gates'[g]) => gates'[g] = gates[g]
  BY RestSnapshots DEF NotSent
<1>3. \A g \in GateIds : IsDecided(gates'[g]) =>
            Vouched(taken', calls', unrecorded', sweep', gates'[g].decision)
  BY <1>1, DecidedNumbers DEF Evidence, Vouched
<1>4. Active' => Vouched(taken', calls', unrecorded', sweep', sweep'.gate.decision)
  BY DecidedNumbers DEF Evidence, Vouched
<1>5. ASSUME NEW g \in GateIds, NotSent(gates'[g])
      PROVE  /\ gates'[g].failure.decision \in 1..decisions'
             /\ Gone(taken', calls', gates'[g].failure.decision) =>
                    unrecorded'[gates'[g].failure.decision] > 0
             /\ \A h \in GateIds : gates'[h].decision # gates'[g].failure.decision
             /\ Active' => sweep'.gate.decision # gates'[g].failure.decision
  <2>1. gates'[g] = gates[g] /\ NotSent(gates[g])
    BY <1>2, <1>5
  <2> DEFINE n == gates[g].failure.decision
  <2>2. /\ n \in 1..decisions /\ (Gone(taken, calls, n) => unrecorded[n] > 0)
        /\ (\A h \in GateIds : gates[h].decision # n) /\ (Active => sweep.gate.decision # n)
    BY <2>1 DEF Evidence
  <2>3. n \in Decisions /\ n # 0
    BY <2>2, DecidedNumbers
  <2> HIDE DEF n
  <2>4. \A h \in GateIds : gates'[h].decision # n
    BY <2>2, <2>3, RestSnapshots
  <2> QED
    BY <2>1, <2>2, <2>3, <2>4 DEF n
<1> QED
  BY <1>3, <1>4, <1>5 DEF Evidence

\* A step keeps the evidence.
LEMMA EvidenceStep == IInv /\ [Next]_vars => Evidence'
<1> SUFFICES ASSUME IInv, [Next]_vars PROVE Evidence'
  OBVIOUS
<1> USE DEF IInv
<1>1. ASSUME NEW p \in Deciders, NEW g \in GateIds, ReadsGate(p, g)
      PROVE  Evidence'
  <2>1. /\ unrecorded' = unrecorded /\ decisions' = decisions /\ taken' = taken /\ calls' = calls
        /\ sweep' = sweep /\ gates' = gates
    BY <1>1 DEF ReadsGate, log, bridge, history
  <2>2. Active' => Active /\ sweep'.gate = sweep.gate
    BY <2>1 DEF Active
  <2> QED
    BY <2>1, <2>2, EvidenceKept
<1>2. ASSUME NEW p \in Deciders, NEW st \in {"decided", "cancelled"},
             NEW note \in {"none", "valid", "invalid"}, AppendsDecision(p, st, note)
      PROVE  Evidence'
  <2>1. /\ unrecorded' = unrecorded /\ decisions' = decisions + 1 /\ taken' = taken /\ calls' = calls
        /\ sweep' = sweep
    BY <1>2 DEF AppendsDecision, bridge, history
  <2>2. PICK x \in Gate :
              /\ x.state = st /\ x.decision = decisions + 1 /\ decisions + 1 \in Decisions
              /\ \A g \in GateIds : gates'[g] = IF g = deciders[p].id THEN x ELSE gates[g]
    BY <1>2, DecisionAppended
  <2>3. ~Gone(taken, calls, decisions + 1)
    <3>1. /\ \A t \in taken : t[2] \in Nat /\ t[2] <= decisions
          /\ \A c \in calls : c.decision \in Nat /\ c.decision <= decisions
      <4>1. taken \in SUBSET (Questions \X Decisions) /\ calls \in SUBSET Calls
        BY DEF TypeOK
      <4>2. \A t \in taken : t[2] \in Nat
        BY <4>1, InteractionAssumption DEF Decisions
      <4>3. \A c \in calls : c.decision \in Nat
        BY <4>1, InteractionAssumption DEF Calls, Decisions
      <4> QED
        BY <4>2, <4>3 DEF Delivery
    <3> QED
      BY <3>1, DecidedNumbers DEF Gone
  <2>4. Active' <=> Active
    BY <2>1 DEF Active
  <2>51. ASSUME NEW g \in GateIds, IsDecided(gates'[g])
        PROVE  Vouched(taken', calls', unrecorded', sweep', gates'[g].decision)
    <3>1. CASE gates'[g] = x
      BY <2>1, <2>2, <2>3, <3>1 DEF Vouched
    <3>2. CASE gates'[g] = gates[g]
      BY <2>1, <2>51, <3>2 DEF Evidence
    <3> QED
      BY <2>2, <3>1, <3>2
  <2>52. ASSUME Active'
        PROVE  Vouched(taken', calls', unrecorded', sweep', sweep'.gate.decision)
    BY <2>1, <2>4, <2>52 DEF Evidence
  <2>53. ASSUME NEW g \in GateIds, NotSent(gates'[g])
        PROVE  /\ gates'[g].failure.decision \in 1..decisions'
               /\ Gone(taken', calls', gates'[g].failure.decision) =>
                    unrecorded'[gates'[g].failure.decision] > 0
               /\ \A h \in GateIds : gates'[h].decision # gates'[g].failure.decision
               /\ Active' => sweep'.gate.decision # gates'[g].failure.decision
    <3>1. gates'[g] = gates[g] /\ NotSent(gates[g])
      BY <2>2, <2>53 DEF NotSent
    <3> DEFINE n == gates[g].failure.decision
    <3>2. /\ n \in 1..decisions /\ (Gone(taken, calls, n) => unrecorded[n] > 0)
          /\ (\A h \in GateIds : gates[h].decision # n) /\ (Active => sweep.gate.decision # n)
      BY <3>1 DEF Evidence
    <3> HIDE DEF n
    <3>3. n \in 1..(decisions + 1) /\ n # decisions + 1
      BY <3>2, DecidedNumbers
    <3>4. \A h \in GateIds : gates'[h].decision # n
      BY <2>2, <3>2, <3>3
    <3> QED
      BY <2>1, <2>4, <3>1, <3>2, <3>3, <3>4 DEF n
  <2> QED
    BY <2>51, <2>52, <2>53 DEF Evidence
<1>3. ASSUME NEW p \in Deciders, DeletesGate(p)
      PROVE  Evidence'
  <2>1. /\ unrecorded' = unrecorded /\ decisions' = decisions /\ taken' = taken /\ calls' = calls
        /\ sweep' = sweep /\ \A g \in GateIds : gates'[g] = gates[g] \/ gates'[g] = Absent
    BY <1>3 DEF DeletesGate, bridge, history, TypeOK
  <2>2. Active' => Active /\ sweep'.gate = sweep.gate
    BY <2>1 DEF Active
  <2> QED
    BY <2>1, <2>2, EvidenceKept
<1>4. ASSUME NEW p \in Deciders, ReclaimsLog(p)
      PROVE  Evidence'
  <2>1. /\ unrecorded' = unrecorded /\ decisions' = decisions /\ taken' = taken /\ calls' = calls
        /\ sweep' = sweep /\ \A g \in GateIds : gates'[g] = gates[g] \/ gates'[g] = Absent
    BY <1>4 DEF ReclaimsLog, bridge, history, TypeOK
  <2>2. Active' => Active /\ sweep'.gate = sweep.gate
    BY <2>1 DEF Active
  <2> QED
    BY <2>1, <2>2, EvidenceKept
<1>5. ASSUME Sees
      PROVE  Evidence'
  <2>1. /\ unrecorded' = unrecorded /\ decisions' = decisions /\ taken' = taken /\ calls' = calls
        /\ gates' = gates
    BY <1>5 DEF Sees, log, bridge, history
  <2>2. ~Active' /\ \A d \in Decisions : ~Watched(sweep, d)
    BY <1>5 DEF Sees, AtRest, Active, Watched
  <2> QED
    BY <2>1, <2>2, EvidenceKept
<1>6. ASSUME FoldsNoQuestion
      PROVE  Evidence'
  <2>1. /\ unrecorded' = unrecorded /\ decisions' = decisions /\ taken' = taken /\ calls' = calls
        /\ gates' = gates
    BY <1>6 DEF FoldsNoQuestion, log, bridge, history
  <2>2. ~Active' /\ \A d \in Decisions : ~Watched(sweep, d)
    BY <1>6, FoldsNoneTo DEF FoldsNoQuestion, AtRest, Active, Watched
  <2> QED
    BY <2>1, <2>2, EvidenceKept
<1>7. ASSUME FoldsQuestion
      PROVE  Evidence'
  <2>1. /\ unrecorded' = unrecorded /\ decisions' = decisions /\ taken' = taken /\ calls' = calls
        /\ gates' = gates
    BY <1>7 DEF FoldsQuestion, log, bridge, history
  <2>2. \A d \in Decisions : ~Watched(sweep, d)
    BY <1>7 DEF FoldsQuestion, Watched
  <2>3. ~Active' \/ \E g \in GateIds : IsDecided(gates[g]) /\ sweep'.gate = gates[g]
    BY <1>7, FoldsTo
  <2>41. ASSUME NEW g \in GateIds, IsDecided(gates'[g])
        PROVE  Vouched(taken', calls', unrecorded', sweep', gates'[g].decision)
    BY <2>1, <2>2, <2>41, DecidedNumbers DEF Evidence, Vouched
  <2>42. ASSUME Active'
        PROVE  Vouched(taken', calls', unrecorded', sweep', sweep'.gate.decision)
    <3>1. PICK g \in GateIds : IsDecided(gates[g]) /\ sweep'.gate = gates[g]
      BY <2>3, <2>42
    <3> QED
      BY <2>1, <2>2, <3>1, DecidedNumbers DEF Evidence, Vouched
  <2>43. ASSUME NEW g \in GateIds, NotSent(gates'[g])
        PROVE  /\ gates'[g].failure.decision \in 1..decisions'
               /\ Gone(taken', calls', gates'[g].failure.decision) =>
                    unrecorded'[gates'[g].failure.decision] > 0
               /\ \A h \in GateIds : gates'[h].decision # gates'[g].failure.decision
               /\ Active' => sweep'.gate.decision # gates'[g].failure.decision
    <3> DEFINE n == gates[g].failure.decision
    <3>1. NotSent(gates[g])
      BY <2>1, <2>43
    <3>2. /\ n \in 1..decisions /\ (Gone(taken, calls, n) => unrecorded[n] > 0)
          /\ (\A h \in GateIds : gates[h].decision # n) /\ (Active => sweep.gate.decision # n)
      BY <3>1 DEF Evidence
    <3> HIDE DEF n
    <3>3. Active' => sweep'.gate.decision # n
      BY <2>3, <3>2
    <3> QED
      BY <2>1, <3>2, <3>3 DEF n
  <2> QED
    BY <2>41, <2>42, <2>43 DEF Evidence
<1>8. ASSUME Creates
      PROVE  Evidence'
  <2>1. /\ unrecorded' = unrecorded /\ decisions' = decisions /\ taken' = taken /\ calls' = calls
    BY <1>8 DEF Creates, bridge, history
  <2>2. ~Active' /\ \A d \in Decisions : ~Watched(sweep, d)
    BY <1>8 DEF Creates, AtRest, Active, Watched
  <2>3. sweep.seen \in Questions
    BY <1>8 DEF Creates, Custody, SweepHolds
  <2>4. PICK x \in Gate : x = Fresh(sweep.seen)
    BY <2>3, FreshSnapshot
  <2>5. ~IsDecided(x) /\ ~NotSent(x) /\ x.decision = 0
    BY <2>3, <2>4, FreshSnapshot DEF IsDecided, NotSent, NoFailure
  <2>6. \A g \in GateIds : gates'[g] = gates[g] \/ gates'[g] = x
    BY <1>8, <2>4 DEF Creates, TypeOK
  <2>71. ASSUME NEW g \in GateIds, IsDecided(gates'[g])
        PROVE  Vouched(taken', calls', unrecorded', sweep', gates'[g].decision)
    BY <2>1, <2>2, <2>5, <2>6, <2>71, DecidedNumbers DEF Evidence, Vouched
  <2>72. ASSUME Active'
        PROVE  Vouched(taken', calls', unrecorded', sweep', sweep'.gate.decision)
    BY <2>2, <2>72
  <2>73. ASSUME NEW g \in GateIds, NotSent(gates'[g])
        PROVE  /\ gates'[g].failure.decision \in 1..decisions'
               /\ Gone(taken', calls', gates'[g].failure.decision) =>
                    unrecorded'[gates'[g].failure.decision] > 0
               /\ \A h \in GateIds : gates'[h].decision # gates'[g].failure.decision
               /\ Active' => sweep'.gate.decision # gates'[g].failure.decision
    <3> DEFINE n == gates[g].failure.decision
    <3>1. NotSent(gates[g]) /\ gates'[g] = gates[g]
      BY <2>5, <2>6, <2>73
    <3>2. /\ n \in 1..decisions /\ (Gone(taken, calls, n) => unrecorded[n] > 0)
          /\ (\A h \in GateIds : gates[h].decision # n) /\ (Active => sweep.gate.decision # n)
      BY <3>1 DEF Evidence
    <3>3. n # 0
      BY <3>2, DecidedNumbers
    <3> HIDE DEF n
    <3>4. \A h \in GateIds : gates'[h].decision # n
      BY <2>5, <2>6, <3>2, <3>3
    <3> QED
      BY <2>1, <2>2, <3>1, <3>2, <3>4 DEF n
  <2> QED
    BY <2>71, <2>72, <2>73 DEF Evidence
<1>9. ASSUME NEW x \in Gate, Recorded(x)
      PROVE  Evidence'
  <2>1. /\ unrecorded' = unrecorded /\ decisions' = decisions /\ taken' = taken /\ calls' = calls
        /\ ~Active'
    BY <1>9 DEF Recorded, Appends, bridge, history, AtRest, Active
  <2>2. \A g \in GateIds : gates'[g] = IF g = sweep.id THEN x ELSE gates[g]
    BY <1>9 DEF Recorded, Appends, TypeOK
  <2>3. \A g \in GateIds \ {sweep.id} : ~Watched(sweep, gates[g].decision) /\ (Active => gates[g].decision # sweep.gate.decision)
    BY DEF Watched, Active, Custody, OneGate
  <2>4. x.decision = 0 \/ (Active /\ x.decision = sweep.gate.decision)
    BY <1>9 DEF Recorded, RecordsExpiry, RecordsApplied, RecordsReopened, RecordsAttempt, Active
  <2>51. ASSUME NEW g \in GateIds, IsDecided(gates'[g])
        PROVE  Vouched(taken', calls', unrecorded', sweep', gates'[g].decision)
    <3>1. CASE g = sweep.id
      <4>1. gates'[g] = x /\ IsDecided(x)
        BY <2>2, <2>51, <3>1
      <4>2. RecordsAttempt(x)
        BY <1>9, <4>1 DEF Recorded, RecordsExpiry, RecordsApplied, RecordsReopened, IsDecided
      <4>3. Active /\ x.decision = sweep.gate.decision /\ ~Watched(sweep, x.decision)
        BY <4>2 DEF RecordsAttempt, Active, Watched
      <4> QED
        BY <2>1, <4>1, <4>3 DEF Evidence, Vouched
    <3>2. CASE g # sweep.id
      BY <2>1, <2>2, <2>3, <2>51, <3>2 DEF Evidence, Vouched
    <3> QED
      BY <3>1, <3>2
  <2>52. ASSUME Active'
        PROVE  Vouched(taken', calls', unrecorded', sweep', sweep'.gate.decision)
    BY <2>1, <2>52
  <2>53. ASSUME NEW g \in GateIds, NotSent(gates'[g])
        PROVE  /\ gates'[g].failure.decision \in 1..decisions'
               /\ Gone(taken', calls', gates'[g].failure.decision) =>
                    unrecorded'[gates'[g].failure.decision] > 0
               /\ \A h \in GateIds : gates'[h].decision # gates'[g].failure.decision
               /\ Active' => sweep'.gate.decision # gates'[g].failure.decision
    <3>1. CASE g # sweep.id
      <4> DEFINE n == gates[g].failure.decision
      <4>1. NotSent(gates[g]) /\ gates'[g] = gates[g]
        BY <2>2, <2>53, <3>1
      <4>2. /\ n \in 1..decisions /\ (Gone(taken, calls, n) => unrecorded[n] > 0)
            /\ (\A h \in GateIds : gates[h].decision # n) /\ (Active => sweep.gate.decision # n)
        BY <4>1 DEF Evidence
      <4>3. n # 0
        BY <4>2, DecidedNumbers
      <4> HIDE DEF n
      <4>4. \A h \in GateIds : gates'[h].decision # n
        BY <2>2, <2>4, <4>2, <4>3
      <4> QED
        BY <2>1, <4>1, <4>2, <4>4 DEF n
    <3>2. CASE g = sweep.id
      <4>1. gates'[g] = x /\ NotSent(x)
        BY <2>2, <2>53, <3>2
      <4>2. /\ sweep.at \in {"reopen", "unsent"} /\ x.decision = 0
            /\ x.failure.decision = sweep.gate.decision
        <5>1. ~RecordsAttempt(x)
          BY <4>1 DEF RecordsAttempt, NotSent, Custody, SweepHolds, Active, IsDecided
        <5> QED
          BY <1>9, <4>1, <5>1 DEF Recorded, RecordsExpiry, RecordsApplied, RecordsReopened, NotSent
      <4> DEFINE n == sweep.gate.decision
      <4>3. Active /\ n \in 1..decisions /\ ~Watched(sweep, n)
        BY <4>2 DEF Active, Custody, SweepHolds, Watched
      <4>4. Gone(taken, calls, n) => unrecorded[n] > 0
        BY <4>3 DEF Evidence, Vouched
      <4>5. n # 0
        BY <4>3, DecidedNumbers
      <4>6. \A h \in GateIds : gates'[h].decision # n
        BY <2>2, <2>3, <4>2, <4>3, <4>5
      <4> HIDE DEF n
      <4> QED
        BY <2>1, <4>1, <4>2, <4>3, <4>4, <4>6 DEF n
    <3> QED
      BY <3>1, <3>2
  <2> QED
    BY <2>51, <2>52, <2>53 DEF Evidence
<1>10. ASSUME OfferUnsent
      PROVE  Evidence'
  <2>1. /\ unrecorded' = unrecorded /\ decisions' = decisions /\ taken' = taken /\ calls' = calls
        /\ gates' = gates
    BY <1>10 DEF OfferUnsent, Offers, log, bridge, history
  <2>2. sweep.at = "offer" /\ sweep'.at = "unsent" /\ sweep'.gate = sweep.gate
    BY <1>10 DEF OfferUnsent, Offers, TypeOK
  <2>3. (Active' => Active) /\ \A d \in Decisions : Watched(sweep, d) => Watched(sweep', d)
    BY <2>2 DEF Active, Watched
  <2> QED
    BY <2>1, <2>2, <2>3, EvidenceKept
<1>11. ASSUME OfferRefused
      PROVE  Evidence'
  <2>1. /\ unrecorded' = unrecorded /\ decisions' = decisions /\ taken' = taken /\ calls' = calls
        /\ gates' = gates
    BY <1>11 DEF OfferRefused, Offers, log, bridge, history
  <2>2. sweep.at = "offer" /\ sweep'.at = "failed" /\ sweep'.gate = sweep.gate
    BY <1>11 DEF OfferRefused, Offers, TypeOK
  <2>3. (Active' => Active) /\ \A d \in Decisions : Watched(sweep, d) => Watched(sweep', d)
    BY <2>2 DEF Active, Watched
  <2> QED
    BY <2>1, <2>2, <2>3, EvidenceKept
<1>12. ASSUME OfferAdmitted
      PROVE  Evidence'
  <2> DEFINE e == sweep.gate.decision
  <2>1. /\ unrecorded' = unrecorded /\ decisions' = decisions /\ taken' = taken /\ gates' = gates
        /\ calls' = calls \cup {[question |-> sweep.seen, decision |-> e, at |-> "admitted"]}
    BY <1>12 DEF OfferAdmitted, Offers, Admit, log
  <2>2. sweep.at = "offer" /\ sweep'.at = "wait" /\ sweep'.gate = sweep.gate
    BY <1>12 DEF OfferAdmitted, Offers, TypeOK
  <2>3. \A d \in Decisions : Gone(taken', calls', d) => (Gone(taken, calls, d) \/ d = e)
    BY <2>1 DEF Gone
  <2>4. Active /\ Watched(sweep', e) /\ \A d \in Decisions : ~Watched(sweep, d)
    BY <2>2 DEF Watched, Active
  <2>51. ASSUME NEW g \in GateIds, IsDecided(gates'[g])
        PROVE  Vouched(taken', calls', unrecorded', sweep', gates'[g].decision)
    <3>1. gates[g].decision \in Decisions /\ IsDecided(gates[g])
      BY <2>1, <2>51, DecidedNumbers
    <3> QED
      BY <2>1, <2>3, <2>4, <3>1 DEF Evidence, Vouched
  <2>52. ASSUME Active'
        PROVE  Vouched(taken', calls', unrecorded', sweep', sweep'.gate.decision)
    BY <2>2, <2>4 DEF Vouched
  <2>53. ASSUME NEW g \in GateIds, NotSent(gates'[g])
        PROVE  /\ gates'[g].failure.decision \in 1..decisions'
               /\ Gone(taken', calls', gates'[g].failure.decision) =>
                    unrecorded'[gates'[g].failure.decision] > 0
               /\ \A h \in GateIds : gates'[h].decision # gates'[g].failure.decision
               /\ Active' => sweep'.gate.decision # gates'[g].failure.decision
    <3> DEFINE n == gates[g].failure.decision
    <3>1. NotSent(gates[g])
      BY <2>1, <2>53
    <3>2. /\ n \in 1..decisions /\ (Gone(taken, calls, n) => unrecorded[n] > 0)
          /\ (\A h \in GateIds : gates[h].decision # n) /\ (Active => sweep.gate.decision # n)
      BY <3>1 DEF Evidence
    <3>3. n \in Decisions /\ n # e
      BY <2>4, <3>2, DecidedNumbers
    <3> HIDE DEF n, e
    <3>4. sweep'.gate.decision = e
      BY <2>2 DEF e
    <3> QED
      BY <2>1, <2>3, <3>2, <3>3, <3>4 DEF n
  <2> QED
    BY <2>51, <2>52, <2>53 DEF Evidence
<1>13. ASSUME GivesUp
      PROVE  Evidence'
  <2>1. /\ unrecorded' = unrecorded /\ decisions' = decisions /\ taken' = taken /\ calls' = calls
        /\ gates' = gates
    BY <1>13 DEF GivesUp, log, bridge, history
  <2>2. sweep.at = "wait" /\ sweep'.at = "failed" /\ sweep'.gate = sweep.gate
    BY <1>13 DEF GivesUp, TypeOK
  <2>3. (Active' => Active) /\ \A d \in Decisions : Watched(sweep, d) => Watched(sweep', d)
    BY <2>2 DEF Active, Watched
  <2> QED
    BY <2>1, <2>2, <2>3, EvidenceKept
<1>14. ASSUME Crash
      PROVE  Evidence'
  <2>1. /\ decisions' = decisions /\ taken' = taken /\ calls' = calls /\ gates' = gates /\ ~Active'
    BY <1>14 DEF Crash, log, bridge, AtRest, Active
  <2>2. \A d \in Decisions : unrecorded'[d] = unrecorded[d] + OutOf(sweep, d)
    <3>1. Out => sweep.gate.decision \in Decisions
      BY DecidedNumbers DEF Active, Out
    <3> QED
      BY <1>14, <3>1, CrashCounts
  <2>3. \A d \in Decisions :
            /\ unrecorded[d] \in Nat /\ OutOf(sweep, d) \in 0..1
            /\ Watched(sweep, d) => OutOf(sweep, d) = 1
    BY Counts DEF OutOf, Watched
  <2>4. \A d \in Decisions : unrecorded[d] > 0 \/ Watched(sweep, d) => unrecorded'[d] > 0
    <3> SUFFICES ASSUME NEW d \in Decisions, unrecorded[d] > 0 \/ Watched(sweep, d)
                 PROVE  unrecorded[d] + OutOf(sweep, d) > 0
      BY <2>2
    <3>1. unrecorded[d] \in Nat /\ OutOf(sweep, d) \in 0..1
      BY <2>3
    <3>2. CASE unrecorded[d] > 0
      BY <3>1, <3>2
    <3>3. CASE Watched(sweep, d)
      <4>1. OutOf(sweep, d) = 1
        BY <2>3, <3>3
      <4> QED
        BY <3>1, <4>1
    <3> QED
      BY <3>2, <3>3
  <2>51. ASSUME NEW g \in GateIds, IsDecided(gates'[g])
        PROVE  Vouched(taken', calls', unrecorded', sweep', gates'[g].decision)
    BY <2>1, <2>4, <2>51, DecidedNumbers DEF Evidence, Vouched
  <2>52. ASSUME Active'
        PROVE  Vouched(taken', calls', unrecorded', sweep', sweep'.gate.decision)
    BY <2>1, <2>52
  <2>53. ASSUME NEW g \in GateIds, NotSent(gates'[g])
        PROVE  /\ gates'[g].failure.decision \in 1..decisions'
               /\ Gone(taken', calls', gates'[g].failure.decision) =>
                    unrecorded'[gates'[g].failure.decision] > 0
               /\ \A h \in GateIds : gates'[h].decision # gates'[g].failure.decision
               /\ Active' => sweep'.gate.decision # gates'[g].failure.decision
    <3> DEFINE n == gates[g].failure.decision
    <3>1. NotSent(gates[g])
      BY <2>1, <2>53
    <3>2. /\ n \in 1..decisions /\ (Gone(taken, calls, n) => unrecorded[n] > 0)
          /\ (\A h \in GateIds : gates[h].decision # n) /\ (Active => sweep.gate.decision # n)
      BY <3>1 DEF Evidence
    <3>3. n \in Decisions
      BY <3>2, DecidedNumbers
    <3> HIDE DEF n
    <3> QED
      BY <2>1, <2>4, <3>2, <3>3 DEF n
  <2> QED
    BY <2>51, <2>52, <2>53 DEF Evidence
<1>15. ASSUME Asks
      PROVE  Evidence'
  <2>1. /\ unrecorded' = unrecorded /\ decisions' = decisions /\ taken' = taken /\ calls' = calls
        /\ sweep' = sweep /\ gates' = gates
    BY <1>15 DEF Asks, log, bridge, history
  <2>2. Active' => Active /\ sweep'.gate = sweep.gate
    BY <2>1 DEF Active
  <2> QED
    BY <2>1, <2>2, EvidenceKept
<1>16. ASSUME TurnEnds
      PROVE  Evidence'
  <2>1. /\ unrecorded' = unrecorded /\ decisions' = decisions /\ taken' = taken /\ calls' = calls
        /\ sweep' = sweep /\ gates' = gates
    BY <1>16 DEF TurnEnds, log, bridge, history
  <2>2. Active' => Active /\ sweep'.gate = sweep.gate
    BY <2>1 DEF Active
  <2> QED
    BY <2>1, <2>2, EvidenceKept
<1>17. ASSUME AnswersDirectly
      PROVE  Evidence'
  <2>1. /\ unrecorded' = unrecorded /\ decisions' = decisions + 1 /\ taken' = taken
        /\ sweep' = sweep /\ gates' = gates
        /\ calls' = calls \cup {[question |-> pending, decision |-> decisions + 1, at |-> "admitted"]}
    BY <1>17 DEF AnswersDirectly, Admit, log, history
  <2>2. \A d \in Decisions : (Gone(taken', calls', d) /\ d <= decisions) => Gone(taken, calls, d)
    BY <2>1, DecidedNumbers DEF Gone
  <2>3. Active' <=> Active
    BY <2>1 DEF Active
  <2>41. ASSUME NEW g \in GateIds, IsDecided(gates'[g])
        PROVE  Vouched(taken', calls', unrecorded', sweep', gates'[g].decision)
    <3>1. gates[g].decision \in Decisions /\ gates[g].decision <= decisions /\ IsDecided(gates[g])
      BY <2>1, <2>41, DecidedNumbers
    <3> QED
      BY <2>1, <2>2, <3>1 DEF Evidence, Vouched
  <2>42. ASSUME Active'
        PROVE  Vouched(taken', calls', unrecorded', sweep', sweep'.gate.decision)
    BY <2>1, <2>2, <2>3, <2>42, DecidedNumbers DEF Evidence, Vouched
  <2>43. ASSUME NEW g \in GateIds, NotSent(gates'[g])
        PROVE  /\ gates'[g].failure.decision \in 1..decisions'
               /\ Gone(taken', calls', gates'[g].failure.decision) =>
                    unrecorded'[gates'[g].failure.decision] > 0
               /\ \A h \in GateIds : gates'[h].decision # gates'[g].failure.decision
               /\ Active' => sweep'.gate.decision # gates'[g].failure.decision
    <3> DEFINE n == gates[g].failure.decision
    <3>1. NotSent(gates[g])
      BY <2>1, <2>43
    <3>2. /\ n \in 1..decisions /\ (Gone(taken, calls, n) => unrecorded[n] > 0)
          /\ (\A h \in GateIds : gates[h].decision # n) /\ (Active => sweep.gate.decision # n)
      BY <3>1 DEF Evidence
    <3>3. n \in Decisions /\ n <= decisions /\ n \in 1..(decisions + 1)
      BY <3>2, DecidedNumbers
    <3> HIDE DEF n
    <3> QED
      BY <2>1, <2>2, <2>3, <3>2, <3>3 DEF n
  <2> QED
    BY <2>41, <2>42, <2>43 DEF Evidence
<1>18. ASSUME NEW c \in calls, Writes(c)
      PROVE  Evidence'
  <2>1. /\ unrecorded' = unrecorded /\ decisions' = decisions /\ sweep' = sweep /\ gates' = gates
        /\ calls' = (calls \ {c}) \cup {[c EXCEPT !.at = "written"]}
        /\ taken' = taken \cup {<<c.question, c.decision>>}
    BY <1>18 DEF Writes, log, history
  <2>2. PICK w \in Calls : w = [c EXCEPT !.at = "written"]
    BY DEF TypeOK, Calls
  <2>w. w.decision = c.decision /\ calls' = (calls \ {c}) \cup {w}
    BY <2>1, <2>2 DEF TypeOK, Calls
  <2>3. \A d \in Decisions : Gone(taken', calls', d) => Gone(taken, calls, d)
    BY <2>1, <2>w DEF Gone
  <2>4. Active' => Active
    BY <2>1 DEF Active
  <2> QED
    BY <2>1, <2>3, <2>4, EvidenceKept
<1>19. ASSUME NEW c \in calls, Returns(c)
      PROVE  Evidence'
  <2>1. /\ unrecorded' = unrecorded /\ decisions' = decisions /\ gates' = gates
        /\ calls' = calls \ {c} /\ taken' = taken /\ Ends(c, "apply")
    BY <1>19 DEF Returns, Ends, log, history
  <2>2. \/ sweep' = sweep
        \/ sweep.at = "wait" /\ sweep'.at = "apply" /\ sweep'.gate = sweep.gate
    BY <2>1, EndsSweep DEF SweepPoints
  <2>3. \A d \in Decisions : Gone(taken', calls', d) => Gone(taken, calls, d)
    BY <2>1 DEF Gone
  <2>4. \A d \in Decisions : Watched(sweep, d) => Watched(sweep', d)
    BY <2>2 DEF Watched
  <2>5. Active' => Active /\ sweep'.gate = sweep.gate
    BY <2>2 DEF Active
  <2> QED
    BY <2>1, <2>3, <2>4, <2>5, EvidenceKept
<1>20. ASSUME NEW c \in calls, Refuses(c)
      PROVE  Evidence'
  <2>1. /\ unrecorded' = unrecorded /\ decisions' = decisions /\ gates' = gates
        /\ calls' = calls \ {c} /\ taken' = taken /\ Ends(c, "failed")
    BY <1>20 DEF Refuses, Ends, log, history
  <2>2. \/ sweep' = sweep
        \/ sweep.at = "wait" /\ sweep'.at = "failed" /\ sweep'.gate = sweep.gate
    BY <2>1, EndsSweep DEF SweepPoints
  <2>3. \A d \in Decisions : Gone(taken', calls', d) => Gone(taken, calls, d)
    BY <2>1 DEF Gone
  <2>4. \A d \in Decisions : Watched(sweep, d) => Watched(sweep', d)
    BY <2>2 DEF Watched
  <2>5. Active' => Active /\ sweep'.gate = sweep.gate
    BY <2>2 DEF Active
  <2> QED
    BY <2>1, <2>3, <2>4, <2>5, EvidenceKept
<1>21. ASSUME NEW c \in calls, Breaks(c)
      PROVE  Evidence'
  <2>1. /\ unrecorded' = unrecorded /\ decisions' = decisions /\ gates' = gates
        /\ calls' = calls \ {c} /\ taken' = taken /\ Ends(c, "failed")
    BY <1>21 DEF Breaks, Ends, log, history
  <2>2. \/ sweep' = sweep
        \/ sweep.at = "wait" /\ sweep'.at = "failed" /\ sweep'.gate = sweep.gate
    BY <2>1, EndsSweep DEF SweepPoints
  <2>3. \A d \in Decisions : Gone(taken', calls', d) => Gone(taken, calls, d)
    BY <2>1 DEF Gone
  <2>4. \A d \in Decisions : Watched(sweep, d) => Watched(sweep', d)
    BY <2>2 DEF Watched
  <2>5. Active' => Active /\ sweep'.gate = sweep.gate
    BY <2>2 DEF Active
  <2> QED
    BY <2>1, <2>3, <2>4, <2>5, EvidenceKept
<1>22. ASSUME UNCHANGED vars
      PROVE  Evidence'
  <2>1. /\ unrecorded' = unrecorded /\ decisions' = decisions /\ taken' = taken /\ calls' = calls
        /\ sweep' = sweep /\ gates' = gates
    BY <1>22 DEF vars, log, bridge, history
  <2>2. Active' => Active /\ sweep'.gate = sweep.gate
    BY <2>1 DEF Active
  <2> QED
    BY <2>1, <2>2, EvidenceKept
<1>23. CASE SweepRecords
  <2>1. PICK x \in Gate : Recorded(x)
    BY <1>23, RecordKinds DEF IInv, Custody
  <2> QED
    BY <1>9, <2>1
<1> QED
  BY <1>1, <1>2, <1>3, <1>4, <1>5, <1>6, <1>7, <1>8, <1>10, <1>11, <1>12, <1>13, <1>14, <1>15, <1>16, <1>17, <1>18, <1>19, <1>20, <1>21, <1>22, <1>23
  DEF Next, Decider, Sweep, Bridge, SweepRecords

-----------------------------------------------------------------------------
(* The theorems.                                                           *)

\* The invariant is inductive.
LEMMA InvariantStep == IInv /\ [Next]_vars => IInv'
<1>1. IInv /\ [Next]_vars => Custody'
  BY SweepHoldsStep, GatesSoundStep, OneGateStep DEF Custody
<1> QED
  BY <1>1, TypeStep, AccountingStep, DeliveryStep, AnsweredOnceStep, AppliedWasTakenStep, EvidenceStep
  DEF IInv

LEMMA Invariance == Spec => []IInv
BY InitInvariant, InvariantStep, PTL DEF Spec

\* The invariant is strong enough for the claim about what was not sent.
LEMMA EvidenceSuffices == IInv => NotSentIsTrue
<1> SUFFICES ASSUME IInv, NEW g \in GateIds, gates[g].state = "open",
                    gates[g].failure.delivery = "not-sent",
                    unrecorded[gates[g].failure.decision] = 0
             PROVE  /\ \A t \in taken : t[2] # gates[g].failure.decision
                    /\ \A c \in calls : c.decision # gates[g].failure.decision
  BY DEF NotSentIsTrue
<1>1. ~Gone(taken, calls, gates[g].failure.decision)
  BY DEF IInv, Evidence, NotSent
<1> QED
  BY <1>1 DEF Gone

\* Every variable of the relay keeps its type: in particular no gate records
\* more attempts than the limit.
THEOREM TypeCorrect == Spec => []TypeOK
<1>1. IInv => TypeOK
  BY DEF IInv
<1> QED
  BY <1>1, Invariance, PTL

\* The vendor gets at most one answer to a question (respond,
\* _responded_interactions), however sweeps, deciders, the cockpit and crashes
\* interleave.
THEOREM OneAnswerPerQuestion == Spec => []AnsweredOnce
<1>1. IInv => AnsweredOnce
  BY DEF IInv
<1> QED
  BY <1>1, Invariance, PTL

\* A gate is applied only with an answer that reached the vendor
\* (_sync_interaction), though the sweep appends a snapshot it read before
\* other processes wrote.
THEOREM AppliedReachedTheVendor == Spec => []AppliedWasTaken
<1>1. IInv => AppliedWasTaken
  BY DEF IInv
<1> QED
  BY <1>1, Invariance, PTL

\* What a reopened gate reports as not sent was not sent
\* (_record_delivery_failure).
THEOREM NotSentClaimHolds == Spec => []NotSentIsTrue
BY EvidenceSuffices, Invariance, PTL

\* One decision is offered at most AttemptLimit times, and once more for every
\* crash in the middle of an offer (INTERACTION_DELIVERY_ATTEMPT_LIMIT).
THEOREM OffersStayBounded == Spec => []OffersBounded
<1>1. IInv => OffersBounded
  BY DEF IInv, Accounting, OffersBounded
<1> QED
  BY <1>1, Invariance, PTL

=============================================================================
