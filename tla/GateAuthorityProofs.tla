----------------------- MODULE GateAuthorityProofs -----------------------
(***************************************************************************)
(* Proofs, for every value of the constants of GateAuthority, that the log *)
(* keeps its types, that an approval is spent once, that a permitted       *)
(* mutation rests on a policy-valid approval, that a resumed claim is the  *)
(* operation that spent it, and that a reclaim keeps the applied markers.  *)
(***************************************************************************)
EXTENDS GateAuthority, FiniteSetTheorems, TLAPS

\* The gate, kind and verdict an operation works with are set while the steps
\* that use them are ahead of it.
OpFits(o) ==
    /\ o \in Ops
    /\ o.step \in {"expire", "row", "wait", "delete", "target", "append", "met", "reclaim"}
         => o.gate \in GateIds
    /\ o.step \in {"choose", "target", "append"} => o.verdict \in Verdicts
    /\ o.step \in {"read", "expire"} => o.kind \in Kinds
    /\ o.step = "stamp" => \/ o.verdict = NoVerdict /\ o.kind \in EnforcedKinds
                           \/ o.verdict \in Verdicts /\ o.gate \in GateIds
    /\ o.step = "claim" => o.kind \in EnforcedKinds

TypeInv == TypeOK /\ \A a \in Actors : OpFits(op[a])

\* A fresh snapshot and an idle operation are well typed.
LEMMA AbsentIdleType == Absent \in Snapshot /\ Idle \in Ops /\ Idle.step = "idle"
  BY GateConstants DEF Absent, Snapshot, States, Idle, Ops, Steps

\* The four snapshot constructors of records.py return snapshots.
LEMMA SnapshotType ==
    ASSUME NEW s \in Snapshot, NEW now \in Nat
    PROVE  /\ \A k \in Kinds, e \in BOOLEAN : CreateGate(k, now, e) \in Snapshot
           /\ \A v \in Verdicts : DecideGate(s, v, now) \in Snapshot
           /\ ExpireGate(s, now) \in Snapshot
           /\ \A key \in Keys \cup {NoKey} : ApplyGate(s, now, key) \in Snapshot
  <1>1. \A k \in Kinds, e \in BOOLEAN : CreateGate(k, now, e) \in Snapshot
    BY GateConstants DEF CreateGate, Absent, Snapshot, States
  <1>2. ASSUME NEW v \in Verdicts PROVE DecideGate(s, v, now) \in Snapshot
    <2>1. v \in [decision : DOMAIN DecisionStates, by : Deciders,
                 role : Roles \cup {NoRole}, evid : BOOLEAN]
      BY GateConstants
    <2>2. DecisionStates[v.decision] \in States
      BY <2>1 DEF DecisionStates, States
    <2> QED
      BY <2>1, <2>2 DEF DecideGate, Snapshot, Deciders
  <1>3. ExpireGate(s, now) \in Snapshot
    BY DEF ExpireGate, Snapshot, States
  <1>4. \A key \in Keys \cup {NoKey} : ApplyGate(s, now, key) \in Snapshot
    BY DEF ApplyGate, Snapshot, States
  <1> QED
    BY <1>1, <1>2, <1>3, <1>4

\* Moving an operation to another step, or holding another snapshot, changes
\* that and nothing else.
LEMMA OpUpdate ==
    ASSUME NEW o \in Ops
    PROVE  /\ \A t \in Steps :
                /\ At(o, t) \in Ops /\ At(o, t).step = t
                /\ At(o, t).now = o.now /\ At(o, t).gate = o.gate
                /\ At(o, t).kind = o.kind /\ At(o, t).verdict = o.verdict
                /\ At(o, t).key = o.key /\ At(o, t).held = o.held
           /\ \A g \in GateIds, s \in Snapshot :
                /\ Hold(o, g, s) \in Ops /\ Hold(o, g, s).step = o.step
                /\ Hold(o, g, s).now = o.now /\ Hold(o, g, s).gate = o.gate
                /\ Hold(o, g, s).kind = o.kind /\ Hold(o, g, s).verdict = o.verdict
                /\ Hold(o, g, s).held = [o.held EXCEPT ![g] = s]
  BY DEF At, Hold, Ops

\* What an operation that raises a gate starts with.
LEMMA CreateOpType ==
    ASSUME TypeOK, NEW k \in Kinds, NEW w \in BOOLEAN, NEW e \in BOOLEAN
    PROVE  OpFits(CreateOp(k, w, e)) /\ CreateOp(k, w, e).step = "read"
  <1>1. clock \in Nat
    BY DEF TypeOK
  <1>2. CreateOp(k, w, e) \in Ops /\ CreateOp(k, w, e).step = "read" /\ CreateOp(k, w, e).kind = k
    BY <1>1, AbsentIdleType DEF CreateOp, Ops, Steps
  <1> QED
    BY <1>2 DEF OpFits

\* The copy of the open gates that a create reads, and its next step.
LEMMA OpenReadType ==
    ASSUME TypeOK, NEW o, OpFits(o), o.step = "read", nextId \in GateIds
    PROVE  /\ OpFits(OpenRead(o)) /\ OpenRead(o).step = "expire" /\ OpenRead(o).gate = nextId
           /\ \A g \in GateIds : OpenRead(o).held[g] =
                IF gates[g].state = "open" THEN gates[g] ELSE Absent
  <1> DEFINE held == [g \in GateIds |->
                        IF gates[g].state = "open" THEN gates[g] ELSE Absent]
  <1>1. nextId \in Nat /\ o \in Ops /\ o.kind \in Kinds
    BY GateConstants DEF TypeOK, OpFits
  <1>2. /\ held \in [GateIds -> Snapshot]
        /\ \A g \in GateIds : held[g] = IF gates[g].state = "open" THEN gates[g] ELSE Absent
    BY AbsentIdleType DEF TypeOK
  <1>3. OpenRead(o) = [o EXCEPT !.step = "expire", !.gate = nextId, !.held = held]
    BY DEF OpenRead
  <1> HIDE DEF held
  <1>4. /\ OpenRead(o) \in Ops /\ OpenRead(o).step = "expire" /\ OpenRead(o).gate = nextId
        /\ OpenRead(o).kind = o.kind /\ OpenRead(o).held = held
    BY <1>1, <1>2, <1>3 DEF Ops, Steps
  <1> QED
    BY <1>1, <1>2, <1>4 DEF OpFits

\* No verdict is the absence of one.
LEMMA NoVerdictOut == NoVerdict \notin Verdicts
  BY GateConstants DEF NoVerdict, DecisionStates

\* What a decision starts with: one that has its gate, and one that has yet to
\* choose it.
LEMMA DecisionOpType ==
    ASSUME TypeOK, NEW g \in Nat, NEW v \in Verdicts, NEW step \in {"choose", "target"},
           step = "target" => g \in GateIds
    PROVE  /\ OpFits(DecisionOp(step, g, v)) /\ DecisionOp(step, g, v).step = step
           /\ DecisionOp(step, g, v).now = clock
  <1>1. clock \in Nat /\ horizon \in Nat
    BY GateConstants DEF TypeOK
  <1>2. /\ DecisionOp(step, g, v) \in Ops /\ DecisionOp(step, g, v).step = step
        /\ DecisionOp(step, g, v).gate = g /\ DecisionOp(step, g, v).verdict = v
        /\ DecisionOp(step, g, v).now = clock
    BY <1>1, AbsentIdleType DEF DecisionOp, Ops, Steps
  <1> QED
    BY <1>2 DEF OpFits

\* A decision of a structural seat, which has its gate and no stamp yet.
LEMMA StructuralOpType ==
    ASSUME TypeOK, NEW g \in GateIds, NEW v \in Verdicts
    PROVE  LET o == [DecisionOp("stamp", g, v) EXCEPT !.now = 0, !.horizon = 0]
           IN  OpFits(o) /\ o.step = "stamp"
  <1> DEFINE o == [DecisionOp("stamp", g, v) EXCEPT !.now = 0, !.horizon = 0]
  <1>1. clock \in Nat /\ horizon \in Nat /\ g \in Nat
    BY GateConstants DEF TypeOK, GateIds
  <1>2. /\ DecisionOp("stamp", g, v) \in Ops /\ DecisionOp("stamp", g, v).step = "stamp"
        /\ DecisionOp("stamp", g, v).gate = g /\ DecisionOp("stamp", g, v).verdict = v
    BY <1>1, AbsentIdleType DEF DecisionOp, Ops, Steps
  <1>3. o \in Ops /\ o.step = "stamp" /\ o.gate = g /\ o.verdict = v
    BY <1>2 DEF Ops
  <1> HIDE DEF o
  <1>4. OpFits(o) /\ o.step = "stamp"
    BY <1>3 DEF OpFits
  <1> QED
    BY <1>4 DEF o

\* The gate a decision chooses.
LEMMA ChooseType ==
    ASSUME NEW o, OpFits(o), o.step = "choose", NEW g \in GateIds
    PROVE  OpFits(Choose(o, g)) /\ Choose(o, g).step = "target" /\ Choose(o, g).now = o.now
  <1>1. g \in Nat /\ o \in Ops /\ o.verdict \in Verdicts
    BY GateConstants DEF GateIds, OpFits
  <1>2. /\ Choose(o, g) \in Ops /\ Choose(o, g).step = "target" /\ Choose(o, g).gate = g
        /\ Choose(o, g).verdict = o.verdict /\ Choose(o, g).now = o.now
    BY <1>1 DEF Choose, Ops, Steps
  <1> QED
    BY <1>1, <1>2 DEF OpFits

\* The stamp that a structural decision or a claim takes.
LEMMA StampedType ==
    ASSUME TypeOK, NEW o, OpFits(o), o.step = "stamp"
    PROVE  /\ OpFits(Stamped(o)) /\ Stamped(o).step \in {"claim", "target"}
           /\ Stamped(o).now = clock
  <1> DEFINE step == IF o.verdict = NoVerdict THEN "claim" ELSE "target"
  <1>1. clock \in Nat /\ horizon \in Nat /\ o \in Ops
    BY GateConstants DEF TypeOK, OpFits
  <1>2. step \in {"claim", "target"} /\ step \in Steps
    BY DEF Steps
  <1>3. \/ o.verdict = NoVerdict /\ o.kind \in EnforcedKinds /\ step = "claim"
        \/ o.verdict \in Verdicts /\ o.gate \in GateIds /\ step = "target"
    BY NoVerdictOut DEF OpFits
  <1>4. Stamped(o) = [o EXCEPT !.step = step, !.now = clock, !.horizon = horizon]
    BY DEF Stamped
  <1> HIDE DEF step
  <1>5. /\ Stamped(o) \in Ops /\ Stamped(o).step = step /\ Stamped(o).now = clock
        /\ Stamped(o).gate = o.gate /\ Stamped(o).verdict = o.verdict
        /\ Stamped(o).kind = o.kind
    BY <1>1, <1>2, <1>4 DEF Ops
  <1> QED
    BY <1>2, <1>3, <1>5 DEF OpFits

\* What a closeout starts with.
LEMMA CloseoutOpType ==
    ASSUME TypeOK, NEW k \in EnforcedKinds, NEW key \in Keys \cup {NoKey}
    PROVE  OpFits(CloseoutOp(k, key)) /\ CloseoutOp(k, key).step = "stamp"
  <1>1. k \in Kinds
    BY GateConstants DEF ConsumedKinds
  <1>2. Idle.verdict = NoVerdict
    BY DEF Idle
  <1>3. /\ CloseoutOp(k, key) \in Ops /\ CloseoutOp(k, key).step = "stamp"
        /\ CloseoutOp(k, key).kind = k /\ CloseoutOp(k, key).verdict = NoVerdict
    BY <1>1, <1>2, AbsentIdleType DEF CloseoutOp, Ops, Steps
  <1> QED
    BY <1>3 DEF OpFits

\* Initially the types hold.
LEMMA TypeInit == Init => TypeInv
  <1> SUFFICES ASSUME Init PROVE TypeInv
    OBVIOUS
  <1> QED
    BY AbsentIdleType, GateConstants DEF Init, TypeInv, TypeOK, OpFits, GateIds

\* Replacing one actor's operation by a fitting one keeps the types of `op`.
LEMMA OpReplace ==
    ASSUME TypeInv, NEW a \in Actors, NEW o, OpFits(o), op' = [op EXCEPT ![a] = o]
    PROVE  op' \in [Actors -> Ops] /\ (\A b \in Actors : OpFits(op[b]))'
  BY DEF TypeInv, TypeOK, OpFits

\* The step an operation moves on to fits what it already holds.
LEMMA GotoFits ==
    ASSUME NEW o, OpFits(o)
    PROVE  /\ OpFits(Idle)
           /\ o.step \in {"expire", "row", "wait", "append", "delete", "met"} =>
                \A t \in {"row", "wait", "delete", "met", "reclaim"} : OpFits(At(o, t))
           /\ o.step = "target" => \A g \in GateIds, s \in Snapshot :
                OpFits(At(Hold(o, g, s), "append"))
           /\ o.step = "expire" => \A g \in GateIds, s \in Snapshot : OpFits(Hold(o, g, s))
  <1>1. OpFits(Idle)
    BY AbsentIdleType DEF OpFits
  <1>2. ASSUME o.step \in {"expire", "row", "wait", "append", "delete", "met"},
               NEW t \in {"row", "wait", "delete", "met", "reclaim"}
        PROVE  OpFits(At(o, t))
    <2>1. t \in Steps
      BY DEF Steps
    <2> QED
      BY <1>2, <2>1, OpUpdate DEF OpFits
  <1>3. ASSUME o.step = "expire", NEW g \in GateIds, NEW s \in Snapshot
        PROVE  OpFits(Hold(o, g, s))
    <2>1. /\ Hold(o, g, s) \in Ops /\ Hold(o, g, s).step = o.step
          /\ Hold(o, g, s).gate = o.gate /\ Hold(o, g, s).kind = o.kind
      BY OpUpdate DEF OpFits
    <2> QED
      BY <1>3, <2>1 DEF OpFits
  <1>4. ASSUME o.step = "target", NEW g \in GateIds, NEW s \in Snapshot
        PROVE  OpFits(At(Hold(o, g, s), "append"))
    <2>1. Hold(o, g, s) \in Ops /\ Hold(o, g, s).gate = o.gate /\ Hold(o, g, s).verdict = o.verdict
      BY OpUpdate DEF OpFits
    <2>2. "append" \in Steps
      BY DEF Steps
    <2>3. /\ At(Hold(o, g, s), "append") \in Ops
          /\ At(Hold(o, g, s), "append").step = "append"
          /\ At(Hold(o, g, s), "append").gate = o.gate
          /\ At(Hold(o, g, s), "append").verdict = o.verdict
      BY <2>1, <2>2, OpUpdate
    <2> QED
      BY <1>4, <2>3 DEF OpFits
  <1> QED
    BY <1>1, <1>2, <1>3, <1>4


\* What a mutation that a verdict permits is recorded as.
LEMMA ActType ==
    ASSUME TypeOK, NEW k \in Kinds, NEW g \in GateIds \cup {0}, NEW key \in Keys \cup {NoKey},
           NEW how \in {"gateless", "spent", "resumed", "folded"}, NEW now \in Nat
    PROVE  Act(k, g, how, key, now) \in Acts
  <1>1. g \in Nat /\ (g # 0 => g \in GateIds)
    BY GateConstants DEF GateIds
  <1>2. (IF g = 0 THEN 0 ELSE gates[g].decidedAt) \in Nat
    BY <1>1 DEF TypeOK, Snapshot
  <1> QED
    BY <1>1, <1>2 DEF Act, Acts

\* The steps of lifecycle_gate keep the types.
LEMMA TypeCreate ==
    ASSUME TypeInv, NEW a \in Actors,
           \/ \E k \in Kinds, w \in BOOLEAN, e \in OpenEvidence : GateCreate(a, k, w, e)
           \/ CreateRead(a) \/ CreateExpire(a) \/ CreateOpen(a)
           \/ WriteVerdictByRow(a) \/ GateResponseWait(a)
    PROVE  TypeInv'
  <1>1. ASSUME NEW k \in Kinds, NEW w \in BOOLEAN, NEW e \in OpenEvidence, GateCreate(a, k, w, e)
        PROVE  TypeInv'
    <2>1. e \in BOOLEAN /\ TypeOK
      BY GateConstants DEF TypeInv
    <2>2. OpFits(CreateOp(k, w, e))
      BY <2>1, CreateOpType
    <2>3. op' \in [Actors -> Ops] /\ (\A b \in Actors : OpFits(op[b]))'
      BY <1>1, <2>2, OpReplace DEF GateCreate, Begin
    <2>4. clock' \in 1..(MaxClock + 1) /\ horizon' \in 0..clock'
      BY <1>1, <2>1, GateConstants DEF GateCreate, TakeStamp, TypeOK
    <2> QED
      BY <1>1, <2>1, <2>3, <2>4 DEF GateCreate, TypeInv, TypeOK
  <1>1a. ASSUME CreateRead(a) PROVE TypeInv'
    <2>1. TypeOK /\ OpFits(op[a]) /\ op[a].step = "read" /\ nextId \in GateIds
      BY <1>1a DEF TypeInv, CreateRead
    <2>2. OpFits(OpenRead(op[a]))
      BY <2>1, OpenReadType
    <2>3. op' \in [Actors -> Ops] /\ (\A b \in Actors : OpFits(op[b]))'
      BY <1>1a, <2>2, OpReplace DEF CreateRead
    <2>4. nextId' \in 1..(MaxGates + 1)
      BY <1>1a, <2>1, GateConstants DEF CreateRead, GateIds
    <2> QED
      BY <1>1a, <2>1, <2>3, <2>4 DEF CreateRead, TypeInv, TypeOK
  <1>2. ASSUME CreateExpire(a) PROVE TypeInv'
    <2>1. PICK g \in GateIds : /\ Append(g, ExpireGate(op[a].held[g], op[a].now))
                               /\ op' = [op EXCEPT ![a] = Hold(op[a], g, Absent)]
      BY <1>2 DEF CreateExpire, Held
    <2>2. op[a].held[g] \in Snapshot /\ op[a].now \in Nat /\ OpFits(op[a]) /\ op[a].step = "expire"
      BY <1>2 DEF TypeInv, OpFits, Ops, CreateExpire
    <2>3. gates' \in [GateIds -> Snapshot]
      BY <2>1, <2>2, SnapshotType DEF Append, TypeInv, TypeOK
    <2>4. OpFits(Hold(op[a], g, Absent))
      BY <2>2, GotoFits, AbsentIdleType
    <2>5. op' \in [Actors -> Ops] /\ (\A b \in Actors : OpFits(op[b]))'
      BY <2>1, <2>4, OpReplace
    <2> QED
      BY <1>2, <2>3, <2>5 DEF CreateExpire, TypeInv, TypeOK
  <1>3. ASSUME CreateOpen(a) PROVE TypeInv'
    <2>1. /\ op[a].now \in Nat /\ op[a].evid \in BOOLEAN /\ OpFits(op[a]) /\ op[a].step = "expire"
          /\ op[a].gate \in GateIds /\ op[a].kind \in Kinds
      BY <1>3 DEF TypeInv, OpFits, Ops, CreateOpen
    <2>2. CreateGate(op[a].kind, op[a].now, op[a].evid) \in Snapshot
      BY <2>1, SnapshotType, AbsentIdleType
    <2>3. gates' \in [GateIds -> Snapshot]
      BY <1>3, <2>1, <2>2 DEF CreateOpen, Append, TypeInv, TypeOK
    <2>4. OpFits(At(op[a], "row"))
      BY <2>1, GotoFits
    <2>5. op' \in [Actors -> Ops] /\ (\A b \in Actors : OpFits(op[b]))'
      BY <1>3, <2>4, OpReplace DEF CreateOpen, Goto
    <2> QED
      BY <1>3, <2>3, <2>5 DEF CreateOpen, TypeInv, TypeOK
  <1>4. ASSUME WriteVerdictByRow(a) PROVE TypeInv'
    <2>1. OpFits(op[a]) /\ op[a].step = "row" /\ op[a].gate \in GateIds
      BY <1>4 DEF TypeInv, OpFits, WriteVerdictByRow
    <2>2. rows' \in [GateIds -> {"none", "pending", "met"}]
      BY <1>4, <2>1 DEF WriteVerdictByRow, TypeInv, TypeOK
    <2>3. OpFits(At(op[a], "wait")) /\ OpFits(Idle)
      BY <2>1, GotoFits
    <2>4. op' \in [Actors -> Ops] /\ (\A b \in Actors : OpFits(op[b]))'
      BY <1>4, <2>3, OpReplace DEF WriteVerdictByRow, Goto, Finish
    <2> QED
      BY <1>4, <2>2, <2>4 DEF WriteVerdictByRow, TypeInv, TypeOK
  <1>5. ASSUME GateResponseWait(a) PROVE TypeInv'
    <2>1. OpFits(op[a]) /\ op[a].step = "wait"
      BY <1>5 DEF TypeInv, GateResponseWait
    <2>2. OpFits(At(op[a], "delete")) /\ OpFits(Idle)
      BY <2>1, GotoFits
    <2>3. op' \in [Actors -> Ops] /\ (\A b \in Actors : OpFits(op[b]))'
      BY <1>5, <2>2, OpReplace DEF GateResponseWait, Goto, Finish
    <2> QED
      BY <1>5, <2>3 DEF GateResponseWait, TypeInv, TypeOK
  <1> QED
    BY <1>1, <1>1a, <1>2, <1>3, <1>4, <1>5

\* A step that takes a stamp keeps the bounds of the clock.
LEMMA StampBounds ==
    ASSUME TypeOK, TakeStamp, horizon' = horizon
    PROVE  clock' \in 1..(MaxClock + 1) /\ horizon' \in 0..clock'
  BY GateConstants DEF TakeStamp, TypeOK

\* The ways a decision starts, chooses its gate and takes its stamp keep the types.
LEMMA TypeBeginDecision ==
    ASSUME TypeInv, NEW a \in Actors,
           \/ \E v \in Verdicts : DecideLatestGate(a, v)
           \/ \E g \in GateIds, v \in Verdicts : DecideStructural(a, g, v)
           \/ \E g \in GateIds, v \in Verdicts : DecideAddressedGate(a, g, v)
           \/ ChooseLatest(a) \/ Stamp(a)
    PROVE  TypeInv'
  <1>0. TypeOK /\ OpFits(op[a])
    BY DEF TypeInv
  <1>1. ASSUME NEW v \in Verdicts, DecideLatestGate(a, v) PROVE TypeInv'
    <2>1. OpFits(DecisionOp("choose", 0, v))
      BY <1>0, DecisionOpType
    <2>2. op' \in [Actors -> Ops] /\ (\A b \in Actors : OpFits(op[b]))'
      BY <1>1, <2>1, OpReplace DEF DecideLatestGate, Begin
    <2>3. clock' \in 1..(MaxClock + 1) /\ horizon' \in 0..clock'
      BY <1>0, <1>1, StampBounds DEF DecideLatestGate
    <2> QED
      BY <1>0, <1>1, <2>2, <2>3 DEF DecideLatestGate, TypeInv, TypeOK
  <1>2. ASSUME NEW g \in GateIds, NEW v \in Verdicts, DecideStructural(a, g, v) PROVE TypeInv'
    <2> DEFINE o == [DecisionOp("stamp", g, v) EXCEPT !.now = 0, !.horizon = 0]
    <2>1. OpFits(o)
      BY <1>0, StructuralOpType
    <2>2. op' = [op EXCEPT ![a] = o]
      BY <1>2 DEF DecideStructural, Begin
    <2> HIDE DEF o
    <2>3. op' \in [Actors -> Ops] /\ (\A b \in Actors : OpFits(op[b]))'
      BY <2>1, <2>2, OpReplace
    <2> QED
      BY <1>0, <1>2, <2>3 DEF DecideStructural, TypeInv, TypeOK
  <1>3. ASSUME NEW g \in GateIds, NEW v \in Verdicts, DecideAddressedGate(a, g, v) PROVE TypeInv'
    <2>1. OpFits(DecisionOp("target", g, v))
      <3>1. g \in Nat
        BY DEF GateIds
      <3> QED
        BY <1>0, <3>1, DecisionOpType
    <2>2. op' \in [Actors -> Ops] /\ (\A b \in Actors : OpFits(op[b]))'
      BY <1>3, <2>1, OpReplace DEF DecideAddressedGate, Begin
    <2>3. clock' \in 1..(MaxClock + 1) /\ horizon' \in 0..clock'
      BY <1>0, <1>3, StampBounds DEF DecideAddressedGate
    <2> QED
      BY <1>0, <1>3, <2>2, <2>3 DEF DecideAddressedGate, TypeInv, TypeOK
  <1>4. ASSUME ChooseLatest(a) PROVE TypeInv'
    <2>1. OpFits(Idle)
      BY AbsentIdleType DEF OpFits
    <2>2. \A g \in Latest(gates, OpenGates) : OpFits(Choose(op[a], g))
      BY <1>0, <1>4, ChooseType DEF ChooseLatest, Latest, OpenGates
    <2>3. op' \in [Actors -> Ops] /\ (\A b \in Actors : OpFits(op[b]))'
      BY <1>4, <2>1, <2>2, OpReplace DEF ChooseLatest, Finish
    <2> QED
      BY <1>0, <1>4, <2>3 DEF ChooseLatest, TypeInv, TypeOK
  <1>5. ASSUME Stamp(a) PROVE TypeInv'
    <2>1. OpFits(Stamped(op[a]))
      BY <1>0, <1>5, StampedType DEF Stamp
    <2>2. op' \in [Actors -> Ops] /\ (\A b \in Actors : OpFits(op[b]))'
      BY <1>5, <2>1, OpReplace DEF Stamp
    <2>3. clock' \in 1..(MaxClock + 1) /\ horizon' \in 0..clock'
      BY <1>0, <1>5, StampBounds DEF Stamp
    <2> QED
      BY <1>0, <1>5, <2>2, <2>3 DEF Stamp, TypeInv, TypeOK
  <1> QED
    BY <1>1, <1>2, <1>3, <1>4, <1>5

\* The steps of record_gate_decision keep the types.
LEMMA TypeDecide ==
    ASSUME TypeInv, NEW a \in Actors,
           \/ DecideTarget(a) \/ DecideAppend(a) \/ GateDelete(a)
           \/ MeetVerdictExpectation(a) \/ ReclaimGateLog(a)
    PROVE  TypeInv'
  <1>2. ASSUME DecideTarget(a) PROVE TypeInv'
    <2>1. OpFits(op[a]) /\ op[a].step = "target" /\ op[a].gate \in GateIds
      BY <1>2 DEF TypeInv, OpFits, DecideTarget
    <2>2. gates[op[a].gate] \in Snapshot
      BY <2>1 DEF TypeInv, TypeOK
    <2>3. OpFits(At(Hold(op[a], op[a].gate, gates[op[a].gate]), "append")) /\ OpFits(Idle)
      BY <2>1, <2>2, GotoFits
    <2>4. \/ op' = [op EXCEPT ![a] = At(Hold(op[a], op[a].gate, gates[op[a].gate]), "append")]
          \/ op' = [op EXCEPT ![a] = Idle]
      BY <1>2 DEF DecideTarget, Finish
    <2>5. op' \in [Actors -> Ops] /\ (\A b \in Actors : OpFits(op[b]))'
      BY <2>3, <2>4, OpReplace
    <2> QED
      BY <1>2, <2>5 DEF DecideTarget, TypeInv, TypeOK
  <1>3. ASSUME DecideAppend(a) PROVE TypeInv'
    <2> DEFINE g == op[a].gate
               v == op[a].verdict
               s == op[a].held[g]
               d == [gate |-> g, kind |-> s.kind, stamp |-> op[a].now, by |-> v.by,
                     evid |-> s.evid \/ v.evid, decision |-> v.decision]
    <2>1. /\ OpFits(op[a]) /\ op[a].step = "append" /\ g \in GateIds /\ v \in Verdicts
          /\ op[a].now \in Nat /\ s \in Snapshot
      BY <1>3 DEF TypeInv, OpFits, Ops, DecideAppend
    <2>2. v.by \in Deciders /\ v.evid \in BOOLEAN /\ v.decision \in DOMAIN DecisionStates
      BY <2>1, GateConstants
    <2>3. s.kind \in Kinds \cup {"none"} /\ s.evid \in BOOLEAN
      BY <2>1 DEF Snapshot
    <2>4. DecideGate(s, v, op[a].now) \in Snapshot
      BY <2>1, SnapshotType
    <2>5. OpFits(At(op[a], "delete")) /\ OpFits(At(op[a], "met"))
      BY <2>1, GotoFits
    <2>6. /\ gates' = [gates EXCEPT ![g] = DecideGate(s, v, op[a].now)]
          /\ \/ op' = [op EXCEPT ![a] = At(op[a], "delete")]
             \/ op' = [op EXCEPT ![a] = At(op[a], "met")]
          /\ decisions' = decisions \cup {d}
          /\ UNCHANGED <<rows, nextId, clock, horizon, acts>>
      BY <1>3 DEF DecideAppend, Append, Goto
    <2>7. op' \in [Actors -> Ops] /\ (\A b \in Actors : OpFits(op[b]))'
      BY <2>5, <2>6, OpReplace
    <2>8. gates' \in [GateIds -> Snapshot]
      BY <2>4, <2>6 DEF TypeInv, TypeOK
    <2>9. (s.evid \/ v.evid) \in BOOLEAN
      BY <2>2, <2>3
    <2>10. d \in [gate : GateIds, kind : Kinds \cup {"none"}, stamp : Nat,
                  by : Deciders, evid : BOOLEAN, decision : DOMAIN DecisionStates]
      BY <2>1, <2>2, <2>3, <2>9
    <2> HIDE DEF d, g, v, s
    <2> QED
      BY <2>1, <2>6, <2>7, <2>8, <2>10 DEF TypeInv, TypeOK
  <1>4. ASSUME GateDelete(a) PROVE TypeInv'
    <2>1. OpFits(op[a]) /\ op[a].step = "delete" /\ op[a].gate \in GateIds
      BY <1>4 DEF TypeInv, OpFits, GateDelete
    <2>2. OpFits(At(op[a], "met")) /\ OpFits(Idle)
      BY <2>1, GotoFits
    <2>3. op' \in [Actors -> Ops] /\ (\A b \in Actors : OpFits(op[b]))'
      BY <1>4, <2>2, OpReplace DEF GateDelete, Goto, Finish
    <2>4. gates' \in [GateIds -> Snapshot]
      BY <1>4, AbsentIdleType DEF GateDelete, Append, TypeInv, TypeOK
    <2> QED
      BY <1>4, <2>3, <2>4 DEF GateDelete, TypeInv, TypeOK
  <1>5. ASSUME MeetVerdictExpectation(a) PROVE TypeInv'
    <2>1. OpFits(op[a]) /\ op[a].step = "met" /\ op[a].gate \in GateIds
      BY <1>5 DEF TypeInv, OpFits, MeetVerdictExpectation
    <2>2. OpFits(At(op[a], "reclaim")) /\ OpFits(Idle)
      BY <2>1, GotoFits
    <2>3. op' \in [Actors -> Ops] /\ (\A b \in Actors : OpFits(op[b]))'
      BY <1>5, <2>2, OpReplace DEF MeetVerdictExpectation, Goto, Finish
    <2>4. rows' \in [GateIds -> {"none", "pending", "met"}]
      BY <1>5, <2>1 DEF MeetVerdictExpectation, TypeInv, TypeOK
    <2> QED
      BY <1>5, <2>3, <2>4 DEF MeetVerdictExpectation, TypeInv, TypeOK
  <1>6. ASSUME ReclaimGateLog(a) PROVE TypeInv'
    <2>1. op' \in [Actors -> Ops] /\ (\A b \in Actors : OpFits(op[b]))'
      <3>1. OpFits(Idle)
        BY AbsentIdleType DEF OpFits
      <3> QED
        BY <1>6, <3>1, OpReplace DEF ReclaimGateLog, Finish
    <2>2. gates' \in [GateIds -> Snapshot]
      BY <1>6, AbsentIdleType DEF ReclaimGateLog, TypeInv, TypeOK
    <2> QED
      BY <1>6, <2>1, <2>2 DEF ReclaimGateLog, TypeInv, TypeOK
  <1> QED
    BY <1>2, <1>3, <1>4, <1>5, <1>6

\* evaluate_gate only looks at gates of the kind it is asked about: what it
\* takes for a retried operation's gate.
LEMMA RecoveringIds ==
    ASSUME NEW gs, NEW k, NEW key, NEW g \in RecoveringGate(gs, k, key)
    PROVE  g \in GateIds /\ gs[g].state = "applied" /\ gs[g].key = key /\ key # NoKey
  BY DEF RecoveringGate, Governing, Latest, Relevant

\* What evaluate_gate takes for an approval.
LEMMA ApprovedIds ==
    ASSUME NEW gs, NEW k, NEW g \in ApprovedGate(gs, k)
    PROVE  g \in GateIds /\ gs[g].kind = k /\ gs[g].state = "approved" /\ ApprovalValid(gs[g])
  BY DEF ApprovedGate, Governing, Latest, Relevant

\* The steps of a closeout and of an integration keep the types.
LEMMA TypeCloseout ==
    ASSUME TypeInv, NEW a \in Actors,
           \/ \E k \in EnforcedKinds, key \in Keys \cup {NoKey} : CloseoutBegin(a, k, key)
           \/ ClaimApproval(a)
           \/ \E k \in SeamKinds : HandoverIntegrate(a, k)
    PROVE  TypeInv'
  <1>1. ASSUME NEW k \in EnforcedKinds, NEW key \in Keys \cup {NoKey}, CloseoutBegin(a, k, key)
        PROVE  TypeInv'
    <2>1. OpFits(CloseoutOp(k, key))
      BY CloseoutOpType DEF TypeInv
    <2>2. op' \in [Actors -> Ops] /\ (\A b \in Actors : OpFits(op[b]))'
      BY <1>1, <2>1, OpReplace DEF CloseoutBegin, Begin
    <2> QED
      BY <1>1, <2>2 DEF CloseoutBegin, TypeInv, TypeOK
  <1>2. ASSUME ClaimApproval(a) PROVE TypeInv'
    <2> DEFINE k == op[a].kind
               key == op[a].key
               now == op[a].now
    <2>1. /\ OpFits(op[a]) /\ op[a].step = "claim" /\ k \in Kinds
          /\ key \in Keys \cup {NoKey} /\ now \in Nat
      BY <1>2, GateConstants DEF TypeInv, OpFits, Ops, ClaimApproval, ConsumedKinds
    <2>2. OpFits(Idle)
      BY <2>1, GotoFits
    <2>3. op' \in [Actors -> Ops] /\ (\A b \in Actors : OpFits(op[b]))'
      BY <1>2, <2>2, OpReplace DEF ClaimApproval, Finish
    <2>6. gates' \in [GateIds -> Snapshot] /\ acts' \subseteq Acts
      <3>1. CASE UNCHANGED <<gates, acts>>
        BY <3>1 DEF TypeInv, TypeOK
      <3>2. CASE acts' = acts \cup {Act(k, 0, "gateless", key, now)} /\ UNCHANGED gates
        <4>1. TypeOK
          BY DEF TypeInv
        <4>2. Act(k, 0, "gateless", key, now) \in Acts
          BY <2>1, <4>1, ActType
        <4> QED
          BY <3>2, <4>1, <4>2 DEF TypeOK
      <3>3. ASSUME NEW g \in GateIds, acts' = acts \cup {Act(k, g, "resumed", key, now)}, UNCHANGED gates
            PROVE  gates' \in [GateIds -> Snapshot] /\ acts' \subseteq Acts
        <4>1. TypeOK
          BY DEF TypeInv
        <4>2. Act(k, g, "resumed", key, now) \in Acts
          BY <2>1, <4>1, ActType
        <4> QED
          BY <3>3, <4>1, <4>2 DEF TypeOK
      <3>4. ASSUME NEW g \in GateIds, acts' = acts \cup {Act(k, g, "spent", key, now)},
                   gates' = [gates EXCEPT ![g] = ApplyGate(gates[g], now, key)]
            PROVE  gates' \in [GateIds -> Snapshot] /\ acts' \subseteq Acts
        <4>1. gates[g] \in Snapshot
          BY DEF TypeInv, TypeOK
        <4>2. ApplyGate(gates[g], now, key) \in Snapshot
          BY <2>1, <4>1, SnapshotType
        <4>3. TypeOK
          BY DEF TypeInv
        <4>4. Act(k, g, "spent", key, now) \in Acts
          BY <2>1, <4>3, ActType
        <4> QED
          BY <3>4, <4>2, <4>3, <4>4 DEF TypeOK
      <3>5. RecoveringGate(gates, k, key) \subseteq GateIds /\ ApprovedGate(gates, k) \subseteq GateIds
        BY RecoveringIds, ApprovedIds
      <3> HIDE DEF k, key, now
      <3>6. \/ UNCHANGED <<gates, acts>>
            \/ acts' = acts \cup {Act(k, 0, "gateless", key, now)} /\ UNCHANGED gates
            \/ \E g \in RecoveringGate(gates, k, key) :
                 acts' = acts \cup {Act(k, g, "resumed", key, now)} /\ UNCHANGED gates
            \/ \E g \in ApprovedGate(gates, k) :
                 /\ acts' = acts \cup {Act(k, g, "spent", key, now)}
                 /\ gates' = [gates EXCEPT ![g] = ApplyGate(gates[g], now, key)]
        BY <1>2 DEF ClaimApproval, Append, k, key, now
      <3> QED
        BY <3>1, <3>2, <3>3, <3>4, <3>5, <3>6
    <2> HIDE DEF k, key, now
    <2> QED
      BY <1>2, <2>3, <2>6 DEF ClaimApproval, TypeInv, TypeOK
  <1>3. ASSUME NEW k \in SeamKinds, HandoverIntegrate(a, k) PROVE TypeInv'
    <2>1. k \in Kinds /\ TypeOK
      BY GateConstants DEF TypeInv
    <2>2. clock' \in 1..(MaxClock + 1) /\ horizon' \in 0..clock'
      BY <1>3, <2>1, GateConstants DEF HandoverIntegrate, TakeStamp, TypeOK
    <2>3. PICK g \in GateIds \cup {0}, how \in {"gateless", "folded"} :
            acts' = acts \cup {Act(k, g, how, NoKey, clock)}
      <3>1. ApprovedGate(gates, k) \subseteq GateIds
        BY RecoveringIds, ApprovedIds
      <3> QED
        BY <1>3, <3>1 DEF HandoverIntegrate
    <2>4. Act(k, g, how, NoKey, clock) \in Acts
      <3>1. clock \in Nat
        BY <2>1 DEF TypeOK
      <3> QED
        BY <2>1, <3>1, ActType
    <2>5. acts' \subseteq Acts
      BY <2>1, <2>3, <2>4 DEF TypeOK
    <2> QED
      BY <1>3, <2>1, <2>2, <2>5 DEF HandoverIntegrate, TypeInv, TypeOK
  <1> QED
    BY <1>1, <1>2, <1>3

\* Every step keeps the types.
LEMMA TypeNext == TypeInv /\ [Next]_vars => TypeInv'
  <1> SUFFICES ASSUME TypeInv, [Next]_vars PROVE TypeInv'
    OBVIOUS
  <1>1. ASSUME NEW a \in Actors, Start(a) PROVE TypeInv'
    BY <1>1, TypeCreate, TypeBeginDecision, TypeCloseout DEF Start
  <1>2. ASSUME NEW a \in Actors, Continue(a) PROVE TypeInv'
    BY <1>2, TypeCreate, TypeBeginDecision, TypeDecide, TypeCloseout DEF Continue
  <1>3. ASSUME NEW a \in Actors, Crash(a) PROVE TypeInv'
    <2>1. OpFits(Idle)
      BY AbsentIdleType DEF OpFits
    <2>2. op' \in [Actors -> Ops] /\ (\A b \in Actors : OpFits(op[b]))'
      BY <1>3, <2>1, OpReplace DEF Crash, Finish
    <2> QED
      BY <1>3, <2>2 DEF Crash, TypeInv, TypeOK
  <1>4. CASE TimePasses
    BY <1>4 DEF TimePasses, TypeInv, TypeOK, OpFits
  <1>5. CASE UNCHANGED vars
    BY <1>5 DEF vars, TypeInv, TypeOK, OpFits
  <1> QED
    BY <1>1, <1>2, <1>3, <1>4, <1>5 DEF Next

\* Type correctness: whatever the interleaving of the sessions, dashboard
\* requests and workers that write the gate log, every snapshot in the fold and
\* every operation in flight stays well formed.
THEOREM TypeCorrect == Spec => []TypeOK
  <1>1. TypeInv => TypeOK
    BY DEF TypeInv
  <1> QED
    BY TypeInit, TypeNext, <1>1, PTL DEF Spec

-----------------------------------------------------------------------------
(* Authority.  The three authority properties are not inductive: they speak *)
(* of mutations already permitted, while a stale append could bring back    *)
(* the very snapshot an earlier claim spent.  What excludes it is that a    *)
(* decision's stamp is its own: it is in no snapshot and in no spend until  *)
(* the decision is appended (StampInv), so that an approved snapshot in the *)
(* fold is one nobody spent, and stands for a decision on record (LogInv).  *)

Deciding == {a \in Actors : op[a].step \in {"choose", "target", "append"}}

StampInv ==
    /\ \A x \in Spends : x.approval < clock
    /\ \A g \in GateIds : /\ gates[g].decidedAt < clock
                          /\ gates[g].state = "open" => gates[g].decidedAt = 0
    /\ \A a \in Deciding :
         /\ 0 < op[a].now /\ op[a].now < clock
         /\ \A g \in GateIds : gates[g].decidedAt # op[a].now
         /\ \A x \in Spends : x.approval # op[a].now
         /\ \A b \in Deciding : op[a].now = op[b].now => a = b
    /\ \A a \in Actors : op[a].step = "expire" =>
         \A g \in GateIds : op[a].held[g].decidedAt = 0

\* A snapshot that stands for gate g agrees with what is on record.
OnRecord(g, s) ==
    /\ s.state = "approved" =>
         /\ \A x \in Spends : x.gate = g => x.approval # s.decidedAt
         /\ \E d \in decisions : /\ d.gate = g /\ d.stamp = s.decidedAt
                                 /\ d.decision = "approve" /\ d.by = s.by /\ d.evid = s.evid
    /\ s.state = "applied" =>
         \E x \in Spends : x.gate = g /\ x.approval = s.decidedAt /\ x.key = s.key

LogInv == \A g \in GateIds : OnRecord(g, gates[g])

Authority == SpentOnce /\ ActsAreAuthorised /\ RecoveryOwnsSpend

IInv == TypeInv /\ StampInv /\ LogInv /\ Authority

\* A step that records no decision and permits no mutation, and writes to the
\* log only snapshots that nobody decided.
QuietGates ==
    /\ acts' = acts /\ decisions' = decisions /\ clock <= clock'
    /\ \A g \in GateIds :
         \/ gates'[g] = gates[g]
         \/ gates'[g].decidedAt = 0 /\ gates'[g].state \in {"absent", "open", "expired"}

\* No operation starts to decide, and an operation that expires gates holds
\* only undecided ones.
QuietOps ==
    /\ \A b \in Deciding' : b \in Deciding /\ op'[b].now = op[b].now
    /\ \A b \in Actors : op'[b].step = "expire" => \A g \in GateIds : op'[b].held[g].decidedAt = 0

\* A quiet step keeps the strengthened invariant.
LEMMA QuietKeeps ==
    ASSUME IInv, TypeInv', QuietGates, QuietOps
    PROVE  IInv'
  <1>1. clock \in Int /\ clock' \in Int /\ \A g \in GateIds : gates[g].decidedAt \in Int
    BY DEF IInv, TypeInv, TypeOK, Snapshot
  <1>1a. 0 < clock
    BY DEF IInv, TypeInv, TypeOK
  <1>1b. \A x \in Spends : x.approval \in Int
    BY DEF IInv, TypeInv, TypeOK, Spends, Acts
  <1>1c. \A a \in Actors : op[a].now \in Int
    BY DEF IInv, TypeInv, TypeOK, Ops
  <1>2. Spends' = Spends
    BY DEF Spends, QuietGates
  <1>3. StampInv'
    <2>1. \A x \in Spends' : x.approval < clock'
      BY <1>1, <1>1b, <1>2 DEF QuietGates, IInv, StampInv
    <2>2. \A g \in GateIds : /\ gates'[g].decidedAt < clock'
                             /\ gates'[g].state = "open" => gates'[g].decidedAt = 0
      BY <1>1, <1>1a DEF QuietGates, IInv, StampInv
    <2>3. ASSUME NEW a \in Deciding'
          PROVE  /\ 0 < op'[a].now /\ op'[a].now < clock'
                 /\ \A g \in GateIds : gates'[g].decidedAt # op'[a].now
                 /\ \A x \in Spends' : x.approval # op'[a].now
                 /\ \A b \in Deciding' : op'[a].now = op'[b].now => a = b
      <3>1. a \in Deciding /\ op'[a].now = op[a].now /\ op[a].now \in Int
        BY <1>1c DEF QuietOps, Deciding
      <3>2. 0 < op'[a].now /\ op'[a].now < clock'
        BY <1>1, <3>1 DEF QuietGates, IInv, StampInv
      <3>3. \A g \in GateIds : gates'[g].decidedAt # op'[a].now
        BY <3>1, <3>2 DEF QuietGates, IInv, StampInv
      <3>4. \A x \in Spends' : x.approval # op'[a].now
        BY <1>2, <3>1 DEF IInv, StampInv
      <3>5. \A b \in Deciding' : op'[a].now = op'[b].now => a = b
        BY <3>1 DEF QuietOps, IInv, StampInv
      <3> QED
        BY <3>2, <3>3, <3>4, <3>5
    <2> QED
      BY <2>1, <2>2, <2>3 DEF QuietOps, StampInv
  <1>4. LogInv'
    BY <1>2 DEF IInv, LogInv, OnRecord, QuietGates
  <1>5. Authority'
    BY <1>2 DEF IInv, Authority, SpentOnce, ActsAreAuthorised, RecoveryOwnsSpend, QuietGates
  <1> QED
    BY <1>3, <1>4, <1>5 DEF IInv

\* An operation that decides with the stamp it already has, or does not decide,
\* is quiet.
LEMMA OpQuiet ==
    ASSUME IInv, NEW a \in Actors, NEW o, op' = [op EXCEPT ![a] = o],
           o.step \in {"choose", "target", "append"} =>
             op[a].step \in {"choose", "target"} /\ o.now = op[a].now,
           o.step = "expire" => \A g \in GateIds : o.held[g].decidedAt = 0
    PROVE  QuietOps
  <1>1. op \in [Actors -> Ops]
    BY DEF IInv, TypeInv, TypeOK
  <1>2. op'[a] = o /\ \A b \in Actors \ {a} : op'[b] = op[b]
    BY <1>1
  <1> QED
    BY <1>2 DEF QuietOps, Deciding, IInv, StampInv

\* A snapshot that a raised gate starts with, one that was never decided and is
\* then expired, and a removed one, are undecided.
LEMMA Undecided ==
    /\ Absent.decidedAt = 0 /\ Absent.state = "absent"
    /\ \A k \in Kinds, now \in Nat, e \in BOOLEAN :
         CreateGate(k, now, e).decidedAt = 0 /\ CreateGate(k, now, e).state = "open"
    /\ \A s \in Snapshot, now \in Nat :
         ExpireGate(s, now).decidedAt = s.decidedAt /\ ExpireGate(s, now).state = "expired"
  <1>1. Absent.decidedAt = 0 /\ Absent.state = "absent"
    BY DEF Absent
  <1>2. \A k \in Kinds, now \in Nat, e \in BOOLEAN :
          CreateGate(k, now, e).decidedAt = 0 /\ CreateGate(k, now, e).state = "open"
    BY DEF CreateGate, Absent
  <1>3. \A s \in Snapshot, now \in Nat :
          ExpireGate(s, now).decidedAt = s.decidedAt /\ ExpireGate(s, now).state = "expired"
    BY DEF ExpireGate, Snapshot
  <1> QED
    BY <1>1, <1>2, <1>3

\* Raising a gate, and a time to live that passes, keep the invariant.
LEMMA CreateKeeps ==
    ASSUME IInv, TypeInv', NEW a \in Actors,
           \/ \E k \in Kinds, w \in BOOLEAN, e \in OpenEvidence : GateCreate(a, k, w, e)
           \/ CreateRead(a) \/ CreateExpire(a) \/ CreateOpen(a)
           \/ WriteVerdictByRow(a) \/ GateResponseWait(a)
    PROVE  IInv'
  <1>0. /\ TypeInv /\ TypeOK /\ clock \in Int /\ OpFits(op[a])
        /\ gates \in [GateIds -> Snapshot] /\ op[a] \in Ops
    BY DEF IInv, TypeInv, TypeOK, OpFits
  <1>1. ASSUME NEW k \in Kinds, NEW w \in BOOLEAN, NEW e \in OpenEvidence, GateCreate(a, k, w, e)
        PROVE  IInv'
    <2>1. e \in BOOLEAN
      BY GateConstants
    <2>2. CreateOp(k, w, e).step = "read"
      BY <1>0, <2>1, CreateOpType
    <2>4. QuietOps
      BY <1>1, <2>2, OpQuiet DEF GateCreate, Begin
    <2>5. QuietGates
      BY <1>0, <1>1 DEF GateCreate, TakeStamp, QuietGates
    <2> QED
      BY <2>4, <2>5, QuietKeeps
  <1>1a. ASSUME CreateRead(a) PROVE IInv'
    <2>1. /\ OpenRead(op[a]).step = "expire"
          /\ \A g \in GateIds : OpenRead(op[a]).held[g] =
               IF gates[g].state = "open" THEN gates[g] ELSE Absent
      BY <1>0, <1>1a, OpenReadType DEF CreateRead
    <2>2. \A g \in GateIds : gates[g].state = "open" => gates[g].decidedAt = 0
      BY DEF IInv, StampInv
    <2>3. \A g \in GateIds : OpenRead(op[a]).held[g].decidedAt = 0
      BY <2>1, <2>2, Undecided
    <2>4. QuietOps
      BY <1>1a, <2>1, <2>3, OpQuiet DEF CreateRead
    <2>5. QuietGates
      BY <1>0, <1>1a DEF CreateRead, QuietGates
    <2> QED
      BY <2>4, <2>5, QuietKeeps
  <1>2. ASSUME CreateExpire(a) PROVE IInv'
    <2>1. PICK g \in GateIds : /\ gates' = [gates EXCEPT ![g] = ExpireGate(op[a].held[g], op[a].now)]
                               /\ op' = [op EXCEPT ![a] = Hold(op[a], g, Absent)]
      BY <1>2 DEF CreateExpire, Held, Append
    <2>2. /\ op[a].held \in [GateIds -> Snapshot] /\ op[a].now \in Nat /\ op[a].step = "expire"
          /\ \A h \in GateIds : op[a].held[h].decidedAt = 0
      BY <1>0, <1>2 DEF IInv, StampInv, Ops, CreateExpire
    <2>3. /\ Hold(op[a], g, Absent).step = "expire"
          /\ Hold(op[a], g, Absent).held = [op[a].held EXCEPT ![g] = Absent]
      BY <1>0, <2>2, OpUpdate, AbsentIdleType
    <2>4. \A h \in GateIds : Hold(op[a], g, Absent).held[h].decidedAt = 0
      BY <2>2, <2>3, Undecided
    <2>5. QuietOps
      BY <2>1, <2>3, <2>4, OpQuiet
    <2>6. /\ ExpireGate(op[a].held[g], op[a].now).decidedAt = 0
          /\ ExpireGate(op[a].held[g], op[a].now).state = "expired"
      BY <2>2, Undecided
    <2>7. QuietGates
      BY <1>0, <1>2, <2>1, <2>6 DEF CreateExpire, QuietGates
    <2> QED
      BY <2>5, <2>7, QuietKeeps
  <1>3. ASSUME CreateOpen(a) PROVE IInv'
    <2>1. op[a].now \in Nat /\ op[a].evid \in BOOLEAN /\ op[a].kind \in Kinds
      BY <1>0, <1>3 DEF OpFits, Ops, CreateOpen
    <2>2. At(op[a], "row").step = "row"
      BY <1>0, OpUpdate DEF Steps
    <2>3. QuietOps
      BY <1>3, <2>2, OpQuiet DEF CreateOpen, Goto
    <2>4. /\ CreateGate(op[a].kind, op[a].now, op[a].evid).decidedAt = 0
          /\ CreateGate(op[a].kind, op[a].now, op[a].evid).state = "open"
      BY <2>1, Undecided
    <2>5. QuietGates
      BY <1>0, <1>3, <2>4 DEF CreateOpen, Append, QuietGates
    <2> QED
      BY <2>3, <2>5, QuietKeeps
  <1>4. ASSUME WriteVerdictByRow(a) \/ GateResponseWait(a) PROVE IInv'
    <2>1. At(op[a], "wait").step = "wait" /\ At(op[a], "delete").step = "delete" /\ Idle.step = "idle"
      BY <1>0, OpUpdate, AbsentIdleType DEF Steps
    <2>2. \/ op' = [op EXCEPT ![a] = At(op[a], "wait")]
          \/ op' = [op EXCEPT ![a] = At(op[a], "delete")]
          \/ op' = [op EXCEPT ![a] = Idle]
      BY <1>4 DEF WriteVerdictByRow, GateResponseWait, Goto, Finish
    <2>3. QuietOps
      BY <2>1, <2>2, OpQuiet
    <2>4. QuietGates
      BY <1>0, <1>4 DEF WriteVerdictByRow, GateResponseWait, QuietGates
    <2> QED
      BY <2>3, <2>4, QuietKeeps
  <1> QED
    BY <1>1, <1>1a, <1>2, <1>3, <1>4

\* Every step of a decision but its first and its append keeps the invariant.
LEMMA DecisionStepKeeps ==
    ASSUME IInv, TypeInv', NEW a \in Actors,
           \/ ChooseLatest(a) \/ DecideTarget(a) \/ GateDelete(a)
           \/ MeetVerdictExpectation(a) \/ ReclaimGateLog(a) \/ Crash(a)
    PROVE  IInv'
  <1>0. /\ TypeInv /\ TypeOK /\ clock \in Int /\ OpFits(op[a])
        /\ gates \in [GateIds -> Snapshot] /\ op[a] \in Ops
    BY DEF IInv, TypeInv, TypeOK, OpFits
  <1>1. ASSUME DecideTarget(a) PROVE IInv'
    <2> DEFINE o == Hold(op[a], op[a].gate, gates[op[a].gate])
    <2>1. op[a].step = "target" /\ op[a].gate \in GateIds /\ gates[op[a].gate] \in Snapshot
      BY <1>0, <1>1 DEF OpFits, DecideTarget
    <2>2. o \in Ops /\ o.now = op[a].now
      BY <1>0, <2>1, OpUpdate
    <2>3. \/ op' = [op EXCEPT ![a] = At(o, "append")]
          \/ op' = [op EXCEPT ![a] = Idle]
      BY <1>1 DEF DecideTarget, Finish
    <2> HIDE DEF o
    <2>4. At(o, "append").step = "append" /\ At(o, "append").now = op[a].now
      BY <2>2, OpUpdate DEF Steps
    <2>5. QuietOps
      BY <2>1, <2>3, <2>4, OpQuiet, AbsentIdleType
    <2>6. QuietGates
      BY <1>0, <1>1 DEF DecideTarget, QuietGates
    <2> QED
      BY <2>5, <2>6, QuietKeeps
  <1>1a. ASSUME ChooseLatest(a) PROVE IInv'
    <2>1. op[a].step = "choose"
      BY <1>1a DEF ChooseLatest
    <2>2. \A g \in Latest(gates, OpenGates) :
            Choose(op[a], g).step = "target" /\ Choose(op[a], g).now = op[a].now
      BY <1>0, <2>1, ChooseType DEF Latest, OpenGates
    <2>3. QuietOps
      BY <1>1a, <2>1, <2>2, OpQuiet, AbsentIdleType DEF ChooseLatest, Finish
    <2>4. QuietGates
      BY <1>0, <1>1a DEF ChooseLatest, QuietGates
    <2> QED
      BY <2>3, <2>4, QuietKeeps
  <1>2. ASSUME GateDelete(a) \/ MeetVerdictExpectation(a) \/ ReclaimGateLog(a) \/ Crash(a)
        PROVE  IInv'
    <2>1. At(op[a], "met").step = "met" /\ At(op[a], "reclaim").step = "reclaim" /\ Idle.step = "idle"
      BY <1>0, OpUpdate, AbsentIdleType DEF Steps
    <2>2. \/ op' = [op EXCEPT ![a] = At(op[a], "met")]
          \/ op' = [op EXCEPT ![a] = At(op[a], "reclaim")]
          \/ op' = [op EXCEPT ![a] = Idle]
      BY <1>2 DEF GateDelete, MeetVerdictExpectation, ReclaimGateLog, Crash, Goto, Finish
    <2>3. QuietOps
      BY <2>1, <2>2, OpQuiet
    <2>4. \A g \in GateIds : gates'[g] \in {gates[g], Absent}
      BY <1>0, <1>2 DEF GateDelete, MeetVerdictExpectation, ReclaimGateLog, Crash, Append
    <2>5. QuietGates
      BY <1>0, <1>2, <2>4, Undecided
         DEF GateDelete, MeetVerdictExpectation, ReclaimGateLog, Crash, QuietGates
    <2> QED
      BY <2>3, <2>5, QuietKeeps
  <1> QED
    BY <1>1, <1>1a, <1>2

\* Starting a closeout or a structural decision, and a time to live that passes, keep the invariant.
LEMMA OtherKeeps ==
    ASSUME IInv, TypeInv',
           \/ \E a \in Actors, k \in EnforcedKinds, key \in Keys \cup {NoKey} :
                CloseoutBegin(a, k, key)
           \/ \E a \in Actors, g \in GateIds, v \in Verdicts : DecideStructural(a, g, v)
           \/ TimePasses \/ UNCHANGED vars
    PROVE  IInv'
  <1>0. TypeOK /\ clock \in Int
    BY DEF IInv, TypeInv, TypeOK
  <1>1. ASSUME NEW a \in Actors, NEW k \in EnforcedKinds, NEW key \in Keys \cup {NoKey},
               CloseoutBegin(a, k, key)
        PROVE  IInv'
    <2>1. CloseoutOp(k, key).step = "stamp"
      BY <1>0, CloseoutOpType
    <2>2. QuietOps
      BY <1>1, <2>1, OpQuiet DEF CloseoutBegin, Begin
    <2>3. QuietGates
      BY <1>0, <1>1 DEF CloseoutBegin, QuietGates
    <2> QED
      BY <2>2, <2>3, QuietKeeps
  <1>1a. ASSUME NEW a \in Actors, NEW g \in GateIds, NEW v \in Verdicts,
                DecideStructural(a, g, v)
         PROVE  IInv'
    <2> DEFINE o == [DecisionOp("stamp", g, v) EXCEPT !.now = 0, !.horizon = 0]
    <2>1. o.step = "stamp"
      BY <1>0, StructuralOpType
    <2>2. op' = [op EXCEPT ![a] = o]
      BY <1>1a DEF DecideStructural, Begin
    <2> HIDE DEF o
    <2>3. QuietOps
      BY <2>1, <2>2, OpQuiet
    <2>4. acts' = acts /\ decisions' = decisions /\ clock' = clock /\ gates' = gates
      BY <1>1a DEF DecideStructural
    <2>5. QuietGates
      BY <1>0, <2>4 DEF QuietGates
    <2> QED
      BY <2>3, <2>5, QuietKeeps
  <1>2. ASSUME TimePasses \/ UNCHANGED vars PROVE IInv'
    <2>1. QuietGates /\ QuietOps
      BY <1>0, <1>2 DEF TimePasses, vars, QuietGates, QuietOps, Deciding, IInv, StampInv
    <2> QED
      BY <2>1, QuietKeeps
  <1> QED
    BY <1>1, <1>1a, <1>2

\* The integers that the stamps are compared with.
LEMMA StampTypes ==
    ASSUME TypeInv
    PROVE  /\ clock \in Int /\ 0 < clock
           /\ \A g \in GateIds : gates[g].decidedAt \in Int
           /\ \A x \in Spends : x.approval \in Int
           /\ \A a \in Actors : op[a].now \in Int
  <1>1. clock \in Int /\ 0 < clock
    BY DEF TypeInv, TypeOK
  <1>2. \A g \in GateIds : gates[g].decidedAt \in Int
    BY DEF TypeInv, TypeOK, Snapshot
  <1>3. \A x \in Spends : x.approval \in Int
    BY DEF TypeInv, TypeOK, Spends, Acts
  <1>4. \A a \in Actors : op[a].now \in Int
    BY DEF TypeInv, TypeOK, Ops
  <1> QED
    BY <1>1, <1>2, <1>3, <1>4

\* A decision takes the current time stamp, which nothing carries yet.
LEMMA FreshStampKeeps ==
    ASSUME IInv, TypeInv', NEW a \in Actors, NEW o, o.now = clock,
           o.step \in {"choose", "target"}, op' = [op EXCEPT ![a] = o], clock' = clock + 1,
           gates' = gates, acts' = acts, decisions' = decisions
    PROVE  IInv'
  <1>1. TypeInv /\ TypeOK /\ op \in [Actors -> Ops]
    BY DEF IInv, TypeInv, TypeOK
  <1>2. o.step # "expire" /\ o.now = clock
    OBVIOUS
  <1>3. /\ op' = [op EXCEPT ![a] = o] /\ clock' = clock + 1
        /\ gates' = gates /\ acts' = acts /\ decisions' = decisions
    OBVIOUS
  <1>4. op'[a] = o /\ \A b \in Actors \ {a} : op'[b] = op[b]
    BY <1>1, <1>3
  <1>5. Spends' = Spends
    BY <1>3 DEF Spends
  <1>6. StampInv'
    <2>1. \A x \in Spends' : x.approval < clock'
      BY <1>1, <1>3, <1>5, StampTypes DEF IInv, StampInv
    <2>2. \A h \in GateIds : /\ gates'[h].decidedAt < clock'
                             /\ gates'[h].state = "open" => gates'[h].decidedAt = 0
      BY <1>1, <1>3, StampTypes DEF IInv, StampInv
    <2>3. \A b \in Deciding' : b = a \/ b \in Deciding
      BY <1>4 DEF Deciding
    <2>4. \A b \in Deciding' : 0 < op'[b].now /\ op'[b].now < clock'
      <3>1. \A b \in Deciding : 0 < op[b].now /\ op[b].now < clock /\ op[b].now \in Int
        BY <1>1, StampTypes DEF IInv, StampInv, Deciding
      <3>2. \A b \in Deciding' : op'[b].now = clock \/ (b \in Deciding /\ op'[b].now = op[b].now)
        BY <1>2, <1>4, <2>3 DEF Deciding
      <3> QED
        BY <1>1, <1>3, <3>1, <3>2, StampTypes
    <2>5. \A b \in Deciding' : \A h \in GateIds : gates'[h].decidedAt # op'[b].now
      <3>1. \A h \in GateIds : gates[h].decidedAt # clock
        BY <1>1, StampTypes DEF IInv, StampInv
      <3> QED
        BY <1>2, <1>3, <1>4, <2>3, <3>1 DEF IInv, StampInv, Deciding
    <2>6. \A b \in Deciding' : \A x \in Spends' : x.approval # op'[b].now
      <3>1. \A x \in Spends : x.approval # clock
        BY <1>1, StampTypes DEF IInv, StampInv
      <3> QED
        BY <1>2, <1>4, <1>5, <2>3, <3>1 DEF IInv, StampInv, Deciding
    <2>7. \A b, c \in Deciding' : op'[b].now = op'[c].now => b = c
      <3>1. \A b \in Deciding : op[b].now # clock
        BY <1>1, StampTypes DEF IInv, StampInv, Deciding
      <3>2. \A b \in Deciding' : b # a => b \in Deciding /\ op'[b].now = op[b].now
        BY <1>4, <2>3 DEF Deciding
      <3>3. op'[a].now = clock
        BY <1>2, <1>4
      <3>4. \A b, c \in Deciding : op[b].now = op[c].now => b = c
        BY DEF IInv, StampInv
      <3> QED
        BY <3>1, <3>2, <3>3, <3>4
    <2>8. \A b \in Actors : op'[b].step = "expire" =>
            \A h \in GateIds : op'[b].held[h].decidedAt = 0
      BY <1>2, <1>4 DEF IInv, StampInv
    <2> QED
      BY <2>1, <2>2, <2>4, <2>5, <2>6, <2>7, <2>8 DEF StampInv
  <1>7. LogInv'
    BY <1>3, <1>5 DEF IInv, LogInv, OnRecord
  <1>8. Authority'
    BY <1>3, <1>5 DEF IInv, Authority, SpentOnce, ActsAreAuthorised, RecoveryOwnsSpend
  <1> QED
    BY <1>6, <1>7, <1>8 DEF IInv

\* Every way a decision takes its stamp, and a claim that takes its own.
LEMMA BeginDecisionKeeps ==
    ASSUME IInv, TypeInv', NEW a \in Actors,
           \/ \E v \in Verdicts : DecideLatestGate(a, v)
           \/ \E g \in GateIds, v \in Verdicts : DecideAddressedGate(a, g, v)
           \/ Stamp(a)
    PROVE  IInv'
  <1>0. TypeOK /\ OpFits(op[a]) /\ clock \in Int
    BY DEF IInv, TypeInv, TypeOK
  <1>1. ASSUME NEW v \in Verdicts, DecideLatestGate(a, v) PROVE IInv'
    <2>1. DecisionOp("choose", 0, v).step = "choose" /\ DecisionOp("choose", 0, v).now = clock
      BY <1>0, DecisionOpType
    <2> QED
      BY <1>1, <2>1, FreshStampKeeps DEF DecideLatestGate, Begin, TakeStamp
  <1>2. ASSUME NEW g \in GateIds, NEW v \in Verdicts, DecideAddressedGate(a, g, v) PROVE IInv'
    <2>1. g \in Nat
      BY DEF GateIds
    <2>2. DecisionOp("target", g, v).step = "target" /\ DecisionOp("target", g, v).now = clock
      BY <1>0, <2>1, DecisionOpType
    <2> QED
      BY <1>2, <2>2, FreshStampKeeps DEF DecideAddressedGate, Begin, TakeStamp
  <1>3. ASSUME Stamp(a) PROVE IInv'
    <2>1. Stamped(op[a]).step \in {"claim", "target"} /\ Stamped(op[a]).now = clock
      BY <1>0, <1>3, StampedType DEF Stamp
    <2>2. CASE Stamped(op[a]).step = "target"
      BY <1>3, <2>1, <2>2, FreshStampKeeps DEF Stamp, TakeStamp
    <2>3. CASE Stamped(op[a]).step = "claim"
      <3>1. QuietOps
        BY <1>3, <2>3, OpQuiet DEF Stamp
      <3>2. QuietGates
        BY <1>0, <1>3 DEF Stamp, TakeStamp, QuietGates
      <3> QED
        BY <3>1, <3>2, QuietKeeps
    <2> QED
      BY <2>1, <2>2, <2>3
  <1> QED
    BY <1>1, <1>2, <1>3

\* An appended decision is on record, and its stamp was never spent.
LEMMA DecideAppendKeeps ==
    ASSUME IInv, TypeInv', NEW a \in Actors, DecideAppend(a)
    PROVE  IInv'
  <1> DEFINE g == op[a].gate
             v == op[a].verdict
             s == op[a].held[g]
             n == DecideGate(s, v, op[a].now)
             d == [gate |-> g, kind |-> s.kind, stamp |-> op[a].now, by |-> v.by,
                   evid |-> s.evid \/ v.evid, decision |-> v.decision]
  <1>1. /\ TypeInv /\ op \in [Actors -> Ops] /\ gates \in [GateIds -> Snapshot]
        /\ op[a].step = "append" /\ g \in GateIds /\ v \in Verdicts /\ s \in Snapshot
        /\ op[a].now \in Nat /\ op[a] \in Ops
    BY DEF IInv, TypeInv, TypeOK, OpFits, Ops, DecideAppend
  <1>2. v.decision \in DOMAIN DecisionStates
    BY <1>1, GateConstants
  <1>3. /\ n.state = DecisionStates[v.decision] /\ n.decidedAt = op[a].now
        /\ n.by = v.by /\ n.evid = (s.evid \/ v.evid)
    BY <1>1 DEF DecideGate, Snapshot
  <1>4. n.state \notin {"applied", "open"} /\ (n.state = "approved" => v.decision = "approve")
    BY <1>2, <1>3 DEF DecisionStates
  <1>5. /\ gates' = [gates EXCEPT ![g] = n]
        /\ \E t \in {"delete", "met"} : op' = [op EXCEPT ![a] = At(op[a], t)]
        /\ decisions' = decisions \cup {d}
        /\ clock' = clock /\ acts' = acts
    BY DEF DecideAppend, Append, Goto
  <1>6. d.gate = g /\ d.stamp = op[a].now /\ d.by = v.by /\ d.evid = (s.evid \/ v.evid)
        /\ d.decision = v.decision
    OBVIOUS
  <1> HIDE DEF g, v, s, n, d
  <1>7. /\ op'[a].step \notin {"choose", "target", "append", "expire"}
        /\ \A b \in Actors \ {a} : op'[b] = op[b]
    BY <1>1, <1>5, OpUpdate DEF Steps
  <1>8. Spends' = Spends
    BY <1>5 DEF Spends
  <1>9. a \in Deciding /\ \A b \in Deciding' : b \in Deciding /\ b # a /\ op'[b] = op[b]
    BY <1>1, <1>7 DEF Deciding
  <1>10. \A h \in GateIds : gates'[h] = IF h = g THEN n ELSE gates[h]
    BY <1>1, <1>5
  <1>11. StampInv'
    <2>1. \A x \in Spends' : x.approval < clock'
      BY <1>5, <1>8 DEF IInv, StampInv
    <2>2. \A h \in GateIds : /\ gates'[h].decidedAt < clock'
                             /\ gates'[h].state = "open" => gates'[h].decidedAt = 0
      BY <1>3, <1>4, <1>5, <1>9, <1>10 DEF IInv, StampInv
    <2>3. ASSUME NEW b \in Deciding'
          PROVE  /\ 0 < op'[b].now /\ op'[b].now < clock'
                 /\ \A h \in GateIds : gates'[h].decidedAt # op'[b].now
                 /\ \A x \in Spends' : x.approval # op'[b].now
                 /\ \A c \in Deciding' : op'[b].now = op'[c].now => b = c
      <3>1. b \in Deciding /\ b # a /\ op'[b] = op[b]
        BY <1>9
      <3>2. 0 < op'[b].now /\ op'[b].now < clock'
        BY <1>5, <3>1 DEF IInv, StampInv
      <3>3. op[a].now # op[b].now
        BY <1>9, <3>1 DEF IInv, StampInv
      <3>4. \A h \in GateIds : gates'[h].decidedAt # op'[b].now
        BY <1>3, <1>10, <3>1, <3>3 DEF IInv, StampInv
      <3>5. \A x \in Spends' : x.approval # op'[b].now
        BY <1>8, <3>1 DEF IInv, StampInv
      <3>6. \A c \in Deciding' : op'[b].now = op'[c].now => b = c
        BY <1>9, <3>1 DEF IInv, StampInv
      <3> QED
        BY <3>2, <3>4, <3>5, <3>6
    <2>4. \A b \in Actors : op'[b].step = "expire" =>
            \A h \in GateIds : op'[b].held[h].decidedAt = 0
      BY <1>7 DEF IInv, StampInv
    <2> QED
      BY <2>1, <2>2, <2>3, <2>4 DEF StampInv
  <1>12. LogInv'
    <2>1. ASSUME NEW h \in GateIds, h # g PROVE OnRecord(h, gates[h])'
      BY <1>5, <1>8, <1>10, <2>1 DEF IInv, LogInv, OnRecord
    <2>2. n.state = "approved" => \A x \in Spends' : x.gate = g => x.approval # n.decidedAt
      BY <1>3, <1>8, <1>9 DEF IInv, StampInv
    <2>3. n.state = "approved" =>
            \E e \in decisions' : /\ e.gate = g /\ e.stamp = n.decidedAt
                                  /\ e.decision = "approve" /\ e.by = n.by /\ e.evid = n.evid
      BY <1>3, <1>4, <1>5, <1>6
    <2>4. ASSUME NEW h \in GateIds, h = g PROVE OnRecord(h, gates[h])'
      BY <1>4, <1>10, <2>2, <2>3, <2>4 DEF OnRecord
    <2> QED
      BY <2>1, <2>4 DEF LogInv
  <1>13. Authority'
    <2>1. SpentOnce' /\ RecoveryOwnsSpend'
      BY <1>5, <1>8 DEF IInv, Authority, SpentOnce, RecoveryOwnsSpend
    <2>2. ActsAreAuthorised'
      BY <1>5 DEF IInv, Authority, ActsAreAuthorised
    <2> QED
      BY <2>1, <2>2 DEF Authority
  <1> QED
    BY <1>11, <1>12, <1>13 DEF IInv

\* A mutation that spends nothing is permitted: gateless, resumed by the
\* operation that spent the approval, or folded from an approval on record.
LEMMA UnspentActKeeps ==
    ASSUME IInv, TypeInv', QuietOps, NEW x, x.how \in {"gateless", "resumed", "folded"},
           acts' = acts \cup {x}, gates' = gates, decisions' = decisions, clock <= clock',
           x.how = "resumed" => \E z \in Spends : /\ z.gate = x.gate /\ z.approval = x.approval
                                                  /\ z.key = x.key /\ x.key # NoKey,
           x.how = "folded" => \E d \in decisions :
               /\ d.gate = x.gate /\ d.stamp = x.approval /\ d.decision = "approve"
               /\ \/ d.by = "developer"
                  \/ /\ d.by = "peer" /\ Policy[x.kind].role # NoRole
                     /\ Policy[x.kind].verdict => d.evid
    PROVE  IInv'
  <1>1. Spends' = Spends
    BY DEF Spends
  <1>2. TypeInv /\ TypeInv'
    BY DEF IInv
  <1>3. clock \in Int /\ clock' \in Int
    BY DEF IInv, TypeInv, TypeOK
  <1>4. StampInv'
    <2>1. \A y \in Spends' : y.approval < clock'
      BY <1>1, <1>2, <1>3, StampTypes DEF IInv, StampInv
    <2>2. \A g \in GateIds : /\ gates'[g].decidedAt < clock'
                             /\ gates'[g].state = "open" => gates'[g].decidedAt = 0
      BY <1>2, <1>3, StampTypes DEF IInv, StampInv
    <2>3. \A b \in Deciding' : 0 < op'[b].now /\ op'[b].now < clock'
      <3>1. \A b \in Deciding : op[b].now \in Int /\ 0 < op[b].now /\ op[b].now < clock
        BY <1>2, StampTypes DEF IInv, StampInv, Deciding
      <3> QED
        BY <1>3, <3>1 DEF QuietOps
    <2>4. \A b \in Deciding' : /\ \A g \in GateIds : gates'[g].decidedAt # op'[b].now
                               /\ \A y \in Spends' : y.approval # op'[b].now
                               /\ \A c \in Deciding' : op'[b].now = op'[c].now => b = c
      BY <1>1 DEF IInv, StampInv, QuietOps
    <2> QED
      BY <2>1, <2>2, <2>3, <2>4 DEF StampInv, QuietOps
  <1>5. LogInv'
    BY <1>1 DEF IInv, LogInv, OnRecord
  <1>6. SpentOnce' /\ RecoveryOwnsSpend'
    BY <1>1 DEF IInv, Authority, SpentOnce, RecoveryOwnsSpend
  <1>7. ActsAreAuthorised'
    BY DEF IInv, Authority, ActsAreAuthorised
  <1> QED
    BY <1>4, <1>5, <1>6, <1>7 DEF IInv, Authority

\* A valid approval in the fold is a decision on record of the developer, or of
\* a peer under the delegation rule of the kind.
LEMMA ApprovedOnRecord ==
    ASSUME IInv, NEW k \in Kinds, NEW g \in ApprovedGate(gates, k)
    PROVE  \E d \in decisions :
               /\ d.gate = g /\ d.stamp = gates[g].decidedAt /\ d.decision = "approve"
               /\ \/ d.by = "developer"
                  \/ /\ d.by = "peer" /\ Policy[k].role # NoRole
                     /\ Policy[k].verdict => d.evid
  <1>1. g \in GateIds /\ gates[g].kind = k /\ gates[g].state = "approved" /\ ApprovalValid(gates[g])
    BY ApprovedIds
  <1>2. PICK d \in decisions : /\ d.gate = g /\ d.stamp = gates[g].decidedAt
                               /\ d.decision = "approve" /\ d.by = gates[g].by
                               /\ d.evid = gates[g].evid
    BY <1>1 DEF IInv, LogInv, OnRecord
  <1>3. \/ gates[g].by = "developer"
        \/ /\ gates[g].by = "peer" /\ Policy[k].role # NoRole
           /\ Policy[k].verdict => gates[g].evid
    BY <1>1, GateConstants DEF ApprovalValid, DelegatedDecisionValid
  <1>4. \/ d.by = "developer"
        \/ /\ d.by = "peer" /\ Policy[k].role # NoRole
           /\ Policy[k].verdict => d.evid
    BY <1>2, <1>3
  <1> QED
    BY <1>2, <1>4

\* Claiming a valid approval: nobody spent it before, and nobody can again.
LEMMA SpendKeeps ==
    ASSUME IInv, TypeInv', QuietOps, NEW k \in Kinds, NEW key \in Keys \cup {NoKey},
           NEW now \in Nat, NEW g \in ApprovedGate(gates, k),
           acts' = acts \cup {Act(k, g, "spent", key, now)},
           gates' = [gates EXCEPT ![g] = ApplyGate(gates[g], now, key)],
           decisions' = decisions, clock <= clock'
    PROVE  IInv'
  <1> DEFINE x == Act(k, g, "spent", key, now)
             n == ApplyGate(gates[g], now, key)
  <1>1. /\ TypeInv /\ gates \in [GateIds -> Snapshot] /\ clock \in Int /\ clock' \in Int
        /\ g \in GateIds /\ gates[g] \in Snapshot
    BY ApprovedIds DEF IInv, TypeInv, TypeOK
  <1>2. /\ x.how = "spent" /\ x.gate = g /\ x.key = key /\ x.kind = k
        /\ x.approval = gates[g].decidedAt
    <2>1. g # 0
      BY <1>1, GateConstants DEF GateIds
    <2> QED
      BY <2>1 DEF Act
  <1>3. n.state = "applied" /\ n.decidedAt = gates[g].decidedAt /\ n.key = key
    BY <1>1 DEF ApplyGate, Snapshot
  <1>4. acts' = acts \cup {x} /\ gates' = [gates EXCEPT ![g] = n]
    OBVIOUS
  <1> HIDE DEF x, n
  <1>5. Spends' = Spends \cup {x}
    BY <1>2, <1>4 DEF Spends
  <1>6. \A h \in GateIds : gates'[h] = IF h = g THEN n ELSE gates[h]
    BY <1>1, <1>4
  <1>7. gates[g].state = "approved" /\ \A y \in Spends : y.gate = g => y.approval # x.approval
    BY <1>1, <1>2, ApprovedIds DEF IInv, LogInv, OnRecord
  <1>8. StampInv'
    <2>1. \A y \in Spends' : y.approval < clock'
      <3>1. x.approval < clock /\ x.approval \in Int
        BY <1>1, <1>2, StampTypes DEF IInv, StampInv
      <3> QED
        BY <1>1, <1>5, <3>1, StampTypes DEF IInv, StampInv
    <2>2. \A h \in GateIds : gates'[h].decidedAt = gates[h].decidedAt
      BY <1>3, <1>6
    <2>3. \A h \in GateIds : /\ gates'[h].decidedAt < clock'
                             /\ gates'[h].state = "open" => gates'[h].decidedAt = 0
      BY <1>1, <1>3, <1>6, <2>2, StampTypes DEF IInv, StampInv
    <2>4. \A b \in Deciding' : 0 < op'[b].now /\ op'[b].now < clock'
      <3>1. \A b \in Deciding : op[b].now \in Int /\ 0 < op[b].now /\ op[b].now < clock
        BY <1>1, StampTypes DEF IInv, StampInv, Deciding
      <3> QED
        BY <1>1, <3>1 DEF QuietOps
    <2>5. \A b \in Deciding' : \A h \in GateIds : gates'[h].decidedAt # op'[b].now
      BY <2>2 DEF IInv, StampInv, QuietOps
    <2>6. \A b \in Deciding' : \A y \in Spends' : y.approval # op'[b].now
      BY <1>1, <1>2, <1>5 DEF IInv, StampInv, QuietOps
    <2>7. \A b, c \in Deciding' : op'[b].now = op'[c].now => b = c
      BY DEF IInv, StampInv, QuietOps
    <2> QED
      BY <2>1, <2>3, <2>4, <2>5, <2>6, <2>7 DEF StampInv, QuietOps
  <1>9. LogInv'
    <2>1. ASSUME NEW h \in GateIds, h # g PROVE OnRecord(h, gates[h])'
      BY <1>2, <1>5, <1>6, <2>1 DEF IInv, LogInv, OnRecord
    <2>2. ASSUME NEW h \in GateIds, h = g PROVE OnRecord(h, gates[h])'
      BY <1>2, <1>3, <1>5, <1>6, <2>2 DEF OnRecord
    <2> QED
      BY <2>1, <2>2 DEF LogInv
  <1>10. SpentOnce'
    BY <1>2, <1>5, <1>7 DEF IInv, Authority, SpentOnce
  <1>11. RecoveryOwnsSpend'
    BY <1>2, <1>4, <1>5 DEF IInv, Authority, RecoveryOwnsSpend
  <1>12. ActsAreAuthorised'
    BY <1>2, <1>4, ApprovedOnRecord DEF IInv, Authority, ActsAreAuthorised
  <1> QED
    BY <1>8, <1>9, <1>10, <1>11, <1>12 DEF IInv, Authority

\* A claim spends an approval that is on record and that nobody spent, or
\* resumes the spend of its own operation.
LEMMA ClaimKeeps ==
    ASSUME IInv, TypeInv', NEW a \in Actors, ClaimApproval(a)
    PROVE  IInv'
  <1> DEFINE k == op[a].kind
             key == op[a].key
             now == op[a].now
  <1>1. /\ TypeInv /\ TypeOK /\ op \in [Actors -> Ops] /\ gates \in [GateIds -> Snapshot]
        /\ k \in Kinds /\ key \in Keys \cup {NoKey} /\ now \in Nat /\ clock \in Int
    BY GateConstants DEF IInv, TypeInv, TypeOK, OpFits, Ops, ClaimApproval, ConsumedKinds
  <1>2. /\ op' = [op EXCEPT ![a] = Idle] /\ clock' = clock /\ decisions' = decisions
        /\ \/ acts' = acts /\ gates' = gates
           \/ acts' = acts \cup {Act(k, 0, "gateless", key, now)} /\ gates' = gates
           \/ \E g \in RecoveringGate(gates, k, key) :
                acts' = acts \cup {Act(k, g, "resumed", key, now)} /\ gates' = gates
           \/ \E g \in ApprovedGate(gates, k) :
                /\ acts' = acts \cup {Act(k, g, "spent", key, now)}
                /\ gates' = [gates EXCEPT ![g] = ApplyGate(gates[g], now, key)]
    BY DEF ClaimApproval, Finish, Append
  <1> HIDE DEF k, key, now
  <1>3. QuietOps
    BY <1>2, OpQuiet, AbsentIdleType
  <1>4. clock <= clock'
    BY <1>1, <1>2, StampTypes
  <1>5. CASE acts' = acts /\ gates' = gates
    BY <1>2, <1>3, <1>4, <1>5, QuietKeeps DEF QuietGates
  <1>6. CASE acts' = acts \cup {Act(k, 0, "gateless", key, now)} /\ gates' = gates
    <2> DEFINE x == Act(k, 0, "gateless", key, now)
    <2>1. x.how = "gateless"
      BY DEF Act
    <2>2. acts' = acts \cup {x} /\ gates' = gates
      BY <1>6
    <2> HIDE DEF x
    <2> QED
      BY <1>2, <1>3, <1>4, <2>1, <2>2, UnspentActKeeps
  <1>7. ASSUME NEW g \in RecoveringGate(gates, k, key),
               acts' = acts \cup {Act(k, g, "resumed", key, now)}, gates' = gates
        PROVE  IInv'
    <2>1. g \in GateIds /\ gates[g].state = "applied" /\ gates[g].key = key /\ key # NoKey
      BY RecoveringIds
    <2>2. PICK y \in Spends : y.gate = g /\ y.approval = gates[g].decidedAt /\ y.key = gates[g].key
      BY <2>1 DEF IInv, LogInv, OnRecord
    <2> DEFINE x == Act(k, g, "resumed", key, now)
    <2>3. /\ x.how = "resumed" /\ x.gate = g /\ x.key = key /\ x.approval = gates[g].decidedAt
      <3>1. g # 0
        BY <2>1, GateConstants DEF GateIds
      <3> QED
        BY <3>1 DEF Act
    <2>4. /\ acts' = acts \cup {x}
          /\ x.how = "resumed" => \E z \in Spends : /\ z.gate = x.gate /\ z.approval = x.approval
                                                    /\ z.key = x.key /\ x.key # NoKey
      BY <1>7, <2>1, <2>2, <2>3
    <2> HIDE DEF x
    <2> QED
      BY <1>2, <1>3, <1>4, <1>7, <2>3, <2>4, UnspentActKeeps
  <1>8. ASSUME NEW g \in ApprovedGate(gates, k),
               acts' = acts \cup {Act(k, g, "spent", key, now)},
               gates' = [gates EXCEPT ![g] = ApplyGate(gates[g], now, key)]
        PROVE  IInv'
    BY <1>1, <1>2, <1>3, <1>4, <1>8, SpendKeeps
  <1> QED
    BY <1>2, <1>5, <1>6, <1>7, <1>8

\* An integration folds an approval that is on record.
LEMMA HandoverKeeps ==
    ASSUME IInv, TypeInv', NEW a \in Actors, NEW k \in SeamKinds, HandoverIntegrate(a, k)
    PROVE  IInv'
  <1>1. TypeInv /\ k \in Kinds
    BY GateConstants DEF IInv
  <1>2. /\ clock' = clock + 1 /\ gates' = gates /\ op' = op /\ decisions' = decisions
        /\ \/ acts' = acts \cup {Act(k, 0, "gateless", NoKey, clock)}
           \/ \E g \in ApprovedGate(gates, k) : acts' = acts \cup {Act(k, g, "folded", NoKey, clock)}
    BY DEF HandoverIntegrate, TakeStamp
  <1>3. QuietOps
    BY <1>2 DEF QuietOps, Deciding, IInv, StampInv
  <1>4. clock <= clock'
    BY <1>1, <1>2, StampTypes
  <1>5. CASE acts' = acts \cup {Act(k, 0, "gateless", NoKey, clock)}
    <2> DEFINE x == Act(k, 0, "gateless", NoKey, clock)
    <2>1. x.how = "gateless"
      BY DEF Act
    <2>2. acts' = acts \cup {x}
      BY <1>5
    <2> HIDE DEF x
    <2> QED
      BY <1>2, <1>3, <1>4, <2>1, <2>2, UnspentActKeeps
  <1>6. ASSUME NEW g \in ApprovedGate(gates, k), acts' = acts \cup {Act(k, g, "folded", NoKey, clock)}
        PROVE  IInv'
    <2> DEFINE x == Act(k, g, "folded", NoKey, clock)
    <2>1. g # 0
      BY ApprovedIds, GateConstants DEF GateIds
    <2>2. x.how = "folded" /\ x.gate = g /\ x.kind = k /\ x.approval = gates[g].decidedAt
      BY <2>1 DEF Act
    <2>3. acts' = acts \cup {x}
      BY <1>6
    <2> HIDE DEF x
    <2>4. \E d \in decisions :
             /\ d.gate = x.gate /\ d.stamp = x.approval /\ d.decision = "approve"
             /\ \/ d.by = "developer"
                \/ /\ d.by = "peer" /\ Policy[x.kind].role # NoRole
                   /\ Policy[x.kind].verdict => d.evid
      BY <1>1, <2>2, ApprovedOnRecord
    <2> QED
      BY <1>2, <1>3, <1>4, <2>2, <2>3, <2>4, UnspentActKeeps
  <1> QED
    BY <1>2, <1>5, <1>6

\* Initially nothing was decided or permitted.
LEMMA InvInit == Init => IInv
  <1> SUFFICES ASSUME Init PROVE IInv
    OBVIOUS
  <1>1. TypeInv
    BY TypeInit
  <1>2. Spends = {} /\ acts = {} /\ clock = 1 /\ \A a \in Actors : op[a] = Idle
    BY DEF Init, Spends
  <1>3. \A g \in GateIds : gates[g] = Absent
    BY DEF Init
  <1>4. StampInv
    BY <1>2, <1>3, Undecided, AbsentIdleType DEF StampInv, Deciding
  <1>5. LogInv
    BY <1>3, Undecided DEF LogInv, OnRecord
  <1>6. Authority
    BY <1>2 DEF Authority, SpentOnce, ActsAreAuthorised, RecoveryOwnsSpend
  <1> QED
    BY <1>1, <1>4, <1>5, <1>6 DEF IInv

\* Every step keeps the strengthened invariant.
LEMMA InvNext == IInv /\ [Next]_vars => IInv'
  <1> SUFFICES ASSUME IInv, [Next]_vars PROVE IInv'
    OBVIOUS
  <1>1. TypeInv'
    BY TypeNext DEF IInv
  <1>2. ASSUME NEW a \in Actors, Start(a) PROVE IInv'
    <2>1. CASE \E k \in Kinds, w \in BOOLEAN, e \in OpenEvidence : GateCreate(a, k, w, e)
      BY <1>1, <2>1, CreateKeeps
    <2>2. CASE \/ \E v \in Verdicts : DecideLatestGate(a, v)
               \/ \E g \in GateIds, v \in Verdicts : DecideAddressedGate(a, g, v)
      BY <1>1, <2>2, BeginDecisionKeeps
    <2>2a. CASE \E g \in GateIds, v \in Verdicts : DecideStructural(a, g, v)
      BY <1>1, <2>2a, OtherKeeps
    <2>3. CASE \E k \in EnforcedKinds, key \in Keys \cup {NoKey} : CloseoutBegin(a, k, key)
      BY <1>1, <2>3, OtherKeeps
    <2>4. CASE \E k \in SeamKinds : HandoverIntegrate(a, k)
      BY <1>1, <2>4, HandoverKeeps
    <2> QED
      BY <1>2, <2>1, <2>2, <2>2a, <2>3, <2>4 DEF Start
  <1>3. ASSUME NEW a \in Actors, Continue(a) PROVE IInv'
    BY <1>1, <1>3, CreateKeeps, BeginDecisionKeeps, DecisionStepKeeps, DecideAppendKeeps,
       ClaimKeeps DEF Continue
  <1>4. ASSUME NEW a \in Actors, Crash(a) PROVE IInv'
    BY <1>1, <1>4, DecisionStepKeeps
  <1>5. CASE TimePasses \/ UNCHANGED vars
    BY <1>1, <1>5, OtherKeeps
  <1> QED
    BY <1>2, <1>3, <1>4, <1>5 DEF Next

\* The strengthened invariant holds in every reachable state.
LEMMA Strengthened == Spec => []IInv
  BY InvInit, InvNext, PTL DEF Spec

\* One recorded approval is spent by at most one mutation (claim_approval), for
\* any number of sessions, requests, workers, gates and operations in flight,
\* crashes included.
THEOREM ApprovalSpentOnce == Spec => []SpentOnce
  <1>1. IInv => SpentOnce
    BY DEF IInv, Authority
  <1> QED
    BY Strengthened, <1>1, PTL

\* A mutation that a gate let through rests on an approval of the developer or
\* of a peer under the delegation rule (approval_failure_reason), whatever was
\* appended from stale copies in between.
THEOREM MutationsAuthorised == Spec => []ActsAreAuthorised
  <1>1. IInv => ActsAreAuthorised
    BY DEF IInv, Authority
  <1> QED
    BY Strengthened, <1>1, PTL

\* A claim that finds the gate applied is permitted only to the operation that
\* spent the approval (appliedOperation in evaluate_gate).
THEOREM RecoveryIsOwn == Spec => []RecoveryOwnsSpend
  <1>1. IInv => RecoveryOwnsSpend
    BY DEF IInv, Authority
  <1> QED
    BY Strengthened, <1>1, PTL
-----------------------------------------------------------------------------
(* Reclaiming.  Only its own step, or a crash, ends an operation that is    *)
(* about to reclaim, and the reclaim keeps every applied gate of a kind     *)
(* that mutations consume: the set of gates of the kind can only shrink,    *)
(* the governing one stays in it.                                           *)

\* A step of one session, request or worker leaves the others' operations alone.
LEMMA OthersStay ==
    ASSUME TypeInv, NEW a \in Actors, Start(a) \/ Continue(a) \/ Crash(a),
           NEW b \in Actors, b # a
    PROVE  op'[b] = op[b]
  <1>1. op \in [Actors -> Ops]
    BY DEF TypeInv, TypeOK
  <1>2. CASE Start(a)
    BY <1>1, <1>2 DEF Start, GateCreate, DecideLatestGate, DecideStructural, DecideAddressedGate,
                      CloseoutBegin, HandoverIntegrate, Begin
  <1>3. CASE \/ Stamp(a) \/ CreateRead(a) \/ CreateExpire(a) \/ CreateOpen(a)
             \/ WriteVerdictByRow(a) \/ GateResponseWait(a)
    BY <1>1, <1>3 DEF Stamp, CreateRead, CreateExpire, CreateOpen, WriteVerdictByRow,
                      GateResponseWait, Goto, Finish
  <1>4. CASE ChooseLatest(a) \/ DecideTarget(a) \/ DecideAppend(a) \/ GateDelete(a)
    BY <1>1, <1>4 DEF ChooseLatest, DecideTarget, DecideAppend, GateDelete, Goto, Finish
  <1>5. CASE MeetVerdictExpectation(a) \/ ReclaimGateLog(a) \/ ClaimApproval(a) \/ Crash(a)
    BY <1>1, <1>5 DEF MeetVerdictExpectation, ReclaimGateLog, ClaimApproval, Crash, Goto, Finish
  <1> QED
    BY <1>2, <1>3, <1>4, <1>5 DEF Continue

\* An operation about to reclaim does so, dies, or stays where it is.
LEMMA ReclaimEnds ==
    ASSUME TypeInv, [Next]_vars, NEW a \in Actors,
           op[a].step = "reclaim", op'[a].step = "idle"
    PROVE  ReclaimGateLog(a) \/ gates' = gates
  <1>1. ASSUME NEW b \in Actors, Start(b) \/ Continue(b) \/ Crash(b), b # a PROVE FALSE
    BY <1>1, OthersStay
  <1>2. CASE Start(a)
    BY <1>2 DEF Start, GateCreate, DecideLatestGate, DecideStructural, DecideAddressedGate,
                CloseoutBegin, HandoverIntegrate
  <1>3. CASE Continue(a)
    BY <1>3 DEF Continue, Stamp, CreateRead, CreateExpire, CreateOpen, WriteVerdictByRow,
                GateResponseWait, ChooseLatest, DecideTarget, DecideAppend, GateDelete,
                MeetVerdictExpectation, ClaimApproval
  <1>4. CASE Crash(a)
    BY <1>4 DEF Crash
  <1>5. CASE TimePasses \/ UNCHANGED vars
    BY <1>5 DEF TimePasses, vars
  <1> QED
    BY <1>1, <1>2, <1>3, <1>4, <1>5 DEF Next

\* What a reclaim leaves of the log: applied gates of the consumed kinds stay,
\* and nothing is written that was not there.
LEMMA ReclaimKeeps ==
    ASSUME TypeInv, NEW a \in Actors, ReclaimGateLog(a)
    PROVE  \A g \in GateIds :
             /\ gates'[g] \in {gates[g], Absent}
             /\ gates[g].state = "applied" /\ gates[g].kind \in ConsumedKinds
                  => gates'[g] = gates[g]
  <1> SUFFICES ASSUME NEW g \in GateIds
               PROVE  /\ gates'[g] \in {gates[g], Absent}
                      /\ gates[g].state = "applied" /\ gates[g].kind \in ConsumedKinds
                           => gates'[g] = gates[g]
    OBVIOUS
  <1>1. gates'[g] = IF KeepGate(gates[g], op[a].horizon) THEN gates[g] ELSE Absent
    BY DEF ReclaimGateLog
  <1>2. gates[g].state = "applied" => KeepGate(gates[g], op[a].horizon) = (gates[g].kind \in ConsumedKinds)
    BY DEF KeepGate
  <1> QED
    BY <1>1, <1>2

\* Reclaiming the log (GateStore.compact) never changes an "already applied" verdict, for
\* any number of actors, gates and operations in flight, stale appends and crashes included.
THEOREM SpentMarkersSurviveReclaim == Spec => SpentVerdictSurvivesReclaim
  <1>1. ASSUME TypeInv, [Next]_vars, NEW a \in Actors, NEW k \in EnforcedKinds,
               op[a].step = "reclaim", op'[a].step = "idle",
               NEW g \in Governing(gates, k), gates[g].state = "applied"
        PROVE  g \in Governing(gates, k)'
    <2>1. g \in GateIds /\ gates[g].kind = k /\ k \in ConsumedKinds
      BY GateConstants DEF Governing, Latest, Relevant
    <2>2. CASE gates' = gates
      BY <2>2 DEF Governing, Latest, Relevant
    <2>3. CASE ReclaimGateLog(a)
      <3>1. \A h \in GateIds : gates'[h] \in {gates[h], Absent}
        BY <1>1, <2>3, ReclaimKeeps
      <3>2. gates'[g] = gates[g]
        BY <1>1, <2>1, <2>3, ReclaimKeeps
      <3>3. Absent.state = "absent"
        BY Undecided
      <3>4. Relevant(gates', k) \subseteq Relevant(gates, k)
        BY <3>1, <3>3 DEF Relevant
      <3>5. \A h \in Relevant(gates', k) : gates'[h] = gates[h]
        BY <3>1, <3>3 DEF Relevant
      <3>6. g \in Relevant(gates', k)
        BY <1>1, <2>1, <3>2 DEF Relevant
      <3>7. \A h \in Relevant(gates, k) : \/ gates[h].ts < gates[g].ts
                                          \/ gates[h].ts = gates[g].ts /\ g <= h
        BY DEF Governing, Latest
      <3>8. \A h \in Relevant(gates', k) : \/ gates'[h].ts < gates'[g].ts
                                           \/ gates'[h].ts = gates'[g].ts /\ g <= h
        BY <3>2, <3>4, <3>5, <3>7
      <3> QED
        BY <3>6, <3>8 DEF Governing, Latest
    <2> QED
      BY <1>1, <2>2, <2>3, ReclaimEnds
  <1>2. TypeInv /\ [Next]_vars =>
          [\A a \in Actors, k \in EnforcedKinds :
             op[a].step = "reclaim" /\ op'[a].step = "idle" =>
             \A g \in Governing(gates, k) :
                 gates[g].state = "applied" => g \in Governing(gates, k)']_vars
    BY <1>1
  <1> QED
    BY <1>2, TypeInit, TypeNext, PTL DEF Spec, SpentVerdictSurvivesReclaim
=============================================================================
