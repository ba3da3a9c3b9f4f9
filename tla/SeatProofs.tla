----------------------------- MODULE SeatProofs -----------------------------
(***************************************************************************)
(* Theorems of SeatDispatch, for every set of callers, every threshold and *)
(* every bound: types and locks, one occupant, rollbacks that spare a      *)
(* briefed generation, and batches that lose nothing.                      *)
(*                                                                         *)
(* The inductive invariant adds to the properties what they rest on: ids   *)
(* are numbered below `used`, the buffer of an open holds no running row,  *)
(* any buffer agrees with the file but for liveness, and a generation that *)
(* is being reconciled for its rollback has no viable brief.               *)
(***************************************************************************)
EXTENDS SeatDispatch, TLAPS

Chosen(a) == calls[a].pc \notin {"idle", "spawn", "opening"}

\* Generations are numbered in the order of their spawns; nobody names a later one.
Numbered ==
    /\ \A g \in Generations : g > used => rows[g].status = "none" /\ batch[g].status = "none"
    /\ \A a \in Actors : Chosen(a) => calls[a].gen \in 1 .. used
    /\ \A a \in Actors : At(a, "created") => rows[calls[a].gen].status = "none"
    /\ stamp.gen \in 0 .. used

\* An open has marked the dead owner in its buffer before it creates a session.
SeatVacated ==
    \A a \in Actors : At(a, "opening") \/ At(a, "created") =>
        \A g \in Generations : ~Running(batch[g])

\* The file does not change under a batch, and the buffer only in its liveness.
BufferTracks ==
    catalogLock # Nobody => \A g \in Generations : LivenessOnly(rows[g], batch[g])

\* A brief belongs to a dispatched generation; what is about to be closed has none.
BriefsJustified ==
    /\ \A g \in Generations : briefs[g] # "none" => g \in dispatched
    /\ \A c \in Callers :
          /\ calls[c].pc \in {"brief", "bind", "repair"} => calls[c].gen \in dispatched
          /\ calls[c].pc = "repair" /\ ~calls[c].viable => briefs[calls[c].gen] # "open"
          /\ calls[c].pc \in {"close", "stop", "kill", "mark"} =>
                briefs[calls[c].gen] # "open" /\ calls[c].gen \in dispatched

\* The two halves of TypeOK, proved apart.
Types ==
    /\ rows \in [Generations -> Row]
    /\ batch \in [Generations -> Row]
    /\ used \in 0 .. MaxGenerations
    /\ dispatched \subseteq 1 .. used
    /\ panes \subseteq 1 .. used
    /\ briefs \in [Generations -> {"none", "open", "failed", "gone", "back"}]
    /\ calls \in [Actors -> Call]
    /\ phase \in {"idle", "looking", "compact"}
    /\ todo \subseteq Generations
    /\ faults \in 0 .. MaxFaults
    /\ stamp \in [gen : {0} \cup Generations, row : Row]
    /\ returned \subseteq Generations

Locks ==
    /\ \A c \in Callers : seatLock = c <=> ~At(c, "idle")
    /\ seatLock # Operator
    /\ \A a \in Actors : catalogLock = a <=> At(a, "opening") \/ At(a, "created")
    /\ catalogLock = Sweeper <=> phase = "looking"

IInv ==
    /\ Types
    /\ Locks
    /\ Numbered
    /\ SeatVacated
    /\ BufferTracks
    /\ OneOccupant
    /\ BriefsJustified

-----------------------------------------------------------------------------
(* What the operations on rows and calls return.                           *)

LEMMA ActorFacts ==
    /\ Callers \subseteq Actors /\ Operator \in Actors
    /\ Nobody \notin Actors /\ Sweeper \notin Actors /\ Operator \notin Callers
    /\ Sweeper # Nobody
BY SeatAssumption DEF Actors

\* The transitions of a row keep its type.
LEMMA RowFacts ==
    ASSUME NEW row \in Row
    PROVE  /\ NoRow \in Row /\ Opened \in Row
           /\ WithReceipt(row) \in Row /\ WithTermination(row) \in Row
           /\ WithLanding(row) \in Row /\ WithAttachment(row) \in Row
           /\ WithExit(row) \in Row
<1>1. 0 \in 0 .. FailureThreshold
  BY SeatAssumption
<1>2. NoRow \in Row /\ Opened \in Row
  BY <1>1 DEF Row, NoRow, Opened
<1>3. WithReceipt(row) \in Row
  BY DEF Row, WithReceipt
<1>4. WithTermination(row) \in Row
  BY <1>1 DEF Row, WithTermination
<1>5. WithLanding(row) \in Row
  BY <1>1 DEF Row, WithLanding
<1>6. WithExit(row) \in Row
  BY <1>1 DEF Row, WithExit
<1>7. WithAttachment(row) \in Row
  BY <1>1 DEF Row, WithAttachment
<1> QED  BY <1>2, <1>3, <1>4, <1>5, <1>6, <1>7

\* An observation changes no receipt, and no status but running and exited.
LEMMA ObservedFacts ==
    ASSUME NEW row \in Row, NEW evidence, NEW elapsed
    PROVE  /\ Observed(row, evidence, elapsed) \in Row
           /\ LivenessOnly(row, Observed(row, evidence, elapsed))
<1> DEFINE counted == IF row.failures < FailureThreshold THEN row.failures + 1 ELSE row.failures
<1>1. 0 \in 0 .. FailureThreshold /\ counted \in 0 .. FailureThreshold
  BY SeatAssumption DEF Row
<1>2. \/ Observed(row, evidence, elapsed) = row
      \/ /\ row.status \in {"running", "exited"}
         /\ Observed(row, evidence, elapsed) = [row EXCEPT !.status = "running", !.failures = 0]
      \/ /\ row.status = "running"
         /\ Observed(row, evidence, elapsed) = [row EXCEPT !.status = "exited", !.failures = 0]
      \/ Observed(row, evidence, elapsed) = [row EXCEPT !.failures = counted]
  BY DEF Observed, WithLivenessSuccess, WithLivenessFailure, Running
<1> HIDE DEF counted
<1> QED  BY <1>1, <1>2 DEF Row, LivenessOnly

\* Calls keep their type.
LEMMA NoCallFacts == NoRow \in Row /\ NoCall \in Call /\ NoCall.pc = "idle"
<1>1. NoRow \in Row
  BY SeatAssumption DEF NoRow, Row
<1> QED  BY <1>1 DEF Call, NoCall

LEMMA CallFacts ==
    ASSUME NEW call \in Call
    PROVE  /\ NoCall \in Call
           /\ call.gen \in {0} \cup Generations /\ call.copy \in Row
BY NoCallFacts DEF Call

\* Whatever is committed, a row that runs has run before, is new, or has returned.
LEMMA CommitFacts ==
    ASSUME OneOccupant, NEW new, Commit(new, {})
    PROVE  OneOccupant'
BY DEF OneOccupant, Occupants, Commit

\* Where the file is left alone, so is the seat.
LEMMA SameOccupants ==
    ASSUME OneOccupant, UNCHANGED <<rows, returned>>
    PROVE  OneOccupant'
BY DEF OneOccupant, Occupants

\* The row of a mutator.
LEMMA MutatedFacts ==
    ASSUME NEW old \in [Generations -> Row], NEW g \in Generations, NEW row \in Row
    PROVE  /\ Mutated(old, g, row) \in [Generations -> Row]
           /\ [old EXCEPT ![g] = row] \in [Generations -> Row]
           /\ \A h \in Generations : h # g => Mutated(old, g, row)[h] = old[h]
           /\ old[g].status = "none" => Mutated(old, g, row)[g] = old[g]
           /\ old[g].status # "none" => Mutated(old, g, row)[g] = row
           /\ \A h \in Generations :
                 old[h].status = "none" => Mutated(old, g, row)[h].status = "none"
BY DEF Mutated

-----------------------------------------------------------------------------
(* Two shapes of step: a mutator of the catalog, and a move of one call.   *)

\* The file is left alone, or one mutator outside any batch has written it.
CatalogKept ==
    \/ UNCHANGED catalog
    \/ /\ Unlocked
       /\ UNCHANGED <<batch, catalogLock>>
       /\ \E new \in [Generations -> Row] :
             /\ Commit(new, {})
             /\ \A g \in Generations : g > used => new[g].status = "none"

LEMMA MutateKept ==
    ASSUME IInv, NEW g \in Generations, NEW row \in Row, Mutate(g, row)
    PROVE  CatalogKept
<1> DEFINE new == Mutated(rows, g, row)
<1>1. /\ new \in [Generations -> Row]
      /\ \A h \in Generations : rows[h].status = "none" => new[h].status = "none"
  <2>1. rows \in [Generations -> Row]
    BY DEF IInv, Types
  <2> QED  BY <2>1, MutatedFacts
<1>3. \A h \in Generations : h > used => new[h].status = "none"
  BY <1>1 DEF IInv, Numbered
<1>2. Unlocked /\ UNCHANGED <<batch, catalogLock>> /\ Commit(new, {})
  BY DEF Mutate
<1> QED  BY <1>1, <1>3, <1>2 DEF CatalogKept

LEMMA UpsertKept ==
    ASSUME IInv, NEW g \in 1 .. used, NEW row \in Row, Upsert(g, row)
    PROVE  CatalogKept
<1> DEFINE new == [rows EXCEPT ![g] = row]
<1>1. g \in Generations /\ used \in Nat
  BY SeatAssumption DEF IInv, Types, Generations
<1>2. new \in [Generations -> Row] /\ \A h \in Generations : h > used => new[h].status = "none"
  BY <1>1 DEF IInv, Types, Numbered, Generations
<1>3. Unlocked /\ UNCHANGED <<batch, catalogLock>> /\ Commit(new, {})
  BY DEF Upsert
<1> QED  BY <1>2, <1>3 DEF CatalogKept

\* What such a step leaves true of the catalog.
LEMMA CatalogKeeps ==
    ASSUME IInv, CatalogKept
    PROVE  /\ rows' \in [Generations -> Row] /\ batch' = batch /\ catalogLock' = catalogLock
           /\ returned' \subseteq Generations
           /\ catalogLock # Nobody => rows' = rows
           /\ \A g \in Generations : g > used => rows'[g].status = "none"
           /\ OneOccupant'
<1>1. CASE UNCHANGED catalog
  BY <1>1, SameOccupants DEF catalog, IInv, Types, Numbered
<1>2. CASE ~ UNCHANGED catalog
  <2>1. PICK new \in [Generations -> Row] :
           Commit(new, {}) /\ \A g \in Generations : g > used => new[g].status = "none"
    BY <1>2 DEF CatalogKept
  <2>2. OneOccupant'
    BY <2>1, CommitFacts DEF IInv
  <2>3. rows' = new /\ returned' \subseteq Generations
    BY <2>1 DEF Commit, IInv, Types
  <2> QED  BY <1>2, <2>1, <2>2, <2>3 DEF CatalogKept, Unlocked
<1> QED  BY <1>1, <1>2

\* Only the call of a has moved.
Moved(a) ==
    /\ calls' \in [Actors -> Call]
    /\ \A b \in Actors : b # a => calls'[b] = calls[b]

\* The seat's lock is taken by the first step of a caller's call, given up by the last.
LockFollows(a) ==
    \/ calls'[a].pc = "idle" /\ seatLock' = (IF seatLock = a THEN Nobody ELSE seatLock)
    \/ /\ UNCHANGED seatLock
       /\ a = Operator \/ (calls[a].pc # "idle" /\ calls'[a].pc # "idle")
    \/ a \in Callers /\ calls'[a].pc # "idle" /\ seatLock = Nobody /\ seatLock' = a

\* The generation a caller names is one that BriefsJustified allows it.
Justified(c) ==
    /\ calls'[c].pc \in {"brief", "bind", "repair"} => calls'[c].gen \in dispatched
    /\ calls'[c].pc = "repair" /\ ~calls'[c].viable => briefs[calls'[c].gen] # "open"
    /\ calls'[c].pc \in {"close", "stop", "kill", "mark"} =>
          briefs[calls'[c].gen] # "open" /\ calls'[c].gen \in dispatched

\* The generation of a call that has chosen one.
LEMMA NamedFacts ==
    ASSUME IInv, NEW a \in Actors, Chosen(a)
    PROVE  calls[a].gen \in 1 .. used /\ calls[a].gen \in Generations
<1>1. calls[a].gen \in 1 .. used /\ used \in 0 .. MaxGenerations
  BY DEF IInv, Types, Numbered
<1> QED  BY <1>1, SeatAssumption DEF Generations

\* What a move of one call owes to the invariant.
Sound(a) ==
    /\ Moved(a)
    /\ LockFollows(a)
    /\ calls'[a].pc \notin {"opening", "created"}
    /\ calls'[a].pc \notin {"idle", "spawn"} => calls'[a].gen \in 1 .. used
    /\ a \in Callers => Justified(a)

LEMMA ReturnSound ==
    ASSUME IInv, NEW a \in Actors, Return(a)
    PROVE  Sound(a)
<1>1. calls'[a] = NoCall /\ Moved(a)
  BY CallFacts DEF Return, IInv, Types, Moved
<1> QED  BY <1>1 DEF Sound, LockFollows, Return, Justified, NoCall

LEMMA RetrySound ==
    ASSUME IInv, NEW a \in Actors, ~At(a, "idle"), Retry(a)
    PROVE  Sound(a)
<1>1. CASE Return(a)
  BY <1>1, ReturnSound
<1>2. CASE ~Return(a)
  <2> DEFINE new == [NoCall EXCEPT !.pc = "spawn", !.retried = TRUE]
  <2>1. new \in Call /\ new.pc = "spawn"
    BY NoCallFacts DEF Call, NoCall
  <2>2. calls' = [calls EXCEPT ![a] = new] /\ UNCHANGED seatLock
    BY <1>2 DEF Retry
  <2> HIDE DEF new
  <2>3. calls'[a] = new /\ Moved(a)
    BY <2>1, <2>2 DEF IInv, Types, Moved
  <2> QED  BY <2>1, <2>2, <2>3 DEF Sound, LockFollows, Justified, At
<1> QED  BY <1>1, <1>2

LEMMA CallStep ==
    ASSUME IInv, NEW a \in Actors, Sound(a), CatalogKept,
           UNCHANGED <<births, sweep, stamp, briefs>>,
           panes' \subseteq 1 .. used, faults' \in 0 .. MaxFaults,
           calls[a].pc \notin {"opening", "created"}
    PROVE  IInv'
<1> USE DEF Sound
<1>1. Types'
  BY CatalogKeeps DEF IInv, Types, Moved, births, sweep
<1>2. Locks'
  <2>1. \A c \in Callers : seatLock' = c <=> calls'[c].pc # "idle"
    BY ActorFacts DEF IInv, Locks, Moved, LockFollows, At
  <2>2. seatLock' # Operator
    BY ActorFacts DEF IInv, Locks, LockFollows
  <2>3. \A b \in Actors : catalogLock' = b <=> calls'[b].pc \in {"opening", "created"}
    BY CatalogKeeps DEF IInv, Locks, Moved, At
  <2>4. catalogLock' = Sweeper <=> phase' = "looking"
    BY CatalogKeeps DEF IInv, Locks, sweep
  <2> QED  BY <2>1, <2>2, <2>3, <2>4 DEF Locks, At
<1>3. Numbered'
  <2>1. \A b \in Actors : Chosen(b)' => calls'[b].gen \in 1 .. used
    BY DEF IInv, Numbered, Moved, Chosen
  <2>2. \A b \in Actors : calls'[b].pc = "created" => rows'[calls'[b].gen].status = "none"
    <3> TAKE b \in Actors
    <3> HAVE calls'[b].pc = "created"
    <3>1. calls'[b] = calls[b] /\ calls[b].pc = "created"
      BY DEF Moved
    <3>2. catalogLock # Nobody
      BY <3>1, ActorFacts DEF IInv, Locks, At
    <3> QED  BY <3>1, <3>2, CatalogKeeps DEF IInv, Numbered, At
  <2> QED  BY <2>1, <2>2, CatalogKeeps DEF IInv, Numbered, births, At
<1>4. SeatVacated'
  BY CatalogKeeps DEF IInv, SeatVacated, Moved, At
<1>5. BufferTracks'
  BY CatalogKeeps DEF IInv, BufferTracks
<1>6. BriefsJustified'
  BY ActorFacts DEF IInv, BriefsJustified, Moved, Justified, births
<1>7. OneOccupant'
  BY CatalogKeeps
<1> QED  BY <1>1, <1>2, <1>3, <1>4, <1>5, <1>6, <1>7 DEF IInv

-----------------------------------------------------------------------------
(* Steps of a call.                                                        *)

LEMMA SpawnRefusedKeeps ==
    ASSUME IInv, NEW a \in Actors, SpawnRefused(a)
    PROVE  IInv'
<1>0. /\ a \in Actors /\ calls \in [Actors -> Call] /\ calls[a] \in Call
      /\ calls[a].pc = "spawn"
  BY ActorFacts DEF SpawnRefused, At, IInv, Types
<1>1. Sound(a)
  BY <1>0, ReturnSound DEF SpawnRefused
<1>2. CatalogKept
  BY DEF SpawnRefused, CatalogKept
<1>3. /\ UNCHANGED <<births, sweep, stamp, briefs>>
      /\ panes' \subseteq 1 .. used /\ faults' \in 0 .. MaxFaults
  BY <1>0, SeatAssumption DEF SpawnRefused, IInv, Types, births, sweep
<1> QED  BY <1>0, <1>1, <1>2, <1>3, CallStep

LEMMA FindAmbiguousKeeps ==
    ASSUME IInv, NEW a \in Actors, FindAmbiguous(a)
    PROVE  IInv'
<1>0. /\ a \in Actors /\ calls \in [Actors -> Call] /\ calls[a] \in Call
      /\ calls[a].pc = "spawn"
  BY ActorFacts DEF FindAmbiguous, At, IInv, Types
<1>1. Sound(a)
  BY <1>0, ReturnSound DEF FindAmbiguous
<1>2. CatalogKept
  BY DEF FindAmbiguous, CatalogKept
<1>3. /\ UNCHANGED <<births, sweep, stamp, briefs>>
      /\ panes' \subseteq 1 .. used /\ faults' \in 0 .. MaxFaults
  BY <1>0, SeatAssumption DEF FindAmbiguous, IInv, Types, births, sweep
<1> QED  BY <1>0, <1>1, <1>2, <1>3, CallStep

LEMMA FindSeatTakenKeeps ==
    ASSUME IInv, NEW a \in Actors, FindSeatTaken(a)
    PROVE  IInv'
<1>0. /\ a \in Actors /\ calls \in [Actors -> Call] /\ calls[a] \in Call
      /\ calls[a].pc = "spawn"
  BY ActorFacts DEF FindSeatTaken, At, IInv, Types
<1>1. Sound(a)
  <2>1. CASE Return(a)
    BY <2>1, <1>0, ReturnSound
  <2>2. CASE ~Return(a)
    <3>1. PICK owner \in Generations :
             /\ owner \in panes
             /\ calls' = [calls EXCEPT ![a].pc = "evidence", ![a].gen = owner]
             /\ UNCHANGED seatLock
      BY <2>2 DEF FindSeatTaken
    <3>2. Moved(a) /\ calls'[a].pc = "evidence" /\ calls'[a].gen = owner
      BY <3>1, <1>0 DEF Moved, Call
    <3>3. owner \in 1 .. used
      BY <3>1 DEF IInv, Types
    <3> QED  BY <3>1, <3>2, <3>3, <1>0 DEF Sound, LockFollows, Justified
  <2> QED  BY <2>1, <2>2
<1>2. CatalogKept
  BY DEF FindSeatTaken, CatalogKept
<1>3. /\ UNCHANGED <<births, sweep, stamp, briefs>>
      /\ panes' \subseteq 1 .. used /\ faults' \in 0 .. MaxFaults
  BY <1>0, SeatAssumption DEF FindSeatTaken, IInv, Types, births, sweep
<1> QED  BY <1>0, <1>1, <1>2, <1>3, CallStep

LEMMA StopControlKeeps ==
    ASSUME IInv, NEW a \in Actors, StopControl(a)
    PROVE  IInv'
<1>0. /\ a \in Actors /\ calls \in [Actors -> Call] /\ calls[a] \in Call
      /\ calls[a].pc = "stop"
      /\ calls[a].gen \in 1 .. used /\ calls[a].gen \in Generations
  BY ActorFacts, NamedFacts DEF StopControl, At, IInv, Types, Chosen
<1>1. Sound(a)
    <2>1. Moved(a)
      BY <1>0, CallFacts, RowFacts DEF StopControl, At, Moved, Call, NoCall, IInv, Types
    <2>2. LockFollows(a)
      BY <1>0 DEF StopControl, At, LockFollows, NoCall
    <2>3. /\ calls'[a].pc \notin {"opening", "created"}
          /\ calls'[a].pc \notin {"idle", "spawn"} => calls'[a].gen \in 1 .. used
      BY <1>0 DEF StopControl, At, NoCall
    <2>4. a \in Callers => Justified(a)
      BY <1>0 DEF StopControl, At, Justified, NoCall, IInv, BriefsJustified
    <2> QED  BY <2>1, <2>2, <2>3, <2>4 DEF Sound
<1>2. CatalogKept
  BY <1>0, CallFacts, UpsertKept DEF StopControl, CatalogKept
<1>3. /\ UNCHANGED <<births, sweep, stamp, briefs>>
      /\ panes' \subseteq 1 .. used /\ faults' \in 0 .. MaxFaults
  BY <1>0, SeatAssumption DEF StopControl, IInv, Types, births, sweep
<1> QED  BY <1>0, <1>1, <1>2, <1>3, CallStep

LEMMA KillPaneKeeps ==
    ASSUME IInv, NEW a \in Actors, KillPane(a)
    PROVE  IInv'
<1>0. /\ a \in Actors /\ calls \in [Actors -> Call] /\ calls[a] \in Call
      /\ calls[a].pc = "kill"
      /\ calls[a].gen \in 1 .. used /\ calls[a].gen \in Generations
  BY ActorFacts, NamedFacts DEF KillPane, At, IInv, Types, Chosen
<1>1. Sound(a)
    <2>1. Moved(a)
      BY <1>0, CallFacts, RowFacts DEF KillPane, Goto, At, Moved, Call, NoCall, IInv, Types
    <2>2. LockFollows(a)
      BY <1>0 DEF KillPane, Goto, At, LockFollows, NoCall
    <2>3. /\ calls'[a].pc \notin {"opening", "created"}
          /\ calls'[a].pc \notin {"idle", "spawn"} => calls'[a].gen \in 1 .. used
      BY <1>0 DEF KillPane, Goto, At, NoCall
    <2>4. a \in Callers => Justified(a)
      BY <1>0 DEF KillPane, Goto, At, Justified, NoCall, IInv, BriefsJustified
    <2> QED  BY <2>1, <2>2, <2>3, <2>4 DEF Sound
<1>2. CatalogKept
  BY DEF KillPane, CatalogKept
<1>3. /\ UNCHANGED <<births, sweep, stamp, briefs>>
      /\ panes' \subseteq 1 .. used /\ faults' \in 0 .. MaxFaults
  <2>1. /\ panes' \subseteq panes
        /\ faults' = faults \/ (faults < MaxFaults /\ faults' = faults + 1)
    <3>1. CASE panes' = panes \ {calls[a].gen} /\ UNCHANGED faults
      BY <3>1
    <3>2. CASE Fault /\ UNCHANGED panes
      BY <3>2 DEF Fault
    <3> QED  BY <3>1, <3>2 DEF KillPane
  <2>2. panes \subseteq 1 .. used /\ faults \in 0 .. MaxFaults
    BY DEF IInv, Types
  <2> QED  BY <2>1, <2>2, SeatAssumption DEF KillPane, births, sweep
<1> QED  BY <1>0, <1>1, <1>2, <1>3, CallStep

LEMMA MarkClosedKeeps ==
    ASSUME IInv, NEW a \in Actors, MarkClosed(a)
    PROVE  IInv'
<1>0. /\ a \in Actors /\ calls \in [Actors -> Call] /\ calls[a] \in Call
      /\ calls[a].pc = "mark"
      /\ calls[a].gen \in 1 .. used /\ calls[a].gen \in Generations
  BY ActorFacts, NamedFacts DEF MarkClosed, At, IInv, Types, Chosen
<1>1. Sound(a)
  <2>1. CASE Return(a)
    BY <2>1, <1>0, ReturnSound
  <2>2. CASE Retry(a)
    BY <2>2, <1>0, RetrySound DEF At
  <2> QED  BY <2>1, <2>2 DEF MarkClosed
<1>2. CatalogKept
  BY <1>0, MutateKept, RowFacts DEF MarkClosed, IInv, Types
<1>3. /\ UNCHANGED <<births, sweep, stamp, briefs>>
      /\ panes' \subseteq 1 .. used /\ faults' \in 0 .. MaxFaults
  BY <1>0, SeatAssumption DEF MarkClosed, IInv, Types, births, sweep
<1> QED  BY <1>0, <1>1, <1>2, <1>3, CallStep

LEMMA MarkFailsKeeps ==
    ASSUME IInv, NEW a \in Actors, MarkFails(a)
    PROVE  IInv'
<1>0. /\ a \in Actors /\ calls \in [Actors -> Call] /\ calls[a] \in Call
      /\ calls[a].pc = "mark"
      /\ calls[a].gen \in 1 .. used /\ calls[a].gen \in Generations
  BY ActorFacts, NamedFacts DEF MarkFails, At, IInv, Types, Chosen
<1>1. Sound(a)
  BY <1>0, ReturnSound DEF MarkFails
<1>2. CatalogKept
  BY DEF MarkFails, CatalogKept
<1>3. /\ UNCHANGED <<births, sweep, stamp, briefs>>
      /\ panes' \subseteq 1 .. used /\ faults' \in 0 .. MaxFaults
  BY <1>0, SeatAssumption DEF MarkFails, IInv, Types, births, sweep
<1> QED  BY <1>0, <1>1, <1>2, <1>3, CallStep

LEMMA DispatchKeeps ==
    ASSUME IInv, NEW c \in Callers, Dispatch(c)
    PROVE  IInv'
<1>0. /\ c \in Actors /\ calls \in [Actors -> Call] /\ calls[c] \in Call
      /\ calls[c].pc = "idle"
  BY ActorFacts DEF Dispatch, At, IInv, Types
<1>1. Sound(c)
    <2>1. Moved(c)
      BY <1>0, CallFacts, RowFacts DEF Dispatch, At, Moved, Call, NoCall, IInv, Types
    <2>2. LockFollows(c)
      BY <1>0 DEF Dispatch, At, LockFollows, NoCall
    <2>3. /\ calls'[c].pc \notin {"opening", "created"}
          /\ calls'[c].pc \notin {"idle", "spawn"} => calls'[c].gen \in 1 .. used
      BY <1>0 DEF Dispatch, At, NoCall
    <2>4. Justified(c)
      BY <1>0 DEF Dispatch, At, Justified, NoCall, IInv, BriefsJustified
    <2> QED  BY <2>1, <2>2, <2>3, <2>4 DEF Sound
<1>2. CatalogKept
  BY DEF Dispatch, CatalogKept
<1>3. /\ UNCHANGED <<births, sweep, stamp, briefs>>
      /\ panes' \subseteq 1 .. used /\ faults' \in 0 .. MaxFaults
  BY <1>0, SeatAssumption DEF Dispatch, IInv, Types, births, sweep
<1> QED  BY <1>0, <1>1, <1>2, <1>3, CallStep

LEMMA PostRefusedKeeps ==
    ASSUME IInv, NEW c \in Callers, PostRefused(c)
    PROVE  IInv'
<1>0. /\ c \in Actors /\ calls \in [Actors -> Call] /\ calls[c] \in Call
      /\ calls[c].pc = "brief"
      /\ calls[c].gen \in 1 .. used /\ calls[c].gen \in Generations
  BY ActorFacts, NamedFacts DEF PostRefused, At, IInv, Types, Chosen
<1>1. Sound(c)
    <2>1. Moved(c)
      BY <1>0, CallFacts, RowFacts DEF PostRefused, Goto, At, Moved, Call, NoCall, IInv, Types
    <2>2. LockFollows(c)
      BY <1>0 DEF PostRefused, Goto, At, LockFollows, NoCall
    <2>3. /\ calls'[c].pc \notin {"opening", "created"}
          /\ calls'[c].pc \notin {"idle", "spawn"} => calls'[c].gen \in 1 .. used
      BY <1>0 DEF PostRefused, Goto, At, NoCall
    <2>4. Justified(c)
      BY <1>0 DEF PostRefused, Goto, At, Justified, NoCall, IInv, BriefsJustified
    <2> QED  BY <2>1, <2>2, <2>3, <2>4 DEF Sound
<1>2. CatalogKept
  BY DEF PostRefused, CatalogKept
<1>3. /\ UNCHANGED <<births, sweep, stamp, briefs>>
      /\ panes' \subseteq 1 .. used /\ faults' \in 0 .. MaxFaults
  BY <1>0, SeatAssumption DEF PostRefused, IInv, Types, births, sweep
<1> QED  BY <1>0, <1>1, <1>2, <1>3, CallStep

LEMMA BindKeeps ==
    ASSUME IInv, NEW c \in Callers, Bind(c)
    PROVE  IInv'
<1>0. /\ c \in Actors /\ calls \in [Actors -> Call] /\ calls[c] \in Call
      /\ calls[c].pc = "bind"
      /\ calls[c].gen \in 1 .. used /\ calls[c].gen \in Generations
  BY ActorFacts, NamedFacts DEF Bind, At, IInv, Types, Chosen
<1>1. Sound(c)
  <2>1. CASE Return(c)
    BY <2>1, <1>0, ReturnSound
  <2>2. CASE Goto(c, "evidence") /\ UNCHANGED seatLock
      <3>1. Moved(c)
        BY <2>2, <1>0, CallFacts, RowFacts DEF Bind, Goto, At, Moved, Call, NoCall, IInv, Types
      <3>2. LockFollows(c)
        BY <2>2, <1>0 DEF Bind, Goto, At, LockFollows, NoCall
      <3>3. /\ calls'[c].pc \notin {"opening", "created"}
            /\ calls'[c].pc \notin {"idle", "spawn"} => calls'[c].gen \in 1 .. used
        BY <2>2, <1>0 DEF Bind, Goto, At, NoCall
      <3>4. Justified(c)
        BY <2>2, <1>0 DEF Bind, Goto, At, Justified, NoCall, IInv, BriefsJustified
      <3> QED  BY <3>1, <3>2, <3>3, <3>4 DEF Sound
  <2> QED  BY <2>1, <2>2 DEF Bind
<1>2. CatalogKept
  BY <1>0, MutateKept, RowFacts DEF Bind, IInv, Types
<1>3. /\ UNCHANGED <<births, sweep, stamp, briefs>>
      /\ panes' \subseteq 1 .. used /\ faults' \in 0 .. MaxFaults
  BY <1>0, SeatAssumption DEF Bind, IInv, Types, births, sweep
<1> QED  BY <1>0, <1>1, <1>2, <1>3, CallStep

LEMMA ReadOccupantKeeps ==
    ASSUME IInv, NEW c \in Callers, ReadOccupant(c)
    PROVE  IInv'
<1>0. /\ c \in Actors /\ calls \in [Actors -> Call] /\ calls[c] \in Call
      /\ calls[c].pc = "evidence"
      /\ calls[c].gen \in 1 .. used /\ calls[c].gen \in Generations
  BY ActorFacts, NamedFacts DEF ReadOccupant, At, IInv, Types, Chosen
<1>1. Sound(c)
  <2>1. CASE Retry(c)
    BY <2>1, <1>0, RetrySound DEF At
  <2>2. CASE ~Retry(c)
    <3>1. /\ calls' = [calls EXCEPT ![c].pc = "weigh", ![c].copy = rows[calls[c].gen]]
          /\ UNCHANGED seatLock
      BY <2>2 DEF ReadOccupant
    <3>2. rows[calls[c].gen] \in Row
      BY <1>0 DEF IInv, Types
    <3>3. Moved(c)
      BY <3>1, <3>2, <1>0 DEF Moved, Call
    <3>4. calls'[c].gen = calls[c].gen /\ calls'[c].pc = "weigh"
      BY <3>1, <1>0 DEF Call
    <3> QED  BY <3>1, <3>3, <3>4, <1>0 DEF Sound, LockFollows, Justified
  <2> QED  BY <2>1, <2>2
<1>2. CatalogKept
  BY DEF ReadOccupant, CatalogKept
<1>3. /\ UNCHANGED <<births, sweep, stamp, briefs>>
      /\ panes' \subseteq 1 .. used /\ faults' \in 0 .. MaxFaults
  BY <1>0, SeatAssumption DEF ReadOccupant, IInv, Types, births, sweep
<1> QED  BY <1>0, <1>1, <1>2, <1>3, CallStep

LEMMA EvidenceRefusedKeeps ==
    ASSUME IInv, NEW c \in Callers, EvidenceRefused(c)
    PROVE  IInv'
<1>0. /\ c \in Actors /\ calls \in [Actors -> Call] /\ calls[c] \in Call
      /\ calls[c].pc \in {"evidence", "weigh", "repair"}
  BY ActorFacts DEF EvidenceRefused, At, IInv, Types
<1>1. Sound(c)
  BY <1>0, ReturnSound DEF EvidenceRefused
<1>2. CatalogKept
  BY DEF EvidenceRefused, CatalogKept
<1>3. /\ UNCHANGED <<births, sweep, stamp, briefs>>
      /\ panes' \subseteq 1 .. used /\ faults' \in 0 .. MaxFaults
  BY <1>0, SeatAssumption DEF EvidenceRefused, IInv, Types, births, sweep
<1> QED  BY <1>0, <1>1, <1>2, <1>3, CallStep

LEMMA WeighKeeps ==
    ASSUME IInv, NEW c \in Callers, Weigh(c)
    PROVE  IInv'
<1>0. /\ c \in Actors /\ calls \in [Actors -> Call] /\ calls[c] \in Call
      /\ calls[c].pc = "weigh"
      /\ calls[c].gen \in 1 .. used /\ calls[c].gen \in Generations
  BY ActorFacts, NamedFacts DEF Weigh, At, IInv, Types, Chosen
<1>1. Sound(c)
  <2>1. CASE Return(c)
    BY <2>1, <1>0, ReturnSound
  <2>2. CASE ~Return(c)
    <3>1. \/ /\ Close(c)
             /\ briefs[calls[c].gen] # "open" /\ calls[c].gen \in dispatched
          \/ /\ calls' = [calls EXCEPT ![c].pc = "repair", ![c].copy = NoRow,
                                      ![c].viable = (briefs[calls[c].gen] \in {"open", "back"})]
             /\ UNCHANGED seatLock
             /\ calls[c].gen \in dispatched
      BY <2>2, <1>0 DEF Weigh, IInv, BriefsJustified
    <3>2. Moved(c)
      BY <3>1, <1>0, RowFacts DEF Close, Moved, Call
    <3>3. /\ UNCHANGED seatLock
          /\ calls'[c].gen = calls[c].gen /\ calls[c].gen \in dispatched
          /\ \/ calls'[c].pc = "close" /\ briefs[calls[c].gen] # "open"
             \/ calls'[c].pc = "repair" /\ calls'[c].viable = (briefs[calls[c].gen] \in {"open", "back"})
      BY <3>1, <1>0 DEF Close, Call
    <3> QED  BY <3>2, <3>3, <1>0 DEF Sound, LockFollows, Justified
  <2> QED  BY <2>1, <2>2
<1>2. CatalogKept
  BY DEF Weigh, CatalogKept
<1>3. /\ UNCHANGED <<births, sweep, stamp, briefs>>
      /\ panes' \subseteq 1 .. used /\ faults' \in 0 .. MaxFaults
  BY <1>0, SeatAssumption DEF Weigh, IInv, Types, births, sweep
<1> QED  BY <1>0, <1>1, <1>2, <1>3, CallStep

LEMMA RepairKeeps ==
    ASSUME IInv, NEW c \in Callers, Repair(c)
    PROVE  IInv'
<1>0. /\ c \in Actors /\ calls \in [Actors -> Call] /\ calls[c] \in Call
      /\ calls[c].pc = "repair"
      /\ calls[c].gen \in 1 .. used /\ calls[c].gen \in Generations
  BY ActorFacts, NamedFacts DEF Repair, At, IInv, Types, Chosen
<1>1. Sound(c)
  <2>1. CASE Return(c)
    BY <2>1, <1>0, ReturnSound
  <2>2. CASE ~Return(c)
    <3>1. Close(c) /\ ~calls[c].viable
      BY <2>2 DEF Repair
    <3>2. Moved(c)
      BY <3>1, <1>0, RowFacts DEF Close, Moved, Call
    <3>3. UNCHANGED seatLock /\ calls'[c].gen = calls[c].gen /\ calls'[c].pc = "close"
      BY <3>1, <1>0 DEF Close, Call
    <3>4. briefs[calls[c].gen] # "open" /\ calls[c].gen \in dispatched
      BY <3>1, <1>0 DEF IInv, BriefsJustified
    <3> QED  BY <3>2, <3>3, <3>4, <1>0 DEF Sound, LockFollows, Justified
  <2> QED  BY <2>1, <2>2
<1>2. CatalogKept
  BY <1>0, MutateKept, RowFacts DEF Repair, IInv, Types
<1>3. /\ UNCHANGED <<births, sweep, stamp, briefs>>
      /\ panes' \subseteq 1 .. used /\ faults' \in 0 .. MaxFaults
  BY <1>0, SeatAssumption DEF Repair, IInv, Types, births, sweep
<1> QED  BY <1>0, <1>1, <1>2, <1>3, CallStep

LEMMA ReadGenerationKeeps ==
    ASSUME IInv, NEW c \in Callers, ReadGeneration(c)
    PROVE  IInv'
<1>0. /\ c \in Actors /\ calls \in [Actors -> Call] /\ calls[c] \in Call
      /\ calls[c].pc = "close"
      /\ calls[c].gen \in 1 .. used /\ calls[c].gen \in Generations
  BY ActorFacts, NamedFacts DEF ReadGeneration, At, IInv, Types, Chosen
<1>1. Sound(c)
  <2>1. CASE Return(c)
    BY <2>1, <1>0, ReturnSound
  <2>2. CASE Retry(c)
    BY <2>2, <1>0, RetrySound DEF At
  <2>3. CASE ~Return(c) /\ ~Retry(c)
    <3>1. /\ calls' = [calls EXCEPT ![c].pc = "stop", ![c].copy = rows[calls[c].gen]]
          /\ UNCHANGED seatLock
      BY <2>3 DEF ReadGeneration
    <3>2. rows[calls[c].gen] \in Row
      BY <1>0 DEF IInv, Types
    <3>3. Moved(c)
      BY <3>1, <3>2, <1>0 DEF Moved, Call
    <3>4. calls'[c].gen = calls[c].gen /\ calls'[c].pc = "stop"
      BY <3>1, <1>0 DEF Call
    <3>5. briefs[calls[c].gen] # "open" /\ calls[c].gen \in dispatched
      BY <1>0 DEF IInv, BriefsJustified
    <3> QED  BY <3>1, <3>3, <3>4, <3>5, <1>0 DEF Sound, LockFollows, Justified
  <2> QED  BY <2>1, <2>2, <2>3
<1>2. CatalogKept
  BY DEF ReadGeneration, CatalogKept
<1>3. /\ UNCHANGED <<births, sweep, stamp, briefs>>
      /\ panes' \subseteq 1 .. used /\ faults' \in 0 .. MaxFaults
  BY <1>0, SeatAssumption DEF ReadGeneration, IInv, Types, births, sweep
<1> QED  BY <1>0, <1>1, <1>2, <1>3, CallStep

LEMMA RequestOpenKeeps ==
    ASSUME IInv, RequestOpen
    PROVE  IInv'
<1>0. /\ Operator \in Actors /\ calls \in [Actors -> Call] /\ calls[Operator] \in Call
      /\ calls[Operator].pc = "idle"
  BY ActorFacts DEF RequestOpen, Request, At, IInv, Types
<1>1. Sound(Operator)
    <2>1. Moved(Operator)
      BY <1>0, CallFacts, RowFacts DEF RequestOpen, Request, At, Moved, Call, NoCall, IInv, Types
    <2>2. LockFollows(Operator)
      BY <1>0 DEF RequestOpen, Request, At, LockFollows, NoCall
    <2>3. /\ calls'[Operator].pc \notin {"opening", "created"}
          /\ calls'[Operator].pc \notin {"idle", "spawn"} => calls'[Operator].gen \in 1 .. used
      BY <1>0 DEF RequestOpen, Request, At, NoCall
    <2> QED  BY <2>1, <2>2, <2>3, ActorFacts DEF Sound
<1>2. CatalogKept
  BY DEF RequestOpen, CatalogKept
<1>3. /\ UNCHANGED <<births, sweep, stamp, briefs>>
      /\ panes' \subseteq 1 .. used /\ faults' \in 0 .. MaxFaults
  BY <1>0, SeatAssumption DEF RequestOpen, Request, Fault, IInv, Types, births, sweep
<1> QED  BY <1>0, <1>1, <1>2, <1>3, CallStep

LEMMA RequestCloseKeeps ==
    ASSUME IInv, NEW g \in Generations, RequestClose(g)
    PROVE  IInv'
<1>0. /\ Operator \in Actors /\ calls \in [Actors -> Call] /\ calls[Operator] \in Call
      /\ calls[Operator].pc = "idle"
  BY ActorFacts DEF RequestClose, Request, At, IInv, Types
<1>1. Sound(Operator)
  <2>1. PICK new \in {[NoCall EXCEPT !.pc = "kill", !.gen = g],
                      [NoCall EXCEPT !.pc = "stop", !.gen = g, !.copy = rows[g]]} :
           calls' = [calls EXCEPT ![Operator] = new]
    BY DEF RequestClose, Request
  <2>2. rows[g] \in Row /\ g \in 1 .. used
    BY SeatAssumption DEF RequestClose, IInv, Types, Numbered, Generations
  <2>3. NoCall \in Call
    BY <1>0, CallFacts, RowFacts
  <2>4. new \in Call /\ new.gen = g /\ new.pc \in {"kill", "stop"}
    BY <2>1, <2>2, <2>3 DEF Call, NoCall
  <2>5. Moved(Operator) /\ calls'[Operator] = new
    BY <2>1, <2>4, <1>0 DEF Moved
  <2>6. LockFollows(Operator)
    BY DEF RequestClose, LockFollows
  <2> QED  BY <2>2, <2>4, <2>5, <2>6, ActorFacts DEF Sound
<1>2. CatalogKept
  BY DEF RequestClose, CatalogKept
<1>3. /\ UNCHANGED <<births, sweep, stamp, briefs>>
      /\ panes' \subseteq 1 .. used /\ faults' \in 0 .. MaxFaults
  BY <1>0, SeatAssumption DEF RequestClose, Request, Fault, IInv, Types, births, sweep
<1> QED  BY <1>0, <1>1, <1>2, <1>3, CallStep

LEMMA AttachProbeKeeps ==
    ASSUME IInv, NEW g \in Generations, AttachProbe(g)
    PROVE  IInv'
<1>0. /\ Operator \in Actors /\ calls \in [Actors -> Call] /\ calls[Operator] \in Call
      /\ calls[Operator].pc = "idle"
  BY ActorFacts DEF AttachProbe, Request, At, IInv, Types
<1>1. Sound(Operator)
  <2>1. PICK new \in {[NoCall EXCEPT !.pc = "attach", !.gen = g], NoCall} :
           calls' = [calls EXCEPT ![Operator] = new]
    BY DEF AttachProbe, Request
  <2>2. g \in 1 .. used
    BY SeatAssumption DEF AttachProbe, IInv, Types, Numbered, Generations
  <2>3. NoCall \in Call
    BY <1>0, CallFacts, RowFacts
  <2>4. new \in Call /\ (new.pc # "idle" => new.gen = g /\ new.pc = "attach")
    BY <2>1, <2>3 DEF Call, NoCall
  <2>5. Moved(Operator) /\ calls'[Operator] = new
    BY <2>1, <2>4, <1>0 DEF Moved
  <2>6. LockFollows(Operator)
    BY DEF AttachProbe, LockFollows
  <2> QED  BY <2>2, <2>4, <2>5, <2>6, ActorFacts DEF Sound
<1>2. CatalogKept
  BY MutateKept, ObservedFacts DEF AttachProbe, IInv, Types
<1>3. /\ UNCHANGED <<births, sweep, stamp, briefs>>
      /\ panes' \subseteq 1 .. used /\ faults' \in 0 .. MaxFaults
  BY <1>0, SeatAssumption DEF AttachProbe, Request, Fault, IInv, Types, births, sweep
<1> QED  BY <1>0, <1>1, <1>2, <1>3, CallStep

LEMMA AttachClientKeeps ==
    ASSUME IInv, AttachClient
    PROVE  IInv'
<1>0. /\ Operator \in Actors /\ calls \in [Actors -> Call] /\ calls[Operator] \in Call
      /\ calls[Operator].pc = "attach"
      /\ calls[Operator].gen \in 1 .. used /\ calls[Operator].gen \in Generations
  BY ActorFacts, NamedFacts DEF AttachClient, At, IInv, Types, Chosen
<1>1. Sound(Operator)
    <2>1. Moved(Operator)
      BY <1>0, CallFacts, RowFacts DEF AttachClient, Goto, At, Moved, Call, NoCall, IInv, Types
    <2>2. LockFollows(Operator)
      BY <1>0 DEF AttachClient, Goto, At, LockFollows, NoCall
    <2>3. /\ calls'[Operator].pc \notin {"opening", "created"}
          /\ calls'[Operator].pc \notin {"idle", "spawn"} => calls'[Operator].gen \in 1 .. used
      BY <1>0 DEF AttachClient, Goto, At, NoCall
    <2> QED  BY <2>1, <2>2, <2>3, ActorFacts DEF Sound
<1>2. CatalogKept
  BY DEF AttachClient, CatalogKept
<1>3. /\ UNCHANGED <<births, sweep, stamp, briefs>>
      /\ panes' \subseteq 1 .. used /\ faults' \in 0 .. MaxFaults
  BY <1>0, SeatAssumption DEF AttachClient, IInv, Types, births, sweep
<1> QED  BY <1>0, <1>1, <1>2, <1>3, CallStep

LEMMA MarkAttachedKeeps ==
    ASSUME IInv, MarkAttached
    PROVE  IInv'
<1>0. /\ Operator \in Actors /\ calls \in [Actors -> Call] /\ calls[Operator] \in Call
      /\ calls[Operator].pc = "attached"
      /\ calls[Operator].gen \in 1 .. used /\ calls[Operator].gen \in Generations
  BY ActorFacts, NamedFacts DEF MarkAttached, At, IInv, Types, Chosen
<1>1. Sound(Operator)
    <2>1. Moved(Operator)
      BY <1>0, CallFacts, RowFacts DEF MarkAttached, Goto, At, Moved, Call, NoCall, IInv, Types
    <2>2. LockFollows(Operator)
      BY <1>0 DEF MarkAttached, Goto, At, LockFollows, NoCall
    <2>3. /\ calls'[Operator].pc \notin {"opening", "created"}
          /\ calls'[Operator].pc \notin {"idle", "spawn"} => calls'[Operator].gen \in 1 .. used
      BY <1>0 DEF MarkAttached, Goto, At, NoCall
    <2> QED  BY <2>1, <2>2, <2>3, ActorFacts DEF Sound
<1>2. CatalogKept
  BY <1>0, MutateKept, RowFacts DEF MarkAttached, IInv, Types
<1>3. /\ UNCHANGED <<births, sweep, stamp, briefs>>
      /\ panes' \subseteq 1 .. used /\ faults' \in 0 .. MaxFaults
  BY <1>0, SeatAssumption DEF MarkAttached, IInv, Types, births, sweep
<1> QED  BY <1>0, <1>1, <1>2, <1>3, CallStep

LEMMA ClientEndsKeeps ==
    ASSUME IInv, ClientEnds
    PROVE  IInv'
<1>0. /\ Operator \in Actors /\ calls \in [Actors -> Call] /\ calls[Operator] \in Call
      /\ calls[Operator].pc = "serving"
      /\ calls[Operator].gen \in 1 .. used /\ calls[Operator].gen \in Generations
  BY ActorFacts, NamedFacts DEF ClientEnds, At, IInv, Types, Chosen
<1>1. Sound(Operator)
  BY <1>0, ReturnSound DEF ClientEnds
<1>2. CatalogKept
  BY <1>0, MutateKept, RowFacts DEF ClientEnds, IInv, Types, CatalogKept
<1>3. /\ UNCHANGED <<births, sweep, stamp, briefs>>
      /\ panes' \subseteq 1 .. used /\ faults' \in 0 .. MaxFaults
  BY <1>0, SeatAssumption DEF ClientEnds, IInv, Types, births, sweep
<1> QED  BY <1>0, <1>1, <1>2, <1>3, CallStep

-----------------------------------------------------------------------------
(* Steps that move no call.                                                *)

LEMMA QuietStep ==
    ASSUME IInv, CatalogKept, UNCHANGED <<calls, seatLock, births>>,
           panes' \subseteq 1 .. used, faults' \in 0 .. MaxFaults,
           phase' \in {"idle", "looking", "compact"}, phase = "looking" <=> phase' = "looking",
           todo' \subseteq Generations,
           stamp' \in [gen : {0} \cup Generations, row : Row], stamp'.gen \in 0 .. used,
           briefs' \in [Generations -> {"none", "open", "failed", "gone", "back"}],
           \A g \in Generations : /\ briefs'[g] # "none" => briefs[g] # "none"
                                  /\ briefs'[g] = "open" => briefs[g] = "open"
    PROVE  IInv'
<1>1. Types'
  BY CatalogKeeps DEF IInv, Types, births
<1>2. Locks'
  BY CatalogKeeps DEF IInv, Locks, At
<1>3. Numbered'
  <2>1. \A b \in Actors : At(b, "created") => rows'[calls[b].gen].status = "none"
    <3> TAKE b \in Actors
    <3> HAVE At(b, "created")
    <3>1. catalogLock # Nobody
      BY ActorFacts DEF IInv, Locks
    <3> QED  BY <3>1, CatalogKeeps DEF IInv, Numbered
  <2> QED  BY <2>1, CatalogKeeps DEF IInv, Numbered, births, At, Chosen
<1>4. SeatVacated'
  BY CatalogKeeps DEF IInv, SeatVacated, At
<1>5. BufferTracks'
  BY CatalogKeeps DEF IInv, BufferTracks
<1>6. BriefsJustified'
  <2>1. \A c \in Callers : calls[c].pc \in {"repair", "close", "stop", "kill", "mark"} =>
           calls[c].gen \in Generations
    BY NamedFacts, ActorFacts DEF Chosen
  <2> QED  BY <2>1 DEF IInv, BriefsJustified, births
<1>7. OneOccupant'
  BY CatalogKeeps
<1> QED  BY <1>1, <1>2, <1>3, <1>4, <1>5, <1>6, <1>7 DEF IInv

\* What a step that leaves them alone owes to the invariant.
LEMMA Unmoved ==
    ASSUME IInv
    PROVE  /\ panes \subseteq 1 .. used /\ faults \in 0 .. MaxFaults /\ todo \subseteq Generations
           /\ phase \in {"idle", "looking", "compact"}
           /\ stamp \in [gen : {0} \cup Generations, row : Row] /\ stamp.gen \in 0 .. used
           /\ briefs \in [Generations -> {"none", "open", "failed", "gone", "back"}]
           /\ rows \in [Generations -> Row]
BY DEF IInv, Types, Numbered

LEMMA FaultFacts ==
    ASSUME IInv, Fault
    PROVE  faults' \in 0 .. MaxFaults
BY SeatAssumption DEF IInv, Types, Fault

LEMMA LandKeeps ==
    ASSUME IInv, NEW g \in Generations, Land(g)
    PROVE  IInv'
<1>1. CatalogKept
  BY Unmoved, MutateKept, RowFacts DEF Land
<1> QED  BY <1>1, Unmoved, FaultFacts, QuietStep DEF Land, sweep

LEMMA StampReadKeeps ==
    ASSUME IInv, NEW g \in Generations, StampRead(g)
    PROVE  IInv'
<1>1. g \in 0 .. used
  BY SeatAssumption DEF StampRead, IInv, Types, Numbered, Generations
<1>2. stamp' \in [gen : {0} \cup Generations, row : Row] /\ stamp'.gen \in 0 .. used
  BY <1>1, Unmoved DEF StampRead
<1> QED  BY <1>2, Unmoved, FaultFacts, QuietStep DEF StampRead, sweep, CatalogKept

LEMMA StampWriteKeeps ==
    ASSUME IInv, StampWrite
    PROVE  IInv'
<1>1. CASE stamp.gen = 0
  <2>1. rows' = rows /\ returned' = returned
    BY <1>1, Unmoved DEF StampWrite, Upsert, Commit, Generations, IInv, Types
  <2>2. CatalogKept
    BY <2>1 DEF StampWrite, Upsert, CatalogKept, catalog
  <2>3. stamp' \in [gen : {0} \cup Generations, row : Row] /\ stamp'.gen \in 0 .. used
    BY NoCallFacts, SeatAssumption DEF StampWrite, NoStamp, IInv, Types
  <2> QED  BY <2>2, <2>3, Unmoved, QuietStep DEF StampWrite, sweep
<1>2. CASE stamp.gen # 0
  <2>1. stamp.gen \in 1 .. used /\ stamp.row \in Row
    BY <1>2, Unmoved, SeatAssumption DEF IInv, Types
  <2>2. CatalogKept
    BY <2>1, UpsertKept DEF StampWrite
  <2>3. stamp' \in [gen : {0} \cup Generations, row : Row] /\ stamp'.gen \in 0 .. used
    BY NoCallFacts, SeatAssumption DEF StampWrite, NoStamp, IInv, Types
  <2> QED  BY <2>2, <2>3, Unmoved, QuietStep DEF StampWrite, sweep
<1> QED  BY <1>1, <1>2

LEMMA CompactKeeps ==
    ASSUME IInv, Compact
    PROVE  IInv'
<1>1. PICK gone \in SUBSET {g \in Generations : rows[g].status = "terminated"} :
         Commit([g \in Generations |-> IF g \in gone THEN NoRow ELSE rows[g]], {})
  BY DEF Compact
<1> DEFINE new == [g \in Generations |-> IF g \in gone THEN NoRow ELSE rows[g]]
<1>2. new \in [Generations -> Row] /\ \A g \in Generations : g > used => new[g].status = "none"
  BY NoCallFacts, Unmoved DEF IInv, Numbered, NoRow
<1>3. CatalogKept
  BY <1>1, <1>2 DEF Compact, CatalogKept
<1> QED  BY <1>3, Unmoved, QuietStep DEF Compact

LEMMA PaneExitsKeeps ==
    ASSUME IInv, NEW g \in Generations, PaneExits(g)
    PROVE  IInv'
<1>1. panes' \subseteq 1 .. used
  BY Unmoved DEF PaneExits
<1> QED  BY <1>1, Unmoved, QuietStep DEF PaneExits, sweep, CatalogKept

LEMMA BriefMovesKeeps ==
    ASSUME IInv, NEW g \in Generations, BriefMoves(g)
    PROVE  IInv'
<1>1. /\ briefs' \in [Generations -> {"none", "open", "failed", "gone", "back"}]
      /\ \A h \in Generations : /\ briefs'[h] # "none" => briefs[h] # "none"
                                /\ briefs'[h] = "open" => briefs[h] = "open"
  BY Unmoved DEF BriefMoves
<1> QED  BY <1>1, Unmoved, QuietStep DEF BriefMoves, sweep, CatalogKept

LEMMA BriefReturnsKeeps ==
    ASSUME IInv, NEW g \in Generations, BriefReturns(g)
    PROVE  IInv'
<1>1. /\ briefs' \in [Generations -> {"none", "open", "failed", "gone", "back"}]
      /\ \A h \in Generations : /\ briefs'[h] # "none" => briefs[h] # "none"
                                /\ briefs'[h] = "open" => briefs[h] = "open"
  BY Unmoved DEF BriefReturns
<1> QED  BY <1>1, Unmoved, FaultFacts, QuietStep DEF BriefReturns, sweep, CatalogKept

-----------------------------------------------------------------------------
(* Steps inside a batch.                                                   *)

\* Whoever is inside a batch is alone there.
LEMMA HolderFacts ==
    ASSUME IInv
    PROVE  /\ Unlocked => /\ phase # "looking"
                          /\ \A b \in Actors : calls[b].pc \notin {"opening", "created"}
           /\ \A a \in Actors : calls[a].pc \in {"opening", "created"} =>
                 /\ catalogLock = a /\ catalogLock # Nobody /\ phase # "looking"
                 /\ \A b \in Actors : b # a => calls[b].pc \notin {"opening", "created"}
           /\ phase = "looking" =>
                 /\ catalogLock = Sweeper /\ catalogLock # Nobody
                 /\ \A b \in Actors : calls[b].pc \notin {"opening", "created"}
BY ActorFacts DEF IInv, Locks, At, Unlocked

\* The buffer as it is, or no buffer.
LEMMA BufferFacts ==
    ASSUME IInv
    PROVE  /\ batch \in [Generations -> Row]
           /\ [g \in Generations |-> NoRow] \in [Generations -> Row]
           /\ \A g \in Generations : g > used => batch[g].status = "none"
BY NoCallFacts DEF IInv, Types, Numbered

\* The end of a batch that adds no row.
LEMMA EndFacts ==
    ASSUME IInv, EndBatch(batch, {})
    PROVE  /\ rows' \in [Generations -> Row] /\ batch' \in [Generations -> Row]
           /\ catalogLock' = Nobody /\ returned' \subseteq Generations
           /\ \A g \in Generations : /\ g > used => rows'[g].status = "none"
                                     /\ batch'[g] = NoRow
           /\ OneOccupant'
<1>1. OneOccupant'
  BY CommitFacts DEF EndBatch, IInv
<1>2. rows' = batch /\ returned' \subseteq Generations
  BY DEF EndBatch, Commit, IInv, Types
<1> QED  BY <1>1, <1>2, BufferFacts DEF EndBatch

LEMMA OpenFailsKeeps ==
    ASSUME IInv, NEW a \in Actors, OpenFails(a)
    PROVE  IInv'
<1>0. EndBatch(batch, {}) /\ calls[a].pc \in {"opening", "created"} /\ Return(a)
  BY DEF OpenFails, At
<1>1. Sound(a) /\ calls'[a].pc = "idle"
  BY <1>0, ReturnSound, NoCallFacts DEF Return, IInv, Types
<1>2. Types'
  BY <1>0, <1>1, EndFacts DEF OpenFails, IInv, Types, births, sweep, Sound, Moved
<1>3. \A b \in Actors : calls'[b].pc \notin {"opening", "created"}
  BY <1>0, <1>1, HolderFacts DEF Sound, Moved
<1>4. Locks'
  <2>1. \A c \in Callers : seatLock' = c <=> calls'[c].pc # "idle"
    BY <1>0, <1>1, ActorFacts DEF Sound, Moved, Return, IInv, Locks, At
  <2>2. seatLock' # Operator /\ catalogLock' = Nobody /\ phase' # "looking"
    BY <1>0, ActorFacts, EndFacts, HolderFacts, SeatAssumption
       DEF OpenFails, sweep, Return, IInv, Locks
  <2> QED  BY <2>1, <2>2, <1>3, ActorFacts DEF Locks, At
<1>5. Numbered'
  BY <1>0, <1>1, <1>3, EndFacts, NoCallFacts
     DEF OpenFails, births, IInv, Numbered, Chosen, At, Sound, Moved, NoRow
<1>6. SeatVacated' /\ BufferTracks'
  BY <1>0, <1>3, EndFacts DEF SeatVacated, BufferTracks, At
<1>7. BriefsJustified'
  BY <1>0, <1>1, ActorFacts DEF OpenFails, births, IInv, BriefsJustified, Sound, Moved
<1> QED  BY <1>0, <1>2, <1>4, <1>5, <1>6, <1>7, EndFacts DEF IInv

LEMMA SweepCommitKeeps ==
    ASSUME IInv, SweepCommit
    PROVE  IInv'
<1>0. EndBatch(batch, {}) /\ phase = "looking"
  BY DEF SweepCommit
<1>1. Types'
  BY <1>0, EndFacts DEF SweepCommit, IInv, Types, births
<1>2. \A b \in Actors : calls'[b].pc \notin {"opening", "created"}
  BY <1>0, HolderFacts DEF SweepCommit
<1>3. Locks'
  BY <1>0, <1>2, EndFacts, ActorFacts DEF SweepCommit, IInv, Locks, At
<1>4. Numbered'
  BY <1>0, <1>2, EndFacts DEF SweepCommit, births, IInv, Numbered, Chosen, At, NoRow
<1>5. SeatVacated' /\ BufferTracks'
  BY <1>0, <1>2, EndFacts DEF SeatVacated, BufferTracks, At
<1>6. BriefsJustified'
  BY DEF SweepCommit, births, IInv, BriefsJustified
<1> QED  BY <1>0, <1>1, <1>3, <1>4, <1>5, <1>6, EndFacts DEF IInv

LEMMA SweepStartKeeps ==
    ASSUME IInv, SweepStart
    PROVE  IInv'
<1>0. /\ Unlocked /\ catalogLock' = Sweeper /\ batch' = rows /\ UNCHANGED <<rows, returned>>
      /\ phase' = "looking" /\ todo' \subseteq Generations
      /\ UNCHANGED <<seatLock, births, panes, briefs, calls, stamp, faults>>
  BY DEF SweepStart, BeginBatch
<1>1. Types'
  BY <1>0 DEF IInv, Types, births
<1>2. \A b \in Actors : calls'[b].pc \notin {"opening", "created"}
  BY <1>0, HolderFacts
<1>3. Locks'
  BY <1>0, <1>2, ActorFacts DEF IInv, Locks, At
<1>4. Numbered'
  BY <1>0 DEF births, IInv, Numbered, Chosen, At
<1>5. SeatVacated' /\ BufferTracks'
  BY <1>0, <1>2 DEF SeatVacated, BufferTracks, LivenessOnly, At
<1>6. BriefsJustified'
  BY <1>0 DEF births, IInv, BriefsJustified
<1>7. OneOccupant'
  BY <1>0, SameOccupants DEF IInv
<1> QED  BY <1>1, <1>3, <1>4, <1>5, <1>6, <1>7 DEF IInv

LEMMA SweepLookKeeps ==
    ASSUME IInv, NEW g \in Generations, SweepLook(g)
    PROVE  IInv'
<1>0. PICK evidence \in Evidence, elapsed \in BOOLEAN :
         Probe(g, evidence) /\ batch' = [batch EXCEPT ![g] = Observed(@, evidence, elapsed)]
  BY DEF SweepLook
<1>a. /\ phase = "looking" /\ UNCHANGED <<rows, catalogLock, returned, seatLock, births>>
      /\ UNCHANGED <<panes, briefs, calls, phase, stamp>> /\ todo' \subseteq todo
  BY DEF SweepLook
<1>b. faults' \in 0 .. MaxFaults
  BY <1>0, Unmoved, FaultFacts DEF Probe
<1>c. /\ batch \in [Generations -> Row] /\ batch' \in [Generations -> Row]
      /\ LivenessOnly(batch[g], batch'[g])
      /\ \A h \in Generations : h # g => batch'[h] = batch[h]
  BY <1>0, ObservedFacts, BufferFacts
<1>1. Types'
  BY <1>a, <1>b, <1>c DEF IInv, Types, births
<1>2. \A b \in Actors : calls'[b].pc \notin {"opening", "created"}
  BY <1>a, HolderFacts
<1>3. Locks'
  BY <1>a DEF IInv, Locks, At
<1>4. Numbered'
  <2>1. \A h \in Generations : h > used => batch'[h].status = "none"
    BY <1>c, BufferFacts DEF LivenessOnly
  <2> QED  BY <1>a, <2>1 DEF births, IInv, Numbered, Chosen, At
<1>5. SeatVacated'
  BY <1>2 DEF SeatVacated, At
<1>6. BufferTracks'
  <2>1. \A h \in Generations : LivenessOnly(rows[h], batch[h])
    BY <1>a, HolderFacts DEF IInv, BufferTracks
  <2>2. LivenessOnly(rows[g], batch'[g])
    BY <1>c, <2>1 DEF LivenessOnly
  <2> QED  BY <1>a, <1>c, <2>1, <2>2 DEF BufferTracks
<1>7. BriefsJustified'
  BY <1>a DEF births, IInv, BriefsJustified
<1>8. OneOccupant'
  BY <1>a, SameOccupants DEF IInv
<1> QED  BY <1>1, <1>3, <1>4, <1>5, <1>6, <1>7, <1>8 DEF IInv

LEMMA BeginOpenKeeps ==
    ASSUME IInv, NEW a \in Actors, BeginOpen(a)
    PROVE  IInv'
<1>0. /\ calls[a].pc = "spawn" /\ calls' = [calls EXCEPT ![a].pc = "opening"]
      /\ calls \in [Actors -> Call] /\ calls[a] \in Call
      /\ Unlocked /\ catalogLock' = a /\ UNCHANGED <<rows, returned, seatLock>>
      /\ UNCHANGED <<births, panes, briefs, sweep, stamp>>
  BY DEF BeginOpen, BeginBatch, Goto, At, IInv, Types
<1>a. Moved(a) /\ calls'[a].pc = "opening"
  BY <1>0 DEF Moved, Call
<1> DEFINE Vacates ==
        /\ faults' \in 0 .. MaxFaults /\ batch' \in [Generations -> Row]
        /\ \A g \in Generations : LivenessOnly(rows[g], batch'[g]) /\ ~Running(batch'[g])
<1>b. Vacates
  <2>1. CASE Occupants(rows) = {} /\ BeginBatch(a, rows) /\ UNCHANGED faults
    BY <2>1, Unmoved DEF BeginBatch, Occupants, LivenessOnly
  <2>2. ASSUME NEW owner \in Generations, NEW evidence \in Evidence \ {"alive"},
               Occupants(rows) = {owner}, Probe(owner, evidence),
               BeginBatch(a, [rows EXCEPT ![owner] = WithExit(@)])
        PROVE  Vacates
    <3>1. faults' \in 0 .. MaxFaults
      BY <2>2, Unmoved, FaultFacts DEF Probe
    <3>2. rows[owner] \in Row /\ rows[owner].status = "running"
      BY <2>2, Unmoved DEF Occupants, Running
    <3>3. /\ WithExit(rows[owner]) \in Row /\ WithExit(rows[owner]).status = "exited"
          /\ WithExit(rows[owner]).receipt = rows[owner].receipt
      BY <3>2, RowFacts DEF WithExit, Row
    <3>4. batch' = [rows EXCEPT ![owner] = WithExit(rows[owner])]
      BY <2>2 DEF BeginBatch
    <3>5. \A g \in Generations : g # owner => ~Running(rows[g])
      BY <2>2 DEF Occupants
    <3>6. batch' \in [Generations -> Row]
      BY <3>3, <3>4, Unmoved
    <3>7. ASSUME NEW g \in Generations
          PROVE  LivenessOnly(rows[g], batch'[g]) /\ ~Running(batch'[g])
      BY <3>2, <3>3, <3>4, <3>5, Unmoved DEF LivenessOnly, Running
    <3> QED  BY <3>1, <3>6, <3>7
  <2> HIDE DEF Vacates
  <2> QED  BY <2>1, <2>2 DEF BeginOpen
<1>1. Types'
  BY <1>0, <1>a, <1>b DEF IInv, Types, births, sweep, Moved
<1>2. Locks'
  <2>1. \A c \in Callers : seatLock' = c <=> calls'[c].pc # "idle"
    BY <1>0, <1>a, ActorFacts DEF Moved, IInv, Locks, At
  <2>2. \A b \in Actors : catalogLock' = b <=> calls'[b].pc \in {"opening", "created"}
    BY <1>0, <1>a, HolderFacts DEF Moved
  <2>3. seatLock' # Operator /\ catalogLock' # Sweeper /\ phase' # "looking"
    BY <1>0, ActorFacts, HolderFacts DEF sweep, IInv, Locks
  <2> QED  BY <2>1, <2>2, <2>3 DEF Locks, At
<1>3. Numbered'
  <2>1. \A g \in Generations : g > used => batch'[g].status = "none"
    BY <1>b DEF IInv, Numbered, LivenessOnly
  <2> QED  BY <1>0, <1>a, <2>1 DEF IInv, Numbered, Chosen, At, births, Moved
<1>4. SeatVacated' /\ BufferTracks'
  BY <1>0, <1>b DEF SeatVacated, BufferTracks
<1>5. BriefsJustified'
  BY <1>0, <1>a, ActorFacts DEF births, IInv, BriefsJustified, Moved
<1>6. OneOccupant'
  BY <1>0, SameOccupants DEF IInv
<1> QED  BY <1>1, <1>2, <1>3, <1>4, <1>5, <1>6 DEF IInv

LEMMA CreatePaneKeeps ==
    ASSUME IInv, NEW a \in Actors, CreatePane(a)
    PROVE  IInv'
<1>0. /\ calls[a].pc = "opening" /\ calls \in [Actors -> Call] /\ calls[a] \in Call
      /\ calls' = [calls EXCEPT ![a].pc = "created", ![a].gen = used + 1]
      /\ UNCHANGED <<catalog, seatLock, dispatched, briefs, sweep, stamp, faults>>
  BY DEF CreatePane, At, IInv, Types
<1>a. /\ used \in Nat /\ used' = used + 1 /\ used' \in 0 .. MaxGenerations
      /\ used' \in Generations /\ used' > used
      /\ panes' \subseteq 1 .. used' /\ dispatched \subseteq 1 .. used'
  BY SeatAssumption DEF CreatePane, IInv, Types, Generations
<1>b. Moved(a) /\ calls'[a].pc = "created" /\ calls'[a].gen = used'
  BY <1>0, <1>a DEF Moved, Call
<1>1. Types'
  BY <1>0, <1>a, <1>b DEF IInv, Types, catalog, sweep, Moved
<1>2. Locks'
  <2>1. \A c \in Callers : seatLock' = c <=> calls'[c].pc # "idle"
    BY <1>0, <1>b, ActorFacts DEF Moved, IInv, Locks, At
  <2>2. \A b \in Actors : catalogLock' = b <=> calls'[b].pc \in {"opening", "created"}
    BY <1>0, <1>b DEF Moved, IInv, Locks, At, catalog
  <2> QED  BY <1>0, <2>1, <2>2 DEF catalog, sweep, IInv, Locks, At
<1>3. Numbered'
  <2>1. \A g \in Generations : g > used' => rows[g].status = "none" /\ batch[g].status = "none"
    BY <1>a, SeatAssumption DEF IInv, Numbered, Generations
  <2>2. \A b \in Actors : Chosen(b)' => calls'[b].gen \in 1 .. used'
    BY <1>a, <1>b DEF IInv, Numbered, Chosen, Moved
  <2>3. \A b \in Actors : calls'[b].pc = "created" => rows[calls'[b].gen].status = "none"
    BY <1>a, <1>b DEF IInv, Numbered, Moved, At
  <2>4. stamp.gen \in 0 .. used'
    BY <1>a DEF IInv, Numbered
  <2> QED  BY <1>0, <2>1, <2>2, <2>3, <2>4 DEF Numbered, At, catalog
<1>4. SeatVacated' /\ BufferTracks'
  BY <1>0, <1>b DEF IInv, SeatVacated, BufferTracks, catalog, At, Moved
<1>5. BriefsJustified'
  BY <1>0, <1>b, ActorFacts DEF IInv, BriefsJustified, Moved
<1>6. OneOccupant'
  BY <1>0, SameOccupants DEF IInv, catalog
<1> QED  BY <1>1, <1>2, <1>3, <1>4, <1>5, <1>6 DEF IInv

LEMMA CommitOpenKeeps ==
    ASSUME IInv, NEW a \in Actors, CommitOpen(a)
    PROVE  IInv'
<1> DEFINE g == calls[a].gen
<1>0. /\ calls[a].pc = "created" /\ calls \in [Actors -> Call] /\ calls[a] \in Call
      /\ g \in 1 .. used /\ g \in Generations
      /\ UNCHANGED <<used, panes, briefs, sweep, stamp, faults>>
  BY NamedFacts DEF CommitOpen, At, IInv, Types, Chosen
<1>a. /\ rows' = [batch EXCEPT ![g] = Opened] /\ catalogLock' = Nobody
      /\ batch' = [h \in Generations |-> NoRow] /\ returned' \subseteq Generations
  BY DEF CommitOpen, EndBatch, Commit, IInv, Types
<1>b. rows' \in [Generations -> Row] /\ batch' \in [Generations -> Row]
  BY <1>0, <1>a, BufferFacts, RowFacts
<1>c. /\ dispatched' \subseteq 1 .. used /\ dispatched \subseteq dispatched'
      /\ a \in Callers => g \in dispatched'
  BY <1>0, ActorFacts DEF CommitOpen, IInv, Types
<1>d. /\ Moved(a) /\ LockFollows(a) /\ calls'[a].pc \in {"idle", "brief"}
      /\ calls'[a].pc = "brief" => calls'[a].gen = g
  <2>1. CASE Return(a)
    BY <2>1, <1>0, ReturnSound, NoCallFacts DEF Sound, Return
  <2>2. CASE ~Return(a)
    <3>1. calls' = [calls EXCEPT ![a].pc = "brief", ![a].fresh = TRUE] /\ UNCHANGED seatLock
      BY <2>2 DEF CommitOpen
    <3>2. Moved(a) /\ calls'[a].pc = "brief" /\ calls'[a].gen = g
      BY <3>1, <1>0 DEF Moved, Call
    <3> QED  BY <3>1, <3>2, <1>0 DEF LockFollows
  <2> QED  BY <2>1, <2>2
<1> HIDE DEF g
<1>e. \A b \in Actors : calls'[b].pc \notin {"opening", "created"}
  BY <1>0, <1>d, HolderFacts DEF Moved
<1>1. Types'
  BY <1>0, <1>a, <1>b, <1>c, <1>d DEF IInv, Types, sweep, Moved
<1>2. Locks'
  <2>1. \A c \in Callers : seatLock' = c <=> calls'[c].pc # "idle"
    BY <1>0, <1>d, ActorFacts DEF Moved, LockFollows, IInv, Locks, At
  <2>2. seatLock' # Operator /\ phase' # "looking"
    BY <1>0, <1>d, ActorFacts, HolderFacts DEF sweep, LockFollows, IInv, Locks
  <2> QED  BY <2>1, <2>2, <1>a, <1>e, ActorFacts DEF Locks, At
<1>3. Numbered'
  <2>1. \A h \in Generations : h > used => rows'[h].status = "none" /\ batch'[h].status = "none"
    BY <1>0, <1>a, BufferFacts, SeatAssumption DEF NoRow, IInv, Types
  <2>2. \A b \in Actors : Chosen(b)' => calls'[b].gen \in 1 .. used
    BY <1>0, <1>d DEF IInv, Numbered, Chosen, Moved
  <2> QED  BY <1>0, <1>e, <2>1, <2>2 DEF IInv, Numbered, At
<1>4. SeatVacated' /\ BufferTracks'
  BY <1>a, <1>e DEF SeatVacated, BufferTracks, At
<1>5. BriefsJustified'
  BY <1>0, <1>c, <1>d, ActorFacts DEF IInv, BriefsJustified, Moved
<1>6. OneOccupant'
  <2>1. \A h \in Generations : h # g => ~Running(rows'[h])
    BY <1>0, <1>a, BufferFacts DEF IInv, SeatVacated, At
  <2> QED  BY <2>1 DEF OneOccupant, Occupants
<1> QED  BY <1>1, <1>2, <1>3, <1>4, <1>5, <1>6 DEF IInv

-----------------------------------------------------------------------------
(* The brief, and the deaths of processes.                                 *)

LEMMA PostKeeps ==
    ASSUME IInv, NEW c \in Callers, Post(c)
    PROVE  IInv'
<1> DEFINE g == calls[c].gen
<1>0. /\ c \in Actors /\ calls[c].pc = "brief" /\ calls \in [Actors -> Call] /\ calls[c] \in Call
      /\ g \in 1 .. used /\ g \in Generations /\ g \in dispatched
      /\ UNCHANGED <<catalog, seatLock, births, panes, sweep, stamp, faults>>
      /\ briefs' = [briefs EXCEPT ![g] = "open"]
  BY NamedFacts, ActorFacts DEF Post, At, IInv, Types, Chosen, BriefsJustified
<1>a. PICK pc \in {"bind", "evidence"} : calls' = [calls EXCEPT ![c].pc = pc]
  BY DEF Post, Goto
<1>b. Moved(c) /\ calls'[c].pc \in {"bind", "evidence"} /\ calls'[c].gen = g
  BY <1>0, <1>a DEF Moved, Call
<1>c. \A b \in Callers : b # c => calls[b].pc = "idle"
  BY <1>0 DEF IInv, Locks, At
<1> HIDE DEF g
<1>1. Types'
  BY <1>0, <1>b DEF IInv, Types, catalog, births, sweep, Moved
<1>2. Locks'
  <2>1. \A b \in Callers : seatLock' = b <=> calls'[b].pc # "idle"
    BY <1>0, <1>b, ActorFacts DEF Moved, IInv, Locks, At
  <2>2. \A b \in Actors : catalogLock' = b <=> calls'[b].pc \in {"opening", "created"}
    BY <1>0, <1>b DEF Moved, IInv, Locks, At, catalog
  <2> QED  BY <1>0, <2>1, <2>2 DEF catalog, sweep, IInv, Locks, At
<1>3. Numbered'
  BY <1>0, <1>b DEF IInv, Numbered, Chosen, At, births, catalog, Moved
<1>4. SeatVacated' /\ BufferTracks'
  BY <1>0, <1>b DEF IInv, SeatVacated, BufferTracks, catalog, At, Moved
<1>5. BriefsJustified'
  <2>1. \A h \in Generations : briefs'[h] # "none" => h \in dispatched
    BY <1>0 DEF IInv, BriefsJustified, Types
  <2>2. \A b \in Callers : calls'[b].pc \in {"idle", "bind", "evidence"}
    BY <1>b, <1>c, ActorFacts DEF Moved
  <2>3. \A b \in Callers : calls'[b].pc = "bind" => calls'[b].gen = g
    BY <1>b, <1>c, ActorFacts DEF Moved
  <2> QED  BY <1>0, <2>1, <2>2, <2>3 DEF BriefsJustified, births
<1>6. OneOccupant'
  BY <1>0, SameOccupants DEF IInv, catalog
<1> QED  BY <1>1, <1>2, <1>3, <1>4, <1>5, <1>6 DEF IInv

\* The buffer is dropped with its holder.
LEMMA AbandonFacts ==
    ASSUME IInv, NEW holders, Abandon(holders)
    PROVE  /\ batch' \in [Generations -> Row]
           /\ \A g \in Generations : g > used => batch'[g].status = "none"
           /\ catalogLock \in holders => catalogLock' = Nobody
           /\ catalogLock \notin holders => UNCHANGED <<catalogLock, batch>>
<1>1. CASE catalogLock \in holders
  <2>1. catalogLock' = Nobody /\ batch' = [g \in Generations |-> NoRow]
    BY <1>1 DEF Abandon
  <2>2. NoRow.status = "none"
    BY DEF NoRow
  <2> QED  BY <1>1, <2>1, <2>2, BufferFacts
<1>2. CASE catalogLock \notin holders
  BY <1>2, BufferFacts DEF Abandon
<1> QED  BY <1>1, <1>2

LEMMA CrashKeeps ==
    ASSUME IInv, NEW c \in Callers, Crash(c)
    PROVE  IInv'
<1>0. /\ c \in Actors /\ Return(c) /\ Abandon({c}) /\ Fault
      /\ UNCHANGED <<rows, returned, births, panes, briefs, sweep, stamp>>
  BY ActorFacts DEF Crash, Dies
<1>1. Sound(c) /\ calls'[c].pc = "idle"
  BY <1>0, ReturnSound, NoCallFacts DEF Return, IInv, Types
<1>2. Types'
  BY <1>0, <1>1, AbandonFacts, FaultFacts DEF IInv, Types, births, sweep, Sound, Moved
<1>3. \A b \in Actors : catalogLock' = b <=> calls'[b].pc \in {"opening", "created"}
  BY <1>0, <1>1, AbandonFacts, ActorFacts DEF Sound, Moved, IInv, Locks, At
<1>4. Locks'
  <2>1. \A b \in Callers : seatLock' = b <=> calls'[b].pc # "idle"
    BY <1>0, <1>1, ActorFacts DEF Sound, Moved, Return, IInv, Locks, At
  <2>2. seatLock' # Operator
    BY <1>0, ActorFacts DEF Return, IInv, Locks
  <2>3. catalogLock' = Sweeper <=> phase' = "looking"
    BY <1>0, AbandonFacts, ActorFacts DEF sweep, IInv, Locks
  <2> QED  BY <1>3, <2>1, <2>2, <2>3 DEF Locks, At
<1>5. Numbered'
  BY <1>0, <1>1, AbandonFacts DEF births, IInv, Numbered, Chosen, At, Sound, Moved
<1>6. SeatVacated' /\ BufferTracks'
  <2>1. catalogLock' # Nobody => UNCHANGED <<catalogLock, batch>>
    BY <1>0, AbandonFacts
  <2>2. \A b \in Actors : calls'[b].pc \in {"opening", "created"} =>
           calls'[b] = calls[b] /\ catalogLock' # Nobody
    BY <1>1, <1>3, ActorFacts DEF Sound, Moved
  <2> QED  BY <1>0, <2>1, <2>2 DEF IInv, SeatVacated, BufferTracks, At
<1>7. BriefsJustified'
  BY <1>0, <1>1, ActorFacts DEF births, IInv, BriefsJustified, Sound, Moved
<1>8. OneOccupant'
  BY <1>0, SameOccupants DEF IInv
<1> QED  BY <1>2, <1>4, <1>5, <1>6, <1>7, <1>8 DEF IInv

LEMMA ServerDiesKeeps ==
    ASSUME IInv, ServerDies
    PROVE  IInv'
<1>0. /\ Operator \in Actors /\ Return(Operator) /\ Abandon({Operator, Sweeper}) /\ Fault
      /\ UNCHANGED <<rows, returned, births, panes, briefs>>
      /\ phase' = "idle" /\ todo' = {} /\ stamp' = NoStamp
  BY ActorFacts DEF ServerDies, Dies
<1>1. Sound(Operator) /\ calls'[Operator].pc = "idle"
  BY <1>0, ReturnSound, NoCallFacts DEF Return, IInv, Types
<1>a. stamp' \in [gen : {0} \cup Generations, row : Row] /\ stamp'.gen \in 0 .. used
  BY <1>0, NoCallFacts, SeatAssumption DEF NoStamp, IInv, Types
<1>2. Types'
  BY <1>0, <1>1, <1>a, AbandonFacts, FaultFacts DEF IInv, Types, births, Sound, Moved
<1>3. \A b \in Actors : catalogLock' = b <=> calls'[b].pc \in {"opening", "created"}
  BY <1>0, <1>1, AbandonFacts, ActorFacts DEF Sound, Moved, IInv, Locks, At
<1>4. Locks'
  <2>1. \A b \in Callers : seatLock' = b <=> calls'[b].pc # "idle"
    BY <1>0, <1>1, ActorFacts DEF Sound, Moved, Return, IInv, Locks, At
  <2>2. seatLock' # Operator
    BY <1>0, ActorFacts DEF Return, IInv, Locks
  <2>3. catalogLock' # Sweeper
    BY <1>0, AbandonFacts, ActorFacts
  <2> QED  BY <1>0, <1>3, <2>1, <2>2, <2>3 DEF Locks, At
<1>5. Numbered'
  BY <1>0, <1>1, <1>a, AbandonFacts DEF births, IInv, Numbered, Chosen, At, Sound, Moved
<1>6. SeatVacated' /\ BufferTracks'
  <2>1. catalogLock' # Nobody => UNCHANGED <<catalogLock, batch>>
    BY <1>0, AbandonFacts
  <2>2. \A b \in Actors : calls'[b].pc \in {"opening", "created"} =>
           calls'[b] = calls[b] /\ catalogLock' # Nobody
    BY <1>1, <1>3, ActorFacts DEF Sound, Moved
  <2> QED  BY <1>0, <2>1, <2>2 DEF IInv, SeatVacated, BufferTracks, At
<1>7. BriefsJustified'
  BY <1>0, <1>1, ActorFacts DEF births, IInv, BriefsJustified, Sound, Moved
<1>8. OneOccupant'
  BY <1>0, SameOccupants DEF IInv
<1> QED  BY <1>2, <1>4, <1>5, <1>6, <1>7, <1>8 DEF IInv

-----------------------------------------------------------------------------
(* The invariant.                                                          *)

LEMMA InitIInv == Init => IInv
<1> SUFFICES ASSUME Init
             PROVE  IInv
  OBVIOUS
<1>0. /\ \A a \in Actors : calls[a] = NoCall
      /\ \A g \in Generations : rows[g] = NoRow /\ batch[g] = NoRow /\ briefs[g] = "none"
      /\ NoRow.status = "none" /\ stamp = NoStamp /\ used = 0
      /\ \A a \in Actors : calls[a].pc = "idle"
  BY NoCallFacts DEF Init, NoRow
<1>1. Types
  BY NoCallFacts, SeatAssumption DEF Init, Types, NoStamp
<1>2. Locks
  BY <1>0, ActorFacts, SeatAssumption DEF Init, Locks, At
<1>3. Numbered
  BY <1>0 DEF Numbered, Chosen, At, NoStamp
<1>4. SeatVacated /\ BufferTracks
  BY <1>0 DEF Init, SeatVacated, BufferTracks, At
<1>5. OneOccupant
  BY <1>0 DEF OneOccupant, Occupants, Running
<1>6. BriefsJustified
  BY <1>0, ActorFacts DEF BriefsJustified
<1> QED  BY <1>1, <1>2, <1>3, <1>4, <1>5, <1>6 DEF IInv

LEMMA CallerKeeps ==
    ASSUME IInv, NEW c \in Callers, CallerStep(c)
    PROVE  IInv'
BY ActorFacts, SpawnRefusedKeeps, FindAmbiguousKeeps, FindSeatTakenKeeps, BeginOpenKeeps,
   CreatePaneKeeps, CommitOpenKeeps, OpenFailsKeeps, PostKeeps, PostRefusedKeeps, BindKeeps,
   ReadOccupantKeeps, EvidenceRefusedKeeps, WeighKeeps, RepairKeeps, ReadGenerationKeeps,
   StopControlKeeps, KillPaneKeeps, MarkClosedKeeps, MarkFailsKeeps DEF CallerStep

LEMMA OperatorKeeps ==
    ASSUME IInv, OperatorStep
    PROVE  IInv'
BY ActorFacts, SpawnRefusedKeeps, FindAmbiguousKeeps, FindSeatTakenKeeps, BeginOpenKeeps,
   CreatePaneKeeps, CommitOpenKeeps, OpenFailsKeeps, StopControlKeeps, KillPaneKeeps,
   MarkClosedKeeps, MarkFailsKeeps, AttachClientKeeps, MarkAttachedKeeps DEF OperatorStep

LEMMA EnvironmentKeeps ==
    ASSUME IInv, Environment
    PROVE  IInv'
BY RequestOpenKeeps, RequestCloseKeeps, LandKeeps, AttachProbeKeeps, StampReadKeeps,
   PaneExitsKeeps, BriefMovesKeeps, BriefReturnsKeeps, ClientEndsKeeps, DispatchKeeps, CrashKeeps, ServerDiesKeeps
   DEF Environment

LEMMA StutterKeeps ==
    ASSUME IInv, UNCHANGED vars
    PROVE  IInv'
<1>1. Types' /\ Locks'
  BY DEF vars, IInv, Types, Locks, At
<1>2. Numbered' /\ SeatVacated' /\ BufferTracks' /\ BriefsJustified'
  BY DEF vars, IInv, Numbered, SeatVacated, BufferTracks, BriefsJustified, At, Chosen
<1>3. OneOccupant'
  BY SameOccupants DEF vars, IInv
<1> QED  BY <1>1, <1>2, <1>3 DEF IInv

LEMMA NextIInv ==
    ASSUME IInv, [Next]_vars
    PROVE  IInv'
BY CallerKeeps, OperatorKeeps, EnvironmentKeeps, StutterKeeps, StampWriteKeeps,
   SweepStartKeeps, SweepLookKeeps, SweepCommitKeeps, CompactKeeps DEF Next, SweepStep

\* The inductive invariant holds of every state that dispatch, the dashboard, the sweep,
\* the stamps, tmux and the deaths of processes can reach together.
THEOREM SeatInvariant == Spec => []IInv
BY InitIInv, NextIInv, PTL DEF Spec

-----------------------------------------------------------------------------
(* What the project claims of every instance.                              *)

\* Rows, calls and counters keep their types; a caller holds the seat's lock exactly
\* while execute_serialized_dispatch runs for it, and the catalog's lock belongs to
\* whoever is inside its batch, crashes included.
THEOREM SeatTypes == Spec => []TypeOK
<1>1. IInv => TypeOK
  BY DEF IInv, Types, Locks, TypeOK
<1> QED  BY <1>1, SeatInvariant, PTL

\* No number of callers, sessions, crashes or failed tmux commands seats a second
\* generation beside one that has run without interruption.
THEOREM SeatHasOneOccupant == Spec => []OneOccupant
<1>1. IInv => OneOccupant
  BY DEF IInv
<1> QED  BY <1>1, SeatInvariant, PTL

\* From the moment a dispatch decides to retire a generation until it is marked, the
\* generation has no viable brief and was opened by a dispatch.
THEOREM RollbackIsJustified == Spec => []RollbackSparesBriefed
<1>1. IInv => RollbackSparesBriefed
  BY DEF IInv, BriefsJustified, RollbackSparesBriefed
<1> QED  BY <1>1, SeatInvariant, PTL

\* The only steps that give the catalog's lock back.
LEMMA LockChanges ==
    ASSUME IInv, Next
    PROVE  \/ Unlocked
           \/ catalogLock' = catalogLock
           \/ \E a \in Actors : CommitOpen(a) \/ OpenFails(a)
           \/ SweepCommit
           \/ UNCHANGED rows
<1>1. ASSUME NEW c \in Callers, CallerStep(c)
      PROVE  \/ Unlocked \/ catalogLock' = catalogLock
             \/ \E a \in Actors : CommitOpen(a) \/ OpenFails(a)
  BY <1>1, ActorFacts DEF CallerStep, SpawnRefused, FindAmbiguous, FindSeatTaken, BeginOpen,
     BeginBatch, CreatePane, Post, PostRefused, Bind, ReadOccupant, EvidenceRefused, Weigh,
     Repair, ReadGeneration, StopControl, KillPane, MarkClosed, MarkFails, Mutate, Upsert, catalog
<1>2. ASSUME OperatorStep
      PROVE  \/ Unlocked \/ catalogLock' = catalogLock
             \/ \E a \in Actors : CommitOpen(a) \/ OpenFails(a)
  BY <1>2, ActorFacts DEF OperatorStep, SpawnRefused, FindAmbiguous, FindSeatTaken, BeginOpen,
     BeginBatch, CreatePane, StopControl, KillPane, MarkClosed, MarkFails, AttachClient,
     MarkAttached, Mutate, Upsert, catalog
<1>3. ASSUME Environment
      PROVE  Unlocked \/ catalogLock' = catalogLock \/ UNCHANGED rows
  BY <1>3 DEF Environment, RequestOpen, RequestClose, Land, AttachProbe, StampRead, PaneExits,
     BriefMoves, BriefReturns, ClientEnds, Dispatch, Crash, ServerDies, Dies, Mutate, catalog
<1>4. ASSUME StampWrite \/ SweepStep
      PROVE  Unlocked \/ catalogLock' = catalogLock \/ SweepCommit
  BY <1>4 DEF StampWrite, Upsert, SweepStep, SweepStart, BeginBatch, SweepLook, Compact
<1> QED  BY <1>1, <1>2, <1>3, <1>4 DEF Next

\* A batch never overwrites what another process has closed, opened or bound: between
\* its first read and its commit the file does not change, and the buffer differs from
\* it only in running and exited, and in the row of the generation just spawned.
THEOREM BatchesLoseNothing == Spec => BatchLosesNothing
<1> DEFINE Loses == catalogLock # Nobody /\ catalogLock' # catalogLock =>
                      \A g \in Generations :
                          rows[g].status # "none" => LivenessOnly(rows[g], rows'[g])
<1>1. ASSUME IInv, [Next]_vars
      PROVE  [Loses]_vars
  <2> SUFFICES ASSUME Next, catalogLock # Nobody, catalogLock' # catalogLock,
                      NEW g \in Generations, rows[g].status # "none"
               PROVE  LivenessOnly(rows[g], rows'[g])
    BY <1>1
  <2>0. LivenessOnly(rows[g], batch[g])
    BY <1>1 DEF IInv, BufferTracks
  <2>1. CASE UNCHANGED rows
    BY <2>1 DEF LivenessOnly
  <2>2. ASSUME NEW a \in Actors, CommitOpen(a)
        PROVE  LivenessOnly(rows[g], rows'[g])
    <3>1. rows' = [batch EXCEPT ![calls[a].gen] = Opened] /\ At(a, "created")
      BY <2>2 DEF CommitOpen, EndBatch, Commit
    <3>2. g # calls[a].gen
      BY <1>1, <3>1 DEF IInv, Numbered
    <3> QED  BY <1>1, <2>0, <3>1, <3>2, BufferFacts
  <2>3. ASSUME NEW a \in Actors, OpenFails(a)
        PROVE  LivenessOnly(rows[g], rows'[g])
    BY <2>0, <2>3 DEF OpenFails, EndBatch, Commit
  <2>4. CASE SweepCommit
    BY <2>0, <2>4 DEF SweepCommit, EndBatch, Commit
  <2> QED  BY <1>1, <2>1, <2>2, <2>3, <2>4, LockChanges DEF Unlocked
<1>2. BatchLosesNothing <=> [][Loses]_vars
  BY DEF BatchLosesNothing
<1> HIDE DEF Loses
<1> QED  BY <1>1, <1>2, SeatInvariant, PTL DEF Spec

=============================================================================
