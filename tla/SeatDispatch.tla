---------------------------- MODULE SeatDispatch ----------------------------
(***************************************************************************)
(* One role seat of a task document: the generations of hosted sessions    *)
(* that hold it one after the other, the terminal catalog that says which  *)
(* one does, and everyone who writes that catalog.                         *)
(*                                                                         *)
(*   - structural dispatch (application/structural/) spawns a generation,  *)
(*     posts its brief and binds the receipt, or reconciles the generation *)
(*     it finds, all under the seat's lock;                                *)
(*   - the liveness sweep (serving/terminal_liveness.py) looks at every    *)
(*     pane inside one catalog batch;                                      *)
(*   - the dashboard opens, attaches, terminates and retires sessions, and *)
(*     completion lands them, without the seat's lock;                     *)
(*   - the notifier, the deferred interaction sync and the interrupt route *)
(*     stamp a row by `get` and a later `upsert` of the whole row          *)
(*     (serving/seat_turn_truth.py), outside any batch.                    *)
(*                                                                         *)
(* Each mutator of the catalog is one read-modify-write under the file     *)
(* lock, hence one action; a batch keeps the lock, and a buffer, over      *)
(* several.  A read takes no file lock; a read by the server's own threads *)
(* waits for the instance lock that its batch holds.  tmux and the inbox   *)
(* are the environment: panes end at any time, a tmux command may fail     *)
(* without saying anything about its session, and a pinned brief may fail, *)
(* be settled, and be reclaimed.                                           *)
(***************************************************************************)
EXTENDS Naturals, FiniteSets

CONSTANTS
    Callers,           \* processes that dispatch to this seat
    Operator,          \* the dashboard's routes, one request at a time
    Sweeper,           \* the liveness sweep
    Nobody,
    FailureThreshold,  \* failed tmux commands in a row before a row is exited
    MaxGenerations,    \* bound: sessions spawned for the seat
    MaxFaults          \* bound: tmux commands that fail, processes that die, stamps,
                       \* and requests of the operator, all together

ASSUME SeatAssumption ==
    /\ Operator \notin Callers /\ Sweeper \notin Callers /\ Nobody \notin Callers
    /\ Operator # Sweeper /\ Operator # Nobody /\ Sweeper # Nobody
    /\ FailureThreshold \in Nat \ {0}
    /\ MaxGenerations \in Nat
    /\ MaxFaults \in Nat

Actors == Callers \cup {Operator}
Generations == 1 .. MaxGenerations

VARIABLES
    rows,          \* the catalog file: the row of each generation
    batch,         \* _batch of whoever holds the catalog lock over several steps
    catalogLock,   \* its holder
    seatLock,      \* holder of the seat's structural lock
    used,          \* generations spawned so far: session ids are never reused
    dispatched,    \* those that a dispatch spawned (spawned_by_kind, never rewritten)
    panes,         \* generations whose tmux session exists
    briefs,        \* what the inbox holds for each generation
    calls,         \* where each caller and the operator are
    phase, todo,   \* the sweep, and the rows it has still to look at
    stamp,         \* the row a stamp has read and will write back
    faults,        \* how many of the bounded events have happened
    returned       \* history: generations that were given up and ran again

catalog == <<rows, batch, catalogLock, returned>>
sweep == <<phase, todo>>
births == <<used, dispatched>>
vars == <<rows, batch, catalogLock, seatLock, used, dispatched, panes, briefs, calls,
          phase, todo, stamp, faults, returned>>

-----------------------------------------------------------------------------
(* Rows of the catalog.                                                    *)

\* What is kept of a TerminalCatalogEntry; "none" is a generation without a row.
\* `receipt` is dispatch_brief_entry_id.
Row == [status : {"none", "running", "exited", "landed", "terminated"},
        failures : 0 .. FailureThreshold, receipt : BOOLEAN]

NoRow == [status |-> "none", failures |-> 0, receipt |-> FALSE]
Opened == [status |-> "running", failures |-> 0, receipt |-> FALSE]

Running(row) == row.status = "running"

WithLivenessSuccess(row) ==
    IF row.status \in {"running", "exited"}
    THEN [row EXCEPT !.status = "running", !.failures = 0] ELSE row

\* A missing session is definitive at once; failed commands need the threshold
\* and the minimum window, of which `elapsed` says that it has passed.  A row that
\* stops running keeps its count in the code, where nothing reads it before it is
\* reset; here it is reset at once.
WithLivenessFailure(row, evidence, elapsed) ==
    LET exits == evidence = "pane-gone" \/ (row.failures + 1 >= FailureThreshold /\ elapsed)
    IN  CASE ~Running(row) -> row
          [] Running(row) /\ exits -> [row EXCEPT !.status = "exited", !.failures = 0]
          [] OTHER -> [row EXCEPT !.failures = IF @ < FailureThreshold THEN @ + 1 ELSE @]

Observed(row, evidence, elapsed) ==
    IF evidence = "alive" THEN WithLivenessSuccess(row)
    ELSE WithLivenessFailure(row, evidence, elapsed)

WithExit(row) ==
    IF row.status \in {"landed", "terminated"} THEN row
    ELSE [row EXCEPT !.status = "exited", !.failures = 0]

WithTermination(row) == [row EXCEPT !.status = "terminated", !.failures = 0]

WithLanding(row) ==
    IF row.status \in {"landed", "terminated"} THEN row
    ELSE [row EXCEPT !.status = "landed", !.failures = 0]

WithAttachment(row) ==
    [row EXCEPT !.status = IF @ = "landed" THEN "landed" ELSE "running", !.failures = 0]

WithReceipt(row) == [row EXCEPT !.receipt = TRUE]

\* A mutator finds its row by id and does nothing when there is none.
Mutated(old, g, row) == IF old[g].status = "none" THEN old ELSE [old EXCEPT ![g] = row]

Occupants(old) == {g \in Generations : Running(old[g])}

-----------------------------------------------------------------------------
(* The catalog's lock, its commits, and tmux.                              *)

Unlocked == catalogLock = Nobody

\* os.replace of the catalog file; `born` are the rows it holds for the first time.
Commit(new, born) ==
    /\ rows' = new
    /\ returned' = returned \cup
          {g \in Generations \ born : ~Running(rows[g]) /\ Running(new[g])}

\* A mutator that does not wait for the batch of another.
MutateUnfenced(g, row) ==
    /\ Commit(Mutated(rows, g, row), {})
    /\ UNCHANGED <<batch, catalogLock>>

\* One mutator outside a batch.
Mutate(g, row) ==
    /\ Unlocked
    /\ Commit(Mutated(rows, g, row), {})
    /\ UNCHANGED <<batch, catalogLock>>

\* upsert: the whole row, whether or not there still is one.
Upsert(g, row) ==
    /\ Unlocked
    /\ Commit([rows EXCEPT ![g] = row], {})
    /\ UNCHANGED <<batch, catalogLock>>

BeginBatch(holder, buffer) ==
    /\ Unlocked
    /\ catalogLock' = holder
    /\ batch' = buffer
    /\ UNCHANGED <<rows, returned>>

EndBatch(buffer, born) ==
    /\ Commit(buffer, born)
    /\ catalogLock' = Nobody
    /\ batch' = [g \in Generations |-> NoRow]

Fault ==
    /\ faults < MaxFaults
    /\ faults' = faults + 1

\* What `tmux has-session` reports, and why.
Shown(g) == IF g \in panes THEN "alive" ELSE "pane-gone"

Probe(g, evidence) ==
    \/ evidence = Shown(g) /\ UNCHANGED faults
    \/ evidence = "command-failed" /\ Fault

Evidence == {"alive", "pane-gone", "command-failed"}

\* A read by a thread of the server waits for the batch its own process holds.
DaemonReads == catalogLock \notin {Sweeper, Operator}

-----------------------------------------------------------------------------
(* Calls.  A caller holds the seat's lock from Dispatch to Return; the     *)
(* operator's requests never take it.                                      *)

NoCall == [pc |-> "idle", gen |-> 0, copy |-> NoRow, retried |-> FALSE, fresh |-> FALSE,
           viable |-> FALSE]

Call == [pc : {"idle", "spawn", "opening", "created", "brief", "bind", "evidence", "weigh",
               "repair", "close", "stop", "kill", "mark", "attach", "attached", "serving"},
         gen : {0} \cup Generations, copy : Row, retried : BOOLEAN, fresh : BOOLEAN,
         viable : BOOLEAN]

At(a, pc) == calls[a].pc = pc
Goto(a, pc) == calls' = [calls EXCEPT ![a].pc = pc]

\* The lock is not released.
ReturnHolding(a) ==
    /\ calls' = [calls EXCEPT ![a] = NoCall]
    /\ UNCHANGED seatLock

Return(a) ==
    /\ calls' = [calls EXCEPT ![a] = NoCall]
    /\ seatLock' = IF seatLock = a THEN Nobody ELSE seatLock

\* What follows a generation that was closed or is gone: one more spawn for the
\* transaction that found it, none for the transaction that made it.
Retry(a) ==
    IF calls[a].fresh \/ calls[a].retried \/ a = Operator
    THEN Return(a)
    ELSE /\ calls' = [calls EXCEPT ![a] = [NoCall EXCEPT !.pc = "spawn", !.retried = TRUE]]
         /\ UNCHANGED seatLock

\* The generation has no viable brief and is to be retired.
Close(a) ==
    /\ calls' = [calls EXCEPT ![a].pc = "close", ![a].copy = NoRow, ![a].viable = FALSE]
    /\ UNCHANGED seatLock

\* execute_serialized_dispatch
Dispatch(c) ==
    /\ At(c, "idle")
    /\ seatLock = Nobody
    /\ seatLock' = c
    /\ calls' = [calls EXCEPT ![c] = [NoCall EXCEPT !.pc = "spawn"]]
    /\ UNCHANGED <<catalog, births, panes, briefs, sweep, stamp, faults>>

-----------------------------------------------------------------------------
(* Opening a session: inside one catalog batch.                            *)

\* Admission, launch settings or the task binding refuse before the seat is looked at.
SpawnRefused(a) ==
    /\ At(a, "spawn")
    /\ Return(a)
    /\ UNCHANGED <<catalog, births, panes, briefs, sweep, stamp, faults>>

\* Two running rows claim the seat: SeatOccupancyError.
FindAmbiguous(a) ==
    /\ At(a, "spawn")
    /\ Unlocked
    /\ Cardinality(Occupants(rows)) > 1
    /\ Return(a)
    /\ UNCHANGED <<catalog, births, panes, briefs, sweep, stamp, faults>>

\* Seat-taken: dispatch goes on to reconcile the owner, a plain open reports it.
FindSeatTaken(a) ==
    /\ At(a, "spawn")
    /\ Unlocked
    /\ \E owner \in Generations :
          /\ Occupants(rows) = {owner}
          /\ owner \in panes
          /\ IF a = Operator THEN Return(a)
             ELSE /\ calls' = [calls EXCEPT ![a].pc = "evidence", ![a].gen = owner]
                  /\ UNCHANGED seatLock
    /\ UNCHANGED <<catalog, births, panes, briefs, sweep, stamp, faults>>

\* The dead owner's row is left as it is.
BeginOpenKeepingOwner(a) ==
    /\ At(a, "spawn")
    /\ Cardinality(Occupants(rows)) <= 1
    /\ Occupants(rows) \cap panes = {}
    /\ BeginBatch(a, rows)
    /\ Goto(a, "opening")
    /\ UNCHANGED <<seatLock, births, panes, briefs, sweep, stamp, faults>>

\* No owner, or one whose session tmux did not show: has_session keeps no evidence,
\* so a failed command empties the seat as well.
BeginOpen(a) ==
    /\ At(a, "spawn")
    /\ \/ /\ Occupants(rows) = {}
          /\ BeginBatch(a, rows)
          /\ UNCHANGED faults
       \/ \E owner \in Generations, evidence \in Evidence \ {"alive"} :
             /\ Occupants(rows) = {owner}
             /\ Probe(owner, evidence)
             /\ BeginBatch(a, [rows EXCEPT ![owner] = WithExit(@)])
    /\ Goto(a, "opening")
    /\ UNCHANGED <<seatLock, births, panes, briefs, sweep, stamp>>

\* host.ensure
CreatePane(a) ==
    /\ At(a, "opening")
    /\ used < MaxGenerations
    /\ used' = used + 1
    /\ panes' = panes \cup {used + 1}
    /\ calls' = [calls EXCEPT ![a].pc = "created", ![a].gen = used + 1]
    /\ UNCHANGED <<catalog, seatLock, dispatched, briefs, sweep, stamp, faults>>

\* The new row is committed with the batch.
CommitOpen(a) ==
    LET g == calls[a].gen IN
    /\ At(a, "created")
    /\ EndBatch([batch EXCEPT ![g] = Opened], {g})
    /\ dispatched' = IF a = Operator THEN dispatched ELSE dispatched \cup {g}
    /\ IF a = Operator THEN Return(a)
       ELSE /\ calls' = [calls EXCEPT ![a].pc = "brief", ![a].fresh = TRUE]
            /\ UNCHANGED seatLock
    /\ UNCHANGED <<used, panes, briefs, sweep, stamp, faults>>

\* The launch is refused, host.ensure raises, or the row is: the batch still commits
\* what it has.
OpenFails(a) ==
    /\ At(a, "opening") \/ At(a, "created")
    /\ EndBatch(batch, {})
    /\ Return(a)
    /\ UNCHANGED <<births, panes, briefs, sweep, stamp, faults>>

-----------------------------------------------------------------------------
(* Briefing a fresh generation.                                            *)

\* The append is the commit point; what follows it may raise or refuse, and then
\* the receipt is not bound.
Post(c) ==
    /\ At(c, "brief")
    /\ Running(rows[calls[c].gen])
    /\ briefs' = [briefs EXCEPT ![calls[c].gen] = "open"]
    /\ \E pc \in {"bind", "evidence"} : Goto(c, pc)
    /\ UNCHANGED <<catalog, seatLock, births, panes, sweep, stamp, faults>>

\* The target is no longer running, or the append itself fails.
PostRefused(c) ==
    /\ At(c, "brief")
    /\ Goto(c, "evidence")
    /\ UNCHANGED <<catalog, seatLock, births, panes, briefs, sweep, stamp, faults>>

Bind(c) ==
    LET g == calls[c].gen IN
    /\ At(c, "bind")
    /\ Mutate(g, WithReceipt(rows[g]))
    /\ IF rows[g].status = "none" THEN Goto(c, "evidence") /\ UNCHANGED seatLock ELSE Return(c)
    /\ UNCHANGED <<births, panes, briefs, sweep, stamp, faults>>

-----------------------------------------------------------------------------
(* Reconciling a generation's evidence.                                    *)

\* A caller that found the generation tries again when it no longer runs; one that
\* made it answers that its brief state is unknown.
ReadOccupant(c) ==
    LET row == rows[calls[c].gen] IN
    /\ At(c, "evidence")
    /\ IF Running(row)
       THEN /\ calls' = [calls EXCEPT ![c].pc = "weigh", ![c].copy = row]
            /\ UNCHANGED seatLock
       ELSE Retry(c)
    /\ UNCHANGED <<catalog, births, panes, briefs, sweep, stamp, faults>>

\* A read fails, the row left between two reads, or another parent owns the reviewer.
EvidenceRefused(c) ==
    /\ At(c, "evidence") \/ At(c, "weigh") \/ At(c, "repair")
    /\ Return(c)
    /\ UNCHANGED <<catalog, births, panes, briefs, sweep, stamp, faults>>

\* The receipt alone decides.
WeighReceiptOnly(c) ==
    /\ At(c, "weigh")
    /\ IF calls[c].copy.receipt THEN Return(c) ELSE Close(c)
    /\ UNCHANGED <<catalog, births, panes, briefs, sweep, stamp, faults>>

\* The inbox is read after the row.
Weigh(c) ==
    LET call == calls[c]
        absent == briefs[call.gen] \in {"none", "gone"}
        viable == briefs[call.gen] \in {"open", "back"}
    IN
    /\ At(c, "weigh")
    /\ CASE ~absent /\ ~call.copy.receipt ->
              /\ calls' = [calls EXCEPT ![c].pc = "repair", ![c].copy = NoRow,
                                       ![c].viable = viable]
              /\ UNCHANGED seatLock
         [] viable /\ call.copy.receipt -> Return(c)
         [] absent /\ (call.copy.receipt \/ call.gen \notin dispatched) ->
              Return(c)
         [] OTHER -> Close(c)
    /\ UNCHANGED <<catalog, births, panes, briefs, sweep, stamp, faults>>

Repair(c) ==
    LET g == calls[c].gen IN
    /\ At(c, "repair")
    /\ Mutate(g, WithReceipt(rows[g]))
    /\ IF rows[g].status = "none" \/ calls[c].viable THEN Return(c)
       ELSE Close(c)
    /\ UNCHANGED <<births, panes, briefs, sweep, stamp, faults>>

-----------------------------------------------------------------------------
(* Closing a generation: rollback, and the operator's terminate and retire.*)

\* _retire_unbriefed_child reads the row once more.
ReadGeneration(c) ==
    LET row == rows[calls[c].gen] IN
    /\ At(c, "close")
    /\ CASE row.status = "none" -> Return(c)
         [] row.status = "terminated" -> Retry(c)
         [] OTHER -> /\ calls' = [calls EXCEPT ![c].pc = "stop", ![c].copy = row]
                     /\ UNCHANGED seatLock
    /\ UNCHANGED <<catalog, births, panes, briefs, sweep, stamp, faults>>

\* A control session that does not stop leaves its error on the row, as an upsert of
\* the row read before.
StopControl(a) ==
    /\ At(a, "stop")
    /\ \/ UNCHANGED catalog
       \/ Upsert(calls[a].gen, calls[a].copy)
    /\ calls' = [calls EXCEPT ![a].pc = "kill", ![a].copy = NoRow]
    /\ UNCHANGED <<seatLock, births, panes, briefs, sweep, stamp, faults>>

\* tmux_kill_session suppresses its failure.
KillPane(a) ==
    /\ At(a, "kill")
    /\ \/ /\ panes' = panes \ {calls[a].gen}
          /\ UNCHANGED faults
       \/ /\ Fault
          /\ UNCHANGED panes
    /\ Goto(a, "mark")
    /\ UNCHANGED <<catalog, seatLock, births, briefs, sweep, stamp>>

MarkClosed(a) ==
    LET g == calls[a].gen IN
    /\ At(a, "mark")
    /\ Mutate(g, WithTermination(rows[g]))
    /\ IF rows[g].status = "none" THEN Return(a) ELSE Retry(a)
    /\ UNCHANGED <<births, panes, briefs, sweep, stamp, faults>>

\* An OSError of the write: "child retirement also failed".
MarkFails(a) ==
    /\ At(a, "mark")
    /\ Return(a)
    /\ UNCHANGED <<catalog, births, panes, briefs, sweep, stamp, faults>>

-----------------------------------------------------------------------------
(* The dashboard's requests.                                               *)

Request(call) ==
    /\ At(Operator, "idle")
    /\ Fault
    /\ calls' = [calls EXCEPT ![Operator] = call]

\* Open a session for the same document and role, outside any dispatch.
RequestOpen ==
    /\ Request([NoCall EXCEPT !.pc = "spawn"])
    /\ UNCHANGED <<catalog, seatLock, births, panes, briefs, sweep, stamp>>

\* Terminate or retire; only the second records a control stop that failed.
RequestClose(g) ==
    /\ DaemonReads
    /\ rows[g].status # "none"
    /\ \/ Request([NoCall EXCEPT !.pc = "kill", !.gen = g])
       \/ /\ rows[g].status # "terminated"
          /\ Request([NoCall EXCEPT !.pc = "stop", !.gen = g, !.copy = rows[g]])
    /\ UNCHANGED <<catalog, seatLock, births, panes, briefs, sweep, stamp>>

\* Completion archives the seat and leaves its session alone.
Land(g) ==
    /\ DaemonReads
    /\ Fault
    /\ rows[g].status \notin {"none", "terminated"}
    /\ Mutate(g, WithLanding(rows[g]))
    /\ UNCHANGED <<seatLock, births, panes, briefs, calls, sweep, stamp>>

\* A browser attaches: probe, then a tmux client, then the mark.
AttachProbe(g) ==
    /\ DaemonReads
    /\ rows[g].status \in {"running", "landed"}
    /\ \E evidence \in {Shown(g), "command-failed"}, elapsed \in BOOLEAN :
          /\ Mutate(g, Observed(rows[g], evidence, elapsed))
          /\ Request(IF evidence = "alive" THEN [NoCall EXCEPT !.pc = "attach", !.gen = g]
                     ELSE NoCall)
    /\ UNCHANGED <<seatLock, births, panes, briefs, sweep, stamp>>

\* tmux new-session -A: attaches to the session or creates it.
AttachClient ==
    /\ At(Operator, "attach")
    /\ panes' = panes \cup {calls[Operator].gen}
    /\ Goto(Operator, "attached")
    /\ UNCHANGED <<catalog, seatLock, births, briefs, sweep, stamp, faults>>

MarkAttached ==
    LET g == calls[Operator].gen IN
    /\ At(Operator, "attached")
    /\ Mutate(g, WithAttachment(rows[g]))
    /\ Goto(Operator, "serving")
    /\ UNCHANGED <<seatLock, births, panes, briefs, sweep, stamp, faults>>

\* The browser leaves; only a client that died marks the row.
ClientEnds ==
    LET g == calls[Operator].gen IN
    /\ At(Operator, "serving")
    /\ \/ Mutate(g, WithExit(rows[g]))
       \/ g \in panes /\ UNCHANGED catalog
    /\ Return(Operator)
    /\ UNCHANGED <<births, panes, briefs, sweep, stamp, faults>>

-----------------------------------------------------------------------------
(* Stamps: get, change a field no one else writes, upsert the whole row.   *)

NoStamp == [gen |-> 0, row |-> NoRow]

StampRead(g) ==
    /\ DaemonReads
    /\ stamp = NoStamp
    /\ Fault
    /\ rows[g].status # "none"
    /\ stamp' = [gen |-> g, row |-> rows[g]]
    /\ UNCHANGED <<catalog, seatLock, births, panes, briefs, calls, sweep>>

StampWrite ==
    /\ stamp # NoStamp
    /\ Upsert(stamp.gen, stamp.row)
    /\ stamp' = NoStamp
    /\ UNCHANGED <<seatLock, births, panes, briefs, calls, sweep, faults>>

-----------------------------------------------------------------------------
(* The liveness sweep.                                                     *)

SweepStart ==
    /\ phase = "idle"
    /\ BeginBatch(Sweeper, rows)
    /\ phase' = "looking"
    /\ todo' = {g \in Generations : rows[g].status \in {"running", "exited"}}
    /\ UNCHANGED <<seatLock, births, panes, briefs, calls, stamp, faults>>

SweepLook(g) ==
    /\ phase = "looking"
    /\ g \in todo
    /\ \A h \in todo : g <= h
    /\ todo' = todo \ {g}
    /\ \E evidence \in Evidence, elapsed \in BOOLEAN :
          /\ Probe(g, evidence)
          /\ batch' = [batch EXCEPT ![g] = Observed(@, evidence, elapsed)]
    /\ UNCHANGED <<rows, catalogLock, returned, seatLock, births, panes, briefs, calls>>
    /\ UNCHANGED <<phase, stamp>>

SweepCommit ==
    /\ phase = "looking"
    /\ todo = {}
    /\ EndBatch(batch, {})
    /\ phase' = "compact"
    /\ UNCHANGED <<todo, seatLock, births, panes, briefs, calls, stamp, faults>>

\* Terminated rows past their retention, and registered where they must be.
Compact ==
    /\ phase = "compact"
    /\ Unlocked
    /\ \E gone \in SUBSET {g \in Generations : rows[g].status = "terminated"} :
          Commit([g \in Generations |-> IF g \in gone THEN NoRow ELSE rows[g]], {})
    /\ phase' = "idle"
    /\ UNCHANGED <<batch, catalogLock, todo, seatLock, births, panes, briefs, calls, stamp, faults>>

-----------------------------------------------------------------------------
(* The environment.                                                        *)

PaneExits(g) ==
    /\ g \in panes
    /\ panes' = panes \ {g}
    /\ UNCHANGED <<catalog, seatLock, births, briefs, calls, sweep, stamp, faults>>

\* The inbox supersedes or expires a brief, or reclaims one that is closed.
BriefMoves(g) ==
    /\ \/ briefs[g] \in {"open", "back"} /\ briefs' = [briefs EXCEPT ![g] = "failed"]
       \/ briefs[g] \notin {"none", "gone"} /\ briefs' = [briefs EXCEPT ![g] = "gone"]
    /\ UNCHANGED <<catalog, seatLock, births, panes, calls, sweep, stamp, faults>>

\* A delivery record of an older copy puts a reclaimed brief back.
BriefReturns(g) ==
    /\ briefs[g] = "gone"
    /\ \E b \in {"back", "failed"} : briefs' = [briefs EXCEPT ![g] = b]
    /\ Fault
    /\ UNCHANGED <<catalog, seatLock, births, panes, calls, sweep, stamp>>

\* A process that dies in its batch loses the buffer, and may leave a session that
\* has no row.
Abandon(holders) ==
    IF catalogLock \in holders
    THEN catalogLock' = Nobody /\ batch' = [g \in Generations |-> NoRow]
    ELSE UNCHANGED <<catalogLock, batch>>

Dies ==
    /\ Fault
    /\ UNCHANGED <<rows, returned, births, panes, briefs>>

Crash(c) ==
    /\ ~At(c, "idle")
    /\ Dies
    /\ Abandon({c})
    /\ Return(c)
    /\ UNCHANGED <<sweep, stamp>>

ServerDies ==
    /\ Dies
    /\ Abandon({Operator, Sweeper})
    /\ Return(Operator)
    /\ phase' = "idle"
    /\ todo' = {}
    /\ stamp' = NoStamp

-----------------------------------------------------------------------------

Init ==
    /\ rows = [g \in Generations |-> NoRow]
    /\ batch = [g \in Generations |-> NoRow]
    /\ catalogLock = Nobody
    /\ seatLock = Nobody
    /\ used = 0
    /\ dispatched = {}
    /\ panes = {}
    /\ briefs = [g \in Generations |-> "none"]
    /\ calls = [a \in Actors |-> NoCall]
    /\ phase = "idle"
    /\ todo = {}
    /\ stamp = NoStamp
    /\ faults = 0
    /\ returned = {}

\* What a caller's process does once it has been called.
CallerStep(c) ==
    \/ SpawnRefused(c)
    \/ FindAmbiguous(c)
    \/ FindSeatTaken(c)
    \/ BeginOpen(c)
    \/ CreatePane(c)
    \/ CommitOpen(c)
    \/ OpenFails(c)
    \/ Post(c)
    \/ PostRefused(c)
    \/ Bind(c)
    \/ ReadOccupant(c)
    \/ EvidenceRefused(c)
    \/ Weigh(c)
    \/ Repair(c)
    \/ ReadGeneration(c)
    \/ StopControl(c)
    \/ KillPane(c)
    \/ MarkClosed(c)
    \/ MarkFails(c)

\* What the server does for a request it has accepted.
OperatorStep ==
    \/ SpawnRefused(Operator)
    \/ FindAmbiguous(Operator)
    \/ FindSeatTaken(Operator)
    \/ BeginOpen(Operator)
    \/ CreatePane(Operator)
    \/ CommitOpen(Operator)
    \/ OpenFails(Operator)
    \/ StopControl(Operator)
    \/ KillPane(Operator)
    \/ MarkClosed(Operator)
    \/ MarkFails(Operator)
    \/ AttachClient
    \/ MarkAttached

SweepStep ==
    \/ SweepStart
    \/ \E g \in Generations : SweepLook(g)
    \/ SweepCommit
    \/ Compact

Environment ==
    \/ RequestOpen
    \/ \E g \in Generations :
          \/ RequestClose(g)
          \/ Land(g)
          \/ AttachProbe(g)
          \/ StampRead(g)
          \/ PaneExits(g)
          \/ BriefMoves(g) \/ BriefReturns(g)
    \/ ClientEnds
    \/ \E c \in Callers : Dispatch(c) \/ Crash(c)
    \/ ServerDies

Next ==
    \/ \E c \in Callers : CallerStep(c)
    \/ OperatorStep
    \/ StampWrite
    \/ SweepStep
    \/ Environment

Spec == Init /\ [][Next]_vars

-----------------------------------------------------------------------------
(* Properties.                                                             *)

\* Types, and the two locks: a caller holds the seat's lock exactly while its call
\* is under way, and the catalog's lock is held by whoever is inside its batch.
TypeOK ==
    /\ rows \in [Generations -> Row]
    /\ batch \in [Generations -> Row]
    /\ used \in 0 .. MaxGenerations
    /\ dispatched \subseteq 1 .. used
    /\ panes \subseteq 1 .. used
    /\ briefs \in [Generations -> {"none", "open", "failed", "gone", "back"}]
    /\ calls \in [Actors -> Call]
    /\ phase \in {"idle", "looking", "compact"}
    /\ todo \subseteq Generations
    /\ faults \in 0 .. MaxFaults
    /\ stamp \in [gen : {0} \cup Generations, row : Row]
    /\ returned \subseteq Generations
    /\ \A c \in Callers : seatLock = c <=> ~At(c, "idle")
    /\ seatLock # Operator
    /\ \A a \in Actors : catalogLock = a <=> At(a, "opening") \/ At(a, "created")
    /\ catalogLock = Sweeper <=> phase = "looking"

LivenessOnly(old, new) ==
    /\ new.receipt = old.receipt
    /\ new.status = old.status \/ {old.status, new.status} \subseteq {"running", "exited"}

\* Two generations run in the seat at once only after one of them was given up
\* (exited, landed or terminated) and came back: no interleaving of dispatches,
\* opens and sweeps seats a second generation beside one that runs.
OneOccupant ==
    \A g, h \in Occupants(rows) : g # h => g \in returned \/ h \in returned

\* A dispatch that closes a generation closes neither one whose brief is still
\* viable in the inbox (one that was reclaimed and put back excepted) nor one that
\* no dispatch has opened.
RollbackSparesBriefed ==
    \A c \in Callers :
        calls[c].pc \in {"stop", "kill", "mark"} =>
            briefs[calls[c].gen] # "open" /\ calls[c].gen \in dispatched

\* Whoever ends a batch, by commit or by death, has changed no row but between
\* running and exited, and no receipt: what others closed, opened or bound while it
\* looked at tmux is not overwritten by the buffer it took before.
BatchLosesNothing ==
    [][catalogLock # Nobody /\ catalogLock' # catalogLock =>
         \A g \in Generations :
             rows[g].status # "none" => LivenessOnly(rows[g], rows'[g])]_vars

=============================================================================
