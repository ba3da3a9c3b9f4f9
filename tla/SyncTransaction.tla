-------------------------- MODULE SyncTransaction ---------------------------
(***************************************************************************)
(* The resumable source synchronization of a leaf contract with external   *)
(* memory (worktrees/sync_transaction*.py).  A call carries the source     *)
(* branch of the code and of the memory repository into the leaf's work    *)
(* branches and then moves the pair of base commits in the contract.       *)
(*                                                                         *)
(* One step is one durable effect (a git command, a ref, a journal or a    *)
(* contract write) with the reads that decide it; the process may die      *)
(* between two of them.  Between the calls the agent works in the          *)
(* worktrees, and the source branches move.                                *)
(***************************************************************************)
EXTENDS Integers, Sequences, FiniteSets

CONSTANTS
    MaxSource,  \* bound: versions of a source branch
    MaxOwn,     \* bound: commits of the agent on a work branch
    MaxEdits,   \* bound: uncommitted edits of the agent in a worktree
    MaxSyncs,   \* bound: generations admitted
    MaxCrashes, \* bound: how often the process dies inside a call
    Corruptible \* whether the journal file may be damaged between two calls

ASSUME SyncBounds ==
    /\ {MaxSource, MaxOwn, MaxEdits, MaxSyncs, MaxCrashes} \subseteq Nat
    /\ Corruptible \in BOOLEAN

Sides == {"code", "memory"}

\* A commit of a side's repository: the agent's commits in it, the source
\* version in it, and the source version in its first parent.  Commits of the
\* source branch carry none of the agent's commits.
Commits == [own : Nat, at : Nat, was : Nat]
SourceCommit(v) == [own |-> 0, at |-> v, was |-> v]
MergeCommit(c, v) == [own |-> c.own, at |-> v, was |-> c.at]
NoCommit == [own |-> 0, at |-> -1, was |-> -1]

RefNames == {"base", "pre", "source"}
Edits == Nat \ {0}

Phases == {"running-code", "code-resolution-required", "running-memory",
           "memory-resolution-required", "finalizing", "cancelling"}
Running == [code |-> "running-code", memory |-> "running-memory"]

\* Mutant: a phase the journal's schema does not have.
ResolutionMisnamed == [code |-> "code-resolution-required", memory |-> "memory-conflict"]

Resolution == [code |-> "code-resolution-required", memory |-> "memory-resolution-required"]
Choices == {"none", "merge-memory", "skip-memory"}

SideRecords ==
    [part : BOOLEAN,    \* whether the record has the side at all
     plan : {"already-current", "fast-forward", "merge", "skip"},
     state : {"pending", "resolution-required", "completed"},
     pre : Commits, source : Nat, base : Nat, result : Commits \cup {NoCommit},
     wip : {"", "parked", "restore-conflict", "restored"}, stash : SUBSET Edits]

\* `kind` tells a missing file, a transaction, the quarantine record and a
\* file that cannot be read as either.
Records == [kind : {"none", "record", "quarantine", "malformed"},
            generation : Nat, phase : Phases \cup {"completed", "cancelled"},
            choice : Choices, from : [Sides -> Nat], side : [Sides -> SideRecords]]

NoSide == [part |-> FALSE, plan |-> "skip", state |-> "pending",
           pre |-> SourceCommit(0), source |-> 0, base |-> 0, result |-> NoCommit,
           wip |-> "", stash |-> {}]
NoRecord == [kind |-> "none", generation |-> 0, phase |-> "cancelled", choice |-> "none",
             from |-> [s \in Sides |-> 0], side |-> [s \in Sides |-> NoSide]]

Steps == {"idle", "residue", "park", "pin", "publish", "run", "carry", "unresolved",
          "conflicted", "applied", "dropped", "advance", "rollback", "restore", "conclude",
          "retire", "partial"}
Calls == [step : Steps, side : Sides, admits : BOOLEAN, choice : Choices, record : Records]
NoCall == [step |-> "idle", side |-> "code", admits |-> FALSE, choice |-> "none",
           record |-> NoRecord]

VARIABLES
    head,       \* side -> head of the work branch
    source,     \* side -> version at the tip of the source branch
    merging,    \* side -> source version in MERGE_HEAD, 0 without a merge
    index,      \* side -> "none", "conflict", "staged" (a merge), "reapply"
    tree,       \* side -> uncommitted edits in the worktree
    stash,      \* side -> entries of the stash stack
    refs,       \* side -> name -> the commit the ref pins, NoCommit without it
    journal,    \* the record in reports/sync-operation.json
    base,       \* side -> base version in the contract
    syncLog,    \* the contract's sync_log: from and to of each entry
    call,       \* the call in progress
    edits,      \* side -> edits made
    owed,       \* history: parked edits the agent neither committed nor discarded
    crashes,    \* how often the process died
    damaged     \* history: "journal" or "residue" once the file was damaged

gitVars == <<head, merging, index, tree, stash, refs>>
fileVars == <<journal, base, syncLog>>
agentVars == <<edits, owed>>
faultVars == <<crashes, damaged>>
vars == <<gitVars, source, fileVars, call, agentVars, faultVars>>

-----------------------------------------------------------------------------
(* The journal and the pinned refs.                                         *)

Active(r) == r.kind = "record" /\ r.phase \in Phases
Terminal(r) == r.kind = "record" /\ r.phase \notin Phases
Moving(d) == d.part /\ d.plan \notin {"already-current", "skip"}

\* Mutant: a reapply the agent left in conflict counts as settled.
PendingUnlessConflict(d) == d.wip = "parked" /\ d.stash # {}

Pending(d) == d.wip \in {"parked", "restore-conflict"} /\ d.stash # {}

\* The value a ref must pin for a side.
Pin(d, name) == CASE name = "base" -> SourceCommit(d.base)
                  [] name = "pre" -> d.pre
                  [] name = "source" -> SourceCommit(d.source)

NoRefs == [name \in RefNames |-> NoCommit]
RefsExist == \E s \in Sides : refs[s] # NoRefs
Complete(s) == \A name \in RefNames : refs[s][name] # NoCommit
Partial(s) == refs[s] # NoRefs /\ ~Complete(s)

Pinned(r, allowMissing) ==
    \A s \in Sides, name \in RefNames :
        r.side[s].part
        => \/ refs[s][name] = Pin(r.side[s], name)
           \/ allowMissing /\ refs[s][name] = NoCommit

PinOrder == << <<"code", "base">>, <<"code", "pre">>, <<"code", "source">>,
               <<"memory", "base">>, <<"memory", "pre">>, <<"memory", "source">> >>
RetireOrder == << <<"memory", "source">>, <<"memory", "pre">>, <<"memory", "base">>,
                  <<"code", "source">>, <<"code", "pre">>, <<"code", "base">> >>

\* The first entry of an order that satisfies a condition.
First(order, Wanted(_)) ==
    order[CHOOSE i \in DOMAIN order :
            Wanted(order[i]) /\ \A j \in 1 .. i - 1 : ~Wanted(order[j])]

-----------------------------------------------------------------------------
(* Git as the transaction reads it.                                         *)

Contains(c, v) == v <= c.at
FastForwards(c, v) == c.own = 0 /\ c.at <= v
Dirty(s) == tree[s] # {} \/ index[s] # "none"

\* exact_created_head
Exact(c, d) == \/ c = SourceCommit(d.source) /\ FastForwards(d.pre, d.source)
               \/ c = MergeCommit(d.pre, d.source) /\ ~Contains(d.pre, d.source)

Merged(s, d) == merging[s] = 0 /\ Exact(head[s], d)

\* _require_active_merge
OwnMerge(s, d) == head[s] = d.pre /\ merging[s] = d.source

Unchanged(s, d) == head[s] = d.pre

\* Mutant: any head is reset, not only the one the sync created.
CanRollbackAny(s, d) == merging[s] # 0 => OwnMerge(s, d)

\* rollback_side: the three states it restores, without losing anything
CanRollback(s, d) ==
    IF merging[s] # 0 THEN OwnMerge(s, d)
    ELSE ~Dirty(s) /\ (head[s] = d.pre \/ Exact(head[s], d))

\* _prove_rollback_possible
Provable(s, d) == IF merging[s] # 0 THEN OwnMerge(s, d)
                  ELSE head[s] = d.pre \/ Exact(head[s], d)

-----------------------------------------------------------------------------
Init ==
    /\ head \in [Sides -> {[own |-> n, at |-> 0, was |-> 0] : n \in {0, 1} \cap 0 .. MaxOwn}]
    /\ source = [s \in Sides |-> 0]
    /\ merging = [s \in Sides |-> 0]
    /\ index = [s \in Sides |-> "none"]
    /\ tree = [s \in Sides |-> {}]
    /\ stash = [s \in Sides |-> {}]
    /\ refs = [s \in Sides |-> NoRefs]
    /\ journal = NoRecord
    /\ base = [s \in Sides |-> 0]
    /\ syncLog = <<>>
    /\ call = NoCall
    /\ edits = [s \in Sides |-> 0]
    /\ owed = [s \in Sides |-> {}]
    /\ crashes = 0
    /\ damaged = "no"

Return == call' = NoCall
Goto(step) == call' = [call EXCEPT !.step = step]

-----------------------------------------------------------------------------
(* A call: sync_contract_under_authority reads the journal and routes.      *)

\* _admit_and_run up to the first effect: the plan of both sides
Plan(s) == IF Contains(head[s], source[s]) THEN "already-current"
           ELSE IF FastForwards(head[s], source[s]) THEN "fast-forward" ELSE "merge"

SideRecord(s, choice) ==
    [NoSide EXCEPT !.part = TRUE, !.pre = head[s], !.source = source[s], !.base = base[s],
                   !.plan = IF s = "memory" /\ choice = "skip-memory" THEN "skip" ELSE Plan(s)]

NewRecord(choice) ==
    [kind |-> "record", generation |-> journal.generation + 1, phase |-> "running-code",
     choice |-> choice, from |-> base, side |-> [s \in Sides |-> SideRecord(s, choice)]]

\* The transaction has something to do, and the moving sides can be parked.
Admissible(choice) ==
    /\ \E s \in Sides : base[s] # source[s] \/ Plan(s) # "already-current"
    /\ Plan("memory") = "merge" => choice # "none"
    /\ \A s \in Sides : Moving(SideRecord(s, choice)) => index[s] = "none"

Admit(choice) ==
    /\ Admissible(choice)
    /\ call' = [NoCall EXCEPT !.step = "park", !.record = NewRecord(choice)]

\* _read_sync_record: nothing to resume, or the quarantine of a lost journal
CallAdmits ==
    /\ call = NoCall
    /\ journal.kind = "quarantine" \/ (journal.kind = "none" /\ ~RefsExist)
    /\ \E choice \in Choices : Admit(choice)
    /\ UNCHANGED <<gitVars, source, fileVars, agentVars, faultVars>>

\* A terminal record: cleanup_terminal_residue, then the next generation when
\* the call names no resolution action
CallFindsTerminal ==
    /\ call = NoCall
    /\ Terminal(journal)
    /\ \E admits \in BOOLEAN, choice \in Choices :
        /\ admits => journal.generation < MaxSyncs
        /\ ~admits => choice = "none"
        /\ call' = [NoCall EXCEPT !.step = "residue", !.admits = admits, !.choice = choice]
    /\ UNCHANGED <<gitVars, source, fileVars, agentVars, faultVars>>

\* _resume_active without an action
CallResumes ==
    /\ call = NoCall
    /\ Active(journal)
    /\ journal.phase \in {"running-code", "running-memory", "finalizing"}
    /\ Pinned(journal, journal.phase = "finalizing")
    /\ call' = [NoCall EXCEPT !.step = "run"]
    /\ UNCHANGED <<gitVars, source, fileVars, agentVars, faultVars>>

\* _resume_active with cancel, or any call once the phase is cancelling
CallCancels ==
    /\ call = NoCall
    /\ Active(journal)
    /\ Pinned(journal, journal.phase = "finalizing")
    /\ journal' = [journal EXCEPT !.phase = "cancelling"]
    /\ call' = [NoCall EXCEPT !.step = "rollback",
                               !.side = IF journal.side["memory"].part THEN "memory" ELSE "code"]
    /\ UNCHANGED <<gitVars, source, base, syncLog, agentVars, faultVars>>

\* _continue_resolution of a merge the agent resolved: commit it exactly
CallContinuesMerge(s) ==
    LET d == journal.side[s] IN
    /\ call = NoCall
    /\ Active(journal) /\ journal.phase = Resolution[s]
    /\ Pinned(journal, FALSE)
    /\ d.wip # "restore-conflict"
    /\ \/ Merged(s, d) /\ UNCHANGED <<head, merging, index>>
       \/ /\ OwnMerge(s, d) /\ index[s] = "staged"
          /\ head' = [head EXCEPT ![s] = MergeCommit(@, merging[s])]
          /\ merging' = [merging EXCEPT ![s] = 0]
          /\ index' = [index EXCEPT ![s] = "none"]
    /\ call' = [NoCall EXCEPT !.step = "carry", !.side = s]
    /\ UNCHANGED <<tree, stash, refs, source, fileVars, agentVars, faultVars>>

\* _continue_parked_wip_restore: settle_resolved_parked_wip, then drop the stash
CallContinuesReapply(s) ==
    /\ call = NoCall
    /\ Active(journal) /\ journal.phase = Resolution[s]
    /\ Pinned(journal, FALSE)
    /\ journal.side[s].wip = "restore-conflict"
    /\ index[s] \notin {"conflict", "reapply"}
    /\ call' = [NoCall EXCEPT !.step = "applied", !.side = s, !.record = journal]
    /\ UNCHANGED <<gitVars, source, fileVars, agentVars, faultVars>>

-----------------------------------------------------------------------------
(* Recovery without a readable journal, on an explicit cancel.              *)

\* complete_side_from_refs
RecoveredSide(s) ==
    IF ~Complete(s) THEN NoSide
    ELSE [NoSide EXCEPT !.part = TRUE, !.plan = "merge", !.pre = refs[s]["pre"],
                        !.source = refs[s]["source"].at, !.base = refs[s]["base"].at]

\* Mutant: the bases come from the contract, not from the pinned refs.
RecoveredFromContract ==
    [kind |-> "record", generation |-> 1, phase |-> "cancelling", choice |-> "none",
     from |-> base, side |-> [s \in Sides |-> RecoveredSide(s)]]

RecoveredRecord ==
    [kind |-> "record", generation |-> 1, phase |-> "cancelling",
     choice |-> IF Complete("memory") THEN "merge-memory" ELSE "none",
     from |-> [s \in Sides |-> IF Complete(s) THEN refs[s]["base"].at ELSE base[s]],
     side |-> [s \in Sides |-> RecoveredSide(s)]]

JournalLost == journal.kind = "malformed" \/ (journal.kind = "none" /\ RefsExist)
Incomplete == Partial("code") \/ Partial("memory")
              \/ (refs["code"] = NoRefs /\ Complete("memory"))

\* recover_unreadable_journal with no ref left
CallQuarantines ==
    /\ call = NoCall
    /\ journal.kind = "malformed" /\ ~RefsExist
    /\ journal' = [NoRecord EXCEPT !.kind = "quarantine"]
    /\ UNCHANGED <<gitVars, source, base, syncLog, call, agentVars, faultVars>>

\* _recover_from_refs: the refs say what to cancel
CallRecovers ==
    /\ call = NoCall
    /\ JournalLost /\ RefsExist /\ ~Incomplete
    /\ \A s \in Sides : Complete(s) => Provable(s, RecoveredSide(s))
    /\ journal' = RecoveredRecord
    /\ call' = [NoCall EXCEPT !.step = "rollback",
                               !.side = IF Complete("memory") THEN "memory" ELSE "code"]
    /\ UNCHANGED <<gitVars, source, base, syncLog, agentVars, faultVars>>

\* _recover_complete_sides_around_partial_authority: only one side can be complete
CallRecoversPartly(s) ==
    /\ call = NoCall
    /\ JournalLost /\ Incomplete
    /\ Complete(s) /\ CanRollback(s, RecoveredSide(s))
    /\ head' = [head EXCEPT ![s] = refs[s]["pre"]]
    /\ merging' = [merging EXCEPT ![s] = 0]
    /\ index' = [index EXCEPT ![s] = "none"]
    /\ call' = [NoCall EXCEPT !.step = "partial", !.side = s]
    /\ UNCHANGED <<tree, stash, refs, source, fileVars, agentVars, faultVars>>

DeleteRef(s, name) == refs' = [refs EXCEPT ![s][name] = NoCommit]

DeletePartial ==
    LET s == call.side
        held == {name \in RefNames : refs[s][name] # NoCommit}
        next == IF "source" \in held THEN "source" ELSE IF "pre" \in held THEN "pre" ELSE "base"
    IN
    /\ call.step = "partial"
    /\ \/ held # {} /\ DeleteRef(s, next) /\ UNCHANGED call
       \/ held = {} /\ Return /\ UNCHANGED refs
    /\ UNCHANGED <<head, merging, index, tree, stash, source, fileVars, agentVars, faultVars>>

-----------------------------------------------------------------------------
(* Admission: park, pin, publish.                                           *)

\* _park_participating_wip, one side
ParkWip ==
    LET s == call.side
        d == call.record.side[s]
        parks == Moving(d) /\ tree[s] # {}
        next == IF s = "code" THEN [call EXCEPT !.side = "memory"]
                ELSE [call EXCEPT !.side = "code", !.step = "pin"]
    IN
    /\ call.step = "park"
    /\ \/ ~parks /\ call' = next /\ UNCHANGED <<tree, stash, owed>>
       \/ /\ parks
          /\ stash' = [stash EXCEPT ![s] = @ \cup {tree[s]}]
          /\ tree' = [tree EXCEPT ![s] = {}]
          /\ owed' = [owed EXCEPT ![s] = @ \cup tree[s]]
          /\ call' = [next EXCEPT !.record = [@ EXCEPT !.side[s].wip = "parked",
                                                       !.side[s].stash = tree[s]]]
    /\ UNCHANGED <<head, merging, index, refs, source, fileVars, edits, faultVars>>

\* git stash push fails: _restore_already_parked returns the code candidate
ParkFails ==
    LET d == call.record.side["code"]
        undo == call.side = "memory" /\ d.wip = "parked"
    IN
    /\ call.step = "park"
    /\ Moving(call.record.side[call.side]) /\ tree[call.side] # {}
    /\ tree' = IF undo THEN [tree EXCEPT !["code"] = d.stash] ELSE tree
    /\ stash' = IF undo THEN [stash EXCEPT !["code"] = @ \ {d.stash}] ELSE stash
    /\ Return
    /\ UNCHANGED <<head, merging, index, refs, source, fileVars, agentVars, faultVars>>

\* pin_authority, one ref; a ref that pins another commit is refused
PinRef ==
    LET Wants(o) == refs[o[1]][o[2]] # Pin(call.record.side[o[1]], o[2]) IN
    /\ call.step = "pin"
    /\ IF \E i \in DOMAIN PinOrder : Wants(PinOrder[i])
       THEN LET o == First(PinOrder, Wants) IN
            \/ /\ refs[o[1]][o[2]] = NoCommit
               /\ refs' = [refs EXCEPT ![o[1]][o[2]] = Pin(call.record.side[o[1]], o[2])]
               /\ UNCHANGED call
            \/ refs[o[1]][o[2]] # NoCommit /\ Return /\ UNCHANGED refs
       ELSE Goto("publish") /\ UNCHANGED refs
    /\ UNCHANGED <<head, merging, index, tree, stash, source, fileVars, agentVars, faultVars>>

PublishRecord ==
    /\ call.step = "publish"
    /\ journal' = call.record
    /\ call' = [NoCall EXCEPT !.step = "run"]
    /\ UNCHANGED <<gitVars, source, base, syncLog, agentVars, faultVars>>

-----------------------------------------------------------------------------
(* _run_automatic: carry the code side, the memory side, finalize.          *)

RunningSide(s) == call.step = "run" /\ journal.phase = Running[s]
NextPhase(s) == IF s = "code" /\ journal.side["memory"].part THEN "running-memory"
                ELSE "finalizing"

\* The side as the call holds it once its merge is done.
Carried(r, s) ==
    [r EXCEPT !.side[s].state = "completed",
              !.side[s].result = IF r.side[s].plan = "skip" THEN r.side[s].pre ELSE head[s]]

\* _advance_after_side
Advance(r, s) == journal' = [Carried(r, s) EXCEPT !.phase = NextPhase(s)]

\* A side that does not move: _reconcile_completed_sides takes the head it finds
RunUnmoved(s) ==
    /\ RunningSide(s) /\ ~Moving(journal.side[s])
    /\ Advance(journal, s)
    /\ UNCHANGED <<gitVars, source, base, syncLog, call, agentVars, faultVars>>

\* _reconcile_completed_sides, _existing_side_merge: the merge is already there
AdoptMerged(s) ==
    /\ RunningSide(s) /\ Moving(journal.side[s])
    /\ Merged(s, journal.side[s])
    /\ call' = [call EXCEPT !.step = "carry", !.side = s]
    /\ UNCHANGED <<gitVars, source, fileVars, agentVars, faultVars>>

\* start_side_merge on an untouched side; a memory merge is left uncommitted
StartMerge(s) ==
    LET d == journal.side[s] IN
    /\ RunningSide(s) /\ Moving(d)
    /\ merging[s] = 0 /\ head[s] = d.pre /\ ~Dirty(s)
    /\ \/ /\ d.plan = "fast-forward"
          /\ head' = [head EXCEPT ![s] = SourceCommit(d.source)]
          /\ UNCHANGED <<merging, index>>
       \/ /\ d.plan = "merge" /\ s = "code"
          /\ head' = [head EXCEPT ![s] = MergeCommit(@, d.source)]
          /\ UNCHANGED <<merging, index>>
       \/ /\ d.plan = "merge"
          /\ merging' = [merging EXCEPT ![s] = d.source]
          /\ \E i \in {"conflict"} \cup (IF s = "memory" THEN {"staged"} ELSE {}) :
                 index' = [index EXCEPT ![s] = i]
          /\ UNCHANGED head
    /\ UNCHANGED <<tree, stash, refs, source, fileVars, call, agentVars, faultVars>>

\* _continue_memory_merge, _finish_staged_memory_merge
Finishes(s) == s = "memory" /\ index[s] = "staged"

FinishMemoryMerge ==
    /\ RunningSide("memory") /\ OwnMerge("memory", journal.side["memory"])
    /\ merging["memory"] # 0 /\ Finishes("memory")
    /\ head' = [head EXCEPT !["memory"] = MergeCommit(@, merging["memory"])]
    /\ merging' = [merging EXCEPT !["memory"] = 0]
    /\ index' = [index EXCEPT !["memory"] = "none"]
    /\ UNCHANGED <<tree, stash, refs, source, fileVars, call, agentVars, faultVars>>

\* The merge has conflicts, or the agent's resolution awaits its continue
RetainMerge(s) ==
    /\ RunningSide(s) /\ Moving(journal.side[s])
    /\ merging[s] # 0 /\ OwnMerge(s, journal.side[s]) /\ ~Finishes(s)
    /\ journal' = [journal EXCEPT !.phase = Resolution[s],
                                  !.side[s].state = "resolution-required"]
    /\ Return
    /\ UNCHANGED <<gitVars, source, base, syncLog, agentVars, faultVars>>

\* The proofs of _run_side and start_side_merge that end the call
RunRefused(s) ==
    LET d == journal.side[s] IN
    /\ RunningSide(s)
    /\ IF Moving(d)
       THEN /\ ~Merged(s, d)
            /\ IF merging[s] # 0 THEN ~OwnMerge(s, d) ELSE head[s] # d.pre \/ Dirty(s)
       ELSE s = "memory" /\ ~Unchanged(s, d)
    /\ Return
    /\ UNCHANGED <<gitVars, source, fileVars, agentVars, faultVars>>

-----------------------------------------------------------------------------
(* restore_parked_wip: apply, drop, journal.                                *)

CarryUnparked ==
    LET s == call.side IN
    /\ call.step = "carry" /\ ~Pending(journal.side[s])
    /\ Advance(journal, s)
    /\ Goto("run")
    /\ UNCHANGED <<gitVars, source, base, syncLog, agentVars, faultVars>>

\* apply_parked_wip
ReapplyWip ==
    LET s == call.side
        d == journal.side[s]
        To(step) == call' = [call EXCEPT !.step = step, !.record = Carried(journal, s)]
    IN
    /\ call.step = "carry" /\ Pending(d)
    /\ \/ /\ index[s] # "reapply"
          /\ tree' = [tree EXCEPT ![s] = @ \cup d.stash]
          /\ To("applied") /\ UNCHANGED index
       \/ /\ ~Dirty(s)
          /\ tree' = [tree EXCEPT ![s] = d.stash]
          /\ index' = [index EXCEPT ![s] = "reapply"]
          /\ To("conflicted")
       \/ index[s] = "reapply" /\ To("conflicted") /\ UNCHANGED <<tree, index>>
       \/ tree[s] # {} /\ index[s] = "none" /\ Return /\ UNCHANGED <<tree, index>>
    /\ UNCHANGED <<head, merging, stash, refs, source, fileVars, agentVars, faultVars>>

RetainReapply ==
    LET s == call.side IN
    /\ call.step = "conflicted"
    /\ journal' = [call.record EXCEPT !.phase = Resolution[s],
                                      !.side[s].state = "resolution-required",
                                      !.side[s].wip = "restore-conflict"]
    /\ Return
    /\ UNCHANGED <<gitVars, source, base, syncLog, agentVars, faultVars>>

\* drop_parked_wip: exactly the recorded entry
DropStash ==
    LET s == call.side IN
    /\ call.step = "applied"
    /\ stash' = [stash EXCEPT ![s] = @ \ {call.record.side[s].stash}]
    /\ Goto("dropped")
    /\ UNCHANGED <<head, merging, index, tree, refs, source, fileVars, agentVars, faultVars>>

RecordRestored ==
    LET s == call.side
        r == [call.record EXCEPT !.side[s].wip = "restored"]
    IN
    /\ call.step = "dropped"
    /\ journal' = r
    /\ call' = [call EXCEPT !.record = r,
                            !.step = IF r.phase = "cancelling" THEN "restore" ELSE "advance"]
    /\ UNCHANGED <<gitVars, source, base, syncLog, agentVars, faultVars>>

AdvanceRestored ==
    LET s == call.side IN
    /\ call.step = "advance"
    /\ journal' = [call.record EXCEPT !.side[s].state = "completed", !.phase = NextPhase(s)]
    /\ call' = [NoCall EXCEPT !.step = "run"]
    /\ UNCHANGED <<gitVars, source, base, syncLog, agentVars, faultVars>>

-----------------------------------------------------------------------------
(* finalize_sync, and the cleanup of its residue.                           *)

\* target_memory_base, and the code source
Target(r) == [s \in Sides |-> IF r.side[s].part /\ r.side[s].plan # "skip"
                              THEN r.side[s].source ELSE r.from[s]]

\* require_finalizable_contract, _require_completed_branches, require_parked_wip_settled
Finalizable(r) ==
    \A s \in Sides :
        /\ base[s] \in {r.from[s], Target(r)[s]}
        /\ r.side[s].part
           => /\ r.side[s].state = "completed" /\ head[s] = r.side[s].result
              /\ IF Moving(r.side[s]) THEN Exact(head[s], r.side[s]) ELSE Unchanged(s, r.side[s])
              /\ ~Pending(r.side[s])

\* Mutant: the contract is written again by a call that resumes.
WriteContractAgain ==
    /\ call.step = "run" /\ journal.phase = "finalizing" /\ Finalizable(journal)
    /\ Len(syncLog) < 2
    /\ base' = Target(journal)
    /\ syncLog' = Append(syncLog, [from |-> journal.from, to |-> Target(journal)])
    /\ UNCHANGED <<gitVars, source, journal, call, agentVars, faultVars>>

WriteContract ==
    /\ call.step = "run" /\ journal.phase = "finalizing" /\ Finalizable(journal)
    /\ base # Target(journal)
    /\ base' = Target(journal)
    /\ syncLog' = Append(syncLog, [from |-> journal.from, to |-> Target(journal)])
    /\ UNCHANGED <<gitVars, source, journal, call, agentVars, faultVars>>

PublishCompleted ==
    /\ call.step = "run" /\ journal.phase = "finalizing" /\ Finalizable(journal)
    /\ base = Target(journal)
    /\ journal' = [journal EXCEPT !.phase = "completed"]
    /\ Goto("retire")
    /\ UNCHANGED <<gitVars, source, base, syncLog, agentVars, faultVars>>

FinalizeRefused ==
    /\ call.step = "run" /\ journal.phase = "finalizing" /\ ~Finalizable(journal)
    /\ Return
    /\ UNCHANGED <<gitVars, source, fileVars, agentVars, faultVars>>

\* delete_authority, one ref; a ref that pins another commit ends the call.
\* After a cleanup_terminal_residue the call may admit the next generation.
DeleteAuthority ==
    LET Held(o) == journal.side[o[1]].part /\ refs[o[1]][o[2]] # NoCommit IN
    /\ call.step \in {"retire", "residue"}
    /\ IF \E i \in DOMAIN RetireOrder : Held(RetireOrder[i])
       THEN LET o == First(RetireOrder, Held) IN
            \/ /\ refs[o[1]][o[2]] = Pin(journal.side[o[1]], o[2])
               /\ DeleteRef(o[1], o[2]) /\ UNCHANGED call
            \/ refs[o[1]][o[2]] # Pin(journal.side[o[1]], o[2]) /\ Return /\ UNCHANGED refs
       ELSE /\ \/ call.admits /\ Admit(call.choice)
               \/ ~(call.admits /\ Admissible(call.choice)) /\ Return
            /\ UNCHANGED refs
    /\ UNCHANGED <<head, merging, index, tree, stash, source, fileVars, agentVars, faultVars>>

-----------------------------------------------------------------------------
(* cancel_sync: both sides back to their pinned heads, memory first.        *)

\* Mutant: the tree is reset for a candidate that was already returned.
DiscardReturned ==
    LET s == call.side IN
    /\ call.step = "rollback"
    /\ journal.side[s].wip \in {"restore-conflict", "restored"} /\ Dirty(s) /\ merging[s] = 0
    /\ tree' = [tree EXCEPT ![s] = {}]
    /\ index' = [index EXCEPT ![s] = "none"]
    /\ UNCHANGED <<head, merging, stash, refs, source, fileVars, call, agentVars, faultVars>>

\* discard_conflicted_wip_reapply: git reset --hard
DiscardReapply ==
    LET s == call.side IN
    /\ call.step = "rollback"
    /\ journal.side[s].wip = "restore-conflict" /\ Dirty(s) /\ merging[s] = 0
    /\ tree' = [tree EXCEPT ![s] = {}]
    /\ index' = [index EXCEPT ![s] = "none"]
    /\ UNCHANGED <<head, merging, stash, refs, source, fileVars, call, agentVars, faultVars>>

CanCancel(s) == LET d == journal.side[s] IN
    IF Moving(d) THEN CanRollback(s, d) ELSE Unchanged(s, d)

RollbackSide ==
    LET s == call.side IN
    /\ call.step = "rollback" /\ CanCancel(s)
    /\ IF Moving(journal.side[s])
       THEN /\ head' = [head EXCEPT ![s] = journal.side[s].pre]
            /\ merging' = [merging EXCEPT ![s] = 0]
            /\ index' = [index EXCEPT ![s] = "none"]
       ELSE UNCHANGED <<head, merging, index>>
    /\ call' = IF s = "memory" THEN [call EXCEPT !.side = "code"]
               ELSE [call EXCEPT !.side = "memory", !.step = "restore"]
    /\ UNCHANGED <<tree, stash, refs, source, fileVars, agentVars, faultVars>>

RollbackRefused ==
    LET s == call.side IN
    /\ call.step = "rollback" /\ ~CanCancel(s)
    /\ ~(journal.side[s].wip = "restore-conflict" /\ Dirty(s) /\ merging[s] = 0)
    /\ Return
    /\ UNCHANGED <<gitVars, source, fileVars, agentVars, faultVars>>

\* restore_cancelled_wip on the clean pre-sync head
RestoreCancelled ==
    LET s == call.side
        d == journal.side[s]
    IN
    /\ call.step = "restore"
    /\ \/ /\ Pending(d)
          /\ tree' = [tree EXCEPT ![s] = @ \cup d.stash]
          /\ call' = [call EXCEPT !.step = "applied", !.record = journal]
       \/ /\ ~Pending(d)
          /\ call' = IF s = "memory" THEN [call EXCEPT !.side = "code"]
                     ELSE [NoCall EXCEPT !.step = "conclude"]
          /\ UNCHANGED tree
    /\ UNCHANGED <<head, merging, index, stash, refs, source, fileVars, agentVars, faultVars>>

\* Mutant: the refs are deleted before the terminal record is published.
RetireBeforePublish ==
    /\ call.step = "conclude"
    /\ Goto("retire")
    /\ UNCHANGED <<gitVars, source, fileVars, agentVars, faultVars>>

\* require_contract_bases_unchanged comes after the rollback
PublishCancelled ==
    /\ call.step = "conclude"
    /\ \/ /\ base = journal.from
          /\ journal' = [journal EXCEPT !.phase = "cancelled"]
          /\ Goto("retire")
       \/ base # journal.from /\ Return /\ UNCHANGED journal
    /\ UNCHANGED <<gitVars, source, base, syncLog, agentVars, faultVars>>

-----------------------------------------------------------------------------
(* The agent between two calls, the official line, and faults.              *)

AgentEdits(s) ==
    /\ call = NoCall /\ index[s] = "none" /\ edits[s] < MaxEdits
    /\ edits' = [edits EXCEPT ![s] = @ + 1]
    /\ tree' = [tree EXCEPT ![s] = @ \cup {edits'[s]}]
    /\ UNCHANGED <<head, merging, index, stash, refs, source, fileVars, call, owed, faultVars>>

AgentCommits(s) ==
    /\ call = NoCall /\ index[s] = "none" /\ head[s].own < MaxOwn
    /\ head' = [head EXCEPT ![s] = [own |-> @.own + 1, at |-> @.at, was |-> @.at]]
    /\ tree' = [tree EXCEPT ![s] = {}]
    /\ owed' = [owed EXCEPT ![s] = @ \ tree[s]]
    /\ UNCHANGED <<merging, index, stash, refs, source, fileVars, call, edits, faultVars>>

AgentDiscards(s) ==
    /\ call = NoCall /\ index[s] \in {"none", "reapply"} /\ tree[s] # {}
    /\ tree' = [tree EXCEPT ![s] = {}]
    /\ index' = [index EXCEPT ![s] = "none"]
    /\ owed' = [owed EXCEPT ![s] = @ \ tree[s]]
    /\ UNCHANGED <<head, merging, stash, refs, source, fileVars, call, edits, faultVars>>

\* A retained conflict: staged, or for a reapplied candidate settled in the tree
AgentResolves(s) ==
    /\ call = NoCall /\ index[s] \in {"conflict", "reapply"}
    /\ index' = [index EXCEPT ![s] = IF @ = "conflict" THEN "staged" ELSE "none"]
    /\ UNCHANGED <<head, merging, tree, stash, refs, source, fileVars, call, agentVars, faultVars>>

\* git commit or git merge --abort inside the retained merge
AgentEndsMerge(s) ==
    /\ call = NoCall /\ merging[s] # 0
    /\ \/ index[s] = "staged" /\ head' = [head EXCEPT ![s] = MergeCommit(@, merging[s])]
       \/ UNCHANGED head
    /\ merging' = [merging EXCEPT ![s] = 0]
    /\ index' = [index EXCEPT ![s] = "none"]
    /\ UNCHANGED <<tree, stash, refs, source, fileVars, call, agentVars, faultVars>>

\* Only the admission reads a source tip: a move during a call commutes with
\* the steps that follow it.
SourceMoves(s) ==
    /\ call = NoCall /\ source[s] < MaxSource
    /\ source' = [source EXCEPT ![s] = @ + 1]
    /\ UNCHANGED <<gitVars, fileVars, call, agentVars, faultVars>>

Crash ==
    /\ call # NoCall /\ crashes < MaxCrashes
    /\ crashes' = crashes + 1
    /\ Return
    /\ UNCHANGED <<gitVars, source, fileVars, agentVars, damaged>>

\* The file of an open transaction, or of an ended one, whose refs may still be there.
DamageJournal ==
    /\ Corruptible /\ damaged = "no" /\ call = NoCall
    /\ Active(journal) \/ Terminal(journal)
    /\ journal' = [NoRecord EXCEPT !.kind = "malformed"]
    /\ damaged' = IF Terminal(journal) /\ RefsExist THEN "residue" ELSE "journal"
    /\ UNCHANGED <<gitVars, source, base, syncLog, call, agentVars, crashes>>

Call == \/ CallAdmits \/ CallFindsTerminal \/ CallResumes \/ CallCancels
        \/ \E s \in Sides : CallContinuesMerge(s) \/ CallContinuesReapply(s)
        \/ CallQuarantines \/ CallRecovers \/ \E s \in Sides : CallRecoversPartly(s)

Step == \/ DeletePartial \/ ParkWip \/ ParkFails \/ PinRef \/ PublishRecord
        \/ \E s \in Sides : RunUnmoved(s) \/ AdoptMerged(s) \/ StartMerge(s)
                             \/ RetainMerge(s) \/ RunRefused(s)
        \/ FinishMemoryMerge
        \/ CarryUnparked \/ ReapplyWip \/ RetainReapply \/ DropStash \/ RecordRestored
        \/ AdvanceRestored \/ WriteContract \/ PublishCompleted \/ FinalizeRefused
        \/ DeleteAuthority \/ DiscardReapply \/ RollbackSide \/ RollbackRefused
        \/ RestoreCancelled \/ PublishCancelled

Agent == \E s \in Sides : AgentEdits(s) \/ AgentCommits(s) \/ AgentDiscards(s)
                           \/ AgentResolves(s) \/ AgentEndsMerge(s)

Next == Call \/ Step \/ Agent \/ (\E s \in Sides : SourceMoves(s)) \/ Crash \/ DamageJournal

Spec == Init /\ [][Next]_vars

-----------------------------------------------------------------------------
(* Properties.                                                              *)

\* The types of the state.
TypeOK ==
    /\ head \in [Sides -> Commits] /\ source \in [Sides -> Nat] /\ merging \in [Sides -> Nat]
    /\ index \in [Sides -> {"none", "conflict", "staged", "reapply"}]
    /\ tree \in [Sides -> SUBSET Edits] /\ stash \in [Sides -> SUBSET SUBSET Edits]
    /\ refs \in [Sides -> [RefNames -> Commits \cup {NoCommit}]]
    /\ journal \in Records /\ base \in [Sides -> Nat]
    /\ syncLog \in Seq([from : [Sides -> Nat], to : [Sides -> Nat]])
    /\ call \in Calls
    /\ edits \in [Sides -> Nat] /\ owed \in [Sides -> SUBSET Edits]
    /\ crashes \in Nat /\ damaged \in {"no", "journal", "residue"}

\* An active transaction can be rolled back: both sides' base, pre-sync head
\* and source are pinned exactly as its journal says, at every cut of every
\* call (delete_authority only after the terminal record is published).
AuthorityPinned == Active(journal) => Pinned(journal, FALSE)

\* What a sync parked is never lost while its journal is readable: it is in
\* the worktree, on the stash stack, or named by the active journal, until
\* the agent commits or discards it.
ParkedWorkKept ==
    damaged = "no" =>
    \A s \in Sides :
        owed[s] \subseteq tree[s] \cup (UNION stash[s]) \cup
                         (IF Active(journal) /\ Pending(journal.side[s])
                          THEN journal.side[s].stash ELSE {})

\* A terminal record is published only with the candidate its own sides
\* parked back in the worktrees, unless the agent disposed of it.
TerminalReturnsWork ==
    [][Active(journal) /\ Terminal(journal')
       => \A s \in Sides : owed[s] \cap journal.side[s].stash \subseteq tree[s]]_vars

\* No step of a sync takes a commit of the agent off a work branch.
OwnCommitsKept == [][\A s \in Sides : head'[s].own >= head[s].own]_vars

\* The sync_log is the gapless history of the recorded bases: an entry is
\* written once per move, although a crash may follow the contract write.
SyncLogChains ==
    /\ \A i \in 1 .. Len(syncLog) - 1 : syncLog[i].to = syncLog[i + 1].from
    /\ syncLog # <<>> => base = syncLog[Len(syncLog)].to
    /\ \A i \in DOMAIN syncLog : syncLog[i].from # syncLog[i].to

\* "A crash at any later cut leaves a terminal record whose residue cleanup
\* is strictly idempotent": the refs found beside a terminal record are its own.
ResidueIsOwn == Terminal(journal) /\ call = NoCall => Pinned(journal, TRUE)

\* What the contract's readers may rely on: a side whose transaction is open
\* counts as it was pinned.
Open(s) == refs[s]["pre"] # NoCommit /\ ~Terminal(journal)
Branch == [s \in Sides |-> IF Open(s) THEN refs[s]["pre"] ELSE head[s]]
Bases == [s \in Sides |-> IF Open(s) THEN refs[s]["base"].at ELSE base[s]]
Atomic == INSTANCE SyncAtomic WITH branch <- Branch, base <- Bases

\* All or nothing: under crashes, refused and repeated calls, a damaged journal
\* and the agent's commits, both branches and both bases move in the one step
\* that publishes "completed", and a cancelled sync is as if it never was; until
\* the record of an ended sync is damaged while the refs it left are still there,
\* which the recovery from refs takes for those of an open one.
AllOrNothing == Atomic!Init /\ [][Atomic!Next \/ damaged' = "residue"]_<<Branch, Bases>>
=============================================================================
