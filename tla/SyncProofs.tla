----------------------------- MODULE SyncProofs -----------------------------
(***************************************************************************)
(* Theorems of SyncTransaction, for any number of source versions, agent   *)
(* commits, edits, generations and crashes, with and without a damaged     *)
(* journal: types, the pinned authority of an open transaction, the parked *)
(* work, the agent's commits and the history of the recorded bases.        *)
(*                                                                         *)
(* The argument follows the authority of a transaction (the three commits  *)
(* pinned for each side) from the record a call holds to the refs and to   *)
(* the journal: whatever is written to the journal names the same sides,   *)
(* and refs are deleted only once the journal is terminal or lost.         *)
(***************************************************************************)
EXTENDS SyncTransaction, SequenceTheorems, WellFoundedInduction, TLAPS

-----------------------------------------------------------------------------
(* The inductive invariant.                                                *)

\* Two records of a side that pin the same, with the same candidate parked.
SameSide(d, e) ==
    /\ d.part = e.part /\ d.plan = e.plan /\ d.stash = e.stash
    /\ d.pre = e.pre /\ d.source = e.source /\ d.base = e.base

SameSides(r, q) ==
    r.kind = q.kind /\ r.from = q.from /\ \A s \in Sides : SameSide(r.side[s], q.side[s])

Admitting == {"park", "pin", "publish"}
Holding == {"conflicted", "applied", "dropped", "advance"}
Carrying == Holding \cup {"carry"}
Cancelling == {"rollback", "restore", "conclude"}

\* The plan of a side is the one its pinned commits call for.
Planned(s, d) ==
    /\ d.plan = "skip" => s = "memory"
    /\ d.plan = "already-current" => Contains(d.pre, d.source)
    /\ d.plan = "fast-forward" => ~Contains(d.pre, d.source) /\ FastForwards(d.pre, d.source)
    /\ d.plan = "merge" => ~Contains(d.pre, d.source) /\ ~FastForwards(d.pre, d.source)

\* The record a call is about to publish is of the heads and bases as they are.
AdmissionInv ==
    call.step \in Admitting =>
        /\ ~Active(journal)
        /\ call.record.kind = "record" /\ call.record.phase = "running-code"
        /\ call.record.from = base
        /\ \A s \in Sides :
              LET d == call.record.side[s] IN
              /\ d.part /\ d.pre = head[s] /\ d.base = base[s]
              /\ base[s] <= d.source /\ d.source <= source[s]
              /\ Planned(s, d)
              /\ Moving(d) => index[s] = "none"

\* Where a call is, and what the journal says then.
CallInv ==
    /\ call.step = "publish" => Pinned(call.record, FALSE)
    /\ call.step \in {"retire", "residue"} => Terminal(journal)
    /\ call.step = "partial" => journal.kind \in {"none", "malformed"}
    /\ call.step = "run" => Active(journal) /\ journal.phase # "cancelling"
    /\ call.step \in Carrying =>
          Active(journal) /\ journal.phase \in {Running[call.side], Resolution[call.side], "cancelling"}
    /\ call.step \in {"carry", "conflicted", "advance"} => journal.phase # "cancelling"
    /\ call.step \in {"conflicted", "applied", "dropped"} =>
          journal.side[call.side].wip \in {"parked", "restore-conflict"}
    /\ call.step \in Holding =>
          /\ SameSides(call.record, journal) /\ call.record.phase = journal.phase
          /\ \A s \in Sides : call.record.side[s].wip = journal.side[s].wip
    /\ call.step \in Cancelling => Active(journal) /\ journal.phase = "cancelling"
    /\ call.step # "unresolved"

\* An open transaction: its sides, their plans, and the bases it started from.
JournalInv ==
    Active(journal) =>
        /\ journal.side["code"].part
        /\ \A s \in Sides : journal.side[s].part => journal.side[s].base = journal.from[s]
        /\ journal.phase # "cancelling" => \A s \in Sides :
              LET d == journal.side[s] IN
              /\ d.part /\ journal.from[s] <= d.source /\ d.source <= source[s]
              /\ Planned(s, d)
        /\ journal.phase \notin {"cancelling", "finalizing"} => base = journal.from
        /\ journal.phase = "finalizing" => base \in {journal.from, Target(journal)}

\* The refs of the bases and of the sources pin commits of the source branch.
RefInv ==
    \A s \in Sides, name \in {"base", "source"} :
        refs[s][name] # NoCommit => refs[s][name] = SourceCommit(refs[s][name].at)

\* A recorded base is never ahead of the source branch.
BaseInv == \A s \in Sides : base[s] <= source[s]

\* Only edits that were made are owed, in the worktree, on the stack or parked.
OwedInv == \A s \in Sides :
    /\ owed[s] \subseteq 1 .. edits[s] /\ tree[s] \subseteq 1 .. edits[s]
    /\ \A x \in stash[s] : x \subseteq 1 .. edits[s]
    /\ journal.side[s].stash \subseteq 1 .. edits[s]

\* The journal names a candidate only where one was parked.
NamedInv == \A s \in Sides : journal.side[s].wip = "" => journal.side[s].stash = {}

\* During the admission a parked candidate is on the stash stack and out of the worktree.
ParkingInv ==
    call.step \in Admitting => \A s \in Sides :
        \/ call.record.side[s].wip = "" /\ call.record.side[s].stash = {}
        \/ /\ call.record.side[s].wip = "parked"
           /\ tree[s] = {} /\ index[s] = "none" /\ call.record.side[s].stash \in stash[s]

\* What is owed of the parked candidate is back in the worktree.
Back(s) == owed[s] \cap journal.side[s].stash \subseteq tree[s]

\* The candidate of an open transaction, as its journal tells it.
CandidateInv ==
    Active(journal) => \A s \in Sides :
        LET d == journal.side[s] IN
        /\ d.wip # "" => owed[s] \cap tree[s] \subseteq d.stash
        /\ d.wip = "restored" => Back(s)
        /\ d.wip = "restore-conflict" /\ journal.phase # "cancelling" => Back(s)
        /\ index[s] = "reapply" /\ Pending(d) => Back(s)

\* The candidate, as the call that returns it goes on.
ReturnInv ==
    /\ call.step \in {"conflicted", "applied", "dropped"} => Back(call.side)
    /\ call.step = "conclude" => \A s \in Sides : ~Pending(journal.side[s])
    /\ /\ call.step \in {"restore", "applied", "dropped"}
       /\ journal.phase = "cancelling" /\ call.side = "code"
       => ~Pending(journal.side["memory"])

\* What is invariant of the repositories, the files and the agent, and of the call.
StateInv ==
    /\ JournalInv /\ RefInv /\ BaseInv /\ OwedInv /\ NamedInv /\ CandidateInv
    /\ AuthorityPinned /\ ParkedWorkKept /\ SyncLogChains
ProgressInv == AdmissionInv /\ ParkingInv /\ CallInv /\ ReturnInv

IInv == TypeOK /\ StateInv /\ ProgressInv

-----------------------------------------------------------------------------
(* Types, in the parts that the proofs use, and the shapes of records.     *)

GitType ==
    /\ head \in [Sides -> Commits] /\ source \in [Sides -> Nat] /\ merging \in [Sides -> Nat]
    /\ index \in [Sides -> {"none", "conflict", "staged", "reapply"}]
    /\ tree \in [Sides -> SUBSET Edits] /\ stash \in [Sides -> SUBSET SUBSET Edits]
    /\ refs \in [Sides -> [RefNames -> Commits \cup {NoCommit}]]

FileType ==
    /\ journal \in Records /\ base \in [Sides -> Nat]
    /\ syncLog \in Seq([from : [Sides -> Nat], to : [Sides -> Nat]])

CallType == call \in Calls

AgentType ==
    /\ edits \in [Sides -> Nat] /\ owed \in [Sides -> SUBSET Edits]
    /\ crashes \in Nat /\ damaged \in {"no", "journal", "residue"}

\* The type invariant is its parts.
LEMMA TypeParts == TypeOK <=> GitType /\ FileType /\ CallType /\ AgentType
  BY DEF TypeOK, GitType, FileType, CallType, AgentType

LEMMA TypePartsNext == TypeOK' <=> GitType' /\ FileType' /\ CallType' /\ AgentType'
  BY DEF TypeOK, GitType, FileType, CallType, AgentType

\* A commit of the source branch, a merge commit, and the missing one.
LEMMA CommitFacts ==
    /\ \A v \in Nat : /\ SourceCommit(v) \in Commits
                      /\ SourceCommit(v).own = 0 /\ SourceCommit(v).at = v /\ SourceCommit(v).was = v
    /\ \A c \in Commits, v \in Nat :
          /\ MergeCommit(c, v) \in Commits
          /\ MergeCommit(c, v).own = c.own /\ MergeCommit(c, v).at = v
          /\ MergeCommit(c, v).was = c.at
    /\ \A c \in Commits : c.own \in Nat /\ c.at \in Nat /\ c.was \in Nat
    /\ NoCommit \notin Commits
  BY DEF Commits, SourceCommit, MergeCommit, NoCommit

LEMMA SideFields ==
    ASSUME NEW d \in SideRecords
    PROVE  /\ d.part \in BOOLEAN
           /\ d.plan \in {"already-current", "fast-forward", "merge", "skip"}
           /\ d.pre \in Commits /\ d.source \in Nat /\ d.base \in Nat
           /\ d.wip \in {"", "parked", "restore-conflict", "restored"}
           /\ d.stash \in SUBSET Edits
  BY DEF SideRecords

LEMMA RecordFields ==
    ASSUME NEW r \in Records
    PROVE  /\ r.kind \in {"none", "record", "quarantine", "malformed"}
           /\ r.phase \in Phases \cup {"completed", "cancelled"}
           /\ r.from \in [Sides -> Nat]
           /\ \A s \in Sides : r.from[s] \in Nat /\ r.side[s] \in SideRecords
  BY DEF Records

LEMMA CallFields ==
    ASSUME CallType
    PROVE  /\ call.step \in Steps /\ call.side \in Sides /\ call.choice \in Choices
           /\ call.record \in Records
  BY DEF CallType, Calls

\* The value a ref must have is a commit, and those of a base and a source are of the source branch.
LEMMA PinFacts ==
    ASSUME NEW d \in SideRecords, NEW name \in RefNames
    PROVE  /\ Pin(d, name) \in Commits /\ Pin(d, name) # NoCommit
           /\ name \in {"base", "source"} => Pin(d, name) = SourceCommit(Pin(d, name).at)
           /\ Pin(d, "pre") = d.pre
           /\ Pin(d, "base") = SourceCommit(d.base) /\ Pin(d, "source") = SourceCommit(d.source)
  <1>1. d.pre \in Commits /\ d.source \in Nat /\ d.base \in Nat
    BY SideFields
  <1>2. /\ Pin(d, "pre") = d.pre
        /\ Pin(d, "base") = SourceCommit(d.base) /\ Pin(d, "source") = SourceCommit(d.source)
    BY DEF Pin
  <1> QED
    BY <1>1, <1>2, CommitFacts DEF RefNames

LEMMA SamePins ==
    ASSUME NEW d \in SideRecords, NEW e \in SideRecords, SameSide(d, e)
    PROVE  \A name \in RefNames : Pin(d, name) = Pin(e, name)
  BY DEF SameSide, Pin, RefNames

\* The empty side and the missing record.
LEMMA NoSideFacts ==
    /\ NoSide \in SideRecords
    /\ ~NoSide.part /\ NoSide.wip = "" /\ NoSide.stash = {} /\ NoSide.source = 0 /\ NoSide.base = 0
  BY CommitFacts DEF NoSide, SideRecords

LEMMA NoRecordFacts ==
    /\ NoRecord \in Records
    /\ NoRecord.kind = "none" /\ NoRecord.phase = "cancelled"
    /\ \A s \in Sides : NoRecord.side[s] = NoSide
  <1>1. [s \in Sides |-> NoSide] \in [Sides -> SideRecords] /\ [s \in Sides |-> 0] \in [Sides -> Nat]
    BY NoSideFacts
  <1> QED
    BY <1>1 DEF NoRecord, Records, Choices

LEMMA NoCallFacts ==
    /\ NoCall \in Calls
    /\ NoCall.step = "idle" /\ NoCall.side = "code" /\ NoCall.record = NoRecord
  BY NoRecordFacts DEF NoCall, Calls, Steps, Sides, Choices

\* A journal that was lost or set aside.
LEMMA LostRecord ==
    ASSUME NEW k \in {"malformed", "quarantine"}, NEW q, q = [NoRecord EXCEPT !.kind = k]
    PROVE  /\ q \in Records /\ q.kind = k
           /\ \A s \in Sides : q.side[s] = NoSide
           /\ ~Active(q) /\ ~Terminal(q)
  <1>1. q \in Records /\ q.kind = k /\ q.side = NoRecord.side
    BY NoRecordFacts DEF Records
  <1> QED
    BY <1>1, NoRecordFacts DEF Active, Terminal

-----------------------------------------------------------------------------
(* What is written to the journal.                                         *)

\* q is r in phase ph, with the same authority, and w is what became of the
\* candidate of side s.
Rewrites(q, r, s, ph, w) ==
    /\ q \in Records
    /\ q.kind = r.kind /\ q.from = r.from /\ q.phase = ph
    /\ \A t \in Sides : SameSide(q.side[t], r.side[t])
    /\ \A t \in Sides : t # s => q.side[t].wip = r.side[t].wip
    /\ q.side[s].wip = w

AllPhases == Phases \cup {"completed", "cancelled"}

LEMMA RewritePhase ==
    ASSUME NEW r \in Records, NEW s \in Sides, NEW ph \in AllPhases,
           NEW q, q = [r EXCEPT !.phase = ph]
    PROVE  Rewrites(q, r, s, ph, r.side[s].wip)
  <1>1. q \in Records /\ q.kind = r.kind /\ q.from = r.from /\ q.phase = ph /\ q.side = r.side
    BY DEF Records, AllPhases
  <1> QED
    BY <1>1 DEF Rewrites, SameSide

\* One side is written anew, with the same authority.
LEMMA RewriteSide ==
    ASSUME NEW r \in Records, NEW s \in Sides, NEW e \in SideRecords,
           SameSide(e, r.side[s]),
           NEW q, q = [r EXCEPT !.side[s] = e]
    PROVE  Rewrites(q, r, s, r.phase, e.wip)
  <1>1. /\ q \in Records /\ q.kind = r.kind /\ q.from = r.from /\ q.phase = r.phase
        /\ q.side = [r.side EXCEPT ![s] = e]
    BY DEF Records
  <1>2. r.side \in [Sides -> SideRecords]
    BY DEF Records
  <1>3. q.side[s] = e /\ \A t \in Sides : t # s => q.side[t] = r.side[t]
    BY <1>1, <1>2
  <1>4. \A t \in Sides : SameSide(q.side[t], r.side[t])
    BY <1>3 DEF SameSide
  <1> QED
    BY <1>1, <1>3, <1>4 DEF Rewrites

LEMMA RewriteTwice ==
    ASSUME NEW r \in Records, NEW p \in Records, NEW q, NEW s \in Sides,
           NEW ph, NEW w, NEW ph2, NEW w2,
           Rewrites(p, r, s, ph, w), Rewrites(q, p, s, ph2, w2)
    PROVE  Rewrites(q, r, s, ph2, w2)
  BY DEF Rewrites, SameSide

\* The side as a call holds it once its merge is done.
LEMMA CarriedRewrites ==
    ASSUME GitType, NEW r \in Records, NEW s \in Sides
    PROVE  Rewrites(Carried(r, s), r, s, r.phase, r.side[s].wip)
  <1> DEFINE x == IF r.side[s].plan = "skip" THEN r.side[s].pre ELSE head[s]
             e == [r.side[s] EXCEPT !.state = "completed", !.result = x]
  <1>1. r.side[s] \in SideRecords /\ r.side[s].pre \in Commits
    BY RecordFields, SideFields
  <1>2. x \in Commits
    BY <1>1 DEF GitType
  <1>3. e \in SideRecords /\ SameSide(e, r.side[s]) /\ e.wip = r.side[s].wip
    BY <1>1, <1>2 DEF SideRecords, SameSide
  <1>4. Carried(r, s) = [r EXCEPT !.side[s] = e]
    BY <1>1 DEF Carried, Records, SideRecords
  <1> QED
    BY <1>3, <1>4, RewriteSide

LEMMA AdvanceRewrites ==
    ASSUME GitType, NEW r \in Records, NEW s \in Sides, NEW ph \in AllPhases,
           NEW q, q = [Carried(r, s) EXCEPT !.phase = ph]
    PROVE  Rewrites(q, r, s, ph, r.side[s].wip)
  <1>1. Rewrites(Carried(r, s), r, s, r.phase, r.side[s].wip)
    BY CarriedRewrites
  <1>2. Carried(r, s) \in Records /\ Carried(r, s).side[s].wip = r.side[s].wip
    BY <1>1 DEF Rewrites
  <1>3. Rewrites(q, Carried(r, s), s, ph, r.side[s].wip)
    BY <1>2, RewritePhase
  <1> QED
    BY <1>1, <1>2, <1>3, RewriteTwice

\* A merge that waits for its resolution.
LEMMA RetainedRewrites ==
    ASSUME NEW r \in Records, NEW s \in Sides, NEW ph \in AllPhases,
           NEW q, q = [r EXCEPT !.phase = ph, !.side[s].state = "resolution-required"]
    PROVE  Rewrites(q, r, s, ph, r.side[s].wip)
  <1> DEFINE e == [r.side[s] EXCEPT !.state = "resolution-required"]
             p == [r EXCEPT !.side[s] = e]
  <1>1. r.side[s] \in SideRecords
    BY RecordFields
  <1>2. e \in SideRecords /\ SameSide(e, r.side[s]) /\ e.wip = r.side[s].wip
    BY <1>1 DEF SideRecords, SameSide
  <1>3. Rewrites(p, r, s, r.phase, r.side[s].wip)
    BY <1>2, RewriteSide
  <1>4. q = [p EXCEPT !.phase = ph]
    BY <1>1 DEF Records, SideRecords
  <1>5. p \in Records /\ p.side[s].wip = r.side[s].wip
    BY <1>3 DEF Rewrites
  <1> HIDE DEF p
  <1>6. Rewrites(q, p, s, ph, r.side[s].wip)
    BY <1>4, <1>5, RewritePhase
  <1> QED
    BY <1>3, <1>5, <1>6, RewriteTwice

\* A reapplied candidate that waits for its resolution.
LEMMA ReapplyRewrites ==
    ASSUME NEW r \in Records, NEW s \in Sides, NEW ph \in AllPhases,
           NEW q, q = [r EXCEPT !.phase = ph, !.side[s].state = "resolution-required",
                                !.side[s].wip = "restore-conflict"]
    PROVE  Rewrites(q, r, s, ph, "restore-conflict")
  <1> DEFINE e == [r.side[s] EXCEPT !.state = "resolution-required", !.wip = "restore-conflict"]
             p == [r EXCEPT !.side[s] = e]
  <1>1. r.side[s] \in SideRecords
    BY RecordFields
  <1>2. e \in SideRecords /\ SameSide(e, r.side[s]) /\ e.wip = "restore-conflict"
    BY <1>1 DEF SideRecords, SameSide
  <1>3. Rewrites(p, r, s, r.phase, "restore-conflict")
    BY <1>2, RewriteSide
  <1>4. q = [p EXCEPT !.phase = ph]
    BY <1>1 DEF Records, SideRecords
  <1>5. p \in Records /\ p.side[s].wip = "restore-conflict"
    BY <1>3 DEF Rewrites
  <1> HIDE DEF p
  <1>6. Rewrites(q, p, s, ph, p.side[s].wip)
    BY <1>4, <1>5, RewritePhase
  <1>7. Rewrites(q, p, s, ph, "restore-conflict")
    BY <1>5, <1>6
  <1> QED
    BY <1>3, <1>5, <1>7, RewriteTwice

LEMMA RestoredRewrites ==
    ASSUME NEW r \in Records, NEW s \in Sides,
           NEW q, q = [r EXCEPT !.side[s].wip = "restored"]
    PROVE  Rewrites(q, r, s, r.phase, "restored")
  <1> DEFINE e == [r.side[s] EXCEPT !.wip = "restored"]
  <1>1. r.side[s] \in SideRecords
    BY RecordFields
  <1>2. e \in SideRecords /\ SameSide(e, r.side[s]) /\ e.wip = "restored"
    BY <1>1 DEF SideRecords, SameSide
  <1>3. q = [r EXCEPT !.side[s] = e]
    BY <1>1 DEF Records, SideRecords
  <1>4. Rewrites(q, r, s, r.phase, e.wip)
    BY <1>2, <1>3, RewriteSide
  <1> QED
    BY <1>2, <1>4

LEMMA AdvancedRewrites ==
    ASSUME NEW r \in Records, NEW s \in Sides, NEW ph \in AllPhases,
           NEW q, q = [r EXCEPT !.side[s].state = "completed", !.phase = ph]
    PROVE  Rewrites(q, r, s, ph, r.side[s].wip)
  <1> DEFINE e == [r.side[s] EXCEPT !.state = "completed"]
             p == [r EXCEPT !.side[s] = e]
  <1>1. r.side[s] \in SideRecords
    BY RecordFields
  <1>2. e \in SideRecords /\ SameSide(e, r.side[s]) /\ e.wip = r.side[s].wip
    BY <1>1 DEF SideRecords, SameSide
  <1>3. Rewrites(p, r, s, r.phase, r.side[s].wip)
    BY <1>2, RewriteSide
  <1>4. q = [p EXCEPT !.phase = ph]
    BY <1>1 DEF Records, SideRecords
  <1>5. p \in Records /\ p.side[s].wip = r.side[s].wip
    BY <1>3 DEF Rewrites
  <1> HIDE DEF p
  <1>6. Rewrites(q, p, s, ph, r.side[s].wip)
    BY <1>4, <1>5, RewritePhase
  <1> QED
    BY <1>3, <1>5, <1>6, RewriteTwice

-----------------------------------------------------------------------------
(* What a step may do to the repositories and the files.                   *)

USE DEF fileVars, agentVars, faultVars

\* The files stay, and a source branch only grows.
LEMMA FilesStay ==
    ASSUME FileType, GitType, GitType', JournalInv, NamedInv, SyncLogChains, BaseInv,
           UNCHANGED fileVars, \A s \in Sides : source[s] <= source'[s]
    PROVE  FileType' /\ JournalInv' /\ NamedInv' /\ SyncLogChains' /\ BaseInv'
  <1>1. FileType'
    BY DEF FileType
  <1>2. \A s \in Sides : /\ source[s] \in Nat /\ source'[s] \in Nat /\ base[s] \in Nat
                         /\ journal.side[s].source \in Nat
    BY RecordFields, SideFields DEF GitType, FileType
  <1>3. JournalInv'
    BY <1>2 DEF JournalInv, Active, Target, Planned, Contains, FastForwards
  <1>4. NamedInv'
    BY DEF NamedInv
  <1>5. SyncLogChains'
    BY DEF SyncLogChains
  <1>6. BaseInv'
    BY <1>2 DEF BaseInv
  <1> QED
    BY <1>1, <1>3, <1>4, <1>5, <1>6

LEMMA RefsStay ==
    ASSUME RefInv, AuthorityPinned, refs' = refs, journal' = journal
    PROVE  RefInv' /\ AuthorityPinned'
  BY DEF RefInv, AuthorityPinned, Active, Pinned, Pin

\* A step changes heads and merges, and no worktree, stash, ref or file.
LEMMA HeadsMove ==
    ASSUME GitType, FileType, AgentType, StateInv, GitType',
           UNCHANGED <<tree, stash, refs, source, fileVars, agentVars, faultVars>>,
           \A s \in Sides : index'[s] = "reapply" => index[s] = "reapply"
    PROVE  FileType' /\ AgentType' /\ StateInv'
  <1>1. FileType' /\ JournalInv' /\ NamedInv' /\ SyncLogChains' /\ BaseInv'
    BY FilesStay DEF GitType, StateInv
  <1>2. RefInv' /\ AuthorityPinned'
    BY RefsStay DEF StateInv
  <1>3. OwedInv' /\ AgentType'
    BY DEF OwedInv, AgentType, StateInv
  <1>4. CandidateInv'
    BY DEF CandidateInv, Back, Active, Pending, StateInv
  <1>5. ParkedWorkKept'
    BY DEF ParkedWorkKept, Active, Pending, StateInv
  <1> QED
    BY <1>1, <1>2, <1>3, <1>4, <1>5 DEF StateInv

\* A step changes neither repositories nor files nor what the agent is owed.
LEMMA NothingMoves ==
    ASSUME GitType, FileType, AgentType, StateInv,
           UNCHANGED <<gitVars, source, fileVars, agentVars, damaged>>, crashes' \in Nat
    PROVE  GitType' /\ FileType' /\ AgentType' /\ StateInv'
  <1>0. UNCHANGED <<head, merging, index, tree, stash, refs>>
    BY DEF gitVars
  <1>g. GitType'
    BY <1>0 DEF GitType
  <1>1. FileType' /\ JournalInv' /\ NamedInv' /\ SyncLogChains' /\ BaseInv'
    BY <1>g, FilesStay DEF GitType, StateInv
  <1>2. RefInv' /\ AuthorityPinned'
    BY <1>0, RefsStay DEF StateInv
  <1>3. OwedInv' /\ AgentType'
    BY <1>0 DEF OwedInv, AgentType, StateInv
  <1>4. CandidateInv'
    BY <1>0 DEF CandidateInv, Back, Active, Pending, StateInv
  <1>5. ParkedWorkKept'
    BY <1>0 DEF ParkedWorkKept, Active, Pending, StateInv
  <1> QED
    BY <1>g, <1>1, <1>2, <1>3, <1>4, <1>5 DEF StateInv

\* An edit that is not lost.
Kept(s, e) ==
    \/ e \in tree[s]
    \/ \E x \in stash[s] : e \in x
    \/ Active(journal) /\ Pending(journal.side[s]) /\ e \in journal.side[s].stash

LEMMA Covered ==
    ASSUME NEW o, NEW t, NEW u, NEW k
    PROVE  o \subseteq t \cup (UNION u) \cup k
           <=> \A e \in o : e \in t \/ (\E x \in u : e \in x) \/ e \in k
  <1> DEFINE v == UNION u
  <1>1. \A e : e \in v <=> \E x \in u : e \in x
    OBVIOUS
  <1> HIDE DEF v
  <1>2. o \subseteq t \cup v \cup k <=> \A e \in o : e \in t \/ e \in v \/ e \in k
    OBVIOUS
  <1>3. o \subseteq t \cup v \cup k
        <=> \A e \in o : e \in t \/ (\E x \in u : e \in x) \/ e \in k
    BY <1>1, <1>2, Zenon
  <1> QED
    BY <1>3 DEF v

LEMMA KeptPointwise ==
    ParkedWorkKept <=> (damaged = "no" => \A s \in Sides : \A e \in owed[s] : Kept(s, e))
  <1> DEFINE K(s) == IF Active(journal) /\ Pending(journal.side[s]) THEN journal.side[s].stash ELSE {}
             T(s) == owed[s] \subseteq tree[s] \cup (UNION stash[s]) \cup K(s)
  <1>1. \A s \in Sides : T(s) <=> \A e \in owed[s] : Kept(s, e)
    <2> TAKE s \in Sides
    <2>1. \A e : e \in K(s) <=> Active(journal) /\ Pending(journal.side[s]) /\ e \in journal.side[s].stash
      OBVIOUS
    <2> HIDE DEF K
    <2>2. \A e : Kept(s, e) <=> e \in tree[s] \/ (\E x \in stash[s] : e \in x) \/ e \in K(s)
      BY <2>1 DEF Kept
    <2>3. T(s) <=> \A e \in owed[s] : e \in tree[s] \/ (\E x \in stash[s] : e \in x) \/ e \in K(s)
      BY Covered
    <2> QED
      BY <2>2, <2>3, Zenon
  <1>2. ParkedWorkKept <=> (damaged = "no" => \A s \in Sides : T(s))
    BY Zenon DEF ParkedWorkKept
  <1> QED
    BY <1>1, <1>2, Zenon

LEMMA KeptPointwiseNext ==
    ParkedWorkKept' <=> (damaged' = "no" => \A s \in Sides : \A e \in owed'[s] : Kept(s, e)')
  <1> DEFINE K(s) == IF Active(journal') /\ Pending(journal'.side[s]) THEN journal'.side[s].stash ELSE {}
             T(s) == owed'[s] \subseteq tree'[s] \cup (UNION stash'[s]) \cup K(s)
  <1>1. \A s \in Sides : T(s) <=> \A e \in owed'[s] : Kept(s, e)'
    <2> TAKE s \in Sides
    <2>1. \A e : e \in K(s) <=> Active(journal') /\ Pending(journal'.side[s]) /\ e \in journal'.side[s].stash
      OBVIOUS
    <2> HIDE DEF K
    <2>2. \A e : Kept(s, e)' <=> e \in tree'[s] \/ (\E x \in stash'[s] : e \in x) \/ e \in K(s)
      BY <2>1 DEF Kept
    <2>3. T(s) <=> \A e \in owed'[s] : e \in tree'[s] \/ (\E x \in stash'[s] : e \in x) \/ e \in K(s)
      BY Covered
    <2> QED
      BY <2>2, <2>3, Zenon
  <1>2. ParkedWorkKept' <=> (damaged' = "no" => \A s \in Sides : T(s))
    BY Zenon DEF ParkedWorkKept
  <1> QED
    BY <1>1, <1>2, Zenon

\* Back and Pending read only the candidate.
LEMMA SamePending ==
    ASSUME NEW d, NEW e, SameSide(d, e), d.wip = e.wip
    PROVE  Pending(d) <=> Pending(e)
  BY DEF SameSide, Pending

LEMMA PinnedAlike ==
    ASSUME NEW q \in Records, NEW r \in Records,
           \A t \in Sides : SameSide(q.side[t], r.side[t]), Pinned(r, FALSE)
    PROVE  Pinned(q, FALSE)
  <1> SUFFICES ASSUME NEW s \in Sides, NEW name \in RefNames, q.side[s].part
               PROVE  refs[s][name] = Pin(q.side[s], name)
    BY DEF Pinned
  <1>1. q.side[s] \in SideRecords /\ r.side[s] \in SideRecords
    BY RecordFields
  <1>2. Pin(q.side[s], name) = Pin(r.side[s], name)
    BY <1>1, SamePins
  <1>3. r.side[s].part
    BY DEF SameSide
  <1> QED
    BY <1>2, <1>3 DEF Pinned

\* What a write to the journal of an open transaction has to respect: the
\* phase goes on, what was parked is marked returned only when it is back, and
\* nothing is pending when the record becomes terminal.
MayWrite(s, ph, w) ==
    /\ Active(journal)
    /\ ph \in AllPhases
    /\ \/ ph \in {journal.phase, "cancelling", "completed", "cancelled"}
       \/ journal.phase \notin {"cancelling", "finalizing"}
    /\ w # journal.side[s].wip =>
          Back(s) /\ journal.side[s].wip # "" /\ w \in {"restore-conflict", "restored"}
    /\ ph \in {"completed", "cancelled"} => \A t \in Sides : ~Pending(journal.side[t])

LEMMA JournalRewritten ==
    ASSUME GitType, FileType, AgentType, StateInv,
           NEW s \in Sides, NEW ph, NEW w, MayWrite(s, ph, w), Rewrites(journal', journal, s, ph, w),
           UNCHANGED <<gitVars, source, base, syncLog, agentVars, faultVars>>
    PROVE  GitType' /\ FileType' /\ AgentType' /\ StateInv'
  <1>0. UNCHANGED <<head, merging, index, tree, stash, refs>>
    BY DEF gitVars
  <1>1. GitType' /\ FileType' /\ AgentType'
    BY <1>0 DEF GitType, FileType, AgentType, Rewrites
  <1>2. /\ journal \in Records /\ journal' \in Records
        /\ \A t \in Sides : journal.side[t] \in SideRecords /\ journal'.side[t] \in SideRecords
    BY <1>1, RecordFields DEF FileType
  <1>3. /\ journal'.kind = journal.kind /\ journal'.from = journal.from /\ journal'.phase = ph
        /\ \A t \in Sides : SameSide(journal'.side[t], journal.side[t])
        /\ \A t \in Sides : t # s => journal'.side[t].wip = journal.side[t].wip
        /\ journal'.side[s].wip = w
    BY DEF Rewrites
  <1>4. Active(journal) /\ journal.kind = "record" /\ journal.phase \in Phases
    BY DEF MayWrite, Active
  <1>5. \A t \in Sides : Planned(t, journal.side[t]) => Planned(t, journal'.side[t])
    BY <1>3 DEF Planned, SameSide, Contains, FastForwards
  <1>6. JournalInv'
    <2> SUFFICES ASSUME Active(journal')
                 PROVE  JournalInv'
      BY DEF JournalInv
    <2>1. journal'.side["code"].part
      BY <1>3, <1>4 DEF JournalInv, StateInv, SameSide, Sides
    <2>2. \A t \in Sides : journal'.side[t].part => journal'.side[t].base = journal'.from[t]
      BY <1>3, <1>4 DEF JournalInv, StateInv, SameSide
    <2>3. ph # "cancelling" => journal.phase # "cancelling"
      BY <1>3 DEF MayWrite, Active, Phases
    <2>4. ph # "cancelling" => \A t \in Sides :
             /\ journal'.side[t].part /\ journal'.from[t] <= journal'.side[t].source
             /\ journal'.side[t].source <= source[t] /\ Planned(t, journal'.side[t])
      BY <1>3, <1>4, <1>5, <2>3 DEF JournalInv, StateInv, SameSide
    <2>5. ph \notin {"cancelling", "finalizing"} => base = journal.from
      BY <1>3, <1>4 DEF MayWrite, JournalInv, StateInv, Active, Phases
    <2>6. Target(journal') = Target(journal)
      BY <1>3 DEF Target, SameSide
    <2>7. ph = "finalizing" => base \in {journal.from, Target(journal)}
      BY <1>4 DEF MayWrite, JournalInv, StateInv
    <2> QED
      BY <1>3, <2>1, <2>2, <2>4, <2>5, <2>6, <2>7 DEF JournalInv
  <1>7. RefInv' /\ BaseInv' /\ OwedInv' /\ SyncLogChains'
    BY <1>0, <1>3 DEF RefInv, BaseInv, OwedInv, SyncLogChains, StateInv, SameSide
  <1>8. NamedInv'
    BY <1>3 DEF NamedInv, StateInv, SameSide, MayWrite
  <1>9. \A t \in Sides : Back(t) => Back(t)'
    BY <1>0, <1>3 DEF Back, SameSide
  <1>10. CandidateInv'
    <2> SUFFICES ASSUME Active(journal'), NEW t \in Sides
                 PROVE  /\ journal'.side[t].wip # "" => owed[t] \cap tree[t] \subseteq journal'.side[t].stash
                        /\ journal'.side[t].wip = "restored" => Back(t)'
                        /\ journal'.side[t].wip = "restore-conflict" /\ journal'.phase # "cancelling" => Back(t)'
                        /\ index[t] = "reapply" /\ Pending(journal'.side[t]) => Back(t)'
      BY <1>0 DEF CandidateInv
    <2>1. /\ journal.side[t].wip # "" => owed[t] \cap tree[t] \subseteq journal.side[t].stash
          /\ journal.side[t].wip = "restored" => Back(t)
          /\ journal.side[t].wip = "restore-conflict" /\ journal.phase # "cancelling" => Back(t)
          /\ index[t] = "reapply" /\ Pending(journal.side[t]) => Back(t)
      BY <1>4 DEF CandidateInv, StateInv
    <2>2. journal'.side[t].stash = journal.side[t].stash
      BY <1>3 DEF SameSide
    <2>3. ph # "cancelling" => journal.phase # "cancelling"
      BY <1>3 DEF MayWrite, Active, Phases
    <2>4. CASE journal'.side[t].wip = journal.side[t].wip
      <3>1. Pending(journal'.side[t]) <=> Pending(journal.side[t])
        BY <1>3, <2>4, SamePending
      <3> QED
        BY <1>3, <1>9, <2>1, <2>2, <2>3, <2>4, <3>1
    <2>5. CASE journal'.side[t].wip # journal.side[t].wip
      <3>1. t = s /\ Back(t) /\ journal.side[t].wip # ""
        BY <1>3, <2>5 DEF MayWrite
      <3> QED
        BY <1>9, <2>1, <2>2, <3>1
    <2> QED
      BY <2>4, <2>5
  <1>11. AuthorityPinned'
    <2> SUFFICES ASSUME Active(journal')
                 PROVE  Pinned(journal, FALSE)'
      BY DEF AuthorityPinned
    <2>1. Pinned(journal, FALSE)
      BY <1>4 DEF AuthorityPinned, StateInv
    <2>2. Pinned(journal', FALSE)
      BY <1>2, <1>3, <2>1, PinnedAlike
    <2> QED
      BY <1>0, <2>2 DEF Pinned
  <1>12. ParkedWorkKept'
    <2> SUFFICES ASSUME damaged = "no", NEW t \in Sides, NEW e \in owed[t]
                 PROVE  Kept(t, e)'
      BY <1>0, KeptPointwiseNext
    <2>1. Kept(t, e)
      BY KeptPointwise DEF StateInv
    <2>2. journal'.side[t].stash = journal.side[t].stash
      BY <1>3 DEF SameSide
    <2>3. Pending(journal.side[t]) => Active(journal')
      BY <1>3, <1>4 DEF MayWrite, Active, AllPhases
    <2>4. CASE journal'.side[t].wip = journal.side[t].wip
      <3>1. Pending(journal'.side[t]) <=> Pending(journal.side[t])
        BY <1>3, <2>4, SamePending
      <3> QED
        BY <1>0, <2>1, <2>2, <2>3, <3>1 DEF Kept
    <2>5. CASE journal'.side[t].wip # journal.side[t].wip
      <3>1. t = s /\ Back(t)
        BY <1>3, <2>5 DEF MayWrite
      <3> QED
        BY <1>0, <2>1, <3>1 DEF Kept, Back
    <2> QED
      BY <2>4, <2>5
  <1> QED
    BY <1>1, <1>6, <1>7, <1>8, <1>10, <1>11, <1>12 DEF StateInv

-----------------------------------------------------------------------------
(* Where a call goes.                                                      *)

LEMMA Disassemble ==
    ASSUME IInv
    PROVE  /\ GitType /\ FileType /\ CallType /\ AgentType /\ StateInv /\ ProgressInv
           /\ journal \in Records /\ call.step \in Steps /\ call.side \in Sides
           /\ call.record \in Records
           /\ \A s \in Sides : journal.side[s] \in SideRecords /\ call.record.side[s] \in SideRecords
  BY TypeParts, CallFields, RecordFields DEF IInv, FileType

LEMMA Assemble ==
    ASSUME GitType', FileType', CallType', AgentType', StateInv', ProgressInv'
    PROVE  IInv'
  BY TypePartsNext DEF IInv

\* A step without a call that holds anything.
LEMMA GoesIdle ==
    ASSUME call' = NoCall
    PROVE  CallType' /\ ProgressInv'
  <1>1. call' \in Calls /\ call'.step = "idle"
    BY NoCallFacts
  <1> QED
    BY <1>1 DEF CallType, ProgressInv, AdmissionInv, ParkingInv, CallInv, ReturnInv,
                Admitting, Holding, Carrying, Cancelling

LEMMA GoesRunning ==
    ASSUME call' \in Calls, call'.step = "run", Active(journal'), journal'.phase # "cancelling"
    PROVE  CallType' /\ ProgressInv'
  BY DEF CallType, ProgressInv, AdmissionInv, ParkingInv, CallInv, ReturnInv,
         Admitting, Holding, Carrying, Cancelling

LEMMA GoesRollingBack ==
    ASSUME call' \in Calls, call'.step = "rollback", Active(journal'), journal'.phase = "cancelling"
    PROVE  CallType' /\ ProgressInv'
  BY DEF CallType, ProgressInv, AdmissionInv, ParkingInv, CallInv, ReturnInv,
         Admitting, Holding, Carrying, Cancelling

LEMMA GoesCarrying ==
    ASSUME call' \in Calls, call'.step = "carry", Active(journal'), journal'.phase # "cancelling",
           journal'.phase \in {Running[call'.side], Resolution[call'.side]}
    PROVE  CallType' /\ ProgressInv'
  BY DEF CallType, ProgressInv, AdmissionInv, ParkingInv, CallInv, ReturnInv,
         Admitting, Holding, Carrying, Cancelling

LEMMA GoesRetiring ==
    ASSUME call' \in Calls, call'.step \in {"retire", "residue"}, Terminal(journal')
    PROVE  CallType' /\ ProgressInv'
  BY DEF CallType, ProgressInv, AdmissionInv, ParkingInv, CallInv, ReturnInv,
         Admitting, Holding, Carrying, Cancelling

LEMMA GoesPartial ==
    ASSUME call' \in Calls, call'.step = "partial", journal'.kind \in {"none", "malformed"}
    PROVE  CallType' /\ ProgressInv'
  BY DEF CallType, ProgressInv, AdmissionInv, ParkingInv, CallInv, ReturnInv,
         Admitting, Holding, Carrying, Cancelling

\* The phases of the two sides.
LEMMA PhaseNames ==
    \A s \in Sides :
        /\ Running[s] \in Phases /\ Resolution[s] \in Phases
        /\ Running[s] \notin {"cancelling", "finalizing"} /\ Resolution[s] \notin {"cancelling", "finalizing"}
        /\ NextPhase(s) \in {"running-memory", "finalizing"}
        /\ "cancelling" \in Phases /\ "finalizing" \in Phases /\ "running-memory" \in Phases
        /\ "running-code" \in Phases /\ "completed" \notin Phases /\ "cancelled" \notin Phases
  BY DEF Sides, Running, Resolution, Phases, NextPhase

-----------------------------------------------------------------------------
(* The calls.                                                              *)

\* What the admission writes down for a side.
AsAdmitted(s, d) ==
    /\ d \in SideRecords
    /\ d.part /\ d.pre = head[s] /\ d.source = source[s] /\ d.base = base[s]
    /\ d.wip = "" /\ d.stash = {}
    /\ Planned(s, d)

LEMMA AdmittedSide ==
    ASSUME GitType, FileType, NEW s \in Sides, NEW choice \in Choices
    PROVE  AsAdmitted(s, SideRecord(s, choice))
  <1> DEFINE p == IF s = "memory" /\ choice = "skip-memory" THEN "skip" ELSE Plan(s)
             d == [NoSide EXCEPT !.part = TRUE, !.pre = head[s], !.source = source[s],
                                 !.base = base[s], !.plan = p]
  <1>1. head[s] \in Commits /\ source[s] \in Nat /\ base[s] \in Nat
    BY DEF GitType, FileType
  <1>2. p \in {"already-current", "fast-forward", "merge", "skip"}
    BY DEF Plan
  <1>3. /\ p = "skip" => s = "memory"
        /\ p = "already-current" => Contains(head[s], source[s])
        /\ p = "fast-forward" => ~Contains(head[s], source[s]) /\ FastForwards(head[s], source[s])
        /\ p = "merge" => ~Contains(head[s], source[s]) /\ ~FastForwards(head[s], source[s])
    BY DEF Plan
  <1> HIDE DEF p
  <1>4. /\ d \in SideRecords
        /\ d.part /\ d.pre = head[s] /\ d.source = source[s] /\ d.base = base[s] /\ d.plan = p
        /\ d.wip = "" /\ d.stash = {}
    BY <1>1, <1>2, NoSideFacts DEF SideRecords
  <1> HIDE DEF d
  <1>5. Planned(s, d)
    BY <1>3, <1>4 DEF Planned
  <1>6. SideRecord(s, choice) = d
    BY DEF SideRecord, d, p
  <1> QED
    BY <1>4, <1>5, <1>6 DEF AsAdmitted

LEMMA AdmittedRecord ==
    ASSUME GitType, FileType, NEW choice \in Choices
    PROVE  LET r == NewRecord(choice) IN
           /\ r \in Records
           /\ r.kind = "record" /\ r.phase = "running-code" /\ r.from = base
           /\ \A s \in Sides : r.side[s] = SideRecord(s, choice)
  <1> DEFINE f == [s \in Sides |-> SideRecord(s, choice)]
  <1>1. f \in [Sides -> SideRecords] /\ \A s \in Sides : f[s] = SideRecord(s, choice)
    BY AdmittedSide DEF AsAdmitted
  <1>2. journal.generation + 1 \in Nat /\ base \in [Sides -> Nat]
    BY DEF FileType, Records
  <1> HIDE DEF f
  <1> DEFINE r == [kind |-> "record", generation |-> journal.generation + 1,
                   phase |-> "running-code", choice |-> choice, from |-> base, side |-> f]
  <1>3. r \in Records /\ r.kind = "record" /\ r.phase = "running-code" /\ r.from = base /\ r.side = f
    BY <1>1, <1>2 DEF Records, Phases
  <1>4. NewRecord(choice) = r
    BY DEF NewRecord, f, r
  <1> QED
    BY <1>1, <1>3, <1>4

LEMMA Admitted ==
    ASSUME GitType, FileType, BaseInv, ~Active(journal), NEW choice \in Choices, Admit(choice),
           UNCHANGED <<head, base, source, journal, index>>
    PROVE  CallType' /\ ProgressInv'
  <1> DEFINE r == NewRecord(choice)
  <1>1. /\ r \in Records
        /\ r.kind = "record" /\ r.phase = "running-code" /\ r.from = base
        /\ \A s \in Sides : r.side[s] = SideRecord(s, choice)
    BY AdmittedRecord
  <1>2. call' = [NoCall EXCEPT !.step = "park", !.record = r]
    BY DEF Admit
  <1> HIDE DEF r
  <1>3. call' \in Calls /\ call'.step = "park" /\ call'.record = r
    BY <1>1, <1>2, NoCallFacts DEF Calls, Steps
  <1>4. \A s \in Sides : AsAdmitted(s, r.side[s])
    BY <1>1, AdmittedSide
  <1>5. \A s \in Sides : base[s] <= source[s] /\ source[s] \in Nat
    BY DEF BaseInv, GitType
  <1>6. AdmissionInv'
    <2>1. ~Active(journal')
      BY DEF Active
    <2>2. \A s \in Sides : base[s] <= r.side[s].source /\ r.side[s].source <= source[s]
      <3>1. \A s \in Sides : r.side[s].source = source[s]
        BY <1>4 DEF AsAdmitted
      <3> QED
        BY <1>5, <3>1
    <2>3. \A s \in Sides : Moving(r.side[s]) => index[s] = "none"
      BY <1>1 DEF Admit, Admissible
    <2> QED
      BY <1>1, <1>3, <1>4, <2>1, <2>2, <2>3 DEF AdmissionInv, AsAdmitted
  <1>7. ParkingInv'
    BY <1>3, <1>4 DEF ParkingInv, AsAdmitted
  <1>8. CallInv'
    BY <1>3 DEF CallInv, Holding, Carrying, Cancelling
  <1>9. ReturnInv'
    BY <1>3 DEF ReturnInv
  <1> QED
    BY <1>3, <1>6, <1>7, <1>8, <1>9 DEF CallType, ProgressInv

LEMMA CallAdmitsKeeps ==
    ASSUME IInv, CallAdmits
    PROVE  IInv'
  <1>0. PICK choice \in Choices : Admit(choice)
    BY DEF CallAdmits
  <1>1. UNCHANGED <<gitVars, source, fileVars, agentVars, faultVars>> /\ ~Active(journal)
    BY DEF CallAdmits, Active
  <1>2. GitType' /\ FileType' /\ AgentType' /\ StateInv'
    BY <1>1, Disassemble, NothingMoves DEF AgentType
  <1>3. CallType' /\ ProgressInv'
    BY <1>0, <1>1, Disassemble, Admitted DEF StateInv, gitVars
  <1> QED
    BY <1>2, <1>3, Assemble

LEMMA CallFindsTerminalKeeps ==
    ASSUME IInv, CallFindsTerminal
    PROVE  IInv'
  <1>0. PICK admits \in BOOLEAN, choice \in Choices :
           call' = [NoCall EXCEPT !.step = "residue", !.admits = admits, !.choice = choice]
    BY DEF CallFindsTerminal
  <1>1. UNCHANGED <<gitVars, source, fileVars, agentVars, faultVars>> /\ Terminal(journal')
    BY DEF CallFindsTerminal, Terminal
  <1>2. GitType' /\ FileType' /\ AgentType' /\ StateInv'
    BY <1>1, Disassemble, NothingMoves DEF AgentType
  <1>3. call' \in Calls /\ call'.step = "residue"
    BY <1>0, NoCallFacts DEF Calls, Steps
  <1>4. CallType' /\ ProgressInv'
    BY <1>1, <1>3, GoesRetiring
  <1> QED
    BY <1>2, <1>4, Assemble

LEMMA CallResumesKeeps ==
    ASSUME IInv, CallResumes
    PROVE  IInv'
  <1>1. UNCHANGED <<gitVars, source, fileVars, agentVars, faultVars>>
    BY DEF CallResumes
  <1>2. GitType' /\ FileType' /\ AgentType' /\ StateInv'
    BY <1>1, Disassemble, NothingMoves DEF AgentType
  <1>3. call' \in Calls /\ call'.step = "run"
    BY NoCallFacts DEF CallResumes, Calls, Steps
  <1>4. Active(journal') /\ journal'.phase # "cancelling"
    BY DEF CallResumes, Active
  <1>5. CallType' /\ ProgressInv'
    BY <1>3, <1>4, GoesRunning
  <1> QED
    BY <1>2, <1>5, Assemble

LEMMA CallCancelsKeeps ==
    ASSUME IInv, CallCancels
    PROVE  IInv'
  <1>1. /\ Active(journal) /\ journal' = [journal EXCEPT !.phase = "cancelling"]
        /\ UNCHANGED <<gitVars, source, base, syncLog, agentVars, faultVars>>
    BY DEF CallCancels
  <1>2. "cancelling" \in AllPhases /\ "code" \in Sides
    BY DEF AllPhases, Phases, Sides
  <1>3. Rewrites(journal', journal, "code", "cancelling", journal.side["code"].wip)
    BY <1>1, <1>2, Disassemble, RewritePhase
  <1>4. MayWrite("code", "cancelling", journal.side["code"].wip)
    BY <1>1, <1>2 DEF MayWrite
  <1>5. GitType' /\ FileType' /\ AgentType' /\ StateInv'
    BY <1>1, <1>2, <1>3, <1>4, Disassemble, JournalRewritten
  <1>6. call' \in Calls /\ call'.step = "rollback"
    BY NoCallFacts DEF CallCancels, Calls, Steps, Sides
  <1>7. Active(journal') /\ journal'.phase = "cancelling"
    BY <1>1, <1>3 DEF Rewrites, Active, Phases
  <1>8. CallType' /\ ProgressInv'
    BY <1>6, <1>7, GoesRollingBack
  <1> QED
    BY <1>5, <1>8, Assemble

LEMMA CallContinuesMergeKeeps ==
    ASSUME IInv, NEW s \in Sides, CallContinuesMerge(s)
    PROVE  IInv'
  <1>1. /\ Active(journal) /\ journal.phase = Resolution[s]
        /\ call' = [NoCall EXCEPT !.step = "carry", !.side = s]
        /\ UNCHANGED <<tree, stash, refs, source, fileVars, agentVars, faultVars>>
    BY DEF CallContinuesMerge
  <1>2. GitType' /\ \A t \in Sides : index'[t] = "reapply" => index[t] = "reapply"
    <2>0. GitType
      BY Disassemble
    <2>1. CASE UNCHANGED <<head, merging, index>>
      BY <1>1, <2>0, <2>1 DEF GitType
    <2>2. CASE /\ head' = [head EXCEPT ![s] = MergeCommit(@, merging[s])]
               /\ merging' = [merging EXCEPT ![s] = 0]
               /\ index' = [index EXCEPT ![s] = "none"]
      <3>1. head[s] \in Commits /\ merging[s] \in Nat
        BY <2>0 DEF GitType
      <3>2. MergeCommit(head[s], merging[s]) \in Commits
        BY <3>1, CommitFacts
      <3> QED
        BY <1>1, <2>0, <2>2, <3>2 DEF GitType
    <2> QED
      BY <2>1, <2>2 DEF CallContinuesMerge
  <1>3. FileType' /\ AgentType' /\ StateInv'
    BY <1>1, <1>2, Disassemble, HeadsMove
  <1>4. call' \in Calls /\ call'.step = "carry" /\ call'.side = s
    BY <1>1, NoCallFacts DEF Calls, Steps
  <1>5. Active(journal') /\ journal'.phase = Resolution[s] /\ journal'.phase # "cancelling"
    BY <1>1, PhaseNames DEF Active
  <1>6. CallType' /\ ProgressInv'
    BY <1>4, <1>5, GoesCarrying
  <1> QED
    BY <1>2, <1>3, <1>6, Assemble

LEMMA CallContinuesReapplyKeeps ==
    ASSUME IInv, NEW s \in Sides, CallContinuesReapply(s)
    PROVE  IInv'
  <1>1. /\ Active(journal) /\ journal.phase = Resolution[s]
        /\ journal.side[s].wip = "restore-conflict"
        /\ call' = [NoCall EXCEPT !.step = "applied", !.side = s, !.record = journal]
        /\ UNCHANGED <<gitVars, source, fileVars, agentVars, faultVars>>
    BY DEF CallContinuesReapply
  <1>2. GitType' /\ FileType' /\ AgentType' /\ StateInv'
    BY <1>1, Disassemble, NothingMoves DEF AgentType
  <1>3. call' \in Calls /\ call'.step = "applied" /\ call'.side = s /\ call'.record = journal
    BY <1>1, NoCallFacts, Disassemble DEF Calls, Steps
  <1>4. journal'.phase # "cancelling" /\ Active(journal') /\ journal' = journal
    BY <1>1, PhaseNames DEF Active
  <1>5. Back(s)
    BY <1>1, PhaseNames, Disassemble DEF StateInv, CandidateInv
  <1>6. AdmissionInv' /\ ParkingInv'
    BY <1>3 DEF AdmissionInv, ParkingInv, Admitting
  <1>7. CallInv'
    BY <1>1, <1>3, <1>4 DEF CallInv, Holding, Carrying, Cancelling, SameSides, SameSide
  <1>8. ReturnInv'
    BY <1>1, <1>3, <1>4, <1>5 DEF ReturnInv, Back, gitVars
  <1> QED
    BY <1>2, <1>3, <1>6, <1>7, <1>8, Assemble DEF CallType, ProgressInv

-----------------------------------------------------------------------------
(* The journal is lost, set aside, recovered from the refs, or published.  *)

\* With no open transaction before and none after, or a damaged journal, the
\* invariant does not depend on the journal.
LEMMA JournalLostKeeps ==
    ASSUME GitType, FileType, AgentType, StateInv,
           NEW k \in {"malformed", "quarantine"}, journal' = [NoRecord EXCEPT !.kind = k],
           (~Active(journal) /\ damaged' = damaged) \/ damaged' \in {"journal", "residue"},
           UNCHANGED <<gitVars, source, base, syncLog, agentVars, crashes>>
    PROVE  GitType' /\ FileType' /\ AgentType' /\ StateInv'
  <1>0. UNCHANGED <<head, merging, index, tree, stash, refs>>
    BY DEF gitVars
  <1>1. /\ journal' \in Records /\ journal'.kind = k
        /\ \A s \in Sides : journal'.side[s] = NoSide
        /\ ~Active(journal') /\ ~Terminal(journal')
    BY LostRecord
  <1>2. GitType' /\ FileType' /\ AgentType'
    BY <1>0, <1>1 DEF GitType, FileType, AgentType
  <1>3. JournalInv' /\ CandidateInv' /\ AuthorityPinned'
    BY <1>1 DEF JournalInv, CandidateInv, AuthorityPinned
  <1>4. RefInv' /\ BaseInv' /\ OwedInv' /\ SyncLogChains'
    BY <1>0, <1>1, NoSideFacts DEF StateInv, RefInv, BaseInv, OwedInv, SyncLogChains
  <1>5. NamedInv'
    BY <1>1, NoSideFacts DEF NamedInv
  <1>6. ParkedWorkKept'
    <2> SUFFICES ASSUME damaged' = "no", NEW t \in Sides, NEW e \in owed'[t]
                 PROVE  Kept(t, e)'
      BY KeptPointwiseNext
    <2>1. ~Active(journal) /\ damaged = "no" /\ owed' = owed
      BY DEF AgentType
    <2>2. Kept(t, e)
      BY <2>1, KeptPointwise DEF StateInv
    <2> QED
      BY <1>0, <2>1, <2>2 DEF Kept
  <1> QED
    BY <1>2, <1>3, <1>4, <1>5, <1>6 DEF StateInv

LEMMA CallQuarantinesKeeps ==
    ASSUME IInv, CallQuarantines
    PROVE  IInv'
  <1>1. /\ call = NoCall /\ call' = call /\ ~Active(journal)
        /\ journal' = [NoRecord EXCEPT !.kind = "quarantine"]
        /\ UNCHANGED <<gitVars, source, base, syncLog, agentVars, faultVars>>
    BY DEF CallQuarantines, Active
  <1>2. GitType' /\ FileType' /\ AgentType' /\ StateInv'
    BY <1>1, Disassemble, JournalLostKeeps
  <1>3. CallType' /\ ProgressInv'
    BY <1>1, GoesIdle
  <1> QED
    BY <1>2, <1>3, Assemble

LEMMA DamageJournalKeeps ==
    ASSUME IInv, DamageJournal
    PROVE  IInv'
  <1>1. /\ call = NoCall /\ call' = call /\ damaged' \in {"journal", "residue"}
        /\ journal' = [NoRecord EXCEPT !.kind = "malformed"]
        /\ UNCHANGED <<gitVars, source, base, syncLog, agentVars, crashes>>
    BY DEF DamageJournal
  <1>2. GitType' /\ FileType' /\ AgentType' /\ StateInv'
    BY <1>1, Disassemble, JournalLostKeeps
  <1>3. CallType' /\ ProgressInv'
    BY <1>1, GoesIdle
  <1> QED
    BY <1>2, <1>3, Assemble

LEMMA LostIsNotOpen ==
    ASSUME JournalLost
    PROVE  journal.kind \in {"none", "malformed"} /\ ~Active(journal)
  BY DEF JournalLost, Active

\* What the refs of a side tell, when all three are there.
LEMMA RecoveredFacts ==
    ASSUME GitType, RefInv, NEW s \in Sides
    PROVE  LET d == RecoveredSide(s) IN
           /\ d \in SideRecords /\ d.wip = "" /\ d.stash = {}
           /\ d.part <=> Complete(s)
           /\ Complete(s) => /\ d.plan = "merge" /\ d.pre = refs[s]["pre"]
                             /\ d.base = refs[s]["base"].at /\ d.source = refs[s]["source"].at
                             /\ \A name \in RefNames : refs[s][name] = Pin(d, name)
  <1>1. CASE ~Complete(s)
    BY <1>1, NoSideFacts DEF RecoveredSide
  <1>2. CASE Complete(s)
    <2>1. \A name \in RefNames : refs[s][name] \in Commits
      BY <1>2 DEF GitType, Complete
    <2>2. refs[s]["pre"] \in Commits /\ refs[s]["base"] \in Commits /\ refs[s]["source"] \in Commits
      BY <2>1 DEF RefNames
    <2>3. /\ refs[s]["base"] = SourceCommit(refs[s]["base"].at)
          /\ refs[s]["source"] = SourceCommit(refs[s]["source"].at)
      BY <2>2, CommitFacts DEF RefInv
    <2>4. refs[s]["base"].at \in Nat /\ refs[s]["source"].at \in Nat
      BY <2>2, CommitFacts
    <2> DEFINE d == [NoSide EXCEPT !.part = TRUE, !.plan = "merge", !.pre = refs[s]["pre"],
                        !.source = refs[s]["source"].at, !.base = refs[s]["base"].at]
    <2>5. /\ d \in SideRecords /\ d.wip = "" /\ d.stash = {} /\ d.part /\ d.plan = "merge"
          /\ d.pre = refs[s]["pre"]
          /\ d.base = refs[s]["base"].at /\ d.source = refs[s]["source"].at
      BY <2>2, <2>4, NoSideFacts DEF SideRecords
    <2>6. RecoveredSide(s) = d
      BY <1>2 DEF RecoveredSide
    <2> HIDE DEF d
    <2>7. \A name \in RefNames : refs[s][name] = Pin(d, name)
      BY <2>3, <2>5 DEF RefNames, Pin
    <2> QED
      BY <1>2, <2>5, <2>6, <2>7
  <1> QED
    BY <1>1, <1>2

LEMMA RecoveredRecordFacts ==
    ASSUME GitType, FileType, RefInv
    PROVE  LET r == RecoveredRecord IN
           /\ r \in Records /\ r.kind = "record" /\ r.phase = "cancelling"
           /\ \A s \in Sides : /\ r.side[s] = RecoveredSide(s)
                               /\ Complete(s) => r.from[s] = refs[s]["base"].at
  <1> DEFINE f == [s \in Sides |-> RecoveredSide(s)]
             g == [s \in Sides |-> IF Complete(s) THEN refs[s]["base"].at ELSE base[s]]
             c == IF Complete("memory") THEN "merge-memory" ELSE "none"
  <1>1. f \in [Sides -> SideRecords] /\ \A s \in Sides : f[s] = RecoveredSide(s)
    <2>1. \A s \in Sides : RecoveredSide(s) \in SideRecords
      BY RecoveredFacts
    <2> QED
      BY <2>1
  <1>2. g \in [Sides -> Nat] /\ \A s \in Sides : Complete(s) => g[s] = refs[s]["base"].at
    <2>1. \A s \in Sides : Complete(s) => refs[s]["base"].at \in Nat
      <3> SUFFICES ASSUME NEW s \in Sides, Complete(s)
                   PROVE  refs[s]["base"].at \in Nat
        OBVIOUS
      <3>1. refs[s]["base"] \in Commits
        BY DEF GitType, Complete, RefNames
      <3> QED
        BY <3>1, CommitFacts
    <2>2. \A s \in Sides : base[s] \in Nat
      BY DEF FileType
    <2> QED
      BY <2>1, <2>2
  <1>3. c \in Choices
    BY DEF Choices
  <1> HIDE DEF f, g, c
  <1> DEFINE r == [kind |-> "record", generation |-> 1, phase |-> "cancelling",
                   choice |-> c, from |-> g, side |-> f]
  <1>4. r \in Records /\ r.kind = "record" /\ r.phase = "cancelling" /\ r.from = g /\ r.side = f
    BY <1>1, <1>2, <1>3 DEF Records, Phases
  <1>5. RecoveredRecord = r
    BY DEF RecoveredRecord, f, g, c, r
  <1> QED
    BY <1>1, <1>2, <1>4, <1>5

LEMMA CallRecoversKeeps ==
    ASSUME IInv, CallRecovers
    PROVE  IInv'
  <1>1. /\ JournalLost /\ RefsExist /\ ~Incomplete
        /\ journal' = RecoveredRecord
        /\ UNCHANGED <<gitVars, source, base, syncLog, agentVars, faultVars>>
    BY DEF CallRecovers
  <1>0. UNCHANGED <<head, merging, index, tree, stash, refs>>
    BY <1>1 DEF gitVars
  <1>2. /\ GitType /\ FileType /\ AgentType /\ StateInv /\ RefInv
        /\ journal.kind \in {"none", "malformed"} /\ ~Active(journal)
    BY <1>1, Disassemble, LostIsNotOpen DEF StateInv
  <1>3. /\ journal' \in Records /\ journal'.kind = "record" /\ journal'.phase = "cancelling"
        /\ \A s \in Sides : /\ journal'.side[s] = RecoveredSide(s)
                            /\ Complete(s) => journal'.from[s] = refs[s]["base"].at
    BY <1>1, <1>2, RecoveredRecordFacts
  <1>4. \A s \in Sides :
           LET d == journal'.side[s] IN
           /\ d \in SideRecords /\ d.wip = "" /\ d.stash = {}
           /\ d.part <=> Complete(s)
           /\ Complete(s) => /\ d.base = refs[s]["base"].at
                             /\ \A name \in RefNames : refs[s][name] = Pin(d, name)
    BY <1>2, <1>3, RecoveredFacts
  <1>5. Complete("code")
    BY <1>1 DEF RefsExist, Incomplete, Partial, Sides
  <1>6. GitType' /\ FileType' /\ AgentType'
    BY <1>0, <1>1, <1>2, <1>3 DEF GitType, FileType, AgentType
  <1>7. JournalInv'
    BY <1>3, <1>4, <1>5 DEF JournalInv, Sides
  <1>8. RefInv' /\ BaseInv' /\ OwedInv' /\ SyncLogChains'
    BY <1>0, <1>1, <1>2, <1>4 DEF StateInv, RefInv, BaseInv, OwedInv, SyncLogChains
  <1>9. NamedInv' /\ CandidateInv'
    BY <1>3, <1>4 DEF NamedInv, CandidateInv, Pending
  <1>10. AuthorityPinned'
    BY <1>0, <1>4 DEF AuthorityPinned, Pinned
  <1>11. ParkedWorkKept'
    <2> SUFFICES ASSUME damaged' = "no", NEW t \in Sides, NEW e \in owed'[t]
                 PROVE  Kept(t, e)'
      BY KeptPointwiseNext
    <2>1. Kept(t, e)
      BY <1>1, <1>2, KeptPointwise DEF StateInv
    <2> QED
      BY <1>0, <1>2, <2>1 DEF Kept
  <1>12. StateInv'
    BY <1>7, <1>8, <1>9, <1>10, <1>11 DEF StateInv
  <1>13. call' \in Calls /\ call'.step = "rollback"
    BY NoCallFacts DEF CallRecovers, Calls, Steps, Sides
  <1>14. CallType' /\ ProgressInv'
    BY <1>3, <1>13, GoesRollingBack DEF Active, Phases
  <1> QED
    BY <1>6, <1>12, <1>14, Assemble

LEMMA CallRecoversPartlyKeeps ==
    ASSUME IInv, NEW s \in Sides, CallRecoversPartly(s)
    PROVE  IInv'
  <1>1. /\ JournalLost /\ Complete(s)
        /\ head' = [head EXCEPT ![s] = refs[s]["pre"]]
        /\ merging' = [merging EXCEPT ![s] = 0]
        /\ index' = [index EXCEPT ![s] = "none"]
        /\ call' = [NoCall EXCEPT !.step = "partial", !.side = s]
        /\ UNCHANGED <<tree, stash, refs, source, fileVars, agentVars, faultVars>>
    BY DEF CallRecoversPartly
  <1>2. GitType
    BY Disassemble
  <1>3. refs[s]["pre"] \in Commits
    BY <1>1, <1>2 DEF GitType, Complete, RefNames
  <1>4. GitType' /\ \A t \in Sides : index'[t] = "reapply" => index[t] = "reapply"
    BY <1>1, <1>2, <1>3 DEF GitType
  <1>5. FileType' /\ AgentType' /\ StateInv'
    BY <1>1, <1>4, Disassemble, HeadsMove
  <1>6. call' \in Calls /\ call'.step = "partial"
    BY <1>1, NoCallFacts DEF Calls, Steps
  <1>7. CallType' /\ ProgressInv'
    BY <1>1, <1>6, LostIsNotOpen, GoesPartial
  <1> QED
    BY <1>4, <1>5, <1>7, Assemble

-----------------------------------------------------------------------------
(* Refs are deleted and pinned.                                            *)

\* Only refs change, and no transaction is open.
LEMMA RefsChange ==
    ASSUME GitType, FileType, AgentType, StateInv, GitType', RefInv', ~Active(journal),
           UNCHANGED <<head, merging, index, tree, stash, source, fileVars, agentVars, faultVars>>
    PROVE  FileType' /\ AgentType' /\ StateInv'
  <1>1. FileType' /\ JournalInv' /\ NamedInv' /\ SyncLogChains' /\ BaseInv'
    BY FilesStay DEF GitType, StateInv
  <1>2. AuthorityPinned' /\ CandidateInv'
    BY DEF AuthorityPinned, CandidateInv, Active
  <1>3. OwedInv' /\ AgentType'
    BY DEF OwedInv, AgentType, StateInv
  <1>5. ParkedWorkKept'
    BY DEF ParkedWorkKept, Active, Pending, StateInv
  <1> QED
    BY <1>1, <1>2, <1>3, <1>5 DEF StateInv

LEMMA RefSet ==
    ASSUME GitType, RefInv, NEW s \in Sides, NEW name \in RefNames, NEW c \in Commits \cup {NoCommit},
           name \in {"base", "source"} /\ c # NoCommit => c = SourceCommit(c.at),
           refs' = [refs EXCEPT ![s][name] = c],
           UNCHANGED <<head, merging, index, tree, stash, source>>
    PROVE  /\ GitType' /\ RefInv'
           /\ refs'[s][name] = c
           /\ \A t \in Sides, n \in RefNames : t # s \/ n # name => refs'[t][n] = refs[t][n]
  <1>1. refs \in [Sides -> [RefNames -> Commits \cup {NoCommit}]]
    BY DEF GitType
  <1>2. /\ refs' \in [Sides -> [RefNames -> Commits \cup {NoCommit}]]
        /\ refs'[s][name] = c
        /\ \A t \in Sides, n \in RefNames : t # s \/ n # name => refs'[t][n] = refs[t][n]
    BY <1>1
  <1>3. GitType'
    BY <1>2 DEF GitType
  <1>4. RefInv'
    <2> SUFFICES ASSUME NEW t \in Sides, NEW n \in {"base", "source"}, refs'[t][n] # NoCommit
                 PROVE  refs'[t][n] = SourceCommit(refs'[t][n].at)
      BY DEF RefInv
    <2>1. n \in RefNames
      BY DEF RefNames
    <2> QED
      BY <1>2, <2>1 DEF RefInv
  <1> QED
    BY <1>2, <1>3, <1>4

LEMMA RefDeleted ==
    ASSUME GitType, RefInv, NEW s \in Sides, NEW name \in RefNames, DeleteRef(s, name),
           UNCHANGED <<head, merging, index, tree, stash, source>>
    PROVE  GitType' /\ RefInv'
  BY RefSet DEF DeleteRef

LEMMA DeletePartialKeeps ==
    ASSUME IInv, DeletePartial
    PROVE  IInv'
  <1>0. /\ GitType /\ FileType /\ AgentType /\ StateInv /\ RefInv
        /\ call \in Calls /\ call.side \in Sides
    BY Disassemble DEF StateInv, CallType
  <1>1. /\ call.step = "partial"
        /\ UNCHANGED <<head, merging, index, tree, stash, source, fileVars, agentVars, faultVars>>
    BY DEF DeletePartial
  <1>2. journal.kind \in {"none", "malformed"} /\ ~Active(journal)
    BY <1>1, Disassemble DEF ProgressInv, CallInv, Active
  <1>3. \/ (\E name \in RefNames : DeleteRef(call.side, name)) /\ call' = call
        \/ call' = NoCall /\ refs' = refs
    BY DEF DeletePartial, Return, RefNames
  <1>4. GitType' /\ RefInv'
    <2>1. CASE refs' = refs
      BY <1>0, <1>1, <2>1 DEF GitType, RefInv
    <2> QED
      BY <1>0, <1>1, <1>3, <2>1, RefDeleted
  <1>5. FileType' /\ AgentType' /\ StateInv'
    BY <1>0, <1>1, <1>2, <1>4, RefsChange
  <1>6. CallType' /\ ProgressInv'
    BY <1>0, <1>1, <1>2, <1>3, GoesIdle, GoesPartial
  <1> QED
    BY <1>4, <1>5, <1>6, Assemble

-----------------------------------------------------------------------------
(* Admission: park, pin, publish.                                          *)

\* Work moves between the worktree, the stash stack and the agent's commits.
LEMMA WorkMoves ==
    ASSUME GitType, FileType, StateInv, GitType', OwedInv', CandidateInv',
           UNCHANGED <<refs, source, fileVars, damaged>>,
           damaged = "no" => \A t \in Sides : \A e \in owed'[t] : Kept(t, e)'
    PROVE  FileType' /\ StateInv'
  <1>1. FileType' /\ JournalInv' /\ NamedInv' /\ SyncLogChains' /\ BaseInv'
    BY FilesStay DEF GitType, StateInv
  <1>2. RefInv' /\ AuthorityPinned'
    BY RefsStay DEF StateInv
  <1>3. ParkedWorkKept'
    BY KeptPointwiseNext
  <1> QED
    BY <1>1, <1>2, <1>3 DEF StateInv

\* What the record of an admission says of a side, but for the candidate.
LEMMA AdmissionStays ==
    ASSUME AdmissionInv, call.step \in Admitting, NEW r, call'.record = r,
           
             /\ r.kind = call.record.kind /\ r.phase = call.record.phase /\ r.from = call.record.from
             /\ \A t \in Sides :
                   /\ r.side[t].part = call.record.side[t].part
                   /\ r.side[t].plan = call.record.side[t].plan
                   /\ r.side[t].pre = call.record.side[t].pre
                   /\ r.side[t].source = call.record.side[t].source
                   /\ r.side[t].base = call.record.side[t].base,
           UNCHANGED <<head, source, journal, base, index>>
    PROVE  AdmissionInv'
  <1>1. ~Active(journal')
    BY DEF AdmissionInv, Active
  <1>2. \A t \in Sides : Planned(t, call.record.side[t]) => Planned(t, r.side[t])
    BY DEF Planned, Contains, FastForwards
  <1>3. \A t \in Sides : Moving(r.side[t]) => Moving(call.record.side[t])
    BY DEF Moving
  <1> QED
    BY <1>1, <1>2, <1>3 DEF AdmissionInv

\* r is p with the candidate x parked on side s.
Parks(r, p, s, x) ==
    /\ r \in Records /\ r.kind = p.kind /\ r.phase = p.phase /\ r.from = p.from
    /\ r.side[s].wip = "parked" /\ r.side[s].stash = x
    /\ \A t \in Sides : t # s => r.side[t] = p.side[t]
    /\ \A t \in Sides :
          /\ r.side[t].part = p.side[t].part /\ r.side[t].plan = p.side[t].plan
          /\ r.side[t].pre = p.side[t].pre /\ r.side[t].source = p.side[t].source
          /\ r.side[t].base = p.side[t].base

LEMMA ParkedSide ==
    ASSUME NEW p \in Records, NEW s \in Sides, NEW x, NEW e \in SideRecords,
           e.wip = "parked", e.stash = x,
           e.part = p.side[s].part, e.plan = p.side[s].plan, e.pre = p.side[s].pre,
           e.source = p.side[s].source, e.base = p.side[s].base,
           NEW r, r = [p EXCEPT !.side[s] = e]
    PROVE  Parks(r, p, s, x)
  <1>1. /\ r \in Records /\ r.kind = p.kind /\ r.phase = p.phase
        /\ r.from = p.from /\ r.side = [p.side EXCEPT ![s] = e]
    BY DEF Records
  <1>2. p.side \in [Sides -> SideRecords]
    BY DEF Records
  <1>3. r.side[s] = e /\ \A t \in Sides : t # s => r.side[t] = p.side[t]
    BY <1>1, <1>2
  <1> QED
    BY <1>1, <1>3 DEF Parks

LEMMA ParkedRecord ==
    ASSUME NEW p \in Records, NEW s \in Sides, NEW x \in SUBSET Edits
    PROVE  Parks([p EXCEPT !.side[s].wip = "parked", !.side[s].stash = x], p, s, x)
  <1>1. PICK d : d = p.side[s]
    OBVIOUS
  <1>2. d \in SideRecords
    BY <1>1, RecordFields
  <1>3. PICK e : e = [d EXCEPT !.wip = "parked", !.stash = x]
    OBVIOUS
  <1>4. /\ e \in SideRecords /\ e.wip = "parked" /\ e.stash = x
        /\ e.part = d.part /\ e.plan = d.plan /\ e.pre = d.pre /\ e.source = d.source /\ e.base = d.base
    BY <1>2, <1>3 DEF SideRecords
  <1>5. [p EXCEPT !.side[s].wip = "parked", !.side[s].stash = x]
        = [p EXCEPT !.side[s] = [d EXCEPT !.wip = "parked", !.stash = x]]
    BY <1>1, <1>2 DEF Records, SideRecords
  <1>6. PICK r : r = [p EXCEPT !.side[s] = e]
    OBVIOUS
  <1>7. Parks(r, p, s, x)
    BY <1>1, <1>4, <1>6, ParkedSide
  <1>8. r = [p EXCEPT !.side[s].wip = "parked", !.side[s].stash = x]
    BY <1>3, <1>5, <1>6
  <1> QED
    BY <1>7, <1>8

LEMMA ParkWipKeeps ==
    ASSUME IInv, ParkWip
    PROVE  IInv'
  <1> DEFINE s == call.side
             d == call.record.side[s]
             next == IF s = "code" THEN [call EXCEPT !.side = "memory"]
                     ELSE [call EXCEPT !.side = "code", !.step = "pin"]
             parks == Moving(d) /\ tree[s] # {}
  <1>0. /\ GitType /\ FileType /\ CallType /\ AgentType /\ StateInv /\ ProgressInv
        /\ call \in Calls /\ s \in Sides /\ call.record \in Records
        /\ \A t \in Sides : call.record.side[t] \in SideRecords
        /\ OwedInv /\ AdmissionInv /\ ParkingInv
    BY Disassemble DEF CallType, StateInv, ProgressInv
  <1>1. /\ call.step = "park"
        /\ UNCHANGED <<head, merging, index, refs, source, fileVars, edits, faultVars>>
        /\ \/ ~parks /\ call' = next /\ UNCHANGED <<tree, stash, owed>>
           \/ /\ parks
              /\ stash' = [stash EXCEPT ![s] = @ \cup {tree[s]}]
              /\ tree' = [tree EXCEPT ![s] = {}]
              /\ owed' = [owed EXCEPT ![s] = @ \cup tree[s]]
              /\ call' = [next EXCEPT !.record = [@ EXCEPT !.side[s].wip = "parked",
                                                           !.side[s].stash = tree[s]]]
    BY DEF ParkWip
  <1>2. ~Active(journal) /\ CandidateInv'
    BY <1>0, <1>1 DEF AdmissionInv, Admitting, CandidateInv, Active
  <1>3. next \in Calls /\ next.step \in {"park", "pin"} /\ next.record = call.record
    BY <1>0, <1>1 DEF Calls, Sides, Steps
  <1>4. call.step \in Admitting /\ \A x \in {"park", "pin"} : x \in Admitting
    BY <1>1 DEF Admitting
  <1> HIDE DEF next
  <1>5. CASE ~parks /\ call' = next /\ UNCHANGED <<tree, stash, owed>>
    <2>1. GitType' /\ FileType' /\ AgentType' /\ StateInv'
      BY <1>0, <1>1, <1>5, NothingMoves DEF gitVars, AgentType
    <2>2. call' \in Calls /\ call'.step \in {"park", "pin"} /\ call'.record = call.record
      BY <1>3, <1>5
    <2>3. AdmissionInv'
      BY <1>0, <1>1, <1>4, <2>2, AdmissionStays
    <2>4. ParkingInv'
      BY <1>0, <1>1, <1>4, <1>5, <2>2 DEF ParkingInv
    <2>5. CallInv' /\ ReturnInv'
      BY <2>2 DEF CallInv, ReturnInv, Holding, Carrying, Cancelling
    <2> QED
      BY <2>1, <2>2, <2>3, <2>4, <2>5, Assemble DEF CallType, ProgressInv
  <1>6. CASE /\ parks
             /\ stash' = [stash EXCEPT ![s] = @ \cup {tree[s]}]
             /\ tree' = [tree EXCEPT ![s] = {}]
             /\ owed' = [owed EXCEPT ![s] = @ \cup tree[s]]
             /\ call' = [next EXCEPT !.record = [@ EXCEPT !.side[s].wip = "parked",
                                                          !.side[s].stash = tree[s]]]
    <2>1. tree[s] \in SUBSET Edits /\ stash[s] \in SUBSET SUBSET Edits /\ owed[s] \in SUBSET Edits
      BY <1>0 DEF GitType, AgentType
    <2>0. PICK r : r = [call.record EXCEPT !.side[s].wip = "parked", !.side[s].stash = tree[s]]
      OBVIOUS
    <2>2. Parks(r, call.record, s, tree[s])
      BY <1>0, <2>0, <2>1, ParkedRecord
    <2>3. call' = [next EXCEPT !.record = r]
      BY <1>3, <1>6, <2>0
    <2>4. r \in Records
      BY <2>2 DEF Parks
    <2>5. call' \in Calls /\ call'.step \in {"park", "pin"} /\ call'.record = r
      BY <1>3, <2>3, <2>4 DEF Calls
    <2>6. /\ r.side[s].wip = "parked" /\ r.side[s].stash = tree[s]
          /\ \A t \in Sides : t # s => r.side[t] = call.record.side[t]
      BY <2>2 DEF Parks
    <2>8. /\ GitType' /\ AgentType'
          /\ stash'[s] = stash[s] \cup {tree[s]} /\ tree'[s] = {} /\ owed'[s] = owed[s] \cup tree[s]
          /\ \A t \in Sides : t # s => stash'[t] = stash[t] /\ tree'[t] = tree[t] /\ owed'[t] = owed[t]
      BY <1>0, <1>1, <1>6, <2>1 DEF GitType, AgentType
    <2>9. OwedInv'
      BY <1>0, <1>1, <2>8 DEF OwedInv
    <2>10. damaged = "no" => \A t \in Sides : \A x \in owed'[t] : Kept(t, x)'
      <3> SUFFICES ASSUME damaged = "no", NEW t \in Sides, NEW x \in owed'[t]
                   PROVE  Kept(t, x)'
        OBVIOUS
      <3>1. x \in owed[t] => x \in tree[t] \/ \E y \in stash[t] : x \in y
        BY <1>0, <1>2, KeptPointwise DEF Kept, StateInv
      <3> QED
        BY <1>0, <2>8, <3>1 DEF Kept
    <2>11. FileType' /\ StateInv'
      BY <1>0, <1>1, <1>2, <2>8, <2>9, <2>10, WorkMoves
    <2>12. AdmissionInv'
      <3>1. /\ r.kind = call.record.kind /\ r.phase = call.record.phase /\ r.from = call.record.from
            /\ \A t \in Sides :
                  /\ r.side[t].part = call.record.side[t].part
                  /\ r.side[t].plan = call.record.side[t].plan
                  /\ r.side[t].pre = call.record.side[t].pre
                  /\ r.side[t].source = call.record.side[t].source
                  /\ r.side[t].base = call.record.side[t].base
        BY <2>2 DEF Parks
      <3> QED
        BY <1>0, <1>1, <1>4, <2>5, <3>1, AdmissionStays
    <2>13. ParkingInv'
      <3> SUFFICES ASSUME NEW t \in Sides
                   PROVE  \/ r.side[t].wip = "" /\ r.side[t].stash = {}
                          \/ /\ r.side[t].wip = "parked"
                             /\ tree'[t] = {} /\ index'[t] = "none" /\ r.side[t].stash \in stash'[t]
        BY <2>5 DEF ParkingInv
      <3>1. CASE t = s
        <4>1. index[s] = "none"
          BY <1>0, <1>4, <1>6 DEF AdmissionInv
        <4> QED
          BY <1>1, <2>6, <2>8, <3>1, <4>1
      <3>2. CASE t # s
        <4>1. \/ call.record.side[t].wip = "" /\ call.record.side[t].stash = {}
              \/ /\ call.record.side[t].wip = "parked"
                 /\ tree[t] = {} /\ index[t] = "none" /\ call.record.side[t].stash \in stash[t]
          BY <1>0, <1>4 DEF ParkingInv
        <4> QED
          BY <1>1, <2>6, <2>8, <3>2, <4>1
      <3> QED
        BY <3>1, <3>2
    <2>14. CallInv' /\ ReturnInv'
      BY <2>5 DEF CallInv, ReturnInv, Holding, Carrying, Cancelling
    <2> QED
      BY <2>5, <2>8, <2>11, <2>12, <2>13, <2>14, Assemble DEF CallType, ProgressInv
  <1> QED
    BY <1>1, <1>5, <1>6

LEMMA ParkFailsKeeps ==
    ASSUME IInv, ParkFails
    PROVE  IInv'
  <1> DEFINE d == call.record.side["code"]
             undo == call.side = "memory" /\ d.wip = "parked"
  <1>0. /\ GitType /\ FileType /\ AgentType /\ StateInv
        /\ d \in SideRecords /\ OwedInv /\ AdmissionInv /\ ParkingInv /\ "code" \in Sides
    BY Disassemble DEF StateInv, ProgressInv, Sides
  <1>1. /\ call.step = "park" /\ call' = NoCall
        /\ tree' = IF undo THEN [tree EXCEPT !["code"] = d.stash] ELSE tree
        /\ stash' = IF undo THEN [stash EXCEPT !["code"] = @ \ {d.stash}] ELSE stash
        /\ UNCHANGED <<head, merging, index, refs, source, fileVars, agentVars, faultVars>>
    BY DEF ParkFails, Return
  <1>2. ~Active(journal) /\ CandidateInv'
    BY <1>0, <1>1 DEF AdmissionInv, Admitting, CandidateInv, Active
  <1>3. CallType' /\ ProgressInv'
    BY <1>1, GoesIdle
  <1>4. CASE ~undo
    <2>1. GitType' /\ FileType' /\ AgentType' /\ StateInv'
      BY <1>0, <1>1, <1>4, NothingMoves DEF gitVars, AgentType
    <2> QED
      BY <1>3, <2>1, Assemble
  <1>5. CASE undo
    <2>1. d.stash \in SUBSET Edits /\ tree["code"] = {} /\ d.stash \in stash["code"]
      BY <1>0, <1>1, <1>5, SideFields DEF ParkingInv, Admitting
    <2>2. /\ GitType' /\ AgentType'
          /\ stash'["code"] = stash["code"] \ {d.stash} /\ tree'["code"] = d.stash
          /\ \A t \in Sides : t # "code" => stash'[t] = stash[t] /\ tree'[t] = tree[t]
      BY <1>0, <1>1, <1>5, <2>1 DEF GitType, AgentType
    <2>3. OwedInv'
      BY <1>0, <1>1, <2>1, <2>2 DEF OwedInv
    <2>4. damaged = "no" => \A t \in Sides : \A x \in owed'[t] : Kept(t, x)'
      <3> SUFFICES ASSUME damaged = "no", NEW t \in Sides, NEW x \in owed[t]
                   PROVE  Kept(t, x)'
        BY <1>1
      <3>1. x \in tree[t] \/ \E y \in stash[t] : x \in y
        BY <1>0, <1>2, KeptPointwise DEF Kept, StateInv
      <3> QED
        BY <1>0, <2>1, <2>2, <3>1 DEF Kept
    <2>5. FileType' /\ StateInv'
      BY <1>0, <1>1, <1>2, <2>2, <2>3, <2>4, WorkMoves
    <2> QED
      BY <1>3, <2>2, <2>5, Assemble
  <1> QED
    BY <1>4, <1>5

\* The first index of a set of them.
LEMMA LeastIndex ==
    ASSUME NEW W \in SUBSET (1 .. 6), W # {}
    PROVE  \E i \in W : \A j \in 1 .. i - 1 : j \notin W
  <1>1. PICK k \in W : TRUE
    OBVIOUS
  <1> QED
    BY <1>1

\* The first entry of an order of six, when one is wanted.
LEMMA PinOrderFacts ==
    /\ DOMAIN PinOrder = 1 .. 6 /\ DOMAIN RetireOrder = 1 .. 6
    /\ \A i \in 1 .. 6 : /\ PinOrder[i][1] \in Sides /\ PinOrder[i][2] \in RefNames
                         /\ RetireOrder[i][1] \in Sides /\ RetireOrder[i][2] \in RefNames
    /\ \A i \in 1 .. 6 : PinOrder[i][2] = "pre" =>
          i - 1 \in 1 .. 6 /\ PinOrder[i - 1][1] = PinOrder[i][1] /\ PinOrder[i - 1][2] = "base"
    /\ \A s \in Sides, name \in RefNames :
          \E i \in 1 .. 6 : PinOrder[i][1] = s /\ PinOrder[i][2] = name
  BY DEF PinOrder, RetireOrder, Sides, RefNames

\* pin_authority pins a missing ref, the base of a side before its pre-sync head,
\* or refuses, or has pinned them all.
LEMMA PinRefFacts ==
    ASSUME PinRef
    PROVE  \/ \E s \in Sides, name \in RefNames :
                 /\ refs[s][name] = NoCommit
                 /\ refs' = [refs EXCEPT ![s][name] = Pin(call.record.side[s], name)]
                 /\ call' = call
                 /\ name = "pre" => refs[s]["base"] = Pin(call.record.side[s], "base")
           \/ call' = NoCall /\ refs' = refs
           \/ /\ call' = [call EXCEPT !.step = "publish"] /\ refs' = refs
              /\ \A s \in Sides, name \in RefNames : refs[s][name] = Pin(call.record.side[s], name)
  <1> DEFINE Wants(o) == refs[o[1]][o[2]] # Pin(call.record.side[o[1]], o[2])
             W == {i \in 1 .. 6 : Wants(PinOrder[i])}
             P(i) == i \in DOMAIN PinOrder /\ Wants(PinOrder[i])
                     /\ \A j \in 1 .. i - 1 : ~Wants(PinOrder[j])
             k == CHOOSE i \in DOMAIN PinOrder :
                     Wants(PinOrder[i]) /\ \A j \in 1 .. i - 1 : ~Wants(PinOrder[j])
  <1>1. CASE W # {}
    <2>1. \E i \in 1 .. 6 : i \in W /\ \A j \in 1 .. i - 1 : j \notin W
      BY <1>1, LeastIndex
    <2>2. \E i \in DOMAIN PinOrder : Wants(PinOrder[i]) /\ \A j \in 1 .. i - 1 : ~Wants(PinOrder[j])
      BY <2>1, PinOrderFacts
    <2>3. k \in 1 .. 6 /\ Wants(PinOrder[k]) /\ \A j \in 1 .. k - 1 : ~Wants(PinOrder[j])
      BY <2>2, PinOrderFacts
    <2>4. First(PinOrder, Wants) = PinOrder[k]
      BY DEF First
    <2>5. \E i \in DOMAIN PinOrder : Wants(PinOrder[i])
      BY <2>2
    <2> DEFINE o == PinOrder[k]
    <2> HIDE DEF k
    <2>6. \/ /\ refs[o[1]][o[2]] = NoCommit
             /\ refs' = [refs EXCEPT ![o[1]][o[2]] = Pin(call.record.side[o[1]], o[2])]
             /\ call' = call
          \/ call' = NoCall /\ refs' = refs
      BY <2>4, <2>5 DEF PinRef, Return
    <2>7. o[1] \in Sides /\ o[2] \in RefNames
      BY <2>3, PinOrderFacts
    <2>8. o[2] = "pre" => refs[o[1]]["base"] = Pin(call.record.side[o[1]], "base")
      <3> SUFFICES ASSUME o[2] = "pre"
                   PROVE  refs[o[1]]["base"] = Pin(call.record.side[o[1]], "base")
        OBVIOUS
      <3>1. k - 1 \in 1 .. 6 /\ PinOrder[k - 1][1] = o[1] /\ PinOrder[k - 1][2] = "base"
        BY <2>3, PinOrderFacts
      <3>2. k \in Nat /\ k - 1 \in 1 .. k - 1
        BY <2>3, <3>1
      <3>3. ~Wants(PinOrder[k - 1])
        BY <2>3, <3>2
      <3> QED
        BY <3>1, <3>3
    <2> HIDE DEF o
    <2> QED
      BY <2>6, <2>7, <2>8
  <1>2. CASE W = {}
    <2>1. ~\E i \in DOMAIN PinOrder : Wants(PinOrder[i])
      BY <1>2, PinOrderFacts
    <2>2. call' = [call EXCEPT !.step = "publish"] /\ refs' = refs
      BY <2>1 DEF PinRef, Goto
    <2>3. \A s \in Sides, name \in RefNames : refs[s][name] = Pin(call.record.side[s], name)
      BY <2>1, PinOrderFacts
    <2> QED
      BY <2>2, <2>3
  <1> QED
    BY <1>1, <1>2

LEMMA PinRefKeeps ==
    ASSUME IInv, PinRef
    PROVE  IInv'
  <1>0. /\ GitType /\ FileType /\ CallType /\ AgentType /\ StateInv /\ RefInv /\ call \in Calls
        /\ call.record \in Records /\ \A t \in Sides : call.record.side[t] \in SideRecords
        /\ AdmissionInv /\ ParkingInv
    BY Disassemble DEF StateInv, ProgressInv, CallType
  <1>1. /\ call.step = "pin"
        /\ UNCHANGED <<head, merging, index, tree, stash, source, fileVars, agentVars, faultVars>>
    BY DEF PinRef
  <1>2. ~Active(journal) /\ call.step \in Admitting /\ "publish" \in Admitting
    BY <1>0, <1>1 DEF AdmissionInv, Admitting
  <1>3. ASSUME NEW s \in Sides, NEW name \in RefNames,
               refs' = [refs EXCEPT ![s][name] = Pin(call.record.side[s], name)], call' = call
        PROVE  IInv'
    <2>1. GitType' /\ RefInv'
      BY <1>0, <1>1, <1>3, PinFacts, RefSet
    <2>2. FileType' /\ AgentType' /\ StateInv'
      BY <1>0, <1>1, <1>2, <2>1, RefsChange
    <2>3. AdmissionInv'
      BY <1>0, <1>1, <1>2, <1>3, AdmissionStays
    <2>4. ParkingInv'
      BY <1>0, <1>1, <1>3 DEF ParkingInv
    <2>5. CallInv' /\ ReturnInv'
      BY <1>1, <1>3 DEF CallInv, ReturnInv, Holding, Carrying, Cancelling
    <2> QED
      BY <1>0, <1>3, <2>1, <2>2, <2>3, <2>4, <2>5, Assemble DEF CallType, ProgressInv
  <1>4. ASSUME refs' = refs
        PROVE  GitType' /\ FileType' /\ AgentType' /\ StateInv'
    BY <1>0, <1>1, <1>4, NothingMoves DEF gitVars, AgentType
  <1>5. ASSUME call' = NoCall, refs' = refs
        PROVE  IInv'
    BY <1>4, <1>5, GoesIdle, Assemble
  <1>6. ASSUME call' = [call EXCEPT !.step = "publish"], refs' = refs,
               \A s \in Sides, name \in RefNames : refs[s][name] = Pin(call.record.side[s], name)
        PROVE  IInv'
    <2>1. call' \in Calls /\ call'.step = "publish" /\ call'.record = call.record
      BY <1>0, <1>6 DEF Calls, Steps
    <2>2. AdmissionInv'
      BY <1>0, <1>1, <1>2, <2>1, AdmissionStays
    <2>3. ParkingInv'
      BY <1>0, <1>1, <1>2, <2>1 DEF ParkingInv
    <2>4. CallInv' /\ ReturnInv'
      BY <1>6, <2>1 DEF CallInv, ReturnInv, Holding, Carrying, Cancelling, Pinned
    <2> QED
      BY <1>4, <1>6, <2>1, <2>2, <2>3, <2>4, Assemble DEF CallType, ProgressInv
  <1> QED
    BY <1>3, <1>5, <1>6, PinRefFacts

LEMMA PublishRecordKeeps ==
    ASSUME IInv, PublishRecord
    PROVE  IInv'
  <1>1. /\ call.step = "publish" /\ journal' = call.record
        /\ call' = [NoCall EXCEPT !.step = "run"]
        /\ UNCHANGED <<gitVars, source, base, syncLog, agentVars, faultVars>>
    BY DEF PublishRecord
  <1>0. UNCHANGED <<head, merging, index, tree, stash, refs>>
    BY <1>1 DEF gitVars
  <1>2. /\ GitType /\ FileType /\ AgentType /\ StateInv
        /\ call.record \in Records /\ \A t \in Sides : call.record.side[t] \in SideRecords
        /\ AdmissionInv /\ ParkingInv /\ CallInv
    BY Disassemble DEF ProgressInv
  <1>3. /\ ~Active(journal)
        /\ call.record.kind = "record" /\ call.record.phase = "running-code"
        /\ call.record.from = base
        /\ \A s \in Sides :
              /\ call.record.side[s].part /\ call.record.side[s].base = base[s]
              /\ base[s] <= call.record.side[s].source /\ call.record.side[s].source <= source[s]
              /\ Planned(s, call.record.side[s])
    BY <1>1, <1>2 DEF AdmissionInv, Admitting
  <1>4. \A s \in Sides :
           \/ call.record.side[s].wip = "" /\ call.record.side[s].stash = {}
           \/ /\ call.record.side[s].wip = "parked"
              /\ tree[s] = {} /\ index[s] = "none" /\ call.record.side[s].stash \in stash[s]
    BY <1>1, <1>2 DEF ParkingInv, Admitting
  <1>5. Pinned(call.record, FALSE)
    BY <1>1, <1>2 DEF CallInv
  <1>6. GitType' /\ FileType' /\ AgentType'
    BY <1>0, <1>1, <1>2 DEF GitType, FileType, AgentType
  <1>7. JournalInv'
    BY <1>1, <1>3 DEF JournalInv, Sides
  <1>8. RefInv' /\ BaseInv' /\ SyncLogChains'
    BY <1>0, <1>1, <1>2 DEF StateInv, RefInv, BaseInv, SyncLogChains
  <1>9. OwedInv'
    BY <1>0, <1>1, <1>2, <1>4 DEF StateInv, OwedInv
  <1>10. NamedInv'
    BY <1>1, <1>4 DEF NamedInv
  <1>11. CandidateInv'
    <2> SUFFICES ASSUME NEW t \in Sides
                 PROVE  /\ journal'.side[t].wip # "" => owed'[t] \cap tree'[t] \subseteq journal'.side[t].stash
                        /\ journal'.side[t].wip \notin {"restored", "restore-conflict"}
                        /\ index'[t] = "reapply" /\ Pending(journal'.side[t]) => Back(t)'
      BY DEF CandidateInv
    <2>1. CASE call.record.side[t].wip = ""
      BY <1>1, <1>4, <2>1 DEF Pending
    <2>2. CASE call.record.side[t].wip = "parked"
      <3>1. tree'[t] = {} /\ index'[t] = "none"
        BY <1>0, <1>4, <2>2
      <3>2. journal'.side[t].wip = "parked"
        BY <1>1, <2>2
      <3> QED
        BY <3>1, <3>2
    <2> QED
      BY <1>4, <2>1, <2>2
  <1>12. AuthorityPinned'
    BY <1>0, <1>1, <1>5 DEF AuthorityPinned, Pinned
  <1>13. ParkedWorkKept'
    <2> SUFFICES ASSUME damaged' = "no", NEW t \in Sides, NEW e \in owed'[t]
                 PROVE  Kept(t, e)'
      BY KeptPointwiseNext
    <2>1. Kept(t, e)
      BY <1>1, <1>2, KeptPointwise DEF StateInv
    <2> QED
      BY <1>0, <1>3, <2>1 DEF Kept
  <1>14. StateInv'
    BY <1>7, <1>8, <1>9, <1>10, <1>11, <1>12, <1>13 DEF StateInv
  <1>15. call' \in Calls /\ call'.step = "run"
    BY <1>1, NoCallFacts DEF Calls, Steps
  <1>16. CallType' /\ ProgressInv'
    BY <1>1, <1>3, <1>15, GoesRunning DEF Active, Phases
  <1> QED
    BY <1>6, <1>14, <1>16, Assemble

-----------------------------------------------------------------------------
(* The sides are carried.                                                  *)

\* What a running call finds.
LEMMA RunningFacts ==
    ASSUME IInv, call.step = "run"
    PROVE  /\ GitType /\ FileType /\ AgentType /\ StateInv /\ journal \in Records
           /\ call \in Calls /\ Active(journal) /\ journal.phase # "cancelling"
  BY Disassemble DEF ProgressInv, CallInv, CallType

\* The journal goes on to a later phase.
LEMMA JournalAdvances ==
    ASSUME IInv, NEW s \in Sides, NEW ph \in AllPhases, Active(journal),
           Rewrites(journal', journal, s, ph, journal.side[s].wip),
           journal.phase \notin {"cancelling", "finalizing"}, ph \in Phases \ {"cancelling"},
           UNCHANGED <<gitVars, source, base, syncLog, agentVars, faultVars>>
    PROVE  /\ GitType' /\ FileType' /\ AgentType' /\ StateInv'
           /\ Active(journal') /\ journal'.phase = ph /\ journal'.phase # "cancelling"
  <1>1. MayWrite(s, ph, journal.side[s].wip)
    BY DEF MayWrite, Phases
  <1>2. GitType' /\ FileType' /\ AgentType' /\ StateInv'
    BY <1>1, Disassemble, JournalRewritten
  <1>3. Active(journal') /\ journal'.phase = ph
    BY DEF Rewrites, Active
  <1> QED
    BY <1>2, <1>3

LEMMA RunUnmovedKeeps ==
    ASSUME IInv, NEW s \in Sides, RunUnmoved(s)
    PROVE  IInv'
  <1>1. /\ call.step = "run" /\ journal.phase = Running[s]
        /\ journal' = [Carried(journal, s) EXCEPT !.phase = NextPhase(s)]
        /\ UNCHANGED <<gitVars, source, base, syncLog, call, agentVars, faultVars>>
    BY DEF RunUnmoved, RunningSide, Advance
  <1>2. /\ GitType /\ journal \in Records /\ call \in Calls /\ Active(journal)
        /\ journal.phase \notin {"cancelling", "finalizing"}
        /\ NextPhase(s) \in AllPhases /\ NextPhase(s) \in Phases \ {"cancelling"}
    BY <1>1, RunningFacts, PhaseNames DEF AllPhases
  <1>3. Rewrites(journal', journal, s, NextPhase(s), journal.side[s].wip)
    BY <1>1, <1>2, AdvanceRewrites
  <1>4. /\ GitType' /\ FileType' /\ AgentType' /\ StateInv'
        /\ Active(journal') /\ journal'.phase # "cancelling"
    BY <1>1, <1>2, <1>3, JournalAdvances
  <1>5. CallType' /\ ProgressInv'
    BY <1>1, <1>2, <1>4, GoesRunning
  <1> QED
    BY <1>4, <1>5, Assemble

LEMMA AdoptMergedKeeps ==
    ASSUME IInv, NEW s \in Sides, AdoptMerged(s)
    PROVE  IInv'
  <1>1. /\ call.step = "run" /\ journal.phase = Running[s]
        /\ call' = [call EXCEPT !.step = "carry", !.side = s]
        /\ UNCHANGED <<gitVars, source, fileVars, agentVars, faultVars>>
    BY DEF AdoptMerged, RunningSide
  <1>2. GitType /\ FileType /\ AgentType /\ StateInv /\ call \in Calls /\ Active(journal)
    BY <1>1, RunningFacts
  <1>3. GitType' /\ FileType' /\ AgentType' /\ StateInv'
    BY <1>1, <1>2, NothingMoves DEF AgentType
  <1>4. call' \in Calls /\ call'.step = "carry" /\ call'.side = s
    BY <1>1, <1>2 DEF Calls, Steps
  <1>5. CallType' /\ ProgressInv'
    BY <1>1, <1>2, <1>4, PhaseNames, GoesCarrying DEF Active
  <1> QED
    BY <1>3, <1>5, Assemble

LEMMA StartMergeKeeps ==
    ASSUME IInv, NEW s \in Sides, StartMerge(s)
    PROVE  IInv'
  <1>1. /\ call.step = "run"
        /\ UNCHANGED <<tree, stash, refs, source, fileVars, call, agentVars, faultVars>>
    BY DEF StartMerge, RunningSide
  <1>2. /\ GitType /\ FileType /\ AgentType /\ StateInv /\ journal \in Records /\ call \in Calls
        /\ Active(journal) /\ journal.phase # "cancelling"
    BY <1>1, RunningFacts
  <1>3. /\ head[s] \in Commits /\ journal.side[s].source \in Nat
        /\ SourceCommit(journal.side[s].source) \in Commits
        /\ MergeCommit(head[s], journal.side[s].source) \in Commits
    BY <1>2, CommitFacts, RecordFields, SideFields DEF GitType
  <1>4. \/ head' = [head EXCEPT ![s] = SourceCommit(journal.side[s].source)] /\ UNCHANGED <<merging, index>>
        \/ /\ head' = [head EXCEPT ![s] = MergeCommit(head[s], journal.side[s].source)]
           /\ UNCHANGED <<merging, index>>
        \/ /\ merging' = [merging EXCEPT ![s] = journal.side[s].source] /\ UNCHANGED head
           /\ \E i \in {"conflict", "staged"} : index' = [index EXCEPT ![s] = i]
    BY DEF StartMerge
  <1>5. GitType' /\ \A t \in Sides : index'[t] = "reapply" => index[t] = "reapply"
    BY <1>1, <1>2, <1>3, <1>4 DEF GitType
  <1>6. FileType' /\ AgentType' /\ StateInv'
    BY <1>1, <1>2, <1>5, HeadsMove
  <1>7. CallType' /\ ProgressInv'
    BY <1>1, <1>2, GoesRunning DEF Active
  <1> QED
    BY <1>5, <1>6, <1>7, Assemble

LEMMA FinishMemoryMergeKeeps ==
    ASSUME IInv, FinishMemoryMerge
    PROVE  IInv'
  <1>1. /\ call.step = "run"
        /\ head' = [head EXCEPT !["memory"] = MergeCommit(@, merging["memory"])]
        /\ merging' = [merging EXCEPT !["memory"] = 0]
        /\ index' = [index EXCEPT !["memory"] = "none"]
        /\ UNCHANGED <<tree, stash, refs, source, fileVars, call, agentVars, faultVars>>
    BY DEF FinishMemoryMerge, RunningSide
  <1>2. /\ GitType /\ FileType /\ AgentType /\ StateInv /\ call \in Calls
        /\ Active(journal) /\ journal.phase # "cancelling" /\ "memory" \in Sides
    BY <1>1, RunningFacts DEF Sides
  <1>3. MergeCommit(head["memory"], merging["memory"]) \in Commits
    BY <1>2, CommitFacts DEF GitType
  <1>5. GitType' /\ \A t \in Sides : index'[t] = "reapply" => index[t] = "reapply"
    BY <1>1, <1>2, <1>3 DEF GitType
  <1>6. FileType' /\ AgentType' /\ StateInv'
    BY <1>1, <1>2, <1>5, HeadsMove
  <1>7. CallType' /\ ProgressInv'
    BY <1>1, <1>2, GoesRunning DEF Active
  <1> QED
    BY <1>5, <1>6, <1>7, Assemble

LEMMA RetainMergeKeeps ==
    ASSUME IInv, NEW s \in Sides, RetainMerge(s)
    PROVE  IInv'
  <1>1. /\ call.step = "run" /\ journal.phase = Running[s] /\ call' = NoCall
        /\ journal' = [journal EXCEPT !.phase = Resolution[s], !.side[s].state = "resolution-required"]
        /\ UNCHANGED <<gitVars, source, base, syncLog, agentVars, faultVars>>
    BY DEF RetainMerge, RunningSide, Return
  <1>2. /\ GitType /\ journal \in Records /\ Active(journal)
        /\ journal.phase \notin {"cancelling", "finalizing"}
        /\ Resolution[s] \in AllPhases /\ Resolution[s] \in Phases \ {"cancelling"}
    BY <1>1, RunningFacts, PhaseNames DEF AllPhases
  <1>3. Rewrites(journal', journal, s, Resolution[s], journal.side[s].wip)
    BY <1>1, <1>2, RetainedRewrites
  <1>4. GitType' /\ FileType' /\ AgentType' /\ StateInv'
    BY <1>1, <1>2, <1>3, JournalAdvances
  <1>5. CallType' /\ ProgressInv'
    BY <1>1, GoesIdle
  <1> QED
    BY <1>4, <1>5, Assemble

\* A call that ends without an effect: a refused run, a crash.
LEMMA ReturnKeeps ==
    ASSUME IInv, call' = NoCall, crashes' \in Nat,
           UNCHANGED <<gitVars, source, fileVars, agentVars, damaged>>
    PROVE  IInv'
  BY Disassemble, NothingMoves, GoesIdle, Assemble

LEMMA RefusedKeeps ==
    ASSUME IInv,
           (\E s \in Sides : RunRefused(s)) \/ FinalizeRefused \/ RollbackRefused \/ Crash
    PROVE  IInv'
  <1>1. crashes \in Nat
    BY Disassemble DEF AgentType
  <1>2. /\ call' = NoCall /\ UNCHANGED <<gitVars, source, fileVars, agentVars, damaged>>
        /\ crashes' \in Nat
    BY <1>1 DEF RunRefused, FinalizeRefused, RollbackRefused, Crash, Return
  <1> QED
    BY <1>2, ReturnKeeps

-----------------------------------------------------------------------------
(* The candidate is returned.                                              *)

\* What a call that carries a side finds.
LEMMA CarryingFacts ==
    ASSUME IInv, call.step \in Carrying
    PROVE  /\ GitType /\ FileType /\ AgentType /\ StateInv /\ journal \in Records
           /\ call \in Calls /\ call.side \in Sides /\ call.record \in Records
           /\ Active(journal)
           /\ journal.phase \in {Running[call.side], Resolution[call.side], "cancelling"}
           /\ journal.phase # "finalizing"
  BY Disassemble, PhaseNames DEF ProgressInv, CallInv, CallType

\* What is written from the record the call holds is written over the journal.
LEMMA HeldRewrites ==
    ASSUME IInv, call.step \in Holding, NEW q, NEW ph, NEW w,
           Rewrites(q, call.record, call.side, ph, w)
    PROVE  Rewrites(q, journal, call.side, ph, w)
  <1>1. /\ SameSides(call.record, journal) /\ call.record.phase = journal.phase
        /\ \A s \in Sides : call.record.side[s].wip = journal.side[s].wip
    BY Disassemble DEF ProgressInv, CallInv
  <1> QED
    BY <1>1 DEF Rewrites, SameSides, SameSide

LEMMA CarryUnparkedKeeps ==
    ASSUME IInv, CarryUnparked
    PROVE  IInv'
  <1> DEFINE s == call.side
  <1>1. /\ call.step = "carry" /\ call' = [call EXCEPT !.step = "run"]
        /\ journal' = [Carried(journal, s) EXCEPT !.phase = NextPhase(s)]
        /\ UNCHANGED <<gitVars, source, base, syncLog, agentVars, faultVars>>
    BY DEF CarryUnparked, Advance, Goto
  <1>2. call.step \in Carrying
    BY <1>1 DEF Carrying
  <1>3. /\ GitType /\ journal \in Records /\ call \in Calls /\ Active(journal) /\ s \in Sides
        /\ journal.phase # "cancelling" /\ journal.phase # "finalizing"
    BY <1>1, <1>2, CarryingFacts, Disassemble DEF ProgressInv, CallInv
  <1>4. NextPhase(s) \in AllPhases /\ NextPhase(s) \in Phases \ {"cancelling"}
    BY <1>3, PhaseNames DEF AllPhases
  <1>5. Rewrites(journal', journal, s, NextPhase(s), journal.side[s].wip)
    BY <1>1, <1>3, <1>4, AdvanceRewrites
  <1>6. /\ GitType' /\ FileType' /\ AgentType' /\ StateInv'
        /\ Active(journal') /\ journal'.phase # "cancelling"
    BY <1>1, <1>3, <1>4, <1>5, JournalAdvances
  <1>7. call' \in Calls /\ call'.step = "run"
    BY <1>1, <1>3 DEF Calls, Steps
  <1>8. CallType' /\ ProgressInv'
    BY <1>6, <1>7, GoesRunning
  <1> QED
    BY <1>6, <1>8, Assemble

\* A call holds the carried record and has the candidate back in the worktree.
LEMMA HoldsCarried ==
    ASSUME IInv, call.step = "carry", Pending(journal.side[call.side]),
           NEW s \in Sides, s = call.side,
           NEW x \in {"applied", "conflicted"},
           call' = [call EXCEPT !.step = x, !.record = Carried(journal, call.side)],
           UNCHANGED fileVars, Back(s)'
    PROVE  CallType' /\ ProgressInv'
  <1>0. call.step \in Carrying
    BY DEF Carrying
  <1>1. /\ GitType /\ journal \in Records /\ call \in Calls /\ call.side \in Sides /\ Active(journal)
        /\ journal.phase \in {Running[call.side], Resolution[call.side]} /\ journal.phase # "cancelling"
    BY <1>0, CarryingFacts, Disassemble DEF ProgressInv, CallInv
  <1>2. PICK r : r = Carried(journal, call.side)
    OBVIOUS
  <1>3. Rewrites(r, journal, call.side, journal.phase, journal.side[call.side].wip)
    BY <1>1, <1>2, CarriedRewrites
  <1>4. /\ r \in Records /\ r.phase = journal.phase
        /\ \A t \in Sides : r.side[t].wip = journal.side[t].wip
        /\ SameSides(r, journal)
    BY <1>3 DEF Rewrites, SameSides
  <1>5. call' = [call EXCEPT !.step = x, !.record = r]
    BY <1>2
  <1>6. call' \in Calls /\ call'.step = x /\ call'.side = call.side /\ call'.record = r
    BY <1>1, <1>4, <1>5 DEF Calls, Steps
  <1>7. journal' = journal /\ journal.side[call.side].wip \in {"parked", "restore-conflict"}
    BY DEF Pending
  <1>8. AdmissionInv' /\ ParkingInv'
    BY <1>6 DEF AdmissionInv, ParkingInv, Admitting
  <1>9. CallInv'
    <2>1. SameSides(call'.record, journal') /\ Active(journal')
      BY <1>1, <1>4, <1>6, <1>7 DEF Active
    <2> QED
      BY <1>1, <1>4, <1>6, <1>7, <2>1 DEF CallInv, Holding, Carrying, Cancelling
  <1>10. ReturnInv'
    BY <1>1, <1>6, <1>7 DEF ReturnInv, Back
  <1> QED
    BY <1>6, <1>8, <1>9, <1>10 DEF CallType, ProgressInv

\* A worktree gets the candidate back, beside what it has or in place of nothing.
LEMMA CandidateReturns ==
    ASSUME GitType, FileType, AgentType, StateInv, Active(journal),
           NEW s \in Sides, NEW x, x = tree[s] \cup journal.side[s].stash,
           journal.side[s].wip # "",
           tree' = [tree EXCEPT ![s] = x],
           \/ index' = index
           \/ index' = [index EXCEPT ![s] = "reapply"],
           UNCHANGED <<head, merging, stash, refs, source, fileVars, agentVars, faultVars>>
    PROVE  GitType' /\ FileType' /\ AgentType' /\ StateInv' /\ Back(s)'
  <1>1. /\ journal.side[s].stash \in SUBSET Edits /\ tree[s] \in SUBSET Edits /\ x \in SUBSET Edits
    BY RecordFields, SideFields DEF FileType, GitType
  <1>2. /\ GitType' /\ AgentType'
        /\ tree'[s] = x /\ \A t \in Sides : t # s => tree'[t] = tree[t] /\ index'[t] = index[t]
    BY <1>1 DEF GitType, AgentType
  <1>3. Back(s)'
    BY <1>2 DEF Back
  <1>4. OwedInv'
    BY <1>2 DEF OwedInv, StateInv
  <1>5. CandidateInv'
    <2> SUFFICES ASSUME NEW t \in Sides
                 PROVE  /\ journal.side[t].wip # "" => owed[t] \cap tree'[t] \subseteq journal.side[t].stash
                        /\ journal.side[t].wip = "restored" => Back(t)'
                        /\ journal.side[t].wip = "restore-conflict" /\ journal.phase # "cancelling" => Back(t)'
                        /\ index'[t] = "reapply" /\ Pending(journal.side[t]) => Back(t)'
      BY DEF CandidateInv
    <2>1. /\ journal.side[t].wip # "" => owed[t] \cap tree[t] \subseteq journal.side[t].stash
          /\ journal.side[t].wip = "restored" => Back(t)
          /\ journal.side[t].wip = "restore-conflict" /\ journal.phase # "cancelling" => Back(t)
          /\ index[t] = "reapply" /\ Pending(journal.side[t]) => Back(t)
      BY DEF CandidateInv, StateInv
    <2>2. CASE t = s
      BY <1>2, <1>3, <2>1, <2>2
    <2>3. CASE t # s
      BY <1>2, <2>1, <2>3 DEF Back
    <2> QED
      BY <2>2, <2>3
  <1>6. damaged = "no" => \A t \in Sides : \A e \in owed'[t] : Kept(t, e)'
    <2> SUFFICES ASSUME damaged = "no", NEW t \in Sides, NEW e \in owed[t]
                 PROVE  Kept(t, e)'
      OBVIOUS
    <2>1. Kept(t, e)
      BY KeptPointwise DEF StateInv
    <2>2. tree[t] \subseteq tree'[t]
      BY <1>2
    <2> QED
      BY <2>1, <2>2 DEF Kept
  <1>7. FileType' /\ StateInv'
    BY <1>2, <1>4, <1>5, <1>6, WorkMoves
  <1> QED
    BY <1>2, <1>3, <1>7

LEMMA ReapplyWipKeeps ==
    ASSUME IInv, ReapplyWip
    PROVE  IInv'
  <1>0. PICK s : s = call.side
    OBVIOUS
  <1> DEFINE d == journal.side[s]
             To(x) == call' = [call EXCEPT !.step = x, !.record = Carried(journal, s)]
  <1>1. /\ call.step = "carry" /\ Pending(d)
        /\ UNCHANGED <<head, merging, stash, refs, source, fileVars, agentVars, faultVars>>
        /\ \/ tree' = [tree EXCEPT ![s] = tree[s] \cup d.stash] /\ To("applied") /\ UNCHANGED index
           \/ /\ tree[s] = {} /\ tree' = [tree EXCEPT ![s] = d.stash]
              /\ index' = [index EXCEPT ![s] = "reapply"] /\ To("conflicted")
           \/ index[s] = "reapply" /\ To("conflicted") /\ UNCHANGED <<tree, index>>
           \/ call' = NoCall /\ UNCHANGED <<tree, index>>
    BY <1>0 DEF ReapplyWip, Return, Dirty
  <1>2. call.step \in Carrying
    BY <1>1 DEF Carrying
  <1>3. GitType /\ FileType /\ AgentType /\ StateInv /\ s \in Sides /\ Active(journal) /\ d.wip # ""
    BY <1>0, <1>1, <1>2, CarryingFacts DEF Pending
  <1>4. CASE tree' = [tree EXCEPT ![s] = tree[s] \cup d.stash] /\ To("applied") /\ UNCHANGED index
    <2>1. GitType' /\ FileType' /\ AgentType' /\ StateInv' /\ Back(s)'
      BY <1>1, <1>3, <1>4, CandidateReturns
    <2>2. CallType' /\ ProgressInv'
      BY <1>0, <1>1, <1>3, <1>4, <2>1, HoldsCarried
    <2> QED
      BY <2>1, <2>2, Assemble
  <1>5. CASE /\ tree[s] = {} /\ tree' = [tree EXCEPT ![s] = d.stash]
             /\ index' = [index EXCEPT ![s] = "reapply"] /\ To("conflicted")
    <2>0. d.stash = tree[s] \cup d.stash
      BY <1>5
    <2>1. GitType' /\ FileType' /\ AgentType' /\ StateInv' /\ Back(s)'
      BY <1>1, <1>3, <1>5, <2>0, CandidateReturns
    <2>2. CallType' /\ ProgressInv'
      BY <1>0, <1>1, <1>3, <1>5, <2>1, HoldsCarried
    <2> QED
      BY <2>1, <2>2, Assemble
  <1>6. CASE index[s] = "reapply" /\ To("conflicted") /\ UNCHANGED <<tree, index>>
    <2>1. GitType' /\ FileType' /\ AgentType' /\ StateInv'
      BY <1>1, <1>3, <1>6, NothingMoves DEF gitVars, AgentType
    <2>2. Back(s)
      BY <1>1, <1>3, <1>6 DEF StateInv, CandidateInv
    <2>3. Back(s)'
      BY <1>1, <1>6, <2>2 DEF Back
    <2>4. CallType' /\ ProgressInv'
      BY <1>0, <1>1, <1>3, <1>6, <2>3, HoldsCarried
    <2> QED
      BY <2>1, <2>4, Assemble
  <1>7. CASE call' = NoCall /\ UNCHANGED <<tree, index>>
    BY <1>1, <1>3, <1>7, ReturnKeeps DEF gitVars, AgentType
  <1> QED
    BY <1>1, <1>4, <1>5, <1>6, <1>7

LEMMA RetainReapplyKeeps ==
    ASSUME IInv, RetainReapply
    PROVE  IInv'
  <1> DEFINE s == call.side
  <1>1. /\ call.step = "conflicted" /\ call' = NoCall
        /\ journal' = [call.record EXCEPT !.phase = Resolution[s],
                                          !.side[s].state = "resolution-required",
                                          !.side[s].wip = "restore-conflict"]
        /\ UNCHANGED <<gitVars, source, base, syncLog, agentVars, faultVars>>
    BY DEF RetainReapply, Return
  <1>2. call.step \in Carrying /\ call.step \in Holding
    BY <1>1 DEF Carrying, Holding
  <1>3. /\ GitType /\ FileType /\ AgentType /\ StateInv /\ call.record \in Records /\ s \in Sides
        /\ Active(journal) /\ journal.phase # "cancelling" /\ journal.phase # "finalizing"
        /\ Back(s) /\ Resolution[s] \in AllPhases
    BY <1>1, <1>2, CarryingFacts, Disassemble, PhaseNames DEF ProgressInv, CallInv, ReturnInv, AllPhases
  <1>4. Rewrites(journal', call.record, s, Resolution[s], "restore-conflict")
    BY <1>1, <1>3, ReapplyRewrites
  <1>5. Rewrites(journal', journal, s, Resolution[s], "restore-conflict")
    BY <1>2, <1>4, HeldRewrites
  <1>6. journal.side[s].wip # ""
    BY <1>1, Disassemble DEF ProgressInv, CallInv
  <1>7. GitType' /\ FileType' /\ AgentType' /\ StateInv'
    <2>1. MayWrite(s, Resolution[s], "restore-conflict")
      BY <1>3, <1>6, PhaseNames DEF MayWrite
    <2> QED
      BY <1>1, <1>3, <1>5, <2>1, JournalRewritten
  <1> QED
    BY <1>1, <1>7, GoesIdle, Assemble

LEMMA DropStashKeeps ==
    ASSUME IInv, DropStash
    PROVE  IInv'
  <1> DEFINE s == call.side
  <1>1. /\ call.step = "applied" /\ call' = [call EXCEPT !.step = "dropped"]
        /\ stash' = [stash EXCEPT ![s] = @ \ {call.record.side[s].stash}]
        /\ UNCHANGED <<head, merging, index, tree, refs, source, fileVars, agentVars, faultVars>>
    BY DEF DropStash, Goto
  <1>2. call.step \in Carrying /\ call.step \in Holding
    BY <1>1 DEF Carrying, Holding
  <1>3. /\ GitType /\ FileType /\ AgentType /\ StateInv /\ call \in Calls /\ s \in Sides
        /\ CallInv /\ ReturnInv /\ Back(s)
    BY <1>1, <1>2, CarryingFacts, Disassemble DEF ProgressInv, ReturnInv
  <1>4. call.record.side[s].stash = journal.side[s].stash
    BY <1>2, <1>3 DEF CallInv, SameSides, SameSide
  <1>5. /\ GitType' /\ AgentType'
        /\ stash'[s] = stash[s] \ {journal.side[s].stash}
        /\ \A t \in Sides : t # s => stash'[t] = stash[t]
    BY <1>1, <1>3, <1>4 DEF GitType, AgentType
  <1>6. OwedInv'
    BY <1>1, <1>3, <1>5 DEF OwedInv, StateInv
  <1>7. CandidateInv'
    BY <1>1, <1>3 DEF CandidateInv, StateInv, Back, Active, Pending
  <1>8. damaged = "no" => \A t \in Sides : \A e \in owed'[t] : Kept(t, e)'
    <2> SUFFICES ASSUME damaged = "no", NEW t \in Sides, NEW e \in owed[t]
                 PROVE  Kept(t, e)'
      BY <1>1
    <2>1. Kept(t, e)
      BY <1>3, KeptPointwise DEF StateInv
    <2> QED
      BY <1>1, <1>3, <1>5, <2>1 DEF Kept, Back
  <1>9. FileType' /\ StateInv'
    BY <1>1, <1>3, <1>5, <1>6, <1>7, <1>8, WorkMoves
  <1>10. /\ call' \in Calls /\ call'.step = "dropped" /\ call'.side = s
         /\ call'.record = call.record
    BY <1>1, <1>3 DEF Calls, Steps
  <1>11. AdmissionInv' /\ ParkingInv'
    BY <1>10 DEF AdmissionInv, ParkingInv, Admitting
  <1>12. CallInv'
    <2>1. /\ Active(journal) /\ journal.phase \in {Running[s], Resolution[s], "cancelling"}
          /\ journal.side[s].wip \in {"parked", "restore-conflict"}
          /\ SameSides(call.record, journal) /\ call.record.phase = journal.phase
          /\ \A t \in Sides : call.record.side[t].wip = journal.side[t].wip
      BY <1>1, <1>2, <1>3 DEF CallInv
    <2>2. SameSides(call'.record, journal') /\ Active(journal') /\ journal' = journal
      BY <1>1, <1>10, <2>1 DEF Active
    <2> QED
      BY <1>10, <2>1, <2>2 DEF CallInv, Holding, Carrying, Cancelling
  <1>13. ReturnInv'
    BY <1>1, <1>3, <1>10 DEF ReturnInv, Back, Pending
  <1> QED
    BY <1>5, <1>9, <1>10, <1>11, <1>12, <1>13, Assemble DEF CallType, ProgressInv

LEMMA RecordRestoredKeeps ==
    ASSUME IInv, RecordRestored
    PROVE  IInv'
  <1> DEFINE s == call.side
  <1>0. PICK r : r = [call.record EXCEPT !.side[s].wip = "restored"]
    OBVIOUS
  <1>1. /\ call.step = "dropped" /\ journal' = r
        /\ call' = [call EXCEPT !.record = r,
                                !.step = IF r.phase = "cancelling" THEN "restore" ELSE "advance"]
        /\ UNCHANGED <<gitVars, source, base, syncLog, agentVars, faultVars>>
    BY <1>0 DEF RecordRestored
  <1>2. call.step \in Carrying /\ call.step \in Holding
    BY <1>1 DEF Carrying, Holding
  <1>3. /\ GitType /\ FileType /\ AgentType /\ StateInv /\ call \in Calls /\ s \in Sides
        /\ call.record \in Records /\ journal \in Records
        /\ CallInv /\ ReturnInv /\ Back(s) /\ Active(journal)
        /\ journal.phase \in {Running[s], Resolution[s], "cancelling"}
        /\ call.record.phase = journal.phase
        /\ journal.side[s].wip \in {"parked", "restore-conflict"}
    BY <1>1, <1>2, CarryingFacts, Disassemble DEF ProgressInv, ReturnInv, CallInv
  <1>4. Rewrites(journal', call.record, s, call.record.phase, "restored")
    BY <1>0, <1>1, <1>3, RestoredRewrites
  <1>5. Rewrites(journal', journal, s, journal.phase, "restored")
    BY <1>2, <1>3, <1>4, HeldRewrites
  <1>6. MayWrite(s, journal.phase, "restored")
    BY <1>3 DEF MayWrite, AllPhases, Active, Phases
  <1>7. GitType' /\ FileType' /\ AgentType' /\ StateInv'
    BY <1>1, <1>3, <1>5, <1>6, JournalRewritten
  <1>8. /\ r \in Records /\ r.phase = journal.phase /\ Active(journal') /\ journal' = r
        /\ \A t \in Sides : SameSide(r.side[t], journal.side[t])
        /\ \A t \in Sides : t # s => r.side[t].wip = journal.side[t].wip
    BY <1>1, <1>3, <1>5 DEF Rewrites, Active
  <1>9. /\ call' \in Calls /\ call'.side = s /\ call'.record = r
        /\ call'.step = IF r.phase = "cancelling" THEN "restore" ELSE "advance"
    BY <1>1, <1>3, <1>8 DEF Calls, Steps
  <1>10. AdmissionInv' /\ ParkingInv'
    BY <1>9 DEF AdmissionInv, ParkingInv, Admitting
  <1>11. CallInv'
    <2>1. SameSides(call'.record, journal')
      BY <1>8, <1>9 DEF SameSides, SameSide
    <2> QED
      BY <1>3, <1>8, <1>9, <2>1 DEF CallInv, Holding, Carrying, Cancelling
  <1>12. ReturnInv'
    <2>1. CASE r.phase # "cancelling"
      BY <1>9, <2>1 DEF ReturnInv
    <2>2. CASE r.phase = "cancelling"
      <3> SUFFICES ASSUME s = "code"
                   PROVE  ~Pending(r.side["memory"])
        BY <1>8, <1>9, <2>2 DEF ReturnInv
      <3>1. ~Pending(journal.side["memory"]) /\ "memory" \in Sides /\ "memory" # s
        BY <1>1, <1>3, <1>8, <2>2 DEF ReturnInv, Sides
      <3> QED
        BY <1>8, <3>1, SamePending
    <2> QED
      BY <2>1, <2>2
  <1> QED
    BY <1>7, <1>9, <1>10, <1>11, <1>12, Assemble DEF CallType, ProgressInv

LEMMA AdvanceRestoredKeeps ==
    ASSUME IInv, AdvanceRestored
    PROVE  IInv'
  <1> DEFINE s == call.side
  <1>1. /\ call.step = "advance" /\ call' = [NoCall EXCEPT !.step = "run"]
        /\ journal' = [call.record EXCEPT !.side[s].state = "completed", !.phase = NextPhase(s)]
        /\ UNCHANGED <<gitVars, source, base, syncLog, agentVars, faultVars>>
    BY DEF AdvanceRestored
  <1>2. call.step \in Carrying /\ call.step \in Holding
    BY <1>1 DEF Carrying, Holding
  <1>3. /\ call.record \in Records /\ s \in Sides /\ Active(journal)
        /\ journal.phase # "cancelling" /\ journal.phase # "finalizing"
        /\ NextPhase(s) \in AllPhases /\ NextPhase(s) \in Phases \ {"cancelling"}
        /\ call.record.side[s].wip = journal.side[s].wip
    BY <1>1, <1>2, CarryingFacts, Disassemble, PhaseNames DEF ProgressInv, CallInv, AllPhases
  <1>4. Rewrites(journal', call.record, s, NextPhase(s), call.record.side[s].wip)
    BY <1>1, <1>3, AdvancedRewrites
  <1>5. Rewrites(journal', journal, s, NextPhase(s), journal.side[s].wip)
    BY <1>2, <1>3, <1>4, HeldRewrites
  <1>6. /\ GitType' /\ FileType' /\ AgentType' /\ StateInv'
        /\ Active(journal') /\ journal'.phase # "cancelling"
    BY <1>1, <1>3, <1>5, JournalAdvances
  <1>7. call' \in Calls /\ call'.step = "run"
    BY <1>1, NoCallFacts DEF Calls, Steps
  <1>8. CallType' /\ ProgressInv'
    BY <1>6, <1>7, GoesRunning
  <1> QED
    BY <1>6, <1>8, Assemble

-----------------------------------------------------------------------------
(* The contract and the terminal record.                                   *)

LEMMA TargetFacts ==
    ASSUME NEW r \in Records
    PROVE  /\ Target(r) \in [Sides -> Nat]
           /\ \A s \in Sides : Target(r)[s] \in {r.side[s].source, r.from[s]}
  <1>1. \A s \in Sides : r.side[s].source \in Nat /\ r.from[s] \in Nat
    BY RecordFields, SideFields
  <1> QED
    BY <1>1 DEF Target

\* The log with one more entry.
LEMMA LogAppended ==
    ASSUME FileType, SyncLogChains, NEW f \in [Sides -> Nat], NEW g \in [Sides -> Nat],
           f # g, base = f, base' = g, syncLog' = Append(syncLog, [from |-> f, to |-> g])
    PROVE  SyncLogChains' /\ syncLog' \in Seq([from : [Sides -> Nat], to : [Sides -> Nat]])
  <1> DEFINE E == [from : [Sides -> Nat], to : [Sides -> Nat]]
             n == Len(syncLog)
             x == [from |-> f, to |-> g]
  <1>1. syncLog \in Seq(E) /\ x \in E /\ x.from = f /\ x.to = g
    BY DEF FileType
  <1>2. n \in Nat /\ DOMAIN syncLog = 1 .. n
    BY <1>1
  <1> HIDE DEF E, x
  <1>3. /\ syncLog' \in Seq(E) /\ Len(syncLog') = n + 1 /\ syncLog'[n + 1] = x
        /\ \A i \in 1 .. n : syncLog'[i] = syncLog[i]
    BY <1>1 DEF x
  <1>4. DOMAIN syncLog' = 1 .. n + 1
    BY <1>2, <1>3
  <1>5. /\ \A i \in 1 .. n - 1 : syncLog[i].to = syncLog[i + 1].from
        /\ n # 0 => base = syncLog[n].to
        /\ \A i \in 1 .. n : syncLog[i].from # syncLog[i].to
    BY <1>1, <1>2 DEF SyncLogChains
  <1> HIDE DEF n
  <1>6. \A i \in 1 .. (n + 1) - 1 : syncLog'[i].to = syncLog'[i + 1].from
    <2> SUFFICES ASSUME NEW i \in 1 .. n
                 PROVE  syncLog'[i].to = syncLog'[i + 1].from
      BY <1>2
    <2>1. CASE i = n
      BY <1>1, <1>2, <1>3, <1>5, <2>1
    <2>2. CASE i # n
      <3>1. i \in 1 .. n - 1 /\ i + 1 \in 1 .. n
        BY <1>2, <2>2
      <3> QED
        BY <1>3, <1>5, <3>1
    <2> QED
      BY <2>1, <2>2
  <1>7. base' = syncLog'[n + 1].to
    BY <1>1, <1>3
  <1>8. \A i \in 1 .. n + 1 : syncLog'[i].from # syncLog'[i].to
    <2> TAKE i \in 1 .. n + 1
    <2>1. CASE i = n + 1
      BY <1>1, <1>3, <2>1
    <2>2. CASE i \in 1 .. n
      BY <1>3, <1>5, <2>2
    <2> QED
      BY <1>2, <2>1, <2>2
  <1> QED
    BY <1>3, <1>4, <1>6, <1>7, <1>8 DEF SyncLogChains, E

LEMMA WriteContractKeeps ==
    ASSUME IInv, WriteContract
    PROVE  IInv'
  <1>1. /\ call.step = "run" /\ journal.phase = "finalizing" /\ base # Target(journal)
        /\ base' = Target(journal)
        /\ syncLog' = Append(syncLog, [from |-> journal.from, to |-> Target(journal)])
        /\ UNCHANGED <<gitVars, source, journal, call, agentVars, faultVars>>
    BY DEF WriteContract
  <1>0. UNCHANGED <<head, merging, index, tree, stash, refs>>
    BY <1>1 DEF gitVars
  <1>2. /\ GitType /\ FileType /\ AgentType /\ StateInv /\ journal \in Records
        /\ call \in Calls /\ Active(journal) /\ JournalInv /\ BaseInv /\ SyncLogChains
    BY <1>1, RunningFacts DEF StateInv
  <1>3. /\ base = journal.from
        /\ journal.side["code"].part
        /\ \A s \in Sides : /\ journal.side[s].part => journal.side[s].base = journal.from[s]
                            /\ journal.side[s].part
                            /\ journal.from[s] <= journal.side[s].source
                            /\ journal.side[s].source <= source[s] /\ Planned(s, journal.side[s])
    BY <1>1, <1>2 DEF JournalInv
  <1>4. Target(journal) \in [Sides -> Nat] /\ journal.from \in [Sides -> Nat]
    BY <1>2, TargetFacts, RecordFields
  <1>5. SyncLogChains' /\ syncLog' \in Seq([from : [Sides -> Nat], to : [Sides -> Nat]])
    BY <1>1, <1>2, <1>3, <1>4, LogAppended
  <1>6. GitType' /\ FileType' /\ AgentType'
    BY <1>0, <1>1, <1>2, <1>4, <1>5 DEF GitType, FileType, AgentType
  <1>7. JournalInv'
    BY <1>1, <1>3 DEF JournalInv
  <1>8. BaseInv'
    <2> SUFFICES ASSUME NEW s \in Sides
                 PROVE  Target(journal)[s] <= source[s]
      BY <1>1 DEF BaseInv
    <2>1. base[s] <= source[s]
      BY <1>2 DEF BaseInv
    <2> QED
      BY <1>2, <1>3, <2>1, TargetFacts
  <1>9. RefInv' /\ AuthorityPinned'
    BY <1>0, <1>1, <1>2, RefsStay DEF StateInv
  <1>10. OwedInv' /\ NamedInv' /\ CandidateInv'
    BY <1>0, <1>1, <1>2 DEF StateInv, OwedInv, NamedInv, CandidateInv, Back, Active, Pending
  <1>11. ParkedWorkKept'
    BY <1>0, <1>1, <1>2 DEF StateInv, ParkedWorkKept, Active, Pending
  <1>12. StateInv'
    BY <1>5, <1>7, <1>8, <1>9, <1>10, <1>11 DEF StateInv
  <1>13. CallType' /\ ProgressInv'
    <2>1. call' \in Calls /\ call'.step = "run" /\ Active(journal') /\ journal'.phase # "cancelling"
      BY <1>1, <1>2 DEF Active
    <2> QED
      BY <2>1, GoesRunning
  <1> QED
    BY <1>6, <1>12, <1>13, Assemble

\* A terminal record is published with nothing pending.
LEMMA PublishTerminal ==
    ASSUME IInv, NEW ph \in {"completed", "cancelled"}, Active(journal),
           journal' = [journal EXCEPT !.phase = ph], call' = [call EXCEPT !.step = "retire"],
           \A t \in Sides : ~Pending(journal.side[t]),
           UNCHANGED <<gitVars, source, base, syncLog, agentVars, faultVars>>
    PROVE  IInv'
  <1>0. /\ GitType /\ FileType /\ AgentType /\ StateInv /\ journal \in Records /\ call \in Calls
        /\ ph \in AllPhases /\ "code" \in Sides
    BY Disassemble DEF CallType, AllPhases, Sides
  <1>1. Rewrites(journal', journal, "code", ph, journal.side["code"].wip)
    BY <1>0, RewritePhase
  <1>2. MayWrite("code", ph, journal.side["code"].wip)
    BY <1>0 DEF MayWrite
  <1>3. GitType' /\ FileType' /\ AgentType' /\ StateInv'
    BY <1>0, <1>1, <1>2, JournalRewritten
  <1>4. Terminal(journal')
    BY <1>1 DEF Rewrites, Terminal, Active, Phases
  <1>5. call' \in Calls /\ call'.step = "retire"
    BY <1>0 DEF Calls, Steps
  <1> QED
    BY <1>3, <1>4, <1>5, GoesRetiring, Assemble

\* What a call that finalizes found of the sides.
LEMMA FinalizableFacts ==
    ASSUME IInv, call.step = "run", journal.phase = "finalizing", Finalizable(journal)
    PROVE  /\ Active(journal)
           /\ \A s \in Sides :
                 /\ journal.side[s].part /\ ~Pending(journal.side[s])
                 /\ Moving(journal.side[s]) => Exact(head[s], journal.side[s])
                 /\ ~Moving(journal.side[s]) => head[s] = journal.side[s].pre
  <1>1. Active(journal) /\ JournalInv
    BY RunningFacts DEF StateInv
  <1>2. \A s \in Sides : journal.side[s].part
    BY <1>1 DEF JournalInv
  <1> QED
    BY <1>1, <1>2 DEF Finalizable, Unchanged

LEMMA PublishCompletedKeeps ==
    ASSUME IInv, PublishCompleted
    PROVE  IInv'
  <1>1. /\ call.step = "run" /\ journal.phase = "finalizing" /\ Finalizable(journal)
        /\ journal' = [journal EXCEPT !.phase = "completed"] /\ call' = [call EXCEPT !.step = "retire"]
        /\ UNCHANGED <<gitVars, source, base, syncLog, agentVars, faultVars>>
    BY DEF PublishCompleted, Goto
  <1>2. Active(journal) /\ \A t \in Sides : ~Pending(journal.side[t])
    BY <1>1, FinalizableFacts
  <1> QED
    BY <1>1, <1>2, PublishTerminal

\* delete_authority deletes a ref, or ends, or goes on to an admission.
LEMMA DeleteAuthorityFacts ==
    ASSUME DeleteAuthority
    PROVE  \/ (\E s \in Sides, name \in RefNames : DeleteRef(s, name)) /\ call' = call
           \/ call' = NoCall /\ refs' = refs
           \/ Admit(call.choice) /\ refs' = refs
  <1> DEFINE Held(o) == journal.side[o[1]].part /\ refs[o[1]][o[2]] # NoCommit
             W == {i \in 1 .. 6 : Held(RetireOrder[i])}
             k == CHOOSE i \in DOMAIN RetireOrder :
                     Held(RetireOrder[i]) /\ \A j \in 1 .. i - 1 : ~Held(RetireOrder[j])
  <1>1. CASE W # {}
    <2>1. \E i \in 1 .. 6 : i \in W /\ \A j \in 1 .. i - 1 : j \notin W
      BY <1>1, LeastIndex
    <2>2. \E i \in DOMAIN RetireOrder : Held(RetireOrder[i]) /\ \A j \in 1 .. i - 1 : ~Held(RetireOrder[j])
      BY <2>1, PinOrderFacts
    <2>3. k \in 1 .. 6
      BY <2>2, PinOrderFacts
    <2>4. First(RetireOrder, Held) = RetireOrder[k]
      BY DEF First
    <2>5. \E i \in DOMAIN RetireOrder : Held(RetireOrder[i])
      BY <2>2
    <2> DEFINE o == RetireOrder[k]
    <2> HIDE DEF k
    <2>6. \/ DeleteRef(o[1], o[2]) /\ call' = call
          \/ call' = NoCall /\ refs' = refs
      BY <2>4, <2>5 DEF DeleteAuthority, Return
    <2>7. o[1] \in Sides /\ o[2] \in RefNames
      BY <2>3, PinOrderFacts
    <2> HIDE DEF o
    <2> QED
      BY <2>6, <2>7
  <1>2. CASE W = {}
    <2>1. ~\E i \in DOMAIN RetireOrder : Held(RetireOrder[i])
      BY <1>2, PinOrderFacts
    <2> QED
      BY <2>1 DEF DeleteAuthority, Return
  <1> QED
    BY <1>1, <1>2

LEMMA DeleteAuthorityKeeps ==
    ASSUME IInv, DeleteAuthority
    PROVE  IInv'
  <1>0. /\ GitType /\ FileType /\ AgentType /\ StateInv /\ RefInv /\ BaseInv /\ call \in Calls
        /\ call.choice \in Choices
    BY Disassemble, CallFields DEF StateInv, CallType
  <1>1. /\ call.step \in {"retire", "residue"}
        /\ UNCHANGED <<head, merging, index, tree, stash, source, fileVars, agentVars, faultVars>>
    BY DEF DeleteAuthority
  <1>2. Terminal(journal) /\ ~Active(journal) /\ Terminal(journal')
    BY <1>1, Disassemble DEF ProgressInv, CallInv, Active, Terminal
  <1>3. ASSUME NEW s \in Sides, NEW name \in RefNames, DeleteRef(s, name), call' = call
        PROVE  IInv'
    <2>1. GitType' /\ RefInv'
      BY <1>0, <1>1, <1>3, RefDeleted
    <2>2. FileType' /\ AgentType' /\ StateInv'
      BY <1>0, <1>1, <1>2, <2>1, RefsChange
    <2>3. CallType' /\ ProgressInv'
      BY <1>0, <1>1, <1>2, <1>3, GoesRetiring
    <2> QED
      BY <2>1, <2>2, <2>3, Assemble
  <1>4. ASSUME refs' = refs
        PROVE  GitType' /\ FileType' /\ AgentType' /\ StateInv'
    BY <1>0, <1>1, <1>4, NothingMoves DEF gitVars, AgentType
  <1>5. ASSUME call' = NoCall, refs' = refs
        PROVE  IInv'
    BY <1>4, <1>5, GoesIdle, Assemble
  <1>6. ASSUME Admit(call.choice), refs' = refs
        PROVE  IInv'
    <2>1. CallType' /\ ProgressInv'
      BY <1>0, <1>1, <1>2, <1>6, Admitted
    <2> QED
      BY <1>4, <1>6, <2>1, Assemble
  <1> QED
    BY <1>3, <1>5, <1>6, DeleteAuthorityFacts

-----------------------------------------------------------------------------
(* A sync is cancelled.                                                    *)

LEMMA CancellingFacts ==
    ASSUME IInv, call.step \in Cancelling
    PROVE  /\ GitType /\ FileType /\ AgentType /\ StateInv /\ journal \in Records
           /\ call \in Calls /\ call.side \in Sides
           /\ Active(journal) /\ journal.phase = "cancelling"
           /\ \A s \in Sides : journal.side[s] \in SideRecords
  BY Disassemble DEF ProgressInv, CallInv, CallType

LEMMA DiscardReapplyKeeps ==
    ASSUME IInv, DiscardReapply
    PROVE  IInv'
  <1>0. PICK s : s = call.side
    OBVIOUS
  <1>1. /\ call.step = "rollback" /\ journal.side[s].wip = "restore-conflict"
        /\ tree' = [tree EXCEPT ![s] = {}] /\ index' = [index EXCEPT ![s] = "none"]
        /\ UNCHANGED <<head, merging, stash, refs, source, fileVars, call, agentVars, faultVars>>
    BY <1>0 DEF DiscardReapply
  <1>2. /\ GitType /\ FileType /\ AgentType /\ StateInv /\ s \in Sides /\ call \in Calls
        /\ Active(journal) /\ journal.phase = "cancelling"
    BY <1>0, <1>1, CancellingFacts DEF Cancelling
  <1>3. /\ GitType' /\ AgentType'
        /\ tree'[s] = {} /\ index'[s] = "none"
        /\ \A t \in Sides : t # s => tree'[t] = tree[t] /\ index'[t] = index[t]
    BY <1>1, <1>2 DEF GitType, AgentType
  <1>4. OwedInv'
    BY <1>1, <1>2, <1>3 DEF OwedInv, StateInv
  <1>5. \A t \in Sides :
           /\ journal.side[t].wip # "" => owed[t] \cap tree[t] \subseteq journal.side[t].stash
           /\ journal.side[t].wip = "restored" => Back(t)
           /\ index[t] = "reapply" /\ Pending(journal.side[t]) => Back(t)
    BY <1>2 DEF CandidateInv, StateInv
  <1>6. CandidateInv'
    <2> SUFFICES ASSUME NEW t \in Sides
                 PROVE  /\ journal.side[t].wip # "" => owed[t] \cap tree'[t] \subseteq journal.side[t].stash
                        /\ journal.side[t].wip = "restored" => Back(t)'
                        /\ index'[t] = "reapply" /\ Pending(journal.side[t]) => Back(t)'
      BY <1>1, <1>2 DEF CandidateInv
    <2>1. CASE t = s
      BY <1>1, <1>3, <2>1
    <2>2. CASE t # s
      BY <1>1, <1>3, <1>5, <2>2 DEF Back
    <2> QED
      BY <2>1, <2>2
  <1>7. damaged = "no" => \A t \in Sides : \A e \in owed'[t] : Kept(t, e)'
    <2> SUFFICES ASSUME damaged = "no", NEW t \in Sides, NEW e \in owed[t]
                 PROVE  Kept(t, e)'
      BY <1>1
    <2>1. Kept(t, e)
      BY <1>2, KeptPointwise DEF StateInv
    <2>2. CASE t = s
      <3>1. e \in tree[t] => Pending(journal.side[t]) /\ e \in journal.side[t].stash
        BY <1>1, <1>2, <1>5, <2>2 DEF Pending
      <3> QED
        BY <1>1, <1>2, <2>1, <3>1 DEF Kept
    <2>3. CASE t # s
      BY <1>1, <1>2, <1>3, <2>1, <2>3 DEF Kept
    <2> QED
      BY <2>2, <2>3
  <1>8. FileType' /\ StateInv'
    BY <1>1, <1>2, <1>3, <1>4, <1>6, <1>7, WorkMoves
  <1>9. CallType' /\ ProgressInv'
    BY <1>1, <1>2, GoesRollingBack DEF Active
  <1> QED
    BY <1>3, <1>8, <1>9, Assemble

LEMMA RollbackSideKeeps ==
    ASSUME IInv, RollbackSide
    PROVE  IInv'
  <1>0. PICK s : s = call.side
    OBVIOUS
  <1>1. /\ call.step = "rollback"
        /\ \/ /\ head' = [head EXCEPT ![s] = journal.side[s].pre]
              /\ merging' = [merging EXCEPT ![s] = 0]
              /\ index' = [index EXCEPT ![s] = "none"]
           \/ UNCHANGED <<head, merging, index>>
        /\ call' = IF s = "memory" THEN [call EXCEPT !.side = "code"]
                   ELSE [call EXCEPT !.side = "memory", !.step = "restore"]
        /\ UNCHANGED <<tree, stash, refs, source, fileVars, agentVars, faultVars>>
    BY <1>0 DEF RollbackSide
  <1>2. /\ GitType /\ FileType /\ AgentType /\ StateInv /\ s \in Sides /\ call \in Calls
        /\ Active(journal) /\ journal.phase = "cancelling" /\ journal.side[s].pre \in Commits
    BY <1>0, <1>1, CancellingFacts, SideFields DEF Cancelling
  <1>3. GitType' /\ \A t \in Sides : index'[t] = "reapply" => index[t] = "reapply"
    <2>1. CASE UNCHANGED <<head, merging, index>>
      BY <1>1, <1>2, <2>1 DEF GitType
    <2>2. CASE /\ head' = [head EXCEPT ![s] = journal.side[s].pre]
               /\ merging' = [merging EXCEPT ![s] = 0]
               /\ index' = [index EXCEPT ![s] = "none"]
      BY <1>1, <1>2, <2>2 DEF GitType
    <2> QED
      BY <1>1, <2>1, <2>2
  <1>4. FileType' /\ AgentType' /\ StateInv'
    BY <1>1, <1>2, <1>3, HeadsMove
  <1>5. Active(journal') /\ journal'.phase = "cancelling" /\ "code" \in Sides /\ "memory" \in Sides
    BY <1>1, <1>2 DEF Active, Sides
  <1>6. CASE s = "memory"
    <2>1. call' \in Calls /\ call'.step = "rollback"
      BY <1>1, <1>2, <1>5, <1>6 DEF Calls
    <2> QED
      BY <1>3, <1>4, <1>5, <2>1, GoesRollingBack, Assemble
  <1>7. CASE s # "memory"
    <2>1. call' \in Calls /\ call'.step = "restore" /\ call'.side = "memory"
      BY <1>1, <1>2, <1>5, <1>7 DEF Calls, Steps
    <2>2. AdmissionInv' /\ ParkingInv' /\ CallInv' /\ ReturnInv'
      BY <1>5, <2>1 DEF AdmissionInv, ParkingInv, CallInv, ReturnInv,
                        Admitting, Holding, Carrying, Cancelling
    <2> QED
      BY <1>3, <1>4, <2>1, <2>2, Assemble DEF CallType, ProgressInv
  <1> QED
    BY <1>6, <1>7

LEMMA RestoreCancelledKeeps ==
    ASSUME IInv, RestoreCancelled
    PROVE  IInv'
  <1>0. PICK s : s = call.side
    OBVIOUS
  <1> DEFINE d == journal.side[s]
  <1>1. /\ call.step = "restore"
        /\ \/ /\ Pending(d)
              /\ tree' = [tree EXCEPT ![s] = tree[s] \cup d.stash]
              /\ call' = [call EXCEPT !.step = "applied", !.record = journal]
           \/ /\ ~Pending(d)
              /\ call' = IF s = "memory" THEN [call EXCEPT !.side = "code"]
                         ELSE [NoCall EXCEPT !.step = "conclude"]
              /\ UNCHANGED tree
        /\ UNCHANGED <<head, merging, index, stash, refs, source, fileVars, agentVars, faultVars>>
    BY <1>0 DEF RestoreCancelled
  <1>2. /\ GitType /\ FileType /\ AgentType /\ StateInv /\ s \in Sides /\ call \in Calls
        /\ journal \in Records
        /\ Active(journal) /\ journal.phase = "cancelling"
    BY <1>0, <1>1, CancellingFacts DEF Cancelling
  <1>3. s = "code" => ~Pending(journal.side["memory"])
    BY <1>0, <1>1, <1>2, Disassemble DEF ProgressInv, ReturnInv
  <1>4. Active(journal') /\ journal' = journal /\ "code" \in Sides /\ "memory" \in Sides
    BY <1>1, <1>2 DEF Active, Sides
  <1>5. CASE /\ Pending(d)
             /\ tree' = [tree EXCEPT ![s] = tree[s] \cup d.stash]
             /\ call' = [call EXCEPT !.step = "applied", !.record = journal]
    <2>1. d.wip \in {"parked", "restore-conflict"}
      BY <1>5 DEF Pending
    <2>2. GitType' /\ FileType' /\ AgentType' /\ StateInv' /\ Back(s)'
      BY <1>1, <1>2, <1>5, <2>1, CandidateReturns
    <2>3. call' \in Calls /\ call'.step = "applied" /\ call'.side = s /\ call'.record = journal
      BY <1>0, <1>2, <1>5 DEF Calls, Steps
    <2>4. AdmissionInv' /\ ParkingInv'
      BY <2>3 DEF AdmissionInv, ParkingInv, Admitting
    <2>5. CallInv'
      <3>1. SameSides(call'.record, journal')
        BY <1>4, <2>3 DEF SameSides, SameSide
      <3> QED
        BY <1>2, <1>4, <2>1, <2>3, <3>1 DEF CallInv, Holding, Carrying, Cancelling
    <2>6. ReturnInv'
      BY <1>3, <1>4, <2>2, <2>3 DEF ReturnInv, Back
    <2> QED
      BY <2>2, <2>3, <2>4, <2>5, <2>6, Assemble DEF CallType, ProgressInv
  <1>6. CASE ~Pending(d) /\ UNCHANGED tree /\ s = "memory" /\ call' = [call EXCEPT !.side = "code"]
    <2>1. GitType' /\ FileType' /\ AgentType' /\ StateInv'
      BY <1>1, <1>2, <1>6, NothingMoves DEF gitVars, AgentType
    <2>2. call' \in Calls /\ call'.step = "restore" /\ call'.side = "code"
      BY <1>1, <1>2, <1>4, <1>6 DEF Calls
    <2>3. AdmissionInv' /\ ParkingInv' /\ CallInv' /\ ReturnInv'
      BY <1>2, <1>4, <1>6, <2>2 DEF AdmissionInv, ParkingInv, CallInv, ReturnInv,
                        Admitting, Holding, Carrying, Cancelling
    <2> QED
      BY <2>1, <2>2, <2>3, Assemble DEF CallType, ProgressInv
  <1>7. CASE ~Pending(d) /\ UNCHANGED tree /\ s # "memory" /\ call' = [NoCall EXCEPT !.step = "conclude"]
    <2>1. GitType' /\ FileType' /\ AgentType' /\ StateInv'
      BY <1>1, <1>2, <1>7, NothingMoves DEF gitVars, AgentType
    <2>2. call' \in Calls /\ call'.step = "conclude"
      BY <1>7, NoCallFacts DEF Calls, Steps
    <2>3. \A t \in Sides : ~Pending(journal.side[t])
      BY <1>2, <1>3, <1>7 DEF Sides
    <2>4. AdmissionInv' /\ ParkingInv' /\ CallInv' /\ ReturnInv'
      BY <1>2, <1>4, <2>2, <2>3 DEF AdmissionInv, ParkingInv, CallInv, ReturnInv,
                        Admitting, Holding, Carrying, Cancelling
    <2> QED
      BY <2>1, <2>2, <2>4, Assemble DEF CallType, ProgressInv
  <1> QED
    BY <1>1, <1>5, <1>6, <1>7

LEMMA PublishCancelledKeeps ==
    ASSUME IInv, PublishCancelled
    PROVE  IInv'
  <1>1. /\ call.step = "conclude"
        /\ UNCHANGED <<gitVars, source, base, syncLog, agentVars, faultVars>>
        /\ \/ journal' = [journal EXCEPT !.phase = "cancelled"] /\ call' = [call EXCEPT !.step = "retire"]
           \/ call' = NoCall /\ journal' = journal
    BY DEF PublishCancelled, Goto, Return
  <1>2. Active(journal) /\ (\A t \in Sides : ~Pending(journal.side[t])) /\ crashes \in Nat
    BY <1>1, CancellingFacts, Disassemble DEF Cancelling, ProgressInv, ReturnInv, AgentType
  <1> QED
    BY <1>1, <1>2, PublishTerminal, ReturnKeeps

-----------------------------------------------------------------------------
(* The agent and the official line.                                        *)

LEMMA AgentEditsKeeps ==
    ASSUME IInv, NEW s \in Sides, AgentEdits(s)
    PROVE  IInv'
  <1>1. /\ call = NoCall /\ index[s] = "none"
        /\ edits' = [edits EXCEPT ![s] = @ + 1]
        /\ tree' = [tree EXCEPT ![s] = @ \cup {edits'[s]}]
        /\ UNCHANGED <<head, merging, index, stash, refs, source, fileVars, call, owed, faultVars>>
    BY DEF AgentEdits
  <1>2. GitType /\ FileType /\ AgentType /\ StateInv /\ journal \in Records
    BY Disassemble
  <1>3. /\ edits[s] \in Nat /\ edits'[s] = edits[s] + 1 /\ edits'[s] \in Edits
        /\ \A t \in Sides : edits[t] \in Nat /\ edits'[t] \in Nat /\ (t # s => edits'[t] = edits[t])
    BY <1>1, <1>2 DEF AgentType, Edits
  <1>4. /\ GitType' /\ AgentType'
        /\ tree'[s] = tree[s] \cup {edits[s] + 1}
        /\ \A t \in Sides : t # s => tree'[t] = tree[t]
    BY <1>1, <1>2, <1>3 DEF GitType, AgentType
  <1>5. \A t \in Sides : 1 .. edits[t] \subseteq 1 .. edits'[t]
    BY <1>3
  <1>6. OwedInv'
    <2> SUFFICES ASSUME NEW t \in Sides
                 PROVE  /\ owed[t] \subseteq 1 .. edits'[t] /\ tree'[t] \subseteq 1 .. edits'[t]
                        /\ \A x \in stash[t] : x \subseteq 1 .. edits'[t]
                        /\ journal.side[t].stash \subseteq 1 .. edits'[t]
      BY <1>1 DEF OwedInv
    <2>1. /\ owed[t] \subseteq 1 .. edits[t] /\ tree[t] \subseteq 1 .. edits[t]
          /\ \A x \in stash[t] : x \subseteq 1 .. edits[t]
          /\ journal.side[t].stash \subseteq 1 .. edits[t]
      BY <1>2 DEF OwedInv, StateInv
    <2>2. edits[s] + 1 \in 1 .. edits'[s]
      BY <1>3
    <2> QED
      BY <1>4, <1>5, <2>1, <2>2
  <1>7. edits[s] + 1 \notin owed[s]
    BY <1>2, <1>3 DEF OwedInv, StateInv
  <1>8. CandidateInv'
    <2> SUFFICES ASSUME Active(journal), NEW t \in Sides
                 PROVE  /\ journal.side[t].wip # "" => owed[t] \cap tree'[t] \subseteq journal.side[t].stash
                        /\ Back(t) => Back(t)'
      BY <1>1, <1>2 DEF CandidateInv, StateInv, Active
    <2>1. journal.side[t].wip # "" => owed[t] \cap tree[t] \subseteq journal.side[t].stash
      BY <1>2 DEF CandidateInv, StateInv
    <2> QED
      BY <1>1, <1>4, <1>7, <2>1 DEF Back
  <1>9. damaged = "no" => \A t \in Sides : \A e \in owed'[t] : Kept(t, e)'
    <2> SUFFICES ASSUME damaged = "no", NEW t \in Sides, NEW e \in owed[t]
                 PROVE  Kept(t, e)'
      BY <1>1
    <2>1. Kept(t, e)
      BY <1>2, KeptPointwise DEF StateInv
    <2>2. tree[t] \subseteq tree'[t]
      BY <1>4
    <2> QED
      BY <1>1, <2>1, <2>2 DEF Kept
  <1>10. FileType' /\ StateInv'
    BY <1>1, <1>2, <1>4, <1>6, <1>8, <1>9, WorkMoves
  <1> QED
    BY <1>1, <1>4, <1>10, GoesIdle, Assemble

\* The agent commits or discards what is in a worktree, and is owed it no more.
LEMMA WorkDisposed ==
    ASSUME IInv, NEW s \in Sides, call = NoCall,
           tree' = [tree EXCEPT ![s] = {}], owed' = [owed EXCEPT ![s] = @ \ tree[s]],
           head' \in [Sides -> Commits],
           index' = index \/ index' = [index EXCEPT ![s] = "none"],
           UNCHANGED <<merging, stash, refs, source, fileVars, call, edits, faultVars>>
    PROVE  IInv'
  <1>2. GitType /\ FileType /\ AgentType /\ StateInv /\ journal \in Records
    BY Disassemble
  <1>4. /\ GitType' /\ AgentType'
        /\ tree'[s] = {} /\ owed'[s] = owed[s] \ tree[s]
        /\ \A t \in Sides : t # s => tree'[t] = tree[t] /\ owed'[t] = owed[t]
        /\ \A t \in Sides : index'[t] = "reapply" => index[t] = "reapply"
    BY <1>2 DEF GitType, AgentType
  <1>6. OwedInv'
    BY <1>2, <1>4 DEF OwedInv, StateInv
  <1>8. CandidateInv'
    <2> SUFFICES ASSUME Active(journal), NEW t \in Sides
                 PROVE  /\ journal.side[t].wip # "" => owed'[t] \cap tree'[t] \subseteq journal.side[t].stash
                        /\ Back(t) => Back(t)'
      BY <1>2, <1>4 DEF CandidateInv, StateInv, Active
    <2>1. journal.side[t].wip # "" => owed[t] \cap tree[t] \subseteq journal.side[t].stash
      BY <1>2 DEF CandidateInv, StateInv
    <2> QED
      BY <1>4, <2>1 DEF Back
  <1>9. damaged = "no" => \A t \in Sides : \A e \in owed'[t] : Kept(t, e)'
    <2> SUFFICES ASSUME damaged = "no", NEW t \in Sides, NEW e \in owed'[t]
                 PROVE  Kept(t, e)'
      OBVIOUS
    <2>0. e \in owed[t] /\ (e \in tree[t] => e \in tree'[t])
      BY <1>4
    <2>1. Kept(t, e)
      BY <1>2, <2>0, KeptPointwise DEF StateInv
    <2> QED
      BY <2>0, <2>1 DEF Kept
  <1>10. FileType' /\ StateInv'
    BY <1>2, <1>4, <1>6, <1>8, <1>9, WorkMoves
  <1> QED
    BY <1>4, <1>10, GoesIdle, Assemble

LEMMA AgentCommitsKeeps ==
    ASSUME IInv, NEW s \in Sides, AgentCommits(s)
    PROVE  IInv'
  <1>0. head \in [Sides -> Commits] /\ head[s] \in Commits
    BY Disassemble DEF GitType
  <1>1. [own |-> head[s].own + 1, at |-> head[s].at, was |-> head[s].at] \in Commits
    BY <1>0 DEF Commits
  <1>2. head' \in [Sides -> Commits]
    BY <1>0, <1>1 DEF AgentCommits
  <1> QED
    BY <1>2, WorkDisposed DEF AgentCommits

LEMMA AgentDiscardsKeeps ==
    ASSUME IInv, NEW s \in Sides, AgentDiscards(s)
    PROVE  IInv'
  <1>1. head' \in [Sides -> Commits]
    BY Disassemble DEF GitType, AgentDiscards
  <1> QED
    BY <1>1, WorkDisposed DEF AgentDiscards

LEMMA AgentResolvesKeeps ==
    ASSUME IInv, NEW s \in Sides, AgentResolves(s)
    PROVE  IInv'
  <1>1. /\ call = NoCall /\ call' = call
        /\ index' = [index EXCEPT ![s] = IF @ = "conflict" THEN "staged" ELSE "none"]
        /\ UNCHANGED <<head, merging, tree, stash, refs, source, fileVars, agentVars, faultVars>>
    BY DEF AgentResolves
  <1>2. GitType' /\ \A t \in Sides : index'[t] = "reapply" => index[t] = "reapply"
    BY <1>1, Disassemble DEF GitType
  <1>3. FileType' /\ AgentType' /\ StateInv'
    BY <1>1, <1>2, Disassemble, HeadsMove
  <1> QED
    BY <1>1, <1>2, <1>3, GoesIdle, Assemble

LEMMA AgentEndsMergeKeeps ==
    ASSUME IInv, NEW s \in Sides, AgentEndsMerge(s)
    PROVE  IInv'
  <1>1. /\ call = NoCall /\ call' = call
        /\ head' = [head EXCEPT ![s] = MergeCommit(head[s], merging[s])] \/ head' = head
        /\ merging' = [merging EXCEPT ![s] = 0]
        /\ index' = [index EXCEPT ![s] = "none"]
        /\ UNCHANGED <<tree, stash, refs, source, fileVars, agentVars, faultVars>>
    BY DEF AgentEndsMerge
  <1>2. GitType /\ MergeCommit(head[s], merging[s]) \in Commits
    BY Disassemble, CommitFacts DEF GitType
  <1>3. GitType' /\ \A t \in Sides : index'[t] = "reapply" => index[t] = "reapply"
    BY <1>1, <1>2 DEF GitType
  <1>4. FileType' /\ AgentType' /\ StateInv'
    BY <1>1, <1>3, Disassemble, HeadsMove
  <1> QED
    BY <1>1, <1>3, <1>4, GoesIdle, Assemble

LEMMA SourceMovesKeeps ==
    ASSUME IInv, NEW s \in Sides, SourceMoves(s)
    PROVE  IInv'
  <1>1. /\ call = NoCall /\ call' = call
        /\ source' = [source EXCEPT ![s] = @ + 1]
        /\ UNCHANGED <<gitVars, fileVars, agentVars, faultVars>>
    BY DEF SourceMoves
  <1>2. UNCHANGED <<head, merging, index, tree, stash, refs>>
    BY <1>1 DEF gitVars
  <1>3. GitType /\ FileType /\ AgentType /\ StateInv
    BY Disassemble
  <1>4. GitType' /\ \A t \in Sides : source[t] <= source'[t]
    BY <1>1, <1>2, <1>3 DEF GitType
  <1>5. FileType' /\ JournalInv' /\ NamedInv' /\ SyncLogChains' /\ BaseInv'
    BY <1>1, <1>3, <1>4, FilesStay DEF StateInv
  <1>6. RefInv' /\ AuthorityPinned'
    BY <1>1, <1>2, <1>3, RefsStay DEF StateInv
  <1>7. OwedInv' /\ AgentType' /\ CandidateInv'
    BY <1>1, <1>2, <1>3 DEF OwedInv, AgentType, StateInv, CandidateInv, Back, Active, Pending
  <1>8. ParkedWorkKept'
    BY <1>1, <1>2, <1>3 DEF ParkedWorkKept, Active, Pending, StateInv
  <1>9. StateInv'
    BY <1>5, <1>6, <1>7, <1>8 DEF StateInv
  <1> QED
    BY <1>1, <1>4, <1>5, <1>7, <1>9, GoesIdle, Assemble

-----------------------------------------------------------------------------
(* The theorems.                                                           *)

LEMMA InitInv == Init => IInv
  <1> SUFFICES ASSUME Init
               PROVE  IInv
    OBVIOUS
  <1>1. /\ journal = NoRecord /\ call = NoCall /\ syncLog = <<>> /\ damaged = "no" /\ crashes = 0
        /\ source = [s \in Sides |-> 0] /\ base = [s \in Sides |-> 0] /\ edits = [s \in Sides |-> 0]
        /\ merging = [s \in Sides |-> 0] /\ index = [s \in Sides |-> "none"]
        /\ tree = [s \in Sides |-> {}] /\ stash = [s \in Sides |-> {}] /\ owed = [s \in Sides |-> {}]
        /\ refs = [s \in Sides |-> NoRefs]
    BY DEF Init
  <1>2. head \in [Sides -> Commits]
    BY DEF Init, Commits
  <1>3. NoRefs \in [RefNames -> Commits \cup {NoCommit}] /\ \A name \in RefNames : NoRefs[name] = NoCommit
    BY DEF NoRefs
  <1>4. GitType
    BY <1>1, <1>2, <1>3 DEF GitType
  <1>5. FileType /\ CallType /\ AgentType
    <2>1. FileType
      <3>1. <<>> \in Seq([from : [Sides -> Nat], to : [Sides -> Nat]])
        OBVIOUS
      <3> QED
        BY <1>1, <3>1, NoRecordFacts DEF FileType
    <2>2. CallType
      BY <1>1, NoCallFacts DEF CallType
    <2>3. AgentType
      BY <1>1 DEF AgentType
    <2> QED
      BY <2>1, <2>2, <2>3
  <1>6. ~Active(journal) /\ \A s \in Sides : journal.side[s] = NoSide
    BY <1>1, NoRecordFacts DEF Active
  <1>7. JournalInv /\ CandidateInv /\ AuthorityPinned
    BY <1>6 DEF JournalInv, CandidateInv, AuthorityPinned
  <1>8. RefInv
    BY <1>1, <1>3 DEF RefInv, RefNames
  <1>9. BaseInv /\ OwedInv /\ NamedInv /\ SyncLogChains
    <2>1. BaseInv
      BY <1>1 DEF BaseInv
    <2>2. OwedInv
      BY <1>1, <1>6, NoSideFacts DEF OwedInv
    <2>3. NamedInv
      BY <1>6, NoSideFacts DEF NamedInv
    <2>4. SyncLogChains
      <3>1. syncLog = <<>> /\ Len(syncLog) = 0 /\ DOMAIN syncLog = {}
        BY <1>1
      <3> QED
        BY <3>1 DEF SyncLogChains
    <2> QED
      BY <2>1, <2>2, <2>3, <2>4
  <1>10. ParkedWorkKept
    BY <1>1, KeptPointwise
  <1>11. ProgressInv
    BY <1>1, NoCallFacts DEF ProgressInv, AdmissionInv, ParkingInv, CallInv, ReturnInv,
                             Admitting, Holding, Carrying, Cancelling
  <1> QED
    BY <1>4, <1>5, <1>7, <1>8, <1>9, <1>10, <1>11, TypeParts DEF IInv, StateInv

LEMMA CallInductive == IInv /\ Call => IInv'
  BY CallAdmitsKeeps, CallFindsTerminalKeeps, CallResumesKeeps, CallCancelsKeeps,
     CallContinuesMergeKeeps, CallContinuesReapplyKeeps, CallQuarantinesKeeps, CallRecoversKeeps,
     CallRecoversPartlyKeeps DEF Call

LEMMA StepInductive == IInv /\ Step => IInv'
  BY DeletePartialKeeps, ParkWipKeeps, ParkFailsKeeps, PinRefKeeps, PublishRecordKeeps,
     RunUnmovedKeeps, AdoptMergedKeeps, StartMergeKeeps, RetainMergeKeeps, RefusedKeeps,
     FinishMemoryMergeKeeps, CarryUnparkedKeeps, ReapplyWipKeeps, RetainReapplyKeeps,
     DropStashKeeps, RecordRestoredKeeps, AdvanceRestoredKeeps, WriteContractKeeps,
     PublishCompletedKeeps, DeleteAuthorityKeeps, DiscardReapplyKeeps, RollbackSideKeeps,
     RestoreCancelledKeeps, PublishCancelledKeeps DEF Step

LEMMA AgentInductive == IInv /\ Agent => IInv'
  BY AgentEditsKeeps, AgentCommitsKeeps, AgentDiscardsKeeps, AgentResolvesKeeps,
     AgentEndsMergeKeeps DEF Agent

LEMMA StutterKeeps == IInv /\ UNCHANGED vars => IInv'
  <1> SUFFICES ASSUME IInv, UNCHANGED vars
               PROVE  IInv'
    OBVIOUS
  <1>1. /\ UNCHANGED <<gitVars, source, fileVars, agentVars, damaged>> /\ call' = call
        /\ crashes' = crashes
    BY DEF vars
  <1>2. GitType' /\ FileType' /\ AgentType' /\ StateInv'
    BY <1>1, Disassemble, NothingMoves DEF AgentType
  <1>3. CallType' /\ ProgressInv'
    <2>0. /\ UNCHANGED <<head, merging, index, tree, stash, refs, source, journal, base, owed>>
          /\ call' = call
      BY <1>1 DEF gitVars
    <2>1. CallType' /\ AdmissionInv'
      BY <2>0, Disassemble DEF CallType, ProgressInv, AdmissionInv, Active
    <2>2. ParkingInv'
      BY <2>0, Disassemble DEF ProgressInv, ParkingInv
    <2>3. CallInv'
      BY <2>0, Disassemble DEF ProgressInv, CallInv, Pinned, Active, Terminal
    <2>4. ReturnInv'
      BY <2>0, Disassemble DEF ProgressInv, ReturnInv, Back, Pending
    <2> QED
      BY <2>1, <2>2, <2>3, <2>4 DEF ProgressInv
  <1> QED
    BY <1>2, <1>3, Assemble

LEMMA NextInv == IInv /\ [Next]_vars => IInv'
  BY CallInductive, StepInductive, AgentInductive, SourceMovesKeeps, RefusedKeeps,
     DamageJournalKeeps, StutterKeeps DEF Next

\* Every reachable state satisfies the inductive invariant: the authority of a
\* transaction, its journal, its refs and the candidate it parked stay in step
\* through every call, crash and damaged journal.
THEOREM SyncInvariant == Spec => []IInv
  BY InitInv, NextInv, PTL DEF Spec

\* The types of the state, for every bound.
THEOREM SyncTypes == Spec => []TypeOK
  <1>1. IInv => TypeOK
    BY DEF IInv
  <1> QED
    BY <1>1, SyncInvariant, PTL

\* An open transaction can always be rolled back: the refs pin what its journal says.
THEOREM AuthorityStaysPinned == Spec => []AuthorityPinned
  <1>1. IInv => AuthorityPinned
    BY DEF IInv, StateInv
  <1> QED
    BY <1>1, SyncInvariant, PTL

\* What a sync parked is in the worktree, on the stash stack or named by the
\* active journal, until the agent commits or discards it.
THEOREM ParkedWorkIsNeverLost == Spec => []ParkedWorkKept
  <1>1. IInv => ParkedWorkKept
    BY DEF IInv, StateInv
  <1> QED
    BY <1>1, SyncInvariant, PTL

\* The sync_log is the gapless history of the recorded bases.
THEOREM LogIsGapless == Spec => []SyncLogChains
  <1>1. IInv => SyncLogChains
    BY DEF IInv, StateInv
  <1> QED
    BY <1>1, SyncInvariant, PTL

-----------------------------------------------------------------------------
(* What a step may never do.                                               *)

\* A call that writes the journal of an open transaction leaves it open, but
\* for the two that publish the terminal record.
Ends == Active(journal) /\ Terminal(journal')

LEMMA CarriedPhase ==
    ASSUME IInv, NEW s \in Sides, Advance(journal, s)
    PROVE  ~Ends
  <1>1. Rewrites(journal', journal, s, NextPhase(s), journal.side[s].wip)
    BY Disassemble, PhaseNames, AdvanceRewrites DEF Advance, AllPhases
  <1> QED
    BY <1>1, PhaseNames DEF Rewrites, Ends, Terminal

LEMMA HeldPhase ==
    ASSUME IInv, RetainReapply \/ RecordRestored \/ AdvanceRestored
    PROVE  ~Ends
  <1>0. PICK s : s = call.side
    OBVIOUS
  <1>1. s \in Sides /\ call.record \in Records
    BY <1>0, Disassemble
  <1>2. NextPhase(s) \in AllPhases /\ NextPhase(s) \in Phases /\ Resolution[s] \in AllPhases /\ Resolution[s] \in Phases
    BY <1>1, PhaseNames DEF AllPhases
  <1>3. CASE RetainReapply
    <2>1. Rewrites(journal', call.record, s, Resolution[s], "restore-conflict")
      BY <1>0, <1>1, <1>2, <1>3, ReapplyRewrites DEF RetainReapply
    <2> QED
      BY <1>2, <2>1 DEF Rewrites, Ends, Terminal
  <1>4. CASE AdvanceRestored
    <2>1. Rewrites(journal', call.record, s, NextPhase(s), call.record.side[s].wip)
      BY <1>0, <1>1, <1>2, <1>4, AdvancedRewrites DEF AdvanceRestored
    <2> QED
      BY <1>2, <2>1 DEF Rewrites, Ends, Terminal
  <1>5. CASE RecordRestored
    <2>1. Rewrites(journal', call.record, s, call.record.phase, "restored")
      BY <1>0, <1>1, <1>5, RestoredRewrites DEF RecordRestored
    <2>2. call.step \in Holding
      BY <1>5 DEF RecordRestored, Holding
    <2>3. call.record.phase = journal.phase
      BY <2>2, Disassemble DEF ProgressInv, CallInv
    <2> QED
      BY <2>1, <2>3 DEF Rewrites, Ends, Active, Terminal
  <1> QED
    BY <1>3, <1>4, <1>5

LEMMA CallEnds == IInv /\ Call => ~Ends
  <1> SUFFICES ASSUME IInv, Call
               PROVE  ~Ends
    OBVIOUS
  <1>1. CASE journal' = journal
    BY <1>1 DEF Ends, Active, Terminal
  <1>2. CASE CallCancels
    <2>1. Rewrites(journal', journal, "code", "cancelling", journal.side["code"].wip)
      BY <1>2, Disassemble, RewritePhase DEF CallCancels, AllPhases, Phases, Sides
    <2> QED
      BY <2>1 DEF Rewrites, Ends, Terminal, Phases
  <1>3. CASE CallQuarantines
    BY <1>3 DEF CallQuarantines, Ends, Active
  <1>4. CASE CallRecovers
    BY <1>4, LostIsNotOpen DEF CallRecovers, Ends
  <1> QED
    BY <1>1, <1>2, <1>3, <1>4 DEF Call, CallAdmits, CallFindsTerminal, CallResumes,
       CallContinuesMerge, CallContinuesReapply, CallRecoversPartly

LEMMA StepEnds == IInv /\ Step => ~Ends \/ \A s \in Sides : ~Pending(journal.side[s])
  <1> SUFFICES ASSUME IInv, Step
               PROVE  ~Ends \/ \A s \in Sides : ~Pending(journal.side[s])
    OBVIOUS
  <1>1. CASE journal' = journal
    BY <1>1 DEF Ends, Active, Terminal
  <1>2. CASE PublishRecord
    BY <1>2, Disassemble DEF PublishRecord, Ends, ProgressInv, AdmissionInv, Admitting
  <1>3. ASSUME NEW s \in Sides, RunUnmoved(s)
        PROVE  ~Ends
    BY <1>3, CarriedPhase DEF RunUnmoved
  <1>4. ASSUME NEW s \in Sides, RetainMerge(s)
        PROVE  ~Ends
    <2>1. Rewrites(journal', journal, s, Resolution[s], journal.side[s].wip)
      BY <1>4, Disassemble, PhaseNames, RetainedRewrites DEF RetainMerge, AllPhases
    <2> QED
      BY <2>1, PhaseNames DEF Rewrites, Ends, Terminal
  <1>5. CASE CarryUnparked
    BY <1>5, Disassemble, CarriedPhase DEF CarryUnparked
  <1>6. CASE RetainReapply \/ RecordRestored \/ AdvanceRestored
    BY <1>6, HeldPhase
  <1>7. CASE PublishCompleted
    BY <1>7, FinalizableFacts DEF PublishCompleted
  <1>8. CASE PublishCancelled
    BY <1>8, Disassemble DEF PublishCancelled, ProgressInv, ReturnInv
  <1> QED
    BY <1>1, <1>2, <1>3, <1>4, <1>5, <1>6, <1>7, <1>8
    DEF Step, DeletePartial, ParkWip, ParkFails, PinRef, AdoptMerged, StartMerge, RunRefused,
        FinishMemoryMerge, ReapplyWip, DropStash, WriteContract, FinalizeRefused, DeleteAuthority,
        DiscardReapply, RollbackSide, RollbackRefused, RestoreCancelled

\* With nothing pending, the candidate is back.
LEMMA SettledIsBack ==
    ASSUME IInv, Active(journal), NEW s \in Sides, ~Pending(journal.side[s])
    PROVE  owed[s] \cap journal.side[s].stash \subseteq tree[s]
  <1>1. journal.side[s].wip \in {"", "parked", "restore-conflict", "restored"}
    BY Disassemble, SideFields
  <1>2. NamedInv /\ CandidateInv
    BY Disassemble DEF StateInv
  <1>3. CASE journal.side[s].stash = {}
    BY <1>3
  <1>4. CASE journal.side[s].wip = "restored"
    BY <1>2, <1>4 DEF CandidateInv, Back
  <1> QED
    BY <1>1, <1>2, <1>3, <1>4 DEF NamedInv, Pending

\* A terminal record is published only with the parked candidate back in the worktrees.
THEOREM TerminalRecordReturnsWork == Spec => TerminalReturnsWork
  <1>1. IInv /\ [Next]_vars =>
           [Active(journal) /\ Terminal(journal')
            => \A s \in Sides : owed[s] \cap journal.side[s].stash \subseteq tree[s]]_vars
    <2> SUFFICES ASSUME IInv, Next, Ends, NEW s \in Sides
                 PROVE  owed[s] \cap journal.side[s].stash \subseteq tree[s]
      BY DEF Ends
    <2>1. CASE \A t \in Sides : ~Pending(journal.side[t])
      BY <2>1, SettledIsBack DEF Ends
    <2>2. CASE journal' = journal
      BY <2>2 DEF Ends, Active, Terminal
    <2>3. CASE DamageJournal
      <3>1. ~Terminal(journal')
        BY <2>3, LostRecord DEF DamageJournal
      <3> QED
        BY <3>1 DEF Ends
    <2> QED
      BY <2>1, <2>2, <2>3, CallEnds, StepEnds
      DEF Next, Agent, AgentEdits, AgentCommits, AgentDiscards, AgentResolves, AgentEndsMerge,
          SourceMoves, Crash
  <1> QED
    BY <1>1, SyncInvariant, PTL DEF Spec, TerminalReturnsWork

\* A head the sync created has the agent's commits of the head it started from.
LEMMA ExactOwn ==
    ASSUME NEW d \in SideRecords, NEW c \in Commits, Exact(c, d)
    PROVE  d.pre.own = c.own
  <1>1. d.pre \in Commits /\ d.source \in Nat
    BY SideFields
  <1>2. CASE c = SourceCommit(d.source) /\ FastForwards(d.pre, d.source)
    <2>1. SourceCommit(d.source).own = 0
      BY <1>1, CommitFacts
    <2> QED
      BY <1>2, <2>1 DEF FastForwards
  <1>3. CASE c = MergeCommit(d.pre, d.source)
    <2>1. MergeCommit(d.pre, d.source).own = d.pre.own
      BY <1>1, CommitFacts
    <2> QED
      BY <1>3, <2>1
  <1> QED
    BY <1>2, <1>3 DEF Exact

LEMMA RollbackOwn ==
    ASSUME GitType, NEW s \in Sides, NEW d \in SideRecords, CanRollback(s, d) \/ Unchanged(s, d)
    PROVE  d.pre.own = head[s].own
  <1>1. head[s] \in Commits
    BY DEF GitType
  <1>2. CASE head[s] = d.pre
    BY <1>2
  <1>3. CASE Exact(head[s], d)
    BY <1>1, <1>3, ExactOwn
  <1> QED
    BY <1>2, <1>3 DEF CanRollback, OwnMerge, Unchanged

\* One head moves, to a commit with at least the agent's commits.
LEMMA HeadGrows ==
    ASSUME GitType, NEW s \in Sides, NEW c \in Commits, c.own >= head[s].own,
           head' = [head EXCEPT ![s] = c]
    PROVE  \A t \in Sides : head'[t].own >= head[t].own
  <1>1. head'[s] = c /\ \A t \in Sides : t # s => head'[t] = head[t]
    BY DEF GitType
  <1>2. \A t \in Sides : head[t].own \in Nat
    BY CommitFacts DEF GitType
  <1> QED
    BY <1>1, <1>2

LEMMA MergeGrows ==
    ASSUME GitType, NEW s \in Sides, NEW v \in Nat, head' = [head EXCEPT ![s] = MergeCommit(head[s], v)]
    PROVE  \A t \in Sides : head'[t].own >= head[t].own
  <1>1. head[s] \in Commits
    BY DEF GitType
  <1>2. MergeCommit(head[s], v) \in Commits /\ MergeCommit(head[s], v).own >= head[s].own
    BY <1>1, CommitFacts
  <1> QED
    BY <1>2, HeadGrows

\* No step takes a commit of the agent off a work branch: a rollback resets only
\* the heads the sync created, and those carry what was there before.
THEOREM AgentCommitsAreKept == Spec => OwnCommitsKept
  <1> DEFINE Grows == \A s \in Sides : head'[s].own >= head[s].own
  <1>1. IInv /\ [Next]_vars => [Grows]_vars
    <2> SUFFICES ASSUME IInv, Next
                 PROVE  Grows
      OBVIOUS
    <2>0. GitType /\ StateInv /\ journal \in Records
      BY Disassemble
    <2>1. \A s \in Sides : head[s] \in Commits /\ head[s].own \in Nat /\ merging[s] \in Nat
      BY <2>0, CommitFacts DEF GitType
    <2>2. CASE head' = head
      BY <2>1, <2>2
    <2>3. ASSUME NEW s \in Sides, head' = [head EXCEPT ![s] = MergeCommit(@, merging[s])]
          PROVE  Grows
      BY <2>0, <2>1, <2>3, MergeGrows
    <2>4. ASSUME NEW s \in Sides, CallRecoversPartly(s)
          PROVE  Grows
      <3>1. RecoveredSide(s) \in SideRecords /\ RecoveredSide(s).pre = refs[s]["pre"]
        BY <2>0, <2>4, RecoveredFacts DEF CallRecoversPartly, StateInv
      <3>2. refs[s]["pre"] \in Commits /\ refs[s]["pre"].own = head[s].own
        BY <2>0, <2>4, <3>1, RollbackOwn, SideFields DEF CallRecoversPartly
      <3> QED
        BY <2>0, <2>1, <2>4, <3>2, HeadGrows DEF CallRecoversPartly
    <2>5. CASE RollbackSide
      <3>0. PICK s : s = call.side
        OBVIOUS
      <3>1. s \in Sides /\ journal.side[s] \in SideRecords /\ journal.side[s].pre \in Commits
        BY <3>0, Disassemble, SideFields
      <3>2. CanRollback(s, journal.side[s]) \/ Unchanged(s, journal.side[s])
        BY <2>5, <3>0 DEF RollbackSide, CanCancel
      <3>3. journal.side[s].pre.own = head[s].own
        BY <2>0, <3>1, <3>2, RollbackOwn
      <3>4. head' = head \/ head' = [head EXCEPT ![s] = journal.side[s].pre]
        BY <2>5, <3>0 DEF RollbackSide
      <3> QED
        BY <2>0, <2>1, <2>2, <3>1, <3>3, <3>4, HeadGrows
    <2>6. ASSUME NEW s \in Sides, StartMerge(s)
          PROVE  Grows
      <3>1. journal.side[s] \in SideRecords /\ journal.side[s].source \in Nat
        BY Disassemble, SideFields
      <3>2. Active(journal) /\ journal.phase # "cancelling" /\ head[s] = journal.side[s].pre
        BY <2>6, RunningFacts DEF StartMerge, RunningSide
      <3>3. Planned(s, journal.side[s])
        BY <2>0, <3>2 DEF StateInv, JournalInv
      <3>4. CASE journal.side[s].plan = "fast-forward" /\ head' = [head EXCEPT ![s] = SourceCommit(journal.side[s].source)]
        <4>1. head[s].own = 0
          BY <3>2, <3>3, <3>4 DEF Planned, FastForwards
        <4>2. SourceCommit(journal.side[s].source) \in Commits /\ SourceCommit(journal.side[s].source).own = 0
          BY <3>1, CommitFacts
        <4>3. PICK c : c = SourceCommit(journal.side[s].source)
          OBVIOUS
        <4>4. c \in Commits /\ c.own = 0 /\ head' = [head EXCEPT ![s] = c]
          BY <3>4, <4>2, <4>3
        <4>5. c.own >= head[s].own
          BY <4>1, <4>4
        <4> QED
          BY <2>0, <4>4, <4>5, HeadGrows
      <3>5. CASE head' = [head EXCEPT ![s] = MergeCommit(head[s], journal.side[s].source)]
        BY <2>0, <3>1, <3>5, MergeGrows
      <3> QED
        BY <2>2, <2>6, <3>4, <3>5 DEF StartMerge
    <2>7. ASSUME NEW s \in Sides, AgentCommits(s)
          PROVE  Grows
      <3>1. PICK c : c = [own |-> head[s].own + 1, at |-> head[s].at, was |-> head[s].at]
        OBVIOUS
      <3>2. c \in Commits /\ c.own >= head[s].own
        BY <2>1, <3>1 DEF Commits
      <3>3. head' = [head EXCEPT ![s] = c]
        BY <2>7, <3>1 DEF AgentCommits
      <3> QED
        BY <2>0, <3>2, <3>3, HeadGrows
    <2>8. CASE Call
      BY <2>2, <2>3, <2>4, <2>8
      DEF Call, CallAdmits, CallFindsTerminal, CallResumes, CallCancels, CallContinuesMerge,
          CallContinuesReapply, CallQuarantines, CallRecovers, gitVars
    <2>9. CASE Step
      <3>1. ASSUME FinishMemoryMerge
            PROVE  Grows
        BY <2>3, <3>1 DEF FinishMemoryMerge, Sides
      <3> QED
        BY <2>2, <2>5, <2>6, <2>9, <3>1
        DEF Step, DeletePartial, ParkWip, ParkFails, PinRef, PublishRecord, RunUnmoved, AdoptMerged,
            RetainMerge, RunRefused, CarryUnparked, ReapplyWip, RetainReapply, DropStash,
            RecordRestored, AdvanceRestored, WriteContract, PublishCompleted, FinalizeRefused,
            DeleteAuthority, DiscardReapply, RollbackRefused, RestoreCancelled, PublishCancelled,
            gitVars
    <2>10. CASE Agent
      BY <2>2, <2>3, <2>7, <2>10
      DEF Agent, AgentEdits, AgentDiscards, AgentResolves, AgentEndsMerge
    <2> QED
      BY <2>2, <2>8, <2>9, <2>10 DEF Next, SourceMoves, Crash, DamageJournal, gitVars
  <1> QED
    BY <1>1, SyncInvariant, PTL DEF Spec, OwnCommitsKept
=============================================================================
