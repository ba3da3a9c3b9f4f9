--------------------------- MODULE SyncRefinement ---------------------------
(***************************************************************************)
(* SyncTransaction implements SyncAtomic, for any number of source         *)
(* versions, agent commits, edits, generations and crashes, with and       *)
(* without a damaged journal.                                              *)
(*                                                                         *)
(* A side is shown as it was pinned while its transaction is open.  So the *)
(* argument is about opening and closing: a side opens where the pins say  *)
(* what it is, and it closes, other than by completing, only where it is   *)
(* again what the pins say.                                                *)
(***************************************************************************)
EXTENDS SyncProofs

-----------------------------------------------------------------------------
(* What the refinement needs beyond the invariant of SyncProofs.           *)

\* A merge in progress is one the open transaction started, on its pinned head.
MergeInv ==
    \A s \in Sides : merging[s] # 0 =>
        /\ Active(journal) \/ journal.kind = "malformed"
        /\ refs[s]["pre"] # NoCommit /\ head[s] = refs[s]["pre"]
        /\ Active(journal) => journal.side[s].plan = "merge"

\* The index is in a merge exactly when there is one.
Unmerged(i) == i \in {"conflict", "staged"}
IndexInv == \A s \in Sides : merging[s] # 0 <=> Unmerged(index[s])

\* A side that has no part in the open transaction has no refs.
SidesInv ==
    Active(journal) => \A s \in Sides :
        ~journal.side[s].part => \A name \in RefNames : refs[s][name] = NoCommit

\* A side planned as a fast-forward never gets a merge commit of the sync.
FastInv ==
    Active(journal) /\ journal.phase # "cancelling" => \A s \in Sides :
        journal.side[s].plan = "fast-forward" =>
            \/ head[s] \in {journal.side[s].pre, SourceCommit(journal.side[s].source)}
            \/ head[s].own > journal.side[s].pre.own

\* Without a journal the refs are what an interrupted admission left of the
\* contract's bases; a damaged one has the refs of whole sides beside it.
LostInv ==
    /\ journal.kind = "malformed" => ~Incomplete
    /\ journal.kind \in {"none", "quarantine"} => \A s \in Sides :
          /\ refs[s]["base"] \in {NoCommit, SourceCommit(base[s])}
          /\ refs[s]["pre"] # NoCommit => refs[s]["base"] # NoCommit

\* The sides a cancellation has passed are back at their pinned heads.
Passed(s) == \/ call.step \in {"restore", "applied", "dropped", "conclude"}
             \/ call.step = "rollback" /\ call.side = "code" /\ s = "memory"
CancelInv ==
    Active(journal) /\ journal.phase = "cancelling" => \A s \in Sides :
        Passed(s) /\ journal.side[s].part => head[s] = journal.side[s].pre /\ merging[s] = 0

\* The side whose refs a recovery deletes one by one is back at its pinned head.
PartialInv ==
    call.step = "partial" =>
        /\ journal.kind = "none"
        /\ \A s \in Sides : s = call.side /\ refs[s]["pre"] # NoCommit => head[s] = refs[s]["pre"]

\* A call admits only where the journal was readable.
StartInv == call.step \in Admitting => journal.kind # "malformed"

RepoInv == MergeInv /\ IndexInv /\ SidesInv /\ FastInv /\ LostInv
StageInv == CancelInv /\ PartialInv /\ StartInv
RInv == RepoInv /\ StageInv

-----------------------------------------------------------------------------
(* What a step shows of a transaction.                                     *)

Stutter == Branch' = Branch /\ Bases' = Bases

\* What moves on a side is hidden while the side is open.
LEMMA HiddenMove ==
    ASSUME refs' = refs, Terminal(journal') <=> Terminal(journal),
           \A s \in Sides : Open(s) \/ (head'[s] = head[s] /\ base'[s] = base[s])
    PROVE  Stutter
  <1>1. \A s \in Sides : Open(s)' <=> Open(s)
    BY DEF Open
  <1> QED
    BY <1>1 DEF Stutter, Branch, Bases

\* A side that opens or closes while it is as its refs say shows no difference.
LEMMA SeamlessMove ==
    ASSUME head' = head, base' = base,
           \A s \in Sides :
              \/ ~Open(s) /\ ~Open(s)'
              \/ /\ Open(s) => refs[s]["pre"] = head[s] /\ refs[s]["base"].at = base[s]
                 /\ Open(s)' => refs'[s]["pre"] = head[s] /\ refs'[s]["base"].at = base[s]
              \/ Open(s) /\ Open(s)' /\ refs'[s]["pre"] = refs[s]["pre"]
                 /\ refs'[s]["base"] = refs[s]["base"]
    PROVE  Stutter
  BY DEF Stutter, Branch, Bases

LEMMA OpenSide ==
    ASSUME IInv, Active(journal), NEW s \in Sides, journal.side[s].part
    PROVE  /\ Open(s) /\ refs[s]["pre"] = journal.side[s].pre
           /\ refs[s]["base"] = SourceCommit(journal.side[s].base)
           /\ refs[s]["base"].at = journal.side[s].base
           /\ \A name \in RefNames : refs[s][name] # NoCommit
  <1>1. journal.side[s] \in SideRecords /\ AuthorityPinned
    BY Disassemble DEF StateInv
  <1>2. \A name \in RefNames : refs[s][name] = Pin(journal.side[s], name)
    BY <1>1 DEF AuthorityPinned, Pinned
  <1>3. \A name \in RefNames : refs[s][name] # NoCommit
    BY <1>1, <1>2, PinFacts
  <1>4. refs[s]["pre"] = journal.side[s].pre /\ refs[s]["base"] = SourceCommit(journal.side[s].base)
    BY <1>1, <1>2, PinFacts DEF RefNames
  <1>5. refs[s]["base"].at = journal.side[s].base
    <2>1. journal.side[s].base \in Nat
      BY <1>1, SideFields
    <2>2. SourceCommit(journal.side[s].base).at = journal.side[s].base
      BY <2>1, CommitFacts
    <2> QED
      BY <1>4, <2>2
  <1>6. Open(s)
    BY <1>3 DEF Open, RefNames, Active, Terminal
  <1> QED
    BY <1>3, <1>4, <1>5, <1>6

LEMMA EmptyRefs ==
    ASSUME GitType, NEW s \in Sides
    PROVE  refs[s] = NoRefs <=> \A name \in RefNames : refs[s][name] = NoCommit
  <1>1. refs[s] \in [RefNames -> Commits \cup {NoCommit}]
    BY DEF GitType
  <1> QED
    BY <1>1 DEF NoRefs

\* Without an open or a damaged journal there is no merge.
LEMMA NoMergeLeft ==
    ASSUME RInv, ~Active(journal), journal.kind # "malformed"
    PROVE  \A s \in Sides : merging[s] = 0 /\ ~Unmerged(index[s])
  BY DEF RInv, RepoInv, MergeInv, IndexInv

-----------------------------------------------------------------------------
(* Steps that leave the repositories as they are.                          *)

\* Where a call is neither cancelling, nor deleting partial refs, nor admitting.
LEMMA StageQuiet ==
    ASSUME call'.step # "partial", call'.step \in Admitting => journal'.kind # "malformed",
           \/ call'.step \notin {"rollback", "restore", "applied", "dropped", "conclude"}
           \/ ~Active(journal') \/ journal'.phase # "cancelling"
    PROVE  StageInv'
  BY DEF StageInv, CancelInv, PartialInv, StartInv, Passed

LEMMA StageIdle ==
    ASSUME call' = NoCall
    PROVE  StageInv'
  <1>1. call'.step = "idle"
    BY NoCallFacts
  <1> QED
    BY <1>1, StageQuiet DEF Admitting

LEMMA CalmKeeps ==
    ASSUME RInv, UNCHANGED <<head, merging, refs, journal>>,
           base' = base \/ (Active(journal) /\ \A s \in Sides : Open(s)),
           \A s \in Sides : Unmerged(index'[s]) <=> Unmerged(index[s]),
           StageInv'
    PROVE  RInv' /\ Stutter
  <1>1. MergeInv' /\ IndexInv' /\ SidesInv' /\ FastInv'
    BY DEF RInv, RepoInv, MergeInv, IndexInv, SidesInv, FastInv
  <1>2. LostInv'
    BY DEF RInv, RepoInv, LostInv, Incomplete, Partial, Complete, Active
  <1>3. Stutter
    BY HiddenMove
  <1> QED
    BY <1>1, <1>2, <1>3 DEF RInv, RepoInv

LEMMA StillKeeps ==
    ASSUME RInv, UNCHANGED <<head, merging, index, refs, journal, base>>, StageInv'
    PROVE  RInv' /\ Stutter
  <1>1. \A s \in Sides : Unmerged(index'[s]) <=> Unmerged(index[s])
    OBVIOUS
  <1>2. UNCHANGED <<head, merging, refs, journal>> /\ base' = base
    OBVIOUS
  <1> QED
    BY <1>1, <1>2, CalmKeeps

LEMMA RewriteKeeps ==
    ASSUME RInv, Active(journal), NEW s \in Sides, NEW ph \in Phases, NEW w,
           Rewrites(journal', journal, s, ph, w), journal.phase = "cancelling" => ph = "cancelling",
           UNCHANGED <<head, merging, index, refs, base>>, StageInv'
    PROVE  RInv' /\ Stutter
  <1>1. Active(journal') /\ journal'.phase = ph
    BY DEF Rewrites, Active
  <1>2. \A t \in Sides : /\ journal'.side[t].part = journal.side[t].part
                         /\ journal'.side[t].plan = journal.side[t].plan
                         /\ journal'.side[t].pre = journal.side[t].pre
                         /\ journal'.side[t].source = journal.side[t].source
    BY DEF Rewrites, SameSide
  <1>3. MergeInv' /\ IndexInv' /\ SidesInv' /\ FastInv'
    BY <1>1, <1>2 DEF RInv, RepoInv, MergeInv, IndexInv, SidesInv, FastInv
  <1>4. LostInv'
    BY <1>1 DEF LostInv, Active
  <1>5. Stutter
    BY <1>1, HiddenMove DEF Active, Terminal
  <1> QED
    BY <1>3, <1>4, <1>5 DEF RInv, RepoInv

-----------------------------------------------------------------------------
(* The calls.                                                              *)

LEMMA QuietCalls ==
    ASSUME IInv, RInv,
           \/ CallAdmits \/ CallFindsTerminal \/ CallResumes
           \/ \E s \in Sides : CallContinuesReapply(s)
    PROVE  RInv' /\ Stutter
  <1>1. UNCHANGED <<head, merging, index, refs, journal, base>>
    BY DEF CallAdmits, CallFindsTerminal, CallResumes, CallContinuesReapply, gitVars, fileVars
  <1>2. StageInv'
    <2>1. CASE CallAdmits
      <3>1. call'.step = "park" /\ journal'.kind # "malformed"
        BY <2>1 DEF CallAdmits, Admit, NoCall, fileVars
      <3> QED
        BY <3>1, StageQuiet
    <2>2. CASE CallFindsTerminal
      <3>1. call'.step = "residue"
        BY <2>2 DEF CallFindsTerminal, NoCall
      <3> QED
        BY <3>1, StageQuiet DEF Admitting
    <2>3. CASE CallResumes
      <3>1. call'.step = "run"
        BY <2>3 DEF CallResumes, NoCall
      <3> QED
        BY <3>1, StageQuiet DEF Admitting
    <2>4. ASSUME NEW s \in Sides, CallContinuesReapply(s)
          PROVE  StageInv'
      <3>1. call'.step = "applied" /\ journal' = journal /\ journal.phase = Resolution[s]
        BY <2>4 DEF CallContinuesReapply, NoCall, fileVars
      <3>2. journal'.phase # "cancelling"
        BY <3>1, PhaseNames
      <3> QED
        BY <3>1, <3>2, StageQuiet DEF Admitting
    <2> QED
      BY <2>1, <2>2, <2>3, <2>4
  <1> QED
    BY <1>1, <1>2, StillKeeps

\* A cancellation begins with the memory side, if there is one.
LEMMA CancelBegins ==
    ASSUME call'.step = "rollback", call'.side = "code" => ~journal'.side["memory"].part
    PROVE  StageInv'
  BY DEF StageInv, CancelInv, PartialInv, StartInv, Passed, Admitting

LEMMA CallCancelsRefines ==
    ASSUME IInv, RInv, CallCancels
    PROVE  RInv' /\ Stutter
  <1>1. Active(journal) /\ UNCHANGED <<head, merging, index, refs, base>>
    BY DEF CallCancels, gitVars
  <1>2. Rewrites(journal', journal, "code", "cancelling", journal.side["code"].wip)
    BY Disassemble, RewritePhase DEF CallCancels, AllPhases, Phases, Sides
  <1>3. journal'.side["memory"].part = journal.side["memory"].part
    BY <1>2 DEF Rewrites, SameSide, Sides
  <1>4. call'.step = "rollback" /\ (call'.side = "code" => ~journal.side["memory"].part)
    BY DEF CallCancels, NoCall
  <1>5. StageInv'
    BY <1>3, <1>4, CancelBegins
  <1> QED
    BY <1>1, <1>2, <1>5, RewriteKeeps DEF Phases, Sides

\* A merge ends, by its commit or by its abortion: the side is open.
LEMMA MergeEnds ==
    ASSUME IInv, RInv, NEW s \in Sides, merging[s] # 0,
           head' = head \/ head' = [head EXCEPT ![s] = MergeCommit(@, merging[s])],
           merging' = [merging EXCEPT ![s] = 0], index' = [index EXCEPT ![s] = "none"],
           UNCHANGED <<refs, journal, base>>, StageInv'
    PROVE  RInv' /\ Stutter
  <1>0. GitType
    BY Disassemble
  <1>1. /\ merging'[s] = 0 /\ index'[s] = "none"
        /\ \A t \in Sides : t # s => merging'[t] = merging[t] /\ index'[t] = index[t] /\ head'[t] = head[t]
    BY <1>0 DEF GitType
  <1>2. /\ refs[s]["pre"] # NoCommit /\ (Active(journal) \/ journal.kind = "malformed")
        /\ Active(journal) => journal.side[s].plan = "merge"
    BY DEF RInv, RepoInv, MergeInv
  <1>3. MergeInv' /\ IndexInv' /\ SidesInv'
    BY <1>1 DEF RInv, RepoInv, MergeInv, IndexInv, SidesInv, Unmerged
  <1>4. FastInv'
    BY <1>1, <1>2 DEF RInv, RepoInv, FastInv
  <1>5. LostInv'
    BY DEF RInv, RepoInv, LostInv, Incomplete, Partial, Complete
  <1>6. Open(s)
    BY DEF RInv, RepoInv, MergeInv, Open, Terminal, Active
  <1>7. Stutter
    BY <1>1, <1>6, HiddenMove
  <1> QED
    BY <1>3, <1>4, <1>5, <1>7 DEF RInv, RepoInv

LEMMA CallContinuesMergeRefines ==
    ASSUME IInv, RInv, NEW s \in Sides, CallContinuesMerge(s)
    PROVE  RInv' /\ Stutter
  <1>1. UNCHANGED <<refs, journal, base>>
    BY DEF CallContinuesMerge, fileVars
  <1>2. call'.step = "carry"
    BY DEF CallContinuesMerge, NoCall
  <1>3. StageInv'
    BY <1>2, StageQuiet DEF Admitting
  <1>4. CASE UNCHANGED <<head, merging, index>>
    BY <1>1, <1>3, <1>4, StillKeeps
  <1>5. CASE /\ index[s] = "staged"
             /\ head' = [head EXCEPT ![s] = MergeCommit(@, merging[s])]
             /\ merging' = [merging EXCEPT ![s] = 0]
             /\ index' = [index EXCEPT ![s] = "none"]
    <2>1. merging[s] # 0
      BY <1>5 DEF RInv, RepoInv, IndexInv, Unmerged
    <2> QED
      BY <1>1, <1>3, <1>5, <2>1, MergeEnds
  <1> QED
    BY <1>4, <1>5 DEF CallContinuesMerge

LEMMA NoRefsAtAll ==
    ASSUME GitType, ~RefsExist
    PROVE  \A s \in Sides, name \in RefNames : refs[s][name] = NoCommit
  BY EmptyRefs DEF RefsExist

\* A journal that is not open and has no refs is given up, or damaged.
LEMMA NothingOpen ==
    ASSUME IInv, RInv, ~RefsExist, NEW k \in {"malformed", "quarantine"},
           journal' = [NoRecord EXCEPT !.kind = k],
           UNCHANGED <<head, merging, index, refs, base>>, call' = NoCall
    PROVE  RInv' /\ Stutter
  <1>1. \A s \in Sides, name \in RefNames : refs[s][name] = NoCommit
    BY Disassemble, NoRefsAtAll
  <1>2. journal'.kind = k /\ ~Active(journal')
    BY LostRecord
  <1>3. MergeInv' /\ IndexInv' /\ SidesInv' /\ FastInv'
    BY <1>1, <1>2 DEF RInv, RepoInv, MergeInv, IndexInv, SidesInv, FastInv, RefNames
  <1>4. ~Incomplete'
    BY DEF Incomplete, Partial, Complete, RefsExist, Sides, NoRefs, RefNames
  <1>5. LostInv'
    BY <1>1, <1>4 DEF LostInv, RefNames
  <1>6. Stutter
    BY <1>1, SeamlessMove DEF Open, RefNames
  <1>7. StageInv'
    BY StageIdle
  <1> QED
    BY <1>3, <1>5, <1>6, <1>7 DEF RInv, RepoInv

LEMMA CallQuarantinesRefines ==
    ASSUME IInv, RInv, CallQuarantines
    PROVE  RInv' /\ Stutter
  BY NothingOpen DEF CallQuarantines, gitVars

LEMMA DamageJournalRefines ==
    ASSUME IInv, RInv, DamageJournal, damaged' # "residue"
    PROVE  RInv' /\ Stutter
  <1>1. /\ journal' = [NoRecord EXCEPT !.kind = "malformed"] /\ call' = NoCall
        /\ UNCHANGED <<head, merging, index, refs, base>>
    BY DEF DamageJournal, gitVars
  <1>2. CASE ~RefsExist
    BY <1>1, <1>2, NothingOpen
  <1>3. CASE Active(journal)
    <2>1. journal'.kind = "malformed" /\ ~Active(journal') /\ ~Terminal(journal')
      BY <1>1, LostRecord
    <2>2. MergeInv' /\ IndexInv' /\ SidesInv' /\ FastInv'
      BY <1>1, <2>1 DEF RInv, RepoInv, MergeInv, IndexInv, SidesInv, FastInv
    <2>3. \A s \in Sides : Complete(s) \/ (\A name \in RefNames : refs[s][name] = NoCommit)
      BY <1>3, OpenSide DEF RInv, RepoInv, SidesInv, Complete
    <2>4. Complete("code")
      BY <1>3, Disassemble, OpenSide DEF StateInv, JournalInv, Complete, Sides
    <2>5. refs["code"] # NoRefs /\ \A s \in Sides : ~Partial(s)
      BY <2>3, <2>4, Disassemble, EmptyRefs DEF Partial, Complete, Sides, RefNames
    <2>6. ~Incomplete'
      BY <1>1, <2>5 DEF Incomplete, Partial, Complete, Sides
    <2>7. LostInv'
      BY <2>1, <2>6 DEF LostInv
    <2>8. Stutter
      BY <1>1, <1>3, <2>1, HiddenMove DEF Terminal, Active
    <2>9. StageInv'
      BY <1>1, StageIdle
    <2> QED
      BY <2>2, <2>7, <2>8, <2>9 DEF RInv, RepoInv
  <1> QED
    BY <1>2, <1>3 DEF DamageJournal, Active, Terminal

LEMMA CallRecoversRefines ==
    ASSUME IInv, RInv, CallRecovers
    PROVE  RInv' /\ Stutter
  <1>0. GitType /\ FileType /\ RefInv /\ UNCHANGED <<head, merging, index, refs, base>>
    BY Disassemble DEF StateInv, CallRecovers, gitVars
  <1>1. /\ journal' = RecoveredRecord /\ ~Incomplete
        /\ journal.kind \in {"none", "malformed"} /\ ~Active(journal)
    BY LostIsNotOpen DEF CallRecovers
  <1>2. /\ journal'.kind = "record" /\ journal'.phase = "cancelling"
        /\ \A s \in Sides : journal'.side[s] = RecoveredSide(s)
    BY <1>0, <1>1, RecoveredRecordFacts
  <1>3. \A s \in Sides : /\ journal'.side[s].part <=> Complete(s)
                         /\ Complete(s) => journal'.side[s].plan = "merge"
    BY <1>0, <1>2, RecoveredFacts
  <1>4. \A s \in Sides : Complete(s) \/ \A name \in RefNames : refs[s][name] = NoCommit
    BY <1>0, <1>1, EmptyRefs DEF Incomplete, Partial, Sides
  <1>5. Active(journal') /\ ~Terminal(journal') /\ ~Terminal(journal)
    BY <1>1, <1>2 DEF Active, Terminal, Phases
  <1>6. MergeInv' /\ IndexInv'
    BY <1>0, <1>3, <1>4, <1>5 DEF RInv, RepoInv, MergeInv, IndexInv, RefNames
  <1>7. SidesInv' /\ FastInv' /\ LostInv'
    BY <1>0, <1>2, <1>3, <1>4 DEF SidesInv, FastInv, LostInv
  <1>8. StageInv'
    <2>1. call'.step = "rollback" /\ (call'.side = "code" => ~Complete("memory"))
      BY DEF CallRecovers, NoCall
    <2> QED
      BY <1>3, <2>1, CancelBegins DEF Sides
  <1>9. Stutter
    BY <1>0, <1>5, HiddenMove
  <1> QED
    BY <1>6, <1>7, <1>8, <1>9 DEF RInv, RepoInv

LEMMA CallRecoversPartlyRefines ==
    ASSUME IInv, RInv, NEW s \in Sides, CallRecoversPartly(s)
    PROVE  RInv' /\ Stutter
  <1>0. GitType /\ UNCHANGED <<refs, journal, base>>
    BY Disassemble DEF CallRecoversPartly, fileVars
  <1>1. journal.kind = "none" /\ ~Active(journal) /\ ~Terminal(journal)
    BY LostIsNotOpen DEF CallRecoversPartly, RInv, RepoInv, LostInv, Active, Terminal
  <1>2. \A t \in Sides : merging[t] = 0 /\ ~Unmerged(index[t])
    BY <1>1, NoMergeLeft
  <1>3. /\ head'[s] = refs[s]["pre"] /\ refs[s]["pre"] # NoCommit
        /\ \A t \in Sides : /\ t # s => head'[t] = head[t]
                            /\ merging'[t] = 0 /\ ~Unmerged(index'[t])
    BY <1>0, <1>2 DEF CallRecoversPartly, GitType, Complete, RefNames, Unmerged
  <1>4. MergeInv' /\ IndexInv' /\ SidesInv' /\ FastInv'
    BY <1>0, <1>1, <1>3 DEF MergeInv, IndexInv, SidesInv, FastInv, Active
  <1>5. LostInv'
    BY <1>0, <1>1 DEF RInv, RepoInv, LostInv
  <1>6. call'.step = "partial" /\ call'.side = s
    BY DEF CallRecoversPartly, NoCall
  <1>7. StageInv'
    BY <1>0, <1>1, <1>3, <1>6 DEF StageInv, CancelInv, PartialInv, StartInv, Admitting, Active
  <1>8. Stutter
    BY <1>0, <1>1, <1>3, HiddenMove DEF Open
  <1> QED
    BY <1>4, <1>5, <1>7, <1>8 DEF RInv, RepoInv

LEMMA DeletePartialRefines ==
    ASSUME IInv, RInv, DeletePartial
    PROVE  RInv' /\ Stutter
  <1>0. GitType /\ RefInv /\ FileType
    BY Disassemble DEF StateInv
  <1>1. PICK s : s = call.side
    OBVIOUS
  <1>2. s \in Sides /\ call.step = "partial" /\ journal.kind = "none"
    BY <1>1, Disassemble DEF DeletePartial, RInv, StageInv, PartialInv
  <1>3. UNCHANGED <<head, merging, index, journal, base>>
    BY DEF DeletePartial, fileVars
  <1>4. CASE call' = NoCall /\ refs' = refs
    BY <1>3, <1>4, StageIdle, StillKeeps
  <1>5. ASSUME NEW name \in RefNames, DeleteRef(s, name), call' = call, refs[s][name] # NoCommit,
               name # "source" => refs[s]["source"] = NoCommit,
               name = "base" => refs[s]["pre"] = NoCommit
        PROVE  RInv' /\ Stutter
    <2>1. /\ refs'[s][name] = NoCommit
          /\ \A t \in Sides, n \in RefNames : t # s \/ n # name => refs'[t][n] = refs[t][n]
      BY <1>0, <1>2, <1>5 DEF DeleteRef, GitType
    <2>2. ~Active(journal) /\ ~Terminal(journal)
      BY <1>2 DEF Active, Terminal
    <2>3. \A t \in Sides : merging[t] = 0 /\ ~Unmerged(index[t])
      BY <1>2, <2>2, NoMergeLeft
    <2>4. MergeInv' /\ IndexInv' /\ SidesInv' /\ FastInv'
      BY <1>3, <2>2, <2>3 DEF MergeInv, IndexInv, SidesInv, FastInv
    <2>5. LostInv'
      BY <1>2, <1>3, <1>5, <2>1 DEF RInv, RepoInv, LostInv, RefNames
    <2>6. StageInv'
      BY <1>1, <1>2, <1>3, <1>5, <2>1, <2>2
      DEF RInv, StageInv, CancelInv, PartialInv, StartInv, Admitting, RefNames
    <2>7. \A t \in Sides : t # s => refs'[t]["pre"] = refs[t]["pre"] /\ refs'[t]["base"] = refs[t]["base"]
      BY <2>1 DEF RefNames
    <2>8. refs[s]["pre"] # NoCommit => refs[s]["pre"] = head[s] /\ refs[s]["base"].at = base[s]
      <3>1. base[s] \in Nat
        BY <1>0, <1>2 DEF FileType
      <3>2. SourceCommit(base[s]).at = base[s]
        BY <3>1, CommitFacts
      <3> QED
        BY <1>1, <1>2, <3>2 DEF RInv, RepoInv, StageInv, LostInv, PartialInv
    <2>9. Stutter
      <3>1. CASE name = "source"
        <4>1. refs'[s]["pre"] = refs[s]["pre"] /\ refs'[s]["base"] = refs[s]["base"]
          BY <1>2, <2>1, <3>1 DEF RefNames
        <4> QED
          BY <1>3, <2>7, <4>1, SeamlessMove DEF Open
      <3>2. CASE name = "pre"
        BY <1>3, <2>1, <2>7, <2>8, <3>2, SeamlessMove DEF Open
      <3>3. CASE name = "base"
        <4>1. refs'[s]["pre"] = NoCommit /\ refs[s]["pre"] = NoCommit
          BY <1>2, <1>5, <2>1, <3>3 DEF RefNames
        <4> QED
          BY <1>3, <2>7, <4>1, SeamlessMove DEF Open
      <3> QED
        BY <3>1, <3>2, <3>3 DEF RefNames
    <2> QED
      BY <2>4, <2>5, <2>6, <2>9 DEF RInv, RepoInv
  <1>6. \/ call' = NoCall /\ refs' = refs
        \/ \E name \in RefNames :
              /\ DeleteRef(s, name) /\ call' = call /\ refs[s][name] # NoCommit
              /\ name # "source" => refs[s]["source"] = NoCommit
              /\ name = "base" => refs[s]["pre"] = NoCommit
    <2>1. PICK held : held = {name \in RefNames : refs[s][name] # NoCommit}
      OBVIOUS
    <2>2. PICK next : next = IF "source" \in held THEN "source" ELSE IF "pre" \in held THEN "pre" ELSE "base"
      OBVIOUS
    <2>3. CASE held # {} /\ DeleteRef(s, next) /\ call' = call
      <3>1. next \in held /\ next \in RefNames
        BY <2>1, <2>2, <2>3 DEF RefNames
      <3>2. /\ next # "source" => "source" \notin held
            /\ next = "base" => "pre" \notin held
        BY <2>2
      <3> QED
        BY <2>1, <2>3, <3>1, <3>2 DEF RefNames
    <2>4. \/ held # {} /\ DeleteRef(s, next) /\ call' = call
          \/ call' = NoCall /\ refs' = refs
      BY <1>1, <2>1, <2>2 DEF DeletePartial, Return
    <2> QED
      BY <2>3, <2>4
  <1> QED
    BY <1>4, <1>5, <1>6

-----------------------------------------------------------------------------
(* Admission, and the run of the two sides.                                *)

LEMMA ParkingRefines ==
    ASSUME IInv, RInv, ParkWip \/ ParkFails
    PROVE  RInv' /\ Stutter
  <1>1. UNCHANGED <<head, merging, index, refs, journal, base>>
    BY DEF ParkWip, ParkFails, fileVars
  <1>2. call \in Calls /\ call.step = "park" /\ journal.kind # "malformed"
    BY Disassemble DEF ParkWip, ParkFails, RInv, StageInv, StartInv, Admitting, CallType
  <1>3. CASE ParkFails
    BY <1>1, <1>3, StageIdle, StillKeeps DEF ParkFails, Return
  <1>4. CASE ParkWip
    <2>1. call'.step \in {"park", "pin"}
      BY <1>2, <1>4 DEF ParkWip, Calls
    <2>2. StageInv'
      BY <1>1, <1>2, <2>1, StageQuiet
    <2> QED
      BY <1>1, <2>2, StillKeeps
  <1> QED
    BY <1>3, <1>4

\* Pinning shows nothing: the base is pinned before the head, and both are what they were.
LEMMA PinRefRefines ==
    ASSUME IInv, RInv, PinRef
    PROVE  RInv' /\ Stutter
  <1>0. GitType /\ FileType /\ RefInv /\ call \in Calls
    BY Disassemble DEF StateInv, CallType
  <1>1. UNCHANGED <<head, merging, index, tree, stash, source, journal, base>>
    BY DEF PinRef, fileVars
  <1>2. call.step = "pin" /\ ~Active(journal) /\ journal.kind # "malformed"
    BY Disassemble DEF PinRef, RInv, StageInv, StartInv, Admitting, ProgressInv, AdmissionInv
  <1>3. CASE call' = NoCall /\ refs' = refs
    BY <1>1, <1>3, StageIdle, StillKeeps
  <1>4. CASE call' = [call EXCEPT !.step = "publish"] /\ refs' = refs
    <2>1. call'.step = "publish"
      BY <1>0, <1>4 DEF Calls
    <2>2. StageInv'
      BY <1>1, <1>2, <2>1, StageQuiet
    <2> QED
      BY <1>1, <1>4, <2>2, StillKeeps
  <1>5. ASSUME NEW s \in Sides, NEW name \in RefNames,
               refs[s][name] = NoCommit, call' = call,
               refs' = [refs EXCEPT ![s][name] = Pin(call.record.side[s], name)],
               name = "pre" => refs[s]["base"] = Pin(call.record.side[s], "base")
        PROVE  RInv' /\ Stutter
    <2>1. PICK d : d = call.record.side[s]
      OBVIOUS
    <2>2. d \in SideRecords /\ d.pre = head[s] /\ d.base = base[s]
      BY <1>2, <2>1, Disassemble DEF ProgressInv, AdmissionInv, Admitting
    <2>3. /\ Pin(d, name) \in Commits /\ Pin(d, name) # NoCommit
          /\ name \in {"base", "source"} => Pin(d, name) = SourceCommit(Pin(d, name).at)
          /\ Pin(d, "pre") = head[s] /\ Pin(d, "base") = SourceCommit(base[s])
          /\ Pin(d, "base") # NoCommit
      BY <2>2, PinFacts DEF RefNames
    <2>4. /\ refs'[s][name] = Pin(d, name)
          /\ \A t \in Sides, n \in RefNames : t # s \/ n # name => refs'[t][n] = refs[t][n]
      <3>1. PICK c : c = Pin(d, name)
        OBVIOUS
      <3>2. /\ c \in Commits \cup {NoCommit} /\ refs' = [refs EXCEPT ![s][name] = c]
            /\ name \in {"base", "source"} /\ c # NoCommit => c = SourceCommit(c.at)
            /\ UNCHANGED <<head, merging, index, tree, stash, source>>
        BY <1>1, <1>5, <2>1, <2>3, <3>1
      <3> QED
        BY <1>0, <3>1, <3>2 DEF GitType
    <2>5. \A t \in Sides : merging[t] = 0 /\ ~Unmerged(index[t])
      BY <1>2, NoMergeLeft
    <2>6. MergeInv' /\ IndexInv' /\ SidesInv' /\ FastInv'
      BY <1>1, <1>2, <2>5 DEF MergeInv, IndexInv, SidesInv, FastInv
    <2>7. LostInv'
      BY <1>1, <1>2, <1>5, <2>1, <2>3, <2>4 DEF RInv, RepoInv, LostInv, RefNames
    <2>8. StageInv'
      BY <1>1, <1>2, <1>5, StageQuiet
    <2>9. Stutter
      <3>0. \A t \in Sides : t # s => refs'[t]["pre"] = refs[t]["pre"] /\ refs'[t]["base"] = refs[t]["base"]
        BY <2>4 DEF RefNames
      <3>1. CASE Terminal(journal)
        BY <1>1, <3>1, SeamlessMove DEF Open
      <3>2. CASE name = "source"
        <4>1. refs'[s]["pre"] = refs[s]["pre"] /\ refs'[s]["base"] = refs[s]["base"]
          BY <2>4, <3>2 DEF RefNames
        <4> QED
          BY <1>1, <3>0, <4>1, SeamlessMove DEF Open
      <3>3. CASE name = "base" /\ ~Terminal(journal)
        <4>1. journal.kind \in {"none", "quarantine"}
          <5>1. journal \in Records /\ journal.kind \in {"none", "record", "quarantine", "malformed"}
            BY Disassemble, RecordFields
          <5> QED
            BY <1>2, <3>3, <5>1 DEF Active, Terminal
        <4>2. refs[s]["pre"] = NoCommit
          BY <1>5, <3>3, <4>1 DEF RInv, RepoInv, LostInv
        <4>3. refs'[s]["pre"] = NoCommit
          BY <2>4, <3>3, <4>2 DEF RefNames
        <4> QED
          BY <1>1, <3>0, <4>2, <4>3, SeamlessMove DEF Open
      <3>4. CASE name = "pre"
        <4>1. refs'[s]["pre"] = head[s] /\ refs'[s]["base"] = SourceCommit(base[s]) /\ refs[s]["pre"] = NoCommit
          BY <1>5, <2>1, <2>3, <2>4, <3>4 DEF RefNames
        <4>2. base[s] \in Nat
          BY <1>0 DEF FileType
        <4>3. refs'[s]["base"].at = base[s]
          BY <4>1, <4>2, CommitFacts
        <4> QED
          BY <1>1, <3>0, <4>1, <4>3, SeamlessMove DEF Open
      <3> QED
        BY <3>1, <3>2, <3>3, <3>4 DEF RefNames
    <2> QED
      BY <2>6, <2>7, <2>8, <2>9 DEF RInv, RepoInv
  <1> QED
    BY <1>3, <1>4, <1>5, PinRefFacts

\* The transaction opens as it was pinned.
LEMMA PublishRecordRefines ==
    ASSUME IInv, RInv, PublishRecord
    PROVE  RInv' /\ Stutter
  <1>0. FileType /\ UNCHANGED <<head, merging, index, refs, base>> /\ journal' = call.record
    BY Disassemble DEF PublishRecord, gitVars
  <1>1. call.step = "publish" /\ ~Active(journal) /\ journal.kind # "malformed"
    BY Disassemble DEF PublishRecord, RInv, StageInv, StartInv, Admitting, ProgressInv, AdmissionInv
  <1>2. /\ call.record.kind = "record" /\ call.record.phase = "running-code"
        /\ \A s \in Sides : LET d == call.record.side[s] IN
              d \in SideRecords /\ d.part /\ d.pre = head[s] /\ d.base = base[s]
    BY <1>1, Disassemble DEF ProgressInv, AdmissionInv, Admitting
  <1>3. \A s \in Sides : refs[s]["pre"] = head[s] /\ refs[s]["base"].at = base[s]
    <2> TAKE s \in Sides
    <2>1. PICK d : d = call.record.side[s]
      OBVIOUS
    <2>2. d \in SideRecords /\ d.part /\ d.pre = head[s] /\ d.base = base[s] /\ base[s] \in Nat
      BY <1>0, <1>2, <2>1 DEF FileType
    <2>3. refs[s]["pre"] = Pin(d, "pre") /\ refs[s]["base"] = Pin(d, "base")
      BY <1>1, <2>1, <2>2, Disassemble DEF ProgressInv, CallInv, Pinned, RefNames
    <2>4. Pin(d, "pre") = d.pre /\ Pin(d, "base") = SourceCommit(d.base)
      BY <2>2, PinFacts DEF RefNames
    <2>5. SourceCommit(base[s]).at = base[s]
      BY <2>2, CommitFacts
    <2> QED
      BY <2>2, <2>3, <2>4, <2>5
  <1>4. \A s \in Sides : merging[s] = 0 /\ ~Unmerged(index[s])
    BY <1>1, NoMergeLeft
  <1>5. MergeInv' /\ IndexInv' /\ SidesInv'
    BY <1>0, <1>2, <1>4 DEF MergeInv, IndexInv, SidesInv
  <1>6. FastInv' /\ LostInv'
    BY <1>0, <1>2 DEF FastInv, LostInv
  <1>7. call'.step = "run"
    BY DEF PublishRecord, NoCall
  <1>8. StageInv'
    BY <1>7, StageQuiet DEF Admitting
  <1>9. Stutter
    BY <1>0, <1>3, SeamlessMove
  <1> QED
    BY <1>5, <1>6, <1>8, <1>9 DEF RInv, RepoInv

LEMMA AdvanceRefines ==
    ASSUME IInv, RInv, NEW s \in Sides, Active(journal), journal.phase # "cancelling",
           Advance(journal, s), UNCHANGED <<head, merging, index, refs, base>>, call'.step = "run"
    PROVE  RInv' /\ Stutter
  <1>1. NextPhase(s) \in Phases /\ NextPhase(s) \in AllPhases
    BY PhaseNames DEF AllPhases
  <1>2. Rewrites(journal', journal, s, NextPhase(s), journal.side[s].wip)
    BY <1>1, Disassemble, AdvanceRewrites DEF Advance
  <1>3. StageInv'
    BY StageQuiet DEF Admitting
  <1> QED
    BY <1>1, <1>2, <1>3, RewriteKeeps

LEMMA RunUnmovedRefines ==
    ASSUME IInv, RInv, NEW s \in Sides, RunUnmoved(s)
    PROVE  RInv' /\ Stutter
  <1>1. call.step = "run" /\ call' = call /\ Advance(journal, s) /\ UNCHANGED <<head, merging, index, refs, base>>
    BY DEF RunUnmoved, RunningSide, gitVars
  <1> QED
    BY <1>1, RunningFacts, AdvanceRefines

LEMMA CarryUnparkedRefines ==
    ASSUME IInv, RInv, CarryUnparked
    PROVE  RInv' /\ Stutter
  <1>1. /\ call.step = "carry" /\ Advance(journal, call.side)
        /\ UNCHANGED <<head, merging, index, refs, base>> /\ call' = [call EXCEPT !.step = "run"]
    BY DEF CarryUnparked, Goto, gitVars
  <1>2. call \in Calls /\ call.side \in Sides /\ Active(journal) /\ journal.phase # "cancelling"
    BY <1>1, Disassemble DEF CallType, ProgressInv, CallInv, Carrying
  <1>3. call'.step = "run"
    BY <1>1, <1>2 DEF Calls
  <1> QED
    BY <1>1, <1>2, <1>3, AdvanceRefines

LEMMA AdoptMergedRefines ==
    ASSUME IInv, RInv, NEW s \in Sides, AdoptMerged(s)
    PROVE  RInv' /\ Stutter
  <1>1. UNCHANGED <<head, merging, index, refs, journal, base>>
    BY DEF AdoptMerged, gitVars, fileVars
  <1>2. call'.step = "carry"
    BY Disassemble DEF AdoptMerged, CallType, Calls
  <1>3. StageInv'
    BY <1>2, StageQuiet DEF Admitting
  <1> QED
    BY <1>1, <1>3, StillKeeps

\* The open transaction moves one side, or starts a merge on it.
LEMMA StartMergeRefines ==
    ASSUME IInv, RInv, NEW s \in Sides, StartMerge(s)
    PROVE  RInv' /\ Stutter
  <1>0. GitType /\ Active(journal) /\ journal.phase # "cancelling" /\ call.step = "run"
    BY RunningFacts DEF StartMerge, RunningSide
  <1>1. PICK d : d = journal.side[s]
    OBVIOUS
  <1>2. d \in SideRecords /\ d.part /\ merging[s] = 0 /\ head[s] = d.pre /\ index[s] = "none"
    BY <1>1, Disassemble DEF StartMerge, Moving, Dirty
  <1>3. Open(s) /\ refs[s]["pre"] = d.pre /\ refs[s]["pre"] # NoCommit
    BY <1>0, <1>1, <1>2, OpenSide DEF RefNames
  <1>4. UNCHANGED <<refs, journal, base, call>>
    BY DEF StartMerge, fileVars
  <1>5. StageInv'
    BY <1>0, <1>4, StageQuiet DEF Admitting
  <1>6. LostInv' /\ SidesInv'
    BY <1>0, <1>4 DEF RInv, RepoInv, LostInv, SidesInv, Active
  <1>7. ASSUME NEW c, head' = [head EXCEPT ![s] = c], UNCHANGED <<merging, index>>,
               d.plan = "fast-forward" => c = SourceCommit(d.source)
        PROVE  RInv' /\ Stutter
    <2>1. head'[s] = c /\ \A t \in Sides : t # s => head'[t] = head[t]
      BY <1>0, <1>7 DEF GitType
    <2>2. MergeInv' /\ IndexInv'
      BY <1>2, <1>4, <1>7, <2>1 DEF RInv, RepoInv, MergeInv, IndexInv
    <2>3. FastInv'
      BY <1>1, <1>4, <1>7, <2>1 DEF RInv, RepoInv, FastInv
    <2>4. Stutter
      BY <1>3, <1>4, <2>1, HiddenMove
    <2> QED
      BY <1>5, <1>6, <2>2, <2>3, <2>4 DEF RInv, RepoInv
  <1>8. ASSUME NEW i, Unmerged(i), d.plan = "merge", index' = [index EXCEPT ![s] = i],
               merging' = [merging EXCEPT ![s] = d.source], head' = head
        PROVE  RInv' /\ Stutter
    <2>1. /\ merging'[s] = d.source /\ index'[s] = i
          /\ \A t \in Sides : t # s => merging'[t] = merging[t] /\ index'[t] = index[t]
      BY <1>0, <1>8 DEF GitType
    <2>2. d.source # 0
      <3>1. Planned(s, d)
        BY <1>0, <1>1, Disassemble DEF StateInv, JournalInv
      <3>2. d.pre \in Commits /\ d.source \in Nat /\ ~(d.source <= d.pre.at)
        BY <1>2, <1>8, <3>1, SideFields DEF Planned, Contains
      <3>3. d.pre.at \in Nat
        BY <3>2, CommitFacts
      <3> QED
        BY <3>2, <3>3
    <2>3. MergeInv' /\ IndexInv'
      BY <1>0, <1>1, <1>2, <1>3, <1>4, <1>8, <2>1, <2>2 DEF RInv, RepoInv, MergeInv, IndexInv
    <2>4. FastInv' /\ Stutter
      BY <1>4, <1>8, HiddenMove DEF RInv, RepoInv, FastInv
    <2> QED
      BY <1>5, <1>6, <2>3, <2>4 DEF RInv, RepoInv
  <1>9. CASE /\ d.plan = "fast-forward"
             /\ head' = [head EXCEPT ![s] = SourceCommit(d.source)]
             /\ UNCHANGED <<merging, index>>
    BY <1>7, <1>9
  <1>10. CASE /\ d.plan = "merge"
              /\ head' = [head EXCEPT ![s] = MergeCommit(@, d.source)]
              /\ UNCHANGED <<merging, index>>
    BY <1>7, <1>10
  <1>11. CASE /\ d.plan = "merge"
              /\ merging' = [merging EXCEPT ![s] = d.source]
              /\ \E i : Unmerged(i) /\ index' = [index EXCEPT ![s] = i]
              /\ head' = head
    BY <1>8, <1>11
  <1> QED
    <2>1. \A i \in {"conflict"} \cup (IF s = "memory" THEN {"staged"} ELSE {}) : Unmerged(i)
      BY DEF Unmerged
    <2> QED
      BY <1>1, <1>9, <1>10, <1>11, <2>1 DEF StartMerge

LEMMA FinishMemoryMergeRefines ==
    ASSUME IInv, RInv, FinishMemoryMerge
    PROVE  RInv' /\ Stutter
  <1>1. call.step = "run" /\ UNCHANGED <<refs, journal, base, call>>
    BY DEF FinishMemoryMerge, RunningSide, fileVars
  <1>2. StageInv'
    BY <1>1, StageQuiet DEF Admitting
  <1> QED
    BY <1>1, <1>2, MergeEnds DEF FinishMemoryMerge, Sides

LEMMA RetainMergeRefines ==
    ASSUME IInv, RInv, NEW s \in Sides, RetainMerge(s)
    PROVE  RInv' /\ Stutter
  <1>1. Active(journal) /\ journal.phase # "cancelling" /\ journal \in Records
    BY RunningFacts DEF RetainMerge, RunningSide
  <1>2. Resolution[s] \in Phases /\ Resolution[s] \in AllPhases
    BY PhaseNames DEF AllPhases
  <1>3. Rewrites(journal', journal, s, Resolution[s], journal.side[s].wip)
    BY <1>1, <1>2, RetainedRewrites DEF RetainMerge
  <1>4. StageInv' /\ UNCHANGED <<head, merging, index, refs, base>>
    BY StageIdle DEF RetainMerge, Return, gitVars
  <1> QED
    BY <1>1, <1>2, <1>3, <1>4, RewriteKeeps

LEMMA RefusalsRefine ==
    ASSUME IInv, RInv,
           (\E s \in Sides : RunRefused(s)) \/ FinalizeRefused \/ RollbackRefused \/ Crash
    PROVE  RInv' /\ Stutter
  <1>1. call' = NoCall /\ UNCHANGED <<head, merging, index, refs, journal, base>>
    BY DEF RunRefused, FinalizeRefused, RollbackRefused, Crash, Return, gitVars, fileVars
  <1> QED
    BY <1>1, StageIdle, StillKeeps

-----------------------------------------------------------------------------
(* The return of the parked work, and the end of a transaction.            *)

LEMMA ReapplyWipRefines ==
    ASSUME IInv, RInv, ReapplyWip
    PROVE  RInv' /\ Stutter
  <1>0. /\ GitType /\ call \in Calls /\ call.side \in Sides /\ Active(journal)
        /\ journal.phase # "cancelling" /\ UNCHANGED <<head, merging, refs, journal, base>>
    BY Disassemble DEF ReapplyWip, CallType, ProgressInv, CallInv, Carrying, fileVars
  <1>1. call' = NoCall \/ call'.step \in {"applied", "conflicted"}
    BY <1>0 DEF ReapplyWip, Return, Calls
  <1>2. StageInv'
    <2>1. CASE call' = NoCall
      BY <2>1, StageIdle
    <2>2. CASE call'.step \in {"applied", "conflicted"}
      BY <1>0, <2>2, StageQuiet DEF Admitting
    <2> QED
      BY <1>1, <2>1, <2>2
  <1>3. index' = index \/ (index[call.side] = "none" /\ index' = [index EXCEPT ![call.side] = "reapply"])
    BY DEF ReapplyWip, Dirty
  <1>4. \A s \in Sides : Unmerged(index'[s]) <=> Unmerged(index[s])
    BY <1>0, <1>3 DEF GitType, Unmerged
  <1> QED
    BY <1>0, <1>2, <1>4, CalmKeeps

LEMMA DropStashRefines ==
    ASSUME IInv, RInv, DropStash
    PROVE  RInv' /\ Stutter
  <1>1. UNCHANGED <<head, merging, index, refs, journal, base>> /\ call.step = "applied"
    BY DEF DropStash, fileVars
  <1>2. call'.step = "dropped"
    BY Disassemble DEF DropStash, Goto, CallType, Calls
  <1>3. StageInv'
    BY <1>1, <1>2 DEF RInv, StageInv, CancelInv, PartialInv, StartInv, Passed, Admitting
  <1> QED
    BY <1>1, <1>3, StillKeeps

LEMMA RetainReapplyRefines ==
    ASSUME IInv, RInv, RetainReapply
    PROVE  RInv' /\ Stutter
  <1>0. PICK s : s = call.side
    OBVIOUS
  <1>1. /\ s \in Sides /\ call.record \in Records /\ call.step \in Holding
        /\ Active(journal) /\ journal.phase # "cancelling"
    BY <1>0, Disassemble DEF RetainReapply, Holding, Carrying, ProgressInv, CallInv
  <1>2. Resolution[s] \in Phases /\ Resolution[s] \in AllPhases
    BY <1>1, PhaseNames DEF AllPhases
  <1>3. Rewrites(journal', call.record, s, Resolution[s], "restore-conflict")
    BY <1>0, <1>1, <1>2, ReapplyRewrites DEF RetainReapply
  <1>4. Rewrites(journal', journal, s, Resolution[s], "restore-conflict")
    BY <1>0, <1>1, <1>3, HeldRewrites
  <1>5. StageInv' /\ UNCHANGED <<head, merging, index, refs, base>>
    BY StageIdle DEF RetainReapply, Return, gitVars
  <1> QED
    BY <1>1, <1>2, <1>4, <1>5, RewriteKeeps

LEMMA AdvanceRestoredRefines ==
    ASSUME IInv, RInv, AdvanceRestored
    PROVE  RInv' /\ Stutter
  <1>0. PICK s : s = call.side
    OBVIOUS
  <1>1. /\ s \in Sides /\ call.record \in Records /\ call.step \in Holding
        /\ Active(journal) /\ journal.phase # "cancelling"
    BY <1>0, Disassemble DEF AdvanceRestored, Holding, Carrying, ProgressInv, CallInv
  <1>2. NextPhase(s) \in Phases /\ NextPhase(s) \in AllPhases
    BY <1>1, PhaseNames DEF AllPhases
  <1>3. Rewrites(journal', call.record, s, NextPhase(s), call.record.side[s].wip)
    BY <1>0, <1>1, <1>2, AdvancedRewrites DEF AdvanceRestored
  <1>4. Rewrites(journal', journal, s, NextPhase(s), call.record.side[s].wip)
    BY <1>0, <1>1, <1>3, HeldRewrites
  <1>5. call'.step = "run" /\ UNCHANGED <<head, merging, index, refs, base>>
    BY DEF AdvanceRestored, NoCall, gitVars
  <1>6. StageInv'
    BY <1>5, StageQuiet DEF Admitting
  <1> QED
    BY <1>1, <1>2, <1>4, <1>5, <1>6, RewriteKeeps

LEMMA RecordRestoredRefines ==
    ASSUME IInv, RInv, RecordRestored
    PROVE  RInv' /\ Stutter
  <1>0. PICK s : s = call.side
    OBVIOUS
  <1>1. /\ s \in Sides /\ call \in Calls /\ call.record \in Records /\ call.step \in Holding
        /\ call.step = "dropped" /\ Active(journal) /\ call.record.phase = journal.phase
    BY <1>0, Disassemble DEF RecordRestored, Holding, Carrying, ProgressInv, CallInv, CallType
  <1>2. Rewrites(journal', call.record, s, call.record.phase, "restored")
    BY <1>0, <1>1, RestoredRewrites DEF RecordRestored
  <1>3. Rewrites(journal', journal, s, journal.phase, "restored")
    BY <1>0, <1>1, <1>2, HeldRewrites
  <1>4. UNCHANGED <<head, merging, index, refs, base>>
    BY DEF RecordRestored, gitVars
  <1>5. call'.step \in {"restore", "advance"}
    BY <1>1 DEF RecordRestored, Calls
  <1>6. journal'.phase = journal.phase /\ \A t \in Sides :
           journal'.side[t].part = journal.side[t].part /\ journal'.side[t].pre = journal.side[t].pre
    BY <1>3 DEF Rewrites, SameSide
  <1>7. StageInv'
    BY <1>1, <1>4, <1>5, <1>6 DEF RInv, StageInv, CancelInv, PartialInv, StartInv, Passed, Admitting
  <1>8. journal.phase \in Phases
    BY <1>1 DEF Active
  <1> QED
    BY <1>1, <1>3, <1>4, <1>7, <1>8, RewriteKeeps

\* The contract is written under an open transaction of both sides.
LEMMA WriteContractRefines ==
    ASSUME IInv, RInv, WriteContract
    PROVE  RInv' /\ Stutter
  <1>1. UNCHANGED <<head, merging, index, refs, journal, call>> /\ call.step = "run"
    BY DEF WriteContract, gitVars
  <1>2. Active(journal) /\ \A s \in Sides : journal.side[s].part
    BY FinalizableFacts DEF WriteContract
  <1>3. \A s \in Sides : Open(s)
    BY <1>2, OpenSide
  <1>4. StageInv'
    BY <1>1, StageQuiet DEF Admitting
  <1>5. \A s \in Sides : Unmerged(index'[s]) <=> Unmerged(index[s])
    BY <1>1
  <1> QED
    BY <1>1, <1>2, <1>3, <1>4, <1>5, CalmKeeps

\* The terminal record leaves no merge behind.
LEMMA TerminalKeeps ==
    ASSUME IInv, RInv, NEW ph \in {"completed", "cancelled"}, Active(journal),
           journal' = [journal EXCEPT !.phase = ph],
           call' = [call EXCEPT !.step = "retire"], \A s \in Sides : merging[s] = 0,
           UNCHANGED <<head, merging, index, refs, base>>
    PROVE  RInv' /\ Terminal(journal')
  <1>1. journal'.kind = "record" /\ journal'.phase = ph /\ ~Active(journal') /\ Terminal(journal')
    <2>1. journal \in Records
      BY Disassemble
    <2>2. journal'.kind = journal.kind /\ journal'.phase = ph
      BY <2>1 DEF Records
    <2> QED
      BY <2>2 DEF Active, Terminal, Phases
  <1>2. MergeInv' /\ SidesInv' /\ FastInv' /\ LostInv'
    BY <1>1 DEF MergeInv, SidesInv, FastInv, LostInv
  <1>3. IndexInv'
    BY DEF RInv, RepoInv, IndexInv
  <1>4. call'.step = "retire"
    BY Disassemble DEF CallType, Calls
  <1>5. StageInv'
    BY <1>4, StageQuiet DEF Admitting
  <1> QED
    BY <1>1, <1>2, <1>3, <1>5 DEF RInv, RepoInv

LEMMA DeleteAuthorityRefines ==
    ASSUME IInv, RInv, DeleteAuthority
    PROVE  RInv' /\ Stutter
  <1>0. UNCHANGED <<head, merging, index, journal, base>> /\ call.step \in {"retire", "residue"}
    BY DEF DeleteAuthority, fileVars
  <1>1. Terminal(journal) /\ ~Active(journal) /\ journal.kind = "record"
    BY <1>0, Disassemble DEF ProgressInv, CallInv, Terminal, Active
  <1>2. \A s \in Sides : merging[s] = 0 /\ ~Unmerged(index[s])
    BY <1>1, NoMergeLeft
  <1>3. MergeInv' /\ IndexInv' /\ SidesInv' /\ FastInv' /\ LostInv'
    BY <1>0, <1>1, <1>2 DEF MergeInv, IndexInv, SidesInv, FastInv, LostInv
  <1>4. Stutter
    BY <1>0, <1>1, SeamlessMove DEF Open
  <1>5. StageInv'
    <2>1. CASE call' = call
      BY <1>0, <2>1, StageQuiet DEF Admitting
    <2>2. CASE call' = NoCall
      BY <2>2, StageIdle
    <2>3. CASE Admit(call.choice)
      <3>1. call'.step = "park"
        BY <2>3 DEF Admit, NoCall
      <3> QED
        BY <1>0, <1>1, <3>1, StageQuiet
    <2> QED
      BY <2>1, <2>2, <2>3, DeleteAuthorityFacts
  <1> QED
    BY <1>3, <1>4, <1>5 DEF RInv, RepoInv

-----------------------------------------------------------------------------
(* The cancellation.                                                       *)

LEMMA DiscardReapplyRefines ==
    ASSUME IInv, RInv, DiscardReapply
    PROVE  RInv' /\ Stutter
  <1>0. PICK s : s = call.side
    OBVIOUS
  <1>1. s \in Sides /\ GitType /\ merging[s] = 0 /\ index' = [index EXCEPT ![s] = "none"]
    BY <1>0, Disassemble DEF DiscardReapply
  <1>2. UNCHANGED <<head, merging, refs, journal, base, call>>
    BY DEF DiscardReapply, fileVars
  <1>3. \A t \in Sides : Unmerged(index'[t]) <=> Unmerged(index[t])
    BY <1>1 DEF RInv, RepoInv, IndexInv, Unmerged, GitType
  <1>4. StageInv'
    BY <1>2 DEF RInv, StageInv, CancelInv, PartialInv, StartInv, Passed
  <1> QED
    BY <1>2, <1>3, <1>4, CalmKeeps

\* A rolled back side is open, and is again what its refs say.
LEMMA RollbackSideRefines ==
    ASSUME IInv, RInv, RollbackSide
    PROVE  RInv' /\ Stutter
  <1>0. PICK s : s = call.side
    OBVIOUS
  <1>1. /\ s \in Sides /\ GitType /\ call \in Calls /\ call.step = "rollback"
        /\ Active(journal) /\ journal.phase = "cancelling"
    BY <1>0, CancellingFacts DEF RollbackSide, Cancelling
  <1>2. UNCHANGED <<refs, journal, base>>
    BY DEF RollbackSide, fileVars
  <1>3. CanCancel(s)
    BY <1>0 DEF RollbackSide
  <1>4. \A t \in Sides : t # s => head'[t] = head[t] /\ merging'[t] = merging[t] /\ index'[t] = index[t]
    BY <1>0, <1>1 DEF RollbackSide, GitType
  <1>6. /\ journal.side[s].part => head'[s] = journal.side[s].pre /\ merging'[s] = 0
        /\ \/ merging'[s] = 0 /\ ~Unmerged(index'[s])
           \/ merging'[s] = merging[s] /\ index'[s] = index[s] /\ head'[s] = head[s]
        /\ head'[s] = head[s] \/ Open(s)
    <2>1. CASE Moving(journal.side[s])
      <3>1. head'[s] = journal.side[s].pre /\ merging'[s] = 0 /\ index'[s] = "none"
        BY <1>0, <1>1, <2>1 DEF RollbackSide, GitType
      <3>2. Open(s)
        BY <1>1, <2>1, OpenSide DEF Moving
      <3> QED
        BY <3>1, <3>2 DEF Unmerged
    <2>2. CASE ~Moving(journal.side[s])
      <3>1. UNCHANGED <<head, merging, index>>
        BY <1>0, <2>2 DEF RollbackSide
      <3>2. head[s] = journal.side[s].pre
        BY <1>3, <2>2 DEF CanCancel, Unchanged
      <3>3. journal.side[s].part => merging[s] = 0
        BY <1>1, <2>2 DEF RInv, RepoInv, MergeInv, Moving
      <3> QED
        BY <3>1, <3>2, <3>3
    <2> QED
      BY <2>1, <2>2
  <1>7. MergeInv' /\ IndexInv'
    BY <1>1, <1>2, <1>4, <1>6 DEF RInv, RepoInv, MergeInv, IndexInv
  <1>8. SidesInv' /\ FastInv' /\ LostInv'
    BY <1>1, <1>2 DEF RInv, RepoInv, SidesInv, FastInv, LostInv, Active
  <1>9. StageInv'
    <2>1. CASE s = "memory"
      <3>1. call'.step = "rollback" /\ call'.side = "code"
        BY <1>0, <1>1, <2>1 DEF RollbackSide, Calls
      <3> QED
        BY <1>2, <1>6, <2>1, <3>1 DEF StageInv, CancelInv, PartialInv, StartInv, Passed, Admitting
    <2>2. CASE s = "code"
      <3>1. call'.step = "restore"
        BY <1>0, <1>1, <2>2 DEF RollbackSide, Calls
      <3>2. journal.side["memory"].part => head["memory"] = journal.side["memory"].pre /\ merging["memory"] = 0
        BY <1>0, <1>1, <2>2 DEF RInv, StageInv, CancelInv, Passed, Sides
      <3>3. \A t \in Sides : journal.side[t].part => head'[t] = journal.side[t].pre /\ merging'[t] = 0
        BY <1>4, <1>6, <2>2, <3>2 DEF Sides
      <3> QED
        BY <1>2, <3>1, <3>3 DEF StageInv, CancelInv, PartialInv, StartInv, Passed, Admitting
    <2> QED
      BY <1>1, <2>1, <2>2 DEF Sides
  <1>10. Stutter
    BY <1>2, <1>4, <1>6, HiddenMove
  <1> QED
    BY <1>7, <1>8, <1>9, <1>10 DEF RInv, RepoInv

LEMMA RestoreCancelledRefines ==
    ASSUME IInv, RInv, RestoreCancelled
    PROVE  RInv' /\ Stutter
  <1>1. UNCHANGED <<head, merging, index, refs, journal, base>> /\ call.step = "restore"
    BY DEF RestoreCancelled, fileVars
  <1>2. call'.step \in {"restore", "applied", "conclude"}
    BY <1>1, Disassemble DEF RestoreCancelled, CallType, Calls, NoCall
  <1>3. StageInv'
    BY <1>1, <1>2 DEF RInv, StageInv, CancelInv, PartialInv, StartInv, Passed, Admitting
  <1> QED
    BY <1>1, <1>3, StillKeeps

\* A cancelled transaction closes where it was opened.
LEMMA PublishCancelledRefines ==
    ASSUME IInv, RInv, PublishCancelled
    PROVE  RInv' /\ Stutter
  <1>0. call.step = "conclude" /\ UNCHANGED <<head, merging, index, refs, base>>
    BY DEF PublishCancelled, gitVars
  <1>1. Active(journal) /\ journal.phase = "cancelling" /\ FileType
    BY <1>0, CancellingFacts DEF Cancelling
  <1>2. CASE call' = NoCall /\ journal' = journal
    BY <1>0, <1>2, StageIdle, StillKeeps
  <1>3. CASE /\ base = journal.from /\ journal' = [journal EXCEPT !.phase = "cancelled"]
             /\ call' = [call EXCEPT !.step = "retire"]
    <2>1. \A s \in Sides : /\ journal.side[s].part => head[s] = journal.side[s].pre /\ merging[s] = 0
                           /\ ~journal.side[s].part => refs[s]["pre"] = NoCommit
      BY <1>0, <1>1 DEF RInv, RepoInv, StageInv, CancelInv, SidesInv, Passed, RefNames
    <2>2. \A s \in Sides : merging[s] = 0
      BY <2>1 DEF RInv, RepoInv, MergeInv
    <2>3. RInv' /\ Terminal(journal')
      BY <1>0, <1>1, <1>3, <2>2, TerminalKeeps
    <2>4. \A s \in Sides : ~Open(s)'
      BY <2>3 DEF Open
    <2>5. \A s \in Sides : Open(s) => refs[s]["pre"] = head[s] /\ refs[s]["base"].at = base[s]
      <3> TAKE s \in Sides
      <3>1. CASE journal.side[s].part
        <4>1. journal.side[s].base = journal.from[s]
          BY <1>1, <3>1, Disassemble DEF StateInv, JournalInv
        <4> QED
          BY <1>1, <1>3, <2>1, <3>1, <4>1, OpenSide
      <3> QED
        BY <2>1, <3>1 DEF Open
    <2>6. Stutter
      BY <1>0, <2>4, <2>5, SeamlessMove
    <2> QED
      BY <2>3, <2>6
  <1> QED
    BY <1>2, <1>3 DEF PublishCancelled, Return, Goto

-----------------------------------------------------------------------------
(* The completion: the one step in which a synchronization shows.          *)

\* A side the sync moved holds its source version, as the abstract With has it.
LEMMA ExactIsWith ==
    ASSUME IInv, RInv, Active(journal), journal.phase # "cancelling", NEW s \in Sides,
           Moving(journal.side[s]), Exact(head[s], journal.side[s])
    PROVE  /\ head[s] = Atomic!With(journal.side[s].pre, journal.side[s].source)
           /\ merging[s] = 0
  <1>1. PICK d : d = journal.side[s]
    OBVIOUS
  <1>2. d \in SideRecords /\ d.part /\ d.pre \in Commits /\ d.source \in Nat
    BY <1>1, Disassemble, SideFields DEF Moving
  <1>3. d.pre.own \in Nat /\ d.pre.at \in Nat
    BY <1>2, CommitFacts
  <1>4. Planned(s, d)
    BY <1>1, Disassemble DEF StateInv, JournalInv
  <1>5. d.plan \in {"fast-forward", "merge"} /\ d.source > d.pre.at
    <2>1. d.plan \in {"fast-forward", "merge"}
      BY <1>1, <1>2, SideFields DEF Moving
    <2>2. ~(d.source <= d.pre.at)
      BY <1>4, <2>1 DEF Planned, Contains
    <2> QED
      BY <1>2, <1>3, <2>1, <2>2
  <1>6. head[s] # d.pre
    <2>1. SourceCommit(d.source).at = d.source /\ MergeCommit(d.pre, d.source).at = d.source
      BY <1>2, CommitFacts
    <2>2. head[s].at = d.source
      BY <1>1, <2>1 DEF Exact
    <2> QED
      BY <1>2, <1>3, <1>5, <2>2
  <1>7. merging[s] = 0
    <2>1. refs[s]["pre"] = d.pre
      BY <1>1, <1>2, OpenSide
    <2> QED
      BY <1>6, <2>1 DEF RInv, RepoInv, MergeInv
  <1>8. head[s] = Atomic!With(d.pre, d.source)
    <2>1. CASE d.plan = "fast-forward"
      <3>1. d.pre.own = 0
        BY <1>4, <2>1 DEF Planned, FastForwards
      <3>2. head[s].own = d.pre.own
        BY <1>1, <1>2, Disassemble, ExactOwn DEF GitType
      <3>3. head[s] = SourceCommit(d.source)
        BY <1>1, <1>3, <1>6, <2>1, <3>2 DEF RInv, RepoInv, FastInv
      <3> QED
        BY <1>2, <1>3, <1>5, <3>1, <3>3 DEF Atomic!With, SourceCommit
    <2>2. CASE d.plan = "merge"
      <3>1. ~FastForwards(d.pre, d.source)
        BY <1>4, <2>2 DEF Planned
      <3>2. d.pre.own # 0
        BY <1>2, <1>3, <1>5, <3>1 DEF FastForwards
      <3>3. head[s] = MergeCommit(d.pre, d.source)
        BY <1>1, <3>1 DEF Exact
      <3> QED
        BY <1>2, <1>3, <1>5, <3>2, <3>3 DEF Atomic!With, MergeCommit
    <2> QED
      BY <1>5, <2>1, <2>2
  <1> QED
    BY <1>1, <1>7, <1>8

LEMMA PublishCompletedRefines ==
    ASSUME IInv, RInv, PublishCompleted
    PROVE  RInv' /\ Atomic!Sync
  <1>0. /\ call.step = "run" /\ journal.phase = "finalizing" /\ Finalizable(journal)
        /\ base = Target(journal) /\ journal' = [journal EXCEPT !.phase = "completed"]
        /\ call' = [call EXCEPT !.step = "retire"] /\ UNCHANGED <<head, merging, index, refs, base>>
    BY DEF PublishCompleted, Goto, gitVars
  <1>1. Active(journal) /\ FileType /\ GitType
    BY <1>0, RunningFacts
  <1>2. \A s \in Sides : /\ journal.side[s].part
                         /\ Moving(journal.side[s]) => Exact(head[s], journal.side[s])
                         /\ ~Moving(journal.side[s]) => head[s] = journal.side[s].pre
    BY <1>0, FinalizableFacts
  <1>3. \A s \in Sides : merging[s] = 0
    <2> TAKE s \in Sides
    <2>1. CASE Moving(journal.side[s])
      BY <1>0, <1>1, <1>2, <2>1, ExactIsWith
    <2>2. CASE ~Moving(journal.side[s])
      BY <1>1, <1>2, <2>2 DEF RInv, RepoInv, MergeInv, Moving
    <2> QED
      BY <2>1, <2>2
  <1>4. RInv' /\ Terminal(journal')
    BY <1>0, <1>1, <1>3, TerminalKeeps
  <1>5. Branch' = head /\ Bases' = base
    <2>1. \A s \in Sides : ~Open(s)'
      BY <1>4 DEF Open
    <2> QED
      BY <1>0, <1>1, <2>1 DEF Branch, Bases, GitType, FileType
  <1>6. \A s \in Sides : Branch[s] = journal.side[s].pre /\ Bases[s] = journal.from[s]
    <2> TAKE s \in Sides
    <2>1. Open(s) /\ refs[s]["pre"] = journal.side[s].pre /\ refs[s]["base"].at = journal.side[s].base
      BY <1>1, <1>2, OpenSide
    <2>2. journal.side[s].base = journal.from[s]
      BY <1>1, <1>2, Disassemble DEF StateInv, JournalInv
    <2> QED
      BY <2>1, <2>2 DEF Branch, Bases
  <1> DEFINE skipped == {s \in {"memory"} : journal.side[s].plan = "skip"}
  <1>7. /\ skipped \in SUBSET {"memory"}
        /\ \A s \in Sides : s \in skipped <=> journal.side[s].plan = "skip"
    <2>1. journal.side["code"].plan # "skip"
      BY <1>0, <1>1, Disassemble DEF StateInv, JournalInv, Planned, Sides
    <2> QED
      BY <2>1 DEF Sides
  <1>8. \A s \in Sides : s \in skipped => base[s] = journal.from[s] /\ head[s] = journal.side[s].pre
    BY <1>0, <1>2, <1>7 DEF Target, Moving
  <1>9. \A s \in Sides : s \notin skipped =>
           base[s] >= journal.from[s] /\ head[s] = Atomic!With(journal.side[s].pre, base[s])
    <2> TAKE s \in Sides
    <2> HAVE s \notin skipped
    <2>1. base[s] = journal.side[s].source
      BY <1>0, <1>2, <1>7 DEF Target
    <2>2. journal.from[s] <= journal.side[s].source /\ Planned(s, journal.side[s])
      BY <1>0, <1>1, Disassemble DEF StateInv, JournalInv
    <2>3. journal.from[s] \in Nat /\ journal.side[s].source \in Nat
      BY Disassemble, RecordFields, SideFields
    <2>4. CASE Moving(journal.side[s])
      BY <1>0, <1>1, <1>2, <2>1, <2>2, <2>3, <2>4, ExactIsWith
    <2>5. CASE ~Moving(journal.side[s])
      <3>1. journal.side[s].plan = "already-current"
        BY <1>2, <1>7, <2>5 DEF Moving
      <3>2. journal.side[s].source <= journal.side[s].pre.at
        BY <2>2, <3>1 DEF Planned, Contains
      <3> QED
        BY <1>2, <2>1, <2>2, <2>3, <2>5, <3>2 DEF Atomic!With
    <2> QED
      BY <2>4, <2>5
  <1>10. Atomic!Sync
    <2> HIDE DEF skipped
    <2>1. Bases' \in [Sides -> Nat]
      BY <1>1, <1>5 DEF FileType
    <2>2. \A s \in Sides : IF s \in skipped THEN Bases'[s] = Bases[s] ELSE Bases'[s] >= Bases[s]
      BY <1>5, <1>6, <1>8, <1>9
    <2>3. Branch' = [s \in Sides |-> IF s \in skipped THEN Branch[s] ELSE Atomic!With(Branch[s], Bases'[s])]
      <3>1. head = [s \in Sides |-> head[s]]
        BY <1>1 DEF GitType
      <3>2. \A s \in Sides : head[s] = IF s \in skipped THEN Branch[s] ELSE Atomic!With(Branch[s], Bases'[s])
        BY <1>5, <1>6, <1>8, <1>9
      <3> QED
        BY <1>5, <3>1, <3>2
    <2>4. \E k \in SUBSET {"memory"} :
             /\ Bases' \in [Sides -> Nat]
             /\ \A s \in Sides : IF s \in k THEN Bases'[s] = Bases[s] ELSE Bases'[s] >= Bases[s]
             /\ Branch' = [s \in Sides |-> IF s \in k THEN Branch[s] ELSE Atomic!With(Branch[s], Bases'[s])]
      BY <1>7, <2>1, <2>2, <2>3
    <2>5. Atomic!Sides = Sides
      BY DEF Atomic!Sides, Sides
    <2> QED
      BY <2>4, <2>5 DEF Atomic!Sync, Branch, Bases
  <1> QED
    BY <1>4, <1>10

-----------------------------------------------------------------------------
(* The agent, and the source branches.                                     *)

\* The agent's commit on an open side is hidden; on a closed one it is a step of Work.
LEMMA AgentCommitsRefines ==
    ASSUME IInv, RInv, NEW s \in Sides, AgentCommits(s)
    PROVE  RInv' /\ (Stutter \/ Atomic!Work(s))
  <1>0. /\ GitType /\ call' = NoCall /\ index[s] = "none"
        /\ UNCHANGED <<merging, index, refs, journal, base>>
    BY Disassemble DEF AgentCommits, fileVars
  <1>1. PICK c : c = [own |-> head[s].own + 1, at |-> head[s].at, was |-> head[s].at]
    OBVIOUS
  <1>2. head' = [head EXCEPT ![s] = c]
    BY <1>1 DEF AgentCommits
  <1>3. head'[s] = c /\ \A t \in Sides : t # s => head'[t] = head[t]
    BY <1>0, <1>2 DEF GitType
  <1>4. merging[s] = 0
    BY <1>0 DEF RInv, RepoInv, IndexInv, Unmerged
  <1>5. MergeInv' /\ IndexInv' /\ SidesInv'
    BY <1>0, <1>3, <1>4 DEF RInv, RepoInv, MergeInv, IndexInv, SidesInv
  <1>6. LostInv'
    BY <1>0 DEF RInv, RepoInv, LostInv, Incomplete, Partial, Complete
  <1>7. FastInv'
    <2>1. ASSUME Active(journal), journal.phase # "cancelling", journal.side[s].plan = "fast-forward"
          PROVE  head'[s].own > journal.side[s].pre.own
      <3>1. Planned(s, journal.side[s])
        BY <2>1, Disassemble DEF StateInv, JournalInv
      <3>2. journal.side[s].pre.own = 0
        BY <2>1, <3>1 DEF Planned, FastForwards
      <3>3. head[s] \in Commits
        BY <1>0 DEF GitType
      <3>4. head[s].own \in Nat
        BY <3>3, CommitFacts
      <3>5. c.own = head[s].own + 1
        BY <1>1
      <3> QED
        BY <1>3, <3>2, <3>4, <3>5
    <2> QED
      BY <1>0, <1>3, <2>1 DEF RInv, RepoInv, FastInv
  <1>8. StageInv'
    BY <1>0, StageIdle
  <1>9. CASE Open(s)
    <2>1. Stutter
      BY <1>0, <1>3, <1>9, HiddenMove
    <2> QED
      BY <1>5, <1>6, <1>7, <1>8, <2>1 DEF RInv, RepoInv
  <1>10. CASE ~Open(s)
    <2>1. \A t \in Sides : Open(t)' <=> Open(t)
      BY <1>0 DEF Open
    <2>2. Bases' = Bases
      BY <1>0, <2>1 DEF Bases
    <2>3. Branch[s] = head[s]
      BY <1>10 DEF Branch
    <2>4. \A t \in Sides : Branch'[t] = IF t = s THEN c ELSE Branch[t]
      BY <1>0, <1>3, <1>10, <2>1 DEF Branch
    <2>5. Branch' = [Branch EXCEPT ![s] = c]
      <3>1. /\ Branch = [t \in Sides |-> Branch[t]] /\ Branch' = [t \in Sides |-> Branch'[t]]
        BY DEF Branch
      <3> QED
        BY <2>4, <3>1
    <2>6. Atomic!Work(s)
      BY <1>1, <2>2, <2>3, <2>5 DEF Atomic!Work, Branch, Bases
    <2> QED
      BY <1>5, <1>6, <1>7, <1>8, <2>6 DEF RInv, RepoInv
  <1> QED
    BY <1>9, <1>10

LEMMA QuietAgent ==
    ASSUME IInv, RInv, NEW s \in Sides,
           AgentEdits(s) \/ AgentDiscards(s) \/ AgentResolves(s) \/ SourceMoves(s)
    PROVE  RInv' /\ Stutter
  <1>1. call' = NoCall /\ GitType /\ UNCHANGED <<head, merging, refs, journal, base>>
    BY Disassemble DEF AgentEdits, AgentDiscards, AgentResolves, SourceMoves, gitVars, fileVars
  <1>2. \/ index' = index
        \/ index[s] \in {"none", "reapply"} /\ index' = [index EXCEPT ![s] = "none"]
        \/ index[s] = "conflict" /\ index' = [index EXCEPT ![s] = "staged"]
    BY DEF AgentEdits, AgentDiscards, AgentResolves, SourceMoves, gitVars
  <1>3. \A t \in Sides : Unmerged(index'[t]) <=> Unmerged(index[t])
    BY <1>1, <1>2 DEF GitType, Unmerged
  <1> QED
    BY <1>1, <1>3, StageIdle, CalmKeeps

LEMMA AgentEndsMergeRefines ==
    ASSUME IInv, RInv, NEW s \in Sides, AgentEndsMerge(s)
    PROVE  RInv' /\ Stutter
  <1>1. call' = NoCall /\ UNCHANGED <<refs, journal, base>>
    BY DEF AgentEndsMerge, fileVars
  <1> QED
    BY <1>1, StageIdle, MergeEnds DEF AgentEndsMerge

-----------------------------------------------------------------------------
(* The refinement.                                                         *)

LEMMA InitRInv == Init => RInv
  <1> SUFFICES ASSUME Init
               PROVE  RInv
    OBVIOUS
  <1>1. /\ journal.kind = "none" /\ call.step = "idle"
        /\ \A s \in Sides : merging[s] = 0 /\ index[s] = "none" /\ refs[s] = NoRefs
    BY NoRecordFacts, NoCallFacts DEF Init
  <1>2. \A s \in Sides, name \in RefNames : refs[s][name] = NoCommit
    BY <1>1 DEF NoRefs
  <1> QED
    BY <1>1, <1>2 DEF RInv, RepoInv, StageInv, MergeInv, IndexInv, SidesInv, FastInv, LostInv,
       CancelInv, PartialInv, StartInv, Unmerged, Active, Admitting, RefNames

LEMMA InitRefines == Init => Atomic!Init
  <1> SUFFICES ASSUME Init
               PROVE  Atomic!Init
    OBVIOUS
  <1>1. \A s \in Sides : ~Open(s)
    BY DEF Init, Open, NoRefs, RefNames
  <1>2. Branch = [s \in Sides |-> head[s]] /\ Bases = [s \in Sides |-> base[s]]
    BY <1>1 DEF Branch, Bases
  <1>3. \A s \in Sides : head[s] \in Commits /\ base[s] = 0 /\ head[s].at = 0
    BY DEF Init, Commits
  <1>4. Branch \in [Sides -> Commits] /\ Bases \in [Sides -> Nat]
    BY <1>2, <1>3
  <1>5. \A s \in Sides : Bases[s] <= Branch[s].at
    BY <1>2, <1>3
  <1>6. Atomic!Sides = Sides
    BY DEF Atomic!Sides, Sides
  <1> QED
    BY <1>4, <1>5, <1>6 DEF Atomic!Init, Branch, Bases, Commits

Refined == RInv' /\ (Stutter \/ Atomic!Next)

LEMMA CallRefines == IInv /\ RInv /\ Call => Refined
  BY QuietCalls, CallCancelsRefines, CallContinuesMergeRefines, CallQuarantinesRefines,
     CallRecoversRefines, CallRecoversPartlyRefines
  DEF Call, Refined

LEMMA StepRefines == IInv /\ RInv /\ Step => Refined
  <1> SUFFICES ASSUME IInv, RInv, Step
               PROVE  Refined
    OBVIOUS
  <1>1. CASE PublishCompleted
    BY <1>1, PublishCompletedRefines DEF Refined, Atomic!Next
  <1>2. CASE \E s \in Sides : RunUnmoved(s) \/ AdoptMerged(s) \/ StartMerge(s)
                              \/ RetainMerge(s) \/ RunRefused(s)
    BY <1>2, RunUnmovedRefines, AdoptMergedRefines, StartMergeRefines, RetainMergeRefines,
       RefusalsRefine DEF Refined
  <1>3. CASE DeletePartial \/ ParkWip \/ ParkFails \/ PinRef \/ PublishRecord \/ FinishMemoryMerge
    BY <1>3, DeletePartialRefines, ParkingRefines, PinRefRefines, PublishRecordRefines,
       FinishMemoryMergeRefines DEF Refined
  <1>4. CASE CarryUnparked \/ ReapplyWip \/ RetainReapply \/ DropStash \/ RecordRestored
             \/ AdvanceRestored \/ WriteContract
    BY <1>4, CarryUnparkedRefines, ReapplyWipRefines, RetainReapplyRefines, DropStashRefines,
       RecordRestoredRefines, AdvanceRestoredRefines, WriteContractRefines DEF Refined
  <1>5. CASE FinalizeRefused \/ DeleteAuthority \/ DiscardReapply \/ RollbackSide
             \/ RollbackRefused \/ RestoreCancelled \/ PublishCancelled
    BY <1>5, RefusalsRefine, DeleteAuthorityRefines, DiscardReapplyRefines, RollbackSideRefines,
       RestoreCancelledRefines, PublishCancelledRefines DEF Refined
  <1> QED
    BY <1>1, <1>2, <1>3, <1>4, <1>5 DEF Step

LEMMA AgentRefines == IInv /\ RInv /\ Agent => Refined
  <1> SUFFICES ASSUME IInv, RInv, NEW s \in Sides,
                      AgentEdits(s) \/ AgentCommits(s) \/ AgentDiscards(s)
                      \/ AgentResolves(s) \/ AgentEndsMerge(s)
               PROVE  Refined
    BY DEF Agent
  <1>1. CASE AgentCommits(s)
    BY <1>1, AgentCommitsRefines DEF Refined, Atomic!Next, Atomic!Sides, Sides
  <1>2. CASE AgentEndsMerge(s)
    BY <1>2, AgentEndsMergeRefines DEF Refined
  <1>3. CASE AgentEdits(s) \/ AgentDiscards(s) \/ AgentResolves(s)
    BY <1>3, QuietAgent DEF Refined
  <1> QED
    BY <1>1, <1>2, <1>3

LEMMA NextRefines == IInv /\ RInv /\ [Next]_vars => damaged' = "residue" \/ Refined
  <1> SUFFICES ASSUME IInv, RInv, [Next]_vars, damaged' # "residue"
               PROVE  Refined
    OBVIOUS
  <1>1. CASE Next
    <2>1. ASSUME NEW s \in Sides, SourceMoves(s)
          PROVE  Refined
      BY <2>1, QuietAgent DEF Refined
    <2>2. CASE Crash
      BY <2>2, RefusalsRefine DEF Refined
    <2>3. CASE DamageJournal
      BY <2>3, DamageJournalRefines DEF Refined
    <2> QED
      BY <1>1, <2>1, <2>2, <2>3, CallRefines, StepRefines, AgentRefines DEF Next
  <1>2. CASE UNCHANGED vars
    <2>1. UNCHANGED <<head, merging, index, refs, journal, base, call>>
      BY <1>2 DEF vars, gitVars, fileVars
    <2>2. StageInv'
      BY <2>1 DEF RInv, StageInv, CancelInv, PartialInv, StartInv, Passed
    <2> QED
      BY <2>1, <2>2, StillKeeps DEF Refined
  <1> QED
    BY <1>1, <1>2

Misread == damaged = "residue"

\* The history of a damage is never taken back.
LEMMA MisreadStays == Misread /\ [Next]_vars => Misread'
  <1> SUFFICES ASSUME Misread, [Next]_vars
               PROVE  damaged' = damaged
    BY DEF Misread
  <1>1. ~DamageJournal
    BY DEF DamageJournal, Misread
  <1>2. CASE Call
    BY <1>2 DEF Call, CallAdmits, CallFindsTerminal, CallResumes, CallCancels, CallContinuesMerge,
       CallContinuesReapply, CallQuarantines, CallRecovers, CallRecoversPartly, faultVars
  <1>3. CASE Step
    <2>1. CASE DeletePartial \/ ParkWip \/ ParkFails \/ PinRef \/ PublishRecord
               \/ \E s \in Sides : RunUnmoved(s) \/ AdoptMerged(s) \/ StartMerge(s)
                                   \/ RetainMerge(s) \/ RunRefused(s)
      BY <2>1 DEF DeletePartial, ParkWip, ParkFails, PinRef, PublishRecord, RunUnmoved,
         AdoptMerged, StartMerge, RetainMerge, RunRefused, faultVars
    <2>2. CASE FinishMemoryMerge \/ CarryUnparked \/ ReapplyWip \/ RetainReapply \/ DropStash
               \/ RecordRestored \/ AdvanceRestored \/ WriteContract
      BY <2>2 DEF FinishMemoryMerge, CarryUnparked, ReapplyWip, RetainReapply, DropStash,
         RecordRestored, AdvanceRestored, WriteContract, Advance, faultVars
    <2>3. CASE PublishCompleted \/ FinalizeRefused \/ DeleteAuthority \/ DiscardReapply
               \/ RollbackSide \/ RollbackRefused \/ RestoreCancelled \/ PublishCancelled
      BY <2>3 DEF PublishCompleted, FinalizeRefused, DeleteAuthority, DiscardReapply,
         RollbackSide, RollbackRefused, RestoreCancelled, PublishCancelled, faultVars
    <2> QED
      BY <1>3, <2>1, <2>2, <2>3 DEF Step
  <1>4. CASE Agent \/ (\E s \in Sides : SourceMoves(s)) \/ Crash
    BY <1>4 DEF Agent, AgentEdits, AgentCommits, AgentDiscards, AgentResolves, AgentEndsMerge,
       SourceMoves, Crash, faultVars
  <1>5. CASE UNCHANGED vars
    BY <1>5 DEF vars, faultVars
  <1> QED
    BY <1>1, <1>2, <1>3, <1>4, <1>5 DEF Next

\* The synchronization is all or nothing: both branches and both bases move in
\* the one step that publishes "completed", and whatever is interrupted,
\* refused, cancelled or recovered shows no trace, until the record of an ended
\* sync is damaged beside the refs it left.
THEOREM SyncIsAllOrNothing == Spec => AllOrNothing
  <1>1. IInv /\ (Misread \/ RInv) /\ [Next]_vars
        => (Misread \/ RInv)' /\ [Atomic!Next \/ damaged' = "residue"]_<<Branch, Bases>>
    BY NextRefines, MisreadStays DEF Refined, Stutter, Misread
  <1>2. Spec => [](Misread \/ RInv)
    BY SyncInvariant, InitRInv, <1>1, PTL DEF Spec
  <1> QED
    BY SyncInvariant, <1>1, <1>2, InitRefines, PTL DEF Spec, AllOrNothing
=============================================================================
