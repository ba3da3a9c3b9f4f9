---------------------------- MODULE InboxProofs -----------------------------
(***************************************************************************)
(* Proofs about OperatorInbox, for every number of rows, sessions, posters *)
(* and causes, every cap and every attempt ceiling.                        *)
(***************************************************************************)
EXTENDS OperatorInbox, FiniteSetTheorems, WellFoundedInduction, TLAPS

\* The findings that are about a row, and not about a cause.
OfRows == {"redeliver", "rebind", "grace", "ttl", "drain"}

\* Well-formed operations in flight.
PostFits(o) == o \in PostOps /\ (o.step # "idle" => o.row \in Rows)

FindingFits(f) ==
    /\ f \in Findings
    /\ f.do \in OfRows => f.row \in Rows
    /\ f.do \notin OfRows => f.cause \in Causes

SweepFits(o) ==
    /\ o \in SweepOps
    /\ \A f \in o.todo : FindingFits(f)
    /\ o.step \in {"deliver", "record", "unresolve"} => o.now.row \in Rows

\* TypeOK, and what an operation in flight already holds: the row of a post and
\* of a delivery, the row or the cause of a finding.
TypeInv ==
    /\ TypeOK
    /\ \A p \in Posters : PostFits(post[p])
    /\ SweepFits(sweep)

-----------------------------------------------------------------------------
(* Types of rows, attempts and operations.                                  *)

\* The absence of a row, of an attempt and of an operation is well typed.
LEMMA IdleType ==
    /\ NoEntry \in Entry /\ NoTry \in Tries /\ NoRows \in [Rows -> Entry]
    /\ PostFits(IdlePost) /\ SweepFits(IdleSweep) /\ NoFinding \in Findings
    /\ IdleSync \in [todo : SUBSET Rows, held : [Rows -> Entry]]
  <1>1. NoEntry \in Entry
    BY InboxConstants DEF NoEntry, Entry, States, Kinds, AdapterStates
  <1>2. NoTry \in Tries
    BY DEF NoTry, Try, Tries, AdapterStates
  <1>3. NoFinding \in Findings
    BY DEF NoFinding, Findings, FindingOrder
  <1>4. NoRows \in [Rows -> Entry]
    BY <1>1 DEF NoRows
  <1>5. IdlePost \in PostOps /\ IdlePost.step = "idle"
    BY <1>1, <1>2 DEF IdlePost, PostOps
  <1>6. IdleSweep \in SweepOps /\ IdleSweep.todo = {} /\ IdleSweep.step = "idle"
    BY <1>2, <1>3, <1>4 DEF IdleSweep, SweepOps
  <1> QED
    BY <1>1, <1>2, <1>3, <1>4, <1>5, <1>6 DEF PostFits, SweepFits, IdleSync

\* The transitions of a row return rows.
LEMMA EntryType ==
    ASSUME NEW e \in Entry, NEW f \in Entry, NEW t \in Tries
    PROVE  /\ Fold(e, f) \in Entry
           /\ Evidence(e, t) \in Entry
           /\ Land(e, t) \in Entry
           /\ \A x \in TerminalStates : Mark(e, x) \in Entry
           /\ ConsumeEntry(e) \in Entry
           /\ CompleteEntry(e) \in Entry
           /\ \A s \in Sessions \cup {NoSession} :
                RebindEntry(e, s) \in Entry /\ RenewEntry(e, s) \in Entry
           /\ [e EXCEPT !.state = "ladder-resolved"] \in Entry
  <1>1. CountAttempt(e.attempts) \in 0..AttemptLimit
    BY InboxConstants DEF CountAttempt, Entry
  <1>2. Evidence(e, t) \in Entry
    BY <1>1 DEF Evidence, Entry, Tries
  <1>3. Land(e, t) \in Entry
    BY <1>2 DEF Land, Entry, States, TerminalStates
  <1>4. \A x \in TerminalStates : Mark(e, x) \in Entry
    BY DEF Mark, Entry, States
  <1>5. ASSUME NEW s \in Sessions \cup {NoSession}
        PROVE  RebindEntry(e, s) \in Entry /\ RenewEntry(e, s) \in Entry
    <2>1. 0 \in 0..AttemptLimit /\ "none" \in AdapterStates
      BY InboxConstants DEF AdapterStates
    <2>2. RenewEntry(e, s) \in Entry
      BY DEF RenewEntry, Entry
    <2>3. RebindEntry(e, s) \in Entry
      BY <2>1 DEF RebindEntry, Entry
    <2> QED
      BY <2>2, <2>3
  <1>6. ConsumeEntry(e) \in Entry /\ CompleteEntry(e) \in Entry
    BY DEF ConsumeEntry, CompleteEntry, Entry, AdapterStates
  <1>7. [e EXCEPT !.state = "ladder-resolved"] \in Entry
    BY DEF Entry, States, TerminalStates
  <1> QED
    BY <1>2, <1>3, <1>4, <1>5, <1>6, <1>7 DEF Fold

\* A created row is a row.
LEMMA CreateType ==
    ASSUME NEW k \in Kinds, NEW b \in BOOLEAN, NEW s \in Sessions \cup {NoSession},
           NEW g \in BOOLEAN, NEW c \in Causes \cup {NoCause}
    PROVE  CreateEntry(k, b, s, g, c) \in Entry /\ Pending(CreateEntry(k, b, s, g, c))
  BY IdleType DEF CreateEntry, Entry, States, Pending

\* Where an attempt goes, and when it may say "accepted": the adapter got the
\* prompt in this attempt, or has it from an earlier one, or the row says so.
TryFits(t, r, e, S) ==
    /\ t \in Tries
    /\ t.reached => t.session \in Sessions
    /\ t.adapter = "accepted" =>
         \/ t.session \in Sessions /\ (t.reached \/ <<r, t.session>> \in S)
         \/ e.adapter = "accepted"

\* A refused attempt, one held for a turn boundary, and a first submission.
LEMMA SubmitFits ==
    ASSUME NEW r, NEW e, NEW S, NEW s \in Sessions, NEW b \in BOOLEAN,
           NEW t \in Refusals(s) \cup {Try(s, "queued", FALSE, FALSE, FALSE)} \cup Receipts(s, b)
    PROVE  TryFits(t, r, e, S)
  <1>1. /\ "none" \in AdapterStates /\ "refused" \in AdapterStates /\ "queued" \in AdapterStates
        /\ "accepted" \in AdapterStates /\ "unknown" \in AdapterStates
    BY DEF AdapterStates
  <1>2. \/ \E a \in {"none", "refused", "queued", "unknown"}, x \in BOOLEAN, z \in BOOLEAN :
             t = Try(s, a, x, FALSE, z)
        \/ t = Try(s, "accepted", TRUE, b, TRUE)
    BY Zenon DEF Refusals, Receipts
  <1>3. CASE t = Try(s, "accepted", TRUE, b, TRUE)
    BY <1>1, <1>3 DEF TryFits, Try, Tries
  <1>4. ASSUME NEW a \in {"none", "refused", "queued", "unknown"}, NEW x \in BOOLEAN,
               NEW z \in BOOLEAN, t = Try(s, a, x, FALSE, z)
        PROVE  TryFits(t, r, e, S)
    BY <1>1, <1>4 DEF TryFits, Try, Tries
  <1> QED
    BY <1>2, <1>3, <1>4

\* A redelivery and a reconciliation.
LEMMA RedeliverFits ==
    ASSUME NEW r, NEW e \in Entry, NEW S, NEW s \in Sessions, NEW b \in BOOLEAN,
           NEW t \in Redeliveries(e, s, b, <<r, s>> \in S)
    PROVE  TryFits(t, r, e, S)
  <1>1. /\ "refused" \in AdapterStates /\ "accepted" \in AdapterStates
        /\ "unknown" \in AdapterStates /\ e.adapter \in AdapterStates
    BY DEF AdapterStates, Entry
  <1>2. \/ t = Try(s, e.adapter, TRUE, b /\ e.adapter = "accepted", FALSE)
        \/ \E a \in {"unknown", "refused"} : t = Try(s, a, TRUE, FALSE, FALSE)
        \/ <<r, s>> \in S /\ t = Try(s, "accepted", TRUE, b, FALSE)
    BY Zenon DEF Redeliveries, Reconciliations
  <1>3. CASE t = Try(s, e.adapter, TRUE, b /\ e.adapter = "accepted", FALSE)
    <2>1. (b /\ e.adapter = "accepted") \in BOOLEAN
      OBVIOUS
    <2>2. t \in Tries /\ t.adapter = e.adapter /\ t.reached = FALSE
      BY <1>1, <1>3, <2>1 DEF Try, Tries
    <2> QED
      BY <2>2 DEF TryFits
  <1>4. CASE \E a \in {"unknown", "refused"} : t = Try(s, a, TRUE, FALSE, FALSE)
    BY <1>1, <1>4 DEF TryFits, Try, Tries
  <1>5. CASE <<r, s>> \in S /\ t = Try(s, "accepted", TRUE, b, FALSE)
    BY <1>1, <1>5 DEF TryFits, Try, Tries
  <1> QED
    BY <1>2, <1>3, <1>4, <1>5

\* Every attempt that deliver_inbox_entry makes.
LEMMA AttemptFits ==
    ASSUME NEW r, NEW e \in Entry, NEW catalog, NEW turns, NEW S,
           NEW t \in Attempts(r, e, catalog, turns, S)
    PROVE  TryFits(t, r, e, S)
  <1>1. CASE TargetSession(e, catalog) = {}
    <2>1. t = NoTry /\ NoTry \in Tries /\ NoTry.adapter = "none" /\ NoTry.reached = FALSE
      BY <1>1, IdleType DEF Attempts, NoTry, Try
    <2> QED
      BY <2>1 DEF TryFits
  <1>2. CASE TargetSession(e, catalog) # {}
    <2>1. PICK s \in TargetSession(e, catalog) :
            t \in Refusals(s) \cup
                (IF HeldForBoundary(e, s, turns)
                 THEN {Try(s, "queued", FALSE, FALSE, FALSE)}
                 ELSE IF e.req THEN Redeliveries(e, s, s \in turns, <<r, s>> \in S)
                 ELSE Receipts(s, s \in turns))
      BY <1>2 DEF Attempts
    <2>2. s \in Sessions
      BY DEF TargetSession, Occupant, Running
    <2>3. (s \in turns) \in BOOLEAN
      OBVIOUS
    <2>4. \/ t \in Refusals(s) \cup {Try(s, "queued", FALSE, FALSE, FALSE)}
                   \cup Receipts(s, s \in turns)
          \/ t \in Redeliveries(e, s, s \in turns, <<r, s>> \in S)
      BY <2>1
    <2> QED
      BY <2>2, <2>3, <2>4, SubmitFits, RedeliverFits
  <1> QED
    BY <1>1, <1>2

-----------------------------------------------------------------------------
(* Every step keeps the types.                                              *)

\* Appending a row, and replacing the file, keep the type of the fold.
LEMMA StoreType ==
    ASSUME NEW cur \in [Rows -> Entry], NEW r \in Rows, NEW e \in Entry, NEW ids
    PROVE  /\ [cur EXCEPT ![r] = Fold(@, e)] \in [Rows -> Entry]
           /\ [cur EXCEPT ![r] = e] \in [Rows -> Entry]
           /\ KeepOnly(cur, ids) \in [Rows -> Entry]
  <1>1. Fold(cur[r], e) \in Entry
    BY DEF Fold
  <1>2. KeepOnly(cur, ids) \in [Rows -> Entry]
    BY IdleType DEF KeepOnly
  <1> QED
    BY <1>1, <1>2

\* Replacing one poster's operation by a fitting one keeps the types of `post`.
LEMMA PostReplace ==
    ASSUME TypeInv, NEW p \in Posters, NEW o, PostFits(o)
    PROVE  /\ [post EXCEPT ![p] = o] \in [Posters -> PostOps]
           /\ \A q \in Posters : PostFits([post EXCEPT ![p] = o][q])
  BY DEF TypeInv, TypeOK, PostFits

\* The addresses a post resolves to.
LEMMA AddressType ==
    ASSUME NEW x, NEW s \in PostAgents(x), x \in {"seat", "owner", "exact"}
    PROVE  s \in Sessions \cup {NoSession}
  BY DEF PostAgents, Occupant, Running

\* Reaching an adapter keeps the type of `sent`, which only grows.
LEMMA ReachType ==
    ASSUME sent \subseteq (Rows \X Sessions), NEW r \in Rows, NEW t,
           t.reached => t.session \in Sessions, Reach(r, t)
    PROVE  sent' \subseteq (Rows \X Sessions) /\ sent \subseteq sent'
  BY DEF Reach

\* Initially the types hold.
LEMMA TypeInit == Init => TypeInv
  <1> SUFFICES ASSUME Init PROVE TypeInv
    OBVIOUS
  <1>1. /\ \A p \in Posters : post[p] = IdlePost
        /\ post \in [Posters -> PostOps] /\ sweep \in SweepOps
    BY IdleType DEF Init, PostFits, SweepFits
  <1>2. 1 \in 1..(MaxRows + 1) /\ 0 \in 0..MaxCrashes
    BY InboxConstants, PostConstants
  <1> QED
    BY <1>1, <1>2, IdleType DEF Init, TypeInv, TypeOK

\* The steps of a post keep the types.
LEMMA TypePost ==
    ASSUME TypeInv, NEW p \in Posters,
           (\E x \in Posts : PostAppend(p, x)) \/ PostStep(p)
    PROVE  TypeInv'
  <1> USE DEF EnvVars
  <1>0. /\ inbox \in [Rows -> Entry] /\ post \in [Posters -> PostOps] /\ PostFits(post[p])
        /\ post[p].try \in Tries /\ post[p].entry \in Entry
    BY DEF TypeInv, TypeOK, PostOps
  <1>1. ASSUME NEW x \in Posts, PostAppend(p, x) PROVE TypeInv'
    <2>1. PICK agent \in PostAgents(x.address) :
            LET e == CreateEntry(x.kind, x.address # "exact", agent, x.gated, NoCause) IN
            /\ Append(nextRow, e)
            /\ post' = [post EXCEPT ![p] = [IdlePost EXCEPT !.step = "compact", !.row = nextRow,
                                                           !.entry = e]]
      BY <1>1 DEF PostAppend
    <2> DEFINE e == CreateEntry(x.kind, x.address # "exact", agent, x.gated, NoCause)
    <2> DEFINE o == [IdlePost EXCEPT !.step = "compact", !.row = nextRow, !.entry = e]
    <2>2. /\ x.kind \in Kinds /\ (x.address # "exact") \in BOOLEAN /\ x.gated \in BOOLEAN
          /\ agent \in Sessions \cup {NoSession}
      BY PostConstants, AddressType DEF Kinds
    <2>3. e \in Entry
      BY <2>2, CreateType
    <2>4. nextRow \in Rows /\ nextRow' = nextRow + 1
      BY <1>1 DEF PostAppend
    <2> HIDE DEF e
    <2>5. PostFits(o)
      BY <2>3, <2>4, IdleType DEF PostFits, IdlePost, PostOps
    <2>6. nextRow' \in 1..(MaxRows + 1)
      BY <2>4, InboxConstants DEF Rows
    <2>7. inbox' \in [Rows -> Entry]
      BY <1>0, <2>1, <2>3, <2>4, StoreType DEF Append, e
    <2> HIDE DEF o
    <2>8. post' = [post EXCEPT ![p] = o]
      BY <2>1 DEF e, o
    <2> QED
      BY <1>1, <2>5, <2>6, <2>7, <2>8, PostReplace DEF PostAppend, TypeInv, TypeOK
  <1>2. CASE PostCompact(p)
    <2>1. PostFits([post[p] EXCEPT !.step = "deliver"])
      BY <1>0, <1>2 DEF PostCompact, PostFits, PostOps
    <2>2. inbox' \in [Rows -> Entry] /\ removed' \subseteq Rows
      BY <1>0, <1>2, IdleType DEF PostCompact, Replace, KeepOnly, TypeInv, TypeOK
    <2>3. post' = [post EXCEPT ![p] = [post[p] EXCEPT !.step = "deliver"]]
      BY <1>0, <1>2 DEF PostCompact
    <2>4. post' \in [Posters -> PostOps] /\ \A q \in Posters : PostFits(post'[q])
      BY <2>1, <2>3, PostReplace
    <2> QED
      BY <1>2, <2>2, <2>4 DEF PostCompact, TypeInv, TypeOK
  <1>3. CASE PostDeliver(p)
    <2>1. PICK t \in Attempts(post[p].row, post[p].entry, seats, boundary, sent) :
            /\ Reach(post[p].row, t)
            /\ post' = [post EXCEPT ![p] = [post[p] EXCEPT !.step = "read", !.entry = NoEntry,
                                                           !.try = t]]
      BY <1>0, <1>3 DEF PostDeliver
    <2>2. t \in Tries /\ (t.reached => t.session \in Sessions)
      BY <1>0, AttemptFits DEF TryFits
    <2>3. post[p].row \in Rows
      BY <1>0, <1>3 DEF PostDeliver, PostFits
    <2>4. PostFits([post[p] EXCEPT !.step = "read", !.entry = NoEntry, !.try = t])
      BY <1>0, <2>2, <2>3, IdleType DEF PostFits, PostOps
    <2>5. sent' \subseteq (Rows \X Sessions)
      BY <2>1, <2>2, <2>3, ReachType DEF TypeInv, TypeOK
    <2> QED
      BY <1>3, <2>1, <2>4, <2>5, PostReplace DEF PostDeliver, TypeInv, TypeOK
  <1>4. CASE PostRead(p)
    <2>1. PICK o : /\ post' = [post EXCEPT ![p] = o]
                   /\ o = IF Present(inbox[post[p].row])
                          THEN [post[p] EXCEPT !.step = "record", !.entry = inbox[post[p].row]]
                          ELSE IdlePost
      BY <1>0, <1>4 DEF PostRead
    <2>2. post[p].row \in Rows
      BY <1>0, <1>4 DEF PostRead, PostFits
    <2>3. PostFits(o)
      BY <1>0, <2>1, <2>2, IdleType DEF PostFits, PostOps
    <2> QED
      BY <1>4, <2>1, <2>3, PostReplace DEF PostRead, TypeInv, TypeOK
  <1>5. CASE PostRecord(p)
    <2>1. post[p].row \in Rows
      BY <1>0, <1>5 DEF PostRecord, PostFits
    <2>2. Land(inbox[post[p].row], post[p].try) \in Entry /\ Evidence(post[p].entry, post[p].try) \in Entry
      BY <1>0, <2>1, EntryType
    <2>3. \/ inbox' = [inbox EXCEPT ![post[p].row] = Land(inbox[post[p].row], post[p].try)]
          \/ inbox' = [inbox EXCEPT ![post[p].row] = Fold(@, Evidence(post[p].entry, post[p].try))]
      BY <1>5 DEF PostRecord, Append
    <2>4. inbox' \in [Rows -> Entry]
      BY <1>0, <2>1, <2>2, <2>3, StoreType
    <2> QED
      BY <1>5, <2>4, PostReplace, IdleType DEF PostRecord, TypeInv, TypeOK
  <1> QED
    BY <1>1, <1>2, <1>3, <1>4, <1>5 DEF PostStep

\* A sweep that drops a finding, remembers a row or moves on still fits.
LEMMA SweepUpdate ==
    ASSUME NEW o, SweepFits(o)
    PROVE  /\ \A f : /\ SweepFits([o EXCEPT !.todo = @ \ {f}])
                     /\ [o EXCEPT !.todo = @ \ {f}].step = o.step
                     /\ [o EXCEPT !.todo = @ \ {f}].held = o.held
                     /\ [o EXCEPT !.todo = @ \ {f}].expiring = o.expiring
           /\ \A r \in Rows, e \in Entry : /\ SweepFits(Remember(o, r, e))
                                           /\ Remember(o, r, e).step = o.step
           /\ \A x \in {"reconcile", "evaluate", "act", "expire", "beat"} :
                SweepFits([o EXCEPT !.step = x])
  <1>1. ASSUME NEW f
        PROVE  /\ SweepFits([o EXCEPT !.todo = @ \ {f}])
               /\ [o EXCEPT !.todo = @ \ {f}].step = o.step
               /\ [o EXCEPT !.todo = @ \ {f}].held = o.held
               /\ [o EXCEPT !.todo = @ \ {f}].expiring = o.expiring
    BY DEF SweepFits, SweepOps
  <1>2. ASSUME NEW r \in Rows, NEW e \in Entry
        PROVE  SweepFits(Remember(o, r, e)) /\ Remember(o, r, e).step = o.step
    BY DEF SweepFits, SweepOps, Remember
  <1>3. ASSUME NEW x \in {"reconcile", "evaluate", "act", "expire", "beat"}
        PROVE  SweepFits([o EXCEPT !.step = x])
    BY DEF SweepFits, SweepOps
  <1> QED
    BY <1>1, <1>2, <1>3

\* A sweep that only moves on keeps the types.
LEMMA SweepOnly ==
    ASSUME TypeInv, inbox' \in [Rows -> Entry], SweepFits(sweep'), sent' \subseteq (Rows \X Sessions),
           registered' \subseteq Rows, nextRow' \in 1..(MaxRows + 1), removed' \subseteq Rows,
           UNCHANGED <<post, sync, cancelled, EnvVars>>
    PROVE  TypeInv'
  BY DEF TypeInv, TypeOK, EnvVars, SweepFits

\* The sweep up to its findings keeps the types.
LEMMA TypeSweepBegin ==
    ASSUME TypeInv, SweepBegin \/ SweepReconcile \/ SweepEvaluate
    PROVE  TypeInv'
  <1>0. /\ inbox \in [Rows -> Entry] /\ SweepFits(sweep) /\ sent \subseteq (Rows \X Sessions)
        /\ nextRow \in 1..(MaxRows + 1) /\ removed \subseteq Rows /\ registered \subseteq Rows
    BY DEF TypeInv, TypeOK
  <1>1. CASE SweepBegin
    <2>1. SweepFits([IdleSweep EXCEPT !.step = "reconcile",
                                      !.gone = {s \in Sessions : seats[s] = "terminated"}])
      BY IdleType DEF SweepFits, SweepOps, IdleSweep
    <2>2. registered' \subseteq Rows
      BY <1>0, <1>1 DEF SweepBegin
    <2> QED
      BY <1>0, <1>1, <2>1, <2>2, SweepOnly DEF SweepBegin
  <1>2. CASE SweepReconcile
    <2> DEFINE gone == ConfirmedGone(inbox, sweep.gone)
    <2> DEFINE cur == [r \in Rows |-> IF r \in gone THEN [inbox[r] EXCEPT !.state = "ladder-resolved"]
                                      ELSE inbox[r]]
    <2> DEFINE keep == KeepIds(cur, faded, registered)
    <2>1. cur \in [Rows -> Entry]
      <3>1. \A r \in Rows : inbox[r] \in Entry /\ [inbox[r] EXCEPT !.state = "ladder-resolved"] \in Entry
        BY <1>0, EntryType, IdleType
      <3> QED
        BY <3>1
    <2>2. /\ \/ Replace(cur, keep)
             \/ UNCHANGED <<inbox, removed>>
          /\ sweep' = [sweep EXCEPT !.step = "evaluate", !.gone = {}, !.held = KeepOnly(cur, keep)]
      BY <1>2 DEF SweepReconcile
    <2> HIDE DEF cur, keep
    <2>3. inbox' \in [Rows -> Entry] /\ removed' \subseteq Rows /\ KeepOnly(cur, keep) \in [Rows -> Entry]
      BY <1>0, <2>1, <2>2, IdleType DEF Replace, KeepOnly
    <2>4. SweepFits(sweep')
      BY <1>0, <2>2, <2>3 DEF SweepFits, SweepOps
    <2> QED
      BY <1>0, <1>2, <2>3, <2>4, SweepOnly DEF SweepReconcile
  <1>3. CASE SweepEvaluate
    <2>1. PICK due \in SUBSET Redeliverable,
               over \in SUBSET {r \in DeadRows : ~Replaced(sweep.held[r])},
               fired \in SUBSET Causes, drain \in SUBSET Drainable :
            sweep' = [sweep EXCEPT !.step = "act", !.todo =
                UNION {RowFindings("redeliver", due), CauseFindings("escalation", fired),
                       RowFindings("rebind", {r \in DeadRows : Replaced(sweep.held[r])}),
                       RowFindings("grace", over), RowFindings("ttl", PendingHeld \cap old),
                       CauseFindings("state-signal", fired), RowFindings("drain", drain)}]
      BY <1>3 DEF SweepEvaluate
    <2>2. \A do \in OfRows, S \in SUBSET Rows : \A f \in RowFindings(do, S) : FindingFits(f)
      BY DEF RowFindings, FindingFits, Findings, FindingOrder, OfRows
    <2>3. \A kind \in {"escalation", "state-signal"} :
            \A f \in CauseFindings(kind, fired) : FindingFits(f)
      BY DEF CauseFindings, FindingFits, Findings, FindingOrder, OfRows
    <2>4. /\ due \in SUBSET Rows /\ over \in SUBSET Rows /\ drain \in SUBSET Rows
          /\ {r \in DeadRows : Replaced(sweep.held[r])} \in SUBSET Rows
          /\ PendingHeld \cap old \in SUBSET Rows
      BY DEF Redeliverable, DeadRows, Drainable, PendingHeld
    <2> DEFINE all == UNION {RowFindings("redeliver", due), CauseFindings("escalation", fired),
                       RowFindings("rebind", {r \in DeadRows : Replaced(sweep.held[r])}),
                       RowFindings("grace", over), RowFindings("ttl", PendingHeld \cap old),
                       CauseFindings("state-signal", fired), RowFindings("drain", drain)}
    <2>5. \A f \in all : FindingFits(f)
      BY <2>2, <2>3, <2>4 DEF OfRows
    <2> HIDE DEF all
    <2>6. all \subseteq Findings
      BY <2>5 DEF FindingFits
    <2>7. SweepFits(sweep')
      BY <1>0, <2>1, <2>5, <2>6 DEF SweepFits, SweepOps, all
    <2> QED
      BY <1>0, <1>3, <2>7, SweepOnly DEF SweepEvaluate
  <1> QED
    BY <1>1, <1>2, <1>3

\* Acting on a finding keeps the types.
LEMMA TypeAct ==
    ASSUME TypeInv, NEW f \in sweep.todo, Act(f)
    PROVE  TypeInv'
  <1>0. /\ inbox \in [Rows -> Entry] /\ SweepFits(sweep) /\ sent \subseteq (Rows \X Sessions)
        /\ nextRow \in 1..(MaxRows + 1) /\ removed \subseteq Rows /\ registered \subseteq Rows
        /\ FindingFits(f) /\ sweep.held \in [Rows -> Entry]
    BY DEF TypeInv, TypeOK, SweepFits, SweepOps
  <1>0a. SweepFits(Done(f)) /\ Done(f).expiring = sweep.expiring /\ Done(f).step = sweep.step
    BY <1>0, SweepUpdate DEF Done
  <1>1. CASE SkipFinding(f)
    BY <1>0, <1>0a, <1>1, SweepOnly DEF SkipFinding
  <1>2. CASE Redeliver(f)
    <2>1. f.row \in Rows /\ f \in Findings
      BY <1>0, <1>2 DEF Redeliver, FindingFits, OfRows
    <2>2. SweepFits([Done(f) EXCEPT !.step = "deliver", !.now = f])
      BY <1>0a, <2>1 DEF SweepFits, SweepOps
    <2> QED
      BY <1>0, <1>2, <2>2, SweepOnly DEF Redeliver
  <1>3. CASE RebindDue(f)
    <2>1. f.row \in Rows
      BY <1>0, <1>3 DEF RebindDue, FindingFits, OfRows
    <2>2. CASE sweep' = Done(f) /\ UNCHANGED inbox
      BY <1>0, <1>0a, <1>3, <2>2, SweepOnly DEF RebindDue
    <2>3. ASSUME NEW x \in RowOwner(sweep.held[f.row], seats) \ {sweep.held[f.row].agent},
                 Append(f.row, RebindEntry(sweep.held[f.row], x)),
                 sweep' = Remember(Done(f), f.row, RebindEntry(sweep.held[f.row], x))
          PROVE  TypeInv'
      <3>1. x \in Sessions
        BY DEF RowOwner, Occupant, Running
      <3>2. RebindEntry(sweep.held[f.row], x) \in Entry
        BY <1>0, <2>1, <3>1, EntryType, IdleType
      <3>3. inbox' \in [Rows -> Entry] /\ SweepFits(sweep')
        BY <1>0, <1>0a, <2>1, <2>3, <3>2, StoreType, SweepUpdate DEF Append
      <3> QED
        BY <1>0, <1>3, <3>3, SweepOnly DEF RebindDue
    <2> QED
      BY <1>3, <2>2, <2>3 DEF RebindDue
  <1>4. CASE PrepareExpiry(f)
    <2>1. f.row \in Rows
      BY <1>0, <1>4 DEF PrepareExpiry, FindingFits, OfRows
    <2>2. \E S \in SUBSET Rows : sweep' = [Done(f) EXCEPT !.expiring = S]
      <3>1. sweep.expiring \in SUBSET Rows
        BY <1>0 DEF SweepFits, SweepOps
      <3> QED
        BY <1>0a, <1>4, <2>1, <3>1 DEF PrepareExpiry
    <2>3. SweepFits(sweep')
      BY <1>0a, <2>2 DEF SweepFits, SweepOps
    <2> QED
      BY <1>0, <1>4, <2>3, SweepOnly DEF PrepareExpiry
  <1>5. CASE PostOwnerSignal(f)
    <2>1. f.cause \in Causes
      BY <1>0, <1>5 DEF PostOwnerSignal, FindingFits, OfRows
    <2>2. PICK owner \in PostAgents("owner") :
            LET same == Coalescible(f.cause, owner)
                r == IF same = {} THEN nextRow ELSE CHOOSE q \in same : \A o \in same : q <= o
                e == IF same = {} THEN CreateEntry(CauseKind[f.cause], TRUE, owner, FALSE, f.cause)
                     ELSE RenewEntry(sweep.held[r], owner)
            IN /\ r \in Rows
               /\ Append(r, e)
               /\ nextRow' = IF same = {} THEN nextRow + 1 ELSE nextRow
               /\ sweep' = Remember([Done(f) EXCEPT !.step = "deliver", !.now = [f EXCEPT !.row = r]],
                                    r, e)
      BY <1>5 DEF PostOwnerSignal
    <2> DEFINE same == Coalescible(f.cause, owner)
    <2> DEFINE r == IF same = {} THEN nextRow ELSE CHOOSE q \in same : \A o \in same : q <= o
    <2> DEFINE e == IF same = {} THEN CreateEntry(CauseKind[f.cause], TRUE, owner, FALSE, f.cause)
                    ELSE RenewEntry(sweep.held[r], owner)
    <2> DEFINE g == [f EXCEPT !.row = r]
    <2>3. r \in Rows
      BY <2>2
    <2>4. owner \in Sessions \cup {NoSession}
      BY AddressType
    <2>5. e \in Entry
      <3>1. CauseKind[f.cause] \in Kinds /\ f.cause \in Causes \cup {NoCause}
        BY <2>1, InboxConstants DEF Kinds
      <3>2. CreateEntry(CauseKind[f.cause], TRUE, owner, FALSE, f.cause) \in Entry
        BY <2>4, <3>1, CreateType
      <3>3. RenewEntry(sweep.held[r], owner) \in Entry
        BY <1>0, <2>3, <2>4, EntryType, IdleType
      <3> QED
        BY <3>2, <3>3
    <2>6. /\ Append(r, e) /\ sweep' = Remember([Done(f) EXCEPT !.step = "deliver", !.now = g], r, e)
          /\ nextRow' = IF same = {} THEN nextRow + 1 ELSE nextRow
      BY <2>2
    <2>7. nextRow' \in 1..(MaxRows + 1)
      BY <1>0, <2>3, <2>6, InboxConstants DEF Rows
    <2> HIDE DEF r, e, same
    <2>8. g \in Findings /\ g.row = r
      BY <1>0, <2>3 DEF FindingFits, Findings
    <2> HIDE DEF g
    <2>9. SweepFits([Done(f) EXCEPT !.step = "deliver", !.now = g])
      BY <1>0a, <2>3, <2>8 DEF SweepFits, SweepOps
    <2>10. inbox' \in [Rows -> Entry] /\ SweepFits(sweep')
      BY <1>0, <2>3, <2>5, <2>6, <2>9, StoreType, SweepUpdate DEF Append
    <2> QED
      BY <1>0, <1>5, <2>7, <2>10, SweepOnly DEF PostOwnerSignal
  <1> QED
    BY <1>1, <1>2, <1>3, <1>4, <1>5 DEF Act

\* The sweep's deliveries and its last steps keep the types.
LEMMA TypeSweepEnd ==
    ASSUME TypeInv,
           \/ SweepDeliver \/ SweepRecord \/ MarkUnresolved
           \/ ActDone \/ ExpireBatch \/ Heartbeat
    PROVE  TypeInv'
  <1>0. /\ inbox \in [Rows -> Entry] /\ SweepFits(sweep) /\ sent \subseteq (Rows \X Sessions)
        /\ nextRow \in 1..(MaxRows + 1) /\ removed \subseteq Rows /\ registered \subseteq Rows
        /\ sweep.held \in [Rows -> Entry] /\ sweep.try \in Tries
    BY DEF TypeInv, TypeOK, SweepFits, SweepOps
  <1>1. CASE SweepDeliver
    <2>1. sweep.now.row \in Rows
      BY <1>0, <1>1 DEF SweepDeliver, SweepFits
    <2>2. PICK t \in Attempts(sweep.now.row, sweep.held[sweep.now.row], seats, boundary, sent) :
            Reach(sweep.now.row, t) /\ sweep' = [sweep EXCEPT !.step = "record", !.try = t]
      BY <1>1 DEF SweepDeliver
    <2>3. t \in Tries /\ (t.reached => t.session \in Sessions)
      BY <1>0, <2>1, AttemptFits DEF TryFits
    <2>4. SweepFits(sweep')
      BY <1>0, <2>1, <2>2, <2>3 DEF SweepFits, SweepOps
    <2>5. sent' \subseteq (Rows \X Sessions)
      BY <1>0, <2>1, <2>2, <2>3, ReachType
    <2> QED
      BY <1>0, <1>1, <2>4, <2>5, SweepOnly DEF SweepDeliver
  <1>2. CASE SweepRecord
    <2> DEFINE r == sweep.now.row
    <2>1. r \in Rows
      BY <1>0, <1>2 DEF SweepRecord, SweepFits
    <2>1a. inbox[r] \in Entry /\ sweep.held[r] \in Entry
      BY <1>0, <2>1
    <2>2. Land(inbox[r], sweep.try) \in Entry /\ Evidence(sweep.held[r], sweep.try) \in Entry
      BY <1>0, <2>1a, EntryType
    <2>3. ASSUME NEW e \in Entry PROVE SweepFits(Recorded(r, e))
      <3>1. SweepFits(Remember(sweep, r, e)) /\ Remember(sweep, r, e).now.row = r
        BY <1>0, <2>1, SweepUpdate DEF Remember, SweepFits, SweepOps
      <3>2. SweepFits([[Remember(sweep, r, e) EXCEPT !.try = NoTry] EXCEPT !.step = "unresolve"])
        BY <2>1, <3>1, IdleType DEF SweepFits, SweepOps
      <3>3. SweepFits([[Remember(sweep, r, e) EXCEPT !.try = NoTry] EXCEPT !.step = "act", !.now = NoFinding])
        BY <2>1, <3>1, IdleType DEF SweepFits, SweepOps
      <3> QED
        BY <3>2, <3>3 DEF Recorded
    <2>4. \/ sweep' = IdleSweep /\ UNCHANGED inbox
          \/ /\ inbox' = [inbox EXCEPT ![r] = Land(inbox[r], sweep.try)]
             /\ sweep' = Recorded(r, Land(inbox[r], sweep.try))
          \/ /\ inbox' = [inbox EXCEPT ![r] = Fold(@, Evidence(sweep.held[r], sweep.try))]
             /\ sweep' = Recorded(r, Evidence(sweep.held[r], sweep.try))
      BY <1>2 DEF SweepRecord, Append
    <2> HIDE DEF r
    <2>5. inbox' \in [Rows -> Entry]
      BY <1>0, <2>1, <2>2, <2>4, StoreType
    <2>6. SweepFits(sweep')
      BY <2>2, <2>3, <2>4, IdleType
    <2> QED
      BY <1>0, <1>2, <2>5, <2>6, SweepOnly DEF SweepRecord
  <1>3. CASE MarkUnresolved
    <2> DEFINE r == sweep.now.row
    <2> DEFINE e == Mark(inbox[r], "unresolved")
    <2>1. r \in Rows
      BY <1>0, <1>3 DEF MarkUnresolved, SweepFits
    <2>2. e \in Entry
      <3>1. "unresolved" \in TerminalStates
        BY DEF TerminalStates
      <3> QED
        BY <1>0, <2>1, <3>1, EntryType, IdleType
    <2>3. \/ /\ inbox' = [inbox EXCEPT ![r] = e]
             /\ sweep' = [Remember(sweep, r, e) EXCEPT !.step = "act", !.now = NoFinding]
          \/ sweep' = [sweep EXCEPT !.step = "act", !.now = NoFinding] /\ UNCHANGED inbox
      BY <1>3 DEF MarkUnresolved
    <2> HIDE DEF r, e
    <2>4. SweepFits(Remember(sweep, r, e))
      BY <1>0, <2>1, <2>2, SweepUpdate
    <2>5. /\ SweepFits([sweep EXCEPT !.step = "act", !.now = NoFinding])
          /\ SweepFits([Remember(sweep, r, e) EXCEPT !.step = "act", !.now = NoFinding])
      <3>1. ASSUME NEW o, SweepFits(o)
            PROVE  SweepFits([o EXCEPT !.step = "act", !.now = NoFinding])
        BY <3>1, IdleType DEF SweepFits, SweepOps
      <3> QED
        BY <1>0, <2>4, <3>1
    <2>6. inbox' \in [Rows -> Entry]
      BY <1>0, <2>1, <2>2, <2>3
    <2>7. SweepFits(sweep')
      BY <2>3, <2>5
    <2> QED
      BY <1>0, <1>3, <2>6, <2>7, SweepOnly DEF MarkUnresolved
  <1>4. CASE ActDone
    <2>1. SweepFits([sweep EXCEPT !.step = "expire", !.held = NoRows])
      BY <1>0, IdleType DEF SweepFits, SweepOps
    <2> QED
      BY <1>0, <1>4, <2>1, SweepOnly DEF ActDone
  <1>5. CASE ExpireBatch
    <2>1. SweepFits([IdleSweep EXCEPT !.step = "beat"])
      BY IdleType, SweepUpdate
    <2>2. inbox' \in [Rows -> Entry]
      <3>1. \A r \in Rows : inbox[r] \in Entry /\ Mark(inbox[r], "expired") \in Entry
        BY <1>0, EntryType, IdleType DEF TerminalStates
      <3> QED
        BY <1>0, <1>5, <3>1 DEF ExpireBatch
    <2> QED
      BY <1>0, <1>5, <2>1, <2>2, SweepOnly, IdleType DEF ExpireBatch
  <1>6. CASE Heartbeat
    BY <1>0, <1>6, SweepOnly, IdleType DEF Heartbeat
  <1> QED
    BY <1>1, <1>2, <1>3, <1>4, <1>5, <1>6

\* The completions and the tools keep the types.
LEMMA TypeTools ==
    ASSUME TypeInv,
           Tools \/ (\E s \in Sessions : SyncBegin(s)) \/ (\E r \in Rows : SyncComplete(r))
    PROVE  TypeInv'
  <1> USE DEF EnvVars
  <1>0. /\ inbox \in [Rows -> Entry] /\ removed \subseteq Rows
        /\ sync \in [todo : SUBSET Rows, held : [Rows -> Entry]]
    BY DEF TypeInv, TypeOK
  <1>1. ASSUME NEW s \in Sessions, SyncBegin(s) PROVE TypeInv'
    <2>1. PICK S \in SUBSET Rows : sync' = [todo |-> S, held |-> KeepOnly(inbox, S)]
      BY <1>1 DEF SyncBegin
    <2>2. KeepOnly(inbox, S) \in [Rows -> Entry]
      BY <1>0, IdleType DEF KeepOnly
    <2>3. sync' \in [todo : SUBSET Rows, held : [Rows -> Entry]]
      BY <2>1, <2>2
    <2> QED
      BY <1>1, <2>3 DEF SyncBegin, TypeInv, TypeOK
  <1>2. ASSUME NEW r \in Rows, SyncComplete(r) PROVE TypeInv'
    <2>1. CompleteEntry(sync.held[r]) \in Entry
      BY <1>0, EntryType, IdleType
    <2>2. inbox' \in [Rows -> Entry]
      BY <1>0, <1>2, <2>1, StoreType DEF SyncComplete, Append
    <2>3. sync' \in [todo : SUBSET Rows, held : [Rows -> Entry]]
      BY <1>0, <1>2, IdleType DEF SyncComplete
    <2> QED
      BY <1>2, <2>2, <2>3 DEF SyncComplete, TypeInv, TypeOK
  <1>3. ASSUME NEW r \in Rows, Consume(r) PROVE TypeInv'
    <2>1. inbox' \in [Rows -> Entry]
      BY <1>0, <1>3, EntryType, IdleType DEF Consume
    <2> QED
      BY <1>3, <2>1 DEF Consume, TypeInv, TypeOK
  <1>4. ASSUME NEW r \in Rows, Supersede(r) PROVE TypeInv'
    <2>1. Mark(inbox[r], "superseded") \in Entry
      BY <1>0, EntryType, IdleType DEF TerminalStates
    <2>2. inbox' \in [Rows -> Entry]
      BY <1>0, <1>4, <2>1 DEF Supersede
    <2> QED
      BY <1>4, <2>2 DEF Supersede, TypeInv, TypeOK
  <1>5. CASE CancelGate
    <2>1. inbox' \in [Rows -> Entry] /\ removed' \subseteq Rows
      BY <1>0, <1>5, IdleType DEF CancelGate, Replace, KeepOnly
    <2> QED
      BY <1>5, <2>1 DEF CancelGate, TypeInv, TypeOK
  <1> QED
    BY <1>1, <1>2, <1>3, <1>4, <1>5 DEF Tools

\* Sessions that come and go, time that passes and crashes keep the types.
LEMMA TypeEnvironment ==
    ASSUME TypeInv, Environment
    PROVE  TypeInv'
  <1>1. ASSUME NEW s \in Sessions, Spawn(s) \/ TurnChange(s) \/ Terminate(s) PROVE TypeInv'
    BY <1>1 DEF Spawn, TurnChange, Terminate, TypeInv, TypeOK
  <1>2. ASSUME NEW r \in Rows, PendingTTL(r) \/ MarkerTTL(r) PROVE TypeInv'
    BY <1>2 DEF PendingTTL, MarkerTTL, TypeInv, TypeOK
  <1>3. CASE Crash
    <2>1. post' \in [Posters -> PostOps] /\ \A p \in Posters : PostFits(post'[p])
      BY <1>3, IdleType DEF Crash, TypeInv, TypeOK, PostFits
    <2>2. SweepFits(sweep') /\ sync' \in [todo : SUBSET Rows, held : [Rows -> Entry]]
      BY <1>3, IdleType DEF Crash, TypeInv, TypeOK
    <2>3. crashes' \in 0..MaxCrashes
      BY <1>3, PostConstants DEF Crash, TypeInv, TypeOK
    <2> QED
      BY <1>3, <2>1, <2>2, <2>3 DEF Crash, TypeInv, TypeOK, SweepFits
  <1> QED
    BY <1>1, <1>2, <1>3 DEF Environment

\* Every step keeps the types.
LEMMA TypeNext == TypeInv /\ [Next]_vars => TypeInv'
  <1> SUFFICES ASSUME TypeInv, [Next]_vars PROVE TypeInv'
    OBVIOUS
  <1>1. CASE UNCHANGED vars
    BY <1>1 DEF vars, TypeInv, TypeOK
  <1>2. CASE Next
    BY <1>2, TypePost, TypeSweepBegin, TypeAct, TypeSweepEnd, TypeTools, TypeEnvironment
    DEF Next, SweepStep
  <1> QED
    BY <1>1, <1>2

\* Type correctness: whatever the interleaving of posts, sweeps, completions and
\* tools, every row of the fold and every operation in flight is well formed.
THEOREM InboxTypeCorrect == Spec => []TypeOK
  <1>1. Init => TypeInv
    BY TypeInit
  <1>2. TypeInv /\ [Next]_vars => TypeInv'
    BY TypeNext
  <1>3. TypeInv => TypeOK
    BY DEF TypeInv
  <1> QED
    BY <1>1, <1>2, <1>3, PTL DEF Spec

-----------------------------------------------------------------------------
(* The inductive invariant.  A row is written from copies that posts, the   *)
(* sweep and the synchronizer hold, so what is claimed of the fold is       *)
(* claimed of every copy.                                                   *)

\* A snapshot that landed, or that an adapter accepted, was put in front of
\* some session: `S` holds the prompts that adapters got.
Backed(S, r, e) ==
    e.state = "landed" \/ e.adapter = "accepted" => \E s \in Sessions : <<r, s>> \in S

BackedTry(S, r, t) == t.adapter = "accepted" => \E s \in Sessions : <<r, s>> \in S

SentInv ==
    /\ \A r \in Rows : /\ Backed(sent, r, inbox[r])
                       /\ Backed(sent, r, sweep.held[r])
                       /\ Backed(sent, r, sync.held[r])
    /\ \A p \in Posters : /\ Backed(sent, post[p].row, post[p].entry)
                          /\ BackedTry(sent, post[p].row, post[p].try)
    /\ sweep.step = "record" => BackedTry(sent, sweep.now.row, sweep.try)

\* A terminal copy agrees with its row, unless the row was removed.
Agrees(fold, gone, r, e) == Terminal(e) /\ r \in Rows \ gone => fold[r].state = e.state

CopyInv ==
    /\ \A r \in Rows : /\ Agrees(inbox, removed, r, sweep.held[r])
                       /\ Agrees(inbox, removed, r, sync.held[r])
    /\ \A p \in Posters : Agrees(inbox, removed, post[p].row, post[p].entry)

\* What is about to be appended is a row.
HeldInv ==
    /\ \A p \in Posters : post[p].step = "record" => Present(post[p].entry)
    /\ sweep.step \in {"deliver", "record"} => Present(sweep.held[sweep.now.row])
    /\ \A r \in sync.todo : Present(sync.held[r])

IInv == TypeInv /\ SentInv /\ CopyInv /\ HeldInv

\* What a step does to the rows: a terminal state is kept until the row is
\* removed, and an unproven turn report that no gate is tied to is not removed.
StepKeeps ==
    /\ removed \subseteq removed'
    /\ \A r \in Rows : r \in removed' /\ r \notin removed => ~Present(inbox'[r])
    /\ \A r \in Rows \ removed' : Terminal(inbox[r]) => inbox'[r].state = inbox[r].state
    /\ \A r \in Rows : /\ inbox[r].kind = "turn-report" /\ Present(inbox[r])
                       /\ ~inbox[r].gated /\ r \notin registered
                       => Present(inbox'[r])

\* A copy that a step makes, or one it leaves behind.
Fresh(r, e) == Backed(sent', r, e) /\ Agrees(inbox', removed', r, e)

\* The absence of a row is a fresh copy of any row, and the absence of an
\* attempt claims nothing.
LEMMA NothingFresh ==
    /\ \A r : Fresh(r, NoEntry)
    /\ \A r, S : BackedTry(S, r, NoTry)
    /\ ~Present(NoEntry)
  BY DEF Fresh, Backed, BackedTry, Agrees, NoEntry, NoTry, Try, Terminal, TerminalStates, Present

\* If a step keeps the rows, and every copy is either an old one or a fresh one,
\* the claims about copies are kept.
LEMMA Carry ==
    ASSUME IInv, TypeInv', StepKeeps, sent \subseteq sent',
           \A r \in Rows : Backed(sent', r, inbox'[r]),
           \A r \in Rows : sweep'.held[r] = sweep.held[r] \/ Fresh(r, sweep'.held[r]),
           \A r \in Rows : sync'.held[r] = sync.held[r] \/ Fresh(r, sync'.held[r]),
           \A p \in Posters :
                \/ post'[p].row = post[p].row /\ post'[p].entry = post[p].entry
                \/ Fresh(post'[p].row, post'[p].entry),
           \A p \in Posters :
                \/ post'[p].row = post[p].row /\ post'[p].try = post[p].try
                \/ BackedTry(sent', post'[p].row, post'[p].try),
           sweep'.step = "record" => BackedTry(sent', sweep'.now.row, sweep'.try)
    PROVE  SentInv' /\ CopyInv'
  <1>1. \A r, e : Backed(sent, r, e) => Backed(sent', r, e)
    BY DEF Backed
  <1>2. \A r, t : BackedTry(sent, r, t) => BackedTry(sent', r, t)
    BY DEF BackedTry
  <1>3. \A r, e : Agrees(inbox, removed, r, e) => Agrees(inbox', removed', r, e)
    BY DEF Agrees, StepKeeps, Terminal
  <1>4. \A r, e : Backed(sent, r, e) /\ Agrees(inbox, removed, r, e) => Fresh(r, e)
    BY <1>1, <1>3 DEF Fresh
  <1>5. \A r \in Rows : Fresh(r, sweep'.held[r]) /\ Fresh(r, sync'.held[r])
    BY <1>4 DEF IInv, SentInv, CopyInv
  <1>6. \A p \in Posters : Fresh(post'[p].row, post'[p].entry)
    BY <1>4 DEF IInv, SentInv, CopyInv
  <1>7. \A p \in Posters : BackedTry(sent', post'[p].row, post'[p].try)
    BY <1>2 DEF IInv, SentInv
  <1>8. SentInv'
    BY <1>5, <1>6, <1>7 DEF SentInv, Fresh
  <1>9. CopyInv'
    BY <1>5, <1>6 DEF CopyInv, Fresh
  <1> QED
    BY <1>8, <1>9

\* What the transitions do to the state of a row, and to what it claims: an
\* attempt's evidence, ...
LEMMA EvidenceBacked ==
    ASSUME NEW r, NEW S, NEW e \in Entry, NEW t \in Tries, Backed(S, r, e), BackedTry(S, r, t)
    PROVE  Backed(S, r, Evidence(e, t)) /\ Evidence(e, t).state = e.state
  BY DEF Evidence, Backed, BackedTry, Entry

\* ... a landing, ...
LEMMA LandBacked ==
    ASSUME NEW r, NEW S, NEW e \in Entry, NEW t \in Tries, Backed(S, r, e), BackedTry(S, r, t),
           t.adapter = "accepted"
    PROVE  /\ Backed(S, r, Land(e, t))
           /\ Terminal(e) => Land(e, t).state = e.state
           /\ Present(e) => Present(Land(e, t))
  <1>1. Evidence(e, t) \in Entry
    BY EntryType
  <1> QED
    BY <1>1 DEF Land, Backed, BackedTry, Entry, Terminal, TerminalStates, Pending, Present

\* ... another terminal marker, ...
LEMMA MarkBacked ==
    ASSUME NEW r, NEW S, NEW e \in Entry, NEW x \in TerminalStates \ {"landed"}, Backed(S, r, e)
    PROVE  /\ Backed(S, r, Mark(e, x))
           /\ Terminal(e) => Mark(e, x).state = e.state
           /\ Present(e) => Present(Mark(e, x))
  BY DEF Mark, Backed, Entry, Terminal, TerminalStates, Pending, Present

\* ... and the transitions that leave the state alone.
LEMMA UpdateBacked ==
    ASSUME NEW r, NEW S, NEW e \in Entry, NEW x, Backed(S, r, e)
    PROVE  /\ Backed(S, r, ConsumeEntry(e)) /\ ConsumeEntry(e).state = e.state
           /\ Backed(S, r, CompleteEntry(e)) /\ CompleteEntry(e).state = e.state
           /\ Backed(S, r, RebindEntry(e, x)) /\ RebindEntry(e, x).state = e.state
           /\ Backed(S, r, RenewEntry(e, x)) /\ RenewEntry(e, x).state = e.state
  <1>1. /\ Backed(S, r, ConsumeEntry(e)) /\ ConsumeEntry(e).state = e.state
        /\ Backed(S, r, CompleteEntry(e)) /\ CompleteEntry(e).state = e.state
    BY DEF ConsumeEntry, CompleteEntry, Backed, Entry
  <1>2. /\ Backed(S, r, RebindEntry(e, x)) /\ RebindEntry(e, x).state = e.state
        /\ Backed(S, r, RenewEntry(e, x)) /\ RenewEntry(e, x).state = e.state
    BY DEF RebindEntry, RenewEntry, Backed, Entry
  <1> QED
    BY <1>1, <1>2

\* Appending a copy that agrees with its row, and claims nothing unbacked.
LEMMA AppendKeeps ==
    ASSUME IInv, TypeInv', NEW r \in Rows, NEW e \in Entry, Append(r, e), Present(e),
           Backed(sent', r, e), Agrees(inbox, removed, r, e),
           removed' = removed, sent \subseteq sent'
    PROVE  /\ StepKeeps /\ Fresh(r, e)
           /\ \A q \in Rows : Backed(sent', q, inbox'[q])
  <1>1. /\ inbox \in [Rows -> Entry] /\ inbox' = [inbox EXCEPT ![r] = Fold(inbox[r], e)]
        /\ \A q \in Rows : Backed(sent, q, inbox[q])
    BY DEF IInv, TypeInv, TypeOK, SentInv, Append
  <1>2. \A q \in Rows : q # r => inbox'[q] = inbox[q]
    BY <1>1
  <1>3. inbox'[r] = Fold(inbox[r], e)
    BY <1>1
  <1>4. \/ inbox'[r] = inbox[r] /\ Terminal(inbox[r]) /\ Pending(e)
        \/ inbox'[r] = e /\ ~(Terminal(inbox[r]) /\ Pending(e))
    BY <1>3 DEF Fold
  <1>5. Terminal(e) \/ Pending(e)
    BY DEF Terminal, Pending, Present, Entry, States
  <1>6. Terminal(inbox[r]) /\ r \notin removed => inbox'[r].state = inbox[r].state
    BY <1>4, <1>5 DEF Agrees
  <1>7. Present(inbox'[r])
    BY <1>4 DEF Present, Terminal, TerminalStates
  <1>8. StepKeeps
    BY <1>2, <1>6, <1>7 DEF StepKeeps
  <1>9. \A q \in Rows : Backed(sent', q, inbox'[q])
    BY <1>1, <1>2, <1>4 DEF Backed
  <1>10. Agrees(inbox', removed', r, e)
    BY <1>4 DEF Agrees, Terminal, Pending, TerminalStates
  <1> QED
    BY <1>8, <1>9, <1>10 DEF Fresh

\* Writing the latest snapshot's own successor, under the lock.
LEMMA InPlaceKeeps ==
    ASSUME IInv, NEW r \in Rows, NEW e \in Entry, inbox' = [inbox EXCEPT ![r] = e],
           Terminal(inbox[r]) => e.state = inbox[r].state, Present(inbox[r]) => Present(e),
           Backed(sent', r, e), removed' = removed, sent \subseteq sent'
    PROVE  /\ StepKeeps /\ Fresh(r, e)
           /\ \A q \in Rows : Backed(sent', q, inbox'[q])
  <1>1. /\ inbox \in [Rows -> Entry] /\ \A q \in Rows : Backed(sent, q, inbox[q])
    BY DEF IInv, TypeInv, TypeOK, SentInv
  <1>2. inbox'[r] = e /\ \A q \in Rows : q # r => inbox'[q] = inbox[q]
    BY <1>1
  <1>3. StepKeeps
    BY <1>2 DEF StepKeeps
  <1>4. \A q \in Rows : Backed(sent', q, inbox'[q])
    BY <1>1, <1>2 DEF Backed
  <1> QED
    BY <1>2, <1>3, <1>4 DEF Fresh, Agrees

\* A step that leaves the rows alone.
LEMMA SameKeeps ==
    ASSUME IInv, UNCHANGED <<inbox, removed>>, sent \subseteq sent'
    PROVE  StepKeeps /\ \A q \in Rows : Backed(sent', q, inbox'[q])
  BY DEF IInv, SentInv, StepKeeps, Backed

-----------------------------------------------------------------------------
(* Which rows a compaction keeps.                                           *)

\* An unproven report is always kept, and whatever else is kept is pending or
\* carries a marker other than ladder-resolved: the cap only drops rows.
LEMMA KeepIdsKeeps ==
    ASSUME NEW cur, NEW F, NEW G
    PROVE  /\ ProtectedReports(cur, G) \subseteq KeepIds(cur, F, G)
           /\ \A r \in KeepIds(cur, F, G) :
                r \in Rows /\ (r \in ProtectedReports(cur, G) \/ cur[r].state # "ladder-resolved")
  <1> DEFINE protected == ProtectedReports(cur, G)
  <1> DEFINE kept == protected \cup {r \in Rows : KeepEntry(cur[r], r \in F)}
  <1>1. \A S, n : Newest(S, n) \subseteq S
    BY DEF Newest
  <1>2. protected \subseteq Evict(cur, kept, protected) /\ Evict(cur, kept, protected) \subseteq kept
    <2> HIDE DEF kept, protected
    <2>1. protected \subseteq kept
      BY DEF kept
    <2> QED
      BY <1>1, <2>1 DEF Evict
  <1>3. KeepIds(cur, F, G) = IF Cardinality(kept) > Cap THEN Evict(cur, kept, protected) ELSE kept
    BY DEF KeepIds
  <1>4. \A r \in kept : r \in Rows /\ (r \in protected \/ cur[r].state # "ladder-resolved")
    BY DEF KeepEntry, Pending, ProtectedReports
  <1> HIDE DEF kept
  <1>5. protected \subseteq KeepIds(cur, F, G) /\ KeepIds(cur, F, G) \subseteq kept
    <2>1. protected \subseteq kept
      BY DEF kept
    <2> QED
      BY <1>2, <1>3, <2>1
  <1> QED
    BY <1>4, <1>5

\* Replacing the file by rows among which are the unproven reports that no gate
\* is tied to.
LEMMA ReplaceKeeps ==
    ASSUME IInv, NEW ids, Replace(inbox, ids), sent \subseteq sent',
           \A r \in Rows : /\ inbox[r].kind = "turn-report" /\ Present(inbox[r])
                           /\ ~inbox[r].gated /\ r \notin registered
                           => r \in ids
    PROVE  /\ StepKeeps
           /\ \A q \in Rows : Backed(sent', q, inbox'[q])
           /\ \A q \in Rows \cap ids : inbox'[q] = inbox[q]
  <1>1. \A q \in Rows : inbox'[q] = IF q \in ids THEN inbox[q] ELSE NoEntry
    BY DEF Replace, KeepOnly
  <1>2. removed' = removed \cup {r \in Rows : Present(inbox[r]) /\ r \notin ids}
    BY DEF Replace
  <1>3. \A q \in Rows : Backed(sent, q, inbox[q])
    BY DEF IInv, SentInv
  <1>4. \A q : Backed(sent', q, NoEntry)
    BY NothingFresh DEF Fresh
  <1>5. StepKeeps
    <2>1. \A r \in Rows : Terminal(inbox[r]) => Present(inbox[r])
      BY DEF Terminal, Present, TerminalStates
    <2> QED
      BY <1>1, <1>2, <2>1, NothingFresh DEF StepKeeps
  <1>6. \A q \in Rows : Backed(sent', q, inbox'[q])
    BY <1>1, <1>3, <1>4 DEF Backed
  <1> QED
    BY <1>1, <1>5, <1>6

-----------------------------------------------------------------------------
(* Every step keeps the invariant, and the rows.                            *)

\* What an attempt says, its adapter call backs.
LEMMA ReachBacks ==
    ASSUME NEW r, NEW e, NEW t, TryFits(t, r, e, sent), Backed(sent, r, e), Reach(r, t)
    PROVE  sent \subseteq sent' /\ BackedTry(sent', r, t)
  <1>1. sent \subseteq sent' /\ (t.reached => <<r, t.session>> \in sent')
    BY DEF Reach
  <1> QED
    BY <1>1 DEF TryFits, Backed, BackedTry

\* The absence of an operation claims nothing.
LEMMA IdleFresh ==
    /\ IdlePost.step = "idle" /\ Fresh(IdlePost.row, IdlePost.entry)
    /\ \A S : BackedTry(S, IdlePost.row, IdlePost.try)
    /\ IdleSweep.step = "idle" /\ \A r \in Rows : Fresh(r, IdleSweep.held[r])
    /\ IdleSync.todo = {} /\ \A r \in Rows : Fresh(r, IdleSync.held[r])
  <1>1. \A r \in Rows : NoRows[r] = NoEntry
    BY DEF NoRows
  <1> QED
    BY <1>1, NothingFresh DEF IdlePost, IdleSweep, IdleSync

\* A step that changes one poster's operation, and perhaps the rows.
LEMMA PostCarry ==
    ASSUME IInv, TypeInv', StepKeeps, sent \subseteq sent',
           \A r \in Rows : Backed(sent', r, inbox'[r]),
           NEW p \in Posters, NEW o, post' = [post EXCEPT ![p] = o], UNCHANGED <<sweep, sync>>,
           (o.row = post[p].row /\ o.entry = post[p].entry) \/ Fresh(o.row, o.entry),
           (o.row = post[p].row /\ o.try = post[p].try) \/ BackedTry(sent', o.row, o.try),
           o.step = "record" => Present(o.entry)
    PROVE  IInv'
  <1>1. post'[p] = o /\ \A q \in Posters \ {p} : post'[q] = post[q]
    BY DEF IInv, TypeInv, TypeOK
  <1>2. HeldInv'
    BY <1>1 DEF IInv, HeldInv
  <1>3. sweep'.step = "record" => BackedTry(sent', sweep'.now.row, sweep'.try)
    BY DEF IInv, SentInv, BackedTry
  <1>4. \A q \in Posters :
            \/ post'[q].row = post[q].row /\ post'[q].entry = post[q].entry
            \/ Fresh(post'[q].row, post'[q].entry)
    BY <1>1
  <1>5. \A q \in Posters :
            \/ post'[q].row = post[q].row /\ post'[q].try = post[q].try
            \/ BackedTry(sent', post'[q].row, post'[q].try)
    BY <1>1
  <1>6. SentInv' /\ CopyInv'
    BY <1>3, <1>4, <1>5, Carry
  <1> QED
    BY <1>2, <1>6 DEF IInv

\* The steps of a post.
LEMMA KeepsPost ==
    ASSUME IInv, NEW p \in Posters, TypeInv',
           (\E x \in Posts : PostAppend(p, x)) \/ PostStep(p)
    PROVE  IInv' /\ StepKeeps
  <1>0. /\ inbox \in [Rows -> Entry] /\ post \in [Posters -> PostOps] /\ PostFits(post[p])
        /\ post[p] \in PostOps /\ post[p].try \in Tries /\ post[p].entry \in Entry
        /\ \A r \in Rows : Backed(sent, r, inbox[r])
        /\ Backed(sent, post[p].row, post[p].entry) /\ BackedTry(sent, post[p].row, post[p].try)
        /\ Agrees(inbox, removed, post[p].row, post[p].entry)
    BY DEF IInv, TypeInv, TypeOK, PostOps, SentInv, CopyInv
  <1>1. ASSUME NEW x \in Posts, PostAppend(p, x) PROVE IInv' /\ StepKeeps
    <2>1. PICK agent \in PostAgents(x.address) :
            LET e == CreateEntry(x.kind, x.address # "exact", agent, x.gated, NoCause) IN
            /\ Append(nextRow, e)
            /\ post' = [post EXCEPT ![p] = [IdlePost EXCEPT !.step = "compact", !.row = nextRow,
                                                           !.entry = e]]
      BY <1>1 DEF PostAppend
    <2> DEFINE e == CreateEntry(x.kind, x.address # "exact", agent, x.gated, NoCause)
    <2> DEFINE o == [IdlePost EXCEPT !.step = "compact", !.row = nextRow, !.entry = e]
    <2>2. /\ x.kind \in Kinds /\ (x.address # "exact") \in BOOLEAN /\ x.gated \in BOOLEAN
          /\ agent \in Sessions \cup {NoSession}
      BY PostConstants, AddressType DEF Kinds
    <2>3. e \in Entry /\ Pending(e)
      BY <2>2, CreateType
    <2>4. e.adapter = "none"
      BY DEF CreateEntry, NoEntry
    <2>5. nextRow \in Rows /\ sent' = sent /\ removed' = removed /\ UNCHANGED <<sweep, sync>>
      BY <1>1 DEF PostAppend
    <2>6. Append(nextRow, e) /\ post' = [post EXCEPT ![p] = o]
      BY <2>1
    <2> HIDE DEF e
    <2>7. /\ Backed(sent', nextRow, e) /\ Agrees(inbox, removed, nextRow, e) /\ Present(e)
      BY <2>3, <2>4 DEF Backed, Agrees, Terminal, TerminalStates, Pending, Present
    <2>8. StepKeeps /\ Fresh(nextRow, e) /\ \A q \in Rows : Backed(sent', q, inbox'[q])
      BY <2>3, <2>5, <2>6, <2>7, AppendKeeps
    <2>9. o.step = "compact" /\ o.row = nextRow /\ o.entry = e /\ o.try = NoTry
      BY DEF IdlePost
    <2> HIDE DEF o
    <2>10. BackedTry(sent', o.row, o.try)
      BY <2>9, NothingFresh
    <2> QED
      BY <2>5, <2>6, <2>8, <2>9, <2>10, PostCarry
  <1>2. CASE PostCompact(p)
    <2> DEFINE o == [post[p] EXCEPT !.step = "deliver"]
    <2>1. /\ Replace(inbox, KeepIds(inbox, faded, {})) /\ sent' = sent /\ UNCHANGED <<sweep, sync>>
          /\ post' = [post EXCEPT ![p] = o]
      BY <1>0, <1>2 DEF PostCompact
    <2>2. o.step = "deliver" /\ o.row = post[p].row /\ o.entry = post[p].entry /\ o.try = post[p].try
      BY <1>0 DEF PostOps
    <2>3. \A r \in Rows : inbox[r].kind = "turn-report" /\ Present(inbox[r])
                            => r \in KeepIds(inbox, faded, {})
      BY KeepIdsKeeps DEF ProtectedReports
    <2>4. StepKeeps /\ \A q \in Rows : Backed(sent', q, inbox'[q])
      BY <2>1, <2>3, ReplaceKeeps
    <2> HIDE DEF o
    <2> QED
      BY <2>1, <2>2, <2>4, PostCarry
  <1>3. CASE PostDeliver(p)
    <2>1. PICK t \in Attempts(post[p].row, post[p].entry, seats, boundary, sent) :
            /\ Reach(post[p].row, t)
            /\ post' = [post EXCEPT ![p] = [post[p] EXCEPT !.step = "read", !.entry = NoEntry,
                                                           !.try = t]]
      BY <1>0, <1>3 DEF PostDeliver
    <2> DEFINE o == [post[p] EXCEPT !.step = "read", !.entry = NoEntry, !.try = t]
    <2>2. TryFits(t, post[p].row, post[p].entry, sent)
      BY <1>0, AttemptFits
    <2>3. sent \subseteq sent' /\ BackedTry(sent', post[p].row, t)
      BY <1>0, <2>1, <2>2, ReachBacks
    <2>4. UNCHANGED <<inbox, removed, sweep, sync>> /\ post' = [post EXCEPT ![p] = o]
      BY <1>3, <2>1 DEF PostDeliver
    <2>5. o.step = "read" /\ o.row = post[p].row /\ o.entry = NoEntry /\ o.try = t
      BY <1>0 DEF PostOps
    <2>6. StepKeeps /\ \A q \in Rows : Backed(sent', q, inbox'[q])
      BY <2>3, <2>4, SameKeeps
    <2>7. Fresh(o.row, o.entry) /\ BackedTry(sent', o.row, o.try)
      BY <2>3, <2>5, NothingFresh
    <2> HIDE DEF o
    <2> QED
      BY <2>3, <2>4, <2>5, <2>6, <2>7, PostCarry
  <1>4. CASE PostRead(p)
    <2> DEFINE o == IF Present(inbox[post[p].row])
                    THEN [post[p] EXCEPT !.step = "record", !.entry = inbox[post[p].row]]
                    ELSE IdlePost
    <2>1. /\ UNCHANGED <<inbox, removed, sent, sweep, sync>> /\ post' = [post EXCEPT ![p] = o]
          /\ post[p].row \in Rows
      BY <1>0, <1>4 DEF PostRead, PostFits
    <2>2. StepKeeps /\ \A q \in Rows : Backed(sent', q, inbox'[q])
      BY <2>1, SameKeeps
    <2>3. CASE Present(inbox[post[p].row])
      <3>1. o.step = "record" /\ o.row = post[p].row /\ o.entry = inbox[post[p].row] /\ o.try = post[p].try
        BY <1>0, <2>3 DEF PostOps
      <3>2. Fresh(o.row, o.entry)
        BY <2>1, <2>2, <3>1 DEF Fresh, Agrees
      <3> HIDE DEF o
      <3> QED
        BY <2>1, <2>2, <2>3, <3>1, <3>2, PostCarry
    <2>4. CASE ~Present(inbox[post[p].row])
      <3>1. o = IdlePost
        BY <2>4
      <3> HIDE DEF o
      <3> QED
        BY <2>1, <2>2, <3>1, IdleFresh, PostCarry
    <2> QED
      BY <2>3, <2>4
  <1>5. CASE PostRecord(p)
    <2> DEFINE r == post[p].row
    <2> DEFINE t == post[p].try
    <2>1. /\ r \in Rows /\ UNCHANGED <<removed, sent, sweep, sync>> /\ post[p].step = "record"
          /\ post' = [post EXCEPT ![p] = IdlePost] /\ Present(post[p].entry)
          /\ inbox[r] \in Entry /\ Backed(sent, r, inbox[r])
      BY <1>0, <1>5 DEF PostRecord, PostFits, IInv, HeldInv
    <2>2. StepKeeps /\ \A q \in Rows : Backed(sent', q, inbox'[q])
      <3>1. CASE LandsFrom(post[p].entry, t)
        <4>1. inbox' = [inbox EXCEPT ![r] = Land(inbox[r], t)] /\ t.adapter = "accepted"
          BY <1>5, <3>1 DEF PostRecord, LandsFrom
        <4> HIDE DEF r, t
        <4>2. Land(inbox[r], t) \in Entry
          BY <1>0, <2>1, EntryType DEF t
        <4>3. /\ Backed(sent, r, Land(inbox[r], t))
              /\ Terminal(inbox[r]) => Land(inbox[r], t).state = inbox[r].state
              /\ Present(inbox[r]) => Present(Land(inbox[r], t))
          <5>1. t \in Tries /\ BackedTry(sent, r, t)
            BY <1>0 DEF r, t
          <5> QED
            BY <2>1, <4>1, <5>1, LandBacked
        <4> QED
          BY <2>1, <4>1, <4>2, <4>3, InPlaceKeeps
      <3>2. CASE ~LandsFrom(post[p].entry, t)
        <4> DEFINE e == Evidence(post[p].entry, t)
        <4>1. Append(r, e)
          BY <1>5, <3>2 DEF PostRecord
        <4>2. e \in Entry /\ Backed(sent', r, e) /\ e.state = post[p].entry.state
          <5>1. e \in Entry
            BY <1>0, EntryType
          <5>2. Backed(sent, r, e) /\ e.state = post[p].entry.state
            BY <1>0, EvidenceBacked
          <5> QED
            BY <2>1, <5>1, <5>2
        <4> HIDE DEF e
        <4>3. Present(e) /\ Agrees(inbox, removed, r, e)
          BY <1>0, <2>1, <4>2 DEF Present, Agrees, Terminal
        <4> HIDE DEF r, t
        <4> QED
          BY <2>1, <4>1, <4>2, <4>3, AppendKeeps
      <3> QED
        BY <3>1, <3>2
    <2> QED
      BY <2>1, <2>2, IdleFresh, PostCarry
  <1> QED
    BY <1>1, <1>2, <1>3, <1>4, <1>5 DEF PostStep

\* A step that changes the sweep, and perhaps the rows.
LEMMA SweepCarry ==
    ASSUME IInv, TypeInv', StepKeeps, sent \subseteq sent',
           \A r \in Rows : Backed(sent', r, inbox'[r]),
           UNCHANGED <<post, sync>>,
           \A r \in Rows : sweep'.held[r] = sweep.held[r] \/ Fresh(r, sweep'.held[r]),
           sweep'.step = "record" => BackedTry(sent', sweep'.now.row, sweep'.try),
           sweep'.step \in {"deliver", "record"} => Present(sweep'.held[sweep'.now.row])
    PROVE  IInv'
  <1>1. HeldInv'
    BY DEF IInv, HeldInv
  <1>2. SentInv' /\ CopyInv'
    BY Carry
  <1> QED
    BY <1>1, <1>2 DEF IInv

\* The sweep up to its findings.
LEMMA KeepsSweepBegin ==
    ASSUME IInv, TypeInv', SweepBegin \/ SweepReconcile \/ SweepEvaluate
    PROVE  IInv' /\ StepKeeps
  <1>0. /\ inbox \in [Rows -> Entry] /\ sweep \in SweepOps
        /\ \A r \in Rows : Backed(sent, r, inbox[r])
    BY DEF IInv, TypeInv, TypeOK, SentInv
  <1>1. CASE SweepBegin
    <2>1. UNCHANGED <<inbox, removed, sent, post, sync>>
      BY <1>1 DEF SweepBegin
    <2>2. StepKeeps /\ \A q \in Rows : Backed(sent', q, inbox'[q])
      BY <2>1, SameKeeps
    <2>3. sweep'.held = IdleSweep.held /\ sweep'.step = "reconcile"
      BY <1>1 DEF SweepBegin, IdleSweep
    <2> QED
      BY <2>1, <2>2, <2>3, IdleFresh, SweepCarry
  <1>2. CASE SweepReconcile
    <2> DEFINE gone == ConfirmedGone(inbox, sweep.gone)
    <2> DEFINE cur == [r \in Rows |-> IF r \in gone THEN [inbox[r] EXCEPT !.state = "ladder-resolved"]
                                      ELSE inbox[r]]
    <2> DEFINE keep == KeepIds(cur, faded, registered)
    <2>1. /\ IF \E r \in Rows : Present(inbox[r]) /\ r \notin keep
             THEN Replace(cur, keep) ELSE UNCHANGED <<inbox, removed>>
          /\ sweep' = [sweep EXCEPT !.step = "evaluate", !.gone = {}, !.held = KeepOnly(cur, keep)]
          /\ UNCHANGED <<sent, post, sync>>
      BY <1>2 DEF SweepReconcile
    <2>2. \A r \in gone : inbox[r].kind = "escalation" /\ Pending(inbox[r]) /\ inbox[r] \in Entry
      BY <1>0 DEF ConfirmedGone
    <2>3. \A r \in gone : cur[r].state = "ladder-resolved" /\ cur[r].kind = "escalation"
      <3>1. \A e \in Entry : /\ [e EXCEPT !.state = "ladder-resolved"].state = "ladder-resolved"
                             /\ [e EXCEPT !.state = "ladder-resolved"].kind = e.kind
        BY DEF Entry
      <3> QED
        BY <2>2, <3>1 DEF ConfirmedGone
    <2>4. \A r \in Rows \ gone : cur[r] = inbox[r]
      OBVIOUS
    <2>5. \A r \in keep : r \in Rows \ gone
      BY <2>3, KeepIdsKeeps DEF ProtectedReports
    <2>6. \A r \in Rows : /\ inbox[r].kind = "turn-report" /\ Present(inbox[r])
                          /\ ~inbox[r].gated /\ r \notin registered
                          => r \in keep
      <3>1. ASSUME NEW r \in Rows, inbox[r].kind = "turn-report", Present(inbox[r]), r \notin registered
            PROVE  r \in ProtectedReports(cur, registered)
        BY <2>2, <2>4, <3>1 DEF ProtectedReports
      <3>2. ProtectedReports(cur, registered) \subseteq keep
        BY KeepIdsKeeps
      <3> HIDE DEF cur, keep
      <3> QED
        BY <3>1, <3>2
    <2> HIDE DEF gone, cur, keep
    <2>7. KeepOnly(cur, keep) = KeepOnly(inbox, keep)
      BY <2>4, <2>5 DEF KeepOnly
    <2>8. /\ StepKeeps /\ \A q \in Rows : Backed(sent', q, inbox'[q])
          /\ \A q \in keep : inbox'[q] = inbox[q]
      <3>1. CASE \E r \in Rows : Present(inbox[r]) /\ r \notin keep
        <4>1. Replace(inbox, keep)
          BY <2>1, <2>7, <3>1 DEF Replace
        <4> QED
          BY <2>1, <2>5, <2>6, <4>1, ReplaceKeeps
      <3>2. CASE ~\E r \in Rows : Present(inbox[r]) /\ r \notin keep
        BY <2>1, <3>2, SameKeeps
      <3> QED
        BY <3>1, <3>2
    <2>9. sweep'.step = "evaluate" /\ sweep'.held = KeepOnly(inbox, keep)
      BY <1>0, <2>1, <2>7 DEF SweepOps
    <2>10. \A q \in Rows : Fresh(q, sweep'.held[q])
      <3>1. \A q \in Rows : sweep'.held[q] = IF q \in keep THEN inbox'[q] ELSE NoEntry
        BY <2>8, <2>9 DEF KeepOnly
      <3>2. \A q \in Rows : Fresh(q, inbox'[q])
        BY <2>8 DEF Fresh, Agrees
      <3> QED
        BY <3>1, <3>2, NothingFresh
    <2> QED
      BY <2>1, <2>8, <2>9, <2>10, SweepCarry
  <1>3. CASE SweepEvaluate
    <2>1. UNCHANGED <<inbox, removed, sent, post, sync>>
      BY <1>3 DEF SweepEvaluate
    <2>2. StepKeeps /\ \A q \in Rows : Backed(sent', q, inbox'[q])
      BY <2>1, SameKeeps
    <2>3. sweep'.held = sweep.held /\ sweep'.step = "act"
      <3>1. \E all : sweep' = [sweep EXCEPT !.step = "act", !.todo = all]
        BY <1>3 DEF SweepEvaluate
      <3> QED
        BY <1>0, <3>1 DEF SweepOps
    <2> QED
      BY <2>1, <2>2, <2>3, SweepCarry
  <1> QED
    BY <1>1, <1>2, <1>3

\* A set of rows has a first one.
LEMMA LeastRow ==
    ASSUME NEW S \in SUBSET Rows, S # {}
    PROVE  \E q \in S : \A o \in S : q <= o
  <1>1. S \subseteq Nat
    BY InboxConstants DEF Rows
  <1>2. \E R : IsWellFoundedOn(R, Nat) /\ \A x, y \in Nat : x < y => <<x, y>> \in R
    <2>1. \A x, y \in Nat : x < y => <<x, y>> \in OpToRel(<, Nat)
      BY DEF OpToRel
    <2> QED
      BY <2>1, NatLessThanWellFounded, Zenon
  <1>3. PICK R : IsWellFoundedOn(R, Nat) /\ \A x, y \in Nat : x < y => <<x, y>> \in R
    BY <1>2
  <1>4. IsWellFoundedOn(R, Nat)
    BY <1>3
  <1>5. PICK q \in S : \A y \in S : ~(<<y, q>> \in R)
    BY <1>1, <1>4, WFMin, Zenon
  <1>6. ASSUME NEW o \in S PROVE q <= o
    <2>1. ~(o < q)
      <3>1. q \in Nat /\ o \in Nat
        BY <1>1
      <3> QED
        BY <1>3, <1>5, <3>1, Zenon
    <2> QED
      BY <1>1, <2>1
  <1> QED
    BY <1>6

\* A sweep that goes on without touching the rows.
LEMMA SweepMoves ==
    ASSUME IInv, TypeInv', UNCHANGED <<inbox, removed, sent, post, sync>>,
           sweep'.held = sweep.held,
           sweep'.step # "record",
           sweep'.step = "deliver" => Present(sweep.held[sweep'.now.row])
    PROVE  IInv' /\ StepKeeps
  <1>1. StepKeeps /\ \A q \in Rows : Backed(sent', q, inbox'[q])
    BY SameKeeps
  <1> QED
    BY <1>1, SweepCarry

\* A sweep that appends a row from its own copy, and remembers it.
LEMMA SweepAppends ==
    ASSUME IInv, TypeInv', UNCHANGED <<removed, sent, post, sync>>,
           NEW r \in Rows, NEW e \in Entry, Append(r, e), Present(e),
           Backed(sent, r, e), Agrees(inbox, removed, r, e),
           sweep'.held = [sweep.held EXCEPT ![r] = e],
           sweep'.step # "record",
           sweep'.step = "deliver" => sweep'.now.row = r
    PROVE  IInv' /\ StepKeeps
  <1>1. StepKeeps /\ Fresh(r, e) /\ \A q \in Rows : Backed(sent', q, inbox'[q])
    BY AppendKeeps
  <1>2. sweep'.held[r] = e /\ \A q \in Rows \ {r} : sweep'.held[q] = sweep.held[q]
    BY DEF IInv, TypeInv, TypeOK, SweepOps
  <1> QED
    BY <1>1, <1>2, SweepCarry

\* A sweep that writes a row under the lock, and remembers it.
LEMMA SweepWrites ==
    ASSUME IInv, TypeInv', UNCHANGED <<removed, sent, post, sync>>,
           NEW r \in Rows, NEW e \in Entry, inbox' = [inbox EXCEPT ![r] = e],
           Terminal(inbox[r]) => e.state = inbox[r].state, Present(inbox[r]) => Present(e),
           Backed(sent, r, e),
           sweep'.held = [sweep.held EXCEPT ![r] = e],
           sweep'.step \notin {"deliver", "record"}
    PROVE  IInv' /\ StepKeeps
  <1>1. StepKeeps /\ Fresh(r, e) /\ \A q \in Rows : Backed(sent', q, inbox'[q])
    BY InPlaceKeeps
  <1>2. sweep'.held[r] = e /\ \A q \in Rows \ {r} : sweep'.held[q] = sweep.held[q]
    BY DEF IInv, TypeInv, TypeOK, SweepOps
  <1> QED
    BY <1>1, <1>2, SweepCarry

\* Acting on a finding.
LEMMA KeepsAct ==
    ASSUME IInv, TypeInv', NEW f \in sweep.todo, Act(f)
    PROVE  IInv' /\ StepKeeps
  <1>0. /\ sweep \in SweepOps /\ sweep.held \in [Rows -> Entry] /\ FindingFits(f)
        /\ \A r \in Rows : /\ Backed(sent, r, sweep.held[r])
                           /\ Agrees(inbox, removed, r, sweep.held[r])
    BY DEF IInv, TypeInv, TypeOK, SweepFits, SweepOps, SentInv, CopyInv
  <1>0a. Done(f) \in SweepOps /\ Done(f).step = sweep.step /\ Done(f).held = sweep.held
    BY <1>0 DEF Done, SweepOps
  <1>0b. ASSUME NEW r, Pending(sweep.held[r]) PROVE Present(sweep.held[r])
    BY <1>0b DEF Pending, Present
  <1>1. CASE SkipFinding(f)
    BY <1>0a, <1>1, SweepMoves DEF SkipFinding
  <1>2. CASE Redeliver(f)
    <2>1. sweep'.held = sweep.held /\ sweep'.step = "deliver" /\ sweep'.now = f
      BY <1>0a, <1>2 DEF Redeliver, SweepOps
    <2> QED
      BY <1>0b, <1>2, <2>1, SweepMoves DEF Redeliver
  <1>3. CASE RebindDue(f)
    <2>1. f.row \in Rows /\ sweep.step = "act" /\ Present(sweep.held[f.row])
          /\ UNCHANGED <<removed, sent, post, sync>>
      BY <1>0, <1>0b, <1>3 DEF RebindDue, FindingFits, OfRows
    <2>2. CASE sweep' = Done(f) /\ UNCHANGED inbox
      BY <1>0a, <2>1, <2>2, SweepMoves
    <2>3. ASSUME NEW x \in RowOwner(sweep.held[f.row], seats) \ {sweep.held[f.row].agent},
                 Append(f.row, RebindEntry(sweep.held[f.row], x)),
                 sweep' = Remember(Done(f), f.row, RebindEntry(sweep.held[f.row], x))
          PROVE  IInv' /\ StepKeeps
      <3> DEFINE e == RebindEntry(sweep.held[f.row], x)
      <3>1. x \in Sessions
        BY DEF RowOwner, Occupant, Running
      <3>2. e \in Entry
        BY <1>0, <2>1, <3>1, EntryType, IdleType
      <3>3. Append(f.row, e) /\ sweep' = Remember(Done(f), f.row, e)
        BY <2>3
      <3>4. Backed(sent, f.row, e) /\ e.state = sweep.held[f.row].state
        <4>1. /\ sweep.held[f.row] \in Entry
              /\ Backed(sent, f.row, sweep.held[f.row])
          BY <1>0, <2>1
        <4> QED
          BY <4>1, UpdateBacked
      <3> HIDE DEF e
      <3>5. Present(e) /\ Agrees(inbox, removed, f.row, e)
        BY <1>0, <2>1, <3>4 DEF Present, Agrees, Terminal
      <3>6. sweep'.held = [sweep.held EXCEPT ![f.row] = e] /\ sweep'.step = "act"
        BY <1>0a, <2>1, <3>3 DEF Remember, SweepOps
      <3> QED
        BY <2>1, <3>2, <3>3, <3>4, <3>5, <3>6, SweepAppends
    <2> QED
      BY <1>3, <2>2, <2>3 DEF RebindDue
  <1>4. CASE PrepareExpiry(f)
    <2>1. \E S : sweep' = [Done(f) EXCEPT !.expiring = S]
      BY <1>4 DEF PrepareExpiry
    <2>2. sweep'.held = sweep.held /\ sweep'.step = "act"
      BY <1>0a, <1>4, <2>1 DEF PrepareExpiry, SweepOps
    <2> QED
      BY <1>4, <2>2, SweepMoves DEF PrepareExpiry
  <1>5. CASE PostOwnerSignal(f)
    <2>1. PICK owner \in PostAgents("owner") :
            LET same == Coalescible(f.cause, owner)
                r == IF same = {} THEN nextRow ELSE CHOOSE q \in same : \A o \in same : q <= o
                e == IF same = {} THEN CreateEntry(CauseKind[f.cause], TRUE, owner, FALSE, f.cause)
                     ELSE RenewEntry(sweep.held[r], owner)
            IN /\ r \in Rows
               /\ Append(r, e)
               /\ nextRow' = IF same = {} THEN nextRow + 1 ELSE nextRow
               /\ sweep' = Remember([Done(f) EXCEPT !.step = "deliver", !.now = [f EXCEPT !.row = r]],
                                    r, e)
      BY <1>5 DEF PostOwnerSignal
    <2> DEFINE same == Coalescible(f.cause, owner)
    <2> DEFINE r == IF same = {} THEN nextRow ELSE CHOOSE q \in same : \A o \in same : q <= o
    <2> DEFINE e == IF same = {} THEN CreateEntry(CauseKind[f.cause], TRUE, owner, FALSE, f.cause)
                    ELSE RenewEntry(sweep.held[r], owner)
    <2> DEFINE g == [f EXCEPT !.row = r]
    <2>2. /\ r \in Rows /\ Append(r, e)
          /\ sweep' = Remember([Done(f) EXCEPT !.step = "deliver", !.now = g], r, e)
      BY <2>1
    <2>3. owner \in Sessions \cup {NoSession} /\ f.cause \in Causes
      BY <1>0, <1>5, AddressType DEF PostOwnerSignal, FindingFits, OfRows
    <2>4. UNCHANGED <<removed, sent, post, sync>>
      BY <1>5 DEF PostOwnerSignal
    <2>5. e \in Entry /\ Present(e) /\ Backed(sent, r, e) /\ Agrees(inbox, removed, r, e)
      <3>1. CASE same = {}
        <4> DEFINE new == CreateEntry(CauseKind[f.cause], TRUE, owner, FALSE, f.cause)
        <4>1. e = new
          BY <3>1
        <4>2. CauseKind[f.cause] \in Kinds /\ f.cause \in Causes \cup {NoCause}
          BY <2>3, InboxConstants DEF Kinds
        <4>3. new \in Entry /\ Pending(new)
          BY <2>3, <4>2, CreateType
        <4>4. new.adapter = "none"
          BY DEF CreateEntry, NoEntry
        <4> HIDE DEF new, e, r, same
        <4> QED
          BY <4>1, <4>3, <4>4 DEF Pending, Present, Backed, Agrees, Terminal, TerminalStates
      <3>2. CASE same # {}
        <4>1. e = RenewEntry(sweep.held[r], owner)
          BY <3>2
        <4>2. Pending(sweep.held[r])
          <5>1. same \subseteq Rows /\ \A q \in same : Pending(sweep.held[q])
            BY DEF Coalescible, PendingHeld
          <5>2. \A q \in same : q \in Int
            BY <5>1, InboxConstants DEF Rows
          <5>3. r \in same
            <6>1. PICK q \in same : \A o \in same : q <= o
              BY <3>2, <5>1, LeastRow
            <6> HIDE DEF same
            <6> QED
              BY <3>2, <6>1
          <5> QED
            BY <5>1, <5>3
        <4> HIDE DEF r, e, same
        <4>3. e \in Entry
          BY <1>0, <2>2, <2>3, <4>1, EntryType, IdleType
        <4>4. Backed(sent, r, e) /\ e.state = sweep.held[r].state
          BY <1>0, <2>2, <4>1, UpdateBacked
        <4> QED
          BY <4>2, <4>3, <4>4 DEF Pending, Present, Agrees, Terminal, TerminalStates
      <3> QED
        BY <3>1, <3>2
    <2> HIDE DEF r, e, same
    <2>6. g.row = r
      BY <1>0 DEF FindingFits, Findings
    <2> HIDE DEF g
    <2>7. sweep'.held = [sweep.held EXCEPT ![r] = e] /\ sweep'.step = "deliver" /\ sweep'.now.row = r
      BY <1>0a, <2>2, <2>6 DEF Remember, SweepOps
    <2> QED
      BY <2>2, <2>4, <2>5, <2>7, SweepAppends
  <1> QED
    BY <1>1, <1>2, <1>3, <1>4, <1>5 DEF Act

\* The sweep's deliveries and its last steps.
LEMMA KeepsSweepEnd ==
    ASSUME IInv, TypeInv',
           \/ SweepDeliver \/ SweepRecord \/ MarkUnresolved
           \/ ActDone \/ ExpireBatch \/ Heartbeat
    PROVE  IInv' /\ StepKeeps
  <1>0. /\ inbox \in [Rows -> Entry] /\ sweep \in SweepOps /\ SweepFits(sweep)
        /\ sweep.held \in [Rows -> Entry] /\ sweep.try \in Tries
        /\ \A r \in Rows : /\ Backed(sent, r, inbox[r])
                           /\ Backed(sent, r, sweep.held[r])
                           /\ Agrees(inbox, removed, r, sweep.held[r])
    BY DEF IInv, TypeInv, TypeOK, SweepFits, SweepOps, SentInv, CopyInv
  <1>1. CASE SweepDeliver
    <2> DEFINE r == sweep.now.row
    <2>1. r \in Rows /\ Present(sweep.held[r]) /\ UNCHANGED <<inbox, removed, post, sync>>
      BY <1>0, <1>1 DEF SweepDeliver, SweepFits, IInv, HeldInv
    <2>2. PICK t \in Attempts(r, sweep.held[r], seats, boundary, sent) :
            Reach(r, t) /\ sweep' = [sweep EXCEPT !.step = "record", !.try = t]
      BY <1>1 DEF SweepDeliver
    <2>3. sweep'.step = "record" /\ sweep'.try = t /\ sweep'.held = sweep.held /\ sweep'.now = sweep.now
      BY <1>0, <2>2 DEF SweepOps
    <2>4. TryFits(t, r, sweep.held[r], sent)
      BY <1>0, <2>1, AttemptFits
    <2>5. sent \subseteq sent' /\ BackedTry(sent', r, t)
      BY <1>0, <2>1, <2>2, <2>4, ReachBacks
    <2>6. StepKeeps /\ \A q \in Rows : Backed(sent', q, inbox'[q])
      BY <2>1, <2>5, SameKeeps
    <2> QED
      BY <2>1, <2>3, <2>5, <2>6, SweepCarry
  <1>2. CASE SweepRecord
    <2> DEFINE r == sweep.now.row
    <2> DEFINE landed == Land(inbox[r], sweep.try)
    <2> DEFINE tried == Evidence(sweep.held[r], sweep.try)
    <2>1. /\ r \in Rows /\ Present(sweep.held[r]) /\ UNCHANGED <<removed, sent, post, sync>>
          /\ BackedTry(sent, r, sweep.try)
      BY <1>0, <1>2 DEF SweepRecord, SweepFits, IInv, HeldInv, SentInv
    <2>2. \/ sweep' = IdleSweep /\ UNCHANGED inbox
          \/ /\ LandsFrom(sweep.held[r], sweep.try)
             /\ inbox' = [inbox EXCEPT ![r] = landed] /\ sweep' = Recorded(r, landed)
          \/ Append(r, tried) /\ sweep' = Recorded(r, tried)
      BY <1>2 DEF SweepRecord
    <2>3. inbox[r] \in Entry /\ sweep.held[r] \in Entry
      BY <1>0, <2>1
    <2>4. landed \in Entry /\ tried \in Entry
      BY <1>0, <2>3, EntryType
    <2>5. \A e \in Entry : /\ Recorded(r, e).held = [sweep.held EXCEPT ![r] = e]
                           /\ Recorded(r, e).step \in {"unresolve", "act"}
      BY <1>0 DEF Recorded, Remember, SweepOps
    <2>6. CASE sweep' = IdleSweep /\ UNCHANGED inbox
      <3>1. StepKeeps /\ \A q \in Rows : Backed(sent', q, inbox'[q])
        BY <2>1, <2>6, SameKeeps
      <3> QED
        BY <2>1, <2>6, <3>1, IdleFresh, SweepCarry
    <2>7. CASE /\ LandsFrom(sweep.held[r], sweep.try)
               /\ inbox' = [inbox EXCEPT ![r] = landed] /\ sweep' = Recorded(r, landed)
      <3>1. sweep.try.adapter = "accepted" /\ Backed(sent, r, inbox[r])
        BY <1>0, <2>1, <2>7 DEF LandsFrom
      <3>2. /\ Backed(sent, r, landed)
            /\ Terminal(inbox[r]) => landed.state = inbox[r].state
            /\ Present(inbox[r]) => Present(landed)
        BY <1>0, <2>1, <2>3, <3>1, LandBacked
      <3> HIDE DEF r, landed
      <3> QED
        BY <2>1, <2>4, <2>5, <2>7, <3>2, SweepWrites
    <2>8. CASE Append(r, tried) /\ sweep' = Recorded(r, tried)
      <3>1. Backed(sent, r, sweep.held[r]) /\ Agrees(inbox, removed, r, sweep.held[r])
        BY <1>0, <2>1
      <3>2. Backed(sent, r, tried) /\ tried.state = sweep.held[r].state
        BY <1>0, <2>1, <2>3, <3>1, EvidenceBacked
      <3> HIDE DEF r, tried
      <3>3. Present(tried) /\ Agrees(inbox, removed, r, tried)
        BY <2>1, <3>1, <3>2 DEF Present, Agrees, Terminal
      <3> QED
        BY <2>1, <2>4, <2>5, <2>8, <3>2, <3>3, SweepAppends
    <2> QED
      BY <2>2, <2>6, <2>7, <2>8
  <1>3. CASE MarkUnresolved
    <2> DEFINE r == sweep.now.row
    <2> DEFINE e == Mark(inbox[r], "unresolved")
    <2>1. r \in Rows /\ UNCHANGED <<removed, sent, post, sync>>
      BY <1>0, <1>3 DEF MarkUnresolved, SweepFits
    <2>2. \/ /\ inbox' = [inbox EXCEPT ![r] = e]
             /\ sweep' = [Remember(sweep, r, e) EXCEPT !.step = "act", !.now = NoFinding]
          \/ sweep' = [sweep EXCEPT !.step = "act", !.now = NoFinding] /\ UNCHANGED inbox
      BY <1>3 DEF MarkUnresolved
    <2>3. /\ inbox[r] \in Entry /\ Backed(sent, r, inbox[r])
          /\ "unresolved" \in TerminalStates \ {"landed"}
      BY <1>0, <2>1 DEF TerminalStates
    <2>4. e \in Entry
      BY <2>3, EntryType, IdleType
    <2>5. /\ Backed(sent, r, e)
          /\ Terminal(inbox[r]) => e.state = inbox[r].state
          /\ Present(inbox[r]) => Present(e)
      BY <2>3, MarkBacked
    <2> HIDE DEF r, e
    <2>6. CASE sweep' = [sweep EXCEPT !.step = "act", !.now = NoFinding] /\ UNCHANGED inbox
      <3>1. sweep'.held = sweep.held /\ sweep'.step = "act"
        BY <1>0, <2>6 DEF SweepOps
      <3> QED
        BY <2>1, <2>6, <3>1, SweepMoves
    <2>7. CASE /\ inbox' = [inbox EXCEPT ![r] = e]
               /\ sweep' = [Remember(sweep, r, e) EXCEPT !.step = "act", !.now = NoFinding]
      <3>1. sweep'.held = [sweep.held EXCEPT ![r] = e] /\ sweep'.step = "act"
        BY <1>0, <2>7 DEF SweepOps, Remember
      <3> QED
        BY <2>1, <2>4, <2>5, <2>7, <3>1, SweepWrites
    <2> QED
      BY <2>2, <2>6, <2>7
  <1>4. CASE ActDone
    <2>1. UNCHANGED <<inbox, removed, sent, post, sync>>
      BY <1>4 DEF ActDone
    <2>2. sweep'.held = NoRows /\ sweep'.step = "expire"
      BY <1>0, <1>4 DEF ActDone, SweepOps
    <2>3. \A q \in Rows : Fresh(q, sweep'.held[q])
      BY <2>2, NothingFresh DEF NoRows
    <2>4. StepKeeps /\ \A q \in Rows : Backed(sent', q, inbox'[q])
      BY <2>1, SameKeeps
    <2> QED
      BY <2>1, <2>2, <2>3, <2>4, SweepCarry
  <1>5. CASE ExpireBatch
    <2>1. UNCHANGED <<removed, sent, post, sync>>
      BY <1>5 DEF ExpireBatch
    <2>2. \A q \in Rows : inbox'[q] = inbox[q] \/ inbox'[q] = Mark(inbox[q], "expired")
      BY <1>5 DEF ExpireBatch
    <2>3. /\ sweep'.step \in {"idle", "beat"}
          /\ sweep'.held = IdleSweep.held
      BY <1>5 DEF ExpireBatch, IdleSweep
    <2>4. "expired" \in TerminalStates \ {"landed"}
      BY DEF TerminalStates
    <2>5. ASSUME NEW q \in Rows
          PROVE  /\ Backed(sent, q, inbox'[q])
                 /\ Terminal(inbox[q]) => inbox'[q].state = inbox[q].state
                 /\ Present(inbox[q]) => Present(inbox'[q])
      <3>1. inbox[q] \in Entry /\ Backed(sent, q, inbox[q])
        BY <1>0
      <3>2. /\ Backed(sent, q, Mark(inbox[q], "expired"))
            /\ Terminal(inbox[q]) => Mark(inbox[q], "expired").state = inbox[q].state
            /\ Present(inbox[q]) => Present(Mark(inbox[q], "expired"))
        BY <2>4, <3>1, MarkBacked
      <3> QED
        BY <2>2, <3>1, <3>2
    <2>6. StepKeeps
      BY <2>1, <2>5 DEF StepKeeps
    <2>7. \A q \in Rows : Backed(sent', q, inbox'[q])
      BY <2>1, <2>5
    <2> QED
      BY <2>1, <2>3, <2>6, <2>7, IdleFresh, SweepCarry
  <1>6. CASE Heartbeat
    <2>1. UNCHANGED <<inbox, removed, sent, post, sync>> /\ sweep' = IdleSweep
      BY <1>6 DEF Heartbeat
    <2>2. StepKeeps /\ \A q \in Rows : Backed(sent', q, inbox'[q])
      BY <2>1, SameKeeps
    <2> QED
      BY <2>1, <2>2, IdleFresh, SweepCarry
  <1> QED
    BY <1>1, <1>2, <1>3, <1>4, <1>5, <1>6

\* A step of the synchronizer or of a tool, which holds no other copy.
LEMMA ToolCarry ==
    ASSUME IInv, TypeInv', StepKeeps, UNCHANGED <<sent, post, sweep>>,
           \A r \in Rows : Backed(sent', r, inbox'[r]),
           \A r \in Rows : sync'.held[r] = sync.held[r] \/ Fresh(r, sync'.held[r]),
           \A r \in sync'.todo : Present(sync'.held[r])
    PROVE  IInv'
  <1>1. HeldInv'
    BY DEF IInv, HeldInv
  <1>2. sweep'.step = "record" => BackedTry(sent', sweep'.now.row, sweep'.try)
    BY DEF IInv, SentInv
  <1>3. SentInv' /\ CopyInv'
    BY <1>2, Carry
  <1> QED
    BY <1>1, <1>3 DEF IInv

\* The completions and the tools.
LEMMA KeepsTools ==
    ASSUME IInv, TypeInv',
           Tools \/ (\E s \in Sessions : SyncBegin(s)) \/ (\E r \in Rows : SyncComplete(r))
    PROVE  IInv' /\ StepKeeps
  <1>0. /\ inbox \in [Rows -> Entry] /\ \A r \in Rows : Backed(sent, r, inbox[r])
        /\ sync \in [todo : SUBSET Rows, held : [Rows -> Entry]]
        /\ \A r \in sync.todo : Present(sync.held[r])
        /\ \A r \in Rows : Backed(sent, r, sync.held[r]) /\ Agrees(inbox, removed, r, sync.held[r])
    BY DEF IInv, TypeInv, TypeOK, SentInv, CopyInv, HeldInv
  <1>1. ASSUME NEW s \in Sessions, SyncBegin(s) PROVE IInv' /\ StepKeeps
    <2>1. PICK S \in SUBSET Rows : /\ \A r \in S : Present(inbox[r])
                                   /\ sync' = [todo |-> S, held |-> KeepOnly(inbox, S)]
      BY <1>1 DEF SyncBegin
    <2>2. UNCHANGED <<inbox, removed, sent, post, sweep>>
      BY <1>1 DEF SyncBegin
    <2>3. StepKeeps /\ \A q \in Rows : Backed(sent', q, inbox'[q])
      BY <2>2, SameKeeps
    <2>4. sync'.todo = S /\ \A q \in Rows : sync'.held[q] = IF q \in S THEN inbox[q] ELSE NoEntry
      BY <2>1 DEF KeepOnly
    <2>5. \A q \in Rows : Fresh(q, sync'.held[q])
      <3>1. \A q \in Rows : Fresh(q, inbox[q])
        BY <2>2, <2>3 DEF Fresh, Agrees
      <3> QED
        BY <2>4, <3>1, NothingFresh
    <2> QED
      BY <2>1, <2>2, <2>3, <2>4, <2>5, ToolCarry
  <1>2. ASSUME NEW r \in Rows, SyncComplete(r) PROVE IInv' /\ StepKeeps
    <2> DEFINE e == CompleteEntry(sync.held[r])
    <2>1. /\ r \in sync.todo /\ Append(r, e) /\ UNCHANGED <<removed, sent, post, sweep>>
          /\ sync' = IF sync.todo = {r} THEN IdleSync
                     ELSE [todo |-> sync.todo \ {r}, held |-> [sync.held EXCEPT ![r] = NoEntry]]
      BY <1>2 DEF SyncComplete
    <2>2. sync.held[r] \in Entry /\ Backed(sent, r, sync.held[r])
      BY <1>0
    <2>3. e \in Entry
      BY <2>2, EntryType, IdleType
    <2>4. Backed(sent, r, e) /\ e.state = sync.held[r].state
      BY <2>2, UpdateBacked
    <2> HIDE DEF e
    <2>5. Present(e) /\ Agrees(inbox, removed, r, e)
      BY <1>0, <2>1, <2>4 DEF Present, Agrees, Terminal
    <2>6. StepKeeps /\ \A q \in Rows : Backed(sent', q, inbox'[q])
      BY <2>1, <2>3, <2>4, <2>5, AppendKeeps
    <2>7. /\ sync'.todo \subseteq sync.todo \ {r}
          /\ \/ sync' = IdleSync
             \/ \A q \in Rows : sync'.held[q] = IF q = r THEN NoEntry ELSE sync.held[q]
      BY <1>0, <2>1, IdleFresh
    <2>8. \A q \in Rows : sync'.held[q] = sync.held[q] \/ Fresh(q, sync'.held[q])
      BY <2>7, IdleFresh, NothingFresh
    <2>9. \A q \in sync'.todo : Present(sync'.held[q])
      BY <1>0, <2>7, IdleFresh
    <2> QED
      BY <2>1, <2>6, <2>8, <2>9, ToolCarry
  <1>3. ASSUME NEW r \in Rows, Consume(r) PROVE IInv' /\ StepKeeps
    <2> DEFINE e == ConsumeEntry(inbox[r])
    <2>1. inbox' = [inbox EXCEPT ![r] = e] /\ UNCHANGED <<removed, sent, post, sweep, sync>>
      BY <1>3 DEF Consume
    <2>2. inbox[r] \in Entry /\ Backed(sent, r, inbox[r])
      BY <1>0
    <2>3. e \in Entry
      BY <2>2, EntryType, IdleType
    <2>4. Backed(sent, r, e) /\ e.state = inbox[r].state
      BY <2>2, UpdateBacked
    <2> HIDE DEF e
    <2>5. StepKeeps /\ \A q \in Rows : Backed(sent', q, inbox'[q])
      BY <2>1, <2>3, <2>4, InPlaceKeeps DEF Present
    <2> QED
      BY <1>0, <2>1, <2>5, ToolCarry
  <1>4. ASSUME NEW r \in Rows, Supersede(r) PROVE IInv' /\ StepKeeps
    <2> DEFINE e == Mark(inbox[r], "superseded")
    <2>1. inbox' = [inbox EXCEPT ![r] = e] /\ UNCHANGED <<removed, sent, post, sweep, sync>>
      BY <1>4 DEF Supersede
    <2>2. /\ inbox[r] \in Entry /\ Backed(sent, r, inbox[r])
          /\ "superseded" \in TerminalStates \ {"landed"}
      BY <1>0 DEF TerminalStates
    <2>3. e \in Entry
      BY <2>2, EntryType, IdleType
    <2>4. /\ Backed(sent, r, e)
          /\ Terminal(inbox[r]) => e.state = inbox[r].state
          /\ Present(inbox[r]) => Present(e)
      BY <2>2, MarkBacked
    <2> HIDE DEF e
    <2>5. StepKeeps /\ \A q \in Rows : Backed(sent', q, inbox'[q])
      BY <2>1, <2>3, <2>4, InPlaceKeeps
    <2> QED
      BY <1>0, <2>1, <2>5, ToolCarry
  <1>5. CASE CancelGate
    <2> DEFINE ids == {r \in Rows : Present(inbox[r]) /\ ~inbox[r].gated}
    <2>1. Replace(inbox, ids) /\ UNCHANGED <<sent, post, sweep, sync>>
      BY <1>5 DEF CancelGate
    <2>2. StepKeeps /\ \A q \in Rows : Backed(sent', q, inbox'[q])
      BY <2>1, ReplaceKeeps
    <2> QED
      BY <1>0, <2>1, <2>2, ToolCarry
  <1> QED
    BY <1>1, <1>2, <1>3, <1>4, <1>5 DEF Tools

\* Sessions that come and go, time that passes, and crashes, which forget copies.
LEMMA KeepsEnvironment ==
    ASSUME IInv, TypeInv', Environment
    PROVE  IInv' /\ StepKeeps
  <1>1. UNCHANGED <<inbox, removed, sent>>
    BY DEF Environment, Spawn, TurnChange, Terminate, PendingTTL, MarkerTTL, Crash
  <1>2. StepKeeps /\ \A q \in Rows : Backed(sent', q, inbox'[q])
    BY <1>1, SameKeeps
  <1>3. /\ \A p \in Posters : post'[p] = post[p] \/ post'[p] = IdlePost
        /\ sweep' = sweep \/ sweep' = IdleSweep
        /\ sync' = sync \/ sync' = IdleSync
    BY DEF Environment, Spawn, TurnChange, Terminate, PendingTTL, MarkerTTL, Crash
  <1>4. HeldInv'
    BY <1>3, IdleFresh DEF IInv, HeldInv
  <1>5. sweep'.step = "record" => BackedTry(sent', sweep'.now.row, sweep'.try)
    BY <1>1, <1>3, IdleFresh DEF IInv, SentInv
  <1>6. /\ \A r \in Rows : sweep'.held[r] = sweep.held[r] \/ Fresh(r, sweep'.held[r])
        /\ \A r \in Rows : sync'.held[r] = sync.held[r] \/ Fresh(r, sync'.held[r])
    BY <1>3, IdleFresh
  <1>7. /\ \A p \in Posters :
                \/ post'[p].row = post[p].row /\ post'[p].entry = post[p].entry
                \/ Fresh(post'[p].row, post'[p].entry)
        /\ \A p \in Posters :
                \/ post'[p].row = post[p].row /\ post'[p].try = post[p].try
                \/ BackedTry(sent', post'[p].row, post'[p].try)
    BY <1>3, IdleFresh
  <1>8. SentInv' /\ CopyInv'
    BY <1>1, <1>2, <1>5, <1>6, <1>7, Carry
  <1> QED
    BY <1>2, <1>4, <1>8 DEF IInv

-----------------------------------------------------------------------------
(* The theorems.                                                            *)

\* Initially nothing is claimed.
LEMMA InvInit == Init => IInv
  <1> SUFFICES ASSUME Init PROVE IInv
    OBVIOUS
  <1>1. \A r : Backed(sent, r, NoEntry) /\ BackedTry(sent, r, NoTry) /\ Agrees(inbox, removed, r, NoEntry)
    BY DEF Backed, BackedTry, Agrees, NoEntry, NoTry, Try, Terminal, TerminalStates
  <1>2. /\ \A r \in Rows : /\ inbox[r] = NoEntry /\ sweep.held[r] = NoEntry
                           /\ sync.held[r] = NoEntry
        /\ \A p \in Posters : post[p].step = "idle" /\ post[p].entry = NoEntry /\ post[p].try = NoTry
        /\ sweep.step = "idle" /\ sync.todo = {}
    BY DEF Init, NoRows, IdleSweep, IdleSync, IdlePost
  <1>3. SentInv /\ CopyInv
    BY <1>1, <1>2 DEF SentInv, CopyInv
  <1>4. HeldInv
    BY <1>2 DEF HeldInv
  <1> QED
    BY <1>3, <1>4, TypeInit DEF IInv

\* Every step keeps the invariant, and the rows.
LEMMA InvNext == IInv /\ [Next]_vars => IInv' /\ StepKeeps
  <1> SUFFICES ASSUME IInv, [Next]_vars PROVE IInv' /\ StepKeeps
    OBVIOUS
  <1>1. TypeInv'
    BY TypeNext DEF IInv
  <1>2. CASE UNCHANGED vars
    <2>1. StepKeeps
      BY <1>2 DEF vars, StepKeeps
    <2>2. SentInv' /\ CopyInv' /\ HeldInv'
      BY <1>2 DEF vars, IInv, SentInv, CopyInv, HeldInv
    <2> QED
      BY <1>1, <2>1, <2>2 DEF IInv
  <1>3. CASE Next
    BY <1>1, <1>3, KeepsPost, KeepsSweepBegin, KeepsAct, KeepsSweepEnd, KeepsTools, KeepsEnvironment
    DEF Next, SweepStep
  <1> QED
    BY <1>2, <1>3

\* A row lands only after some session's adapter got its prompt, however many
\* sweeps, posts and completions write it from older copies.
THEOREM InboxLandedWasSent == Spec => []LandedWasSent
  <1>1. IInv => LandedWasSent
    BY DEF IInv, SentInv, Backed, LandedWasSent
  <1>2. Init => IInv
    BY InvInit
  <1>3. IInv /\ [Next]_vars => IInv'
    BY InvNext
  <1> QED
    BY <1>1, <1>2, <1>3, PTL DEF Spec

\* A terminal state is never overwritten by another one, or undone, before the
\* row is physically removed.
THEOREM InboxTerminalIsFinal == Spec => TerminalIsFinal
  <1> DEFINE Keeps == \A r \in Rows \ removed :
         Terminal(inbox[r]) /\ Present(inbox'[r]) => inbox'[r].state = inbox[r].state
  <1>1. IInv /\ [Next]_vars => [Keeps]_vars
    <2> SUFFICES ASSUME IInv, [Next]_vars PROVE Keeps
      OBVIOUS
    <2> QED
      BY InvNext DEF StepKeeps
  <1>2. Init => IInv
    BY InvInit
  <1>3. IInv /\ [Next]_vars => IInv'
    BY InvNext
  <1> HIDE DEF Keeps
  <1>4. Spec => [][Keeps]_vars
    BY <1>1, <1>2, <1>3, PTL DEF Spec
  <1> QED
    BY <1>4 DEF Keeps, TerminalIsFinal

\* A compaction, a reconciliation or a cancelled gate does not remove an
\* unproven turn report, whatever the cap and the ages of the rows.
THEOREM InboxReportsAwaitProof == Spec => ReportsAwaitProof
  <1> DEFINE Keeps == \A r \in Rows : inbox[r].kind = "turn-report" /\ Present(inbox[r])
         /\ ~inbox[r].gated /\ r \notin registered => Present(inbox'[r])
  <1>1. IInv /\ [Next]_vars => [Keeps]_vars
    <2> SUFFICES ASSUME IInv, [Next]_vars PROVE Keeps
      OBVIOUS
    <2> QED
      BY InvNext DEF StepKeeps
  <1>2. Init => IInv
    BY InvInit
  <1>3. IInv /\ [Next]_vars => IInv'
    BY InvNext
  <1> HIDE DEF Keeps
  <1>4. Spec => [][Keeps]_vars
    BY <1>1, <1>2, <1>3, PTL DEF Spec
  <1> QED
    BY <1>4 DEF Keeps, ReportsAwaitProof

-----------------------------------------------------------------------------
(* One row per cause.  The sweep looks for the row of a cause in the fold   *)
(* that it holds, so the claim is about copies again: a copy carries the    *)
(* cause of its row, and a sweep that acts holds every row that is pending  *)
(* for a cause.                                                             *)

\* The steps of a sweep at which it works from the fold it holds.
Working == {"evaluate", "act", "deliver", "record", "unresolve"}

\* A copy is of a row that was posted, and carries its cause.
Known(fold, gone, next, r, e) ==
    Present(e) =>
        /\ r < next
        /\ r \in Rows \ gone => Present(fold[r]) /\ fold[r].cause = e.cause

CopiesKnown ==
    /\ \A r \in Rows : /\ Known(inbox, removed, nextRow, r, sweep.held[r])
                       /\ Known(inbox, removed, nextRow, r, sync.held[r])
    /\ \A p \in Posters : Known(inbox, removed, nextRow, post[p].row, post[p].entry)

CausesHeld ==
    sweep.step \in Working =>
        \A r \in Rows \ removed :
            Pending(inbox[r]) /\ inbox[r].cause # NoCause => Pending(sweep.held[r])

RowsPosted == \A r \in Rows : Present(inbox[r]) => r < nextRow

CauseInv == RowsPosted /\ CopiesKnown /\ CausesHeld /\ OneRowPerCause

\* A row goes on: it keeps its cause, and is not pending again once it was not.
GoesOn(r) ==
    /\ Present(inbox'[r]) <=> Present(inbox[r])
    /\ Present(inbox[r]) => inbox'[r].cause = inbox[r].cause
    /\ Pending(inbox'[r]) => Pending(inbox[r])

\* A row is posted, for no cause, or for one that has no pending row.
Posted(r) ==
    /\ r = nextRow /\ nextRow' = nextRow + 1
    /\ inbox'[r].cause # NoCause =>
         \A q \in Rows \ removed : Pending(inbox[q]) => inbox[q].cause # inbox'[r].cause

\* What a step does to the causes of the rows, ...
CauseStep ==
    /\ removed \subseteq removed' /\ nextRow <= nextRow'
    /\ \A r \in Rows : Present(inbox'[r]) => r < nextRow'
    /\ \A r \in Rows \ removed' : GoesOn(r) \/ Posted(r)

\* ... and that it takes none away.
RowsStay == \A r \in Rows : Present(inbox[r]) => Present(inbox'[r])

\* A copy that is known after the step.
Traced(r, e) == Known(inbox', removed', nextRow', r, e)

\* The absence of a row is known, and so is a row itself.
LEMMA NothingTraced ==
    /\ \A fold, gone, next, r : Known(fold, gone, next, r, NoEntry)
    /\ \A r : Traced(r, NoEntry)
    /\ Traced(IdlePost.row, IdlePost.entry)
    /\ \A r \in Rows : IdleSweep.held[r] = NoEntry /\ IdleSync.held[r] = NoEntry
    /\ IdleSweep.step \notin Working
  BY DEF Traced, Known, Present, NoEntry, IdlePost, IdleSweep, IdleSync, NoRows, Working

\* If a step keeps the causes of the rows, every copy is an old one or is known,
\* and the sweep holds what is pending for a cause, then the invariant is kept.
LEMMA CauseCarry ==
    ASSUME TypeInv, TypeInv', CauseInv, CauseStep, CausesHeld',
           \A r \in Rows : sweep'.held[r] = sweep.held[r] \/ Traced(r, sweep'.held[r]),
           \A r \in Rows : sync'.held[r] = sync.held[r] \/ Traced(r, sync'.held[r]),
           \A p \in Posters :
                \/ post'[p].row = post[p].row /\ post'[p].entry = post[p].entry
                \/ Traced(post'[p].row, post'[p].entry)
    PROVE  CauseInv'
  <1>0. nextRow \in Nat /\ nextRow' \in Nat /\ Rows \subseteq Nat
    BY InboxConstants DEF TypeInv, TypeOK, Rows
  <1>1. ASSUME NEW r \in Nat, NEW e, Known(inbox, removed, nextRow, r, e)
        PROVE  Traced(r, e)
    <2> SUFFICES ASSUME Present(e)
                 PROVE  /\ r < nextRow'
                        /\ r \in Rows \ removed' => Present(inbox'[r]) /\ inbox'[r].cause = e.cause
      BY DEF Traced, Known
    <2>1. r < nextRow /\ (r \in Rows \ removed => Present(inbox[r]) /\ inbox[r].cause = e.cause)
      BY <1>1 DEF Known
    <2>2. r < nextRow' /\ r # nextRow
      BY <1>0, <2>1 DEF CauseStep
    <2> QED
      BY <2>1, <2>2 DEF CauseStep, GoesOn, Posted
  <1>2. CopiesKnown'
    <2>1. /\ \A r \in Rows : /\ Known(inbox, removed, nextRow, r, sweep.held[r])
                             /\ Known(inbox, removed, nextRow, r, sync.held[r])
          /\ \A p \in Posters : Known(inbox, removed, nextRow, post[p].row, post[p].entry)
      BY DEF CauseInv, CopiesKnown
    <2>2. \A p \in Posters : post[p].row \in Nat
      <3>1. \A p \in Posters : post[p] \in PostOps
        BY DEF TypeInv, PostFits
      <3>2. \A p \in Posters : post[p].row \in Rows \cup {0}
        BY <3>1 DEF PostOps
      <3>3. \A x \in Rows \cup {0} : x \in Nat
        BY InboxConstants DEF Rows
      <3> QED
        BY <3>2, <3>3
    <2>3. \A r \in Rows : Traced(r, sweep'.held[r]) /\ Traced(r, sync'.held[r])
      BY <1>0, <1>1, <2>1
    <2>4. \A p \in Posters : Traced(post'[p].row, post'[p].entry)
      BY <1>1, <2>1, <2>2
    <2> QED
      BY <2>3, <2>4 DEF CopiesKnown, Traced
  <1>3. OneRowPerCause'
    <2> SUFFICES ASSUME NEW q \in Rows \ removed', NEW r \in Rows \ removed',
                        Pending(inbox'[q]), Pending(inbox'[r]), inbox'[q].cause # NoCause,
                        inbox'[q].cause = inbox'[r].cause
                 PROVE  q = r
      BY DEF OneRowPerCause
    <2>1. q \in Rows \ removed /\ r \in Rows \ removed
      BY DEF CauseStep
    <2>2. Present(inbox'[q]) /\ Present(inbox'[r])
      BY DEF Pending, Present
    <2>3. (GoesOn(q) \/ Posted(q)) /\ (GoesOn(r) \/ Posted(r))
      BY DEF CauseStep
    <2>4. GoesOn(q) => Pending(inbox[q]) /\ inbox[q].cause = inbox'[q].cause
      BY <2>2 DEF GoesOn
    <2>5. GoesOn(r) => Pending(inbox[r]) /\ inbox[r].cause = inbox'[r].cause
      BY <2>2 DEF GoesOn
    <2>6. CASE GoesOn(q) /\ GoesOn(r)
      BY <2>1, <2>4, <2>5, <2>6 DEF CauseInv, OneRowPerCause
    <2>7. CASE Posted(q) /\ Posted(r)
      BY <2>7 DEF Posted
    <2>8. CASE Posted(q) /\ GoesOn(r)
      BY <2>1, <2>5, <2>8 DEF Posted
    <2>9. CASE GoesOn(q) /\ Posted(r)
      BY <2>1, <2>4, <2>9 DEF Posted
    <2> QED
      BY <2>3, <2>6, <2>7, <2>8, <2>9
  <1> QED
    BY <1>2, <1>3 DEF CauseInv, RowsPosted, CauseStep

\* A sweep that holds on to its pending rows, and to what is posted for a cause.
LEMMA HoldsOn ==
    ASSUME CauseInv, CauseStep, sweep'.step \in Working => sweep.step \in Working,
           \A r \in Rows : Pending(sweep.held[r]) /\ Pending(inbox'[r]) => Pending(sweep'.held[r]),
           \A r \in Rows : Posted(r) => inbox'[r].cause = NoCause \/ Pending(sweep'.held[r])
    PROVE  CausesHeld'
  <1> SUFFICES ASSUME sweep'.step \in Working, NEW r \in Rows \ removed',
                      Pending(inbox'[r]), inbox'[r].cause # NoCause
               PROVE  Pending(sweep'.held[r])
    BY DEF CausesHeld
  <1>1. r \in Rows \ removed /\ (GoesOn(r) \/ Posted(r))
    BY DEF CauseStep
  <1>2. CASE GoesOn(r)
    <2>1. Present(inbox'[r])
      BY DEF Pending, Present
    <2>2. Pending(inbox[r]) /\ inbox[r].cause # NoCause
      BY <1>2, <2>1 DEF GoesOn
    <2> QED
      BY <1>1, <2>2 DEF CauseInv, CausesHeld
  <1>3. CASE Posted(r)
    BY <1>3
  <1> QED
    BY <1>1, <1>2, <1>3

\* A step that leaves the rows alone.
LEMMA SameCauses ==
    ASSUME TypeInv, CauseInv, UNCHANGED <<inbox, removed, nextRow>>
    PROVE  /\ CauseStep /\ RowsStay /\ \A r \in Rows : ~Posted(r)
           /\ \A r, e : Known(inbox, removed, nextRow, r, e) => Traced(r, e)
  <1>1. nextRow \in Nat
    BY InboxConstants DEF TypeInv, TypeOK
  <1> QED
    BY <1>1 DEF CauseInv, RowsPosted, CauseStep, RowsStay, GoesOn, Posted, Traced

\* Writing successors of the latest snapshots, under the lock.
Follows(d, e) ==
    /\ Present(e) <=> Present(d)
    /\ e.cause = d.cause
    /\ Pending(e) => Pending(d)

LEMMA WriteCauses ==
    ASSUME TypeInv, CauseInv, UNCHANGED <<removed, nextRow>>,
           \A r \in Rows : Follows(inbox[r], inbox'[r])
    PROVE  /\ CauseStep /\ RowsStay /\ \A r \in Rows : ~Posted(r)
           /\ \A r \in Rows : Traced(r, inbox'[r])
  <1>1. nextRow \in Nat
    BY InboxConstants DEF TypeInv, TypeOK
  <1>2. \A r \in Rows : Present(inbox'[r]) => r < nextRow
    BY DEF CauseInv, RowsPosted, Follows
  <1> QED
    BY <1>1, <1>2 DEF CauseStep, RowsStay, GoesOn, Posted, Traced, Known, Follows

\* Appending a copy that is known.
LEMMA AppendCauses ==
    ASSUME TypeInv, CauseInv, UNCHANGED <<removed, nextRow>>,
           NEW r \in Rows, NEW e \in Entry, Append(r, e), Present(e),
           Known(inbox, removed, nextRow, r, e)
    PROVE  /\ CauseStep /\ RowsStay /\ (\A q \in Rows : ~Posted(q)) /\ Traced(r, e)
           /\ \A q \in Rows : q # r => inbox'[q] = inbox[q]
  <1>1. nextRow \in Nat /\ inbox \in [Rows -> Entry]
    BY InboxConstants DEF TypeInv, TypeOK
  <1>2. /\ inbox' = [inbox EXCEPT ![r] = Fold(inbox[r], e)]
        /\ \A q \in Rows : q # r => inbox'[q] = inbox[q]
    BY <1>1 DEF Append
  <1>3. \/ inbox'[r] = inbox[r] /\ Terminal(inbox[r])
        \/ inbox'[r] = e /\ ~(Terminal(inbox[r]) /\ Pending(e))
    BY <1>1, <1>2 DEF Fold
  <1>4. r < nextRow /\ (r \notin removed => Present(inbox[r]) /\ inbox[r].cause = e.cause)
    BY DEF Known
  <1>5. Present(inbox'[r])
    BY <1>3 DEF Present, Terminal, TerminalStates
  <1>6. Present(inbox[r]) => Pending(inbox[r]) \/ Terminal(inbox[r])
    BY <1>1 DEF Present, Pending, Terminal, Entry, States
  <1>7. Terminal(inbox[r]) => ~Pending(inbox[r])
    BY DEF Pending, Terminal, TerminalStates
  <1>8. r \notin removed => GoesOn(r) /\ inbox'[r].cause = e.cause
    BY <1>3, <1>4, <1>5, <1>6, <1>7 DEF GoesOn
  <1>9. \A q \in Rows : q # r => GoesOn(q)
    BY <1>2 DEF GoesOn
  <1>10. \A q \in Rows : Present(inbox'[q]) => q < nextRow'
    BY <1>2, <1>4 DEF CauseInv, RowsPosted
  <1>11. CauseStep
    BY <1>1, <1>8, <1>9, <1>10 DEF CauseStep
  <1>12. Traced(r, e)
    BY <1>4, <1>5, <1>8 DEF Traced, Known
  <1>13. RowsStay /\ \A q \in Rows : ~Posted(q)
    BY <1>1, <1>2, <1>5 DEF RowsStay, Posted
  <1> QED
    BY <1>2, <1>11, <1>12, <1>13

\* Posting a row.
LEMMA PostCauses ==
    ASSUME TypeInv, CauseInv, removed' = removed, nextRow \in Rows, nextRow' = nextRow + 1,
           NEW e \in Entry, Append(nextRow, e), Pending(e),
           e.cause # NoCause => \A q \in Rows \ removed : Pending(inbox[q]) => inbox[q].cause # e.cause
    PROVE  /\ CauseStep /\ RowsStay /\ Traced(nextRow, e) /\ inbox'[nextRow] = e
           /\ \A q \in Rows : q # nextRow => inbox'[q] = inbox[q]
  <1>1. nextRow \in Nat /\ inbox \in [Rows -> Entry] /\ Rows \subseteq Nat
    BY InboxConstants DEF TypeInv, TypeOK, Rows
  <1>2. ~Present(inbox[nextRow])
    BY <1>1 DEF CauseInv, RowsPosted
  <1>3. /\ inbox' = [inbox EXCEPT ![nextRow] = Fold(inbox[nextRow], e)]
        /\ \A q \in Rows : q # nextRow => inbox'[q] = inbox[q]
    BY <1>1 DEF Append
  <1>4. inbox'[nextRow] = e
    BY <1>1, <1>2, <1>3 DEF Fold, Present, Terminal, TerminalStates
  <1>5. Posted(nextRow) /\ \A q \in Rows : q # nextRow => GoesOn(q)
    BY <1>3, <1>4 DEF Posted, GoesOn
  <1>6. \A q \in Rows : Present(inbox'[q]) => q < nextRow'
    <2> SUFFICES ASSUME NEW q \in Rows, Present(inbox'[q]) PROVE q < nextRow'
      OBVIOUS
    <2>1. CASE q = nextRow
      BY <1>1, <2>1
    <2>2. CASE q # nextRow
      <3>1. q < nextRow
        BY <1>3, <2>2 DEF CauseInv, RowsPosted
      <3> QED
        BY <1>1, <3>1
    <2> QED
      BY <2>1, <2>2
  <1>7. CauseStep
    BY <1>1, <1>5, <1>6 DEF CauseStep
  <1>8. Present(e)
    BY DEF Pending, Present
  <1>9. RowsStay
    BY <1>2, <1>3 DEF RowsStay
  <1>10. Traced(nextRow, e)
    BY <1>1, <1>4, <1>8 DEF Traced, Known
  <1> QED
    BY <1>3, <1>4, <1>7, <1>9, <1>10

\* Replacing the file by some of its rows.
LEMMA ReplaceCauses ==
    ASSUME TypeInv, CauseInv, NEW ids, Replace(inbox, ids), nextRow' = nextRow
    PROVE  /\ CauseStep /\ \A q \in Rows : ~Posted(q)
           /\ \A q \in Rows : inbox'[q] = IF q \in ids THEN inbox[q] ELSE NoEntry
           /\ \A q \in Rows : Traced(q, inbox'[q])
  <1>1. nextRow \in Nat
    BY InboxConstants DEF TypeInv, TypeOK
  <1>2. \A q \in Rows : inbox'[q] = IF q \in ids THEN inbox[q] ELSE NoEntry
    BY DEF Replace, KeepOnly
  <1>3. removed' = removed \cup {q \in Rows : Present(inbox[q]) /\ q \notin ids}
    BY DEF Replace
  <1>4. ~Present(NoEntry) /\ ~Pending(NoEntry)
    BY DEF Present, Pending, NoEntry
  <1>5. \A q \in Rows \ removed' : GoesOn(q)
    BY <1>2, <1>3, <1>4 DEF GoesOn
  <1>6. \A q \in Rows : Present(inbox'[q]) => q < nextRow'
    BY <1>2, <1>4 DEF CauseInv, RowsPosted
  <1> QED
    BY <1>1, <1>2, <1>3, <1>5, <1>6 DEF CauseStep, Posted, Traced, Known

\* The transitions of a row keep its cause, and make nothing pending.
LEMMA TransitionCauses ==
    ASSUME NEW e \in Entry, NEW t \in Tries, NEW x \in TerminalStates, NEW s
    PROVE  /\ Evidence(e, t).cause = e.cause /\ Evidence(e, t).state = e.state
           /\ Follows(e, Land(e, t)) /\ Follows(e, Mark(e, x)) /\ Follows(e, ConsumeEntry(e))
           /\ CompleteEntry(e).cause = e.cause /\ CompleteEntry(e).state = e.state
           /\ RebindEntry(e, s).cause = e.cause /\ RebindEntry(e, s).state = e.state
           /\ RenewEntry(e, s).cause = e.cause /\ RenewEntry(e, s).state = e.state
  <1>1. Evidence(e, t).cause = e.cause /\ Evidence(e, t).state = e.state
    BY DEF Evidence, Entry
  <1>2. Follows(e, Land(e, t))
    <2>1. Evidence(e, t) \in Entry
      BY EntryType
    <2>2. CASE Pending(e)
      <3>1. /\ Land(e, t).state = "landed" /\ Land(e, t).cause = e.cause
        BY <1>1, <2>1, <2>2 DEF Land, Entry
      <3> QED
        BY <2>2, <3>1 DEF Follows, Present, Pending
    <2>3. CASE ~Pending(e)
      BY <2>3 DEF Land, Follows
    <2> QED
      BY <2>2, <2>3
  <1>3. Follows(e, Mark(e, x))
    BY DEF Mark, Follows, Entry, Present, Pending, TerminalStates
  <1>4. Follows(e, ConsumeEntry(e))
    BY DEF ConsumeEntry, Follows, Entry, Present, Pending
  <1>5. CompleteEntry(e).cause = e.cause /\ CompleteEntry(e).state = e.state
    BY DEF CompleteEntry, Entry
  <1>6. /\ RebindEntry(e, s).cause = e.cause /\ RebindEntry(e, s).state = e.state
        /\ RenewEntry(e, s).cause = e.cause /\ RenewEntry(e, s).state = e.state
    BY DEF RebindEntry, RenewEntry, Entry
  <1> QED
    BY <1>1, <1>2, <1>3, <1>4, <1>5, <1>6

-----------------------------------------------------------------------------
(* What a compaction drops over the cap.                                    *)

\* A set of rows has a last one, and is finite.
LEMMA GreatestRow ==
    ASSUME NEW S \in SUBSET Rows, S # {}
    PROVE  \E m \in S : \A q \in S : q <= m
  <1> DEFINE T == {MaxRows + 1 - q : q \in S}
  <1>1. MaxRows \in Nat /\ \A q \in S : q \in 1 .. MaxRows
    BY InboxConstants DEF Rows
  <1>2. T \in SUBSET Rows /\ T # {}
    <2>1. \A q \in S : MaxRows + 1 - q \in Rows
      BY <1>1 DEF Rows
    <2>2. PICK q : q \in S
      OBVIOUS
    <2>3. MaxRows + 1 - q \in T
      BY <2>2
    <2> QED
      BY <2>1, <2>3
  <1>3. PICK o \in T : \A p \in T : o <= p
    <2> HIDE DEF T
    <2> QED
      BY <1>2, LeastRow
  <1>4. PICK m \in S : o = MaxRows + 1 - m
    OBVIOUS
  <1>5. ASSUME NEW q \in S PROVE q <= m
    <2>1. o <= MaxRows + 1 - q
      BY <1>3
    <2> QED
      BY <1>1, <1>4, <2>1
  <1> QED
    BY <1>5

LEMMA RowsFinite ==
    ASSUME NEW S \in SUBSET Rows
    PROVE  IsFiniteSet(S) /\ Cardinality(S) \in Nat
  <1>1. IsFiniteSet(Rows)
    BY InboxConstants, FS_Interval DEF Rows
  <1>2. IsFiniteSet(S)
    BY <1>1, FS_Subset
  <1> QED
    BY <1>2, FS_CardinalityType

\* If the newest n rows of a set are not all of it, they are at least n.
LEMMA NewestFills ==
    ASSUME NEW S \in SUBSET Rows, NEW n \in Nat, NEW r \in S, r \notin Newest(S, n)
    PROVE  Cardinality(Newest(S, n)) >= n
  <1> DEFINE D == S \ Newest(S, n)
  <1>1. PICK m \in D : \A q \in D : q <= m
    <2>1. D \in SUBSET Rows /\ D # {}
      OBVIOUS
    <2> HIDE DEF D
    <2> QED
      BY <2>1, GreatestRow
  <1> DEFINE Up == {q \in S : q > m}
  <1>2. \A q \in S : q \in Int
    BY InboxConstants DEF Rows
  <1>3. Up \subseteq Newest(S, n)
    <2> SUFFICES ASSUME NEW q \in Up, q \notin Newest(S, n) PROVE FALSE
      OBVIOUS
    <2>1. q \in D /\ q <= m
      BY <1>1
    <2> QED
      BY <1>2, <2>1
  <1>4. {q \in S : q >= m} = Up \cup {m} /\ m \notin Up
    BY <1>2
  <1>5. Cardinality({q \in S : q >= m}) > n
    <2>1. Cardinality({q \in S : q >= m}) \in Nat
      BY RowsFinite
    <2>2. ~(Cardinality({q \in S : q >= m}) <= n)
      BY <1>1 DEF Newest
    <2> QED
      BY <2>1, <2>2
  <1>6. IsFiniteSet(Up) /\ Cardinality(Up) \in Nat
    BY RowsFinite
  <1> HIDE DEF Up
  <1>7. Cardinality(Up \cup {m}) = Cardinality(Up) + 1
    BY <1>4, <1>6, FS_AddElement
  <1>8. Cardinality(Up) >= n
    <2>1. Cardinality(Up) + 1 > n
      BY <1>4, <1>5, <1>7
    <2> QED
      BY <1>6, <2>1
  <1>9. IsFiniteSet(Newest(S, n)) /\ Cardinality(Newest(S, n)) \in Nat
    BY RowsFinite DEF Newest
  <1>10. Cardinality(Up) <= Cardinality(Newest(S, n))
    BY <1>3, <1>9, FS_Subset
  <1> QED
    BY <1>6, <1>8, <1>9, <1>10

\* With no room left nothing is the newest.
LEMMA NewestOfNone ==
    ASSUME NEW S \in SUBSET Rows, NEW n \in Int, n <= 0
    PROVE  Newest(S, n) = {}
  <1> SUFFICES ASSUME NEW r \in Newest(S, n) PROVE FALSE
    OBVIOUS
  <1> DEFINE Up == {q \in S : q >= r}
  <1>1. r \in Up
    BY InboxConstants DEF Newest, Rows
  <1>2. IsFiniteSet(Up) /\ Cardinality(Up) \in Nat
    BY RowsFinite
  <1>3. Cardinality(Up) <= n
    BY DEF Newest
  <1> HIDE DEF Up
  <1>4. Cardinality(Up) = 0
    BY <1>2, <1>3
  <1>5. Up = {}
    BY <1>2, <1>4, FS_EmptySet
  <1> QED
    BY <1>1, <1>5

\* If a compaction drops a pending row, what it keeps is pending or a turn report.
LEMMA DropsMarkersFirst ==
    ASSUME NEW cur, NEW F, NEW G, NEW r \in Rows, Pending(cur[r]), r \notin KeepIds(cur, F, G)
    PROVE  \A q \in KeepIds(cur, F, G) : Pending(cur[q]) \/ cur[q].kind = "turn-report"
  <1> DEFINE protected == ProtectedReports(cur, G)
             kept == protected \cup {q \in Rows : KeepEntry(cur[q], q \in F)}
             room == IF Cap > Cardinality(protected) THEN Cap - Cardinality(protected) ELSE 0
             pending == {q \in kept \ protected : Pending(cur[q])}
             selected == Newest(pending, room)
             rest == kept \ (protected \cup pending)
  <1>1. /\ protected \in SUBSET Rows /\ kept \in SUBSET Rows /\ pending \in SUBSET Rows
        /\ rest \in SUBSET Rows /\ \A q \in protected : cur[q].kind = "turn-report"
    BY DEF ProtectedReports
  <1>2. r \in kept
    BY DEF KeepEntry
  <1>3. KeepIds(cur, F, G) = IF Cardinality(kept) > Cap THEN Evict(cur, kept, protected) ELSE kept
    BY DEF KeepIds
  <1>4. KeepIds(cur, F, G) = Evict(cur, kept, protected)
    <2> HIDE DEF kept, protected
    <2> QED
      BY <1>2, <1>3
  <1>5. Evict(cur, kept, protected) =
          protected \cup selected \cup Newest(rest, room - Cardinality(selected))
    <2> HIDE DEF kept, protected
    <2> QED
      BY DEF Evict
  <1>6. room \in Nat
    <2>1. Cardinality(protected) \in Nat
      BY <1>1, RowsFinite
    <2> HIDE DEF protected
    <2> QED
      BY <2>1, InboxConstants
  <1>7. r \in pending /\ r \notin selected
    <2> HIDE DEF kept, protected, selected
    <2> QED
      BY <1>2, <1>4, <1>5
  <1>8. selected \in SUBSET pending /\ \A q \in pending : Pending(cur[q])
    BY DEF Newest
  <1> HIDE DEF protected, kept, room, pending, rest
  <1>9. Cardinality(selected) >= room
    BY <1>1, <1>6, <1>7, NewestFills
  <1>10. Cardinality(selected) \in Nat
    BY <1>1, <1>8, RowsFinite
  <1>11. Newest(rest, room - Cardinality(selected)) = {}
    <2> HIDE DEF selected
    <2>1. room - Cardinality(selected) \in Int /\ room - Cardinality(selected) <= 0
      BY <1>6, <1>9, <1>10
    <2> QED
      BY <1>1, <2>1, NewestOfNone
  <1> HIDE DEF selected
  <1> QED
    BY <1>1, <1>4, <1>5, <1>8, <1>11

\* The step of PendingOutlivesMarkers.
MarkersFirst ==
    (\E r \in Rows \ ConfirmedGone(inbox, sweep.gone) :
        Pending(inbox[r]) /\ ~Present(inbox'[r])) /\ cancelled' = cancelled =>
    \A r \in Rows : Terminal(inbox'[r]) => inbox[r].kind = "turn-report"

\* It holds of a step that takes no row away.
LEMMA StayFirst == RowsStay => MarkersFirst
  BY DEF RowsStay, MarkersFirst, Pending, Present

-----------------------------------------------------------------------------
(* Every step keeps the causes, and drops markers before pending rows.      *)

\* A step that changes one poster's operation, and perhaps the rows.
LEMMA PostTraces ==
    ASSUME TypeInv, TypeInv', CauseInv, CauseStep,
           \A r \in Rows : Posted(r) => inbox'[r].cause = NoCause,
           NEW p \in Posters, NEW o, post' = [post EXCEPT ![p] = o], UNCHANGED <<sweep, sync>>,
           (o.row = post[p].row /\ o.entry = post[p].entry) \/ Traced(o.row, o.entry)
    PROVE  CauseInv'
  <1>1. post'[p] = o /\ \A q \in Posters \ {p} : post'[q] = post[q]
    BY DEF TypeInv, TypeOK
  <1>2. \A q \in Posters :
            \/ post'[q].row = post[q].row /\ post'[q].entry = post[q].entry
            \/ Traced(post'[q].row, post'[q].entry)
    BY <1>1
  <1>3. CausesHeld'
    BY HoldsOn
  <1> QED
    BY <1>2, <1>3, CauseCarry

\* A step that changes the sweep, and perhaps the rows.
LEMMA SweepTraces ==
    ASSUME TypeInv, TypeInv', CauseInv, CauseStep, CausesHeld', UNCHANGED <<post, sync>>,
           \A r \in Rows : sweep'.held[r] = sweep.held[r] \/ Traced(r, sweep'.held[r])
    PROVE  CauseInv'
  BY CauseCarry

\* A sweep that goes on without touching the rows, or ends.
LEMMA SweepMovesOn ==
    ASSUME TypeInv, TypeInv', CauseInv, UNCHANGED <<inbox, removed, nextRow, post, sync>>,
           \/ sweep'.held = sweep.held /\ (sweep'.step \in Working => sweep.step \in Working)
           \/ (\A r \in Rows : sweep'.held[r] = NoEntry) /\ sweep'.step \notin Working
    PROVE  CauseInv' /\ MarkersFirst
  <1>1. CauseStep /\ RowsStay /\ \A r \in Rows : ~Posted(r)
    BY SameCauses
  <1>2. CASE sweep'.held = sweep.held /\ (sweep'.step \in Working => sweep.step \in Working)
    <2>1. CausesHeld'
      BY <1>1, <1>2, HoldsOn
    <2> QED
      BY <1>1, <1>2, <2>1, SweepTraces, StayFirst
  <1>3. CASE (\A r \in Rows : sweep'.held[r] = NoEntry) /\ sweep'.step \notin Working
    <2>1. CausesHeld'
      BY <1>3 DEF CausesHeld
    <2> QED
      BY <1>1, <1>3, <2>1, SweepTraces, NothingTraced, StayFirst
  <1> QED
    BY <1>2, <1>3

\* A sweep that appends a row from its own copy, and remembers it.
LEMMA SweepAppendsKnown ==
    ASSUME TypeInv, TypeInv', CauseInv, UNCHANGED <<removed, nextRow, post, sync>>,
           NEW r \in Rows, NEW e \in Entry, Append(r, e), Present(e),
           e.cause = sweep.held[r].cause, e.state = sweep.held[r].state,
           sweep'.held = [sweep.held EXCEPT ![r] = e],
           sweep'.step \in Working => sweep.step \in Working
    PROVE  CauseInv' /\ MarkersFirst
  <1>1. Known(inbox, removed, nextRow, r, e)
    <2>1. Known(inbox, removed, nextRow, r, sweep.held[r])
      BY DEF CauseInv, CopiesKnown
    <2> QED
      BY <2>1 DEF Known, Present
  <1>2. CauseStep /\ RowsStay /\ (\A q \in Rows : ~Posted(q)) /\ Traced(r, e)
    BY <1>1, AppendCauses
  <1>3. sweep'.held[r] = e /\ \A q \in Rows \ {r} : sweep'.held[q] = sweep.held[q]
    BY DEF TypeInv, TypeOK, SweepOps
  <1>4. \A q \in Rows : Pending(sweep.held[q]) => Pending(sweep'.held[q])
    BY <1>3 DEF Pending
  <1>5. CausesHeld'
    BY <1>2, <1>4, HoldsOn
  <1> QED
    BY <1>2, <1>3, <1>5, SweepTraces, StayFirst

\* A sweep that writes a row under the lock, and remembers it.
LEMMA SweepWritesKnown ==
    ASSUME TypeInv, TypeInv', CauseInv, UNCHANGED <<removed, nextRow, post, sync>>,
           NEW r \in Rows, NEW e \in Entry, inbox' = [inbox EXCEPT ![r] = e],
           Follows(inbox[r], e),
           sweep'.held = [sweep.held EXCEPT ![r] = e],
           sweep'.step \in Working => sweep.step \in Working
    PROVE  CauseInv' /\ MarkersFirst
  <1>1. inbox'[r] = e /\ \A q \in Rows \ {r} : inbox'[q] = inbox[q]
    BY DEF TypeInv, TypeOK
  <1>2. \A q \in Rows : Follows(inbox[q], inbox'[q])
    BY <1>1 DEF Follows
  <1>3. CauseStep /\ RowsStay /\ (\A q \in Rows : ~Posted(q)) /\ Traced(r, e)
    BY <1>1, <1>2, WriteCauses
  <1>4. sweep'.held[r] = e /\ \A q \in Rows \ {r} : sweep'.held[q] = sweep.held[q]
    BY DEF TypeInv, TypeOK, SweepOps
  <1>5. \A q \in Rows : Pending(sweep.held[q]) /\ Pending(inbox'[q]) => Pending(sweep'.held[q])
    BY <1>1, <1>4
  <1>6. CausesHeld'
    BY <1>3, <1>5, HoldsOn
  <1> QED
    BY <1>3, <1>4, <1>6, SweepTraces, StayFirst

\* The steps of a post.
LEMMA CausesPost ==
    ASSUME IInv, TypeInv', CauseInv, NEW p \in Posters,
           (\E x \in Posts : PostAppend(p, x)) \/ PostStep(p)
    PROVE  CauseInv' /\ MarkersFirst
  <1>0. /\ TypeInv /\ inbox \in [Rows -> Entry] /\ PostFits(post[p]) /\ post[p] \in PostOps
        /\ post[p].try \in Tries /\ post[p].entry \in Entry
        /\ Known(inbox, removed, nextRow, post[p].row, post[p].entry)
    BY DEF IInv, TypeInv, TypeOK, PostOps, CauseInv, CopiesKnown
  <1>1. ASSUME NEW x \in Posts, PostAppend(p, x) PROVE CauseInv' /\ MarkersFirst
    <2>1. PICK agent \in PostAgents(x.address) :
            LET e == CreateEntry(x.kind, x.address # "exact", agent, x.gated, NoCause) IN
            /\ Append(nextRow, e)
            /\ post' = [post EXCEPT ![p] = [IdlePost EXCEPT !.step = "compact", !.row = nextRow,
                                                           !.entry = e]]
      BY <1>1 DEF PostAppend
    <2> DEFINE e == CreateEntry(x.kind, x.address # "exact", agent, x.gated, NoCause)
    <2> DEFINE o == [IdlePost EXCEPT !.step = "compact", !.row = nextRow, !.entry = e]
    <2>2. /\ x.kind \in Kinds /\ (x.address # "exact") \in BOOLEAN /\ x.gated \in BOOLEAN
          /\ agent \in Sessions \cup {NoSession}
      BY PostConstants, AddressType DEF Kinds
    <2>3. e \in Entry /\ Pending(e)
      BY <2>2, CreateType
    <2>4. e.cause = NoCause
      BY DEF CreateEntry, NoEntry
    <2>5. /\ nextRow \in Rows /\ removed' = removed /\ nextRow' = nextRow + 1
          /\ UNCHANGED <<sweep, sync>>
      BY <1>1 DEF PostAppend
    <2>6. Append(nextRow, e) /\ post' = [post EXCEPT ![p] = o]
      BY <2>1
    <2>7. o.row = nextRow /\ o.entry = e
      BY DEF IdlePost
    <2> HIDE DEF e, o
    <2>8. CauseStep /\ RowsStay /\ Traced(nextRow, e) /\ inbox'[nextRow] = e
      BY <1>0, <2>3, <2>4, <2>5, <2>6, PostCauses
    <2>9. \A r \in Rows : Posted(r) => inbox'[r].cause = NoCause
      BY <2>4, <2>8 DEF Posted
    <2> QED
      BY <1>0, <2>5, <2>6, <2>7, <2>8, <2>9, PostTraces, StayFirst
  <1>2. CASE PostCompact(p)
    <2> DEFINE keep == KeepIds(inbox, faded, {})
    <2> DEFINE o == [post[p] EXCEPT !.step = "deliver"]
    <2>1. /\ Replace(inbox, keep) /\ nextRow' = nextRow /\ UNCHANGED <<sweep, sync>>
          /\ post' = [post EXCEPT ![p] = o]
      BY <1>2 DEF PostCompact
    <2>2. o.row = post[p].row /\ o.entry = post[p].entry
      BY <1>0 DEF PostOps
    <2> HIDE DEF o
    <2>3. /\ CauseStep /\ \A q \in Rows : ~Posted(q)
          /\ \A q \in Rows : inbox'[q] = IF q \in keep THEN inbox[q] ELSE NoEntry
      BY <1>0, <2>1, ReplaceCauses
    <2>4. CauseInv'
      BY <1>0, <2>1, <2>2, <2>3, PostTraces
    <2>5. MarkersFirst
      <3> SUFFICES ASSUME NEW r \in Rows, Pending(inbox[r]), ~Present(inbox'[r]),
                          NEW q \in Rows, Terminal(inbox'[q])
                   PROVE  inbox[q].kind = "turn-report"
        BY DEF MarkersFirst
      <3>1. r \notin keep
        BY <2>3 DEF Pending, Present
      <3>2. q \in keep /\ Terminal(inbox[q])
        BY <2>3 DEF Terminal, TerminalStates, NoEntry
      <3>3. ~Pending(inbox[q])
        BY <3>2 DEF Pending, Terminal, TerminalStates
      <3> QED
        BY <3>1, <3>2, <3>3, DropsMarkersFirst
    <2> QED
      BY <2>4, <2>5
  <1>3. CASE PostDeliver(p)
    <2>1. PICK t : post' = [post EXCEPT ![p] = [post[p] EXCEPT !.step = "read", !.entry = NoEntry, !.try = t]]
      BY <1>3 DEF PostDeliver
    <2> DEFINE o == [post[p] EXCEPT !.step = "read", !.entry = NoEntry, !.try = t]
    <2>2. o.entry = NoEntry /\ post' = [post EXCEPT ![p] = o]
      BY <1>0, <2>1 DEF PostOps
    <2> HIDE DEF o
    <2>3. UNCHANGED <<inbox, removed, nextRow, sweep, sync>>
      BY <1>3 DEF PostDeliver
    <2>4. CauseStep /\ RowsStay /\ \A r \in Rows : ~Posted(r)
      BY <1>0, <2>3, SameCauses
    <2>5. Traced(o.row, o.entry)
      BY <2>2, NothingTraced
    <2> QED
      BY <1>0, <2>2, <2>3, <2>4, <2>5, PostTraces, StayFirst
  <1>4. CASE PostRead(p)
    <2> DEFINE o == IF Present(inbox[post[p].row])
                    THEN [post[p] EXCEPT !.step = "record", !.entry = inbox[post[p].row]]
                    ELSE IdlePost
    <2>1. post' = [post EXCEPT ![p] = o] /\ UNCHANGED <<inbox, removed, nextRow, sweep, sync>>
      BY <1>4 DEF PostRead
    <2>2. post[p].row \in Rows
      BY <1>0, <1>4 DEF PostRead, PostFits
    <2>3. /\ CauseStep /\ RowsStay /\ \A r \in Rows : ~Posted(r)
          /\ \A r, e : Known(inbox, removed, nextRow, r, e) => Traced(r, e)
      BY <1>0, <2>1, SameCauses
    <2>4. Traced(o.row, o.entry)
      <3>1. CASE Present(inbox[post[p].row])
        <4>1. o.row = post[p].row /\ o.entry = inbox[post[p].row]
          BY <1>0, <3>1 DEF PostOps
        <4>2. Known(inbox, removed, nextRow, post[p].row, inbox[post[p].row])
          BY <2>2 DEF Known, CauseInv, RowsPosted
        <4> QED
          BY <2>3, <4>1, <4>2
      <3>2. CASE ~Present(inbox[post[p].row])
        BY <3>2, NothingTraced
      <3> QED
        BY <3>1, <3>2
    <2> HIDE DEF o
    <2> QED
      BY <1>0, <2>1, <2>3, <2>4, PostTraces, StayFirst
  <1>5. CASE PostRecord(p)
    <2>1. PICK r, t, d : r = post[p].row /\ t = post[p].try /\ d = post[p].entry
      OBVIOUS
    <2>2. /\ r \in Rows /\ t \in Tries /\ d \in Entry /\ Present(d)
          /\ Known(inbox, removed, nextRow, r, d)
      BY <1>0, <1>5, <2>1 DEF PostRecord, PostFits, IInv, HeldInv
    <2>3. /\ \/ inbox' = [inbox EXCEPT ![r] = Land(inbox[r], t)]
             \/ Append(r, Evidence(d, t))
          /\ post' = [post EXCEPT ![p] = IdlePost] /\ UNCHANGED <<sweep, sync, nextRow, removed>>
      BY <1>5, <2>1 DEF PostRecord
    <2>4. CauseStep /\ RowsStay /\ \A q \in Rows : ~Posted(q)
      <3>1. CASE inbox' = [inbox EXCEPT ![r] = Land(inbox[r], t)]
        <4>1. Follows(inbox[r], Land(inbox[r], t))
          <5>1. inbox[r] \in Entry /\ "landed" \in TerminalStates
            BY <1>0, <2>2 DEF TerminalStates
          <5> QED
            BY <2>2, <5>1, TransitionCauses
        <4>2. \A q \in Rows : Follows(inbox[q], inbox'[q])
          BY <1>0, <2>2, <3>1, <4>1 DEF Follows
        <4> QED
          BY <1>0, <2>3, <4>2, WriteCauses
      <3>2. CASE Append(r, Evidence(d, t))
        <4>1. "landed" \in TerminalStates
          BY DEF TerminalStates
        <4>2. PICK e : e = Evidence(d, t)
          OBVIOUS
        <4>3. e.cause = d.cause /\ e.state = d.state
          BY <2>2, <4>1, <4>2, TransitionCauses
        <4>4. e \in Entry
          BY <2>2, <4>2, EntryType
        <4>5. Present(e) /\ Known(inbox, removed, nextRow, r, e) /\ Append(r, e)
          BY <2>2, <3>2, <4>2, <4>3 DEF Present, Known
        <4> QED
          BY <1>0, <2>2, <2>3, <4>4, <4>5, AppendCauses
      <3> QED
        BY <2>3, <3>1, <3>2
    <2> QED
      BY <1>0, <2>3, <2>4, NothingTraced, PostTraces, StayFirst
  <1> QED
    BY <1>1, <1>2, <1>3, <1>4, <1>5 DEF PostStep

\* The sweep up to its findings.
LEMMA CausesSweepBegin ==
    ASSUME IInv, TypeInv', CauseInv, SweepBegin \/ SweepReconcile \/ SweepEvaluate
    PROVE  CauseInv' /\ MarkersFirst
  <1>0. TypeInv /\ inbox \in [Rows -> Entry] /\ sweep \in SweepOps
    BY DEF IInv, TypeInv, TypeOK
  <1>1. CASE SweepBegin
    <2>1. UNCHANGED <<inbox, removed, nextRow, post, sync>>
      BY <1>1 DEF SweepBegin
    <2>2. (\A r \in Rows : sweep'.held[r] = NoEntry) /\ sweep'.step \notin Working
      BY <1>1 DEF SweepBegin, IdleSweep, NoRows, Working
    <2> QED
      BY <1>0, <2>1, <2>2, SweepMovesOn
  <1>2. CASE SweepReconcile
    <2> DEFINE gone == ConfirmedGone(inbox, sweep.gone)
    <2> DEFINE cur == [r \in Rows |-> IF r \in gone THEN [inbox[r] EXCEPT !.state = "ladder-resolved"]
                                      ELSE inbox[r]]
    <2> DEFINE keep == KeepIds(cur, faded, registered)
    <2>1. /\ IF \E r \in Rows : Present(inbox[r]) /\ r \notin keep
             THEN Replace(cur, keep) ELSE UNCHANGED <<inbox, removed>>
          /\ sweep' = [sweep EXCEPT !.step = "evaluate", !.gone = {}, !.held = KeepOnly(cur, keep)]
          /\ UNCHANGED <<nextRow, post, sync>>
      BY <1>2 DEF SweepReconcile
    <2>2. \A r \in gone : cur[r].state = "ladder-resolved" /\ cur[r].kind = "escalation"
      <3>1. \A r \in gone : r \in Rows /\ inbox[r].kind = "escalation" /\ inbox[r] \in Entry
        BY <1>0 DEF ConfirmedGone
      <3>2. \A e \in Entry : /\ [e EXCEPT !.state = "ladder-resolved"].state = "ladder-resolved"
                             /\ [e EXCEPT !.state = "ladder-resolved"].kind = e.kind
        BY DEF Entry
      <3> QED
        BY <3>1, <3>2
    <2>3. \A r \in Rows \ gone : cur[r] = inbox[r]
      OBVIOUS
    <2>4. \A r \in keep : r \in Rows \ gone
      BY <2>2, KeepIdsKeeps DEF ProtectedReports
    <2> HIDE DEF gone, cur, keep
    <2>5. KeepOnly(cur, keep) = KeepOnly(inbox, keep)
      BY <2>3, <2>4 DEF KeepOnly
    <2>6. sweep'.held = KeepOnly(inbox, keep)
      BY <1>0, <2>1, <2>5 DEF SweepOps
    <2>7. \A q \in Rows : sweep'.held[q] = IF q \in keep THEN inbox[q] ELSE NoEntry
      BY <2>6 DEF KeepOnly
    <2>8. /\ CauseStep
          /\ \A q \in Rows : Present(inbox'[q]) => q \in keep /\ inbox'[q] = inbox[q]
          /\ \A q \in keep : inbox'[q] = inbox[q] /\ Traced(q, inbox[q])
      <3>1. CASE \E r \in Rows : Present(inbox[r]) /\ r \notin keep
        <4>1. Replace(inbox, keep)
          BY <2>1, <2>5, <3>1 DEF Replace
        <4>2. /\ CauseStep
              /\ \A q \in Rows : inbox'[q] = IF q \in keep THEN inbox[q] ELSE NoEntry
              /\ \A q \in Rows : Traced(q, inbox'[q])
          BY <1>0, <2>1, <4>1, ReplaceCauses
        <4> QED
          BY <2>4, <4>2, NothingFresh
      <3>2. CASE ~\E r \in Rows : Present(inbox[r]) /\ r \notin keep
        <4>1. UNCHANGED <<inbox, removed, nextRow>>
          BY <2>1, <3>2
        <4>2. CauseStep /\ \A r, e : Known(inbox, removed, nextRow, r, e) => Traced(r, e)
          BY <1>0, <4>1, SameCauses
        <4>3. \A q \in Rows : Known(inbox, removed, nextRow, q, inbox[q])
          BY DEF Known, CauseInv, RowsPosted
        <4> QED
          BY <2>4, <3>2, <4>1, <4>2, <4>3
      <3> QED
        BY <3>1, <3>2
    <2>9. \A q \in Rows : Traced(q, sweep'.held[q])
      BY <2>7, <2>8, NothingTraced
    <2>10. CausesHeld'
      BY <2>7, <2>8 DEF CausesHeld, Pending, Present
    <2>11. CauseInv'
      BY <1>0, <2>1, <2>8, <2>9, <2>10, SweepTraces
    <2>12. MarkersFirst
      <3> SUFFICES ASSUME NEW r \in Rows \ gone, Pending(inbox[r]), ~Present(inbox'[r]),
                          NEW q \in Rows, Terminal(inbox'[q])
                   PROVE  inbox[q].kind = "turn-report"
        BY DEF MarkersFirst, gone
      <3>1. r \notin keep /\ Pending(cur[r])
        BY <2>3, <2>8 DEF Pending, Present
      <3>2. Present(inbox'[q])
        BY DEF Terminal, TerminalStates, Present
      <3>3. q \in keep /\ Terminal(inbox[q]) /\ cur[q] = inbox[q]
        BY <2>3, <2>4, <2>8, <3>2
      <3>4. ~Pending(cur[q])
        BY <3>3 DEF Pending, Terminal, TerminalStates
      <3>5. cur[q].kind = "turn-report"
        BY <3>1, <3>3, <3>4, DropsMarkersFirst DEF keep
      <3> QED
        BY <3>3, <3>5
    <2> QED
      BY <2>11, <2>12
  <1>3. CASE SweepEvaluate
    <2>1. UNCHANGED <<inbox, removed, nextRow, post, sync>> /\ sweep.step = "evaluate"
      BY <1>3 DEF SweepEvaluate
    <2>2. sweep'.held = sweep.held
      <3>1. \E all : sweep' = [sweep EXCEPT !.step = "act", !.todo = all]
        BY <1>3 DEF SweepEvaluate
      <3> QED
        BY <1>0, <3>1 DEF SweepOps
    <2> QED
      BY <1>0, <2>1, <2>2, SweepMovesOn DEF Working
  <1> QED
    BY <1>1, <1>2, <1>3

\* Acting on a finding.  A new row is posted only if the sweep holds no pending
\* row of the cause, and it holds them all.
LEMMA CausesAct ==
    ASSUME IInv, TypeInv', CauseInv, NEW f \in sweep.todo, Act(f)
    PROVE  CauseInv' /\ MarkersFirst
  <1>0. /\ TypeInv /\ sweep \in SweepOps /\ sweep.held \in [Rows -> Entry] /\ FindingFits(f)
    BY DEF IInv, TypeInv, TypeOK, SweepFits, SweepOps
  <1>0a. Done(f) \in SweepOps /\ Done(f).step = sweep.step /\ Done(f).held = sweep.held
    BY <1>0 DEF Done, SweepOps
  <1>0b. sweep.step = "act" /\ sweep.step \in Working
    BY DEF Act, SkipFinding, Redeliver, RebindDue, PrepareExpiry, PostOwnerSignal, Working
  <1>1. CASE SkipFinding(f)
    BY <1>0, <1>0a, <1>1, SweepMovesOn DEF SkipFinding
  <1>2. CASE Redeliver(f)
    <2>1. sweep'.held = sweep.held
      BY <1>0a, <1>2 DEF Redeliver, SweepOps
    <2> QED
      BY <1>0, <1>0b, <1>2, <2>1, SweepMovesOn DEF Redeliver
  <1>3. CASE RebindDue(f)
    <2>1. f.row \in Rows /\ UNCHANGED <<removed, nextRow, post, sync>> /\ Pending(sweep.held[f.row])
      BY <1>0, <1>3 DEF RebindDue, FindingFits, OfRows
    <2>2. CASE sweep' = Done(f) /\ UNCHANGED inbox
      BY <1>0, <1>0a, <2>1, <2>2, SweepMovesOn
    <2>3. ASSUME NEW x \in RowOwner(sweep.held[f.row], seats) \ {sweep.held[f.row].agent},
                 Append(f.row, RebindEntry(sweep.held[f.row], x)),
                 sweep' = Remember(Done(f), f.row, RebindEntry(sweep.held[f.row], x))
          PROVE  CauseInv' /\ MarkersFirst
      <3>1. PICK e : e = RebindEntry(sweep.held[f.row], x)
        OBVIOUS
      <3>2. x \in Sessions /\ sweep.held[f.row] \in Entry /\ "landed" \in TerminalStates
        BY <1>0, <2>1 DEF RowOwner, Occupant, Running, TerminalStates
      <3>3. e \in Entry
        BY <3>1, <3>2, EntryType, IdleType
      <3>4. e.cause = sweep.held[f.row].cause /\ e.state = sweep.held[f.row].state
        BY <3>1, <3>2, IdleType, TransitionCauses
      <3>5. Append(f.row, e) /\ Present(e)
        BY <2>1, <2>3, <3>1, <3>4 DEF Present, Pending
      <3>6. sweep'.held = [sweep.held EXCEPT ![f.row] = e]
        BY <1>0a, <2>3, <3>1 DEF Remember, SweepOps
      <3> QED
        BY <1>0, <1>0b, <2>1, <3>3, <3>4, <3>5, <3>6, SweepAppendsKnown
    <2> QED
      BY <1>3, <2>2, <2>3 DEF RebindDue
  <1>4. CASE PrepareExpiry(f)
    <2>1. \E S : sweep' = [Done(f) EXCEPT !.expiring = S]
      BY <1>4 DEF PrepareExpiry
    <2>2. sweep'.held = sweep.held
      BY <1>0a, <2>1 DEF SweepOps
    <2> QED
      BY <1>0, <1>0b, <1>4, <2>2, SweepMovesOn DEF PrepareExpiry
  <1>5. CASE PostOwnerSignal(f)
    <2>1. PICK owner \in PostAgents("owner") :
            LET same == Coalescible(f.cause, owner)
                r == IF same = {} THEN nextRow ELSE CHOOSE q \in same : \A o \in same : q <= o
                e == IF same = {} THEN CreateEntry(CauseKind[f.cause], TRUE, owner, FALSE, f.cause)
                     ELSE RenewEntry(sweep.held[r], owner)
            IN /\ r \in Rows
               /\ Append(r, e)
               /\ nextRow' = IF same = {} THEN nextRow + 1 ELSE nextRow
               /\ sweep' = Remember([Done(f) EXCEPT !.step = "deliver", !.now = [f EXCEPT !.row = r]],
                                    r, e)
      BY <1>5 DEF PostOwnerSignal
    <2> DEFINE same == Coalescible(f.cause, owner)
    <2> DEFINE r == IF same = {} THEN nextRow ELSE CHOOSE q \in same : \A o \in same : q <= o
    <2> DEFINE e == IF same = {} THEN CreateEntry(CauseKind[f.cause], TRUE, owner, FALSE, f.cause)
                    ELSE RenewEntry(sweep.held[r], owner)
    <2>2. same = Coalescible(f.cause, owner)
      OBVIOUS
    <2>3. r = IF same = {} THEN nextRow ELSE CHOOSE q \in same : \A o \in same : q <= o
      OBVIOUS
    <2>4. e = IF same = {} THEN CreateEntry(CauseKind[f.cause], TRUE, owner, FALSE, f.cause)
              ELSE RenewEntry(sweep.held[r], owner)
      OBVIOUS
    <2>5. /\ r \in Rows /\ Append(r, e)
          /\ nextRow' = IF same = {} THEN nextRow + 1 ELSE nextRow
          /\ sweep' = Remember([Done(f) EXCEPT !.step = "deliver", !.now = [f EXCEPT !.row = r]], r, e)
      BY <2>1
    <2> HIDE DEF same, r, e
    <2>6. /\ owner \in Sessions \cup {NoSession} /\ f.cause \in Causes
          /\ UNCHANGED <<removed, post, sync>>
      BY <1>0, <1>5, AddressType DEF PostOwnerSignal, FindingFits, OfRows
    <2>7. sweep'.held = [sweep.held EXCEPT ![r] = e] /\ sweep'.step = "deliver"
      BY <1>0a, <2>5 DEF Remember, SweepOps
    <2>8. CASE same = {}
      <3>1. /\ r = nextRow /\ nextRow' = nextRow + 1
            /\ e = CreateEntry(CauseKind[f.cause], TRUE, owner, FALSE, f.cause)
        BY <2>3, <2>4, <2>5, <2>8
      <3>2. CauseKind[f.cause] \in Kinds /\ f.cause \in Causes \cup {NoCause}
        BY <2>6, InboxConstants DEF Kinds
      <3>3. e \in Entry /\ Pending(e)
        BY <2>6, <3>1, <3>2, CreateType
      <3>4. e.cause = f.cause
        BY <3>1 DEF CreateEntry, NoEntry
      <3>5. ASSUME NEW q \in Rows \ removed, Pending(inbox[q]), inbox[q].cause = f.cause
            PROVE  FALSE
        <4>1. f.cause # NoCause
          BY <2>6, InboxConstants
        <4>2. Pending(sweep.held[q])
          BY <1>0b, <3>5, <4>1 DEF CauseInv, CausesHeld
        <4>3. sweep.held[q].cause = f.cause
          <5>1. Known(inbox, removed, nextRow, q, sweep.held[q])
            BY DEF CauseInv, CopiesKnown
          <5> QED
            BY <3>5, <4>2, <5>1 DEF Known, Pending, Present
        <4> QED
          BY <2>2, <2>8, <4>2, <4>3 DEF Coalescible, PendingHeld
      <3>6. /\ CauseStep /\ RowsStay /\ Traced(nextRow, e) /\ inbox'[nextRow] = e
        BY <1>0, <2>5, <2>6, <3>1, <3>3, <3>4, <3>5, PostCauses
      <3>7. sweep'.held[r] = e /\ \A q \in Rows \ {r} : sweep'.held[q] = sweep.held[q]
        BY <1>0, <2>5, <2>7
      <3>8. CausesHeld'
        <4>1. \A q \in Rows : Pending(sweep.held[q]) => Pending(sweep'.held[q])
          BY <3>3, <3>7
        <4>2. \A q \in Rows : Posted(q) => Pending(sweep'.held[q])
          BY <3>1, <3>3, <3>7 DEF Posted
        <4> QED
          BY <1>0b, <3>6, <4>1, <4>2, HoldsOn
      <3> QED
        BY <1>0, <2>6, <3>1, <3>6, <3>7, <3>8, SweepTraces, StayFirst
    <2>9. CASE same # {}
      <3>1. e = RenewEntry(sweep.held[r], owner) /\ nextRow' = nextRow
        BY <2>4, <2>5, <2>9
      <3>2. same \subseteq Rows /\ \A q \in same : Pending(sweep.held[q])
        BY <2>2 DEF Coalescible, PendingHeld
      <3>3. r \in same
        <4>1. PICK q \in same : \A o \in same : q <= o
          BY <2>9, <3>2, LeastRow
        <4> QED
          BY <2>3, <2>9, <4>1
      <3>4. sweep.held[r] \in Entry /\ Pending(sweep.held[r]) /\ "landed" \in TerminalStates
        BY <1>0, <2>5, <3>2, <3>3 DEF TerminalStates
      <3>5. e \in Entry
        BY <2>6, <3>1, <3>4, EntryType, IdleType
      <3>6. e.cause = sweep.held[r].cause /\ e.state = sweep.held[r].state
        BY <3>1, <3>4, IdleType, TransitionCauses
      <3>7. Present(e)
        BY <3>4, <3>6 DEF Present, Pending
      <3> QED
        BY <1>0, <1>0b, <2>5, <2>6, <2>7, <3>1, <3>5, <3>6, <3>7, SweepAppendsKnown
    <2> QED
      BY <2>8, <2>9
  <1> QED
    BY <1>1, <1>2, <1>3, <1>4, <1>5 DEF Act

\* The sweep's deliveries and its last steps.
LEMMA CausesSweepEnd ==
    ASSUME IInv, TypeInv', CauseInv,
           \/ SweepDeliver \/ SweepRecord \/ MarkUnresolved
           \/ ActDone \/ ExpireBatch \/ Heartbeat
    PROVE  CauseInv' /\ MarkersFirst
  <1>0. /\ TypeInv /\ inbox \in [Rows -> Entry] /\ sweep \in SweepOps /\ SweepFits(sweep)
        /\ sweep.held \in [Rows -> Entry] /\ sweep.try \in Tries
        /\ "unresolved" \in TerminalStates /\ "expired" \in TerminalStates
    BY DEF IInv, TypeInv, TypeOK, SweepOps, TerminalStates
  <1>1. CASE SweepDeliver
    <2>1. PICK t : sweep' = [sweep EXCEPT !.step = "record", !.try = t]
      BY <1>1 DEF SweepDeliver
    <2>2. sweep'.held = sweep.held /\ sweep.step \in Working
      BY <1>0, <1>1, <2>1 DEF SweepDeliver, SweepOps, Working
    <2> QED
      BY <1>0, <1>1, <2>2, SweepMovesOn DEF SweepDeliver
  <1>2. CASE SweepRecord
    <2>1. PICK r, t : r = sweep.now.row /\ t = sweep.try
      OBVIOUS
    <2>2. PICK landed, tried : landed = Land(inbox[r], t) /\ tried = Evidence(sweep.held[r], t)
      OBVIOUS
    <2>3. /\ r \in Rows /\ t \in Tries /\ Present(sweep.held[r]) /\ sweep.step \in Working
          /\ UNCHANGED <<removed, nextRow, post, sync>>
          /\ inbox[r] \in Entry /\ sweep.held[r] \in Entry
      BY <1>0, <1>2, <2>1 DEF SweepRecord, SweepFits, IInv, HeldInv, Working
    <2>4. \/ sweep' = IdleSweep /\ UNCHANGED inbox
          \/ inbox' = [inbox EXCEPT ![r] = landed] /\ sweep' = Recorded(r, landed)
          \/ Append(r, tried) /\ sweep' = Recorded(r, tried)
      BY <1>2, <2>1, <2>2 DEF SweepRecord
    <2>5. landed \in Entry /\ tried \in Entry
      BY <2>2, <2>3, EntryType
    <2>6. /\ Follows(inbox[r], landed)
          /\ tried.cause = sweep.held[r].cause /\ tried.state = sweep.held[r].state
      BY <1>0, <2>2, <2>3, TransitionCauses
    <2>7. \A e \in Entry : Recorded(r, e).held = [sweep.held EXCEPT ![r] = e]
      BY <1>0 DEF Recorded, Remember, SweepOps
    <2>8. CASE sweep' = IdleSweep /\ UNCHANGED inbox
      BY <1>0, <2>3, <2>8, NothingTraced, SweepMovesOn
    <2>9. CASE inbox' = [inbox EXCEPT ![r] = landed] /\ sweep' = Recorded(r, landed)
      BY <1>0, <2>3, <2>5, <2>6, <2>7, <2>9, SweepWritesKnown
    <2>10. CASE Append(r, tried) /\ sweep' = Recorded(r, tried)
      <3>1. Present(tried)
        BY <2>3, <2>6 DEF Present
      <3> QED
        BY <1>0, <2>3, <2>5, <2>6, <2>7, <2>10, <3>1, SweepAppendsKnown
    <2> QED
      BY <2>4, <2>8, <2>9, <2>10
  <1>3. CASE MarkUnresolved
    <2>1. PICK r : r = sweep.now.row
      OBVIOUS
    <2>2. PICK e : e = Mark(inbox[r], "unresolved")
      OBVIOUS
    <2>3. /\ r \in Rows /\ sweep.step \in Working /\ UNCHANGED <<removed, nextRow, post, sync>>
          /\ inbox[r] \in Entry
      BY <1>0, <1>3, <2>1 DEF MarkUnresolved, SweepFits, Working
    <2>4. \/ /\ inbox' = [inbox EXCEPT ![r] = e]
             /\ sweep' = [Remember(sweep, r, e) EXCEPT !.step = "act", !.now = NoFinding]
          \/ sweep' = [sweep EXCEPT !.step = "act", !.now = NoFinding] /\ UNCHANGED inbox
      BY <1>3, <2>1, <2>2 DEF MarkUnresolved
    <2>5. e \in Entry /\ Follows(inbox[r], e)
      BY <1>0, <2>2, <2>3, EntryType, IdleType, TransitionCauses
    <2>6. CASE sweep' = [sweep EXCEPT !.step = "act", !.now = NoFinding] /\ UNCHANGED inbox
      <3>1. sweep'.held = sweep.held
        BY <1>0, <2>6 DEF SweepOps
      <3> QED
        BY <1>0, <2>3, <2>6, <3>1, SweepMovesOn
    <2>7. CASE /\ inbox' = [inbox EXCEPT ![r] = e]
               /\ sweep' = [Remember(sweep, r, e) EXCEPT !.step = "act", !.now = NoFinding]
      <3>1. sweep'.held = [sweep.held EXCEPT ![r] = e]
        BY <1>0, <2>7 DEF SweepOps, Remember
      <3> QED
        BY <1>0, <2>3, <2>5, <2>7, <3>1, SweepWritesKnown
    <2> QED
      BY <2>4, <2>6, <2>7
  <1>4. CASE ActDone
    <2>1. sweep'.held = NoRows /\ sweep'.step = "expire"
      BY <1>0, <1>4 DEF ActDone, SweepOps
    <2>2. (\A r \in Rows : sweep'.held[r] = NoEntry) /\ sweep'.step \notin Working
      BY <2>1 DEF NoRows, Working
    <2> QED
      BY <1>0, <1>4, <2>2, SweepMovesOn DEF ActDone
  <1>5. CASE ExpireBatch
    <2>1. UNCHANGED <<removed, nextRow, post, sync>>
      BY <1>5 DEF ExpireBatch
    <2>2. \A q \in Rows : inbox'[q] = inbox[q] \/ inbox'[q] = Mark(inbox[q], "expired")
      BY <1>5 DEF ExpireBatch
    <2>3. (\A r \in Rows : sweep'.held[r] = NoEntry) /\ sweep'.step \notin Working
      BY <1>5 DEF ExpireBatch, IdleSweep, NoRows, Working
    <2>4. \A q \in Rows : Follows(inbox[q], inbox'[q])
      <3>1. ASSUME NEW q \in Rows PROVE Follows(inbox[q], Mark(inbox[q], "expired"))
        <4>1. inbox[q] \in Entry
          BY <1>0
        <4> QED
          BY <1>0, <4>1, TransitionCauses
      <3> QED
        BY <2>2, <3>1 DEF Follows
    <2>5. CauseStep /\ RowsStay
      BY <1>0, <2>1, <2>4, WriteCauses
    <2>6. CausesHeld'
      BY <2>3 DEF CausesHeld
    <2> QED
      BY <1>0, <2>1, <2>3, <2>5, <2>6, NothingTraced, SweepTraces, StayFirst
  <1>6. CASE Heartbeat
    <2>1. (\A r \in Rows : sweep'.held[r] = NoEntry) /\ sweep'.step \notin Working
      BY <1>6, NothingTraced DEF Heartbeat
    <2> QED
      BY <1>0, <1>6, <2>1, SweepMovesOn DEF Heartbeat
  <1> QED
    BY <1>1, <1>2, <1>3, <1>4, <1>5, <1>6

\* A step of the synchronizer or of a tool, which holds no other copy.
LEMMA ToolTraces ==
    ASSUME TypeInv, TypeInv', CauseInv, CauseStep, UNCHANGED <<post, sweep>>,
           \A r \in Rows : ~Posted(r),
           \A r \in Rows : sync'.held[r] = sync.held[r] \/ Traced(r, sync'.held[r])
    PROVE  CauseInv'
  <1>1. CausesHeld'
    BY HoldsOn
  <1> QED
    BY <1>1, CauseCarry

\* The completions and the tools.
LEMMA CausesTools ==
    ASSUME IInv, TypeInv', CauseInv,
           Tools \/ (\E s \in Sessions : SyncBegin(s)) \/ (\E r \in Rows : SyncComplete(r))
    PROVE  CauseInv' /\ MarkersFirst
  <1>0. /\ TypeInv /\ inbox \in [Rows -> Entry] /\ NoTry \in Tries
        /\ sync \in [todo : SUBSET Rows, held : [Rows -> Entry]]
        /\ \A r \in sync.todo : Present(sync.held[r])
        /\ "superseded" \in TerminalStates
    BY IdleType DEF IInv, TypeInv, TypeOK, HeldInv, TerminalStates
  <1>1. ASSUME NEW s \in Sessions, SyncBegin(s) PROVE CauseInv' /\ MarkersFirst
    <2>1. PICK S \in SUBSET Rows : sync' = [todo |-> S, held |-> KeepOnly(inbox, S)]
      BY <1>1 DEF SyncBegin
    <2>2. UNCHANGED <<inbox, removed, nextRow, post, sweep>>
      BY <1>1 DEF SyncBegin
    <2>3. /\ CauseStep /\ RowsStay /\ \A r \in Rows : ~Posted(r)
          /\ \A r, e : Known(inbox, removed, nextRow, r, e) => Traced(r, e)
      BY <1>0, <2>2, SameCauses
    <2>4. \A q \in Rows : sync'.held[q] = IF q \in S THEN inbox[q] ELSE NoEntry
      BY <2>1 DEF KeepOnly
    <2>5. \A q \in Rows : Known(inbox, removed, nextRow, q, inbox[q])
      BY DEF Known, CauseInv, RowsPosted
    <2>6. \A q \in Rows : Traced(q, sync'.held[q])
      BY <2>3, <2>4, <2>5, NothingTraced
    <2> QED
      BY <1>0, <2>2, <2>3, <2>6, ToolTraces, StayFirst
  <1>2. ASSUME NEW r \in Rows, SyncComplete(r) PROVE CauseInv' /\ MarkersFirst
    <2>1. PICK e : e = CompleteEntry(sync.held[r])
      OBVIOUS
    <2>2. /\ r \in sync.todo /\ Append(r, e) /\ UNCHANGED <<removed, nextRow, post, sweep>>
          /\ sync' = IF sync.todo = {r} THEN IdleSync
                     ELSE [todo |-> sync.todo \ {r}, held |-> [sync.held EXCEPT ![r] = NoEntry]]
      BY <1>2, <2>1 DEF SyncComplete
    <2>3. sync.held[r] \in Entry /\ Present(sync.held[r])
      BY <1>0, <2>2
    <2>4. e \in Entry
      BY <2>1, <2>3, EntryType, IdleType
    <2>5. e.cause = sync.held[r].cause /\ e.state = sync.held[r].state
      BY <1>0, <2>1, <2>3, TransitionCauses
    <2>6. Present(e) /\ Known(inbox, removed, nextRow, r, e)
      <3>1. Known(inbox, removed, nextRow, r, sync.held[r])
        BY DEF CauseInv, CopiesKnown
      <3> QED
        BY <2>3, <2>5, <3>1 DEF Known, Present
    <2>7. CauseStep /\ RowsStay /\ \A q \in Rows : ~Posted(q)
      BY <1>0, <2>2, <2>4, <2>6, AppendCauses
    <2>8. \/ sync' = IdleSync
          \/ \A q \in Rows : sync'.held[q] = IF q = r THEN NoEntry ELSE sync.held[q]
      BY <1>0, <2>2
    <2>9. \A q \in Rows : sync'.held[q] = sync.held[q] \/ Traced(q, sync'.held[q])
      BY <2>8, NothingTraced
    <2> QED
      BY <1>0, <2>2, <2>7, <2>9, ToolTraces, StayFirst
  <1>3. ASSUME NEW r \in Rows, Consume(r) PROVE CauseInv' /\ MarkersFirst
    <2>1. inbox' = [inbox EXCEPT ![r] = ConsumeEntry(inbox[r])]
          /\ UNCHANGED <<removed, nextRow, post, sweep, sync>>
      BY <1>3 DEF Consume
    <2>2. Follows(inbox[r], ConsumeEntry(inbox[r]))
      <3>1. inbox[r] \in Entry
        BY <1>0
      <3> QED
        BY <1>0, <3>1, TransitionCauses
    <2>3. \A q \in Rows : Follows(inbox[q], inbox'[q])
      BY <1>0, <2>1, <2>2 DEF Follows
    <2>4. CauseStep /\ RowsStay /\ \A q \in Rows : ~Posted(q)
      BY <1>0, <2>1, <2>3, WriteCauses
    <2> QED
      BY <1>0, <2>1, <2>4, ToolTraces, StayFirst
  <1>4. ASSUME NEW r \in Rows, Supersede(r) PROVE CauseInv' /\ MarkersFirst
    <2>1. inbox' = [inbox EXCEPT ![r] = Mark(inbox[r], "superseded")]
          /\ UNCHANGED <<removed, nextRow, post, sweep, sync>>
      BY <1>4 DEF Supersede
    <2>2. Follows(inbox[r], Mark(inbox[r], "superseded"))
      <3>1. inbox[r] \in Entry
        BY <1>0
      <3> QED
        BY <1>0, <3>1, TransitionCauses
    <2>3. \A q \in Rows : Follows(inbox[q], inbox'[q])
      BY <1>0, <2>1, <2>2 DEF Follows
    <2>4. CauseStep /\ RowsStay /\ \A q \in Rows : ~Posted(q)
      BY <1>0, <2>1, <2>3, WriteCauses
    <2> QED
      BY <1>0, <2>1, <2>4, ToolTraces, StayFirst
  <1>5. CASE CancelGate
    <2> DEFINE ids == {r \in Rows : Present(inbox[r]) /\ ~inbox[r].gated}
    <2>1. /\ Replace(inbox, ids) /\ UNCHANGED <<nextRow, post, sweep, sync>>
          /\ cancelled' # cancelled
      BY <1>5 DEF CancelGate
    <2>2. CauseStep /\ \A q \in Rows : ~Posted(q)
      BY <1>0, <2>1, ReplaceCauses
    <2>3. MarkersFirst
      BY <2>1 DEF MarkersFirst
    <2> QED
      BY <1>0, <2>1, <2>2, <2>3, ToolTraces
  <1> QED
    BY <1>1, <1>2, <1>3, <1>4, <1>5 DEF Tools

\* Sessions that come and go, time that passes, and crashes, which forget copies.
LEMMA CausesEnvironment ==
    ASSUME IInv, TypeInv', CauseInv, Environment
    PROVE  CauseInv' /\ MarkersFirst
  <1>0. TypeInv
    BY DEF IInv
  <1>1. UNCHANGED <<inbox, removed, nextRow>>
    BY DEF Environment, Spawn, TurnChange, Terminate, PendingTTL, MarkerTTL, Crash
  <1>2. CauseStep /\ RowsStay /\ \A r \in Rows : ~Posted(r)
    BY <1>0, <1>1, SameCauses
  <1>3. /\ \A p \in Posters : post'[p] = post[p] \/ post'[p] = IdlePost
        /\ sweep' = sweep \/ sweep' = IdleSweep
        /\ sync' = sync \/ sync' = IdleSync
    BY DEF Environment, Spawn, TurnChange, Terminate, PendingTTL, MarkerTTL, Crash
  <1>4. CausesHeld'
    <2>1. CASE sweep' = sweep
      BY <1>2, <2>1, HoldsOn
    <2>2. CASE sweep' = IdleSweep
      BY <2>2, NothingTraced DEF CausesHeld
    <2> QED
      BY <1>3, <2>1, <2>2
  <1>5. /\ \A r \in Rows : sweep'.held[r] = sweep.held[r] \/ Traced(r, sweep'.held[r])
        /\ \A r \in Rows : sync'.held[r] = sync.held[r] \/ Traced(r, sync'.held[r])
        /\ \A p \in Posters :
                \/ post'[p].row = post[p].row /\ post'[p].entry = post[p].entry
                \/ Traced(post'[p].row, post'[p].entry)
    BY <1>3, NothingTraced
  <1> QED
    BY <1>0, <1>2, <1>4, <1>5, CauseCarry, StayFirst

\* Initially there are no rows.
LEMMA CauseInit == Init => CauseInv
  <1> SUFFICES ASSUME Init PROVE CauseInv
    OBVIOUS
  <1>1. /\ \A r \in Rows : /\ inbox[r] = NoEntry /\ sweep.held[r] = NoEntry
                           /\ sync.held[r] = NoEntry
        /\ \A p \in Posters : post[p].entry = NoEntry
        /\ sweep.step \notin Working
    BY DEF Init, NoRows, IdleSweep, IdleSync, IdlePost, Working
  <1>2. ~Present(NoEntry) /\ ~Pending(NoEntry)
    BY DEF Present, Pending, NoEntry
  <1> QED
    BY <1>1, <1>2, NothingTraced DEF CauseInv, RowsPosted, CopiesKnown, CausesHeld, OneRowPerCause

\* Every step keeps the causes, and drops markers before pending rows.
LEMMA CauseNext == IInv /\ CauseInv /\ [Next]_vars => CauseInv' /\ (UNCHANGED vars \/ MarkersFirst)
  <1> SUFFICES ASSUME IInv, CauseInv, [Next]_vars
               PROVE  CauseInv' /\ (UNCHANGED vars \/ MarkersFirst)
    OBVIOUS
  <1>1. TypeInv'
    BY TypeNext DEF IInv
  <1>2. CASE UNCHANGED vars
    BY <1>2 DEF vars, CauseInv, RowsPosted, CopiesKnown, Known, CausesHeld, OneRowPerCause
  <1>3. CASE Next
    BY <1>1, <1>3, CausesPost, CausesSweepBegin, CausesAct, CausesSweepEnd, CausesTools,
       CausesEnvironment
    DEF Next, SweepStep
  <1> QED
    BY <1>2, <1>3

\* No two rows are pending for one cause, however often it fires and wherever its
\* row was readdressed meanwhile: a sweep that posts a row for a cause holds every
\* row that is pending for one.
THEOREM InboxOneRowPerCause == Spec => []OneRowPerCause
  <1>1. Init => IInv /\ CauseInv
    BY InvInit, CauseInit
  <1>2. IInv /\ CauseInv /\ [Next]_vars => IInv' /\ CauseInv'
    BY InvNext, CauseNext
  <1>3. CauseInv => OneRowPerCause
    BY DEF CauseInv
  <1> QED
    BY <1>1, <1>2, <1>3, PTL DEF Spec

\* A compaction that drops a pending row keeps no marker that it could have dropped
\* instead, whatever the cap, the number of reports and the ages of the rows.
THEOREM InboxPendingOutlivesMarkers == Spec => PendingOutlivesMarkers
  <1>1. Init => IInv /\ CauseInv
    BY InvInit, CauseInit
  <1>2. IInv /\ CauseInv /\ [Next]_vars => IInv' /\ CauseInv'
    BY InvNext, CauseNext
  <1>3. IInv /\ CauseInv /\ [Next]_vars => [MarkersFirst]_vars
    BY CauseNext
  <1>4. Spec => [][MarkersFirst]_vars
    BY <1>1, <1>2, <1>3, PTL DEF Spec
  <1> QED
    BY <1>4 DEF MarkersFirst, PendingOutlivesMarkers

=============================================================================
