-------------------------- MODULE SubmissionProofs --------------------------
(***************************************************************************)
(* Theorems of SubmissionAuthority, for every set of request ids, every    *)
(* size of the ledger and of the timeline, and every number of operations: *)
(* types, the order and uniqueness of what reaches the vendor, withdrawals *)
(* that hold, operations that stay pinned, and calls that keep theirs.     *)
(*                                                                         *)
(* The argument is about ordinals.  The timeline is sorted by them and     *)
(* holds whatever is queued; what is queued lies above all that was sent,  *)
(* and, while a call is out, above the operation of that call.             *)
(***************************************************************************)
EXTENDS SubmissionAuthority, SequenceTheorems, WellFoundedInduction, TLAPS

-----------------------------------------------------------------------------
(* The inductive invariant.                                                *)

\* The elements of a sequence are all different.
Distinct(s) == \A i, j \in DOMAIN s : s[i] = s[j] => i = j

\* The keys of a sequence come in the order of their rows' ordinals.
Sorted(s, r) == \A i, j \in DOMAIN s : i < j => r[s[i]].seq < r[s[j]].seq

\* Rows carry ordinals that were given out, each its own; `order` lists them once.
LedgerInv ==
    /\ \A k \in Keys : rows[k].seq <= ordinal /\ (rows[k].seq = 0 => rows[k] = NoRow)
    /\ \A j, k \in Keys : rows[j].seq = rows[k].seq /\ rows[k].seq # 0 => j = k
    /\ \A k \in Setters : Retained(k) => rows[k].seq = k
    /\ Distinct(order)
    /\ Range(order) = {k \in Keys : Retained(k)}

\* The timeline is in the order of admission, and nothing queued is outside it.
TimelineInv ==
    /\ Sorted(timeline, rows)
    /\ \A k \in Range(timeline) : Retained(k)
    /\ \A k \in Keys : rows[k].state \in {"queued", "dispatching"} => k \in Range(timeline)

\* What the dispatcher works on was admitted, and nothing is active before the claim.
TaskInv ==
    /\ pc \in {"preflight", "call"} => chosen.key \in Keys /\ chosen.seq \in 1 .. ordinal
    /\ pc = "preflight" => active = None

\* Nothing queued, and nothing still to be sent, has an ordinal below one that was sent.
SendInv ==
    /\ \A i \in DOMAIN wire : wire[i] <= ordinal
    /\ \A k \in Keys : rows[k].state = "queued" =>
          \A i \in DOMAIN wire : wire[i] < rows[k].seq
    /\ pc = "call" => /\ \A i \in DOMAIN wire : wire[i] <= chosen.seq
                      /\ \A k \in Keys : rows[k].state = "queued" => chosen.seq < rows[k].seq

\* What was withdrawn is neither queued nor out in a call.
RecallInv ==
    /\ \A n \in recalled : n <= ordinal
    /\ \A k \in Keys : rows[k].state = "queued" => rows[k].seq \notin recalled
    /\ pc = "call" => chosen.seq \notin recalled

\* The states of a row that once was in doubt.
Doubted == {"unknown", "delivered", "rejected", "unsupported"}

\* A reconcile call that is out was made for a row that has left the queue for good,
\* and a completion that was buffered is one.
ReconcileInv ==
    /\ \A r \in asked : r[2] \in 1 .. ordinal
    /\ \A r \in asked : rows[r[1]].seq = r[2] =>
          rows[r[1]].state \in Doubted
    /\ \A k \in Keys : rows[k].buffered => rows[k].seq \in over

\* The operation of a call stays the active, dispatching one.
CallInv ==
    pc = "call" /\ ~mixed =>
        /\ active = chosen.key /\ rows[chosen.key].seq = chosen.seq
        /\ rows[chosen.key].state = "dispatching"

IInv ==
    /\ TypeOK
    /\ LedgerInv
    /\ TimelineInv
    /\ TaskInv
    /\ SendInv
    /\ RecallInv
    /\ ReconcileInv
    /\ CallInv
    /\ WireInOrder
    /\ RecalledNeverSent
    /\ UnfinishedIsPinned

-----------------------------------------------------------------------------
(* The sequences the ledger is kept in.                                    *)

\* A set of naturals has a least element.
LEMMA LeastIndex ==
    ASSUME NEW S \in SUBSET Nat, S # {}
    PROVE  \E i \in S : \A j \in S : i <= j
  <1>1. \E R : IsWellFoundedOn(R, Nat) /\ \A x, y \in Nat : x < y => <<x, y>> \in R
    <2>1. \A x, y \in Nat : x < y => <<x, y>> \in OpToRel(<, Nat)
      BY DEF OpToRel
    <2> QED
      BY <2>1, NatLessThanWellFounded, Zenon
  <1>2. PICK R : IsWellFoundedOn(R, Nat) /\ \A x, y \in Nat : x < y => <<x, y>> \in R
    BY <1>1
  <1>3. IsWellFoundedOn(R, Nat)
    BY <1>2
  <1>4. PICK i \in S : \A y \in S : ~(<<y, i>> \in R)
    BY <1>3, WFMin, Zenon
  <1>5. ASSUME NEW j \in S PROVE i <= j
    <2>1. ~(j < i)
      BY <1>2, <1>4, Zenon
    <2> QED
      BY <2>1
  <1> QED
    BY <1>5

\* RemoveFirst takes one occurrence out and moves what follows one place up.
LEMMA RemoveFirstAt ==
    ASSUME NEW S, NEW s \in Seq(S), NEW e, \E i \in 1 .. Len(s) : s[i] = e
    PROVE  \E p \in 1 .. Len(s) :
              /\ s[p] = e
              /\ RemoveFirst(s, e) \in Seq(S)
              /\ Len(RemoveFirst(s, e)) = Len(s) - 1
              /\ \A i \in 1 .. (Len(s) - 1) :
                    RemoveFirst(s, e)[i] = IF i < p THEN s[i] ELSE s[i + 1]
  <1> DEFINE I == {i \in 1 .. Len(s) : s[i] = e}
             p == Min(I)
  <1>1. Len(s) \in Nat /\ \A i \in 1 .. Len(s) : s[i] \in S
    BY LenProperties, ElementOfSeq
  <1>2. I \in SUBSET Nat /\ I # {}
    BY <1>1
  <1>3. p \in I
    <2>1. \E i \in I : \A j \in I : i <= j
      <3> HIDE DEF I
      <3> QED
        BY <1>2, LeastIndex
    <2> HIDE DEF I
    <2> QED
      BY <2>1 DEF Min
  <1>4. RemoveFirst(s, e) = SubSeq(s, 1, p - 1) \o SubSeq(s, p + 1, Len(s))
    BY <1>2 DEF RemoveFirst, RemoveAt, SelectInSeq
  <1> HIDE DEF p
  <1>5. p \in 1 .. Len(s) /\ s[p] = e
    BY <1>3
  <1> HIDE DEF I
  <1>6. /\ SubSeq(s, 1, p - 1) \in Seq(S)
        /\ Len(SubSeq(s, 1, p - 1)) = p - 1
        /\ \A i \in 1 .. p - 1 : SubSeq(s, 1, p - 1)[i] = s[i]
    <2>1. 1 \in Int /\ p - 1 \in Int /\ \A i \in 1 .. p - 1 : s[i] \in S
      BY <1>1, <1>5
    <2>2. /\ SubSeq(s, 1, p - 1) \in Seq(S)
          /\ Len(SubSeq(s, 1, p - 1)) = IF 1 <= p - 1 THEN p - 1 - 1 + 1 ELSE 0
          /\ \A i \in 1 .. p - 1 - 1 + 1 : SubSeq(s, 1, p - 1)[i] = s[1 + i - 1]
      BY <2>1, SubSeqProperties
    <2> QED
      BY <2>2, <1>1, <1>5
  <1>7. /\ SubSeq(s, p + 1, Len(s)) \in Seq(S)
        /\ Len(SubSeq(s, p + 1, Len(s))) = Len(s) - p
        /\ \A i \in 1 .. Len(s) - p : SubSeq(s, p + 1, Len(s))[i] = s[p + i]
    <2>1. p + 1 \in Int /\ Len(s) \in Int /\ \A i \in p + 1 .. Len(s) : s[i] \in S
      BY <1>1, <1>5
    <2>2. /\ SubSeq(s, p + 1, Len(s)) \in Seq(S)
          /\ Len(SubSeq(s, p + 1, Len(s))) = IF p + 1 <= Len(s) THEN Len(s) - (p + 1) + 1 ELSE 0
          /\ \A i \in 1 .. Len(s) - (p + 1) + 1 :
                SubSeq(s, p + 1, Len(s))[i] = s[p + 1 + i - 1]
      BY <2>1, SubSeqProperties
    <2> QED
      BY <2>2, <1>1, <1>5
  <1> DEFINE a == SubSeq(s, 1, p - 1)
             b == SubSeq(s, p + 1, Len(s))
  <1>8. /\ a \o b \in Seq(S)
        /\ Len(a \o b) = Len(a) + Len(b)
        /\ \A i \in 1 .. Len(a) + Len(b) : (a \o b)[i] = IF i <= Len(a) THEN a[i] ELSE b[i - Len(a)]
    BY <1>6, <1>7, ConcatProperties
  <1>9. Len(a) = p - 1 /\ Len(b) = Len(s) - p
    BY <1>6, <1>7
  <1>10. ASSUME NEW i \in 1 .. (Len(s) - 1)
         PROVE  (a \o b)[i] = IF i < p THEN s[i] ELSE s[i + 1]
    <2>0. (\A n \in 1 .. p - 1 : a[n] = s[n]) /\ (\A n \in 1 .. Len(s) - p : b[n] = s[p + n])
      BY <1>6, <1>7
    <2>1. (a \o b)[i] = IF i <= p - 1 THEN a[i] ELSE b[i - (p - 1)]
      <3> HIDE DEF a, b
      <3> QED
        BY <1>1, <1>5, <1>8, <1>9
    <2> DEFINE c == a \o b
    <2> HIDE DEF a, b
    <2>4. c[i] = IF i <= p - 1 THEN a[i] ELSE b[i - (p - 1)]
      BY <2>1
    <2> HIDE DEF c
    <2>5. SUFFICES c[i] = IF i < p THEN s[i] ELSE s[i + 1]
      BY DEF c
    <2>2. CASE i <= p - 1
      BY <2>0, <2>4, <2>2, <1>1, <1>5
    <2>3. CASE ~(i <= p - 1)
      <3>1. i - (p - 1) \in 1 .. Len(s) - p /\ p + (i - (p - 1)) = i + 1
        BY <2>3, <1>1, <1>5
      <3> QED
        BY <2>0, <2>4, <2>3, <3>1, <1>1, <1>5
    <2> QED
      BY <2>2, <2>3
  <1>11. Len(a \o b) = Len(s) - 1
    <2> HIDE DEF a, b
    <2> QED
      BY <1>1, <1>5, <1>8, <1>9
  <1> QED
    BY <1>4, <1>5, <1>8, <1>10, <1>11

\* The elements of a sequence without repetition after RemoveFirst.
LEMMA RemoveFirstFacts ==
    ASSUME NEW S, NEW s \in Seq(S), NEW e, Distinct(s)
    PROVE  /\ RemoveFirst(s, e) \in Seq(S)
           /\ Len(RemoveFirst(s, e)) = IF e \in Range(s) THEN Len(s) - 1 ELSE Len(s)
           /\ Distinct(RemoveFirst(s, e))
           /\ Range(RemoveFirst(s, e)) = Range(s) \ {e}
           /\ \A i, j \in DOMAIN RemoveFirst(s, e) : i < j =>
                 \E m, n \in DOMAIN s : m < n /\ RemoveFirst(s, e)[i] = s[m]
                                              /\ RemoveFirst(s, e)[j] = s[n]
  <1>1. Len(s) \in Nat /\ DOMAIN s = 1 .. Len(s)
    BY LenProperties
  <1>2. CASE e \notin Range(s)
    <2>1. RemoveFirst(s, e) = s
      BY <1>1, <1>2 DEF RemoveFirst, Range
    <2> QED
      BY <1>2, <2>1, Zenon
  <1>3. CASE e \in Range(s)
    <2> DEFINE t == RemoveFirst(s, e)
    <2>1. \E i \in 1 .. Len(s) : s[i] = e
      BY <1>1, <1>3 DEF Range
    <2>2. PICK p \in 1 .. Len(s) :
              /\ s[p] = e /\ t \in Seq(S) /\ Len(t) = Len(s) - 1
              /\ \A i \in 1 .. (Len(s) - 1) : t[i] = IF i < p THEN s[i] ELSE s[i + 1]
      BY <2>1, RemoveFirstAt
    <2> HIDE DEF t
    <2>3. DOMAIN t = 1 .. (Len(s) - 1)
      BY <2>2, LenProperties
    <2>4. \A i, j \in DOMAIN s : s[i] = s[j] => i = j
      BY DEF Distinct
    <2>5. Distinct(t)
      <3> SUFFICES ASSUME NEW i \in DOMAIN t, NEW j \in DOMAIN t, t[i] = t[j] PROVE i = j
        BY DEF Distinct
      <3> DEFINE m == IF i < p THEN i ELSE i + 1
                 n == IF j < p THEN j ELSE j + 1
      <3>1. m \in DOMAIN s /\ n \in DOMAIN s /\ t[i] = s[m] /\ t[j] = s[n]
        BY <1>1, <2>2, <2>3
      <3>2. m = n
        <4> HIDE DEF m, n
        <4> QED
          BY <3>1, <2>4
      <3> QED
        BY <1>1, <2>2, <2>3, <3>2
    <2>6. ASSUME NEW i \in DOMAIN t, NEW j \in DOMAIN t, i < j
          PROVE  \E m, n \in DOMAIN s : m < n /\ t[i] = s[m] /\ t[j] = s[n]
      <3> DEFINE m == IF i < p THEN i ELSE i + 1
                 n == IF j < p THEN j ELSE j + 1
      <3>1. m \in DOMAIN s /\ n \in DOMAIN s /\ m < n
        BY <1>1, <2>3, <2>6, <2>2
      <3>2. t[i] = s[m] /\ t[j] = s[n]
        BY <2>2, <2>3, <1>1
      <3> QED
        BY <3>1, <3>2
    <2>7. ASSUME NEW x \in Range(t) PROVE x \in Range(s) \ {e}
      <3>1. PICK i \in DOMAIN t : x = t[i]
        BY <2>7 DEF Range
      <3> DEFINE m == IF i < p THEN i ELSE i + 1
      <3>2. m \in DOMAIN s /\ m # p /\ t[i] = s[m]
        BY <1>1, <2>2, <2>3
      <3>3. p \in DOMAIN s /\ s[p] = e
        BY <1>1, <2>2
      <3> HIDE DEF m
      <3> QED
        BY <3>1, <3>2, <3>3, <2>4 DEF Range
    <2>8. ASSUME NEW x \in Range(s) \ {e} PROVE x \in Range(t)
      <3>1. PICK m \in DOMAIN s : x = s[m]
        BY DEF Range
      <3>2. m # p
        BY <3>1, <2>2
      <3> DEFINE i == IF m < p THEN m ELSE m - 1
      <3>3. i \in DOMAIN t /\ t[i] = s[m]
        BY <1>1, <2>2, <2>3, <3>2
      <3> HIDE DEF i
      <3> QED
        BY <3>1, <3>3 DEF Range
    <2>9. Range(t) = Range(s) \ {e}
      BY <2>7, <2>8
    <2> QED
      BY <1>3, <2>2, <2>5, <2>6, <2>9 DEF t
  <1> QED
    BY <1>2, <1>3

\* The elements of a sequence after Append.
LEMMA AppendFacts ==
    ASSUME NEW S, NEW s \in Seq(S), NEW e \in S
    PROVE  /\ Append(s, e) \in Seq(S)
           /\ Len(Append(s, e)) = Len(s) + 1
           /\ Range(Append(s, e)) = Range(s) \cup {e}
           /\ Distinct(s) /\ e \notin Range(s) => Distinct(Append(s, e))
           /\ \A i, j \in DOMAIN Append(s, e) : i < j =>
                 \/ i \in DOMAIN s /\ j \in DOMAIN s /\ Append(s, e)[i] = s[i] /\ Append(s, e)[j] = s[j]
                 \/ Append(s, e)[i] \in Range(s) /\ Append(s, e)[j] = e
  <1> DEFINE t == Append(s, e)
  <1>1. Len(s) \in Nat /\ DOMAIN s = 1 .. Len(s)
    BY LenProperties
  <1>2. /\ t \in Seq(S) /\ Len(t) = Len(s) + 1
        /\ \A i \in 1 .. Len(s) : t[i] = s[i]
        /\ t[Len(s) + 1] = e
    BY AppendProperties
  <1> HIDE DEF t
  <1>3. DOMAIN t = 1 .. (Len(s) + 1)
    BY <1>2, LenProperties
  <1>4. Range(t) = Range(s) \cup {e}
    BY <1>1, <1>2, <1>3 DEF Range
  <1>5. ASSUME Distinct(s), e \notin Range(s) PROVE Distinct(t)
    BY <1>1, <1>2, <1>3, <1>5 DEF Distinct, Range
  <1>6. ASSUME NEW i \in DOMAIN t, NEW j \in DOMAIN t, i < j
        PROVE  \/ i \in DOMAIN s /\ j \in DOMAIN s /\ t[i] = s[i] /\ t[j] = s[j]
               \/ t[i] \in Range(s) /\ t[j] = e
    BY <1>1, <1>2, <1>3, <1>6 DEF Range
  <1> QED
    BY <1>2, <1>4, <1>5, <1>6 DEF t

\* What is sorted has no repetition.
LEMMA SortedIsDistinct ==
    ASSUME NEW s \in Seq(Keys), NEW r \in [Keys -> Row], Sorted(s, r)
    PROVE  Distinct(s)
  <1> SUFFICES ASSUME NEW i \in DOMAIN s, NEW j \in DOMAIN s, s[i] = s[j] PROVE i = j
    BY DEF Distinct
  <1>1. i \in Nat /\ j \in Nat
    BY LenProperties
  <1>2. s[i] \in Keys /\ s[j] \in Keys
    BY ElementOfSeq, LenProperties
  <1>3. r[s[i]].seq \in Nat
    BY <1>2 DEF Row
  <1>4. (i < j => r[s[i]].seq < r[s[j]].seq) /\ (j < i => r[s[j]].seq < r[s[i]].seq)
    BY DEF Sorted
  <1> QED
    BY <1>1, <1>3, <1>4

\* A sorted sequence stays sorted when a key leaves it and the others keep their ordinals.
LEMMA SortedRemove ==
    ASSUME NEW s \in Seq(Keys), NEW r \in [Keys -> Row], NEW q, NEW e,
           Sorted(s, r), \A k \in Range(s) \ {e} : q[k].seq = r[k].seq
    PROVE  /\ Sorted(RemoveFirst(s, e), q)
           /\ RemoveFirst(s, e) \in Seq(Keys)
           /\ Range(RemoveFirst(s, e)) = Range(s) \ {e}
  <1> DEFINE t == RemoveFirst(s, e)
  <1>1. /\ t \in Seq(Keys)
        /\ Range(t) = Range(s) \ {e}
        /\ \A i, j \in DOMAIN t : i < j =>
              \E m, n \in DOMAIN s : m < n /\ t[i] = s[m] /\ t[j] = s[n]
    BY SortedIsDistinct, RemoveFirstFacts
  <1> HIDE DEF t
  <1>2. Sorted(t, q)
    <2> SUFFICES ASSUME NEW i \in DOMAIN t, NEW j \in DOMAIN t, i < j
                 PROVE  q[t[i]].seq < q[t[j]].seq
      BY DEF Sorted
    <2>1. PICK m, n \in DOMAIN s : m < n /\ t[i] = s[m] /\ t[j] = s[n]
      BY <1>1
    <2>2. t[i] \in Range(t) /\ t[j] \in Range(t)
      BY DEF Range
    <2>3. q[t[i]].seq = r[t[i]].seq /\ q[t[j]].seq = r[t[j]].seq
      BY <1>1, <2>2
    <2>4. r[s[m]].seq < r[s[n]].seq
      BY <2>1 DEF Sorted
    <2> QED
      BY <2>1, <2>3, <2>4
  <1> QED
    BY <1>1, <1>2 DEF t

\* A sorted sequence stays sorted when a key with a larger ordinal joins it at the end.
LEMMA SortedAppend ==
    ASSUME NEW s \in Seq(Keys), NEW r, NEW q, NEW e \in Keys, Sorted(s, r),
           \A k \in Range(s) : q[k].seq = r[k].seq /\ q[k].seq < q[e].seq
    PROVE  /\ Sorted(Append(s, e), q)
           /\ Append(s, e) \in Seq(Keys)
           /\ Range(Append(s, e)) = Range(s) \cup {e}
  <1> DEFINE t == Append(s, e)
  <1>1. /\ t \in Seq(Keys)
        /\ Range(t) = Range(s) \cup {e}
        /\ \A i, j \in DOMAIN t : i < j =>
              \/ i \in DOMAIN s /\ j \in DOMAIN s /\ t[i] = s[i] /\ t[j] = s[j]
              \/ t[i] \in Range(s) /\ t[j] = e
    BY AppendFacts
  <1> HIDE DEF t
  <1>2. Sorted(t, q)
    <2> SUFFICES ASSUME NEW i \in DOMAIN t, NEW j \in DOMAIN t, i < j
                 PROVE  q[t[i]].seq < q[t[j]].seq
      BY DEF Sorted
    <2>1. CASE i \in DOMAIN s /\ j \in DOMAIN s /\ t[i] = s[i] /\ t[j] = s[j]
      <3>1. s[i] \in Range(s) /\ s[j] \in Range(s)
        BY <2>1 DEF Range
      <3>2. r[s[i]].seq < r[s[j]].seq
        BY <2>1 DEF Sorted
      <3> QED
        BY <2>1, <3>1, <3>2
    <2>2. CASE t[i] \in Range(s) /\ t[j] = e
      BY <2>2
    <2> QED
      BY <1>1, <2>1, <2>2
  <1> QED
    BY <1>1, <1>2 DEF t

-----------------------------------------------------------------------------
(* Types, in the parts that the proofs use.                                *)

RowsType ==
    /\ rows \in [Keys -> Row]
    /\ order \in Seq(Keys) /\ Len(order) <= LedgerLimit
    /\ timeline \in Seq(Keys)
    /\ active \in Keys \cup {None}
    /\ ordinal \in 0..MaxOps

BridgeType ==
    /\ snap \in [control : Controls, idle : BOOLEAN]
    /\ listening \in BOOLEAN
    /\ wake \in BOOLEAN

TaskType ==
    /\ pc \in {"wait", "look", "preflight", "call", "dead", "stopped"}
    /\ owed \in BOOLEAN
    /\ chosen \in [key : Keys \cup {None}, seq : Nat]

HistoryType ==
    /\ asked \in SUBSET (Requests \X Nat)
    /\ wire \in Seq(1..MaxOps)
    /\ over \in SUBSET (1..MaxOps)
    /\ recalled \in SUBSET (1..MaxOps)
    /\ givenUp \in SUBSET (1..MaxOps)
    /\ mixed \in BOOLEAN

\* The type invariant is its parts.
LEMMA TypeParts ==
    TypeOK <=> RowsType /\ BridgeType /\ TaskType /\ HistoryType
  BY DEF TypeOK, RowsType, BridgeType, TaskType, HistoryType

LEMMA TypePartsNext ==
    TypeOK' <=> RowsType' /\ BridgeType' /\ TaskType' /\ HistoryType'
  BY DEF TypeOK, RowsType, BridgeType, TaskType, HistoryType

\* None is no key, no request is a number, and nothing but NoRow has the ordinal 0.
LEMMA Constants ==
    /\ None \notin Keys
    /\ Requests \subseteq Keys /\ Setters \subseteq Keys
    /\ Requests \cap Setters = {}
    /\ MaxOps \in Nat /\ LedgerLimit \in Nat \ {0}
    /\ \A n \in 1..MaxOps : n \in Setters
    /\ NoRow \in Row
  BY SubmissionAssumption DEF Keys, Setters, NoRow, Row, States

LEMMA RowFields ==
    ASSUME NEW r \in Row
    PROVE  r.seq \in Nat /\ r.state \in States /\ r.buffered \in BOOLEAN
  BY DEF Row

\* A row is retained when it has an ordinal.
LEMMA RetainedBySeq ==
    ASSUME RowsType, LedgerInv, NEW k \in Keys
    PROVE  /\ rows[k] \in Row /\ rows[k].seq \in Nat
           /\ Retained(k) <=> rows[k].seq # 0
           /\ rows[k].seq # 0 => rows[k].seq \in 1 .. ordinal /\ rows[k].seq \in 1 .. MaxOps
  <1>1. rows[k] \in Row
    BY DEF RowsType
  <1>2. rows[k].seq \in Nat /\ rows[k].seq <= ordinal /\ (rows[k].seq = 0 => rows[k] = NoRow)
    BY <1>1 DEF LedgerInv, Row
  <1>3. NoRow.seq = 0
    BY DEF NoRow
  <1>4. ordinal \in Nat /\ ordinal <= MaxOps
    BY Constants DEF RowsType
  <1> QED
    BY <1>1, <1>2, <1>3, <1>4, Constants DEF Retained

\* What is on the wire was admitted.
LEMMA WireSeq ==
    ASSUME HistoryType
    PROVE  /\ Range(wire) \subseteq 1..MaxOps
           /\ \A i \in DOMAIN wire : wire[i] \in Nat /\ wire[i] \in 1..MaxOps /\ wire[i] \in Range(wire)
           /\ \A n \in Range(wire) : \E i \in DOMAIN wire : wire[i] = n
  <1>1. wire \in Seq(1..MaxOps)
    BY DEF HistoryType
  <1>2. \A i \in DOMAIN wire : wire[i] \in 1..MaxOps
    BY <1>1, ElementOfSeq, LenProperties
  <1> QED
    BY <1>2, Constants DEF Range

-----------------------------------------------------------------------------
(* What a step may do to each part of the invariant.                       *)

\* No row comes, goes or changes its ordinal.
RowsStay ==
    /\ rows' \in [Keys -> Row]
    /\ ordinal' = ordinal
    /\ \A k \in Keys : rows'[k].seq = rows[k].seq /\ (rows[k] = NoRow => rows'[k] = NoRow)

\* A row that is there takes another state or loses or gets its buffered completion.
LEMMA RowsStayOnMark ==
    ASSUME RowsType, LedgerInv, NEW k \in Keys, Retained(k),
           NEW r \in Row, r.seq = rows[k].seq, rows' = [rows EXCEPT ![k] = r], ordinal' = ordinal
    PROVE  /\ RowsStay
           /\ rows'[k] = r
           /\ \A j \in Keys : j # k => rows'[j] = rows[j]
  <1>1. rows \in [Keys -> Row]
    BY DEF RowsType
  <1>2. /\ rows'[k] = r
        /\ \A j \in Keys : j # k => rows'[j] = rows[j]
        /\ rows' \in [Keys -> Row]
    BY <1>1
  <1> QED
    BY <1>2 DEF RowsStay, Retained

\* mark_terminal, mark_unknown on a row that is there.
LEMMA MarkedRow ==
    ASSUME RowsType, NEW k \in Keys, NEW st \in States
    PROVE  \E r \in Row : /\ Marked(k, st) = [rows EXCEPT ![k] = r]
                          /\ r.seq = rows[k].seq /\ r.state = st /\ r.buffered = rows[k].buffered
  <1>1. rows \in [Keys -> Row] /\ rows[k] \in Row
    BY DEF RowsType
  <1> DEFINE r == [rows[k] EXCEPT !.state = st]
  <1>2. r \in Row /\ r.seq = rows[k].seq /\ r.state = st /\ r.buffered = rows[k].buffered
    BY <1>1 DEF Row
  <1>3. Marked(k, st) = [rows EXCEPT ![k] = r]
    BY <1>1 DEF Marked
  <1> QED
    BY <1>2, <1>3

LEMMA MarkedFacts ==
    ASSUME RowsType, LedgerInv, NEW k \in Keys, Retained(k), NEW st \in States,
           rows' = Marked(k, st), ordinal' = ordinal
    PROVE  /\ RowsStay
           /\ rows'[k].state = st /\ rows'[k].buffered = rows[k].buffered
           /\ \A j \in Keys : j # k => rows'[j] = rows[j]
  <1>1. PICK r \in Row : /\ Marked(k, st) = [rows EXCEPT ![k] = r]
                         /\ r.seq = rows[k].seq /\ r.state = st /\ r.buffered = rows[k].buffered
    BY MarkedRow
  <1> QED
    BY <1>1, RowsStayOnMark

\* order is as it was, or a row that is there was answered.
OrderStays ==
    \/ order' = order
    \/ \E k \in Keys : Retained(k) /\ order' = Touched(k)

LEMMA LedgerKept ==
    ASSUME RowsType, LedgerInv, RowsStay, OrderStays
    PROVE  /\ LedgerInv'
           /\ order' \in Seq(Keys) /\ Len(order') <= LedgerLimit
           /\ \A k \in Keys : Retained(k)' <=> Retained(k)
  <1>1. \A k \in Keys : Retained(k)' <=> Retained(k)
    <2> TAKE k \in Keys
    <2>1. Retained(k) <=> rows[k].seq # 0
      BY RetainedBySeq
    <2>2. rows'[k].seq = rows[k].seq /\ (rows[k] = NoRow => rows'[k] = NoRow)
      BY DEF RowsStay
    <2>3. NoRow.seq = 0
      BY DEF NoRow
    <2> QED
      BY <2>1, <2>2, <2>3 DEF Retained
  <1>2. /\ order' \in Seq(Keys) /\ Len(order') <= LedgerLimit
        /\ Distinct(order') /\ Range(order') = Range(order)
    <2>1. CASE order' = order
      BY <2>1 DEF RowsType, LedgerInv
    <2>2. ASSUME NEW k \in Keys, Retained(k), order' = Touched(k)
          PROVE  /\ order' \in Seq(Keys) /\ Len(order') <= LedgerLimit
                 /\ Distinct(order') /\ Range(order') = Range(order)
      <3> DEFINE t == RemoveFirst(order, k)
      <3>1. order \in Seq(Keys) /\ Distinct(order) /\ k \in Range(order) /\ Len(order) <= LedgerLimit
        BY <2>2 DEF RowsType, LedgerInv
      <3>2. /\ t \in Seq(Keys) /\ Len(t) = Len(order) - 1
            /\ Distinct(t) /\ Range(t) = Range(order) \ {k}
        BY <3>1, RemoveFirstFacts
      <3>3. order' = Append(t, k)
        BY <2>2 DEF Touched
      <3> HIDE DEF t
      <3>4. /\ order' \in Seq(Keys) /\ Len(order') = Len(t) + 1
            /\ Range(order') = Range(t) \cup {k} /\ Distinct(order')
        BY <3>2, <3>3, AppendFacts
      <3>5. Len(order) \in Nat
        BY <3>1, LenProperties
      <3> QED
        BY <3>1, <3>2, <3>4, <3>5
    <2> QED
      BY <2>1, <2>2 DEF OrderStays
  <1>3. \A k \in Keys : rows'[k].seq <= ordinal' /\ (rows'[k].seq = 0 => rows'[k] = NoRow)
    BY DEF RowsStay, LedgerInv
  <1>4. \A j, k \in Keys : rows'[j].seq = rows'[k].seq /\ rows'[k].seq # 0 => j = k
    BY DEF RowsStay, LedgerInv
  <1>5. \A k \in Setters : Retained(k)' => rows'[k].seq = k
    BY <1>1, Constants DEF RowsStay, LedgerInv
  <1>6. Range(order') = {k \in Keys : Retained(k)'}
    BY <1>1, <1>2 DEF LedgerInv
  <1> QED
    BY <1>1, <1>2, <1>3, <1>4, <1>5, <1>6 DEF LedgerInv

\* Nothing joins the timeline, and only a key that is not waiting leaves it.
TimelineStays ==
    \/ /\ timeline' = timeline
       /\ \A k \in Keys : rows'[k].state \in {"queued", "dispatching"} =>
             rows[k].state \in {"queued", "dispatching"}
    \/ \E e \in Keys :
          /\ timeline' = RemoveFirst(timeline, e)
          /\ \A k \in Keys : rows'[k].state \in {"queued", "dispatching"} =>
                rows[k].state \in {"queued", "dispatching"} /\ k # e

LEMMA TimelineKept ==
    ASSUME RowsType, LedgerInv, TimelineInv, RowsStay, TimelineStays
    PROVE  TimelineInv' /\ timeline' \in Seq(Keys)
  <1>0. \A k \in Keys : Retained(k)' <=> Retained(k)
    <2> TAKE k \in Keys
    <2>1. Retained(k) <=> rows[k].seq # 0
      BY RetainedBySeq
    <2>2. rows'[k].seq = rows[k].seq /\ (rows[k] = NoRow => rows'[k] = NoRow)
      BY DEF RowsStay
    <2>3. NoRow.seq = 0
      BY DEF NoRow
    <2> QED
      BY <2>1, <2>2, <2>3 DEF Retained
  <1>1. /\ timeline \in Seq(Keys) /\ rows \in [Keys -> Row] /\ Sorted(timeline, rows)
        /\ Range(timeline) \subseteq Keys
    <2>1. timeline \in Seq(Keys) /\ rows \in [Keys -> Row] /\ Sorted(timeline, rows)
      BY DEF RowsType, TimelineInv
    <2> QED
      BY <2>1, RangeOfSeq
  <1>2. \A k \in Range(timeline) : rows'[k].seq = rows[k].seq
    BY <1>1 DEF RowsStay
  <1>3. CASE /\ timeline' = timeline
             /\ \A k \in Keys : rows'[k].state \in {"queued", "dispatching"} =>
                   rows[k].state \in {"queued", "dispatching"}
    <2>1. Sorted(timeline', rows')
      <3> SUFFICES ASSUME NEW i \in DOMAIN timeline, NEW j \in DOMAIN timeline, i < j
                   PROVE  rows'[timeline[i]].seq < rows'[timeline[j]].seq
        BY <1>3 DEF Sorted
      <3>1. rows[timeline[i]].seq < rows[timeline[j]].seq
        BY <1>1 DEF Sorted
      <3>2. timeline[i] \in Range(timeline) /\ timeline[j] \in Range(timeline)
        BY DEF Range
      <3> QED
        BY <1>2, <3>1, <3>2
    <2> QED
      BY <1>0, <1>1, <1>3, <2>1 DEF TimelineInv
  <1>4. ASSUME NEW e \in Keys, timeline' = RemoveFirst(timeline, e),
               \A k \in Keys : rows'[k].state \in {"queued", "dispatching"} =>
                  rows[k].state \in {"queued", "dispatching"} /\ k # e
        PROVE  TimelineInv' /\ timeline' \in Seq(Keys)
    <2>1. /\ Sorted(timeline', rows') /\ timeline' \in Seq(Keys)
          /\ Range(timeline') = Range(timeline) \ {e}
      BY <1>1, <1>2, <1>4, SortedRemove
    <2> QED
      BY <1>0, <1>1, <1>4, <2>1 DEF TimelineInv
  <1> QED
    BY <1>3, <1>4 DEF TimelineStays

\* What is queued was queued before under the same ordinal, or was admitted by this step.
QueueStays ==
    /\ ordinal' \in {ordinal, ordinal + 1}
    /\ \A k \in Keys : rows'[k].state = "queued" =>
          \/ rows[k].state = "queued" /\ rows'[k].seq = rows[k].seq
          \/ rows'[k].seq = ordinal + 1 /\ ordinal' = ordinal + 1

\* No call begins.
NoClaim == pc' = "call" => pc = "call" /\ chosen' = chosen

LEMMA SendKept ==
    ASSUME RowsType, HistoryType, TaskInv, SendInv, QueueStays, NoClaim, wire' = wire
    PROVE  SendInv'
  <1>1. ordinal \in Nat /\ \A i \in DOMAIN wire : wire[i] \in Nat
    BY WireSeq, Constants DEF RowsType
  <1>2. \A i \in DOMAIN wire' : wire'[i] <= ordinal'
    BY <1>1 DEF QueueStays, SendInv
  <1>3. \A k \in Keys : rows'[k].state = "queued" => \A i \in DOMAIN wire' : wire'[i] < rows'[k].seq
    <2> SUFFICES ASSUME NEW k \in Keys, rows'[k].state = "queued", NEW i \in DOMAIN wire
                 PROVE  wire[i] < rows'[k].seq
      OBVIOUS
    <2>1. wire[i] <= ordinal
      BY DEF SendInv
    <2>2. rows[k].state = "queued" => wire[i] < rows[k].seq
      BY DEF SendInv
    <2> QED
      BY <1>1, <2>1, <2>2 DEF QueueStays
  <1>4. ASSUME pc' = "call"
        PROVE  /\ \A i \in DOMAIN wire' : wire'[i] <= chosen'.seq
               /\ \A k \in Keys : rows'[k].state = "queued" => chosen'.seq < rows'[k].seq
    <2>1. pc = "call" /\ chosen' = chosen
      BY <1>4 DEF NoClaim
    <2>2. chosen.seq \in Nat /\ chosen.seq <= ordinal
      BY <1>1, <2>1 DEF TaskInv
    <2>3. \A k \in Keys : rows'[k].state = "queued" => chosen.seq < rows'[k].seq
      <3> SUFFICES ASSUME NEW k \in Keys, rows'[k].state = "queued" PROVE chosen.seq < rows'[k].seq
        OBVIOUS
      <3>1. rows[k].state = "queued" => chosen.seq < rows[k].seq
        BY <2>1 DEF SendInv
      <3> QED
        BY <1>1, <2>2, <3>1 DEF QueueStays
    <2> QED
      BY <2>1, <2>3 DEF SendInv
  <1> QED
    BY <1>2, <1>3, <1>4 DEF SendInv

LEMMA RecallKept ==
    ASSUME RowsType, HistoryType, RecallInv, QueueStays, NoClaim, recalled' = recalled
    PROVE  RecallInv'
  <1>1. ordinal \in Nat /\ \A n \in recalled : n \in Nat /\ n <= ordinal
    BY Constants DEF RowsType, HistoryType, RecallInv
  <1>2. \A n \in recalled' : n <= ordinal'
    BY <1>1 DEF QueueStays
  <1>3. \A k \in Keys : rows'[k].state = "queued" => rows'[k].seq \notin recalled'
    <2> SUFFICES ASSUME NEW k \in Keys, rows'[k].state = "queued" PROVE rows'[k].seq \notin recalled
      OBVIOUS
    <2>1. rows[k].state = "queued" => rows[k].seq \notin recalled
      BY DEF RecallInv
    <2>2. ordinal + 1 \notin recalled
      BY <1>1
    <2> QED
      BY <2>1, <2>2 DEF QueueStays
  <1>4. pc' = "call" => chosen'.seq \notin recalled'
    BY DEF NoClaim, RecallInv
  <1> QED
    BY <1>2, <1>3, <1>4 DEF RecallInv

\* A row that was in doubt stays out of the queue until it is forgotten.
DoubtStays ==
    /\ ordinal' \in {ordinal, ordinal + 1}
    /\ \A k \in Keys :
          \/ rows'[k].seq = rows[k].seq /\ (rows[k].state \in Doubted => rows'[k].state \in Doubted)
          \/ rows'[k].seq \in {0, ordinal + 1}

LEMMA ReconcileKept ==
    ASSUME RowsType, HistoryType, ReconcileInv, DoubtStays, asked' \subseteq asked,
           \A k \in Keys : rows'[k].buffered => rows'[k].seq \in over'
    PROVE  ReconcileInv'
  <1>1. ordinal \in Nat
    BY Constants DEF RowsType
  <1>2. \A r \in asked : r[1] \in Keys /\ r[2] \in 1 .. ordinal
    BY Constants DEF HistoryType, ReconcileInv
  <1>3. \A r \in asked' : r[2] \in 1 .. ordinal'
    BY <1>1, <1>2 DEF DoubtStays
  <1>4. ASSUME NEW r \in asked', rows'[r[1]].seq = r[2] PROVE rows'[r[1]].state \in Doubted
    <2>1. r[1] \in Keys /\ r[2] \in 1 .. ordinal
      BY <1>2
    <2>2. rows'[r[1]].seq \notin {0, ordinal + 1}
      BY <1>1, <1>4, <2>1
    <2>3. rows'[r[1]].seq = rows[r[1]].seq /\ (rows[r[1]].state \in Doubted => rows'[r[1]].state \in Doubted)
      BY <2>1, <2>2 DEF DoubtStays
    <2>4. rows[r[1]].seq = r[2]
      BY <1>4, <2>3
    <2> QED
      BY <2>3, <2>4 DEF ReconcileInv
  <1> QED
    BY <1>3, <1>4 DEF ReconcileInv

\* A call that is out keeps its operation, unless an answer was mixed up.
CallStays ==
    pc' = "call" /\ ~mixed' =>
        /\ pc = "call" /\ ~mixed /\ chosen' = chosen
        /\ active' = active
        /\ rows'[chosen.key].seq = rows[chosen.key].seq
        /\ rows'[chosen.key].state = rows[chosen.key].state

LEMMA CallKept ==
    ASSUME CallInv, CallStays
    PROVE  CallInv'
  BY DEF CallInv, CallStays

\* What blocks the timeline goes on blocking it.
BlockStays ==
    /\ wire' = wire /\ over \subseteq over' /\ givenUp \subseteq givenUp' /\ (mixed => mixed')
    /\ active' = active
    /\ active \in Keys /\ rows[active].seq # 0 => rows'[active].seq = rows[active].seq

LEMMA PinKept ==
    ASSUME RowsType, HistoryType, UnfinishedIsPinned, BlockStays
    PROVE  UnfinishedIsPinned'
  <1> SUFFICES ASSUME ~mixed', NEW n \in Range(wire) \ (over' \cup givenUp')
               PROVE  active' # None /\ rows'[active'].seq = n
    BY DEF UnfinishedIsPinned, BlockStays
  <1>1. active # None /\ rows[active].seq = n
    BY DEF UnfinishedIsPinned, BlockStays
  <1>2. active \in Keys
    BY <1>1 DEF RowsType
  <1>3. n # 0
    BY WireSeq
  <1> QED
    BY <1>1, <1>2, <1>3 DEF BlockStays

\* When the timeline is unblocked, or blocked anew, nothing on the wire is unfinished.
LEMMA PinReleased ==
    ASSUME \A n \in Range(wire') : n \in over' \cup givenUp'
    PROVE  UnfinishedIsPinned'
  BY DEF UnfinishedIsPinned

\* The parts of the invariant that the wire and the withdrawals are in.
LEMMA WireKept ==
    ASSUME WireInOrder, RecalledNeverSent, wire' = wire, recalled' = recalled
    PROVE  WireInOrder' /\ RecalledNeverSent'
  BY DEF WireInOrder, RecalledNeverSent

\* The invariant from its parts.
LEMMA Assemble ==
    ASSUME RowsType', BridgeType', TaskType', HistoryType', LedgerInv', TimelineInv', TaskInv',
           SendInv', RecallInv', ReconcileInv', CallInv', WireInOrder', RecalledNeverSent',
           UnfinishedIsPinned'
    PROVE  IInv'
  BY TypePartsNext DEF IInv

LEMMA Disassemble ==
    ASSUME IInv
    PROVE  /\ RowsType /\ BridgeType /\ TaskType /\ HistoryType
           /\ LedgerInv /\ TimelineInv /\ TaskInv /\ SendInv /\ RecallInv /\ ReconcileInv
           /\ CallInv /\ WireInOrder /\ RecalledNeverSent /\ UnfinishedIsPinned
  BY TypeParts DEF IInv

-----------------------------------------------------------------------------
(* The steps that change nothing in the ledger, in three kinds: the        *)
(* dispatcher moves, a reconcile call goes out, or the bridge reports.     *)

LEMMA LedgerIdle ==
    ASSUME IInv, UNCHANGED <<ledger, wire, recalled, givenUp>>, NoClaim,
           BridgeType', TaskType', HistoryType', TaskInv', ReconcileInv',
           over \subseteq over', mixed => mixed', CallStays
    PROVE  IInv'
  <1>0. /\ UNCHANGED <<rows, order, timeline, active, ordinal>>
        /\ wire' = wire /\ recalled' = recalled /\ givenUp' = givenUp
    BY DEF ledger
  <1>1. RowsType /\ HistoryType /\ LedgerInv /\ TimelineInv /\ TaskInv /\ SendInv /\ RecallInv
        /\ CallInv /\ WireInOrder /\ RecalledNeverSent /\ UnfinishedIsPinned
    BY Disassemble
  <1>2. RowsType'
    BY <1>0, <1>1 DEF RowsType
  <1>3. LedgerInv'
    BY <1>0, <1>1 DEF LedgerInv, Retained, Distinct
  <1>4. TimelineInv'
    BY <1>0, <1>1 DEF TimelineInv, Retained, Sorted
  <1>5. QueueStays
    BY <1>0 DEF QueueStays
  <1>6. SendInv' /\ RecallInv'
    BY <1>0, <1>1, <1>5, SendKept, RecallKept
  <1>7. CallInv' /\ WireInOrder' /\ RecalledNeverSent'
    BY <1>0, <1>1, CallKept, WireKept
  <1>8. UnfinishedIsPinned'
    <2>1. BlockStays
      BY <1>0 DEF BlockStays
    <2> QED
      BY <1>1, <2>1, PinKept
  <1> QED
    BY <1>2, <1>3, <1>4, <1>6, <1>7, <1>8, Assemble

\* ReconcileInv when neither the ledger nor the calls out are touched.
LEMMA ReconcileIdle ==
    ASSUME ReconcileInv, UNCHANGED <<rows, ordinal, asked>>, over \subseteq over'
    PROVE  ReconcileInv'
  BY DEF ReconcileInv

\* The dispatcher moves outside a call.
LEMMA TaskMoves ==
    ASSUME IInv, UNCHANGED <<ledger, bridge, asked, history>>, wake' \in BOOLEAN, TaskType',
           NoClaim, TaskInv'
    PROVE  IInv'
  <1>0. /\ UNCHANGED <<rows, order, timeline, active, ordinal, snap, listening, asked>>
        /\ UNCHANGED <<wire, over, recalled, givenUp, mixed>>
    BY DEF ledger, bridge, history
  <1>1. BridgeType /\ HistoryType /\ ReconcileInv
    BY Disassemble
  <1>2. BridgeType' /\ HistoryType'
    BY <1>0, <1>1 DEF BridgeType, HistoryType
  <1>3. ReconcileInv'
    BY <1>0, <1>1, ReconcileIdle
  <1>5. CallStays
    BY <1>0 DEF NoClaim, CallStays
  <1> QED
    BY <1>0, <1>2, <1>3, <1>5, LedgerIdle

\* The bridge reports, and the dispatcher does not move.
LEMMA BridgeMoves ==
    ASSUME IInv, UNCHANGED <<ledger, pc, chosen, asked, wire, recalled, givenUp, mixed>>,
           BridgeType', owed' \in BOOLEAN,
           over \subseteq over', over' \subseteq 1..MaxOps
    PROVE  IInv'
  <1>0. UNCHANGED <<rows, order, timeline, active, ordinal>>
    BY DEF ledger
  <1>1. TaskType /\ HistoryType /\ ReconcileInv /\ TaskInv
    BY Disassemble
  <1>2. TaskType' /\ HistoryType'
    BY <1>1 DEF TaskType, HistoryType
  <1>3. ReconcileInv'
    BY <1>0, <1>1, ReconcileIdle
  <1>4. TaskInv'
    BY <1>0, <1>1 DEF TaskInv
  <1>5. NoClaim /\ CallStays
    BY <1>0 DEF NoClaim, CallStays
  <1> QED
    BY <1>2, <1>3, <1>4, <1>5, LedgerIdle

LEMMA StopStep ==
    ASSUME IInv, Stop PROVE IInv'
  <1>0. /\ pc' = "stopped" /\ snap' = [control |-> "disconnected", idle |-> FALSE]
        /\ listening' = FALSE
        /\ UNCHANGED <<rows, order, timeline, active, ordinal, wake, chosen, owed, asked>>
        /\ UNCHANGED <<wire, over, recalled, givenUp, mixed>>
    BY DEF Stop, ledger, history
  <1>1. BridgeType /\ TaskType /\ HistoryType /\ ReconcileInv
    BY Disassemble
  <1>2. BridgeType' /\ TaskType' /\ HistoryType'
    BY <1>0, <1>1 DEF BridgeType, TaskType, HistoryType, Controls
  <1>3. ReconcileInv'
    BY <1>0, <1>1, ReconcileIdle
  <1>4. TaskInv' /\ NoClaim /\ CallStays
    BY <1>0 DEF TaskInv, NoClaim, CallStays
  <1>5. UNCHANGED <<ledger, wire, recalled, givenUp>> /\ over \subseteq over' /\ (mixed => mixed')
    BY <1>0 DEF ledger
  <1> QED
    BY <1>2, <1>3, <1>4, <1>5, LedgerIdle

LEMMA TakeHeadStep ==
    ASSUME IInv, TakeHead, wake' \in BOOLEAN, pc \in {"wait", "look"} PROVE IInv'
  <1>0. /\ UNCHANGED <<ledger, bridge, asked, history>> /\ owed' = owed
        /\ UNCHANGED <<rows, order, timeline, active, ordinal>>
    BY DEF TakeHead, ledger
  <1>1. TaskType /\ RowsType /\ LedgerInv /\ TimelineInv
    BY Disassemble
  <1>2. CASE HasDispatchableHead
    <2> DEFINE h == Head(timeline)
    <2>1. pc' = "preflight" /\ chosen' = [key |-> h, seq |-> rows[h].seq]
      BY <1>2 DEF TakeHead
    <2>2. timeline \in Seq(Keys) /\ timeline # <<>> /\ active = None
      BY <1>1, <1>2 DEF HasDispatchableHead, RowsType
    <2>3. h \in Keys /\ h \in Range(timeline)
      <3>1. h \in Keys
        BY <2>2, HeadTailProperties
      <3>2. 1 \in DOMAIN timeline /\ h = timeline[1]
        BY <2>2, EmptySeq, LenProperties
      <3> QED
        BY <3>1, <3>2 DEF Range
    <2>4. rows[h].seq \in 1 .. ordinal /\ rows[h].seq \in Nat
      BY <1>1, <2>3, RetainedBySeq DEF TimelineInv
    <2> HIDE DEF h
    <2>5. TaskType'
      BY <1>0, <1>1, <2>1, <2>3, <2>4 DEF TaskType
    <2>6. TaskInv'
      BY <1>0, <2>1, <2>2, <2>3, <2>4 DEF TaskInv
    <2> QED
      BY <1>0, <2>1, <2>5, <2>6, TaskMoves DEF NoClaim
  <1>3. CASE ~HasDispatchableHead
    <2>1. pc' = "wait" /\ chosen' = chosen
      BY <1>3 DEF TakeHead
    <2>2. TaskType' /\ TaskInv'
      BY <1>0, <1>1, <2>1 DEF TaskType, TaskInv
    <2> QED
      BY <1>0, <2>1, <2>2, TaskMoves DEF NoClaim
  <1> QED
    BY <1>2, <1>3

LEMMA WokenStep ==
    ASSUME IInv, Woken PROVE IInv'
  BY TakeHeadStep DEF Woken

LEMMA LookStep ==
    ASSUME IInv, Look PROVE IInv'
  <1>1. wake \in BOOLEAN
    BY Disassemble DEF BridgeType
  <1> QED
    BY <1>1, TakeHeadStep DEF Look

LEMMA PreflightDeclinesStep ==
    ASSUME IInv, PreflightDeclines PROVE IInv'
  <1>1. TaskType /\ BridgeType
    BY Disassemble
  <1>2. TaskType' /\ TaskInv' /\ NoClaim /\ wake' \in BOOLEAN /\ pc' = "wait"
    BY <1>1 DEF PreflightDeclines, TaskType, TaskInv, NoClaim, BridgeType
  <1>3. UNCHANGED <<ledger, bridge, asked, history>>
    BY DEF PreflightDeclines
  <1> QED
    BY <1>2, <1>3, TaskMoves

LEMMA PreflightRaisesStep ==
    ASSUME IInv, PreflightRaises PROVE IInv'
  <1>1. TaskType /\ BridgeType
    BY Disassemble
  <1>2. TaskType' /\ TaskInv' /\ NoClaim /\ wake' \in BOOLEAN
    BY <1>1 DEF PreflightRaises, TaskType, TaskInv, NoClaim, BridgeType
  <1>3. UNCHANGED <<ledger, bridge, asked, history>>
    BY DEF PreflightRaises
  <1> QED
    BY <1>2, <1>3, TaskMoves

LEMMA CallOrphanedStep ==
    ASSUME IInv, CallOrphaned PROVE IInv'
  <1>1. TaskType /\ BridgeType
    BY Disassemble
  <1>2. TaskType' /\ TaskInv' /\ NoClaim /\ wake' \in BOOLEAN
    BY <1>1 DEF CallOrphaned, TaskType, TaskInv, NoClaim, BridgeType
  <1>3. UNCHANGED <<ledger, bridge, asked, history>>
    BY DEF CallOrphaned
  <1> QED
    BY <1>2, <1>3, TaskMoves

LEMMA ReportsStep ==
    ASSUME IInv, NEW s \in [control : Controls, idle : BOOLEAN], Reports(s) PROVE IInv'
  <1>1. BridgeType /\ HistoryType
    BY Disassemble
  <1>2. /\ UNCHANGED <<ledger, pc, chosen, asked, wire, recalled, givenUp, mixed, over>>
        /\ owed' \in BOOLEAN
    BY DEF Reports, history
  <1>3. BridgeType'
    BY <1>1 DEF Reports, BridgeType
  <1>4. over \subseteq over' /\ over' \subseteq 1..MaxOps
    BY <1>1, <1>2 DEF HistoryType
  <1> QED
    BY <1>2, <1>3, <1>4, BridgeMoves

LEMMA StreamEndsStep ==
    ASSUME IInv, StreamEnds PROVE IInv'
  <1>1. BridgeType /\ HistoryType /\ TaskType
    BY Disassemble
  <1>2. /\ UNCHANGED <<ledger, pc, chosen, owed, asked, wire, recalled, givenUp, mixed, over>>
    BY DEF StreamEnds, history, task
  <1>3. BridgeType'
    BY <1>1 DEF StreamEnds, BridgeType, Controls
  <1>4. over \subseteq over' /\ over' \subseteq 1..MaxOps /\ owed' \in BOOLEAN
    BY <1>1, <1>2 DEF HistoryType, TaskType
  <1> QED
    BY <1>2, <1>3, <1>4, BridgeMoves

LEMMA AskReconcileStep ==
    ASSUME IInv, NEW k \in Requests, AskReconcile(k) PROVE IInv'
  <1>0. /\ UNCHANGED <<rows, order, timeline, active, ordinal, snap, listening, wake>>
        /\ UNCHANGED <<pc, chosen, owed, wire, over, recalled, givenUp, mixed>>
        /\ asked' = asked \cup {<<k, rows[k].seq>>}
        /\ Retained(k) /\ rows[k].state = "unknown"
    BY DEF AskReconcile, ledger, bridge, task, history
  <1>1. BridgeType /\ HistoryType /\ TaskType /\ ReconcileInv /\ TaskInv
        /\ RowsType /\ LedgerInv
    BY Disassemble
  <1>2. BridgeType' /\ TaskType' /\ TaskInv' /\ NoClaim /\ CallStays
    BY <1>0, <1>1 DEF BridgeType, TaskType, TaskInv, NoClaim, CallStays
  <1>3. rows[k].seq \in 1 .. ordinal /\ rows[k].seq \in Nat
    BY <1>0, <1>1, Constants, RetainedBySeq
  <1>4. HistoryType'
    BY <1>0, <1>1, <1>3 DEF HistoryType
  <1>5. ReconcileInv'
    <2>1. ASSUME NEW r \in asked'
          PROVE  r[2] \in 1 .. ordinal /\ (rows[r[1]].seq = r[2] => rows[r[1]].state \in Doubted)
      <3>1. CASE r \in asked
        BY <1>1, <3>1 DEF ReconcileInv
      <3>2. CASE r = <<k, rows[k].seq>>
        BY <1>0, <1>3, <3>2 DEF Doubted
      <3> QED
        BY <1>0, <3>1, <3>2
    <2> QED
      BY <1>0, <1>1, <2>1 DEF ReconcileInv
  <1>6. UNCHANGED <<ledger, wire, recalled, givenUp>> /\ over \subseteq over' /\ (mixed => mixed')
    BY <1>0 DEF ledger
  <1> QED
    BY <1>2, <1>4, <1>5, <1>6, LedgerIdle

-----------------------------------------------------------------------------
(* Admission: make_room, enrol.                                            *)

\* make_room finds the row it drops: it is there, not waiting and not active.
LEMMA EvicteeFacts ==
    ASSUME RowsType, LedgerInv, NEW d \in Keys, Droppable(d)
    PROVE  Evictee \in Keys /\ Evictee \in Range(order) /\ Droppable(Evictee)
  <1> DEFINE I == {i \in DOMAIN order : Droppable(order[i])}
  <1>1. order \in Seq(Keys) /\ DOMAIN order = 1 .. Len(order) /\ Len(order) \in Nat
    BY LenProperties DEF RowsType
  <1>2. I \in SUBSET Nat
    BY <1>1
  <1>3. I # {}
    <2>1. d \in Range(order)
      BY DEF Droppable, LedgerInv
    <2> QED
      BY <2>1 DEF Range
  <1>4. PICK i \in I : \A j \in I : i <= j
    <2> HIDE DEF I
    <2> QED
      BY <1>2, <1>3, LeastIndex
  <1>5. /\ i \in DOMAIN order /\ Droppable(order[i])
        /\ \A j \in 1..(i - 1) : ~Droppable(order[j])
    BY <1>1, <1>4
  <1>6. PICK e \in DOMAIN order : Evictee = order[e] /\ Droppable(order[e])
    <2> DEFINE P(n) == Droppable(order[n]) /\ \A j \in 1..(n - 1) : ~Droppable(order[j])
    <2>1. \E n \in DOMAIN order : P(n)
      BY <1>5
    <2> DEFINE e == CHOOSE n \in DOMAIN order : P(n)
    <2>2. e \in DOMAIN order /\ P(e)
      <3> HIDE DEF P
      <3> QED
        BY <2>1
    <2>3. Evictee = order[e]
      BY DEF Evictee
    <2> QED
      BY <2>2, <2>3
  <1>7. order[e] \in Keys /\ order[e] \in Range(order)
    BY <1>1, <1>6, ElementOfSeq DEF Range
  <1> QED
    BY <1>6, <1>7

\* The ledger after an admission.
Admitted(k, st) ==
    /\ rows' \in [Keys -> Row]
    /\ rows'[k].seq = ordinal + 1 /\ rows'[k].state = st /\ rows'[k].buffered = FALSE
    /\ \A j \in Keys : j # k =>
          rows'[j] = rows[j] \/ (rows'[j] = NoRow /\ Retained(j) /\ ~Pinned(j))
    /\ order' \in Seq(Keys) /\ Len(order') <= LedgerLimit
    /\ ordinal' = ordinal + 1 /\ ordinal' \in 0..MaxOps

\* A key that may be enrolled: free, and a setter's is its ordinal.
Enrollable(k) == k \in Keys /\ ~Retained(k) /\ (k \in Setters => k = ordinal + 1)

LEMMA EnrolFacts ==
    ASSUME RowsType, LedgerInv, NEW k, Enrollable(k), HasRoom, ordinal < MaxOps,
           NEW st \in States, Enrol(k, st)
    PROVE  Admitted(k, st) /\ LedgerInv'
  <1>0. /\ k \in Keys /\ ~Retained(k) /\ rows \in [Keys -> Row] /\ ordinal \in Nat
        /\ order \in Seq(Keys) /\ Len(order) \in Nat /\ Len(order) <= LedgerLimit
        /\ Distinct(order) /\ Range(order) = {j \in Keys : Retained(j)}
    BY LenProperties, Constants DEF Enrollable, RowsType, LedgerInv
  <1>1. ordinal' = ordinal + 1 /\ ordinal' \in 0..MaxOps
    BY <1>0, Constants DEF Enrol
  <1> DEFINE new == [seq |-> ordinal + 1, state |-> st, buffered |-> FALSE]
             kept == [rows EXCEPT ![k] = new]
  <1>2. new \in Row /\ new.seq = ordinal + 1 /\ new.state = st /\ new.buffered = FALSE
    BY <1>0 DEF Row
  <1>3. kept \in [Keys -> Row] /\ kept[k] = new /\ \A j \in Keys : j # k => kept[j] = rows[j]
    <2> HIDE DEF new
    <2> QED
      BY <1>0, <1>2
  <1>4. new # NoRow
    BY <1>0 DEF NoRow
  <1>5. /\ rows' \in [Keys -> Row] /\ rows'[k] = new
        /\ \A j \in Keys : j # k => rows'[j] = rows[j] \/ (rows'[j] = NoRow /\ Retained(j) /\ ~Pinned(j))
        /\ order' \in Seq(Keys) /\ Len(order') <= LedgerLimit
        /\ Distinct(order') /\ Range(order') = {j \in Keys : Retained(j)'}
    <2>1. CASE ~LedgerFull
      <3>1. rows' = kept /\ order' = Append(order, k)
        BY <2>1 DEF Enrol
      <3>2. Len(order) + 1 <= LedgerLimit
        BY <2>1, <1>0, Constants DEF LedgerFull
      <3>3. k \notin Range(order)
        BY <1>0
      <3>4. /\ order' \in Seq(Keys) /\ Len(order') = Len(order) + 1
            /\ Range(order') = Range(order) \cup {k} /\ Distinct(order')
        BY <1>0, <3>1, <3>3, AppendFacts
      <3> HIDE DEF kept, new
      <3>5. \A j \in Keys : Retained(j)' <=> Retained(j) \/ j = k
        BY <1>3, <1>4, <3>1 DEF Retained
      <3>6. Range(order') = {j \in Keys : Retained(j)'}
        BY <1>0, <3>4, <3>5
      <3> QED
        BY <1>3, <3>1, <3>2, <3>4, <3>6
    <2>2. CASE LedgerFull
      <3> DEFINE e == Evictee
                 t == RemoveFirst(order, e)
      <3>1. PICK d \in Keys : Droppable(d)
        BY <2>2 DEF HasRoom
      <3>2. e \in Keys /\ e \in Range(order) /\ Droppable(e)
        BY <3>1, EvicteeFacts
      <3>3. Retained(e) /\ ~Pinned(e) /\ e # k
        BY <1>0, <3>2 DEF Droppable
      <3>4. rows' = [kept EXCEPT ![e] = NoRow] /\ order' = Append(t, k)
        BY <2>2 DEF Enrol
      <3> HIDE DEF e
      <3>5. /\ t \in Seq(Keys) /\ Len(t) = Len(order) - 1 /\ Distinct(t)
            /\ Range(t) = Range(order) \ {e}
        BY <1>0, <3>2, RemoveFirstFacts
      <3> HIDE DEF t
      <3>6. k \notin Range(t)
        BY <1>0, <3>5
      <3>7. /\ order' \in Seq(Keys) /\ Len(order') = Len(t) + 1
            /\ Range(order') = Range(t) \cup {k} /\ Distinct(order')
        BY <1>0, <3>4, <3>5, <3>6, AppendFacts
      <3> HIDE DEF kept, new
      <3>8. /\ rows' \in [Keys -> Row] /\ rows'[e] = NoRow
            /\ \A j \in Keys : j # e => rows'[j] = kept[j]
        BY <1>3, <3>2, <3>4, Constants
      <3>9. \A j \in Keys : Retained(j)' <=> (Retained(j) /\ j # e) \/ j = k
        BY <1>3, <1>4, <3>3, <3>8 DEF Retained
      <3>10. Range(order') = {j \in Keys : Retained(j)'}
        BY <1>0, <3>3, <3>5, <3>7, <3>9
      <3>11. Len(order') <= LedgerLimit
        BY <1>0, <3>5, <3>7
      <3> QED
        BY <1>0, <1>3, <3>3, <3>7, <3>8, <3>10, <3>11
    <2> QED
      BY <2>1, <2>2
  <1> HIDE DEF kept, new
  <1>6. Admitted(k, st)
    BY <1>1, <1>2, <1>5 DEF Admitted
  <1>7. \A j \in Keys : \/ j = k /\ rows'[j].seq = ordinal + 1
                        \/ j # k /\ rows'[j] = rows[j] /\ rows'[j].seq \in Nat /\ rows'[j].seq <= ordinal
                        \/ j # k /\ rows'[j] = NoRow /\ rows'[j].seq = 0
    <2> TAKE j \in Keys
    <2>1. rows[j].seq \in Nat /\ rows[j].seq <= ordinal
      BY RetainedBySeq DEF LedgerInv
    <2>2. NoRow.seq = 0
      BY DEF NoRow
    <2> QED
      BY <1>2, <1>5, <2>1, <2>2
  <1>8. \A j \in Keys : rows'[j].seq <= ordinal' /\ (rows'[j].seq = 0 => rows'[j] = NoRow)
    <2> TAKE j \in Keys
    <2>1. rows[j].seq = 0 => rows[j] = NoRow
      BY DEF LedgerInv
    <2> QED
      BY <1>0, <1>1, <1>7, <2>1
  <1>9. \A i, j \in Keys : rows'[i].seq = rows'[j].seq /\ rows'[j].seq # 0 => i = j
    <2> TAKE i, j \in Keys
    <2>1. rows[i].seq = rows[j].seq /\ rows[j].seq # 0 => i = j
      BY DEF LedgerInv
    <2> QED
      BY <1>0, <1>7, <2>1
  <1>10. \A j \in Setters : Retained(j)' => rows'[j].seq = j
    <2> TAKE j \in Setters
    <2>1. j \in Keys /\ (Retained(j) => rows[j].seq = j)
      BY Constants DEF LedgerInv
    <2>2. CASE j = k
      BY <1>2, <1>5, <2>2 DEF Enrollable
    <2>3. CASE j # k
      BY <1>5, <2>1, <2>3 DEF Retained
    <2> QED
      BY <2>2, <2>3
  <1> QED
    BY <1>5, <1>6, <1>8, <1>9, <1>10 DEF LedgerInv

\* Everything but the timeline after an admission.
LEMMA AdmittedKeeps ==
    ASSUME IInv, NEW k, Enrollable(k), NEW st \in States, Admitted(k, st), LedgerInv',
           UNCHANGED <<active, bridge, task, asked, history>>, wake' \in BOOLEAN,
           TimelineInv', timeline' \in Seq(Keys)
    PROVE  IInv'
  <1>0. UNCHANGED <<active, snap, listening, pc, chosen, owed, asked, wire, over, recalled, givenUp, mixed>>
    BY DEF bridge, task, history
  <1>1. /\ RowsType /\ BridgeType /\ TaskType /\ HistoryType /\ LedgerInv /\ TimelineInv /\ TaskInv
        /\ SendInv /\ RecallInv /\ ReconcileInv /\ CallInv /\ WireInOrder /\ RecalledNeverSent
        /\ UnfinishedIsPinned
    BY Disassemble
  <1>2. k \in Keys /\ rows[k].seq = 0 /\ rows[k] = NoRow /\ ordinal \in Nat
    BY <1>1, RetainedBySeq, Constants DEF Enrollable, LedgerInv, RowsType
  <1>3. RowsType' /\ BridgeType' /\ TaskType' /\ HistoryType'
    BY <1>0, <1>1 DEF Admitted, RowsType, BridgeType, TaskType, HistoryType
  <1>4. TaskInv'
    <2>1. 1 .. ordinal \subseteq 1 .. ordinal'
      BY <1>2 DEF Admitted
    <2> QED
      BY <1>0, <1>1, <2>1 DEF TaskInv
  <1>5. NoRow.seq = 0 /\ NoRow.state = "rejected" /\ NoRow.buffered = FALSE
    BY DEF NoRow
  <1>6. QueueStays
    BY <1>5 DEF QueueStays, Admitted
  <1>7. SendInv' /\ RecallInv'
    BY <1>0, <1>1, <1>6, SendKept, RecallKept DEF NoClaim
  <1>8. ReconcileInv'
    <2>1. DoubtStays
      BY <1>5 DEF DoubtStays, Admitted
    <2>2. \A j \in Keys : rows'[j].buffered => rows'[j].seq \in over'
      BY <1>0, <1>1, <1>5 DEF Admitted, ReconcileInv
    <2> QED
      BY <1>0, <1>1, <2>1, <2>2, ReconcileKept
  <1>9. ASSUME NEW a \in Keys, a = active \/ a \in Range(timeline), rows[a].seq # 0
        PROVE  rows'[a] = rows[a]
    <2>1. a # k /\ Pinned(a)
      BY <1>2, <1>9 DEF Pinned
    <2> QED
      BY <2>1 DEF Admitted
  <1>10. UnfinishedIsPinned'
    <2>1. BlockStays
      BY <1>0, <1>9 DEF BlockStays
    <2> QED
      BY <1>1, <2>1, PinKept
  <1>11. CallInv'
    <2> SUFFICES ASSUME pc = "call", ~mixed
                 PROVE  /\ rows'[chosen.key].seq = rows[chosen.key].seq
                        /\ rows'[chosen.key].state = rows[chosen.key].state
      BY <1>0, <1>1 DEF CallInv
    <2>1. chosen.key \in Keys /\ active = chosen.key /\ rows[chosen.key].seq # 0
      BY <1>1 DEF CallInv, TaskInv
    <2> QED
      BY <1>9, <2>1
  <1>12. WireInOrder' /\ RecalledNeverSent'
    BY <1>0, <1>1, WireKept
  <1> QED
    BY <1>3, <1>4, <1>7, <1>8, <1>10, <1>11, <1>12, Assemble

\* An operation that is admitted into the timeline.
LEMMA QueuedStep ==
    ASSUME IInv, NEW k, Enrollable(k), HasRoom, ordinal < MaxOps,
           Enrol(k, "queued"), timeline' = Append(timeline, k), wake' = TRUE,
           UNCHANGED <<active, bridge, task, asked, history>>
    PROVE  IInv'
  <1>1. RowsType /\ LedgerInv /\ TimelineInv
    BY Disassemble
  <1>2. Admitted(k, "queued") /\ LedgerInv'
    BY <1>1, EnrolFacts DEF States
  <1>3. timeline \in Seq(Keys) /\ Range(timeline) \subseteq Keys /\ k \in Keys
    <2>1. timeline \in Seq(Keys)
      BY <1>1 DEF RowsType
    <2> QED
      BY <2>1, RangeOfSeq DEF Enrollable
  <1>4. \A j \in Range(timeline) : j # k /\ rows'[j] = rows[j] /\ rows[j].seq < ordinal + 1
    <2> TAKE j \in Range(timeline)
    <2>1. j \in Keys /\ Retained(j) /\ Pinned(j) /\ j # k
      BY <1>1, <1>3 DEF TimelineInv, Pinned, Enrollable
    <2>2. rows[j].seq \in 1 .. ordinal /\ ordinal \in Nat
      BY <1>1, <2>1, RetainedBySeq, Constants DEF RowsType
    <2> QED
      BY <1>2, <2>1, <2>2 DEF Admitted
  <1>5. /\ Sorted(timeline', rows') /\ timeline' \in Seq(Keys)
        /\ Range(timeline') = Range(timeline) \cup {k}
    <2>1. rows'[k].seq = ordinal + 1
      BY <1>2 DEF Admitted
    <2>2. Sorted(timeline, rows)
      BY <1>1 DEF TimelineInv
    <2>3. \A j \in Range(timeline) : rows'[j].seq = rows[j].seq /\ rows'[j].seq < rows'[k].seq
      BY <1>4, <2>1
    <2> QED
      BY <1>3, <2>2, <2>3, SortedAppend
  <1>6. \A j \in Range(timeline') : Retained(j)'
    <2>1. NoRow.seq = 0 /\ rows'[k].seq # 0
      BY <1>1, <1>2, Constants DEF NoRow, Admitted, RowsType
    <2>2. \A j \in Range(timeline) : Retained(j)
      BY <1>1 DEF TimelineInv
    <2> QED
      BY <1>4, <1>5, <2>1, <2>2 DEF Retained
  <1>7. \A j \in Keys : rows'[j].state \in {"queued", "dispatching"} => j \in Range(timeline')
    <2> TAKE j \in Keys
    <2>1. NoRow.state = "rejected"
      BY DEF NoRow
    <2>2. rows[j].state \in {"queued", "dispatching"} => j \in Range(timeline)
      BY <1>1 DEF TimelineInv
    <2> QED
      BY <1>2, <1>5, <2>1, <2>2 DEF Admitted
  <1>8. TimelineInv'
    BY <1>5, <1>6, <1>7 DEF TimelineInv
  <1> QED
    BY <1>2, <1>5, <1>8, AdmittedKeeps DEF States

LEMMA SubmitStep ==
    ASSUME IInv, NEW k \in Requests, Submit(k) PROVE IInv'
  <1>1. Enrollable(k)
    BY Constants DEF Submit, Enrollable
  <1> QED
    BY <1>1, QueuedStep DEF Submit

LEMMA AdmitSetterStep ==
    ASSUME IInv, AdmitSetter PROVE IInv'
  <1>1. Enrollable(ordinal + 1)
    <2>1. RowsType /\ LedgerInv /\ ordinal < MaxOps
      BY Disassemble DEF AdmitSetter
    <2>2. ordinal \in Nat /\ ordinal + 1 \in 1..MaxOps
      BY <2>1, Constants DEF RowsType
    <2>3. ordinal + 1 \in Setters /\ ordinal + 1 \in Keys
      BY <2>2, Constants
    <2>4. ~Retained(ordinal + 1)
      <3>1. Retained(ordinal + 1) => rows[ordinal + 1].seq = ordinal + 1
        BY <2>1, <2>3 DEF LedgerInv
      <3>2. rows[ordinal + 1].seq <= ordinal
        BY <2>1, <2>3 DEF LedgerInv
      <3> QED
        BY <2>2, <3>1, <3>2
    <2> QED
      BY <2>3, <2>4 DEF Enrollable
  <1> QED
    BY <1>1, QueuedStep DEF AdmitSetter

LEMMA SubmitUnsupportedStep ==
    ASSUME IInv, NEW k \in Requests, SubmitUnsupported(k) PROVE IInv'
  <1>0. /\ HasRoom /\ ordinal < MaxOps /\ Enrol(k, "unsupported") /\ timeline' = timeline
        /\ UNCHANGED <<active, bridge, wake, task, asked, history>>
    BY DEF SubmitUnsupported
  <1>1. RowsType /\ LedgerInv /\ TimelineInv /\ wake \in BOOLEAN
    BY Disassemble DEF BridgeType
  <1>2. Enrollable(k)
    BY Constants DEF SubmitUnsupported, Enrollable
  <1>3. Admitted(k, "unsupported") /\ LedgerInv'
    BY <1>0, <1>1, <1>2, EnrolFacts DEF States
  <1>4. timeline \in Seq(Keys) /\ Range(timeline) \subseteq Keys /\ k \in Keys
    <2>1. timeline \in Seq(Keys)
      BY <1>1 DEF RowsType
    <2> QED
      BY <1>2, <2>1, RangeOfSeq DEF Enrollable
  <1>5. \A j \in Range(timeline) : j # k /\ rows'[j] = rows[j] /\ Retained(j)
    <2> TAKE j \in Range(timeline)
    <2>1. j \in Keys /\ Retained(j) /\ Pinned(j) /\ j # k
      BY <1>1, <1>2, <1>4 DEF TimelineInv, Pinned, Enrollable
    <2> QED
      BY <1>3, <2>1 DEF Admitted
  <1>6. Sorted(timeline', rows')
    <2> SUFFICES ASSUME NEW i \in DOMAIN timeline, NEW j \in DOMAIN timeline, i < j
                 PROVE  rows'[timeline[i]].seq < rows'[timeline[j]].seq
      BY <1>0 DEF Sorted
    <2>1. rows[timeline[i]].seq < rows[timeline[j]].seq
      BY <1>1 DEF TimelineInv, Sorted
    <2>2. timeline[i] \in Range(timeline) /\ timeline[j] \in Range(timeline)
      BY DEF Range
    <2> QED
      BY <1>5, <2>1, <2>2
  <1>7. \A j \in Keys : rows'[j].state \in {"queued", "dispatching"} => j \in Range(timeline')
    <2> TAKE j \in Keys
    <2>1. NoRow.state = "rejected"
      BY DEF NoRow
    <2>2. rows[j].state \in {"queued", "dispatching"} => j \in Range(timeline)
      BY <1>1 DEF TimelineInv
    <2> QED
      BY <1>0, <1>3, <2>1, <2>2 DEF Admitted
  <1>8. TimelineInv'
    BY <1>0, <1>5, <1>6, <1>7 DEF TimelineInv, Retained
  <1> QED
    BY <1>0, <1>1, <1>2, <1>3, <1>4, <1>8, AdmittedKeeps DEF States

-----------------------------------------------------------------------------
(* The steps that change the state of rows that are there.                 *)

\* Every such step that neither sends nor withdraws.
LEMMA RowsMove ==
    ASSUME IInv, RowsStay, OrderStays, TimelineStays, QueueStays, DoubtStays, NoClaim, CallStays,
           active' \in Keys \cup {None}, BridgeType', TaskType', HistoryType',
           TaskInv', UnfinishedIsPinned',
           asked' \subseteq asked, \A k \in Keys : rows'[k].buffered => rows'[k].seq \in over',
           wire' = wire, recalled' = recalled
    PROVE  IInv'
  <1>1. /\ RowsType /\ HistoryType /\ LedgerInv /\ TimelineInv /\ TaskInv /\ SendInv /\ RecallInv
        /\ ReconcileInv /\ CallInv /\ WireInOrder /\ RecalledNeverSent
    BY Disassemble
  <1>2. LedgerInv' /\ order' \in Seq(Keys) /\ Len(order') <= LedgerLimit
    BY <1>1, LedgerKept
  <1>3. TimelineInv' /\ timeline' \in Seq(Keys)
    BY <1>1, TimelineKept
  <1>4. RowsType'
    BY <1>1, <1>2, <1>3 DEF RowsType, RowsStay
  <1>5. SendInv' /\ RecallInv'
    BY <1>1, SendKept, RecallKept
  <1>6. ReconcileInv'
    BY <1>1, ReconcileKept
  <1>7. CallInv' /\ WireInOrder' /\ RecalledNeverSent'
    BY <1>1, CallKept, WireKept
  <1> QED
    BY <1>2, <1>3, <1>4, <1>5, <1>6, <1>7, Assemble

\* One row takes another state, and no row enters the queue.
LEMMA OneRowMoves ==
    ASSUME RowsStay, NEW k \in Keys, rows'[k].state \in Doubted,
           \A j \in Keys : j # k => rows'[j] = rows[j]
    PROVE  /\ QueueStays /\ DoubtStays
           /\ \A j \in Keys : rows'[j].state \in {"queued", "dispatching"} =>
                 rows[j].state \in {"queued", "dispatching"} /\ j # k
  <1>1. rows'[k].state \notin {"queued", "dispatching"}
    BY DEF Doubted
  <1>2. QueueStays
    BY <1>1 DEF QueueStays, RowsStay
  <1>3. DoubtStays
    BY DEF DoubtStays, RowsStay
  <1> QED
    BY <1>1, <1>2, <1>3

\* mark_terminal, mark_unknown, where the row stays in the timeline.
LEMMA MarkStep ==
    ASSUME IInv, NEW k \in Keys, Retained(k), NEW st \in Doubted, rows' = Marked(k, st),
           UNCHANGED <<order, timeline, ordinal, wire, recalled>>,
           active' \in Keys \cup {None}, BridgeType', TaskType', HistoryType',
           TaskInv', NoClaim,
           asked' \subseteq asked, over \subseteq over', givenUp \subseteq givenUp', mixed => mixed',
           active' = active \/ \A n \in Range(wire) : n \in over' \cup givenUp',
           pc' = "call" /\ ~mixed' => pc = "call" /\ ~mixed /\ chosen' = chosen
                                      /\ k # chosen.key /\ active' = active
    PROVE  IInv'
  <1>1. RowsType /\ HistoryType /\ LedgerInv /\ ReconcileInv /\ UnfinishedIsPinned /\ TaskInv
    BY Disassemble
  <1>2. st \in States
    BY DEF States, Doubted
  <1>3. /\ RowsStay /\ rows'[k].state = st /\ rows'[k].buffered = rows[k].buffered
        /\ \A j \in Keys : j # k => rows'[j] = rows[j]
    BY <1>1, <1>2, MarkedFacts
  <1>4. /\ QueueStays /\ DoubtStays
        /\ \A j \in Keys : rows'[j].state \in {"queued", "dispatching"} =>
              rows[j].state \in {"queued", "dispatching"} /\ j # k
    BY <1>3, OneRowMoves
  <1>5. OrderStays /\ TimelineStays
    BY <1>4 DEF OrderStays, TimelineStays
  <1>6. \A j \in Keys : rows'[j].buffered => rows'[j].seq \in over'
    BY <1>1, <1>3 DEF ReconcileInv, RowsStay
  <1>7. CallStays
    <2> SUFFICES ASSUME pc' = "call", ~mixed'
                 PROVE  rows'[chosen.key] = rows[chosen.key]
      BY DEF CallStays
    <2>1. chosen.key \in Keys
      BY <1>1 DEF TaskInv
    <2> QED
      BY <1>3, <2>1
  <1>8. UnfinishedIsPinned'
    <2>1. CASE active' = active
      <3>1. BlockStays
        BY <1>3, <2>1 DEF BlockStays, RowsStay
      <3> QED
        BY <1>1, <3>1, PinKept
    <2>2. CASE \A n \in Range(wire) : n \in over' \cup givenUp'
      BY <2>2, PinReleased
    <2> QED
      BY <2>1, <2>2
  <1> QED
    BY <1>3, <1>4, <1>5, <1>6, <1>7, <1>8, RowsMove

\* mark_terminal and _release_head.
LEMMA SettleFacts ==
    ASSUME RowsType, LedgerInv, NEW k \in Keys, Retained(k), NEW st \in Doubted, Settle(k, st)
    PROVE  /\ RowsStay /\ OrderStays /\ TimelineStays /\ QueueStays /\ DoubtStays
           /\ rows'[k].state = st /\ rows'[k].buffered = FALSE
           /\ \A j \in Keys : j # k => rows'[j] = rows[j]
           /\ active' = IF active = k THEN None ELSE active
           /\ wake' = TRUE
  <1>1. /\ rows' = [rows EXCEPT ![k].state = st, ![k].buffered = FALSE]
        /\ active' = IF active = k THEN None ELSE active
        /\ timeline' = RemoveFirst(timeline, k)
        /\ order' = Touched(k) /\ wake' = TRUE /\ ordinal' = ordinal
    BY DEF Settle, ReleaseHead
  <1>2. rows \in [Keys -> Row] /\ rows[k] \in Row /\ st \in States
    BY DEF RowsType, States, Doubted
  <1> DEFINE r == [rows[k] EXCEPT !.state = st, !.buffered = FALSE]
  <1>3. r \in Row /\ r.seq = rows[k].seq /\ r.state = st /\ r.buffered = FALSE
    BY <1>2 DEF Row
  <1>4. rows' = [rows EXCEPT ![k] = r]
    BY <1>1, <1>2
  <1> HIDE DEF r
  <1>5. RowsStay /\ rows'[k] = r /\ \A j \in Keys : j # k => rows'[j] = rows[j]
    BY <1>1, <1>3, <1>4, RowsStayOnMark
  <1>6. rows'[k].state \in Doubted
    BY <1>3, <1>5
  <1>7. /\ QueueStays /\ DoubtStays
        /\ \A j \in Keys : rows'[j].state \in {"queued", "dispatching"} =>
              rows[j].state \in {"queued", "dispatching"} /\ j # k
    BY <1>5, <1>6, OneRowMoves
  <1> QED
    BY <1>1, <1>3, <1>5, <1>7 DEF OrderStays, TimelineStays

LEMMA SettleStep ==
    ASSUME IInv, NEW k \in Keys, Retained(k), NEW st \in Doubted, Settle(k, st),
           UNCHANGED <<wire, recalled>>,
           BridgeType', TaskType', HistoryType',
           TaskInv', NoClaim,
           asked' \subseteq asked, over \subseteq over', givenUp \subseteq givenUp', mixed => mixed',
           active = k => mixed' \/ \A n \in Range(wire) : n \in over' \cup givenUp',
           pc' = "call" /\ ~mixed' => pc = "call" /\ ~mixed /\ chosen' = chosen
                                      /\ k # chosen.key
    PROVE  IInv'
  <1>1. RowsType /\ HistoryType /\ LedgerInv /\ ReconcileInv /\ UnfinishedIsPinned /\ TaskInv /\ CallInv
    BY Disassemble
  <1>2. /\ RowsStay /\ OrderStays /\ TimelineStays /\ QueueStays /\ DoubtStays
        /\ rows'[k].state = st /\ rows'[k].buffered = FALSE
        /\ \A j \in Keys : j # k => rows'[j] = rows[j]
        /\ active' = IF active = k THEN None ELSE active
    BY <1>1, SettleFacts
  <1>3. active' \in Keys \cup {None}
    BY <1>1, <1>2 DEF RowsType
  <1>4. \A j \in Keys : rows'[j].buffered => rows'[j].seq \in over'
    BY <1>1, <1>2 DEF ReconcileInv, RowsStay
  <1>5. CallStays
    <2> SUFFICES ASSUME pc' = "call", ~mixed'
                 PROVE  rows'[chosen.key] = rows[chosen.key] /\ active' = active
      BY DEF CallStays
    <2>1. chosen.key \in Keys /\ active = chosen.key
      BY <1>1 DEF TaskInv, CallInv
    <2> QED
      BY <1>2, <2>1
  <1>6. UnfinishedIsPinned'
    <2>1. CASE active = k
      BY <2>1 DEF UnfinishedIsPinned
    <2>2. CASE active # k
      <3>1. BlockStays
        BY <1>2, <2>2 DEF BlockStays, RowsStay
      <3> QED
        BY <1>1, <3>1, PinKept
    <2> QED
      BY <2>1, <2>2
  <1> QED
    BY <1>2, <1>3, <1>4, <1>5, <1>6, RowsMove

\* The row of the call that is out: it is there, and what is unfinished is it.
LEMMA CallRow ==
    ASSUME IInv, pc = "call", StillActive
    PROVE  /\ chosen.key \in Keys /\ chosen.seq \in 1 .. MaxOps
           /\ rows[chosen.key].seq = chosen.seq /\ active = chosen.key
           /\ Retained(chosen.key)
           /\ ~mixed => \A n \in Range(wire) : n \in over \cup givenUp \/ n = chosen.seq
  <1>1. RowsType /\ LedgerInv /\ UnfinishedIsPinned
    BY Disassemble
  <1>2. chosen.key \in Keys /\ rows[chosen.key].seq = chosen.seq /\ chosen.seq # 0 /\ active = chosen.key
    BY DEF StillActive, IsRow
  <1>3. Retained(chosen.key) /\ chosen.seq \in 1 .. MaxOps
    BY <1>1, <1>2, RetainedBySeq
  <1> QED
    BY <1>1, <1>2, <1>3 DEF UnfinishedIsPinned

-----------------------------------------------------------------------------
(* The actions that change the ledger.                                     *)

LEMMA ResubmitStep ==
    ASSUME IInv, NEW k \in Requests, Resubmit(k) PROVE IInv'
  <1>0. /\ UNCHANGED <<rows, timeline, active, ordinal, snap, listening, wake, pc, chosen, owed, asked>>
        /\ UNCHANGED <<wire, over, recalled, givenUp, mixed>>
        /\ Retained(k) /\ order' = Touched(k)
    BY DEF Resubmit, bridge, task, history
  <1>1. /\ RowsType /\ BridgeType /\ TaskType /\ HistoryType /\ ReconcileInv /\ UnfinishedIsPinned
        /\ TaskInv
    BY Disassemble
  <1>2. BridgeType' /\ TaskType' /\ HistoryType' /\ TaskInv'
    BY <1>0, <1>1 DEF BridgeType, TaskType, HistoryType, TaskInv
  <1>3. RowsStay /\ active' \in Keys \cup {None}
    BY <1>0, <1>1 DEF RowsStay, RowsType
  <1>4. OrderStays
    BY <1>0, Constants DEF OrderStays
  <1>5. TimelineStays /\ QueueStays /\ DoubtStays /\ NoClaim /\ CallStays
    BY <1>0 DEF TimelineStays, QueueStays, DoubtStays, NoClaim, CallStays
  <1>6. UnfinishedIsPinned'
    BY <1>0, <1>1 DEF UnfinishedIsPinned
  <1>7. \A j \in Keys : rows'[j].buffered => rows'[j].seq \in over'
    BY <1>0, <1>1 DEF ReconcileInv
  <1> QED
    BY <1>0, <1>2, <1>3, <1>4, <1>5, <1>6, <1>7, RowsMove

LEMMA ResolveStep ==
    ASSUME IInv, NEW k \in Keys, NEW st \in {"delivered", "rejected"}, Resolve(k, st) PROVE IInv'
  <1>0. /\ UNCHANGED <<snap, listening, pc, chosen, owed, asked, wire, over, recalled, mixed>>
        /\ Retained(k) /\ rows[k].state = "unknown" /\ Settle(k, st)
        /\ givenUp' = givenUp \cup {rows[k].seq}
    BY DEF Resolve, bridge, task
  <1>1. /\ RowsType /\ BridgeType /\ TaskType /\ HistoryType /\ UnfinishedIsPinned /\ LedgerInv
        /\ TaskInv /\ CallInv
    BY Disassemble
  <1>2. rows[k].seq \in 1..MaxOps /\ st \in Doubted
    BY <1>0, <1>1, RetainedBySeq DEF Doubted
  <1>3. wake' = TRUE /\ (active = None => active' = None) /\ ordinal' = ordinal
    BY <1>0, Constants DEF Settle, ReleaseHead
  <1>4. BridgeType' /\ TaskType' /\ HistoryType' /\ TaskInv' /\ NoClaim
    BY <1>0, <1>1, <1>2, <1>3
       DEF BridgeType, TaskType, HistoryType, TaskInv, NoClaim
  <1>5. active = k => mixed' \/ \A n \in Range(wire) : n \in over' \cup givenUp'
    BY <1>0, <1>1 DEF UnfinishedIsPinned
  <1>6. pc' = "call" /\ ~mixed' => pc = "call" /\ ~mixed /\ chosen' = chosen /\ k # chosen.key
    BY <1>0, <1>1 DEF CallInv
  <1> QED
    BY <1>0, <1>2, <1>4, <1>5, <1>6, SettleStep

LEMMA ApplyReconcileStep ==
    ASSUME IInv, NEW k \in Requests, NEW n \in 1..MaxOps,
           NEW answer \in {"accepted", "rejected", "unresolved"}, ApplyReconcile(k, n, answer)
    PROVE IInv'
  <1>0. /\ UNCHANGED <<snap, listening, pc, chosen, owed, wire, over, recalled, givenUp>>
        /\ <<k, n>> \in asked /\ asked' = asked \ {<<k, n>>}
        /\ mixed' = (mixed \/ (Retained(k) /\ rows[k].seq # n))
        /\ answer = "rejected" => n \notin Range(wire)
    BY DEF ApplyReconcile, bridge, task
  <1>1. /\ RowsType /\ BridgeType /\ TaskType /\ HistoryType /\ UnfinishedIsPinned /\ LedgerInv
        /\ TaskInv /\ CallInv /\ ReconcileInv
    BY Disassemble
  <1>2. k \in Keys
    BY Constants
  <1>3. mixed' \in BOOLEAN /\ (mixed => mixed') /\ (~mixed' => ~mixed /\ (Retained(k) => rows[k].seq = n))
    BY <1>0, <1>1 DEF HistoryType
  <1>4. TaskType' /\ HistoryType' /\ NoClaim
    BY <1>0, <1>1, <1>3 DEF TaskType, HistoryType, NoClaim
  <1>5. Retained(k) /\ ~mixed' /\ pc = "call" => k # chosen.key
    <2> SUFFICES ASSUME Retained(k), ~mixed', pc = "call", k = chosen.key PROVE FALSE
      OBVIOUS
    <2>1. rows[k].state = "dispatching"
      BY <1>1, <1>3 DEF CallInv
    <2>2. rows[k].seq = n
      BY <1>3
    <2>3. rows[<<k, n>>[1]].seq = <<k, n>>[2] => rows[<<k, n>>[1]].state \in Doubted
      BY <1>0, <1>1 DEF ReconcileInv
    <2> QED
      BY <2>1, <2>2, <2>3 DEF Doubted
  <1>6. CASE (~Retained(k) \/ answer = "unresolved")
    <2>1. UNCHANGED <<rows, order, timeline, active, ordinal>> /\ (wake' = TRUE \/ wake' = wake)
      <3>1. CASE ~Retained(k)
        BY <3>1 DEF ApplyReconcile, ledger
      <3>2. CASE Retained(k) /\ answer = "unresolved"
        BY <3>2 DEF ApplyReconcile, ledger
      <3> QED
        BY <1>6, <3>1, <3>2
    <2>2. BridgeType' /\ TaskInv'
      BY <1>0, <1>1, <2>1 DEF BridgeType, TaskInv
    <2>3. CallStays
      BY <1>0, <1>3, <2>1 DEF CallStays
    <2>4. ReconcileInv'
      BY <1>0, <1>1, <2>1 DEF ReconcileInv
    <2> QED
      BY <1>0, <1>3, <1>4, <2>1, <2>2, <2>3, <2>4, LedgerIdle DEF NoClaim, ledger
  <1>7. CASE Retained(k) /\ answer = "accepted"
    <2>1. rows' = Marked(k, "delivered") /\ wake' = TRUE /\ UNCHANGED <<order, timeline, active, ordinal>>
      BY <1>7 DEF ApplyReconcile
    <2>2. BridgeType' /\ TaskInv' /\ active' \in Keys \cup {None}
      BY <1>0, <1>1, <2>1 DEF BridgeType, TaskInv, RowsType
    <2> QED
      BY <1>0, <1>2, <1>3, <1>4, <1>5, <1>7, <2>1, <2>2, MarkStep DEF Doubted
  <1>8. CASE Retained(k) /\ answer = "rejected"
    <2>1. Settle(k, "rejected")
      BY <1>8 DEF ApplyReconcile
    <2>2. wake' = TRUE /\ (active = None => active' = None) /\ ordinal' = ordinal
      BY <1>2, <2>1, Constants DEF Settle, ReleaseHead
    <2>3. BridgeType' /\ TaskInv'
      BY <1>0, <1>1, <2>2 DEF BridgeType, TaskInv
    <2>4. ASSUME active = k, ~mixed', NEW w \in Range(wire) PROVE w \in over' \cup givenUp'
      <3>1. rows[k].seq = n /\ ~mixed
        BY <1>3, <1>8, <2>4
      <3>2. n \notin Range(wire)
        BY <1>0, <1>8
      <3> QED
        BY <1>0, <1>1, <2>4, <3>1, <3>2 DEF UnfinishedIsPinned
    <2> QED
      BY <1>0, <1>2, <1>3, <1>4, <1>5, <1>8, <2>1, <2>3, <2>4, SettleStep DEF Doubted
  <1> QED
    BY <1>6, <1>7, <1>8

LEMMA WithdrawStep ==
    ASSUME IInv, NEW k \in Requests, Withdraw(k) PROVE IInv'
  <1>0. /\ UNCHANGED <<order, active, ordinal, snap, listening, pc, chosen, owed, asked, wire, over, givenUp, mixed>>
        /\ Retained(k) /\ rows[k].state = "queued" /\ rows' = Marked(k, "withdrawn")
        /\ timeline' = RemoveFirst(timeline, k)
        /\ recalled' = recalled \cup {rows[k].seq} /\ wake' = TRUE
    BY DEF Withdraw, Withdrawable, bridge, task
  <1>1. /\ RowsType /\ BridgeType /\ TaskType /\ HistoryType /\ LedgerInv /\ TimelineInv /\ TaskInv
        /\ SendInv /\ RecallInv /\ ReconcileInv /\ CallInv /\ WireInOrder /\ RecalledNeverSent
        /\ UnfinishedIsPinned
    BY Disassemble
  <1>2. k \in Keys
    BY Constants
  <1>3. rows[k].seq \in 1..MaxOps /\ rows[k].seq \in 1..ordinal
    BY <1>0, <1>1, <1>2, RetainedBySeq
  <1>4. /\ RowsStay /\ rows'[k].state = "withdrawn" /\ rows'[k].buffered = rows[k].buffered
        /\ \A j \in Keys : j # k => rows'[j] = rows[j]
    BY <1>0, <1>1, <1>2, MarkedFacts DEF States
  <1>5. OrderStays /\ QueueStays /\ NoClaim
    BY <1>0, <1>4 DEF OrderStays, QueueStays, NoClaim, RowsStay
  <1>6. TimelineStays
    BY <1>0, <1>2, <1>4 DEF TimelineStays
  <1>7. DoubtStays
    BY <1>0, <1>4 DEF DoubtStays, RowsStay, Doubted
  <1>8. LedgerInv' /\ order' \in Seq(Keys) /\ Len(order') <= LedgerLimit
    BY <1>1, <1>4, <1>5, LedgerKept
  <1>9. TimelineInv' /\ timeline' \in Seq(Keys)
    BY <1>1, <1>4, <1>6, TimelineKept
  <1>10. RowsType'
    BY <1>0, <1>1, <1>4, <1>8, <1>9 DEF RowsType, RowsStay
  <1>11. BridgeType' /\ TaskType' /\ HistoryType' /\ TaskInv'
    BY <1>0, <1>1, <1>3 DEF BridgeType, TaskType, HistoryType, TaskInv
  <1>12. SendInv'
    BY <1>0, <1>1, <1>5, SendKept
  <1>13. ReconcileInv'
    <2>1. \A j \in Keys : rows'[j].buffered => rows'[j].seq \in over'
      BY <1>0, <1>1, <1>4 DEF ReconcileInv, RowsStay
    <2> QED
      BY <1>0, <1>1, <1>7, <2>1, ReconcileKept
  <1>14. CallInv'
    <2> SUFFICES ASSUME pc = "call", ~mixed
                 PROVE  rows'[chosen.key] = rows[chosen.key]
      BY <1>0, <1>1 DEF CallInv
    <2>1. chosen.key \in Keys /\ rows[chosen.key].state = "dispatching"
      BY <1>1 DEF TaskInv, CallInv
    <2> QED
      BY <1>0, <1>4, <2>1
  <1>15. UnfinishedIsPinned'
    <2>1. BlockStays
      BY <1>0, <1>4 DEF BlockStays, RowsStay
    <2> QED
      BY <1>1, <2>1, PinKept
  <1>16. RecallInv'
    <2>1. \A m \in recalled' : m <= ordinal'
      BY <1>0, <1>1, <1>3 DEF RecallInv
    <2>2. ASSUME NEW j \in Keys, rows'[j].state = "queued" PROVE rows'[j].seq \notin recalled'
      <3>1. j # k /\ rows'[j] = rows[j]
        BY <1>4, <2>2
      <3>2. rows[j].seq \notin recalled
        BY <1>1, <2>2, <3>1 DEF RecallInv
      <3>3. rows[j].seq # rows[k].seq
        BY <1>1, <1>2, <1>3, <3>1 DEF LedgerInv
      <3> QED
        BY <1>0, <3>1, <3>2, <3>3
    <2>3. ASSUME pc = "call" PROVE chosen.seq \notin recalled'
      <3>1. chosen.seq < rows[k].seq
        BY <1>0, <1>1, <1>2, <2>3 DEF SendInv
      <3>2. chosen.seq \notin recalled
        BY <1>1, <2>3 DEF RecallInv
      <3>3. chosen.seq \in Nat
        BY <1>1 DEF TaskType
      <3> QED
        BY <1>0, <1>3, <3>1, <3>2, <3>3
    <2> QED
      BY <1>0, <2>1, <2>2, <2>3 DEF RecallInv
  <1>17. WireInOrder' /\ RecalledNeverSent'
    <2>1. rows[k].seq \notin Range(wire)
      <3>1. \A i \in DOMAIN wire : wire[i] < rows[k].seq /\ wire[i] \in Nat
        BY <1>0, <1>1, <1>2, WireSeq DEF SendInv
      <3> QED
        BY <1>1, <1>3, <3>1, WireSeq
    <2> QED
      BY <1>0, <1>1, <2>1 DEF WireInOrder, RecalledNeverSent
  <1> QED
    BY <1>8, <1>9, <1>10, <1>11, <1>12, <1>13, <1>14, <1>15, <1>16, <1>17, Assemble

-----------------------------------------------------------------------------
(* The dispatcher's claim, the adapter's call and the vendor's completion. *)

LEMMA PreflightClaimsSendStep ==
    ASSUME IInv, PreflightClaimsSend PROVE IInv'
  <1>0. /\ pc = "preflight" /\ pc' = "wait" /\ active' = chosen.key
        /\ rows' = IF IsRow(chosen) THEN Marked(chosen.key, "unknown") ELSE rows
        /\ snap' = [control |-> "disconnected", idle |-> FALSE]
        /\ UNCHANGED <<order, timeline, ordinal, listening, wake, chosen, owed, asked>>
        /\ UNCHANGED <<wire, over, recalled, givenUp, mixed>>
    BY DEF PreflightClaimsSend, history
  <1>1. /\ RowsType /\ BridgeType /\ TaskType /\ HistoryType /\ TaskInv /\ LedgerInv /\ ReconcileInv
        /\ UnfinishedIsPinned
    BY Disassemble
  <1>2. chosen.key \in Keys /\ active = None
    BY <1>0, <1>1 DEF TaskInv
  <1>3. BridgeType' /\ TaskType' /\ HistoryType' /\ TaskInv' /\ NoClaim
    BY <1>0, <1>1 DEF BridgeType, TaskType, HistoryType, TaskInv, NoClaim, Controls
  <1>4. mixed \/ \A n \in Range(wire) : n \in over' \cup givenUp'
    BY <1>0, <1>1, <1>2 DEF UnfinishedIsPinned
  <1>5. UnfinishedIsPinned'
    BY <1>0, <1>4 DEF UnfinishedIsPinned
  <1>6. /\ RowsStay /\ QueueStays /\ DoubtStays
        /\ \A j \in Keys : rows'[j].state \in {"queued", "dispatching"} =>
              rows[j].state \in {"queued", "dispatching"}
        /\ \A j \in Keys : rows'[j].buffered = rows[j].buffered
    <2>1. CASE IsRow(chosen)
      <3>1. Retained(chosen.key)
        BY <1>1, <1>2, <2>1, RetainedBySeq DEF IsRow
      <3>2. /\ RowsStay /\ rows'[chosen.key].state = "unknown"
            /\ rows'[chosen.key].buffered = rows[chosen.key].buffered
            /\ \A j \in Keys : j # chosen.key => rows'[j] = rows[j]
        BY <1>0, <1>1, <1>2, <2>1, <3>1, MarkedFacts DEF States
      <3>3. /\ QueueStays /\ DoubtStays
            /\ \A j \in Keys : rows'[j].state \in {"queued", "dispatching"} =>
                  rows[j].state \in {"queued", "dispatching"}
        BY <1>2, <3>2, OneRowMoves DEF Doubted
      <3> QED
        BY <3>2, <3>3
    <2>2. CASE ~IsRow(chosen)
      BY <1>0, <1>1, <2>2 DEF RowsStay, QueueStays, DoubtStays, RowsType
    <2> QED
      BY <2>1, <2>2
  <1>7. OrderStays /\ TimelineStays /\ CallStays /\ active' \in Keys \cup {None}
    BY <1>0, <1>2, <1>6 DEF OrderStays, TimelineStays, CallStays
  <1>8. \A j \in Keys : rows'[j].buffered => rows'[j].seq \in over'
    BY <1>0, <1>1, <1>6 DEF ReconcileInv, RowsStay
  <1> QED
    BY <1>0, <1>3, <1>5, <1>6, <1>7, <1>8, RowsMove

\* The head that is claimed is the lowest of what waits.
LEMMA HeadIsLowest ==
    ASSUME RowsType, TimelineInv, timeline # <<>>
    PROVE  /\ Head(timeline) \in Keys
           /\ \A k \in Keys : rows[k].state = "queued" /\ k # Head(timeline) =>
                 rows[Head(timeline)].seq < rows[k].seq
  <1>1. timeline \in Seq(Keys)
    BY DEF RowsType
  <1>2. Head(timeline) \in Keys /\ Len(timeline) \in Nat \ {0} /\ DOMAIN timeline = 1 .. Len(timeline)
    BY <1>1, HeadTailProperties, EmptySeq, LenProperties
  <1>3. 1 \in DOMAIN timeline /\ Head(timeline) = timeline[1]
    BY <1>1, <1>2
  <1> SUFFICES ASSUME NEW k \in Keys, rows[k].state = "queued", k # timeline[1]
               PROVE  rows[timeline[1]].seq < rows[k].seq
    BY <1>2, <1>3
  <1>4. k \in Range(timeline)
    BY DEF TimelineInv
  <1>5. PICK i \in DOMAIN timeline : timeline[i] = k
    BY <1>4 DEF Range
  <1>6. 1 < i
    BY <1>2, <1>5
  <1> QED
    BY <1>3, <1>5, <1>6 DEF TimelineInv, Sorted

LEMMA PreflightPassesStep ==
    ASSUME IInv, PreflightPasses PROVE IInv'
  <1>0. /\ pc = "preflight"
        /\ UNCHANGED <<order, timeline, ordinal, snap, listening, wake, chosen, owed, asked>>
        /\ UNCHANGED <<wire, over, recalled, givenUp, mixed>>
    BY DEF PreflightPasses, bridge, history
  <1>1. /\ RowsType /\ BridgeType /\ TaskType /\ HistoryType /\ LedgerInv /\ TimelineInv /\ TaskInv
        /\ SendInv /\ RecallInv /\ ReconcileInv /\ CallInv /\ WireInOrder /\ RecalledNeverSent
        /\ UnfinishedIsPinned
    BY Disassemble
  <1>2. CASE ~Claimable(chosen)
    <2>1. pc' = "look" /\ UNCHANGED <<rows, active>>
      BY <1>2 DEF PreflightPasses
    <2>2. TaskType' /\ TaskInv' /\ NoClaim /\ wake' \in BOOLEAN
      BY <1>0, <1>1, <2>1 DEF TaskType, TaskInv, NoClaim, BridgeType
    <2>3. UNCHANGED <<ledger, bridge, asked, history>>
      BY <1>0, <2>1 DEF ledger, bridge, history
    <2> QED
      BY <2>1, <2>2, <2>3, TaskMoves
  <1>3. CASE Claimable(chosen)
    <2> DEFINE c == chosen.key
    <2>1. pc' = "call" /\ rows' = Marked(c, "dispatching") /\ active' = c
      BY <1>3 DEF PreflightPasses
    <2>2. /\ timeline # <<>> /\ Head(timeline) = c /\ active = None /\ c \in Keys
          /\ rows[c].seq = chosen.seq /\ chosen.seq # 0 /\ rows[c].state = "queued"
      BY <1>3 DEF Claimable, IsRow
    <2>3. Retained(c)
      BY <1>1, <2>2, RetainedBySeq
    <2>4. /\ RowsStay /\ rows'[c].state = "dispatching" /\ rows'[c].buffered = rows[c].buffered
          /\ \A j \in Keys : j # c => rows'[j] = rows[j]
      BY <1>0, <1>1, <2>1, <2>2, <2>3, MarkedFacts DEF States
    <2>5. OrderStays /\ TimelineStays
      BY <1>0, <2>2, <2>4 DEF OrderStays, TimelineStays
    <2>6. LedgerInv' /\ order' \in Seq(Keys) /\ Len(order') <= LedgerLimit
      BY <1>1, <2>4, <2>5, LedgerKept
    <2>7. TimelineInv' /\ timeline' \in Seq(Keys)
      BY <1>1, <2>4, <2>5, TimelineKept
    <2>8. RowsType'
      BY <1>0, <1>1, <2>1, <2>2, <2>4, <2>6, <2>7 DEF RowsType, RowsStay
    <2>9. BridgeType' /\ TaskType' /\ HistoryType' /\ TaskInv'
      BY <1>0, <1>1, <2>1 DEF BridgeType, TaskType, HistoryType, TaskInv
    <2>10. SendInv'
      <3>1. \A i \in DOMAIN wire : wire[i] < chosen.seq /\ wire[i] \in Nat
        BY <1>1, <2>2, WireSeq DEF SendInv
      <3>2. \A i \in DOMAIN wire : wire[i] <= chosen.seq
        <4>1. chosen.seq \in Nat
          BY <1>1 DEF TaskType
        <4> QED
          BY <3>1, <4>1
      <3>3. \A j \in Keys : rows'[j].state = "queued" => rows[j].state = "queued" /\ j # c /\ rows'[j] = rows[j]
        BY <2>4
      <3>4. \A j \in Keys : rows'[j].state = "queued" => chosen.seq < rows'[j].seq
        BY <1>1, <2>2, <3>3, HeadIsLowest
      <3> QED
        BY <1>0, <1>1, <3>2, <3>3, <3>4 DEF SendInv
    <2>11. RecallInv'
      BY <1>0, <1>1, <2>2, <2>4 DEF RecallInv
    <2>12. ReconcileInv'
      <3>1. DoubtStays
        BY <1>0, <2>2, <2>4 DEF DoubtStays, RowsStay, Doubted
      <3>2. \A j \in Keys : rows'[j].buffered => rows'[j].seq \in over'
        BY <1>0, <1>1, <2>4 DEF ReconcileInv, RowsStay
      <3> QED
        BY <1>0, <1>1, <3>1, <3>2, ReconcileKept
    <2>13. CallInv'
      BY <1>0, <2>1, <2>2, <2>4 DEF CallInv, RowsStay
    <2>14. UnfinishedIsPinned'
      BY <1>0, <1>1, <2>2 DEF UnfinishedIsPinned
    <2>15. WireInOrder' /\ RecalledNeverSent'
      BY <1>0, <1>1, WireKept
    <2> QED
      BY <2>6, <2>7, <2>8, <2>9, <2>10, <2>11, <2>12, <2>13, <2>14, <2>15, Assemble
  <1> QED
    BY <1>2, <1>3

LEMMA AdapterWritesStep ==
    ASSUME IInv, AdapterWrites PROVE IInv'
  <1>0. /\ pc = "call" /\ chosen.seq \notin Range(wire) /\ wire' = Append(wire, chosen.seq)
        /\ UNCHANGED <<rows, order, timeline, active, ordinal, snap, listening, wake, pc, chosen, owed, asked>>
        /\ UNCHANGED <<over, recalled, givenUp, mixed>>
    BY DEF AdapterWrites, Sent, ledger, bridge, task
  <1>1. /\ RowsType /\ BridgeType /\ TaskType /\ HistoryType /\ LedgerInv /\ TimelineInv /\ TaskInv
        /\ SendInv /\ RecallInv /\ ReconcileInv /\ CallInv /\ WireInOrder /\ RecalledNeverSent
        /\ UnfinishedIsPinned
    BY Disassemble
  <1>2. chosen.seq \in 1..MaxOps /\ chosen.seq \in 1..ordinal
    <2>1. ordinal \in Nat /\ ordinal <= MaxOps /\ chosen.seq \in 1..ordinal
      BY <1>0, <1>1, Constants DEF RowsType, TaskInv
    <2> QED
      BY <2>1, Constants
  <1>3. wire \in Seq(1..MaxOps) /\ Len(wire) \in Nat /\ DOMAIN wire = 1 .. Len(wire)
    BY <1>1, LenProperties DEF HistoryType
  <1>4. /\ wire' \in Seq(1..MaxOps) /\ Len(wire') = Len(wire) + 1
        /\ Range(wire') = Range(wire) \cup {chosen.seq}
        /\ \A i \in 1 .. Len(wire) : wire'[i] = wire[i]
        /\ wire'[Len(wire) + 1] = chosen.seq
    <2>1. /\ Append(wire, chosen.seq) \in Seq(1..MaxOps)
          /\ Len(Append(wire, chosen.seq)) = Len(wire) + 1
          /\ Range(Append(wire, chosen.seq)) = Range(wire) \cup {chosen.seq}
      <3> DEFINE S == 1..MaxOps
                 n == chosen.seq
      <3>1. wire \in Seq(S) /\ n \in S
        BY <1>2, <1>3
      <3> SUFFICES /\ Append(wire, n) \in Seq(S) /\ Len(Append(wire, n)) = Len(wire) + 1
                   /\ Range(Append(wire, n)) = Range(wire) \cup {n}
        OBVIOUS
      <3> HIDE DEF S, n
      <3> QED
        BY <3>1, AppendFacts
    <2>2. /\ \A i \in 1 .. Len(wire) : Append(wire, chosen.seq)[i] = wire[i]
          /\ Append(wire, chosen.seq)[Len(wire) + 1] = chosen.seq
      BY <1>2, <1>3, AppendProperties
    <2> QED
      BY <1>0, <2>1, <2>2
  <1>5. DOMAIN wire' = 1 .. (Len(wire) + 1)
    BY <1>4, LenProperties
  <1>6. \A i \in DOMAIN wire : wire[i] < chosen.seq
    <2> TAKE i \in DOMAIN wire
    <2>1. wire[i] <= chosen.seq /\ wire[i] \in Nat /\ wire[i] \in Range(wire)
      BY <1>0, <1>1, WireSeq DEF SendInv
    <2> QED
      BY <1>0, <1>2, <2>1
  <1>7. \A i \in DOMAIN wire' : wire'[i] = chosen.seq \/ (i \in DOMAIN wire /\ wire'[i] = wire[i])
    <2> TAKE i \in DOMAIN wire'
    <2>1. i \in 1 .. Len(wire) \/ i = Len(wire) + 1
      BY <1>3, <1>5
    <2> QED
      BY <1>3, <1>4, <2>1
  <1>8. HistoryType'
    BY <1>0, <1>1, <1>4 DEF HistoryType
  <1>9. RowsType' /\ BridgeType' /\ TaskType' /\ TaskInv'
    BY <1>0, <1>1 DEF RowsType, BridgeType, TaskType, TaskInv
  <1>10. LedgerInv'
    BY <1>0, <1>1 DEF LedgerInv, Retained
  <1>11. TimelineInv'
    BY <1>0, <1>1 DEF TimelineInv, Retained
  <1>12. RecallInv' /\ ReconcileInv' /\ CallInv'
    BY <1>0, <1>1 DEF RecallInv, ReconcileInv, CallInv
  <1>13. SendInv'
    <2>1. \A i \in DOMAIN wire' : wire'[i] <= ordinal'
      <3> TAKE i \in DOMAIN wire'
      <3>1. i \in DOMAIN wire => wire[i] <= ordinal
        BY <1>1 DEF SendInv
      <3> QED
        BY <1>0, <1>2, <1>7, <3>1
    <2>2. \A i \in DOMAIN wire' : wire'[i] <= chosen.seq
      <3> TAKE i \in DOMAIN wire'
      <3>1. i \in DOMAIN wire => wire[i] <= chosen.seq
        BY <1>0, <1>1 DEF SendInv
      <3> QED
        BY <1>2, <1>7, <3>1
    <2>3. ASSUME NEW k \in Keys, rows[k].state = "queued", NEW i \in DOMAIN wire'
          PROVE  wire'[i] < rows[k].seq
      <3>1. chosen.seq < rows[k].seq
        BY <1>0, <1>1, <2>3 DEF SendInv
      <3>2. i \in DOMAIN wire => wire[i] < rows[k].seq
        BY <1>1, <2>3 DEF SendInv
      <3> QED
        BY <1>7, <3>1, <3>2
    <2> QED
      BY <1>0, <1>1, <2>1, <2>2, <2>3 DEF SendInv
  <1>14. WireInOrder'
    <2> SUFFICES ASSUME NEW i \in DOMAIN wire', NEW j \in DOMAIN wire', i < j
                 PROVE  wire'[i] < wire'[j]
      BY DEF WireInOrder
    <2>1. i \in DOMAIN wire /\ wire'[i] = wire[i]
      BY <1>3, <1>4, <1>5
    <2>2. CASE j \in DOMAIN wire
      <3>1. wire'[j] = wire[j]
        BY <1>3, <1>4, <2>2
      <3> QED
        BY <1>1, <2>1, <2>2, <3>1 DEF WireInOrder
    <2>3. CASE j \notin DOMAIN wire
      <3>1. wire'[j] = chosen.seq
        BY <1>7, <2>3
      <3> QED
        BY <1>6, <2>1, <3>1
    <2> QED
      BY <2>2, <2>3
  <1>15. RecalledNeverSent'
    <2>1. chosen.seq \notin recalled
      BY <1>0, <1>1 DEF RecallInv
    <2> QED
      BY <1>0, <1>1, <1>4, <2>1 DEF RecalledNeverSent
  <1>16. UnfinishedIsPinned'
    <2> SUFFICES ASSUME ~mixed, NEW n \in Range(wire') \ (over \cup givenUp)
                 PROVE  active # None /\ rows[active].seq = n
      BY <1>0 DEF UnfinishedIsPinned
    <2>1. CASE n \in Range(wire)
      BY <1>1, <2>1 DEF UnfinishedIsPinned
    <2>2. CASE n = chosen.seq
      <3>1. chosen.key \in Keys /\ active = chosen.key /\ rows[active].seq = n
        BY <1>0, <1>1, <2>2 DEF CallInv, TaskInv
      <3> QED
        BY <3>1, Constants
    <2> QED
      BY <1>4, <2>1, <2>2
  <1> QED
    BY <1>8, <1>9, <1>10, <1>11, <1>12, <1>13, <1>14, <1>15, <1>16, Assemble

LEMMA CallBusyStep ==
    ASSUME IInv, CallBusy PROVE IInv'
  <1>0. /\ pc = "call" /\ chosen.seq \notin Range(wire) /\ owed' = TRUE
        /\ UNCHANGED <<order, ordinal, snap, listening, wake, chosen, asked>>
        /\ UNCHANGED <<wire, over, recalled, givenUp, mixed>>
    BY DEF CallBusy, Sent, bridge, history
  <1>1. /\ RowsType /\ BridgeType /\ TaskType /\ HistoryType /\ LedgerInv /\ TimelineInv /\ TaskInv
        /\ SendInv /\ RecallInv /\ ReconcileInv /\ CallInv /\ WireInOrder /\ RecalledNeverSent
        /\ UnfinishedIsPinned
    BY Disassemble
  <1> DEFINE c == chosen.key
  <1>2. CASE ~(StillActive /\ rows[c].state = "dispatching")
    <2>1. pc' = "dead" /\ UNCHANGED <<rows, timeline, active>>
      BY <1>2 DEF CallBusy
    <2>2. TaskType' /\ TaskInv' /\ NoClaim /\ wake' \in BOOLEAN
      BY <1>0, <1>1, <2>1 DEF TaskType, TaskInv, NoClaim, BridgeType
    <2>3. UNCHANGED <<ledger, bridge, asked, history>>
      BY <1>0, <2>1 DEF ledger, bridge, history
    <2> QED
      BY <2>2, <2>3, TaskMoves
  <1>3. CASE StillActive /\ rows[c].state = "dispatching"
    <2>1. pc' = "wait" /\ rows' = Marked(c, "queued") /\ active' = None /\ timeline' = timeline
      BY <1>3 DEF CallBusy, Requeued
    <2>2. /\ c \in Keys /\ rows[c].seq = chosen.seq /\ active = c /\ Retained(c)
          /\ ~mixed => \A n \in Range(wire) : n \in over \cup givenUp \/ n = chosen.seq
      BY <1>0, <1>3, CallRow
    <2>4. /\ RowsStay /\ rows'[c].state = "queued" /\ rows'[c].buffered = rows[c].buffered
          /\ \A j \in Keys : j # c => rows'[j] = rows[j]
      BY <1>0, <1>1, <2>1, <2>2, MarkedFacts DEF States
    <2>5. OrderStays /\ TimelineStays
      BY <1>0, <1>3, <2>1, <2>4 DEF OrderStays, TimelineStays
    <2>6. LedgerInv' /\ order' \in Seq(Keys) /\ Len(order') <= LedgerLimit
      BY <1>1, <2>4, <2>5, LedgerKept
    <2>7. TimelineInv' /\ timeline' \in Seq(Keys)
      BY <1>1, <2>4, <2>5, TimelineKept
    <2>8. RowsType'
      BY <1>0, <1>1, <2>1, <2>4, <2>6, <2>7 DEF RowsType, RowsStay
    <2>9. BridgeType' /\ TaskType' /\ HistoryType' /\ TaskInv' /\ CallInv'
      BY <1>0, <1>1, <2>1 DEF BridgeType, TaskType, HistoryType, TaskInv, CallInv
    <2>10. SendInv'
      <3>1. \A i \in DOMAIN wire : wire[i] < chosen.seq
        <4> TAKE i \in DOMAIN wire
        <4>1. wire[i] <= chosen.seq /\ wire[i] \in Nat /\ wire[i] \in Range(wire)
          BY <1>0, <1>1, WireSeq DEF SendInv
        <4>2. chosen.seq \in Nat
          BY <1>1 DEF TaskType
        <4> QED
          BY <1>0, <4>1, <4>2
      <3>2. rows'[c].seq = chosen.seq
        BY <2>2, <2>4 DEF RowsStay
      <3> QED
        BY <1>0, <1>1, <2>1, <2>4, <3>1, <3>2 DEF SendInv
    <2>11. RecallInv'
      <3>1. rows'[c].seq = chosen.seq /\ chosen.seq \notin recalled
        BY <1>0, <1>1, <2>2, <2>4 DEF RowsStay, RecallInv
      <3> QED
        BY <1>0, <1>1, <2>1, <2>4, <3>1 DEF RecallInv
    <2>12. ReconcileInv'
      <3>1. DoubtStays
        BY <1>0, <1>3, <2>4 DEF DoubtStays, RowsStay, Doubted
      <3>2. \A j \in Keys : rows'[j].buffered => rows'[j].seq \in over'
        BY <1>0, <1>1, <2>4 DEF ReconcileInv, RowsStay
      <3> QED
        BY <1>0, <1>1, <3>1, <3>2, ReconcileKept
    <2>13. UnfinishedIsPinned'
      BY <1>0, <2>2 DEF UnfinishedIsPinned
    <2>14. WireInOrder' /\ RecalledNeverSent'
      BY <1>0, <1>1, WireKept
    <2> QED
      BY <2>6, <2>7, <2>8, <2>9, <2>10, <2>11, <2>12, <2>13, <2>14, Assemble
  <1> QED
    BY <1>2, <1>3

\* A result that settles the operation of the call.
LEMMA CallSettles ==
    ASSUME IInv, pc = "call", StillActive, NEW st \in Doubted, Settle(chosen.key, st), pc' = "look",
           UNCHANGED <<bridge, chosen, owed, asked, wire, recalled, givenUp, mixed>>,
           over \subseteq over', over' \subseteq 1..MaxOps,
           chosen.seq \in Range(wire) => chosen.seq \in over'
    PROVE  IInv'
  <1>0. UNCHANGED <<snap, listening>>
    BY DEF bridge
  <1>1. BridgeType /\ TaskType /\ HistoryType
    BY Disassemble
  <1>2. /\ chosen.key \in Keys /\ Retained(chosen.key) /\ active = chosen.key
        /\ ~mixed => \A n \in Range(wire) : n \in over \cup givenUp \/ n = chosen.seq
    BY CallRow
  <1>3. wake' = TRUE
    BY DEF Settle
  <1>4. BridgeType' /\ TaskType' /\ HistoryType' /\ TaskInv' /\ NoClaim
    BY <1>0, <1>1, <1>3 DEF BridgeType, TaskType, HistoryType, TaskInv, NoClaim
  <1>5. mixed' \/ \A n \in Range(wire) : n \in over' \cup givenUp'
    BY <1>2
  <1> QED
    BY <1>2, <1>4, <1>5, SettleStep

\* A result after which the operation of the call goes on blocking the timeline.
LEMMA CallMarks ==
    ASSUME IInv, pc = "call", StillActive, NEW st \in Doubted, rows' = Marked(chosen.key, st),
           pc' = "wait", UNCHANGED <<order, timeline, active, ordinal, wake, listening, chosen, owed, asked>>,
           snap' \in [control : Controls, idle : BOOLEAN],
           UNCHANGED <<wire, recalled, givenUp, mixed>>,
           over \subseteq over', over' \subseteq 1..MaxOps
    PROVE  IInv'
  <1>1. BridgeType /\ TaskType /\ HistoryType /\ RowsType
    BY Disassemble
  <1>2. chosen.key \in Keys /\ Retained(chosen.key)
    BY CallRow
  <1>3. BridgeType' /\ TaskType' /\ HistoryType' /\ TaskInv' /\ NoClaim
    BY <1>1 DEF BridgeType, TaskType, HistoryType, TaskInv, NoClaim
  <1>4. active' \in Keys \cup {None}
    BY <1>1 DEF RowsType
  <1> QED
    BY <1>2, <1>3, <1>4, MarkStep

LEMMA CallFailsStep ==
    ASSUME IInv, CallFails PROVE IInv'
  <1>0. /\ pc = "call" /\ pc' = "wait"
        /\ rows' = IF IsRow(chosen) THEN Marked(chosen.key, "unknown") ELSE rows
        /\ snap' = [control |-> "disconnected", idle |-> FALSE]
        /\ UNCHANGED <<active, order, timeline, ordinal, listening, wake, chosen, owed, asked>>
        /\ UNCHANGED <<wire, over, recalled, givenUp, mixed>>
    BY DEF CallFails, Block, history
  <1>1. BridgeType /\ TaskType /\ HistoryType /\ RowsType /\ LedgerInv /\ ReconcileInv
    BY Disassemble
  <1>2. BridgeType' /\ TaskType' /\ HistoryType' /\ TaskInv' /\ NoClaim
    BY <1>0, <1>1 DEF BridgeType, TaskType, HistoryType, TaskInv, NoClaim, Controls
  <1>3. active' \in Keys \cup {None}
    BY <1>0, <1>1 DEF RowsType
  <1>4. CASE IsRow(chosen)
    <2>1. chosen.key \in Keys /\ Retained(chosen.key)
      BY <1>1, <1>4, RetainedBySeq DEF IsRow
    <2>2. rows' = Marked(chosen.key, "unknown")
      BY <1>0, <1>4
    <2> QED
      BY <1>0, <1>2, <1>3, <2>1, <2>2, MarkStep DEF Doubted
  <1>5. CASE ~IsRow(chosen)
    <2>1. UNCHANGED <<ledger, wire, recalled, givenUp>>
      BY <1>0, <1>5 DEF ledger
    <2>2. ReconcileInv' /\ CallStays
      <3>1. rows' = rows
        BY <1>0, <1>5
      <3>2. ReconcileInv'
        BY <1>0, <1>1, <3>1, ReconcileIdle
      <3>3. CallStays
        BY <1>0 DEF CallStays
      <3> QED
        BY <3>2, <3>3
    <2> QED
      BY <1>0, <1>2, <2>1, <2>2, LedgerIdle
  <1> QED
    BY <1>4, <1>5

LEMMA CallUnknownStep ==
    ASSUME IInv, NEW forbidden \in BOOLEAN, CallUnknown(forbidden) PROVE IInv'
  <1>0. /\ pc = "call" /\ StillActive /\ chosen.seq \in Range(wire)
        /\ UNCHANGED <<bridge, snap, listening, chosen, owed, asked, wire, over, recalled, givenUp, mixed>>
    BY DEF CallUnknown, Sent, bridge, history
  <1>1. HistoryType /\ BridgeType /\ ReconcileInv
    BY Disassemble
  <1>2. over \subseteq over' /\ over' \subseteq 1..MaxOps /\ snap' \in [control : Controls, idle : BOOLEAN]
    BY <1>0, <1>1 DEF HistoryType, BridgeType
  <1>3. CASE rows[chosen.key].buffered /\ ~forbidden
    <2>1. Settle(chosen.key, "delivered") /\ pc' = "look"
      BY <1>3 DEF CallUnknown
    <2>2. chosen.seq \in over'
      <3>1. chosen.key \in Keys /\ rows[chosen.key].seq = chosen.seq
        BY <1>0, CallRow
      <3> QED
        BY <1>0, <1>1, <1>3, <3>1 DEF ReconcileInv
    <2> QED
      BY <1>0, <1>2, <2>1, <2>2, CallSettles DEF Doubted
  <1>4. CASE ~(rows[chosen.key].buffered /\ ~forbidden)
    <2>1. /\ rows' = Marked(chosen.key, "unknown") /\ pc' = "wait"
          /\ UNCHANGED <<order, timeline, active, ordinal, wake>>
      BY <1>4 DEF CallUnknown
    <2> QED
      BY <1>0, <1>2, <2>1, CallMarks DEF Doubted
  <1> QED
    BY <1>3, <1>4

LEMMA CallAcceptedStep ==
    ASSUME IInv, NEW stamped \in BOOLEAN, CallAccepted(stamped) PROVE IInv'
  <1>0. /\ pc = "call" /\ StillActive /\ chosen.seq \in Range(wire)
        /\ over' = IF stamped THEN over \cup {chosen.seq} ELSE over
        /\ UNCHANGED <<bridge, snap, listening, chosen, owed, asked, wire, recalled, givenUp, mixed>>
    BY DEF CallAccepted, Sent, bridge
  <1>1. HistoryType /\ BridgeType /\ ReconcileInv
    BY Disassemble
  <1>2. chosen.key \in Keys /\ rows[chosen.key].seq = chosen.seq /\ chosen.seq \in 1..MaxOps
    BY <1>0, CallRow
  <1>3. over \subseteq over' /\ over' \subseteq 1..MaxOps /\ snap' \in [control : Controls, idle : BOOLEAN]
    BY <1>0, <1>1, <1>2 DEF HistoryType, BridgeType
  <1>4. CASE TurnOver(chosen.key, stamped)
    <2>1. Settle(chosen.key, "delivered") /\ pc' = "look"
      BY <1>4 DEF CallAccepted
    <2>2. chosen.seq \in over'
      BY <1>0, <1>1, <1>2, <1>4 DEF ReconcileInv, TurnOver
    <2> QED
      BY <1>0, <1>3, <2>1, <2>2, CallSettles DEF Doubted
  <1>5. CASE ~TurnOver(chosen.key, stamped)
    <2>1. /\ rows' = Marked(chosen.key, "delivered") /\ pc' = "wait"
          /\ UNCHANGED <<order, timeline, active, ordinal, wake>>
      BY <1>5 DEF CallAccepted
    <2> QED
      BY <1>0, <1>3, <2>1, CallMarks DEF Doubted
  <1> QED
    BY <1>4, <1>5

LEMMA CallTerminalStep ==
    ASSUME IInv, NEW st \in {"delivered", "rejected", "unsupported"}, CallTerminal(st) PROVE IInv'
  <1>0. /\ pc = "call" /\ StillActive /\ Settle(chosen.key, st) /\ pc' = "look"
        /\ over' = IF chosen.seq \in Range(wire) THEN over \cup {chosen.seq} ELSE over
        /\ UNCHANGED <<bridge, chosen, owed, asked, wire, recalled, givenUp, mixed>>
    BY DEF CallTerminal, Sent
  <1>1. HistoryType
    BY Disassemble
  <1>2. chosen.seq \in 1..MaxOps
    BY <1>0, CallRow
  <1>3. over \subseteq over' /\ over' \subseteq 1..MaxOps /\ st \in Doubted
    BY <1>0, <1>1, <1>2 DEF HistoryType, Doubted
  <1> QED
    BY <1>0, <1>3, CallSettles

LEMMA CompletedStep ==
    ASSUME IInv, NEW n \in 1..MaxOps, Completed(n) PROVE IInv'
  <1>0. /\ over' = over \cup {n}
        /\ UNCHANGED <<pc, chosen, owed, asked, wire, recalled, givenUp, mixed>>
    BY DEF Completed, task
  <1>1. /\ RowsType /\ BridgeType /\ TaskType /\ HistoryType /\ LedgerInv /\ TaskInv /\ ReconcileInv
        /\ CallInv /\ UnfinishedIsPinned
    BY Disassemble
  <1>2. over \subseteq over' /\ over' \subseteq 1..MaxOps
    BY <1>0, <1>1 DEF HistoryType
  <1>3. TaskType' /\ HistoryType' /\ NoClaim
    BY <1>0, <1>1 DEF TaskType, HistoryType, NoClaim
  <1>r. Ready \in [control : Controls, idle : BOOLEAN]
    BY DEF Ready, Controls
  <1> DEFINE A == Completes(n) /\ rows[active].state = "dispatching" /\ ~rows[active].buffered
             B == Completes(n) /\ rows[active].state \in {"delivered", "unknown"}
  <1>4. Completes(n) => active \in Keys /\ Retained(active) /\ rows[active].seq = n /\ active # None
    BY <1>1 DEF Completes, RowsType
  <1>5. CASE A
    <2>1. /\ rows' = [rows EXCEPT ![active].buffered = TRUE] /\ snap' = Ready /\ wake' = TRUE
          /\ UNCHANGED <<order, timeline, active, ordinal, listening>>
      BY <1>5 DEF Completed
    <2>2. active \in Keys /\ Retained(active) /\ rows[active].seq = n /\ rows[active].state = "dispatching"
      BY <1>4, <1>5
    <2> DEFINE r == [rows[active] EXCEPT !.buffered = TRUE]
    <2>3. rows \in [Keys -> Row] /\ rows[active] \in Row
      BY <1>1, <2>2 DEF RowsType
    <2>4. r \in Row /\ r.seq = rows[active].seq /\ r.state = rows[active].state
      BY <2>3 DEF Row
    <2>5. rows' = [rows EXCEPT ![active] = r]
      BY <2>1, <2>3
    <2> HIDE DEF r
    <2>6. RowsStay /\ rows'[active] = r /\ \A j \in Keys : j # active => rows'[j] = rows[j]
      BY <1>1, <2>1, <2>2, <2>4, <2>5, RowsStayOnMark
    <2>7. \A j \in Keys : rows'[j].state = rows[j].state /\ rows'[j].seq = rows[j].seq
      BY <2>2, <2>4, <2>6
    <2>8. OrderStays /\ TimelineStays /\ QueueStays /\ DoubtStays
      BY <2>1, <2>7 DEF OrderStays, TimelineStays, QueueStays, DoubtStays
    <2>9. CallStays
      BY <1>0, <1>1, <2>1, <2>7 DEF CallStays, TaskInv
    <2>10. BridgeType' /\ TaskInv' /\ active' \in Keys \cup {None}
      BY <1>0, <1>1, <1>r, <2>1 DEF BridgeType, TaskInv, RowsType
    <2>11. \A j \in Keys : rows'[j].buffered => rows'[j].seq \in over'
      BY <1>0, <1>1, <2>2, <2>4, <2>6 DEF ReconcileInv
    <2>12. UnfinishedIsPinned'
      <3>1. BlockStays
        BY <1>0, <1>2, <2>1, <2>7 DEF BlockStays
      <3> QED
        BY <1>1, <3>1, PinKept
    <2> QED
      BY <1>0, <1>3, <2>6, <2>8, <2>9, <2>10, <2>11, <2>12, RowsMove
  <1>6. CASE B
    <2>1. Settle(active, "delivered") /\ snap' = Ready /\ listening' = listening
      BY <1>6 DEF Completed
    <2>2. active \in Keys /\ Retained(active) /\ rows[active].seq = n /\ rows[active].state # "dispatching"
      BY <1>4, <1>6
    <2>3. wake' = TRUE /\ active' = None /\ ordinal' = ordinal
      BY <2>1 DEF Settle, ReleaseHead
    <2>4. BridgeType' /\ TaskInv'
      BY <1>0, <1>1, <1>r, <2>1, <2>3 DEF BridgeType, TaskInv
    <2>5. mixed' \/ \A w \in Range(wire) : w \in over' \cup givenUp'
      BY <1>0, <1>1, <2>2 DEF UnfinishedIsPinned
    <2>6. pc' = "call" /\ ~mixed' => pc = "call" /\ ~mixed /\ chosen' = chosen /\ active # chosen.key
      BY <1>0, <1>1, <2>2 DEF CallInv
    <2> QED
      BY <1>0, <1>2, <1>3, <2>1, <2>2, <2>4, <2>5, <2>6, SettleStep DEF Doubted
  <1>7. CASE ~A /\ ~B
    <2>1. /\ snap' = [control |-> "failed", idle |-> FALSE] /\ listening' = FALSE
          /\ UNCHANGED <<ledger, wake>>
      BY <1>7 DEF Completed
    <2>2. BridgeType' /\ owed' \in BOOLEAN
      BY <1>0, <1>1, <2>1 DEF BridgeType, TaskType, Controls
    <2> QED
      BY <1>0, <1>2, <2>1, <2>2, BridgeMoves
  <1> QED
    BY <1>5, <1>6, <1>7

-----------------------------------------------------------------------------
(* The theorems.                                                           *)

\* The bridge starts in a state of the invariant.
LEMMA InitHolds ==
    ASSUME Init PROVE IInv
  <1>1. /\ rows = [k \in Keys |-> NoRow] /\ order = <<>> /\ timeline = <<>> /\ active = None
        /\ ordinal = 0 /\ wake = FALSE /\ pc = "wait" /\ chosen = [key |-> None, seq |-> 0]
        /\ owed = FALSE /\ asked = {} /\ wire = <<>> /\ over = {} /\ recalled = {}
        /\ givenUp = {} /\ mixed = FALSE
    BY DEF Init
  <1>2. BridgeType
    <2>1. snap \in {Ready, [control |-> "unsupported", idle |-> FALSE]}
      BY DEF Init
    <2>2. snap \in [control : Controls, idle : BOOLEAN]
      <3>1. Ready \in [control : Controls, idle : BOOLEAN]
        BY DEF Ready, Controls
      <3>2. [control |-> "unsupported", idle |-> FALSE] \in [control : Controls, idle : BOOLEAN]
        BY DEF Controls
      <3> QED
        BY <2>1, <3>1, <3>2
    <2>3. listening \in BOOLEAN
      BY Zenon DEF Init
    <2> QED
      BY <1>1, <2>2, <2>3 DEF BridgeType
  <1>3. \A S : <<>> \in Seq(S) /\ Len(<<>>) = 0
    BY EmptySeq
  <1>4. RowsType /\ TaskType /\ HistoryType
    <2>1. RowsType
      <3>1. rows \in [Keys -> Row] /\ ordinal \in 0..MaxOps /\ active \in Keys \cup {None}
        BY <1>1, Constants
      <3>2. order \in Seq(Keys) /\ timeline \in Seq(Keys) /\ Len(order) = 0
        BY <1>1, <1>3, Zenon
      <3> QED
        BY <3>1, <3>2, Constants DEF RowsType
    <2>2. TaskType
      BY <1>1 DEF TaskType
    <2>3. HistoryType
      <3>1. wire \in Seq(1..MaxOps)
        BY <1>1, <1>3, Zenon
      <3> QED
        BY <1>1, <3>1 DEF HistoryType
    <2> QED
      BY <2>1, <2>2, <2>3
  <1>5. DOMAIN order = {} /\ DOMAIN timeline = {} /\ DOMAIN wire = {}
    BY <1>1
  <1>6. \A k \in Keys : rows[k] = NoRow /\ rows[k].seq = 0 /\ rows[k].state = "rejected" /\ ~rows[k].buffered
    BY <1>1 DEF NoRow
  <1>7. Range(order) = {} /\ Range(timeline) = {} /\ Range(wire) = {}
    BY <1>5 DEF Range
  <1>8. LedgerInv
    BY <1>1, <1>5, <1>6, <1>7, Constants DEF LedgerInv, Retained, Distinct
  <1>9. TimelineInv
    BY <1>5, <1>6, <1>7 DEF TimelineInv, Sorted
  <1>10. TaskInv /\ SendInv /\ RecallInv /\ ReconcileInv /\ CallInv
    BY <1>1, <1>5, <1>6 DEF TaskInv, SendInv, RecallInv, ReconcileInv, CallInv
  <1>11. WireInOrder /\ RecalledNeverSent /\ UnfinishedIsPinned
    BY <1>1, <1>5, <1>7 DEF WireInOrder, RecalledNeverSent, UnfinishedIsPinned
  <1> QED
    BY <1>2, <1>4, <1>8, <1>9, <1>10, <1>11, TypeParts DEF IInv

\* Every step of the callers, the dispatcher, the adapter and the vendor keeps it.
LEMMA NextKeeps ==
    ASSUME IInv, [Next]_vars PROVE IInv'
  <1>1. CASE Callers
    BY <1>1, SubmitStep, SubmitUnsupportedStep, ResubmitStep, WithdrawStep, AskReconcileStep,
       ApplyReconcileStep, ResolveStep, AdmitSetterStep, StopStep DEF Callers
  <1>2. CASE Dispatcher
    BY <1>2, WokenStep, LookStep, PreflightDeclinesStep, PreflightClaimsSendStep,
       PreflightRaisesStep, PreflightPassesStep DEF Dispatcher
  <1>3. CASE Calls
    BY <1>3, AdapterWritesStep, CallBusyStep, CallFailsStep, CallOrphanedStep, CallUnknownStep,
       CallAcceptedStep, CallTerminalStep DEF Calls, CallEnds
  <1>4. CASE Events
    <2>1. ASSUME NEW s \in {Ready, [control |-> "ready", idle |-> FALSE],
                            [control |-> "disconnected", idle |-> FALSE],
                            [control |-> "failed", idle |-> FALSE]}
          PROVE  s \in [control : Controls, idle : BOOLEAN]
      <3>1. \A c \in Controls, b \in BOOLEAN :
               [control |-> c, idle |-> b] \in [control : Controls, idle : BOOLEAN]
        OBVIOUS
      <3> QED
        BY <3>1 DEF Ready, Controls
    <2> QED
      BY <1>4, <2>1, ReportsStep, CompletedStep, StreamEndsStep DEF Events
  <1>5. CASE UNCHANGED vars
    <2>1. UNCHANGED <<ledger, bridge, asked, history>> /\ wake' = wake /\ UNCHANGED <<pc, chosen, owed>>
      BY <1>5 DEF vars, task
    <2>2. ordinal' = ordinal /\ active' = active
      BY <2>1 DEF ledger
    <2>3. wake' \in BOOLEAN /\ TaskType' /\ TaskInv' /\ NoClaim
      BY <2>1, <2>2, Disassemble DEF BridgeType, TaskType, TaskInv, NoClaim
    <2> QED
      BY <2>1, <2>3, TaskMoves
  <1> QED
    BY <1>1, <1>2, <1>3, <1>4, <1>5 DEF Next

\* The inductive invariant of the prompt queue: the ledger's rows carry one ordinal each,
\* the timeline is in the order of admission, what is queued lies above all that was sent
\* and, during a call, above the operation of that call.
THEOREM SubmissionInvariant == Spec => []IInv
  <1>1. Init => IInv
    BY InitHolds
  <1>2. IInv /\ [Next]_vars => IInv'
    BY NextKeeps
  <1> QED
    BY <1>1, <1>2, PTL DEF Spec

\* Every variable of the queue keeps its type; in particular make_room keeps the ledger
\* within its limit through every admission.
THEOREM SubmissionTypes == Spec => []TypeOK
  <1>1. IInv => TypeOK
    BY DEF IInv
  <1> QED
    BY <1>1, SubmissionInvariant, PTL

\* Operations reach the vendor in the order they were admitted and each at most once:
\* _dispatchable_head_locked and _claim_head_locked never pass an older operation, and what
\* was sent is never claimed again.
THEOREM OperationsReachTheVendorInOrder == Spec => []WireInOrder
  <1>1. IInv => WireInOrder
    BY DEF IInv
  <1> QED
    BY <1>1, SubmissionInvariant, PTL

\* A prompt answered as withdrawn never reaches the vendor: withdraw only takes what is
\* queued, and _claim_head_locked reads the row again after the preflight.
THEOREM WithdrawnIsNeverSent == Spec => []RecalledNeverSent
  <1>1. IInv => RecalledNeverSent
    BY DEF IInv
  <1> QED
    BY <1>1, SubmissionInvariant, PTL

\* An operation the vendor may still be working on is the active one, as long as no
\* reconcile answer was applied to another operation's row.
THEOREM UnfinishedStaysPinned == Spec => []UnfinishedIsPinned
  <1>1. IInv => UnfinishedIsPinned
    BY DEF IInv
  <1> QED
    BY <1>1, SubmissionInvariant, PTL

\* A call that is out keeps the active operation and its dispatching row, as long as no
\* reconcile answer was applied to another operation's row: _apply_method_result,
\* _incoherent_method_result and _certified_pre_send_busy find what they check.
THEOREM CallKeepsItsOperation == Spec => []CallKeepsDispatch
  <1>1. IInv => CallKeepsDispatch
    <2> SUFFICES ASSUME IInv, pc = "call", ~mixed
                 PROVE  StillActive /\ rows[chosen.key].state = "dispatching"
      BY DEF CallKeepsDispatch
    <2>1. CallInv /\ TaskInv
      BY DEF IInv
    <2>2. chosen.key \in Keys /\ chosen.seq # 0
      BY <2>1 DEF TaskInv
    <2> QED
      BY <2>1, <2>2 DEF CallInv, StillActive, IsRow
  <1> QED
    BY <1>1, SubmissionInvariant, PTL

-----------------------------------------------------------------------------
(* A withdrawal is final.                                                  *)

\* What WithdrawnIsFinal says of one step.
KeepsWithdrawn ==
    mixed' \/ \A k \in Keys :
        (rows[k].state = "withdrawn" /\ rows'[k].seq = rows[k].seq) => rows'[k].state = "withdrawn"

\* A step that changes no row, or one that is not withdrawn, keeps the withdrawn ones.
LEMMA OtherRowChanges ==
    ASSUME NEW k \in Keys, rows[k].state # "withdrawn", \A j \in Keys : j # k => rows'[j] = rows[j]
    PROVE  KeepsWithdrawn
  BY DEF KeepsWithdrawn

LEMMA MarkedOther ==
    ASSUME RowsType, NEW k \in Keys, NEW st, rows' = Marked(k, st)
    PROVE  \A j \in Keys : j # k => rows'[j] = rows[j]
  BY DEF Marked, RowsType

LEMMA SettledOther ==
    ASSUME RowsType, NEW k \in Keys, NEW st, Settle(k, st)
    PROVE  \A j \in Keys : j # k => rows'[j] = rows[j]
  BY DEF Settle, RowsType

\* An admission takes a free key, and forgets a row with its ordinal.
LEMMA EnrolKeepsWithdrawn ==
    ASSUME IInv, NEW k, Enrollable(k), HasRoom, ordinal < MaxOps, NEW st \in States, Enrol(k, st)
    PROVE  KeepsWithdrawn
  <1>1. RowsType /\ LedgerInv
    BY Disassemble
  <1>2. Admitted(k, st)
    BY <1>1, EnrolFacts
  <1> SUFFICES ASSUME NEW j \in Keys, rows[j].state = "withdrawn", rows'[j].seq = rows[j].seq
               PROVE  rows'[j].state = "withdrawn"
    BY DEF KeepsWithdrawn
  <1>3. NoRow.seq = 0 /\ NoRow.state = "rejected"
    BY DEF NoRow
  <1>4. j # k
    BY <1>3 DEF Enrollable, Retained
  <1>5. Retained(j) => rows[j].seq # 0
    BY <1>1, RetainedBySeq
  <1> QED
    BY <1>2, <1>3, <1>4, <1>5 DEF Admitted

LEMMA CallersKeepWithdrawn ==
    ASSUME IInv, Callers PROVE KeepsWithdrawn
  <1>0. RowsType /\ LedgerInv /\ ReconcileInv /\ HistoryType
    BY Disassemble
  <1>1. ASSUME NEW k \in Requests, Submit(k) \/ SubmitUnsupported(k) PROVE KeepsWithdrawn
    <2>1. Enrollable(k)
      BY <1>1, Constants DEF Submit, SubmitUnsupported, Enrollable
    <2> QED
      BY <1>1, <2>1, EnrolKeepsWithdrawn DEF Submit, SubmitUnsupported, States
  <1>2. ASSUME NEW k \in Requests, Resubmit(k) \/ AskReconcile(k) PROVE KeepsWithdrawn
    BY <1>2 DEF Resubmit, AskReconcile, ledger, KeepsWithdrawn
  <1>3. ASSUME NEW k \in Requests, Withdraw(k) PROVE KeepsWithdrawn
    <2>1. k \in Keys /\ rows[k].state = "queued" /\ rows' = Marked(k, "withdrawn")
      BY <1>3, Constants DEF Withdraw, Withdrawable
    <2> QED
      BY <1>0, <2>1, MarkedOther, OtherRowChanges
  <1>4. ASSUME NEW k \in Requests, NEW n \in 1..MaxOps,
               NEW answer \in {"accepted", "rejected", "unresolved"}, ApplyReconcile(k, n, answer)
        PROVE  KeepsWithdrawn
    <2>0. /\ <<k, n>> \in asked /\ k \in Keys
          /\ mixed' = (mixed \/ (Retained(k) /\ rows[k].seq # n))
      BY <1>4, Constants DEF ApplyReconcile
    <2>1. CASE ~Retained(k) \/ answer = "unresolved"
      <3>1. rows' = rows
        <4>1. CASE ~Retained(k)
          BY <1>4, <4>1 DEF ApplyReconcile, ledger
        <4>2. CASE Retained(k) /\ answer = "unresolved"
          BY <1>4, <4>2 DEF ApplyReconcile, ledger
        <4> QED
          BY <2>1, <4>1, <4>2
      <3> QED
        BY <3>1 DEF KeepsWithdrawn
    <2>2. CASE Retained(k) /\ rows[k].seq # n
      BY <2>0, <2>2 DEF KeepsWithdrawn
    <2>3. CASE Retained(k) /\ rows[k].seq = n /\ answer # "unresolved"
      <3>1. rows[<<k, n>>[1]].seq = <<k, n>>[2] => rows[<<k, n>>[1]].state \in Doubted
        BY <1>0, <2>0 DEF ReconcileInv
      <3>2. rows[k].state # "withdrawn"
        BY <2>3, <3>1 DEF Doubted
      <3>3. rows' = Marked(k, "delivered") \/ Settle(k, "rejected")
        BY <1>4, <2>3 DEF ApplyReconcile
      <3> QED
        BY <1>0, <2>0, <3>2, <3>3, MarkedOther, SettledOther, OtherRowChanges
    <2> QED
      BY <2>1, <2>2, <2>3
  <1>5. ASSUME NEW k \in Keys, NEW st \in {"delivered", "rejected"}, Resolve(k, st) PROVE KeepsWithdrawn
    <2>1. rows[k].state = "unknown" /\ Settle(k, st)
      BY <1>5 DEF Resolve
    <2> QED
      BY <1>0, <2>1, SettledOther, OtherRowChanges
  <1>6. CASE AdmitSetter
    <2>1. HasRoom /\ ordinal < MaxOps /\ Enrol(ordinal + 1, "queued")
      BY <1>6 DEF AdmitSetter
    <2>2. ordinal \in Nat /\ ordinal + 1 \in 1..MaxOps
      BY <1>0, <2>1, Constants DEF RowsType
    <2>3. ordinal + 1 \in Setters /\ ordinal + 1 \in Keys
      BY <2>2, Constants
    <2>4. ~Retained(ordinal + 1)
      <3>1. Retained(ordinal + 1) => rows[ordinal + 1].seq = ordinal + 1
        BY <1>0, <2>3 DEF LedgerInv
      <3>2. rows[ordinal + 1].seq <= ordinal
        BY <1>0, <2>3 DEF LedgerInv
      <3> QED
        BY <2>2, <3>1, <3>2
    <2> QED
      BY <2>1, <2>3, <2>4, EnrolKeepsWithdrawn DEF Enrollable, States
  <1>7. CASE Stop
    BY <1>7 DEF Stop, ledger, KeepsWithdrawn
  <1> QED
    BY <1>1, <1>2, <1>3, <1>4, <1>5, <1>6, <1>7 DEF Callers

LEMMA CallsKeepWithdrawn ==
    ASSUME IInv, Calls PROVE KeepsWithdrawn
  <1>0. /\ RowsType /\ CallInv /\ TaskInv /\ pc = "call" /\ mixed' = mixed /\ chosen.key \in Keys
    <2>1. pc = "call" /\ mixed' = mixed
      BY DEF Calls, CallEnds, AdapterWrites, CallBusy, CallFails, CallOrphaned, CallUnknown,
             CallAccepted, CallTerminal, history
    <2> QED
      BY <2>1, Disassemble DEF TaskInv
  <1>1. CASE mixed
    BY <1>0, <1>1 DEF KeepsWithdrawn
  <1>2. CASE ~mixed
    <2>1. rows[chosen.key].state = "dispatching"
      BY <1>0, <1>2 DEF CallInv
    <2>2. \/ rows' = rows
          \/ \E t \in States : rows' = Marked(chosen.key, t) \/ Settle(chosen.key, t)
      <3>1. CASE AdapterWrites \/ CallOrphaned
        BY <3>1 DEF AdapterWrites, CallOrphaned, ledger
      <3>2. CASE CallBusy
        BY <3>2 DEF CallBusy, States
      <3>3. CASE CallFails
        BY <3>3 DEF CallFails, Block, States
      <3>4. ASSUME NEW forbidden \in BOOLEAN, CallUnknown(forbidden)
          PROVE  \E t \in States : rows' = Marked(chosen.key, t) \/ Settle(chosen.key, t)
        BY <3>4 DEF CallUnknown, States
      <3>5. ASSUME NEW stamped \in BOOLEAN, CallAccepted(stamped)
          PROVE  \E t \in States : rows' = Marked(chosen.key, t) \/ Settle(chosen.key, t)
        BY <3>5 DEF CallAccepted, States
      <3>6. ASSUME NEW st \in {"delivered", "rejected", "unsupported"}, CallTerminal(st)
          PROVE  \E t \in States : rows' = Marked(chosen.key, t) \/ Settle(chosen.key, t)
        BY <3>6 DEF CallTerminal, States
      <3> QED
        BY <3>1, <3>2, <3>3, <3>4, <3>5, <3>6 DEF Calls, CallEnds
    <2> QED
      BY <1>0, <2>1, <2>2, MarkedOther, SettledOther, OtherRowChanges DEF KeepsWithdrawn
  <1> QED
    BY <1>1, <1>2

LEMMA EventsKeepWithdrawn ==
    ASSUME IInv, Events PROVE KeepsWithdrawn
  <1>0. RowsType
    BY Disassemble
  <1>1. ASSUME NEW s, Reports(s) PROVE KeepsWithdrawn
    BY <1>1 DEF Reports, ledger, KeepsWithdrawn
  <1>2. CASE StreamEnds
    BY <1>2 DEF StreamEnds, ledger, KeepsWithdrawn
  <1>3. ASSUME NEW n \in 1..MaxOps, Completed(n) PROVE KeepsWithdrawn
    <2> DEFINE A == Completes(n) /\ rows[active].state = "dispatching" /\ ~rows[active].buffered
               B == Completes(n) /\ rows[active].state \in {"delivered", "unknown"}
    <2>1. Completes(n) => active \in Keys
      BY <1>0 DEF Completes, RowsType
    <2>2. CASE A
      <3>1. rows' = [rows EXCEPT ![active].buffered = TRUE]
        BY <1>3, <2>2 DEF Completed
      <3>2. \A j \in Keys : j # active => rows'[j] = rows[j]
        BY <1>0, <3>1 DEF RowsType
      <3> QED
        BY <2>1, <2>2, <3>2, OtherRowChanges
    <2>3. CASE B
      <3>1. Settle(active, "delivered")
        BY <1>3, <2>3 DEF Completed
      <3> QED
        BY <1>0, <2>1, <2>3, <3>1, SettledOther, OtherRowChanges
    <2>4. CASE ~A /\ ~B
      BY <1>3, <2>4 DEF Completed, ledger, KeepsWithdrawn
    <2> QED
      BY <2>2, <2>3, <2>4
  <1> QED
    BY <1>1, <1>2, <1>3 DEF Events

LEMMA DispatcherKeepsWithdrawn ==
    ASSUME ~PreflightSends, IInv, Dispatcher PROVE KeepsWithdrawn
  <1>0. RowsType
    BY Disassemble
  <1>1. CASE Woken \/ Look \/ PreflightDeclines \/ PreflightRaises
    BY <1>1 DEF Woken, Look, TakeHead, PreflightDeclines, PreflightRaises, ledger, KeepsWithdrawn
  <1>2. CASE PreflightPasses
    <2>1. CASE Claimable(chosen)
      <3>1. chosen.key \in Keys /\ rows[chosen.key].state = "queued" /\ rows' = Marked(chosen.key, "dispatching")
        BY <1>2, <2>1 DEF PreflightPasses, Claimable, IsRow
      <3> QED
        BY <1>0, <3>1, MarkedOther, OtherRowChanges
    <2>2. CASE ~Claimable(chosen)
      BY <1>2, <2>2 DEF PreflightPasses, KeepsWithdrawn
    <2> QED
      BY <2>1, <2>2
  <1>3. ~PreflightClaimsSend
    BY DEF PreflightClaimsSend
  <1> QED
    BY <1>1, <1>2, <1>3 DEF Dispatcher

\* With an adapter whose preflight sends nothing, a row that was answered as withdrawn says so
\* as long as it is retained: no late result, completion, reconcile answer or operator's
\* resolution overwrites it, unless a reconcile answer met another operation's row.
THEOREM WithdrawalIsFinal ==
    ASSUME ~PreflightSends
    PROVE  Spec => WithdrawnIsFinal
  <1>1. IInv /\ [Next]_vars => [KeepsWithdrawn]_vars
    BY CallersKeepWithdrawn, CallsKeepWithdrawn, EventsKeepWithdrawn, DispatcherKeepsWithdrawn DEF Next
  <1>2. Spec => []IInv
    BY SubmissionInvariant
  <1> QED
    BY <1>1, <1>2, PTL DEF Spec, WithdrawnIsFinal, KeepsWithdrawn
=============================================================================
