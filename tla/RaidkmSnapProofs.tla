-------------------------- MODULE RaidkmSnapProofs --------------------------
(***************************************************************************)
(* The record of a create or a destroy is written in a quiet array, a      *)
(* physical row has one owner, and a read of a snapshot keeps its row: for *)
(* any number of bios, rows, snapshots and copies.                         *)
(*                                                                         *)
(* SnapInv is the bookkeeping this rests on: what the command's phase says *)
(* about the hold and the suspension, which copies the lists of the commit *)
(* worker name, and what the count of copies counts.                       *)
(*                                                                         *)
(* An operation of the commit worker changes two maps, one after the       *)
(* other, and between the two its row is named twice.  OHas, SHas and CHas *)
(* say whose the row is at each moment; an operation then moves rows       *)
(* between the three in one step, and OwnInv says what it relies on: what  *)
(* the maps hold for the row of a copy in each of its phases.              *)
(*                                                                         *)
(* rk_snap_submit_bio looks the row of a read up before the bio enters the *)
(* array; a redirect, a create or a destroy of another snapshot may be     *)
(* applied before it is there.  ReadInv says that none of them changes     *)
(* what the walk finds for a snapshot that is in the chain before and      *)
(* after.                                                                  *)
(***************************************************************************)
EXTENDS RaidkmSnap, TLAPS, FiniteSetTheorems, SequenceTheorems,
        WellFoundedInduction

Ops == CowIds \cup {Command}
Bios == Seq(Requests \cup Origin)
Pairs == Int \X Int
RowOrNone == Physical \cup {None}

CowPhases == {"free", "work", "read", "write", "pend"}
CowRecords ==
  [pc : CowPhases, r : Requests \cup {"none"}, L : Origin, oldP : RowOrNone,
   newP : RowOrNone, buf : Pairs, ok : BOOLEAN, waiters : Bios]

RequestRecords ==
  [pc : {"idle", "fly", "cow", "parked"}, op : {"none", "read", "write"},
   L : Origin, P : RowOrNone, whole : BOOLEAN, val : Int, seen : SUBSET Pairs,
   st : {"none", "ok", "error"}]

WorkerRecords ==
  [pc : {"idle", "build", "apply", "half", "finish"}, batch : Seq(Ops),
   out : {"none", "ok", "undo", "keep"}]

CommandRecords ==
  [pc : {"idle", "hold", "suspend", "commit", "applied", "unhold", "unheld"},
   op : {"none", "create", "destroy"}, g : Int]

FunctionOn(f, S) == f = [x \in S |-> f[x]]

Budget ==
  [reads : BOOLEAN, whole : SUBSET BOOLEAN, writes : Nat, discards : Nat,
   commands : Nat, errors : Nat]

Types ==
  /\ origin \in [Origin -> Physical]
  /\ used \in SUBSET Physical
  /\ snaps \in Seq(Slots)
  /\ exc \in [Slots -> [Origin -> RowOrNone]]
  /\ cow \in [CowIds -> CowRecords]
  /\ cows \in Int
  /\ overflow \in Bios
  /\ pending \in Seq(Ops)
  /\ worker \in WorkerRecords
  /\ again \in [Agents -> Bios]
  /\ ending \in SUBSET (CowIds \cup {CommitWorker})
  /\ cmd \in CommandRecords
  /\ hold \in BOOLEAN /\ suspended \in BOOLEAN /\ broken \in BOOLEAN
  /\ disk \in [Physical -> Pairs]
  /\ req \in [Requests -> RequestRecords]
  /\ FunctionOn(disc, Origin)
  /\ FunctionOn(rd, Readers)
  /\ left \in Budget

In(x, s) == \E k \in DOMAIN s : s[k] = x
Distinct(s) == \A j, k \in DOMAIN s : s[j] = s[k] => j = k

\* A copy has a write; it has its two rows from the reservation on.
HasRows == {"read", "write", "pend"}
CowShape ==
  \A i \in CowIds :
    /\ cow[i].pc # "free" => cow[i].r \in Requests
    /\ cow[i].newP # None <=> cow[i].pc \in HasRows
    /\ cow[i].oldP # None <=> cow[i].pc \in HasRows

Held == {"hold", "suspend", "commit", "applied", "unhold"}
Stopped == {"suspend", "commit", "applied"}

\* What the phase of the command says about everybody else.
CommandShape ==
  /\ hold <=> cmd.pc \in Held
  /\ suspended <=> cmd.pc \in Stopped
  /\ cmd.pc # "idle" => cmd.g \in Slots /\ cmd.op \in {"create", "destroy"}
  /\ cmd.pc \in {"hold", "suspend", "commit"} => (InChain(cmd.g) <=> cmd.op = "destroy")
  /\ cmd.pc \in Stopped => (\A i \in CowIds : cow[i].pc = "free") /\ ending = {}
  /\ cmd.pc \in {"commit", "applied"} => ~Active

\* What a list of operations names: copies that are done, each once, and the
\* command while it waits for its record.
Lists(s) ==
  /\ Distinct(s)
  /\ In(Command, s) => cmd.pc = "commit"
  /\ \A i \in CowIds : In(i, s) => cow[i].pc = "pend"

Acting == worker.pc \in {"half", "finish"}

WorkerShape ==
  /\ Lists(pending)
  /\ Lists(worker.batch)
  /\ \A x \in Ops : ~(In(x, pending) /\ In(x, worker.batch))
  /\ worker.pc = "idle" => worker.batch = <<>>
  /\ worker.pc \in {"apply", "half", "finish"} => worker.batch # <<>>
  /\ Acting => CommitWorker \notin ending
  /\ worker.pc = "finish" => Next1 # Command
  /\ worker.pc = "half" /\ Next1 = Command => cmd.op = "destroy"

\* The copies under way, and those that are not counted out yet.
BusyCows == {i \in CowIds : cow[i].pc # "free"}
Count == cows = Cardinality(BusyCows) + Cardinality(ending)

SnapInv == Types /\ CowShape /\ CommandShape /\ WorkerShape /\ Count

-----------------------------------------------------------------------------
(* Lists                                                                    *)

\* Every non-empty set of positions has a first one.
LEMMA FirstExists ==
  ASSUME NEW T \in SUBSET Nat, T # {}
  PROVE  \E k \in T : \A m \in T : k <= m
<1>1. IsWellFoundedOn(OpToRel(<, Nat), Nat)
  BY NatLessThanWellFounded
<1>2. PICK k \in T : \A m \in T : ~(<<m, k>> \in OpToRel(<, Nat))
  BY <1>1, WFMin
<1>3. \A m \in T : ~(m < k)
  BY <1>2 DEF OpToRel
<1> QED
  BY <1>3

LEMMA InAppend ==
  ASSUME NEW S, NEW s \in Seq(S), NEW e \in S
  PROVE  /\ \A x : In(x, Append(s, e)) <=> In(x, s) \/ x = e
         /\ Distinct(s) /\ ~In(e, s) => Distinct(Append(s, e))
<1> DEFINE t == Append(s, e)
<1>1. /\ DOMAIN s = 1..Len(s) /\ DOMAIN t = 1..(Len(s) + 1) /\ Len(s) \in Nat
      /\ \A j \in 1..Len(s) : t[j] = s[j]
      /\ t[Len(s) + 1] = e
  BY AppendProperties, LenProperties
<1> HIDE DEF t
<1>2. \A x : In(x, t) <=> In(x, s) \/ x = e
  BY <1>1 DEF In
<1>3. Distinct(s) /\ ~In(e, s) => Distinct(t)
  BY <1>1 DEF In, Distinct
<1> QED
  BY <1>2, <1>3 DEF t

LEMMA InTail ==
  ASSUME NEW S, NEW s \in Seq(S), s # <<>>
  PROVE  /\ Head(s) \in S /\ In(Head(s), s) /\ Tail(s) \in Seq(S)
         /\ Distinct(s) =>
              /\ \A x : In(x, Tail(s)) <=> In(x, s) /\ x # Head(s)
              /\ Distinct(Tail(s))
<1> DEFINE t == Tail(s)
<1>1. /\ DOMAIN s = 1..Len(s) /\ DOMAIN t = 1..(Len(s) - 1)
      /\ Len(s) \in Nat /\ Len(s) > 0
      /\ \A j \in 1..(Len(s) - 1) : t[j] = s[j + 1]
      /\ Head(s) = s[1]
      /\ Head(s) \in S /\ t \in Seq(S)
  BY HeadTailProperties, LenProperties, EmptySeq
<1> HIDE DEF t
<1>2. In(Head(s), s)
  BY <1>1 DEF In
<1>3. ASSUME Distinct(s), NEW x
      PROVE  In(x, t) <=> In(x, s) /\ x # Head(s)
  <2>1. ASSUME In(x, t) PROVE In(x, s) /\ x # Head(s)
    <3>1. PICK j \in 1..(Len(s) - 1) : t[j] = x
      BY <1>1, <2>1 DEF In
    <3>2. s[j + 1] = x /\ j + 1 \in 1..Len(s) /\ j + 1 # 1
      BY <1>1, <3>1
    <3> QED
      BY <1>1, <1>3, <3>2 DEF In, Distinct
  <2>2. ASSUME In(x, s), x # Head(s) PROVE In(x, t)
    <3>1. PICK j \in 1..Len(s) : s[j] = x
      BY <1>1, <2>2 DEF In
    <3>2. j # 1 /\ j - 1 \in 1..(Len(s) - 1) /\ t[j - 1] = s[(j - 1) + 1] /\ (j - 1) + 1 = j
      BY <1>1, <2>2, <3>1
    <3> QED
      BY <1>1, <3>1, <3>2 DEF In
  <2> QED
    BY <2>1, <2>2
<1>4. ASSUME Distinct(s) PROVE Distinct(t)
  <2> SUFFICES ASSUME NEW j \in 1..(Len(s) - 1), NEW k \in 1..(Len(s) - 1), t[j] = t[k]
               PROVE  j = k
    BY <1>1 DEF Distinct
  <2>1. s[j + 1] = s[k + 1] /\ j + 1 \in 1..Len(s) /\ k + 1 \in 1..Len(s)
    BY <1>1
  <2>2. j + 1 = k + 1
    BY <1>1, <1>4, <2>1 DEF Distinct
  <2> QED
    BY <2>2
<1> QED
  BY <1>1, <1>2, <1>3, <1>4 DEF t

Without(s, k) == SubSeq(s, 1, k - 1) \o SubSeq(s, k + 1, Len(s))

LEMMA WithoutPlaces ==
  ASSUME NEW S, NEW s \in Seq(S), NEW k \in DOMAIN s
  PROVE  /\ Without(s, k) \in Seq(S)
         /\ Len(Without(s, k)) = Len(s) - 1
         /\ \A j \in 1..(Len(s) - 1) :
              Without(s, k)[j] = IF j < k THEN s[j] ELSE s[j + 1]
<1>1. /\ DOMAIN s = 1..Len(s) /\ Len(s) \in Nat
      /\ k \in 1..Len(s)
      /\ \A j \in 1..Len(s) : s[j] \in S
  BY LenProperties, ElementOfSeq
<1> DEFINE a == SubSeq(s, 1, k - 1)
           b == SubSeq(s, k + 1, Len(s))
<1>2. /\ a \in Seq(S) /\ Len(a) = k - 1
      /\ \A j \in 1..(k - 1) : a[j] = s[j]
  <2>1. \A j \in 1..(k - 1) : s[j] \in S
    BY <1>1
  <2>2. /\ a \in Seq(S)
        /\ Len(a) = IF 1 <= k - 1 THEN k - 1 - 1 + 1 ELSE 0
        /\ \A j \in 1..(k - 1 - 1 + 1) : a[j] = s[1 + j - 1]
    BY <1>1, <2>1, SubSeqProperties
  <2> HIDE DEF a
  <2> QED
    BY <1>1, <2>2
<1>3. /\ b \in Seq(S) /\ Len(b) = Len(s) - k
      /\ \A j \in 1..(Len(s) - k) : b[j] = s[k + j]
  <2>1. \A j \in (k + 1)..Len(s) : s[j] \in S
    BY <1>1
  <2>2. /\ b \in Seq(S)
        /\ Len(b) = IF k + 1 <= Len(s) THEN Len(s) - (k + 1) + 1 ELSE 0
        /\ \A j \in 1..(Len(s) - (k + 1) + 1) : b[j] = s[(k + 1) + j - 1]
    BY <1>1, <2>1, SubSeqProperties
  <2> HIDE DEF b
  <2>3. Len(b) = Len(s) - k
    BY <1>1, <2>2
  <2>4. ASSUME NEW j \in 1..(Len(s) - k) PROVE b[j] = s[k + j]
    <3>1. j \in 1..(Len(s) - (k + 1) + 1) /\ (k + 1) + j - 1 = k + j
      BY <1>1
    <3> QED
      BY <2>2, <3>1
  <2> QED
    BY <2>2, <2>3, <2>4
<1> HIDE DEF a, b
<1>4. /\ a \o b \in Seq(S) /\ Len(a \o b) = Len(a) + Len(b)
      /\ \A j \in 1..(Len(a) + Len(b)) :
           (a \o b)[j] = IF j <= Len(a) THEN a[j] ELSE b[j - Len(a)]
  BY <1>2, <1>3, ConcatProperties
<1>5. ASSUME NEW j \in 1..(Len(s) - 1)
      PROVE  (a \o b)[j] = IF j < k THEN s[j] ELSE s[j + 1]
  <2>1. CASE j < k
    BY <1>1, <1>2, <1>3, <1>4, <2>1
  <2>2. CASE ~(j < k)
    <3>1. /\ j - (k - 1) \in 1..(Len(s) - k)
          /\ (a \o b)[j] = b[j - (k - 1)]
          /\ k + (j - (k - 1)) = j + 1
      <4>1. j \in Int /\ k \in Int /\ j >= k /\ j <= Len(s) - 1 /\ k <= Len(s)
        BY <1>1, <2>2
      <4>2. /\ j - (k - 1) \in 1..(Len(s) - k) /\ k + (j - (k - 1)) = j + 1
            /\ j \in 1..((k - 1) + (Len(s) - k)) /\ ~(j <= k - 1)
        BY <1>1, <4>1
      <4> QED
        BY <1>2, <1>3, <1>4, <4>2
    <3> QED
      BY <1>3, <2>2, <3>1
  <2> QED
    BY <2>1, <2>2
<1>6. Len(a \o b) = Len(s) - 1
  BY <1>1, <1>2, <1>3, <1>4
<1>7. Without(s, k) = a \o b
  BY DEF Without, a, b
<1> QED
  BY <1>4, <1>5, <1>6, <1>7

LEMMA InWithout ==
  ASSUME NEW S, NEW s \in Seq(S), NEW k \in DOMAIN s, Distinct(s)
  PROVE  /\ Without(s, k) \in Seq(S)
         /\ \A x : In(x, Without(s, k)) <=> In(x, s) /\ x # s[k]
         /\ Distinct(Without(s, k))
<1> DEFINE t == Without(s, k)
           n == Len(s)
<1>1. /\ DOMAIN s = 1..n /\ n \in Nat /\ k \in 1..n
      /\ t \in Seq(S) /\ DOMAIN t = 1..(n - 1)
      /\ \A j \in 1..(n - 1) : t[j] = IF j < k THEN s[j] ELSE s[j + 1]
  <2>1. t \in Seq(S) /\ Len(t) = n - 1
    BY WithoutPlaces
  <2>2. DOMAIN t = 1..Len(t) /\ DOMAIN s = 1..n /\ n \in Nat
    BY <2>1, LenProperties
  <2> QED
    BY <2>1, <2>2, WithoutPlaces
<1> HIDE DEF t, n
<1>2. ASSUME NEW x, In(x, t) PROVE In(x, s) /\ x # s[k]
  <2>1. PICK j \in 1..(n - 1) : t[j] = x
    BY <1>1, <1>2 DEF In
  <2>2. PICK m \in 1..n : m # k /\ s[m] = x
    <3>1. CASE j < k
      BY <1>1, <2>1, <3>1
    <3>2. CASE ~(j < k)
      <4>1. j + 1 \in 1..n /\ j + 1 # k /\ s[j + 1] = x
        BY <1>1, <2>1, <3>2
      <4> QED
        BY <4>1
    <3> QED
      BY <3>1, <3>2
  <2> QED
    BY <1>1, <2>2 DEF In, Distinct
<1>3. ASSUME NEW x, In(x, s), x # s[k] PROVE In(x, t)
  <2>1. PICK j \in 1..n : s[j] = x
    BY <1>1, <1>3 DEF In
  <2>2. CASE j < k
    BY <1>1, <2>1, <2>2 DEF In
  <2>3. CASE ~(j < k)
    <3>1. j - 1 \in 1..(n - 1) /\ ~(j - 1 < k) /\ (j - 1) + 1 = j
      BY <1>1, <1>3, <2>1, <2>3
    <3> QED
      BY <1>1, <2>1, <3>1 DEF In
  <2> QED
    BY <2>2, <2>3
<1>4. Distinct(t)
  <2> SUFFICES ASSUME NEW i \in 1..(n - 1), NEW j \in 1..(n - 1), t[i] = t[j]
               PROVE  i = j
    BY <1>1 DEF Distinct
  <2> DEFINE Up(m) == IF m < k THEN m ELSE m + 1
  <2>1. t[i] = s[Up(i)] /\ t[j] = s[Up(j)] /\ Up(i) \in 1..n /\ Up(j) \in 1..n
    BY <1>1
  <2>2. Up(i) = Up(j)
    BY <1>1, <2>1 DEF Distinct
  <2> QED
    BY <1>1, <2>2
<1> QED
  BY <1>1, <1>2, <1>3, <1>4 DEF t, n

-----------------------------------------------------------------------------
(* Types                                                                    *)

LEMMA Constants ==
  /\ O \in Nat /\ O > 0 /\ R \in Nat /\ O < R
  /\ 0 \in Origin /\ Origin \subseteq Physical /\ Physical \subseteq Nat
  /\ None \notin Physical /\ None = -1
  /\ Slots \subseteq Nat
  /\ CowIds \subseteq Nat \ {0} /\ Command = 0 /\ Command \notin CowIds
  /\ Unholder \notin CowIds \cup {CommitWorker}
  /\ Agents = CowIds \cup {CommitWorker, Unholder}
  /\ IsFiniteSet(CowIds)
<1>1. IsFiniteSet(1..CowsMax)
  BY SizeAssumption, FS_Interval
<1> QED
  BY <1>1, SizeAssumption DEF Origin, Physical, None, CowIds, Command, CommitWorker,
     Unholder, Agents

\* The records with which requests and copies start.
LEMMA FreshTypes ==
  /\ IdleRequest \in RequestRecords
  /\ \A st \in {"ok", "error"} : Replied(st) \in RequestRecords
  /\ FreeCow \in CowRecords /\ FreeCow.pc = "free"
     /\ FreeCow.newP = None /\ FreeCow.oldP = None
<1>1. <<>> \in Bios
  BY EmptySeq DEF Bios
<1>2. 0 \in Origin
  BY Constants
<1>3. IdleRequest \in RequestRecords
  BY <1>2 DEF IdleRequest, RequestRecords, RowOrNone
<1>4. ASSUME NEW st \in {"ok", "error"} PROVE Replied(st) \in RequestRecords
  BY <1>3 DEF Replied, RequestRecords
<1>5. <<Junk, Junk>> \in Pairs
  BY DEF Pairs, Junk
<1>6. FreeCow \in CowRecords /\ FreeCow.pc = "free" /\ FreeCow.newP = None
      /\ FreeCow.oldP = None
  BY <1>1, <1>2, <1>5 DEF FreeCow, CowRecords, CowPhases, RowOrNone
<1> QED
  BY <1>3, <1>4, <1>6

\* A copy is another copy in nothing but the bios that wait for it.
Alike(c, d) ==
  /\ c.pc = d.pc /\ c.r = d.r /\ c.L = d.L /\ c.ok = d.ok
  /\ c.oldP = d.oldP /\ c.newP = d.newP

SameCopies == UNCHANGED <<used, cows>> /\ \A i \in CowIds : Alike(cow'[i], cow[i])

\* Copy i starts, for a row that is shared and has none; perhaps with its new row.
Starts(i) ==
  /\ cow[i].pc = "free" /\ cow'[i].pc \in {"work", "write"} /\ cow'[i].r \in Requests
  /\ \A j \in CowIds \ {i} : cow'[j] = cow[j]
  /\ cows' = cows + 1
  /\ ~hold
  /\ Shared(cow'[i].L) /\ ~Busy(cow'[i].L)
  /\ \/ /\ cow'[i].pc = "work" /\ used' = used
        /\ cow'[i].newP = None /\ cow'[i].oldP = None
     \/ /\ cow'[i].pc = "write"
        /\ cow'[i].newP \in Free
        /\ used' = used \cup {cow'[i].newP}
        /\ cow'[i].oldP = origin[cow'[i].L]

\* A bio appended to the list of one that is under way.
LEMMA WaitTypes ==
  ASSUME Types, NEW i \in CowIds, NEW b \in Requests \cup Origin,
         cow' = [cow EXCEPT ![i].waiters = Append(@, b)]
  PROVE  cow' \in [CowIds -> CowRecords] /\ \A j \in CowIds : Alike(cow'[j], cow[j])
<1>1. cow \in [CowIds -> CowRecords]
  BY DEF Types
<1>2. Append(cow[i].waiters, b) \in Bios
  BY <1>1, AppendProperties DEF Bios, CowRecords
<1> DEFINE c == [cow[i] EXCEPT !.waiters = Append(cow[i].waiters, b)]
<1>3. c \in CowRecords /\ Alike(c, cow[i])
  BY <1>1, <1>2 DEF CowRecords, Alike
<1>4. cow' = [cow EXCEPT ![i] = c]
  OBVIOUS
<1> HIDE DEF c
<1> QED
  BY <1>1, <1>3, <1>4 DEF Alike

LEMMA FirstIdleCow ==
  ASSUME IdleCows # {}
  PROVE  LET i == CHOOSE j \in IdleCows : \A k \in IdleCows : j <= k
         IN  i \in CowIds /\ cow[i].pc = "free"
<1>1. \E j \in IdleCows : \A k \in IdleCows : j <= k
  BY FirstExists, Constants DEF IdleCows
<1> QED
  BY <1>1 DEF IdleCows

LEMMA StartTypes ==
  ASSUME Types, ~hold, NEW r \in Requests, NEW w \in RequestRecords, StartCow(r, w),
         IdleCows # {}, Shared(w.L), ~Busy(w.L)
  PROVE  /\ used' \in SUBSET Physical /\ cow' \in [CowIds -> CowRecords]
         /\ cows' \in Int /\ req' \in [Requests -> RequestRecords]
         /\ UNCHANGED <<origin, snaps, exc, overflow>>
         /\ \E i \in CowIds : Starts(i)
<1> DEFINE i == CHOOSE j \in IdleCows : \A k \in IdleCows : j <= k
           c == [FreeCow EXCEPT !.r = r, !.L = w.L]
<1>1. i \in CowIds /\ cow[i].pc = "free"
  BY FirstIdleCow
<1>2. /\ cow \in [CowIds -> CowRecords] /\ used \in SUBSET Physical /\ cows \in Int
      /\ req \in [Requests -> RequestRecords] /\ origin \in [Origin -> Physical]
  BY DEF Types
<1>3. c \in CowRecords /\ c.L = w.L /\ c.r = r /\ c.newP = None /\ c.oldP = None /\ w.L \in Origin /\ w.val \in Int
  BY FreshTypes DEF CowRecords, RequestRecords, FreeCow
<1>4. PICK d \in CowRecords :
        /\ cow' = [cow EXCEPT ![i] = d]
        /\ d.L = w.L /\ d.r = r
        /\ \/ /\ d.pc = "write" /\ d.newP \in Free /\ used' = used \cup {d.newP}
              /\ d.oldP = origin[w.L]
           \/ d.pc = "work" /\ d.newP = None /\ d.oldP = None /\ used' = used
  <2>1. CASE w.whole
    <3>1. PICK P \in Free :
            /\ used' = used \cup {P}
            /\ cow' = [cow EXCEPT ![i] =
                         [c EXCEPT !.pc = "write", !.oldP = origin[w.L],
                                   !.newP = P, !.buf = <<w.val, w.val>>]]
      BY <2>1 DEF StartCow
    <3> DEFINE d == [c EXCEPT !.pc = "write", !.oldP = origin[w.L],
                              !.newP = P, !.buf = <<w.val, w.val>>]
    <3>2. d \in CowRecords /\ d.L = w.L /\ d.r = r /\ d.pc = "write" /\ d.newP = P /\ d.oldP = origin[w.L]
      <4> HIDE DEF c
      <4> QED
        BY <1>2, <1>3 DEF CowRecords, CowPhases, Free, RowOrNone, Pairs
    <3>3. cow' = [cow EXCEPT ![i] = d]
      BY <3>1
    <3> HIDE DEF c, d, i
    <3> QED
      BY <3>1, <3>2, <3>3
  <2>2. CASE ~w.whole
    <3>1. cow' = [cow EXCEPT ![i] = [c EXCEPT !.pc = "work"]] /\ used' = used
      BY <2>2 DEF StartCow
    <3> DEFINE d == [c EXCEPT !.pc = "work"]
    <3>2. d \in CowRecords /\ d.L = w.L /\ d.r = r /\ d.pc = "work"
          /\ d.newP = None /\ d.oldP = None
      <4> HIDE DEF c
      <4> QED
        BY <1>3 DEF CowRecords, CowPhases
    <3>3. cow' = [cow EXCEPT ![i] = d]
      BY <3>1
    <3> HIDE DEF c, d, i
    <3> QED
      BY <3>1, <3>2, <3>3
  <2> QED
    BY <2>1, <2>2
<1>5. /\ cows' = cows + 1 /\ UNCHANGED <<origin, snaps, exc, overflow>>
      /\ req' = [req EXCEPT ![r] = [w EXCEPT !.pc = "cow", !.P = None]]
  BY DEF StartCow
<1>6. req' \in [Requests -> RequestRecords]
  <2>1. [w EXCEPT !.pc = "cow", !.P = None] \in RequestRecords
    BY DEF RequestRecords, RowOrNone
  <2> QED
    BY <1>2, <1>5, <2>1
<1> HIDE DEF i, c
<1>7. cow'[i] = d /\ \A j \in CowIds \ {i} : cow'[j] = cow[j]
  BY <1>1, <1>2, <1>4
<1>8. Starts(i)
  BY <1>1, <1>4, <1>5, <1>7 DEF Starts
<1> QED
  BY <1>1, <1>2, <1>4, <1>5, <1>6, <1>8 DEF Free

\* What mapping a write does: it goes to its row, waits, is refused, or starts a copy.
LEMMA MapWriteTypes ==
  ASSUME Types, NEW r \in Requests, NEW w \in RequestRecords, MapWrite(r, w)
  PROVE  /\ used' \in SUBSET Physical /\ cow' \in [CowIds -> CowRecords]
         /\ cows' \in Int /\ overflow' \in Bios /\ req' \in [Requests -> RequestRecords]
         /\ UNCHANGED <<origin, snaps, exc>>
         /\ SameCopies \/ \E i \in CowIds : Starts(i)
<1> USE DEF maps, copies
<1>1. /\ cow \in [CowIds -> CowRecords] /\ used \in SUBSET Physical /\ cows \in Int
      /\ req \in [Requests -> RequestRecords] /\ origin \in [Origin -> Physical]
      /\ overflow \in Bios
  BY DEF Types
<1>2. /\ [w EXCEPT !.pc = "parked", !.P = None] \in RequestRecords
      /\ [w EXCEPT !.pc = "fly", !.P = origin[w.L]] \in RequestRecords
      /\ Replied("error") \in RequestRecords
  BY <1>1, FreshTypes DEF RequestRecords, RowOrNone
<1>3. CASE Remap(r, w) \/ Refuse(r)
  BY <1>1, <1>2, <1>3 DEF Remap, Refuse, SameCopies, Alike
<1>4. CASE /\ Busy(w.L)
           /\ cow' = [cow EXCEPT ![CowOf(w.L)].waiters = Append(@, r)]
           /\ Park(r, w)
           /\ UNCHANGED <<maps, cows, overflow>>
  <2>1. CowOf(w.L) \in CowIds
    BY <1>4 DEF Busy, CowOf
  <2>2. cow' \in [CowIds -> CowRecords] /\ \A j \in CowIds : Alike(cow'[j], cow[j])
    BY <1>4, <2>1, WaitTypes
  <2> QED
    BY <1>1, <1>2, <1>4, <2>2 DEF Park, SameCopies
<1>5. CASE /\ overflow' = Append(overflow, r)
           /\ Park(r, w)
           /\ UNCHANGED <<maps, cow, cows>>
  <2>1. overflow' \in Bios
    BY <1>1, <1>5, AppendProperties DEF Bios
  <2> QED
    BY <1>1, <1>2, <1>5, <2>1 DEF Park, SameCopies, Alike
<1>6. CASE ~hold /\ IdleCows # {} /\ Shared(w.L) /\ ~Busy(w.L) /\ StartCow(r, w)
  BY <1>1, <1>6, StartTypes
<1> QED
  BY <1>3, <1>4, <1>5, <1>6 DEF MapWrite

LEMMA MapDiscardTypes ==
  ASSUME Types, NEW L \in Origin, NEW last, MapDiscard(L, last), UNCHANGED <<used, cows>>
  PROVE  cow' \in [CowIds -> CowRecords] /\ SameCopies /\ FunctionOn(disc', Origin)
<1>1. FunctionOn(disc', Origin)
  BY DEF MapDiscard, FunctionOn
<1>2. CASE Busy(L)
  <2>1. CowOf(L) \in CowIds
    BY <1>2 DEF Busy, CowOf
  <2>2. cow' = [cow EXCEPT ![CowOf(L)].waiters = Append(@, L)]
    BY <1>2 DEF MapDiscard
  <2> QED
    BY <1>1, <2>1, <2>2, WaitTypes DEF SameCopies
<1>3. CASE ~Busy(L)
  <2>1. cow' = cow
    BY <1>3 DEF MapDiscard
  <2> QED
    BY <1>1, <2>1 DEF SameCopies, Types, Alike
<1> QED
  BY <1>2, <1>3

LEMMA ObservedTypes ==
  ASSUME disk' \in [Physical -> Pairs], origin' \in [Origin -> Physical],
         NEW q \in [Requests -> RequestRecords], req' = Observed(q)
  PROVE  /\ req' \in [Requests -> RequestRecords]
         /\ \A r \in Requests : req'[r].pc = q[r].pc /\ req'[r].whole = q[r].whole
<1> SUFFICES ASSUME NEW r \in Requests
             PROVE  /\ Observed(q)[r] \in RequestRecords
                    /\ Observed(q)[r].pc = q[r].pc /\ Observed(q)[r].whole = q[r].whole
  BY DEF Observed
<1> DEFINE x == disk'[origin'[q[r].L]]
<1>1. q[r] \in RequestRecords /\ x \in Pairs
  BY DEF RequestRecords
<1>2. Observed(q)[r] = IF q[r].op = "read" THEN [q[r] EXCEPT !.seen = @ \cup {x}] ELSE q[r]
  BY DEF Observed
<1> HIDE DEF x
<1> QED
  BY <1>1, <1>2 DEF RequestRecords

-----------------------------------------------------------------------------
(* The users' steps, and what the array does with their bios                *)

\* A bio is inside the array.
Entered ==
  \/ \E r \in Requests : req[r].pc = "fly"
  \/ \E L \in Origin : disc[L].pc = "fly"
  \/ \E s \in Readers : rd[s].pc = "fly"

UserStep ==
  \/ \E r \in Requests : SubmitWrite(r) \/ SubmitRead(r) \/ Perform(r)
  \/ SubmitDiscard
  \/ \E L \in Origin : QueuedDiscard(L) \/ TrimRows(L)
  \/ \E s \in Readers : SnapRead(s) \/ SnapReadEnter(s) \/ SnapReadDone(s)
  \/ \E a \in Agents : Resubmit(a)

\* The maps stand, a copy may start, and nothing enters a suspended array.
UserEffect ==
  /\ UNCHANGED <<origin, snaps, exc, worker, pending, ending, cmd, hold, suspended, broken>>
  /\ SameCopies \/ \E i \in CowIds : Starts(i)
  /\ suspended /\ Entered' => Entered

LEMMA SubmitWriteStep ==
  ASSUME Types, NEW r \in Requests, SubmitWrite(r)
  PROVE  Types' /\ UserEffect
<1>1. PICK L \in Origin, whole \in left.whole :
        MapWrite(r, [IdleRequest EXCEPT !.op = "write", !.L = L, !.whole = whole,
                                        !.val = O + left.writes])
  BY DEF SubmitWrite
<1> DEFINE w == [IdleRequest EXCEPT !.op = "write", !.L = L, !.whole = whole,
                                    !.val = O + left.writes]
<1>2. w \in RequestRecords
  <2>1. whole \in BOOLEAN /\ O + left.writes \in Int
    BY <1>1, Constants DEF Types, Budget
  <2>2. IdleRequest \in RequestRecords
    BY FreshTypes
  <2> QED
    BY <2>1, <2>2 DEF RequestRecords
<1> HIDE DEF w
<1>3. MapWrite(r, w)
  BY <1>1 DEF w
<1>4. /\ used' \in SUBSET Physical /\ cow' \in [CowIds -> CowRecords]
      /\ cows' \in Int /\ overflow' \in Bios /\ req' \in [Requests -> RequestRecords]
      /\ UNCHANGED <<origin, snaps, exc>>
      /\ SameCopies \/ \E i \in CowIds : Starts(i)
  BY <1>2, <1>3, MapWriteTypes
<1>5. /\ UNCHANGED <<workers, control, disk, disc, rd>> /\ ~suspended
      /\ left.writes > 0 /\ left' = [left EXCEPT !.writes = @ - 1]
  BY DEF SubmitWrite
<1>6. left' \in Budget
  <2>1. left \in Budget
    BY DEF Types
  <2> QED
    BY <1>5, <2>1 DEF Budget
<1> QED
  BY <1>4, <1>5, <1>6 DEF Types, UserEffect, workers, control

LEMMA SubmitReadStep ==
  ASSUME Types, NEW r \in Requests, SubmitRead(r)
  PROVE  Types' /\ UserEffect
<1>1. PICK L \in Origin :
        req' = [req EXCEPT ![r] = [IdleRequest EXCEPT
                 !.pc = "fly", !.op = "read", !.L = L, !.P = origin[L],
                 !.seen = {Store[L]}]]
  BY DEF SubmitRead
<1> DEFINE w == [IdleRequest EXCEPT !.pc = "fly", !.op = "read", !.L = L,
                                    !.P = origin[L], !.seen = {Store[L]}]
<1>2. w \in RequestRecords
  <2>1. IdleRequest \in RequestRecords
    BY FreshTypes
  <2>2. origin[L] \in Physical /\ {Store[L]} \in SUBSET Pairs
    BY DEF Types, Store
  <2> QED
    BY <2>1, <2>2 DEF RequestRecords, RowOrNone
<1>3. req' = [req EXCEPT ![r] = w]
  BY <1>1
<1> HIDE DEF w
<1>4. /\ UNCHANGED <<maps, copies, workers, control, disk, disc, rd, left>> /\ ~suspended
  BY DEF SubmitRead
<1> QED
  BY <1>2, <1>3, <1>4 DEF Types, UserEffect, SameCopies, Alike, maps, copies, workers, control

LEMMA PerformStep ==
  ASSUME Types, NEW r \in Requests, Perform(r)
  PROVE  Types' /\ UserEffect
<1>1. UNCHANGED <<maps, copies, workers, control, disc, rd, left>>
  BY DEF Perform
<1>2. disk \in [Physical -> Pairs] /\ req \in [Requests -> RequestRecords]
      /\ origin' \in [Origin -> Physical]
  BY <1>1 DEF Types, maps
<1>3. disk' \in [Physical -> Pairs]
  <2>1. CASE Reading(r)
    BY <1>2, <2>1 DEF Perform
  <2>2. CASE ~Reading(r)
    <3>1. disk' = [disk EXCEPT ![req[r].P] = Written(disk[req[r].P], req[r])]
      BY <2>2 DEF Perform
    <3>2. ASSUME req[r].P \in Physical PROVE Written(disk[req[r].P], req[r]) \in Pairs
      BY <1>2, <3>2 DEF Written, Pairs, RequestRecords
    <3> QED
      BY <1>2, <3>1, <3>2
  <2> QED
    BY <2>1, <2>2
<1> DEFINE q == [req EXCEPT ![r] = IF Reading(r) THEN IdleRequest ELSE Replied("ok")]
<1>4. q \in [Requests -> RequestRecords] /\ req' = Observed(q)
  BY <1>2, FreshTypes DEF Perform
<1>5. \A s \in Requests : q[s].pc = IF s = r THEN "idle" ELSE req[s].pc
  BY <1>2 DEF IdleRequest, Replied
<1> HIDE DEF q
<1>6. req' \in [Requests -> RequestRecords] /\ \A s \in Requests : req'[s].pc = q[s].pc
  BY <1>2, <1>3, <1>4, ObservedTypes
<1> QED
  BY <1>1, <1>3, <1>5, <1>6 DEF Types, UserEffect, SameCopies, Alike, Entered, maps, copies,
     workers, control

LEMMA DiscardStep ==
  ASSUME Types, SubmitDiscard \/ \E L \in Origin : QueuedDiscard(L)
  PROVE  Types' /\ UserEffect
<1>1. /\ UNCHANGED <<maps, cows, overflow, workers, control, disk, req, rd>> /\ ~suspended
      /\ \/ left' = left
         \/ left.discards > 0 /\ left' = [left EXCEPT !.discards = @ - 1]
      /\ \E L \in Origin : \E last : MapDiscard(L, last)
  BY DEF SubmitDiscard, QueuedDiscard
<1>2. cow' \in [CowIds -> CowRecords] /\ SameCopies /\ FunctionOn(disc', Origin)
  BY <1>1, MapDiscardTypes DEF maps
<1>3. left' \in Budget
  <2>1. left \in Budget
    BY DEF Types
  <2>2. CASE left.discards > 0 /\ left' = [left EXCEPT !.discards = @ - 1]
    <3>1. left.discards - 1 \in Nat
      BY <2>1, <2>2 DEF Budget
    <3>2. PICK n \in Nat : left' = [left EXCEPT !.discards = n]
      BY <2>2, <3>1
    <3> QED
      BY <2>1, <3>2 DEF Budget
  <2> QED
    BY <1>1, <2>1, <2>2
<1> QED
  BY <1>1, <1>2, <1>3 DEF Types, UserEffect, maps, workers, control

LEMMA TrimStep ==
  ASSUME Types, NEW L \in Origin, TrimRows(L)
  PROVE  Types' /\ UserEffect
<1>1. UNCHANGED <<maps, copies, workers, control, rd, left>>
  BY DEF TrimRows
<1>2. PICK rows : disk' = [P \in Physical |-> IF P \in rows THEN <<Trim, Trim>> ELSE disk[P]]
  BY DEF TrimRows
<1>3. disk' \in [Physical -> Pairs] /\ origin' \in [Origin -> Physical]
  BY <1>1, <1>2 DEF Types, Pairs, Trim, maps
<1>4. req' \in [Requests -> RequestRecords] /\ \A s \in Requests : req'[s].pc = req[s].pc
  BY <1>3, ObservedTypes DEF TrimRows, Types
<1>5. disc' = [disc EXCEPT ![L] = IdleDiscard] /\ FunctionOn(disc, Origin)
  BY DEF TrimRows, Types
<1>6. FunctionOn(disc', Origin)
      /\ \A M \in Origin : disc'[M].pc = "fly" => disc[M].pc = "fly"
  BY <1>5 DEF FunctionOn, IdleDiscard
<1> QED
  BY <1>1, <1>3, <1>4, <1>6 DEF Types, UserEffect, SameCopies, Alike, Entered, maps, copies,
     workers, control

LEMMA ReaderStep ==
  ASSUME Types, NEW s \in Readers, SnapRead(s) \/ SnapReadEnter(s) \/ SnapReadDone(s)
  PROVE  Types' /\ UserEffect
<1>1. UNCHANGED <<maps, copies, workers, control, disk, req, disc, left>>
  BY DEF SnapRead, SnapReadEnter, SnapReadDone
<1>2. FunctionOn(rd, Readers)
  BY DEF Types
<1>3. PICK x : rd' = [rd EXCEPT ![s] = x] /\ (suspended => x.pc # "fly")
  <2>1. CASE SnapRead(s)
    <3>1. PICK g \in Slots, L \in Origin :
            rd' = [rd EXCEPT ![s] = [pc |-> "mapped", g |-> g, L |-> L,
                                     P |-> Lookup(g, L)]]
      BY <2>1 DEF SnapRead
    <3> DEFINE x == [pc |-> "mapped", g |-> g, L |-> L, P |-> Lookup(g, L)]
    <3>2. rd' = [rd EXCEPT ![s] = x] /\ x.pc # "fly"
      BY <3>1
    <3> HIDE DEF x
    <3> QED
      BY <3>2
  <2>2. CASE SnapReadEnter(s)
    BY <2>2 DEF SnapReadEnter
  <2>3. CASE SnapReadDone(s)
    <3>1. rd' = [rd EXCEPT ![s] = IdleReader] /\ IdleReader.pc # "fly"
      BY <2>3 DEF SnapReadDone, IdleReader
    <3> QED
      BY <3>1
  <2> QED
    BY <2>1, <2>2, <2>3
<1>4. FunctionOn(rd', Readers)
  BY <1>2, <1>3 DEF FunctionOn
<1>5. suspended => \A t \in Readers : rd'[t].pc = "fly" => rd[t].pc = "fly"
  BY <1>2, <1>3 DEF FunctionOn
<1>6. Types'
  BY <1>1, <1>4 DEF Types, maps, copies, workers, control
<1>7. SameCopies
  BY <1>1 DEF SameCopies, Alike, maps, copies
<1> QED
  BY <1>1, <1>5, <1>6, <1>7 DEF UserEffect, Entered, maps, workers, control

LEMMA ResubmitStep ==
  ASSUME Types, NEW a \in Agents, Resubmit(a)
  PROVE  Types' /\ UserEffect
<1> DEFINE b == Head(again[a])
<1>1. /\ UNCHANGED <<worker, ending, pending, control, disk, rd, left>> /\ ~suspended
      /\ again[a] # <<>> /\ again' = [again EXCEPT ![a] = Tail(@)]
  BY DEF Resubmit
<1>2. again' \in [Agents -> Bios]
  <2>1. Tail(again[a]) \in Bios
    BY <1>1, HeadTailProperties DEF Types, Bios
  <2> QED
    BY <1>1, <2>1 DEF Types
<1>3. CASE b \in Requests /\ MapWrite(b, req[b]) /\ UNCHANGED disc
  <2>1. req[b] \in RequestRecords
    BY <1>3 DEF Types
  <2>2. /\ used' \in SUBSET Physical /\ cow' \in [CowIds -> CowRecords]
        /\ cows' \in Int /\ overflow' \in Bios /\ req' \in [Requests -> RequestRecords]
        /\ UNCHANGED <<origin, snaps, exc>>
        /\ SameCopies \/ \E i \in CowIds : Starts(i)
    <3> HIDE DEF b
    <3> QED
      BY <1>3, <2>1, MapWriteTypes
  <2> QED
    BY <1>1, <1>2, <1>3, <2>2 DEF Types, UserEffect, control
<1>4. CASE /\ b \in Origin /\ MapDiscard(b, disc[b].last)
           /\ UNCHANGED <<maps, cows, overflow, req>>
  <2>1. cow' \in [CowIds -> CowRecords] /\ SameCopies /\ FunctionOn(disc', Origin)
    <3> HIDE DEF b
    <3> QED
      BY <1>4, MapDiscardTypes DEF maps
  <2> QED
    BY <1>1, <1>2, <1>4, <2>1 DEF Types, UserEffect, maps, control
<1> QED
  BY <1>3, <1>4 DEF Resubmit

LEMMA UserSteps ==
  ASSUME Types, UserStep
  PROVE  Types' /\ UserEffect
BY SubmitWriteStep, SubmitReadStep, PerformStep, DiscardStep, TrimStep, ReaderStep,
   ResubmitStep DEF UserStep


LEMMA FiniteSets ==
  ASSUME Types
  PROVE  IsFiniteSet(BusyCows) /\ IsFiniteSet(ending)
<1>1. BusyCows \subseteq CowIds /\ ending \subseteq CowIds \cup {CommitWorker}
  BY DEF BusyCows, Types
<1>2. IsFiniteSet(CowIds) /\ IsFiniteSet(CowIds \cup {CommitWorker})
  BY Constants, FS_AddElement
<1> QED
  BY <1>1, <1>2, FS_Subset

\* The users' steps keep the books.
LEMMA UserKeeps ==
  ASSUME SnapInv, UserStep
  PROVE  SnapInv' /\ UserEffect
<1> USE DEF SnapInv
<1>1. Types' /\ UserEffect
  BY UserSteps
<1>2. UNCHANGED <<snaps, worker, pending, ending, cmd, hold, suspended>>
  BY <1>1 DEF UserEffect
<1>3. CASE SameCopies
  <2>1. /\ \A i \in CowIds : /\ cow'[i].pc = cow[i].pc /\ cow'[i].r = cow[i].r
                              /\ cow'[i].newP = cow[i].newP /\ cow'[i].oldP = cow[i].oldP
        /\ cows' = cows
    BY <1>3 DEF SameCopies, Alike
  <2>2. CowShape'
    BY <2>1 DEF CowShape
  <2>3. CommandShape'
    BY <1>1, <1>2, <2>1 DEF CommandShape, UserEffect, Stopped, Held, Active, Entered, InChain
  <2>4. WorkerShape'
    BY <1>2, <2>1 DEF WorkerShape, Lists, Acting, Next1
  <2>5. BusyCows' = BusyCows
    BY <2>1 DEF BusyCows
  <2>6. Count'
    BY <1>2, <2>1, <2>5 DEF Count
  <2> QED
    BY <1>1, <2>2, <2>3, <2>4, <2>6
<1>4. ASSUME NEW i \in CowIds, Starts(i) PROVE SnapInv'
  <2>1. /\ cow[i].pc = "free" /\ cow'[i].pc \in {"work", "write"} /\ ~hold
        /\ \A j \in CowIds : j # i => cow'[j] = cow[j]
        /\ cows' = cows + 1
    BY <1>4 DEF Starts
  <2>2. CowShape'
    <3>1. \/ cow'[i].pc = "work" /\ cow'[i].newP = None /\ cow'[i].oldP = None
          \/ cow'[i].pc = "write" /\ cow'[i].newP # None /\ cow'[i].oldP # None
      <4>1. CASE cow'[i].pc = "write"
        <5>1. cow'[i].newP \in Physical /\ cow'[i].oldP = origin[cow'[i].L]
          BY <1>4, <4>1 DEF Starts, Free
        <5>2. cow'[i].L \in Origin
          BY <1>1 DEF Types, CowRecords
        <5>3. origin[cow'[i].L] \in Physical
          BY <5>2 DEF Types
        <5> QED
          BY <4>1, <5>1, <5>3, Constants
      <4> QED
        BY <1>4, <4>1 DEF Starts
    <3>2. cow'[i].r \in Requests
      BY <1>4 DEF Starts
    <3> QED
      BY <2>1, <3>1, <3>2 DEF CowShape, HasRows
  <2>3. cmd.pc \notin Stopped
    BY <2>1 DEF CommandShape, Held, Stopped
  <2>4. CommandShape'
    BY <1>2, <2>3 DEF CommandShape, Held, Stopped, InChain
  <2>5. WorkerShape'
    BY <1>2, <2>1 DEF WorkerShape, Lists, Acting, Next1
  <2>6. BusyCows' = BusyCows \cup {i} /\ i \notin BusyCows
    BY <2>1 DEF BusyCows
  <2>7. Cardinality(BusyCows \cup {i}) = Cardinality(BusyCows) + 1
    BY <2>6, FiniteSets, FS_AddElement
  <2>8. Cardinality(BusyCows) \in Nat /\ Cardinality(ending) \in Nat
    BY FiniteSets, FS_CardinalityType
  <2>9. Count'
    BY <1>2, <2>1, <2>6, <2>7, <2>8 DEF Count
  <2> QED
    BY <1>1, <2>2, <2>4, <2>5, <2>9
<1> QED
  BY <1>1, <1>3, <1>4 DEF UserEffect

-----------------------------------------------------------------------------
(* Copies that end                                                          *)

\* Copy i ends; agent a has yet to submit again what waited for it.
Finishes(i, undo, a) ==
  /\ cow' = [cow EXCEPT ![i] = FreeCow]
  /\ ending' = ending \cup {a}
  /\ used' = IF undo THEN used \ {cow[i].newP} ELSE used

LEMMA FinishTypes ==
  ASSUME Types, NEW i \in CowIds, NEW st \in {"ok", "error"}, NEW undo \in BOOLEAN,
         NEW a \in CowIds \cup {CommitWorker}, FinishCow(i, st, undo, a)
  PROVE  /\ Finishes(i, undo, a)
         /\ used' \in SUBSET Physical /\ cow' \in [CowIds -> CowRecords]
         /\ again' \in [Agents -> Bios] /\ overflow' \in Bios
         /\ ending' \in SUBSET (CowIds \cup {CommitWorker})
         /\ req' \in [Requests -> RequestRecords]
<1>1. /\ cow[i].waiters \in Bios /\ overflow \in Bios /\ cow \in [CowIds -> CowRecords]
      /\ again \in [Agents -> Bios] /\ used \in SUBSET Physical
      /\ ending \in SUBSET (CowIds \cup {CommitWorker})
      /\ req \in [Requests -> RequestRecords]
  BY DEF Types, CowRecords
<1>2. cow[i].waiters \o overflow \in Bios /\ <<>> \in Bios
  BY <1>1, ConcatProperties, EmptySeq DEF Bios
<1>3. again' \in [Agents -> Bios] /\ overflow' \in Bios
  BY <1>1, <1>2 DEF FinishCow
<1>4. req' \in [Requests -> RequestRecords]
  BY <1>1, FreshTypes DEF FinishCow
<1>5. /\ cow' = [cow EXCEPT ![i] = FreeCow] /\ ending' = ending \cup {a}
      /\ used' = IF undo THEN used \ {cow[i].newP} ELSE used
  BY DEF FinishCow
<1>6. cow' \in [CowIds -> CowRecords]
  BY <1>1, <1>5, FreshTypes
<1> QED
  BY <1>1, <1>3, <1>4, <1>5, <1>6 DEF Finishes

\* A copy that ends is counted until its worker has sent again what waited.
LEMMA FinishCount ==
  ASSUME Types, Count, NEW i \in CowIds, NEW undo, NEW a \in CowIds \cup {CommitWorker},
         Finishes(i, undo, a), cow[i].pc # "free", a \notin ending, cows' = cows
  PROVE  Count'
<1>1. BusyCows' = BusyCows \ {i} /\ i \in BusyCows
  BY FreshTypes DEF BusyCows, Finishes, Types
<1>2. /\ Cardinality(BusyCows \ {i}) = Cardinality(BusyCows) - 1
      /\ Cardinality(ending \cup {a}) = Cardinality(ending) + 1
  BY <1>1, FiniteSets, FS_AddElement, FS_RemoveElement
<1>3. Cardinality(BusyCows) \in Nat /\ Cardinality(ending) \in Nat
  BY FiniteSets, FS_CardinalityType
<1> QED
  BY <1>1, <1>2, <1>3 DEF Count, Finishes

LEMMA FinishCows ==
  ASSUME Types, NEW i \in CowIds, NEW undo, NEW a, Finishes(i, undo, a)
  PROVE  /\ cow'[i].pc = "free" /\ cow'[i].newP = None
         /\ \A j \in CowIds \ {i} : cow'[j] = cow[j]
         /\ CowShape => CowShape'
BY FreshTypes DEF Types, Finishes, CowShape, HasRows

-----------------------------------------------------------------------------
(* The copy workers                                                         *)

LEMMA CowAllocKeeps ==
  ASSUME SnapInv, NEW i \in CowIds, CowAlloc(i)
  PROVE  SnapInv'
<1> USE DEF SnapInv
<1>1. /\ UNCHANGED <<origin, snaps, exc, cows, worker, pending, control, disk, disc, rd, left>>
      /\ cow[i].pc = "work" /\ i \notin ending
  BY DEF CowAlloc
<1>2. cmd.pc \notin Stopped
  BY <1>1 DEF CommandShape
<1>3. CASE FinishCow(i, "error", FALSE, i)
  <2>1. /\ Finishes(i, FALSE, i)
        /\ used' \in SUBSET Physical /\ cow' \in [CowIds -> CowRecords]
        /\ again' \in [Agents -> Bios] /\ overflow' \in Bios
        /\ ending' \in SUBSET (CowIds \cup {CommitWorker})
        /\ req' \in [Requests -> RequestRecords]
    BY <1>3, FinishTypes
  <2>2. Types'
    BY <1>1, <2>1 DEF Types, control
  <2>3. Count'
    BY <1>1, <2>1, FinishCount
  <2>4. /\ cow'[i].pc = "free"
        /\ \A j \in CowIds \ {i} : cow'[j] = cow[j]
        /\ CowShape'
    BY <2>1, FinishCows
  <2>5. CommandShape'
    BY <1>1, <1>2 DEF CommandShape, Held, Stopped, InChain, control
  <2>6. WorkerShape'
    BY <1>1, <2>1, <2>4, Constants DEF WorkerShape, Lists, Acting, Next1, control,
       Finishes, Command
  <2> QED
    BY <2>2, <2>3, <2>4, <2>5, <2>6
<1>4. CASE /\ \E P \in Free :
                /\ used' = used \cup {P}
                /\ cow' = [cow EXCEPT ![i].pc = "read", ![i].newP = P,
                                      ![i].oldP = origin[cow[i].L]]
           /\ UNCHANGED <<overflow, again, ending, req>>
  <2>1. PICK P \in Free :
          /\ used' = used \cup {P}
          /\ cow' = [cow EXCEPT ![i].pc = "read", ![i].newP = P,
                                ![i].oldP = origin[cow[i].L]]
    BY <1>4
  <2> DEFINE c == [cow[i] EXCEPT !.pc = "read", !.newP = P, !.oldP = origin[cow[i].L]]
  <2>2. c \in CowRecords /\ c.pc = "read" /\ c.newP = P /\ c.r = cow[i].r
        /\ c.oldP = origin[cow[i].L] /\ c.L = cow[i].L /\ c.oldP \in Physical
    BY DEF Types, CowRecords, CowPhases, RowOrNone, Free
  <2>3. cow' = [cow EXCEPT ![i] = c]
    BY <2>1
  <2> HIDE DEF c
  <2>4. cow'[i] = c /\ \A j \in CowIds \ {i} : cow'[j] = cow[j]
    BY <2>3 DEF Types
  <2>5. Types'
    <3>1. used' \in SUBSET Physical
      BY <2>1 DEF Types, Free
    <3>2. cow' \in [CowIds -> CowRecords]
      BY <2>2, <2>3 DEF Types
    <3> QED
      BY <1>1, <1>4, <3>1, <3>2 DEF Types, control
  <2>6. CowShape'
    BY <1>1, <2>2, <2>4, Constants DEF CowShape, HasRows, Free
  <2>7. CommandShape'
    BY <1>1, <1>2 DEF CommandShape, Held, Stopped, InChain, control
  <2>8. WorkerShape'
    BY <1>1, <1>4, <2>4 DEF WorkerShape, Lists, Acting, Next1, control
  <2>9. BusyCows' = BusyCows
    BY <1>1, <2>2, <2>4 DEF BusyCows
  <2>10. Count'
    BY <1>1, <1>4, <2>9 DEF Count
  <2> QED
    BY <2>5, <2>6, <2>7, <2>8, <2>10
<1> QED
  BY <1>3, <1>4 DEF CowAlloc

\* The copy's I/O goes on, or is over and its operation queued.
Continues(i) ==
  /\ cow[i].pc \in {"read", "write"}
  /\ \A j \in CowIds \ {i} : cow'[j] = cow[j]
  /\ cow'[i].r = cow[i].r /\ cow'[i].L = cow[i].L
  /\ cow'[i].oldP = cow[i].oldP /\ cow'[i].newP = cow[i].newP
  /\ \/ cow'[i].pc = "write" /\ pending' = pending
     \/ cow'[i].pc = "pend" /\ pending' = Append(pending, i)

LEMMA CowIoTypes ==
  ASSUME Types, CowShape, NEW i \in CowIds, CowRead(i) \/ CowWrite(i)
  PROVE  Types' /\ Continues(i)
         /\ UNCHANGED <<maps, cows, overflow, worker, again, ending, control, users>>
<1>1. /\ UNCHANGED <<maps, cows, overflow, worker, again, ending, control, users>>
      /\ cow[i].pc \in {"read", "write"}
  BY DEF CowRead, CowWrite
<1>2. /\ cow \in [CowIds -> CowRecords] /\ cow[i] \in CowRecords
      /\ disk \in [Physical -> Pairs] /\ req \in [Requests -> RequestRecords]
      /\ left \in Budget /\ pending \in Seq(Ops) /\ i \in Ops
  BY DEF Types, Ops
<1>3. ASSUME Fail(i), disk' = disk PROVE Types' /\ Continues(i)
  <2> DEFINE c == [cow[i] EXCEPT !.pc = "pend", !.ok = FALSE]
  <2>1. c \in CowRecords /\ Alike([c EXCEPT !.pc = cow[i].pc, !.ok = cow[i].ok], cow[i])
        /\ c.pc = "pend"
    BY <1>2 DEF CowRecords, CowPhases, Alike
  <2>2. cow' = [cow EXCEPT ![i] = c] /\ pending' = Append(pending, i)
    BY <1>3 DEF Fail
  <2>3. left' \in Budget
    <3>1. left.errors > 0 /\ left' = [left EXCEPT !.errors = @ - 1]
      BY <1>3 DEF Fail, SpendError
    <3>2. left.errors - 1 \in Nat
      BY <1>2, <3>1 DEF Budget
    <3>3. PICK n \in Nat : left' = [left EXCEPT !.errors = n]
      BY <3>1, <3>2
    <3> QED
      BY <1>2, <3>3 DEF Budget
  <2>4. pending' \in Seq(Ops)
    BY <1>2, <2>2, AppendProperties
  <2>5. c.r = cow[i].r /\ c.L = cow[i].L /\ c.oldP = cow[i].oldP /\ c.newP = cow[i].newP
    BY <1>2 DEF CowRecords
  <2> HIDE DEF c
  <2>6. Types'
    BY <1>1, <1>2, <1>3, <2>1, <2>2, <2>3, <2>4 DEF Types, maps, control, users
  <2> QED
    BY <1>1, <1>2, <2>1, <2>2, <2>5, <2>6 DEF Continues
<1>4. CASE /\ CowRead(i)
           /\ cow' = [cow EXCEPT ![i].pc = "write",
                                 ![i].buf = Written(disk[cow[i].oldP], req[cow[i].r])]
           /\ UNCHANGED <<pending, left>>
  <2> DEFINE c == [cow[i] EXCEPT !.pc = "write",
                                 !.buf = Written(disk[cow[i].oldP], req[cow[i].r])]
  <2>1. cow' = [cow EXCEPT ![i] = c] /\ disk' = disk
    BY <1>4 DEF CowRead
  <2>2. c \in CowRecords
    <3>1. Written(disk[cow[i].oldP], req[cow[i].r]) \in Pairs
      <4>1. cow[i].oldP \in Physical /\ cow[i].r \in Requests
        BY <1>1, <1>2 DEF CowShape, HasRows, CowRecords, RowOrNone
      <4>2. disk[cow[i].oldP] \in Pairs /\ req[cow[i].r] \in RequestRecords
        BY <1>2, <4>1
      <4> QED
        BY <4>2 DEF Written, Pairs, RequestRecords
    <3> QED
      BY <1>2, <3>1 DEF CowRecords, CowPhases
  <2>3. c.r = cow[i].r /\ c.L = cow[i].L /\ c.oldP = cow[i].oldP /\ c.newP = cow[i].newP
        /\ c.pc = "write"
    BY <1>2 DEF CowRecords
  <2> HIDE DEF c
  <2>4. Types'
    BY <1>1, <1>2, <1>4, <2>1, <2>2 DEF Types, maps, control, users
  <2> QED
    BY <1>1, <1>2, <1>4, <2>1, <2>3, <2>4 DEF Continues
<1>5. CASE /\ CowWrite(i)
           /\ disk' = [disk EXCEPT ![cow[i].newP] = cow[i].buf]
           /\ cow' = [cow EXCEPT ![i].pc = "pend"]
           /\ pending' = Append(pending, i)
           /\ UNCHANGED left
  <2> DEFINE c == [cow[i] EXCEPT !.pc = "pend"]
  <2>1. c \in CowRecords /\ c.pc = "pend"
        /\ c.r = cow[i].r /\ c.L = cow[i].L /\ c.oldP = cow[i].oldP /\ c.newP = cow[i].newP
    BY <1>2 DEF CowRecords, CowPhases
  <2>2. cow' = [cow EXCEPT ![i] = c]
    BY <1>5
  <2> HIDE DEF c
  <2>3. disk' \in [Physical -> Pairs] /\ pending' \in Seq(Ops)
    BY <1>2, <1>5, AppendProperties DEF CowRecords
  <2>4. Types'
    BY <1>1, <1>2, <1>5, <2>1, <2>2, <2>3 DEF Types, maps, control, users
  <2> QED
    BY <1>1, <1>2, <1>5, <2>1, <2>2, <2>4 DEF Continues
<1> QED
  BY <1>1, <1>3, <1>4, <1>5 DEF CowRead, CowWrite


LEMMA CowIoKeeps ==
  ASSUME SnapInv, NEW i \in CowIds, CowRead(i) \/ CowWrite(i)
  PROVE  SnapInv'
<1> USE DEF SnapInv
<1>1. /\ Types' /\ Continues(i)
      /\ UNCHANGED <<maps, cows, overflow, worker, again, ending, control, users>>
  BY CowIoTypes
<1>2. /\ cow[i].pc \in {"read", "write"} /\ cow'[i].pc \in {"write", "pend"}
      /\ cow'[i].r = cow[i].r /\ cow'[i].newP = cow[i].newP /\ cow'[i].oldP = cow[i].oldP
      /\ \A j \in CowIds : j # i => cow'[j] = cow[j]
  BY <1>1 DEF Continues
<1>3. CowShape'
  BY <1>2 DEF CowShape, HasRows
<1>4. cmd.pc \notin Stopped
  BY <1>2 DEF CommandShape
<1>5. CommandShape'
  BY <1>1, <1>4 DEF CommandShape, Held, Stopped, InChain, control, maps
<1>6. BusyCows' = BusyCows
  BY <1>2 DEF BusyCows
<1>7. Count'
  BY <1>1, <1>6 DEF Count
<1>8. ~In(i, pending) /\ ~In(i, worker.batch)
  BY <1>2 DEF WorkerShape, Lists
<1>9. WorkerShape'
  <2>1. worker' = worker /\ ending' = ending /\ cmd' = cmd
    BY <1>1 DEF control
  <2>2. CASE pending' = pending
    BY <1>2, <1>8, <2>1, <2>2 DEF WorkerShape, Lists, Acting, Next1
  <2>3. CASE cow'[i].pc = "pend" /\ pending' = Append(pending, i)
    <3>1. /\ \A x : In(x, pending') <=> In(x, pending) \/ x = i
          /\ Distinct(pending')
      <4>1. pending \in Seq(Ops) /\ i \in Ops /\ Distinct(pending)
        BY DEF Types, Ops, WorkerShape, Lists
      <4> QED
        BY <1>8, <2>3, <4>1, InAppend
    <3>2. Lists(pending)' /\ Lists(worker.batch)'
      BY <1>2, <1>8, <2>1, <2>3, <3>1, Constants DEF WorkerShape, Lists
    <3> QED
      BY <1>8, <2>1, <3>1, <3>2 DEF WorkerShape, Acting, Next1
  <2> QED
    BY <1>1, <2>2, <2>3 DEF Continues
<1> QED
  BY <1>1, <1>3, <1>5, <1>7, <1>9

LEMMA CowGoneKeeps ==
  ASSUME SnapInv, NEW a \in Agents, CowGone(a)
  PROVE  SnapInv'
<1> USE DEF SnapInv
<1>1. /\ UNCHANGED <<maps, cow, overflow, worker, again, pending, control, disk, users, left>>
      /\ a \in ending /\ ending' = ending \ {a} /\ cows' = cows - 1
  BY DEF CowGone
<1>2. Types'
  BY <1>1 DEF Types, maps, control, users
<1>3. CowShape'
  BY <1>1 DEF CowShape
<1>4. cmd.pc \notin Stopped
  BY <1>1 DEF CommandShape
<1>5. CommandShape'
  BY <1>1, <1>4 DEF CommandShape, Held, Stopped, InChain, control, maps
<1>6. WorkerShape'
  BY <1>1 DEF WorkerShape, Lists, Acting, Next1, control
<1>7. BusyCows' = BusyCows /\ Cardinality(ending \ {a}) = Cardinality(ending) - 1
  BY <1>1, FiniteSets, FS_RemoveElement DEF BusyCows
<1>8. Cardinality(BusyCows) \in Nat /\ Cardinality(ending) \in Nat
  BY FiniteSets, FS_CardinalityType
<1>9. Count'
  BY <1>1, <1>7, <1>8 DEF Count
<1> QED
  BY <1>2, <1>3, <1>5, <1>6, <1>9

-----------------------------------------------------------------------------
(* The commit worker                                                        *)

LEMMA EmptyList == Distinct(<<>>) /\ \A x : ~In(x, <<>>)
BY DEF Distinct, In

LEMMA CommitTakeKeeps ==
  ASSUME SnapInv, CommitTake
  PROVE  SnapInv'
<1> USE DEF SnapInv
<1>1. /\ UNCHANGED <<maps, copies, again, ending, control, disk, users, left>>
      /\ worker.pc = "idle" /\ pending' = <<>>
      /\ worker' = [worker EXCEPT !.pc = "build", !.batch = pending]
  BY DEF CommitTake
<1>2. /\ worker' \in WorkerRecords /\ worker'.pc = "build" /\ worker'.batch = pending
      /\ pending' \in Seq(Ops)
  BY <1>1, EmptySeq DEF Types, WorkerRecords
<1>3. Types'
  BY <1>1, <1>2 DEF Types, maps, copies, control, users
<1>4. CowShape' /\ Count'
  BY <1>1 DEF CowShape, Count, BusyCows, copies
<1>5. CommandShape'
  BY <1>1 DEF CommandShape, Held, Stopped, InChain, Active, control, maps, copies, users
<1>6. WorkerShape'
  BY <1>1, <1>2, EmptyList DEF WorkerShape, Lists, Acting, control, copies
<1> QED
  BY <1>3, <1>4, <1>5, <1>6

LEMMA CommitRecordKeeps ==
  ASSUME SnapInv, CommitRecord
  PROVE  SnapInv'
<1> USE DEF SnapInv
<1>1. /\ UNCHANGED <<maps, copies, again, ending, pending, cmd, hold, suspended, disk, users>>
      /\ worker.pc = "build"
  BY DEF CommitRecord
<1>2. /\ worker' \in WorkerRecords
      /\ worker'.batch = worker.batch
      /\ \/ worker'.pc = "idle" /\ worker.batch = <<>>
         \/ worker'.pc = "apply" /\ worker.batch # <<>>
      /\ broken' \in BOOLEAN
  <2>1. worker \in WorkerRecords /\ broken \in BOOLEAN
    BY DEF Types
  <2>2. CASE worker.batch = <<>> /\ worker' = IdleWorker /\ UNCHANGED broken
    BY <2>1, <2>2, EmptySeq DEF IdleWorker, WorkerRecords
  <2>3. ASSUME worker.batch # <<>>, broken' \in BOOLEAN, NEW out \in {"ok", "undo", "keep"},
               worker' = [worker EXCEPT !.pc = "apply", !.out = out]
        PROVE  /\ worker' \in WorkerRecords
               /\ worker'.batch = worker.batch
               /\ worker'.pc = "apply" /\ worker.batch # <<>>
    BY <2>1, <2>3 DEF WorkerRecords
  <2> QED
    BY <2>1, <2>2, <2>3 DEF CommitRecord
<1>3. left' \in Budget
  <2>1. left' = left \/ (left.errors > 0 /\ left' = [left EXCEPT !.errors = @ - 1])
    BY DEF CommitRecord, SpendError
  <2>2. left \in Budget
    BY DEF Types
  <2> QED
    BY <2>1, <2>2 DEF Budget
<1>4. Types'
  BY <1>1, <1>2, <1>3 DEF Types, maps, copies, users
<1>5. CowShape' /\ Count'
  BY <1>1 DEF CowShape, Count, BusyCows, copies
<1>6. CommandShape'
  BY <1>1 DEF CommandShape, Held, Stopped, InChain, Active, maps, copies, users
<1>7. WorkerShape'
  BY <1>1, <1>2 DEF WorkerShape, Lists, Acting, Next1, copies
<1> QED
  BY <1>4, <1>5, <1>6, <1>7

LEMMA CommitDropFailedKeeps ==
  ASSUME SnapInv, CommitDropFailed
  PROVE  /\ SnapInv'
         /\ \E k \in DOMAIN worker.batch :
              /\ worker.batch[k] \in CowIds
              /\ Finishes(worker.batch[k], TRUE, CommitWorker)
              /\ worker' = [worker EXCEPT !.batch = Without(worker.batch, k)]
<1> USE DEF SnapInv
<1> DEFINE b == worker.batch
           k == CHOOSE j \in Failed : \A m \in Failed : j <= m
           i == b[k]
<1>1. /\ UNCHANGED <<origin, snaps, exc, cows, pending, control, disk, disc, rd, left>>
      /\ worker.pc = "build" /\ CommitWorker \notin ending /\ Failed # {}
      /\ FinishCow(i, "error", TRUE, CommitWorker)
      /\ worker' = [worker EXCEPT !.batch = Without(b, k)]
  BY DEF CommitDropFailed, NotFinishing, Without
<1>2. b \in Seq(Ops) /\ worker \in WorkerRecords /\ Distinct(b)
  BY DEF Types, WorkerRecords, WorkerShape, Lists
<1>3. k \in DOMAIN b /\ b[k] # Command
  <2>1. DOMAIN b \subseteq Nat
    BY <1>2, LenProperties
  <2>2. Failed \in SUBSET Nat
    BY <2>1 DEF Failed
  <2>3. \E j \in Failed : \A m \in Failed : j <= m
    BY <1>1, <2>2, FirstExists
  <2>4. k \in Failed
    BY <2>3
  <2> QED
    BY <2>4 DEF Failed
<1>4. i \in CowIds /\ In(i, b)
  <2>1. k \in 1..Len(b)
    BY <1>2, <1>3, LenProperties
  <2>2. b[k] \in Ops
    BY <1>2, <2>1, ElementOfSeq
  <2> QED
    BY <1>3, <2>2 DEF Ops, In
<1>5. cow[i].pc = "pend"
  BY <1>4 DEF WorkerShape, Lists
<1>6. /\ Without(b, k) \in Seq(Ops) /\ Distinct(Without(b, k))
      /\ \A x : In(x, Without(b, k)) <=> In(x, b) /\ x # i
  BY <1>2, <1>3, InWithout
<1> DEFINE t == Without(b, k)
<1> HIDE DEF k, t
<1>7. worker' \in WorkerRecords /\ worker'.pc = "build" /\ worker'.batch = t
  BY <1>1, <1>2, <1>6 DEF WorkerRecords, t
<1>8. /\ Finishes(i, TRUE, CommitWorker)
      /\ used' \in SUBSET Physical /\ cow' \in [CowIds -> CowRecords]
      /\ again' \in [Agents -> Bios] /\ overflow' \in Bios
      /\ ending' \in SUBSET (CowIds \cup {CommitWorker})
      /\ req' \in [Requests -> RequestRecords]
  <2> HIDE DEF i
  <2> QED
    BY <1>1, <1>4, FinishTypes
<1> HIDE DEF i
<1>9. Types'
  BY <1>1, <1>7, <1>8 DEF Types, control
<1>10. Count'
  BY <1>1, <1>4, <1>5, <1>8, FinishCount
<1>11. /\ CowShape' /\ \A j \in CowIds \ {i} : cow'[j] = cow[j]
  BY <1>4, <1>8, FinishCows
<1>12. cmd.pc \notin Stopped
  BY <1>4, <1>5 DEF CommandShape
<1>13. CommandShape'
  BY <1>1, <1>12 DEF CommandShape, Held, Stopped, InChain, control
<1>14. WorkerShape'
  <2>1. ~In(i, pending) /\ pending' = pending /\ cmd' = cmd
    BY <1>1, <1>4 DEF WorkerShape, Ops, control
  <2>2. Lists(pending)'
    BY <1>11, <2>1 DEF WorkerShape, Lists
  <2>3. Lists(worker.batch)'
    BY <1>6, <1>7, <1>11, <2>1 DEF WorkerShape, Lists, t
  <2>4. \A x \in Ops : ~(In(x, pending') /\ In(x, worker'.batch))
    BY <1>6, <1>7, <2>1 DEF WorkerShape, t
  <2> QED
    BY <1>7, <2>2, <2>3, <2>4 DEF WorkerShape, Acting
<1> QED
  BY <1>1, <1>3, <1>4, <1>8, <1>9, <1>10, <1>11, <1>13, <1>14 DEF i


\* The operation at the head is done: the rest of the batch, or none.
Advances ==
  /\ worker' \in WorkerRecords
  /\ \/ worker'.pc = "idle" /\ worker'.batch = <<>>
     \/ worker'.pc = "apply" /\ worker'.batch # <<>> /\ worker'.out = worker.out
  /\ Distinct(worker'.batch)
  /\ \A x : In(x, worker'.batch) <=> In(x, worker.batch) /\ x # Next1

LEMMA BatchHead ==
  ASSUME Types, WorkerShape, worker.batch # <<>>
  PROVE  /\ Next1 \in Ops /\ In(Next1, worker.batch) /\ ~In(Next1, pending)
         /\ Next1 = Command => cmd.pc = "commit"
         /\ Next1 # Command => Next1 \in CowIds /\ cow[Next1].pc = "pend"
<1>1. worker.batch \in Seq(Ops)
  BY DEF Types, WorkerRecords
<1>2. Next1 \in Ops /\ In(Next1, worker.batch)
  BY <1>1, InTail DEF Next1
<1> QED
  BY <1>2 DEF WorkerShape, Lists, Ops

LEMMA NextOperationAdvances ==
  ASSUME Types, WorkerShape, worker.batch # <<>>, NextOperation
  PROVE  Advances
<1> DEFINE b == worker.batch
<1>1. worker \in WorkerRecords /\ b \in Seq(Ops) /\ Distinct(b) /\ b # <<>>
  BY DEF Types, WorkerRecords, WorkerShape, Lists
<1>2. /\ Tail(b) \in Seq(Ops) /\ Distinct(Tail(b)) /\ Len(Tail(b)) = Len(b) - 1
      /\ \A x : In(x, Tail(b)) <=> In(x, b) /\ x # Next1
      /\ Len(b) \in Nat /\ Len(b) # 0
  <2>1. /\ Tail(b) \in Seq(Ops) /\ Distinct(Tail(b))
        /\ \A x : In(x, Tail(b)) <=> In(x, b) /\ x # Head(b)
    BY <1>1, InTail
  <2>2. Len(Tail(b)) = Len(b) - 1 /\ Len(b) \in Nat /\ Len(b) # 0
    BY <1>1, HeadTailProperties, EmptySeq
  <2> QED
    BY <2>1, <2>2 DEF Next1
<1>3. CASE Len(b) = 1
  <2>1. Tail(b) = <<>>
    <3>1. Len(Tail(b)) = 0 /\ Tail(b) \in Seq(Ops)
      BY <1>2, <1>3
    <3> HIDE DEF b
    <3> QED
      BY <3>1, EmptySeq
  <2>2. worker' = IdleWorker
    BY <1>3 DEF NextOperation
  <2>3. /\ worker' \in WorkerRecords /\ worker'.pc = "idle" /\ worker'.batch = <<>>
    BY <2>2, EmptySeq DEF IdleWorker, WorkerRecords
  <2> QED
    BY <1>2, <2>1, <2>3 DEF Advances
<1>4. CASE Len(b) # 1
  <2>1. Tail(b) # <<>>
    <3>1. Len(Tail(b)) # 0
      BY <1>2, <1>4
    <3> QED
      BY <3>1, EmptySeq
  <2>2. worker' = [worker EXCEPT !.pc = "apply", !.batch = Tail(b)]
    BY <1>4 DEF NextOperation
  <2>3. /\ worker' \in WorkerRecords /\ worker'.pc = "apply" /\ worker'.batch = Tail(b)
        /\ worker'.out = worker.out
    <3>1. Tail(b) \in Seq(Ops)
      BY <1>2
    <3> QED
      BY <1>1, <2>2, <3>1 DEF WorkerRecords
  <2> QED
    BY <1>2, <2>1, <2>3 DEF Advances
<1> QED
  BY <1>3, <1>4

\* The copy at the head ends, and the batch goes on.
LEMMA FinishHead ==
  ASSUME SnapInv, worker.batch # <<>>, Next1 # Command, NextOperation,
         CommitWorker \notin ending, NEW st \in {"ok", "error"}, NEW undo \in BOOLEAN,
         FinishCow(Next1, st, undo, CommitWorker),
         UNCHANGED <<origin, snaps, exc, cows, pending, control, disk, disc, rd, left>>
  PROVE  SnapInv' /\ Finishes(Next1, undo, CommitWorker) /\ Advances
<1> USE DEF SnapInv
<1> DEFINE i == Next1
<1>1. i \in CowIds /\ cow[i].pc = "pend" /\ ~In(i, pending) /\ In(i, worker.batch)
  BY BatchHead
<1>2. Advances
  BY NextOperationAdvances
<1> HIDE DEF i
<1>3. /\ Finishes(i, undo, CommitWorker)
      /\ used' \in SUBSET Physical /\ cow' \in [CowIds -> CowRecords]
      /\ again' \in [Agents -> Bios] /\ overflow' \in Bios
      /\ ending' \in SUBSET (CowIds \cup {CommitWorker})
      /\ req' \in [Requests -> RequestRecords]
  BY <1>1, FinishTypes DEF i
<1>4. Types'
  BY <1>2, <1>3 DEF Types, control, Advances
<1>5. Count'
  BY <1>1, <1>3, FinishCount
<1>6. CowShape' /\ \A j \in CowIds \ {i} : cow'[j] = cow[j]
  BY <1>1, <1>3, FinishCows
<1>7. cmd.pc \notin Stopped
  BY <1>1 DEF CommandShape
<1>8. CommandShape'
  BY <1>7 DEF CommandShape, Held, Stopped, InChain, control
<1>9. WorkerShape'
  <2>1. pending' = pending /\ cmd' = cmd
    BY DEF control
  <2>2. Lists(pending)'
    BY <1>1, <1>6, <2>1 DEF WorkerShape, Lists
  <2>3. Lists(worker.batch)'
    BY <1>2, <1>6, <2>1 DEF WorkerShape, Lists, Advances, i
  <2>4. \A x \in Ops : ~(In(x, pending') /\ In(x, worker'.batch))
    BY <1>2, <2>1 DEF WorkerShape, Advances
  <2> QED
    BY <1>2, <2>2, <2>3, <2>4 DEF WorkerShape, Acting, Advances
<1> QED
  BY <1>2, <1>3, <1>4, <1>5, <1>6, <1>8, <1>9 DEF i

LEMMA FinishRedirectKeeps ==
  ASSUME SnapInv, FinishRedirect
  PROVE  SnapInv' /\ Finishes(Next1, FALSE, CommitWorker) /\ Advances
<1>1. /\ worker.batch # <<>> /\ Next1 # Command /\ CommitWorker \notin ending
      /\ FinishCow(Next1, "ok", FALSE, CommitWorker)
      /\ NextOperation
      /\ UNCHANGED <<origin, snaps, exc, cows, pending, control, disk, disc, rd, left>>
  BY DEF SnapInv, WorkerShape, Acting, FinishRedirect
<1> QED
  BY <1>1, FinishHead

\* The command has its record, or none: its operation leaves the batch.
CommandDone ==
  /\ worker.batch # <<>> /\ Next1 = Command
  /\ cmd' = [cmd EXCEPT !.pc = "applied"]
  /\ Advances
  /\ UNCHANGED <<origin, used, copies, again, ending, pending, hold, suspended, broken,
                 disk, users, left>>

LEMMA CommandDoneKeeps ==
  ASSUME SnapInv, CommandDone, snaps' \in Seq(Slots), exc' \in [Slots -> [Origin -> RowOrNone]]
  PROVE  SnapInv'
<1> USE DEF SnapInv
<1>1. /\ UNCHANGED <<origin, used, copies, again, ending, pending, hold, suspended, broken,
                     disk, users, left>>
      /\ Advances /\ Next1 = Command
  BY DEF CommandDone
<1>2. /\ cmd.pc = "commit" /\ ~In(Command, pending) /\ cmd \in CommandRecords
      /\ In(Command, worker.batch)
  BY <1>1, BatchHead DEF CommandDone, Types
<1>3. /\ cmd' \in CommandRecords /\ cmd'.pc = "applied" /\ cmd'.op = cmd.op /\ cmd'.g = cmd.g
  <2>1. cmd' = [cmd EXCEPT !.pc = "applied"]
    BY DEF CommandDone
  <2> QED
    BY <1>2, <2>1 DEF CommandRecords
<1>4. Types'
  BY <1>1, <1>3 DEF Types, Advances, copies, users
<1>5. CowShape' /\ Count'
  BY <1>1 DEF CowShape, Count, BusyCows, copies
<1>6. CommandShape'
  BY <1>1, <1>2, <1>3 DEF CommandShape, Held, Stopped, Active, copies, users
<1>7. WorkerShape'
  BY <1>1, <1>2, <1>3 DEF WorkerShape, Lists, Acting, Advances, copies
<1> QED
  BY <1>4, <1>5, <1>6, <1>7

LEMMA CommitFailedKeeps ==
  ASSUME SnapInv, CommitFailed
  PROVE  /\ SnapInv'
         /\ Advances
         /\ \/ Next1 # Command /\ Finishes(Next1, worker.out = "undo", CommitWorker)
            \/ UNCHANGED <<used, cow, ending>>
<1>1. /\ worker.batch # <<>> /\ CommitWorker \notin ending /\ NextOperation
      /\ UNCHANGED <<origin, snaps, exc, cows, pending, hold, suspended, broken, disk, disc,
                     rd, left>>
  BY DEF SnapInv, WorkerShape, CommitFailed, NotFinishing
<1>2. CASE Next1 = Command
  <2>1. /\ cmd' = [cmd EXCEPT !.pc = "applied"]
        /\ UNCHANGED <<used, cow, again, overflow, ending, req>>
    BY <1>2 DEF CommitFailed
  <2>2. Advances
    BY <1>1, NextOperationAdvances DEF SnapInv
  <2>3. CommandDone
    BY <1>1, <1>2, <2>1, <2>2 DEF CommandDone, copies, users
  <2>4. snaps' \in Seq(Slots) /\ exc' \in [Slots -> [Origin -> RowOrNone]]
    BY <1>1 DEF SnapInv, Types
  <2> QED
    BY <2>1, <2>2, <2>3, <2>4, CommandDoneKeeps
<1>3. CASE Next1 # Command
  <2>1. /\ FinishCow(Next1, "error", worker.out = "undo", CommitWorker)
        /\ UNCHANGED cmd
    BY <1>3 DEF CommitFailed
  <2> QED
    BY <1>1, <1>3, <2>1, FinishHead DEF control
<1> QED
  BY <1>2, <1>3


\* A step within an operation: the worker's phase changes, and the maps.
LEMMA PhaseKeeps ==
  ASSUME SnapInv, NEW ph \in {"half", "finish"}, worker.batch # <<>>,
         CommitWorker \notin ending,
         worker' = [worker EXCEPT !.pc = ph],
         ph = "finish" => Next1 # Command,
         ph = "half" /\ Next1 = Command => cmd.op = "destroy",
         origin' \in [Origin -> Physical], used' \in SUBSET Physical,
         exc' \in [Slots -> [Origin -> RowOrNone]], req' \in [Requests -> RequestRecords],
         \A r \in Requests : req'[r].pc = req[r].pc /\ req'[r].whole = req[r].whole,
         UNCHANGED <<snaps, copies, again, ending, pending, control, disk, disc, rd, left>>
  PROVE  SnapInv' /\ worker'.pc = ph /\ worker'.batch = worker.batch
<1> USE DEF SnapInv
<1>1. worker' \in WorkerRecords /\ worker'.pc = ph /\ worker'.batch = worker.batch
  BY DEF Types, WorkerRecords
<1>2. Types'
  BY <1>1 DEF Types, copies, control
<1>3. CowShape' /\ Count'
  BY DEF CowShape, Count, BusyCows, copies
<1>4. CommandShape'
  <2>1. UNCHANGED <<cmd, hold, suspended, snaps, cow, ending>>
    BY DEF control, copies
  <2>2. \A i \in CowIds : cow[i].pc # "free" => cow[i].r \in Requests
    BY DEF CowShape
  <2>3. Active' => Active
    BY <2>1, <2>2 DEF Active
  <2> QED
    BY <2>1, <2>3 DEF CommandShape, Held, Stopped, InChain
<1>5. WorkerShape'
  BY <1>1 DEF WorkerShape, Lists, Acting, Next1, copies, control
<1> QED
  BY <1>1, <1>2, <1>3, <1>4, <1>5

LEMMA ApplyExceptionKeeps ==
  ASSUME SnapInv, ApplyException
  PROVE  SnapInv' /\ worker'.pc = "half" /\ worker'.batch = worker.batch
<1>1. /\ worker.pc = "apply" /\ CommitWorker \notin ending /\ Next1 # Command
      /\ worker' = [worker EXCEPT !.pc = "half"]
      /\ exc' = [exc EXCEPT ![snaps[Len(snaps)]][cow[Next1].L] = cow[Next1].oldP]
      /\ UNCHANGED <<origin, used, snaps, copies, again, ending, pending, control, disk,
                     users, left>>
  BY DEF ApplyException, Applying, NotFinishing
<1>2. worker.batch # <<>>
  BY <1>1 DEF SnapInv, WorkerShape
<1>3. Next1 \in CowIds
  BY <1>1, <1>2, BatchHead DEF SnapInv
<1>4. cow[Next1].oldP \in RowOrNone
  BY <1>3 DEF SnapInv, Types, CowRecords
<1>5. exc' \in [Slots -> [Origin -> RowOrNone]]
  BY <1>1, <1>4 DEF SnapInv, Types
<1> QED
  BY <1>1, <1>2, <1>5, PhaseKeeps DEF SnapInv, Types, users

LEMMA ApplyOriginKeeps ==
  ASSUME SnapInv, ApplyOrigin
  PROVE  /\ SnapInv' /\ worker'.pc = "finish" /\ worker'.batch = worker.batch
         /\ Next1 \in CowIds /\ cow[Next1].pc = "pend"
<1>1. /\ worker.pc = "half" /\ Next1 # Command
      /\ worker' = [worker EXCEPT !.pc = "finish"]
      /\ origin' = [origin EXCEPT ![cow[Next1].L] = cow[Next1].newP]
      /\ used' = used \cup {cow[Next1].newP}
      /\ UNCHANGED <<snaps, exc, copies, again, ending, pending, control, disk, disc, rd, left>>
      /\ req' = Observed(req)
  BY DEF ApplyOrigin
<1>2. worker.batch # <<>> /\ CommitWorker \notin ending
  BY <1>1 DEF SnapInv, WorkerShape, Acting
<1>3. Next1 \in CowIds /\ cow[Next1].pc = "pend"
  BY <1>1, <1>2, BatchHead DEF SnapInv
<1>4. cow[Next1].newP \in Physical
  BY <1>3 DEF SnapInv, CowShape, HasRows, Types, CowRecords, RowOrNone
<1>5. origin' \in [Origin -> Physical] /\ used' \in SUBSET Physical
  BY <1>1, <1>4 DEF SnapInv, Types
<1>6. /\ req' \in [Requests -> RequestRecords]
      /\ \A r \in Requests : req'[r].pc = req[r].pc /\ req'[r].whole = req[r].whole
  BY <1>1, <1>5, ObservedTypes DEF SnapInv, Types
<1>7. SnapInv' /\ worker'.pc = "finish" /\ worker'.batch = worker.batch
  BY <1>1, <1>2, <1>5, <1>6, PhaseKeeps DEF SnapInv, Types
<1> QED
  BY <1>3, <1>7

LEMMA ApplyCreateKeeps ==
  ASSUME SnapInv, ApplyCreate
  PROVE  SnapInv' /\ CommandDone /\ cmd.g \in Slots /\ ~InChain(cmd.g)
<1>1. /\ worker.pc = "apply" /\ Next1 = Command /\ NextOperation /\ cmd.op = "create"
      /\ snaps' = Append(snaps, cmd.g)
      /\ exc' = [exc EXCEPT ![cmd.g] = [L \in Origin |-> None]]
      /\ cmd' = [cmd EXCEPT !.pc = "applied"]
      /\ UNCHANGED <<origin, used, copies, again, ending, pending, hold,
                     suspended, broken, disk, users, left>>
  BY DEF ApplyCreate, Applying
<1>2. worker.batch # <<>>
  BY <1>1 DEF SnapInv, WorkerShape
<1>3. cmd.pc = "commit" /\ Advances
  BY <1>1, <1>2, BatchHead, NextOperationAdvances DEF SnapInv
<1>4. cmd.g \in Slots /\ ~InChain(cmd.g)
  BY <1>1, <1>3 DEF SnapInv, CommandShape
<1>5. snaps' \in Seq(Slots)
  BY <1>1, <1>4, AppendProperties DEF SnapInv, Types
<1>6. exc' \in [Slots -> [Origin -> RowOrNone]]
  BY <1>1 DEF SnapInv, Types, RowOrNone
<1>7. CommandDone
  BY <1>1, <1>2, <1>3 DEF CommandDone
<1> QED
  BY <1>4, <1>5, <1>6, <1>7, CommandDoneKeeps

LEMMA ApplyDestroyRowsKeeps ==
  ASSUME SnapInv, ApplyDestroyRows
  PROVE  /\ SnapInv' /\ worker'.pc = "half" /\ worker'.batch = worker.batch
         /\ cmd.g \in Slots /\ InChain(cmd.g)
<1> DEFINE g == cmd.g
           moved == {L \in Origin : MovesToOlder(g, L)}
           freed == {L \in Origin : exc[g][L] # None} \ moved
<1>1. /\ worker.pc = "apply" /\ CommitWorker \notin ending /\ Next1 = Command
      /\ cmd.op = "destroy"
      /\ worker' = [worker EXCEPT !.pc = "half"]
      /\ exc' = IF ~HasOlder(g) THEN exc
                ELSE [exc EXCEPT ![snaps[Place(g) - 1]] =
                        [L \in Origin |-> IF L \in moved THEN exc[g][L] ELSE @[L]]]
      /\ used' = used \ {exc[g][L] : L \in freed}
      /\ UNCHANGED <<origin, snaps, copies, again, ending, pending, control, disk,
                     users, left>>
  BY DEF ApplyDestroyRows, Applying, NotFinishing
<1>2. worker.batch # <<>>
  BY <1>1 DEF SnapInv, WorkerShape
<1>3. cmd.pc = "commit"
  BY <1>1, <1>2, BatchHead DEF SnapInv
<1>4. g \in Slots /\ InChain(g)
  BY <1>1, <1>3 DEF SnapInv, CommandShape
<1>5. exc' \in [Slots -> [Origin -> RowOrNone]]
  <2> DEFINE old == snaps[Place(g) - 1]
             row == [L \in Origin |-> IF L \in moved THEN exc[g][L] ELSE exc[old][L]]
  <2>1. exc \in [Slots -> [Origin -> RowOrNone]]
    BY DEF SnapInv, Types
  <2>2. exc' = IF ~HasOlder(g) THEN exc ELSE [exc EXCEPT ![old] = row]
    BY <1>1
  <2>3. old \in Slots => row \in [Origin -> RowOrNone]
    <3> HIDE DEF moved, old, g
    <3> QED
      BY <1>4, <2>1
  <2> HIDE DEF old, row, g, moved
  <2> QED
    BY <2>1, <2>2, <2>3
<1>6. used' \in SUBSET Physical
  BY <1>1 DEF SnapInv, Types
<1> HIDE DEF g, moved, freed
<1>7. SnapInv' /\ worker'.pc = "half" /\ worker'.batch = worker.batch
  BY <1>1, <1>2, <1>5, <1>6, PhaseKeeps DEF SnapInv, Types, users
<1> QED
  BY <1>4, <1>7 DEF g

LEMMA PlaceInChain ==
  ASSUME NEW g, InChain(g)
  PROVE  Place(g) \in DOMAIN snaps /\ snaps[Place(g)] = g
BY DEF InChain, Place

LEMMA ApplyDestroyLinkKeeps ==
  ASSUME SnapInv, ApplyDestroyLink
  PROVE  /\ SnapInv' /\ CommandDone /\ cmd.g \in Slots /\ InChain(cmd.g)
         /\ snaps' = Without(snaps, Place(cmd.g))
<1>1. /\ worker.pc = "half" /\ Next1 = Command /\ NextOperation
      /\ snaps' = Without(snaps, Place(cmd.g))
      /\ exc' = [exc EXCEPT ![cmd.g] = [L \in Origin |-> None]]
      /\ cmd' = [cmd EXCEPT !.pc = "applied"]
      /\ UNCHANGED <<origin, used, copies, again, ending, pending, hold,
                     suspended, broken, disk, users, left>>
  BY DEF ApplyDestroyLink, Without
<1>2. worker.batch # <<>> /\ cmd.op = "destroy"
  BY <1>1 DEF SnapInv, WorkerShape
<1>3. cmd.pc = "commit" /\ Advances
  BY <1>1, <1>2, BatchHead, NextOperationAdvances DEF SnapInv
<1>4. cmd.g \in Slots /\ InChain(cmd.g)
  BY <1>2, <1>3 DEF SnapInv, CommandShape
<1>5. snaps' \in Seq(Slots)
  BY <1>1, <1>4, PlaceInChain, WithoutPlaces DEF SnapInv, Types
<1>6. exc' \in [Slots -> [Origin -> RowOrNone]]
  BY <1>1 DEF SnapInv, Types, RowOrNone
<1>7. CommandDone
  BY <1>1, <1>2, <1>3 DEF CommandDone
<1> QED
  BY <1>1, <1>4, <1>5, <1>6, <1>7, CommandDoneKeeps

-----------------------------------------------------------------------------
(* The commands                                                             *)

LEMMA StartCommandKeeps ==
  ASSUME SnapInv, Create \/ Destroy
  PROVE  SnapInv' /\ cmd.pc = "idle"
         /\ UNCHANGED <<maps, copies, workers, suspended, broken, disk, users>>
<1> USE DEF SnapInv
<1>1. PICK op \in {"create", "destroy"}, g \in Slots :
        (InChain(g) <=> op = "destroy") /\ StartCommand(op, g)
  BY DEF Create, Destroy
<1>2. /\ cmd.pc = "idle" /\ left.commands > 0
      /\ left' = [left EXCEPT !.commands = @ - 1]
      /\ cmd' = [pc |-> "hold", op |-> op, g |-> g]
      /\ hold' = TRUE
      /\ UNCHANGED <<maps, copies, workers, suspended, broken, disk, users>>
  BY <1>1 DEF StartCommand
<1>3. left' \in Budget
  <2>1. left \in Budget
    BY DEF Types
  <2> QED
    BY <1>2, <2>1 DEF Budget
<1>4. cmd' \in CommandRecords /\ cmd'.pc = "hold" /\ cmd'.op = op /\ cmd'.g = g
  BY <1>2, Constants DEF CommandRecords
<1>5. Types'
  BY <1>2, <1>3, <1>4 DEF Types, maps, copies, workers, users
<1>6. CowShape' /\ Count'
  BY <1>2 DEF CowShape, Count, BusyCows, copies, workers
<1>7. CommandShape'
  BY <1>1, <1>2, <1>4 DEF CommandShape, Held, Stopped, InChain, maps
<1>8. WorkerShape'
  <2>1. ~In(Command, pending) /\ ~In(Command, worker.batch)
    BY <1>2 DEF WorkerShape, Lists
  <2>2. worker.pc = "half" => Next1 # Command
    BY <1>2, BatchHead DEF WorkerShape
  <2> QED
    BY <1>2, <2>1, <2>2 DEF WorkerShape, Lists, Acting, Next1, workers, copies
<1> QED
  BY <1>2, <1>5, <1>6, <1>7, <1>8

LEMMA SuspendKeeps ==
  ASSUME SnapInv, Suspend
  PROVE  SnapInv' /\ UNCHANGED <<maps, copies, workers, hold, broken, disk, users>>
<1> USE DEF SnapInv
<1>1. /\ cmd.pc = "hold" /\ cows = 0
      /\ UNCHANGED <<maps, copies, workers, hold, broken, disk, users>>
      /\ \/ suspended' = TRUE /\ cmd' = [cmd EXCEPT !.pc = "suspend"]
         \/ cmd' = [cmd EXCEPT !.pc = "unhold"] /\ suspended' = suspended
  BY DEF Suspend, NoCows
<1>2. left' \in Budget
  <2>1. left \in Budget
    BY DEF Types
  <2>2. left' = left \/ (left.errors > 0 /\ left' = [left EXCEPT !.errors = @ - 1])
    BY DEF Suspend, SpendError
  <2> QED
    BY <2>1, <2>2 DEF Budget
<1>3. /\ cmd' \in CommandRecords /\ cmd'.op = cmd.op /\ cmd'.g = cmd.g
      /\ \/ cmd'.pc = "suspend" /\ suspended'
         \/ cmd'.pc = "unhold" /\ suspended' = suspended
  BY <1>1 DEF Types, CommandRecords
<1>4. Types'
  BY <1>1, <1>2, <1>3 DEF Types, maps, copies, workers, users
<1>5. CowShape' /\ Count'
  BY <1>1 DEF CowShape, Count, BusyCows, copies, workers
<1>6. BusyCows = {} /\ ending = {}
  <2>1. IsFiniteSet(BusyCows) /\ IsFiniteSet(ending)
    BY FiniteSets
  <2>2. Cardinality(BusyCows) \in Nat /\ Cardinality(ending) \in Nat
    BY <2>1, FS_CardinalityType
  <2>3. Cardinality(BusyCows) = 0 /\ Cardinality(ending) = 0
    BY <1>1, <2>2 DEF Count
  <2> QED
    BY <2>1, <2>3, FS_EmptySet
<1>7. CommandShape'
  BY <1>1, <1>3, <1>6 DEF CommandShape, Held, Stopped, InChain, BusyCows, maps, copies, workers
<1>8. WorkerShape'
  BY <1>1, <1>3 DEF WorkerShape, Lists, Acting, Next1, workers, copies
<1> QED
  BY <1>1, <1>4, <1>5, <1>7, <1>8

LEMMA SubmitCommandKeeps ==
  ASSUME SnapInv, SubmitCommand
  PROVE  SnapInv' /\ UNCHANGED <<maps, copies, worker, ending, broken, disk, users>>
<1> USE DEF SnapInv
<1>1. /\ cmd.pc = "suspend" /\ ~Active
      /\ pending' = Append(pending, Command)
      /\ cmd' = [cmd EXCEPT !.pc = "commit"]
      /\ UNCHANGED <<maps, copies, worker, again, ending, hold, suspended, broken,
                     disk, users, left>>
  BY DEF SubmitCommand
<1>2. cmd' \in CommandRecords /\ cmd'.pc = "commit" /\ cmd'.op = cmd.op /\ cmd'.g = cmd.g
  BY <1>1 DEF Types, CommandRecords
<1>3. ~In(Command, pending) /\ ~In(Command, worker.batch)
  BY <1>1 DEF WorkerShape, Lists
<1>4. /\ pending' \in Seq(Ops) /\ Distinct(pending')
      /\ \A x : In(x, pending') <=> In(x, pending) \/ x = Command
  <2>1. pending \in Seq(Ops) /\ Command \in Ops /\ Distinct(pending)
    BY DEF Types, Ops, WorkerShape, Lists
  <2> QED
    BY <1>1, <1>3, <2>1, InAppend, AppendProperties
<1>5. Types'
  BY <1>1, <1>2, <1>4 DEF Types, maps, copies, users
<1>6. CowShape' /\ Count'
  BY <1>1 DEF CowShape, Count, BusyCows, copies
<1>7. CommandShape'
  BY <1>1, <1>2 DEF CommandShape, Held, Stopped, InChain, Active, maps, copies, users
<1>8. WorkerShape'
  <2>1. Lists(pending)'
    BY <1>1, <1>2, <1>4, Constants DEF WorkerShape, Lists, copies
  <2>2. Lists(worker.batch)'
    BY <1>1, <1>3 DEF WorkerShape, Lists, copies
  <2> QED
    BY <1>1, <1>2, <1>3, <1>4, <2>1, <2>2 DEF WorkerShape, Acting, Next1
<1> QED
  BY <1>1, <1>5, <1>6, <1>7, <1>8

LEMMA EndingCommandKeeps ==
  ASSUME SnapInv, Resume \/ Unhold \/ EndCommand
  PROVE  SnapInv' /\ UNCHANGED <<maps, cow, cows, worker, ending, pending, broken, disk, users>>
<1> USE DEF SnapInv
<1>1. /\ UNCHANGED <<maps, cow, cows, worker, ending, pending, broken, disk, users, left>>
      /\ again' \in [Agents -> Bios] /\ overflow' \in Bios
      /\ suspended' \in BOOLEAN /\ hold' \in BOOLEAN
  <2>1. CASE Resume
    BY <2>1, EmptySeq DEF Resume, Types, Bios, copies, workers
  <2>2. CASE Unhold
    BY <2>2, EmptySeq DEF Unhold, Types, Bios, copies, workers
  <2>3. CASE EndCommand
    BY <2>3, EmptySeq DEF EndCommand, Types, Bios, copies, workers
  <2> QED
    BY <2>1, <2>2, <2>3
<1>2. cmd' \in CommandRecords
  BY DEF Resume, Unhold, EndCommand, Types, CommandRecords, IdleCommand, None
<1>3. CommandShape' /\ cmd.pc # "commit"
  <2>1. CASE Resume
    <3>1. /\ cmd.pc = "applied" /\ suspended' = FALSE /\ hold' = hold
          /\ cmd' = [cmd EXCEPT !.pc = "unhold"]
      BY <2>1 DEF Resume
    <3>2. cmd'.pc = "unhold" /\ cmd'.op = cmd.op /\ cmd'.g = cmd.g
      BY <3>1 DEF Types, CommandRecords
    <3> QED
      BY <3>1, <3>2 DEF CommandShape, Held, Stopped
  <2>2. CASE Unhold
    <3>1. /\ cmd.pc = "unhold" /\ hold' = FALSE /\ suspended' = suspended
          /\ cmd' = [cmd EXCEPT !.pc = "unheld"]
      BY <2>2 DEF Unhold
    <3>2. cmd'.pc = "unheld" /\ cmd'.op = cmd.op /\ cmd'.g = cmd.g
      BY <3>1 DEF Types, CommandRecords
    <3> QED
      BY <3>1, <3>2 DEF CommandShape, Held, Stopped
  <2>3. CASE EndCommand
    BY <2>3 DEF EndCommand, IdleCommand, CommandShape, Held, Stopped
  <2> QED
    BY <2>1, <2>2, <2>3
<1>4. Types'
  BY <1>1, <1>2 DEF Types, maps, users
<1>5. CowShape' /\ Count'
  BY <1>1 DEF CowShape, Count, BusyCows
<1>6. WorkerShape'
  <2>1. ~In(Command, pending) /\ ~In(Command, worker.batch)
    BY <1>3 DEF WorkerShape, Lists
  <2>2. worker.pc = "half" => Next1 # Command
    BY <1>3, BatchHead DEF WorkerShape
  <2> QED
    BY <1>1, <2>1, <2>2 DEF WorkerShape, Lists, Acting, Next1
<1> QED
  BY <1>1, <1>3, <1>4, <1>5, <1>6

-----------------------------------------------------------------------------
(* The record is written in a quiet array                                   *)

LEMMA InitSnapInv == Init => SnapInv
<1> SUFFICES ASSUME Init PROVE SnapInv
  OBVIOUS
<1>1. Types
  <2>1. <<>> \in Seq(Slots) /\ <<>> \in Bios /\ <<>> \in Seq(Ops)
    BY EmptySeq DEF Bios
  <2>2. /\ origin \in [Origin -> Physical] /\ used \in SUBSET Physical
        /\ disk \in [Physical -> Pairs]
    BY Constants DEF Init, Pairs, Junk
  <2>3. worker \in WorkerRecords /\ cmd \in CommandRecords
    BY <2>1 DEF Init, IdleWorker, WorkerRecords, IdleCommand, CommandRecords, None
  <2>4. left \in Budget
    BY SizeAssumption DEF Init, Budget
  <2>5. FunctionOn(disc, Origin) /\ FunctionOn(rd, Readers)
    BY DEF Init, FunctionOn
  <2>6. cow \in [CowIds -> CowRecords] /\ req \in [Requests -> RequestRecords]
    BY FreshTypes DEF Init
  <2>7. again \in [Agents -> Bios] /\ exc \in [Slots -> [Origin -> RowOrNone]]
    BY <2>1 DEF Init, RowOrNone
  <2>8. /\ snaps = <<>> /\ overflow = <<>> /\ pending = <<>> /\ cows = 0 /\ ending = {}
    BY DEF Init
  <2>9. hold \in BOOLEAN /\ broken \in BOOLEAN /\ suspended \in BOOLEAN
    BY DEF Init
  <2> QED
    BY <2>1, <2>2, <2>3, <2>4, <2>5, <2>6, <2>7, <2>8, <2>9 DEF Types
<1>2. CowShape
  BY FreshTypes DEF Init, CowShape, HasRows
<1>3. CommandShape
  BY DEF Init, CommandShape, IdleCommand, Held, Stopped
<1>4. WorkerShape
  BY EmptyList DEF Init, WorkerShape, Lists, IdleWorker, Acting
<1>5. Count
  <2>1. BusyCows = {}
    BY FreshTypes DEF Init, BusyCows
  <2> QED
    BY <2>1, FS_EmptySet DEF Init, Count
<1> QED
  BY <1>1, <1>2, <1>3, <1>4, <1>5 DEF SnapInv

\* The steps of the model, by what they do to the books.
LEMMA StepCases ==
  Next <=> \/ UserStep
           \/ \E i \in CowIds : CowAlloc(i) \/ CowRead(i) \/ CowWrite(i)
           \/ \E a \in Agents : CowGone(a)
           \/ Commit
           \/ Create \/ Destroy \/ Commands
BY DEF Next, Users, Array, Copying, UserStep

LEMMA SnapInvStep == SnapInv /\ [Next]_vars => SnapInv'
<1> SUFFICES ASSUME SnapInv, [Next]_vars PROVE SnapInv'
  OBVIOUS
<1>1. CASE UserStep
  BY <1>1, UserKeeps
<1>2. ASSUME NEW i \in CowIds, CowAlloc(i) \/ CowRead(i) \/ CowWrite(i) PROVE SnapInv'
  BY <1>2, CowAllocKeeps, CowIoKeeps
<1>3. ASSUME NEW a \in Agents, CowGone(a) PROVE SnapInv'
  BY <1>3, CowGoneKeeps
<1>4. CASE Commit
  BY <1>4, CommitTakeKeeps, CommitDropFailedKeeps, CommitRecordKeeps, CommitFailedKeeps,
     ApplyExceptionKeeps, ApplyOriginKeeps, FinishRedirectKeeps, ApplyCreateKeeps,
     ApplyDestroyRowsKeeps, ApplyDestroyLinkKeeps DEF Commit
<1>5. CASE Create \/ Destroy
  BY <1>5, StartCommandKeeps
<1>6. CASE Commands
  BY <1>6, SuspendKeeps, SubmitCommandKeeps, EndingCommandKeeps DEF Commands
<1>7. CASE UNCHANGED vars
  <2>1. UNCHANGED <<maps, copies, workers, control, disk, users, left>>
    BY <1>7 DEF vars
  <2>2. Types' /\ CowShape' /\ CommandShape'
    BY <2>1 DEF SnapInv, Types, CowShape, CommandShape, Held, Stopped, InChain, Active, maps,
       copies, workers, control, users
  <2>3. WorkerShape' /\ Count'
    BY <2>1 DEF SnapInv, WorkerShape, Lists, Acting, Next1, Count, BusyCows, copies,
       workers, control
  <2> QED
    BY <2>2, <2>3 DEF SnapInv
<1> QED
  BY <1>1, <1>2, <1>3, <1>4, <1>5, <1>6, <1>7, StepCases

\* The books of the copy-on-write engine agree at every step: the command's phase with
\* the hold and the suspension, the commit worker's lists with the copies, the count of
\* copies with those under way and those that end.
THEOREM SnapInvHolds == Spec => []SnapInv
<1> QED
  BY InitSnapInv, SnapInvStep, PTL DEF Spec

\* When the record of a create or a destroy is queued, and until the array is
\* resumed, no copy is under way, no bio is inside the array, and none gets in:
\* rk_sn_wait_cows and mddev_suspend together, whatever runs beside them.
THEOREM RecordIsQuiet == Spec => []QuietAtTheRecord
<1>1. SnapInv => QuietAtTheRecord
  BY DEF SnapInv, CommandShape, Stopped, QuietAtTheRecord
<1> QED
  BY <1>1, SnapInvHolds, PTL

-----------------------------------------------------------------------------
(* Whose the rows are. *)

Newest == snaps[Len(snaps)]

\* Whose a physical row is: the origin's, a snapshot's, or a copy's.
OHas(L, P) == origin[L] = P

SHas(g, L, P) ==
  /\ InChain(g)
  /\ exc[g][L] = P
  /\ ~(RedirectHalfDone(L) /\ g = Newest /\ origin[L] = P)
  /\ ~RowsHandedOn(g)

CHas(i, P) == cow[i].newP = P /\ origin[cow[i].L] # P

Once(P) ==
  /\ \A L, M \in Origin : OHas(L, P) /\ OHas(M, P) => L = M
  /\ \A g, h \in Slots, L, M \in Origin : SHas(g, L, P) /\ SHas(h, M, P) => g = h /\ L = M
  /\ \A i, j \in CowIds : CHas(i, P) /\ CHas(j, P) => i = j
  /\ \A L \in Origin, g \in Slots, M \in Origin : ~(OHas(L, P) /\ SHas(g, M, P))
  /\ \A L \in Origin, i \in CowIds : ~(OHas(L, P) /\ CHas(i, P))
  /\ \A g \in Slots, M \in Origin, i \in CowIds : ~(SHas(g, M, P) /\ CHas(i, P))

Claimed(P) ==
  \/ \E L \in Origin : OHas(L, P)
  \/ \E g \in Slots, L \in Origin : SHas(g, L, P)
  \/ \E i \in CowIds : CHas(i, P)

OwnShape ==
  \A P \in Physical :
    /\ Once(P)
    /\ Claimed(P) => P \in used
    /\ P \in used /\ ~broken => Claimed(P)

\* The commit worker is inside the operation of copy i.
Inside(i) == Acting /\ Next1 = i

\* One copy per row; until its operation is applied the newest snapshot shares
\* the row, and the origin still has the old one.
CopyShape ==
  /\ \A i, j \in CowIds :
       cow[i].pc # "free" /\ cow[j].pc # "free" /\ cow[i].L = cow[j].L => i = j
  /\ \A i \in CowIds :
       cow[i].pc # "free" =>
         /\ snaps # <<>>
         /\ exc[Newest][cow[i].L] = IF Inside(i) THEN cow[i].oldP ELSE None
  /\ \A i \in CowIds :
       cow[i].pc \in HasRows =>
         IF Inside(i) /\ worker.pc = "finish" THEN origin[cow[i].L] = cow[i].newP
         ELSE origin[cow[i].L] = cow[i].oldP /\ cow[i].oldP # cow[i].newP

ChainShape == Distinct(snaps)

\* An operation is refused only once no record can be written any more.
FailureShape == worker.pc \in {"apply", "half", "finish"} /\ worker.out # "ok" => broken

OwnInv == OwnShape /\ CopyShape /\ ChainShape /\ FailureShape

-----------------------------------------------------------------------------
(* Steps that move no row                                                   *)

SameClaims ==
  /\ used' = used
  /\ broken => broken'
  /\ \A P \in Physical :
       /\ \A L \in Origin : OHas(L, P)' <=> OHas(L, P)
       /\ \A g \in Slots, L \in Origin : SHas(g, L, P)' <=> SHas(g, L, P)
       /\ \A i \in CowIds : CHas(i, P)' <=> CHas(i, P)

LEMMA SameClaimsKeep ==
  ASSUME OwnShape, SameClaims
  PROVE  OwnShape'
BY DEF OwnShape, SameClaims, Once, Claimed

\* Nothing in the maps and the copies changes; the worker is between operations, or
\* its operation is not the command's.
LEMMA StillKeeps ==
  ASSUME SnapInv, OwnInv, UNCHANGED <<origin, used, snaps, exc>>, broken => broken',
         \A i \in CowIds : Alike(cow'[i], cow[i]),
         \/ ~Acting /\ ~Acting'
         \/ worker' = worker /\ (cmd' = cmd \/ cmd.pc # "commit"),
         FailureShape'
  PROVE  OwnInv'
<1> USE DEF OwnInv
<1>1. \A i \in CowIds : /\ cow'[i].pc = cow[i].pc /\ cow'[i].L = cow[i].L
                        /\ cow'[i].newP = cow[i].newP /\ cow'[i].oldP = cow[i].oldP
  BY DEF Alike
<1>2. \A i \in CowIds : Inside(i)' = Inside(i)
                        /\ (Inside(i) => worker'.pc = worker.pc)
  BY DEF Inside, Acting, Next1
<1>3. CopyShape'
  BY <1>1, <1>2 DEF CopyShape, Newest
<1>4. ChainShape'
  BY DEF ChainShape
<1>5. /\ \A L \in Origin : RedirectHalfDone(L)' <=> RedirectHalfDone(L)
      /\ \A g \in Slots : RowsHandedOn(g)' <=> RowsHandedOn(g)
  <2>1. CASE ~Acting /\ ~Acting'
    BY <2>1 DEF RedirectHalfDone, RowsHandedOn, Acting
  <2>2. CASE worker' = worker /\ (cmd' = cmd \/ cmd.pc # "commit")
    <3>1. /\ worker.pc = "half" /\ Next1 # Command => Next1 \in CowIds
          /\ worker.pc = "half" /\ Next1 = Command => cmd' = cmd
      BY <2>2, BatchHead DEF SnapInv, WorkerShape
    <3>2. Next1' = Next1
      BY <2>2 DEF Next1
    <3> QED
      BY <1>1, <2>2, <3>1, <3>2 DEF RedirectHalfDone, RowsHandedOn
  <2> QED
    BY <2>1, <2>2
<1>6. SameClaims
  BY <1>1, <1>5 DEF SameClaims, OHas, SHas, CHas, InChain, Newest
<1> QED
  BY <1>3, <1>4, <1>6, SameClaimsKeep

\* The claims that a step on one copy leaves alone.
LEMMA OtherClaims ==
  ASSUME SnapInv, NEW i \in CowIds, UNCHANGED <<origin, snaps, exc>>,
         \A j \in CowIds \ {i} : Alike(cow'[j], cow[j]),
         \/ worker.pc # "half" /\ worker'.pc # "half"
         \/ UNCHANGED <<worker, cmd>> /\ cow[i].pc # "pend"
  PROVE  \A P \in Physical :
           /\ \A L \in Origin : OHas(L, P)' <=> OHas(L, P)
           /\ \A g \in Slots, L \in Origin : SHas(g, L, P)' <=> SHas(g, L, P)
           /\ \A j \in CowIds \ {i} : CHas(j, P)' <=> CHas(j, P)
<1>1. /\ \A L \in Origin : RedirectHalfDone(L)' <=> RedirectHalfDone(L)
      /\ \A g \in Slots : RowsHandedOn(g)' <=> RowsHandedOn(g)
  <2>1. CASE worker.pc # "half" /\ worker'.pc # "half"
    BY <2>1 DEF RedirectHalfDone, RowsHandedOn
  <2>2. CASE UNCHANGED <<worker, cmd>> /\ cow[i].pc # "pend"
    <3>1. worker.pc = "half" /\ Next1 # Command => Next1 \in CowIds \ {i}
      BY <2>2, BatchHead DEF SnapInv, WorkerShape
    <3>2. Next1' = Next1
      BY <2>2 DEF Next1
    <3>3. \A j \in CowIds \ {i} : cow'[j].L = cow[j].L
      BY DEF Alike
    <3> QED
      BY <2>2, <3>1, <3>2, <3>3 DEF RedirectHalfDone, RowsHandedOn
  <2> QED
    BY <2>1, <2>2
<1>2. \A j \in CowIds \ {i} : cow'[j].L = cow[j].L /\ cow'[j].newP = cow[j].newP
  BY DEF Alike
<1> QED
  BY <1>1, <1>2 DEF OHas, SHas, CHas, InChain, Newest

\* A copy that has no new row claims none.
LEMMA NoRowNoClaim ==
  ASSUME NEW i \in CowIds, NEW P \in Physical, cow[i].newP = None
  PROVE  ~CHas(i, P)
BY Constants DEF CHas

\* A free row becomes a copy's.
LEMMA TakeKeepsOwners ==
  ASSUME SnapInv, OwnShape, NEW i \in CowIds, NEW P \in Free,
         UNCHANGED <<origin, snaps, exc, worker, cmd, broken>>,
         \A j \in CowIds \ {i} : Alike(cow'[j], cow[j]),
         cow[i].newP = None, cow'[i].newP = P, cow'[i].L \in Origin, cow[i].pc # "pend",
         used' = used \cup {P}
  PROVE  OwnShape'
<1>1. P \in Physical /\ P \notin used
  BY DEF Free
<1>2. \A Q \in Physical :
        /\ \A L \in Origin : OHas(L, Q)' <=> OHas(L, Q)
        /\ \A g \in Slots, L \in Origin : SHas(g, L, Q)' <=> SHas(g, L, Q)
        /\ \A j \in CowIds \ {i} : CHas(j, Q)' <=> CHas(j, Q)
  BY OtherClaims
<1>3. ~Claimed(P)
  BY <1>1 DEF OwnShape
<1>4. origin[cow'[i].L] # P
  BY <1>3 DEF Claimed, OHas
<1>5. \A Q \in Physical : ~CHas(i, Q) /\ (CHas(i, Q)' <=> Q = P)
  BY <1>4, NoRowNoClaim DEF CHas
<1>6. ASSUME NEW Q \in Physical, Q # P
      PROVE  Once(Q)' /\ (Claimed(Q)' <=> Claimed(Q))
  <2>1. \A j \in CowIds : CHas(j, Q)' <=> CHas(j, Q)
    BY <1>2, <1>5, <1>6
  <2> QED
    BY <1>2, <2>1 DEF OwnShape, Once, Claimed
<1>7. Once(P)' /\ Claimed(P)'
  <2>1. /\ \A L \in Origin : ~OHas(L, P)'
        /\ \A g \in Slots, L \in Origin : ~SHas(g, L, P)'
        /\ \A j \in CowIds : CHas(j, P)' <=> j = i
    BY <1>1, <1>2, <1>3, <1>5 DEF Claimed
  <2> QED
    BY <2>1 DEF Once, Claimed
<1> QED
  BY <1>1, <1>6, <1>7 DEF OwnShape

LEMMA CopyRow ==
  ASSUME SnapInv, OwnInv, NEW i \in CowIds, cow[i].pc \in HasRows
  PROVE  /\ cow[i].L \in Origin /\ cow[i].newP \in Physical /\ cow[i].oldP \in Physical
         /\ ~(Inside(i) /\ worker.pc = "finish") => CHas(i, cow[i].newP)
BY DEF SnapInv, OwnInv, Types, CowRecords, RowOrNone, CowShape, CopyShape, CHas

LEMMA InsideIsPending ==
  ASSUME SnapInv, NEW i \in CowIds, Inside(i)
  PROVE  cow[i].pc = "pend"
<1>1. worker.batch # <<>>
  BY DEF SnapInv, WorkerShape, Inside, Acting
<1> QED
  BY <1>1, BatchHead, Constants DEF SnapInv, Inside

LEMMA UserOwns ==
  ASSUME SnapInv, OwnInv, UserStep
  PROVE  OwnInv'
<1> USE DEF OwnInv
<1>1. UserEffect /\ Types'
  BY UserSteps DEF SnapInv
<1>2. UNCHANGED <<origin, snaps, exc, worker, cmd, broken>>
  BY <1>1 DEF UserEffect
<1>3. FailureShape'
  BY <1>2 DEF FailureShape
<1>4. CASE SameCopies
  BY <1>2, <1>3, <1>4, StillKeeps DEF SameCopies
<1>5. ASSUME NEW i \in CowIds, Starts(i) PROVE OwnInv'
  <2>1. /\ cow[i].pc = "free" /\ cow'[i].pc \in {"work", "write"}
        /\ \A j \in CowIds \ {i} : cow'[j] = cow[j]
        /\ Shared(cow'[i].L) /\ ~Busy(cow'[i].L) /\ cow'[i].L \in Origin
        /\ cow[i].newP = None
    BY <1>1, <1>5 DEF Starts, Types, CowRecords, SnapInv, CowShape, HasRows
  <2>2. \A j \in CowIds \ {i} : Alike(cow'[j], cow[j])
    BY <2>1 DEF Alike
  <2>3. OwnShape'
    <3>1. CASE cow'[i].newP = None /\ used' = used
      <4>1. \A P \in Physical : ~CHas(i, P) /\ ~CHas(i, P)'
        BY <2>1, <3>1, Constants DEF CHas
      <4>2. SameClaims
        BY <1>2, <2>1, <2>2, <3>1, <4>1, OtherClaims DEF SameClaims
      <4> QED
        BY <4>2, SameClaimsKeep
    <3>2. CASE cow'[i].newP \in Free /\ used' = used \cup {cow'[i].newP}
      BY <1>2, <2>1, <2>2, <3>2, TakeKeepsOwners
    <3> QED
      BY <1>5, <3>1, <3>2 DEF Starts
  <2>4. CopyShape'
    <3>1. \A j \in CowIds : Inside(j)' <=> Inside(j)
      BY <1>2 DEF Inside, Acting, Next1
    <3>2. ~Inside(i)
      BY <2>1, InsideIsPending
    <3>3. \A j \in CowIds \ {i} : cow[j].pc # "free" => cow[j].L # cow'[i].L
      BY <2>1 DEF Busy
    <3>4. snaps # <<>> /\ exc[Newest][cow'[i].L] = None
      BY <2>1 DEF Shared, Newest
    <3>5. cow'[i].pc \in HasRows =>
            origin[cow'[i].L] = cow'[i].oldP /\ cow'[i].oldP # cow'[i].newP
      <4>1. origin[cow'[i].L] \in used
        <5>1. OHas(cow'[i].L, origin[cow'[i].L]) /\ origin[cow'[i].L] \in Physical
          BY <2>1 DEF OHas, SnapInv, Types
        <5> QED
          BY <2>1, <5>1 DEF OwnShape, Claimed
      <4> QED
        BY <1>5, <4>1 DEF Starts, HasRows, Free
    <3>6. Newest' = Newest
      BY <1>2 DEF Newest
    <3> QED
      BY <1>2, <2>1, <3>1, <3>2, <3>3, <3>4, <3>5, <3>6 DEF CopyShape
  <2> QED
    BY <1>2, <1>3, <2>3, <2>4 DEF ChainShape
<1> QED
  BY <1>1, <1>4, <1>5 DEF UserEffect

-----------------------------------------------------------------------------
(* Copies: a row is taken, and given back                                   *)

\* Copy i ends: its new row is free again, or no copy's, or the origin's already.
LEMMA FinishOwns ==
  ASSUME SnapInv, SnapInv', OwnInv, NEW i \in CowIds, NEW undo \in BOOLEAN, NEW a,
         Finishes(i, undo, a), UNCHANGED <<origin, snaps, exc, broken>>,
         \/ worker.pc # "half" /\ ~Acting'
            /\ \A j \in CowIds \ {i} : ~Inside(j)
         \/ UNCHANGED <<worker, cmd>> /\ cow[i].pc = "work" /\ ~undo,
         undo => cow[i].pc = "pend" /\ ~Acting,
         cow[i].pc \in HasRows /\ ~undo => broken \/ (Inside(i) /\ worker.pc = "finish"),
         FailureShape'
  PROVE  OwnInv'
<1> USE DEF OwnInv
<1>1. /\ cow'[i].pc = "free" /\ cow'[i].newP = None
      /\ \A j \in CowIds \ {i} : cow'[j] = cow[j]
  BY FinishCows DEF SnapInv
<1>2. \A j \in CowIds \ {i} : Alike(cow'[j], cow[j])
  BY <1>1 DEF Alike
<1>3. \A Q \in Physical :
        /\ \A L \in Origin : OHas(L, Q)' <=> OHas(L, Q)
        /\ \A g \in Slots, L \in Origin : SHas(g, L, Q)' <=> SHas(g, L, Q)
        /\ \A j \in CowIds \ {i} : CHas(j, Q)' <=> CHas(j, Q)
  BY <1>2, OtherClaims DEF Acting
<1>4. \A Q \in Physical : ~CHas(i, Q)'
  BY <1>1, Constants DEF CHas
<1>5. \A Q \in Physical : Once(Q)' /\ (Claimed(Q)' => Claimed(Q))
  BY <1>3, <1>4 DEF OwnShape, Once, Claimed
<1>6. OwnShape'
  <2>1. CASE undo
    <3>1. PICK P \in Physical : P = cow[i].newP /\ CHas(i, P) /\ used' = used \ {P}
      BY <2>1, CopyRow DEF HasRows, Finishes, Acting
    <3>2. \A Q \in Physical : CHas(i, Q) => Q = P
      BY <3>1 DEF CHas
    <3>3. ~Claimed(P)'
      BY <1>3, <1>4, <3>1 DEF OwnShape, Once, Claimed
    <3>4. \A Q \in Physical : Q # P => (Claimed(Q) => Claimed(Q)')
      BY <1>3, <3>2 DEF Claimed
    <3> QED
      BY <1>5, <3>1, <3>3, <3>4 DEF OwnShape
  <2>2. CASE ~undo
    <3>1. used' = used
      BY <2>2 DEF Finishes
    <3>2. CASE broken
      BY <1>5, <3>1, <3>2 DEF OwnShape
    <3>3. CASE ~broken
      <4>1. \A Q \in Physical : ~CHas(i, Q)
        <5>1. CASE cow[i].pc \in HasRows
          <6>1. Inside(i) /\ worker.pc = "finish"
            BY <2>2, <3>3, <5>1
          <6>2. origin[cow[i].L] = cow[i].newP
            BY <5>1, <6>1 DEF CopyShape
          <6> QED
            BY <6>2 DEF CHas
        <5>2. CASE cow[i].pc \notin HasRows
          BY <5>2, NoRowNoClaim DEF SnapInv, CowShape
        <5> QED
          BY <5>1, <5>2
      <4>2. \A Q \in Physical : Claimed(Q) => Claimed(Q)'
        BY <1>3, <4>1 DEF Claimed
      <4> QED
        BY <1>5, <3>1, <4>2 DEF OwnShape
    <3> QED
      BY <3>2, <3>3
  <2> QED
    BY <2>1, <2>2
<1>7. CopyShape'
  <2>1. \A j \in CowIds \ {i} : Inside(j)' <=> Inside(j)
    BY DEF Inside, Acting, Next1
  <2>2. \A j \in CowIds \ {i} : Inside(j) => worker'.pc = worker.pc
    OBVIOUS
  <2>3. Newest' = Newest
    BY DEF Newest
  <2> QED
    BY <1>1, <2>1, <2>2, <2>3, Constants DEF CopyShape, HasRows
<1>8. ChainShape'
  BY DEF ChainShape
<1> QED
  BY <1>6, <1>7, <1>8

LEMMA CowAllocOwns ==
  ASSUME SnapInv, OwnInv, NEW i \in CowIds, CowAlloc(i)
  PROVE  OwnInv'
<1> USE DEF OwnInv
<1>1. /\ UNCHANGED <<origin, snaps, exc, worker, cmd, broken>>
      /\ cow[i].pc = "work"
  BY DEF CowAlloc, control
<1>2. SnapInv' /\ FailureShape'
  BY <1>1, CowAllocKeeps DEF FailureShape
<1>3. CASE FinishCow(i, "error", FALSE, i)
  <2>1. Finishes(i, FALSE, i)
    BY <1>3 DEF FinishCow, Finishes
  <2> QED
    BY <1>1, <1>2, <2>1, FinishOwns DEF HasRows
<1>4. CASE \E P \in Free :
             /\ used' = used \cup {P}
             /\ cow' = [cow EXCEPT ![i].pc = "read", ![i].newP = P,
                                   ![i].oldP = origin[cow[i].L]]
  <2>1. PICK P \in Free :
          /\ used' = used \cup {P}
          /\ cow' = [cow EXCEPT ![i].pc = "read", ![i].newP = P,
                                ![i].oldP = origin[cow[i].L]]
    BY <1>4
  <2>2. cow \in [CowIds -> CowRecords]
    BY DEF SnapInv, Types
  <2>3. /\ cow'[i].pc = "read" /\ cow'[i].newP = P /\ cow'[i].L = cow[i].L
        /\ cow'[i].oldP = origin[cow[i].L] /\ cow[i].L \in Origin
        /\ \A j \in CowIds \ {i} : cow'[j] = cow[j]
    BY <2>1, <2>2 DEF CowRecords
  <2>4. cow[i].newP = None
    BY <1>1 DEF SnapInv, CowShape, HasRows
  <2>5. \A j \in CowIds \ {i} : Alike(cow'[j], cow[j])
    BY <2>3 DEF Alike
  <2>6. OwnShape'
    BY <1>1, <2>1, <2>3, <2>4, <2>5, TakeKeepsOwners
  <2>7. origin[cow[i].L] # P
    <3>1. OHas(cow[i].L, origin[cow[i].L]) /\ origin[cow[i].L] \in Physical
      BY <2>3 DEF OHas, SnapInv, Types
    <3> QED
      BY <2>3, <3>1 DEF OwnShape, Claimed, Free
  <2>8. CopyShape'
    <3>1. \A j \in CowIds : Inside(j)' <=> Inside(j)
      BY <1>1 DEF Inside, Acting, Next1
    <3>2. ~Inside(i)
      BY <1>1, InsideIsPending
    <3>3. Newest' = Newest
      BY <1>1 DEF Newest
    <3> QED
      BY <1>1, <2>3, <2>7, <3>1, <3>2, <3>3 DEF CopyShape
  <2> QED
    BY <1>1, <1>2, <2>6, <2>8 DEF ChainShape
<1> QED
  BY <1>3, <1>4 DEF CowAlloc

LEMMA CowIoOwns ==
  ASSUME SnapInv, OwnInv, NEW i \in CowIds, CowRead(i) \/ CowWrite(i)
  PROVE  OwnInv'
<1> USE DEF OwnInv
<1>1. /\ Continues(i)
      /\ UNCHANGED <<origin, used, snaps, exc, worker, cmd, broken>>
  BY CowIoTypes DEF SnapInv, maps, control
<1>2. /\ cow[i].pc \in {"read", "write"} /\ cow'[i].pc \in {"write", "pend"}
      /\ cow'[i].L = cow[i].L
      /\ cow'[i].newP = cow[i].newP /\ cow'[i].oldP = cow[i].oldP
      /\ \A j \in CowIds \ {i} : cow'[j] = cow[j]
  BY <1>1 DEF Continues
<1>3. \A j \in CowIds \ {i} : Alike(cow'[j], cow[j])
  BY <1>2 DEF Alike
<1>4. SameClaims
  <2>1. \A P \in Physical : CHas(i, P)' <=> CHas(i, P)
    BY <1>1, <1>2 DEF CHas
  <2> QED
    BY <1>1, <1>2, <1>3, <2>1, OtherClaims DEF SameClaims
<1>5. CopyShape'
  <2>1. \A j \in CowIds : Inside(j)' <=> Inside(j)
    BY <1>1 DEF Inside, Acting, Next1
  <2>2. ~Inside(i)
    BY <1>2, InsideIsPending
  <2>3. Newest' = Newest
    BY <1>1 DEF Newest
  <2> QED
    BY <1>1, <1>2, <2>1, <2>2, <2>3 DEF CopyShape, HasRows
<1> QED
  BY <1>1, <1>4, <1>5, SameClaimsKeep DEF ChainShape, FailureShape


-----------------------------------------------------------------------------
(* The commit worker: batches and failures                                  *)

LEMMA BatchOwns ==
  ASSUME SnapInv, OwnInv, CommitTake \/ CommitRecord
  PROVE  OwnInv'
<1> USE DEF OwnInv
<1>1. UNCHANGED <<origin, used, snaps, exc, cow>> /\ ~Acting
  BY DEF CommitTake, CommitRecord, maps, copies, Acting
<1>2. broken => broken'
  BY DEF CommitTake, CommitRecord, control
<1>3. ~Acting' /\ FailureShape'
  <2>1. worker \in WorkerRecords
    BY DEF SnapInv, Types
  <2>2. CASE CommitTake
    BY <2>1, <2>2 DEF CommitTake, WorkerRecords, Acting, FailureShape
  <2>3. CASE CommitRecord
    <3>1. CASE worker' = IdleWorker
      BY <3>1 DEF IdleWorker, Acting, FailureShape
    <3>2. ASSUME NEW out \in {"ok", "undo", "keep"}, out # "ok" => broken',
                 worker' = [worker EXCEPT !.pc = "apply", !.out = out]
          PROVE  ~Acting' /\ FailureShape'
      <4>1. worker'.pc = "apply" /\ worker'.out = out
        BY <2>1, <3>2 DEF WorkerRecords
      <4> QED
        BY <3>2, <4>1 DEF Acting, FailureShape
    <3> QED
      BY <2>3, <3>1, <3>2 DEF CommitRecord
  <2> QED
    BY <2>2, <2>3
<1>4. \A i \in CowIds : Alike(cow'[i], cow[i])
  BY <1>1 DEF Alike
<1> QED
  BY <1>1, <1>2, <1>3, <1>4, StillKeeps

LEMMA CommitDropFailedOwns ==
  ASSUME SnapInv, OwnInv, CommitDropFailed
  PROVE  OwnInv'
<1>1. PICK k \in DOMAIN worker.batch :
        /\ worker.batch[k] \in CowIds
        /\ Finishes(worker.batch[k], TRUE, CommitWorker)
        /\ worker' = [worker EXCEPT !.batch = Without(worker.batch, k)]
  BY CommitDropFailedKeeps
<1>2. PICK i \in CowIds : i = worker.batch[k]
  BY <1>1
<1>3. UNCHANGED <<origin, snaps, exc, broken>> /\ worker.pc = "build" /\ SnapInv'
  BY CommitDropFailedKeeps DEF CommitDropFailed, control
<1>4. cow[i].pc = "pend"
  BY <1>2 DEF SnapInv, WorkerShape, Lists, In
<1>5. worker'.pc = "build"
  BY <1>1, <1>3 DEF SnapInv, Types, WorkerRecords
<1>6. ~Acting /\ ~Acting' /\ FailureShape'
  BY <1>3, <1>5 DEF Acting, FailureShape
<1> QED
  BY <1>1, <1>2, <1>3, <1>4, <1>6, FinishOwns DEF Inside

LEMMA FinishRedirectOwns ==
  ASSUME SnapInv, OwnInv, FinishRedirect
  PROVE  OwnInv'
<1>1. SnapInv' /\ Finishes(Next1, FALSE, CommitWorker) /\ Advances
  BY FinishRedirectKeeps
<1>2. UNCHANGED <<origin, snaps, exc, broken>> /\ worker.pc = "finish"
  BY DEF FinishRedirect, control
<1>3. Next1 \in CowIds
  BY <1>2, BatchHead DEF SnapInv, WorkerShape
<1>4. PICK i \in CowIds : i = Next1
  BY <1>3
<1>5. ~Acting' /\ FailureShape'
  BY <1>1, <1>2 DEF Advances, Acting, FailureShape, OwnInv
<1>6. Inside(i) /\ \A j \in CowIds \ {i} : ~Inside(j)
  BY <1>2, <1>4 DEF Inside, Acting
<1> QED
  BY <1>1, <1>2, <1>4, <1>5, <1>6, FinishOwns

LEMMA CommitFailedOwns ==
  ASSUME SnapInv, OwnInv, CommitFailed
  PROVE  OwnInv'
<1>1. /\ SnapInv' /\ Advances
      /\ \/ Next1 # Command /\ Finishes(Next1, worker.out = "undo", CommitWorker)
         \/ UNCHANGED <<used, cow, ending>>
  BY CommitFailedKeeps
<1>2. UNCHANGED <<origin, snaps, exc, broken>> /\ worker.pc = "apply" /\ worker.out # "ok"
  BY DEF CommitFailed
<1>3. broken /\ ~Acting /\ ~Acting' /\ FailureShape'
  BY <1>1, <1>2 DEF OwnInv, FailureShape, Acting, Advances
<1>4. CASE UNCHANGED <<used, cow, ending>>
  <2>1. \A i \in CowIds : Alike(cow'[i], cow[i])
    BY <1>4 DEF Alike
  <2> QED
    BY <1>2, <1>3, <1>4, <2>1, StillKeeps
<1>5. CASE Next1 # Command /\ Finishes(Next1, worker.out = "undo", CommitWorker)
  <2>1. worker.batch # <<>>
    BY <1>2 DEF SnapInv, WorkerShape
  <2>2. PICK i \in CowIds : i = Next1 /\ cow[i].pc = "pend"
    BY <1>5, <2>1, BatchHead DEF SnapInv
  <2>3. PICK undo \in BOOLEAN : undo = (worker.out = "undo")
    OBVIOUS
  <2> QED
    BY <1>1, <1>2, <1>3, <1>5, <2>2, <2>3, FinishOwns DEF Inside
<1> QED
  BY <1>1, <1>4, <1>5

-----------------------------------------------------------------------------
(* The commit worker: a redirect                                            *)

\* The newest snapshot is a slot of the chain.
LEMMA NewestInChain ==
  ASSUME SnapInv, snaps # <<>>
  PROVE  Newest \in Slots /\ InChain(Newest)
<1>1. snaps \in Seq(Slots)
  BY DEF SnapInv, Types
<1>2. Len(snaps) \in DOMAIN snaps
  BY <1>1, EmptySeq, LenProperties
<1> QED
  BY <1>1, <1>2, ElementOfSeq, LenProperties DEF Newest, InChain

\* While the worker is on a copy's operation, every snapshot keeps its rows.
LEMMA ApplyExceptionOwns ==
  ASSUME SnapInv, OwnInv, ApplyException
  PROVE  OwnInv'
<1> USE DEF OwnInv
<1>1. /\ worker.pc = "apply" /\ Next1 # Command /\ worker.out = "ok"
      /\ worker' = [worker EXCEPT !.pc = "half"]
      /\ exc' = [exc EXCEPT ![Newest][cow[Next1].L] = cow[Next1].oldP]
      /\ UNCHANGED <<origin, used, snaps, cow, cmd, broken>>
  BY DEF ApplyException, Applying, Newest, copies, control
<1>2. worker'.pc = "half" /\ worker'.batch = worker.batch /\ worker'.out = "ok"
  BY <1>1 DEF SnapInv, Types, WorkerRecords
<1>3. worker.batch # <<>>
  BY <1>1 DEF SnapInv, WorkerShape
<1>4. PICK i \in CowIds : i = Next1 /\ cow[i].pc = "pend"
  BY <1>1, <1>3, BatchHead DEF SnapInv
<1>5. PICK L \in Origin, P \in Physical : L = cow[i].L /\ P = cow[i].oldP
  BY <1>4, CopyRow DEF HasRows
<1>6. Next1' = Next1 /\ Newest' = Newest
  BY <1>1, <1>2 DEF Next1, Newest
<1>7. ~Acting /\ Acting'
  BY <1>1, <1>2 DEF Acting
<1>8. snaps # <<>> /\ exc[Newest][L] = None /\ origin[L] = P /\ P # cow[i].newP
  BY <1>4, <1>5, <1>7 DEF CopyShape, Inside, HasRows
<1>9. Newest \in Slots
  BY <1>8, NewestInChain
<1>10. \A g \in Slots, M \in Origin :
         exc'[g][M] = IF g = Newest /\ M = L THEN P ELSE exc[g][M]
  BY <1>1, <1>4, <1>5, <1>9 DEF SnapInv, Types
<1>11. /\ \A M \in Origin : ~RedirectHalfDone(M) /\ (RedirectHalfDone(M)' <=> M = L)
       /\ \A g \in Slots : ~RowsHandedOn(g) /\ ~RowsHandedOn(g)'
  BY <1>1, <1>2, <1>4, <1>5, <1>6 DEF RedirectHalfDone, RowsHandedOn
<1>12. SameClaims
  <2>1. ASSUME NEW Q \in Physical, NEW g \in Slots, NEW M \in Origin
        PROVE  SHas(g, M, Q)' <=> SHas(g, M, Q)
    <3>1. CASE M # L
      BY <1>1, <1>10, <1>11, <3>1 DEF SHas, InChain
    <3>2. CASE M = L /\ g = Newest
      <4>1. ~SHas(g, M, Q)
        BY <1>8, <3>2, Constants DEF SHas
      <4>2. ~SHas(g, M, Q)'
        BY <1>1, <1>6, <1>8, <1>10, <1>11, <3>2 DEF SHas
      <4> QED
        BY <4>1, <4>2
    <3>3. CASE M = L /\ g # Newest
      BY <1>1, <1>6, <1>10, <1>11, <3>3 DEF SHas, InChain
    <3> QED
      BY <3>1, <3>2, <3>3
  <2>2. \A Q \in Physical :
          /\ \A M \in Origin : OHas(M, Q)' <=> OHas(M, Q)
          /\ \A j \in CowIds : CHas(j, Q)' <=> CHas(j, Q)
    BY <1>1 DEF OHas, CHas
  <2> QED
    BY <1>1, <2>1, <2>2 DEF SameClaims
<1>13. CopyShape'
  <2>1. \A j \in CowIds : ~Inside(j) /\ (Inside(j)' <=> j = i)
    BY <1>4, <1>6, <1>7 DEF Inside
  <2>2. \A j \in CowIds \ {i} : cow[j].pc # "free" => cow[j].L # L
    BY <1>4, <1>5 DEF CopyShape
  <2>3. \A j \in CowIds : cow[j].L \in Origin
    BY DEF SnapInv, Types, CowRecords
  <2>4. \A j \in CowIds :
          cow[j].pc # "free" =>
            exc'[Newest][cow[j].L] = IF j = i THEN cow[j].oldP ELSE None
    BY <1>5, <1>9, <1>10, <2>1, <2>2, <2>3 DEF CopyShape
  <2>5. worker'.pc # "finish" /\ worker.pc # "finish"
    BY <1>1, <1>2
  <2>6. /\ \A j, k \in CowIds :
             cow[j].pc # "free" /\ cow[k].pc # "free" /\ cow[j].L = cow[k].L => j = k
        /\ \A j \in CowIds : cow[j].pc \in HasRows =>
             origin[cow[j].L] = cow[j].oldP /\ cow[j].oldP # cow[j].newP
        /\ snaps # <<>>
    BY <1>8, <2>5 DEF CopyShape
  <2> QED
    BY <1>1, <1>6, <2>1, <2>4, <2>5, <2>6 DEF CopyShape
<1> QED
  BY <1>1, <1>2, <1>12, <1>13, SameClaimsKeep DEF ChainShape, FailureShape

\* The origin takes the copy's new row, and what it had is the snapshot's alone.
LEMMA ApplyOriginOwns ==
  ASSUME SnapInv, OwnInv, ApplyOrigin
  PROVE  OwnInv'
<1> USE DEF OwnInv
<1>1. /\ worker.pc = "half" /\ Next1 # Command
      /\ worker' = [worker EXCEPT !.pc = "finish"]
      /\ origin' = [origin EXCEPT ![cow[Next1].L] = cow[Next1].newP]
      /\ used' = used \cup {cow[Next1].newP}
      /\ UNCHANGED <<snaps, exc, cow, cmd, broken>>
  BY DEF ApplyOrigin, copies, control
<1>2. /\ worker'.pc = "finish" /\ worker'.batch = worker.batch /\ worker'.out = worker.out
  BY <1>1 DEF SnapInv, Types, WorkerRecords
<1>3. PICK i \in CowIds : i = Next1 /\ cow[i].pc = "pend"
  BY ApplyOriginKeeps
<1>4. PICK L \in Origin, P \in Physical, N \in Physical :
        L = cow[i].L /\ P = cow[i].oldP /\ N = cow[i].newP
  BY <1>3, CopyRow DEF HasRows
<1>5. Next1' = Next1 /\ Newest' = Newest /\ Acting /\ Acting'
  BY <1>1, <1>2 DEF Next1, Newest, Acting
<1>6. /\ snaps # <<>> /\ exc[Newest][L] = P /\ origin[L] = P /\ P # N
      /\ CHas(i, N)
  BY <1>1, <1>3, <1>4, <1>5 DEF CopyShape, Inside, HasRows, CHas
<1>7. Newest \in Slots /\ InChain(Newest)
  BY <1>6, NewestInChain
<1>8. \A M \in Origin : origin'[M] = IF M = L THEN N ELSE origin[M]
  BY <1>1, <1>3, <1>4 DEF SnapInv, Types
<1>9. /\ \A M \in Origin : ~RedirectHalfDone(M)' /\ (RedirectHalfDone(M) <=> M = L)
      /\ \A g \in Slots : ~RowsHandedOn(g) /\ ~RowsHandedOn(g)'
  BY <1>1, <1>2, <1>3, <1>4 DEF RedirectHalfDone, RowsHandedOn
<1>10. \A j \in CowIds \ {i} : cow[j].pc # "free" => cow[j].L # L
  BY <1>3, <1>4 DEF CopyShape
<1>11. ASSUME NEW Q \in Physical, NEW M \in Origin
       PROVE  OHas(M, Q)' <=> IF M = L THEN Q = N ELSE OHas(M, Q)
  BY <1>8 DEF OHas
<1>12. ASSUME NEW Q \in Physical, NEW g \in Slots, NEW M \in Origin
       PROVE  SHas(g, M, Q)' <=> SHas(g, M, Q) \/ (g = Newest /\ M = L /\ Q = P)
  <2>1. CASE M # L
    BY <1>1, <1>8, <1>9, <2>1 DEF SHas, InChain
  <2>2. CASE M = L /\ g = Newest
    BY <1>1, <1>6, <1>7, <1>8, <1>9, <2>2 DEF SHas, InChain
  <2>3. CASE M = L /\ g # Newest
    BY <1>1, <1>5, <1>9, <2>3 DEF SHas, InChain
  <2> QED
    BY <2>1, <2>2, <2>3
<1>13. ASSUME NEW Q \in Physical, NEW j \in CowIds
       PROVE  CHas(j, Q)' <=> CHas(j, Q) /\ j # i
  <2>1. CASE j = i
    BY <1>1, <1>4, <1>8, <2>1 DEF CHas
  <2>2. CASE j # i /\ cow[j].pc = "free"
    BY <1>1, <2>2, Constants DEF CHas, SnapInv, CowShape, HasRows
  <2>3. CASE j # i /\ cow[j].pc # "free"
    <3>1. cow[j].L \in Origin /\ cow[j].L # L
      BY <1>10, <2>3 DEF SnapInv, Types, CowRecords
    <3> QED
      BY <1>1, <1>8, <2>3, <3>1 DEF CHas
  <2> QED
    BY <2>1, <2>2, <2>3
<1>14. OHas(L, P) /\ \A Q \in Physical : Once(Q)
  BY <1>6 DEF OHas, OwnShape
<1>15. ASSUME NEW Q \in Physical PROVE Once(Q)' /\ (Claimed(Q)' <=> Claimed(Q))
  <2>1. CASE Q = N
    <3>1. /\ \A M \in Origin : OHas(M, Q)' <=> M = L
          /\ \A g \in Slots, M \in Origin : ~SHas(g, M, Q)'
          /\ \A j \in CowIds : ~CHas(j, Q)'
      BY <1>6, <1>11, <1>12, <1>13, <1>14, <2>1 DEF Once
    <3> QED
      BY <1>6, <2>1, <3>1 DEF Once, Claimed
  <2>2. CASE Q = P
    <3>1. /\ \A M \in Origin : ~OHas(M, Q)'
          /\ \A g \in Slots, M \in Origin : SHas(g, M, Q)' <=> g = Newest /\ M = L
          /\ \A j \in CowIds : ~CHas(j, Q)'
      BY <1>6, <1>11, <1>12, <1>13, <1>14, <2>2 DEF Once
    <3> QED
      BY <1>7, <1>14, <2>2, <3>1 DEF Once, Claimed
  <2>3. CASE Q # N /\ Q # P
    <3>1. ~CHas(i, Q) /\ ~OHas(L, Q)
      BY <1>4, <1>6, <2>3 DEF CHas, OHas
    <3>2. /\ \A M \in Origin : OHas(M, Q)' <=> OHas(M, Q)
          /\ \A g \in Slots, M \in Origin : SHas(g, M, Q)' <=> SHas(g, M, Q)
          /\ \A j \in CowIds : CHas(j, Q)' <=> CHas(j, Q)
      BY <1>11, <1>12, <1>13, <2>3, <3>1
    <3> QED
      BY <1>14, <3>2 DEF Once, Claimed
  <2> QED
    BY <2>1, <2>2, <2>3
<1>16. used' = used
  <2>1. Claimed(N)
    BY <1>6 DEF Claimed
  <2> QED
    BY <1>1, <1>3, <1>4, <2>1 DEF OwnShape
<1>17. OwnShape'
  BY <1>1, <1>15, <1>16 DEF OwnShape
<1>18. CopyShape'
  <2>1. \A j \in CowIds : (Inside(j) <=> j = i) /\ (Inside(j)' <=> j = i)
    BY <1>3, <1>5 DEF Inside
  <2>2. \A j \in CowIds : cow[j].L \in Origin
    BY DEF SnapInv, Types, CowRecords
  <2>3. origin'[cow[i].L] = cow[i].newP
    BY <1>4, <1>8
  <2>4. \A j \in CowIds \ {i} : cow[j].pc # "free" => origin'[cow[j].L] = origin[cow[j].L]
    BY <1>8, <1>10, <2>2
  <2>5. \A j \in CowIds \ {i} : cow[j].pc \in HasRows =>
          origin'[cow[j].L] = cow[j].oldP /\ cow[j].oldP # cow[j].newP
    BY <2>1, <2>4 DEF CopyShape, HasRows
  <2> QED
    BY <1>1, <1>2, <1>5, <2>1, <2>3, <2>5 DEF CopyShape
<1> QED
  BY <1>1, <1>2, <1>17, <1>18 DEF ChainShape, FailureShape

-----------------------------------------------------------------------------
(* The commit worker: a create, a destroy                                   *)

\* There is no copy while the command's operation is applied.
LEMMA NoCopies ==
  ASSUME SnapInv, worker.batch # <<>>, Next1 = Command
  PROVE  /\ \A i \in CowIds : cow[i].pc = "free" /\ cow[i].newP = None
         /\ \A i \in CowIds, P \in Physical : ~CHas(i, P)
<1>1. cmd.pc = "commit"
  BY BatchHead DEF SnapInv
<1>2. \A i \in CowIds : cow[i].pc = "free" /\ cow[i].newP = None
  BY <1>1 DEF SnapInv, CommandShape, Stopped, CowShape, HasRows
<1> QED
  BY <1>2, Constants DEF CHas

\* The new snapshot has no rows.
LEMMA ApplyCreateOwns ==
  ASSUME SnapInv, OwnInv, ApplyCreate
  PROVE  OwnInv'
<1> USE DEF OwnInv
<1> DEFINE g == cmd.g
<1>1. /\ worker.pc = "apply" /\ Next1 = Command /\ worker.out = "ok"
      /\ snaps' = Append(snaps, g)
      /\ exc' = [exc EXCEPT ![g] = [L \in Origin |-> None]]
      /\ UNCHANGED <<origin, used, cow, broken>>
  BY DEF ApplyCreate, Applying, copies
<1>2. g \in Slots /\ ~InChain(g) /\ Advances /\ worker.batch # <<>>
  BY ApplyCreateKeeps DEF CommandDone
<1>3. ~Acting /\ ~Acting' /\ FailureShape'
  BY <1>1, <1>2 DEF Acting, Advances, FailureShape
<1>4. /\ \A h : InChain(h)' <=> InChain(h) \/ h = g
      /\ ChainShape'
  <2>1. snaps \in Seq(Slots) /\ \A h : InChain(h) <=> In(h, snaps)
    BY DEF SnapInv, Types, InChain, In
  <2>2. \A h : InChain(h)' <=> In(h, snaps')
    BY DEF InChain, In
  <2> HIDE DEF g
  <2> QED
    BY <1>1, <1>2, <2>1, <2>2, InAppend DEF ChainShape
<1> HIDE DEF g
<1>5. \A h \in Slots, M \in Origin : exc'[h][M] = IF h = g THEN None ELSE exc[h][M]
  BY <1>1 DEF SnapInv, Types
<1>6. \A h \in Slots, M \in Origin, P \in Physical : SHas(h, M, P)' <=> SHas(h, M, P)
  BY <1>2, <1>3, <1>4, <1>5, Constants DEF SHas, RedirectHalfDone, RowsHandedOn, Acting
<1>7. SameClaims
  BY <1>1, <1>6 DEF SameClaims, OHas, CHas
<1>8. CopyShape'
  BY <1>1, <1>2, NoCopies DEF CopyShape, HasRows
<1> QED
  BY <1>3, <1>4, <1>7, <1>8, SameClaimsKeep

\* The next older snapshot.
Older(g) == snaps[Place(g) - 1]

LEMMA OlderInChain ==
  ASSUME SnapInv, ChainShape, NEW g \in Slots, InChain(g), HasOlder(g)
  PROVE  Older(g) \in Slots /\ InChain(Older(g)) /\ Older(g) # g
<1>1. snaps \in Seq(Slots) /\ DOMAIN snaps = 1..Len(snaps) /\ Len(snaps) \in Nat
  BY LenProperties DEF SnapInv, Types
<1>2. Place(g) \in DOMAIN snaps /\ snaps[Place(g)] = g /\ Place(g) > 1
  BY PlaceInChain DEF HasOlder
<1>3. Place(g) - 1 \in 1..Len(snaps) /\ Place(g) - 1 # Place(g)
  BY <1>1, <1>2
<1> QED
  BY <1>1, <1>2, <1>3, ElementOfSeq DEF Older, InChain, ChainShape, Distinct

\* The rows go to the next older snapshot, or free.
LEMMA ApplyDestroyRowsOwns ==
  ASSUME SnapInv, OwnInv, ApplyDestroyRows
  PROVE  OwnInv'
<1> USE DEF OwnInv
<1>1. PICK g \in Slots : g = cmd.g /\ InChain(g)
  BY ApplyDestroyRowsKeeps
<1> DEFINE old == Older(g)
           freed == {L \in Origin : exc[g][L] # None /\ ~MovesToOlder(g, L)}
<1>2. /\ worker.pc = "apply" /\ Next1 = Command /\ worker.out = "ok"
      /\ exc' = IF ~HasOlder(g) THEN exc
                ELSE [exc EXCEPT ![old] =
                        [L \in Origin |-> IF MovesToOlder(g, L) THEN exc[g][L] ELSE @[L]]]
      /\ used' = used \ {exc[g][L] : L \in freed}
      /\ UNCHANGED <<origin, snaps, cow, cmd, broken>>
      /\ worker'.pc = "half" /\ worker'.batch = worker.batch
      /\ worker' = [worker EXCEPT !.pc = "half"]
  <2>1. worker'.pc = "half" /\ worker'.batch = worker.batch
    BY ApplyDestroyRowsKeeps
  <2>2. {L \in Origin : exc[g][L] # None} \ {L \in Origin : MovesToOlder(g, L)} = freed
    OBVIOUS
  <2>3. /\ worker.pc = "apply" /\ Next1 = Command /\ worker.out = "ok"
        /\ UNCHANGED <<origin, snaps, cow, cmd, broken>>
        /\ worker' = [worker EXCEPT !.pc = "half"]
    BY DEF ApplyDestroyRows, Applying, copies, control
  <2>4. used' = used \ {exc[g][L] : L \in {L \in Origin : exc[g][L] # None}
                                             \ {L \in Origin : MovesToOlder(g, L)}}
    BY <1>1 DEF ApplyDestroyRows
  <2>5. exc' = IF ~HasOlder(g) THEN exc
               ELSE [exc EXCEPT ![old] =
                       [L \in Origin |-> IF L \in {M \in Origin : MovesToOlder(g, M)}
                                         THEN exc[g][L] ELSE @[L]]]
    BY <1>1 DEF ApplyDestroyRows, Older
  <2>6. exc' = IF ~HasOlder(g) THEN exc
               ELSE [exc EXCEPT ![old] =
                       [L \in Origin |-> IF MovesToOlder(g, L) THEN exc[g][L] ELSE @[L]]]
    BY <2>5
  <2> HIDE DEF freed, old
  <2> QED
    BY <2>1, <2>2, <2>3, <2>4, <2>6
<1>3. worker.batch # <<>> /\ FailureShape'
  BY <1>2 DEF SnapInv, Types, WorkerRecords, WorkerShape, FailureShape
<1>4. \A i \in CowIds, P \in Physical : ~CHas(i, P) /\ ~CHas(i, P)'
  <2>1. \A i \in CowIds : cow[i].newP = None
    BY <1>2, <1>3, NoCopies
  <2> QED
    BY <1>2, <2>1, Constants DEF CHas
<1>5. /\ \A M \in Origin : ~RedirectHalfDone(M) /\ ~RedirectHalfDone(M)'
      /\ \A h \in Slots : ~RowsHandedOn(h) /\ (RowsHandedOn(h)' <=> h = g)
  BY <1>1, <1>2 DEF RedirectHalfDone, RowsHandedOn, Next1
<1>6. HasOlder(g) => old \in Slots /\ InChain(old) /\ old # g
  BY <1>1, OlderInChain
<1>7. \A L \in Origin : MovesToOlder(g, L) <=>
                          HasOlder(g) /\ exc[g][L] # None /\ exc[old][L] = None
  BY DEF MovesToOlder, Older
<1>8. \A h \in Slots, M \in Origin :
        exc'[h][M] = IF h = old /\ MovesToOlder(g, M) THEN exc[g][M] ELSE exc[h][M]
  <2>1. exc \in [Slots -> [Origin -> RowOrNone]]
    BY DEF SnapInv, Types
  <2> HIDE DEF old
  <2> QED
    BY <1>2, <1>6, <1>7, <2>1
<1> HIDE DEF old
<1>9. ASSUME NEW P \in Physical, NEW h \in Slots, NEW M \in Origin
      PROVE  SHas(h, M, P)' <=> \/ SHas(h, M, P) /\ h # g
                                \/ h = old /\ MovesToOlder(g, M) /\ SHas(g, M, P)
  <2>1. SHas(h, M, P)' <=> InChain(h) /\ exc'[h][M] = P /\ h # g
    BY <1>2, <1>5 DEF SHas, InChain
  <2>2. SHas(h, M, P) <=> InChain(h) /\ exc[h][M] = P
    BY <1>5 DEF SHas
  <2>3. SHas(g, M, P) <=> exc[g][M] = P
    BY <1>1, <1>5 DEF SHas
  <2> QED
    BY <1>6, <1>7, <1>8, <2>1, <2>2, <2>3, Constants
<1>10. \A P \in Physical, M \in Origin : OHas(M, P)' <=> OHas(M, P)
  BY <1>2 DEF OHas
<1>11. \A P \in Physical, M \in Origin : SHas(g, M, P) <=> exc[g][M] = P
  BY <1>1, <1>5 DEF SHas
<1>12. ASSUME NEW P \in Physical
       PROVE  /\ Once(P)'
              /\ Claimed(P)' <=> Claimed(P) /\ ~\E L \in freed : exc[g][L] = P
  <2>1. Once(P)
    BY DEF OwnShape
  <2>2. Once(P)'
    BY <1>4, <1>9, <1>10, <2>1 DEF Once
  <2>3. CASE \E L \in freed : exc[g][L] = P
    <3>1. PICK L \in freed : exc[g][L] = P
      BY <2>3
    <3>2. SHas(g, L, P) /\ ~MovesToOlder(g, L)
      BY <1>11, <3>1
    <3>3. ~Claimed(P)'
      BY <1>1, <1>4, <1>9, <1>10, <2>1, <3>2 DEF Once, Claimed
    <3> QED
      BY <2>2, <2>3, <3>3
  <2>4. CASE ~\E L \in freed : exc[g][L] = P
    <3>1. \A L \in Origin : SHas(g, L, P) => MovesToOlder(g, L)
      BY <1>11, <2>4, Constants
    <3>2. Claimed(P)' <=> Claimed(P)
      BY <1>1, <1>4, <1>6, <1>7, <1>9, <1>10, <3>1 DEF Claimed
    <3> QED
      BY <2>2, <2>4, <3>2
  <2> QED
    BY <2>3, <2>4
<1>13. \A P : P \in used' <=> P \in used /\ ~\E L \in freed : exc[g][L] = P
  BY <1>2
<1> HIDE DEF freed
<1>14. OwnShape'
  BY <1>2, <1>12, <1>13 DEF OwnShape
<1>15. CopyShape'
  BY <1>2, <1>3, NoCopies DEF CopyShape, HasRows
<1> QED
  BY <1>2, <1>3, <1>14, <1>15 DEF ChainShape

\* The snapshot that is unlinked has no rows any more.
LEMMA ApplyDestroyLinkOwns ==
  ASSUME SnapInv, OwnInv, ApplyDestroyLink
  PROVE  OwnInv'
<1> USE DEF OwnInv
<1>1. PICK g \in Slots : g = cmd.g /\ InChain(g)
  BY ApplyDestroyLinkKeeps
<1>2. /\ worker.pc = "half" /\ Next1 = Command
      /\ snaps' = Without(snaps, Place(g))
      /\ exc' = [exc EXCEPT ![g] = [L \in Origin |-> None]]
      /\ UNCHANGED <<origin, used, cow, broken>>
      /\ Advances /\ worker.batch # <<>>
  BY <1>1, ApplyDestroyLinkKeeps DEF ApplyDestroyLink, CommandDone, copies
<1>3. ~Acting' /\ FailureShape'
  BY <1>2 DEF Acting, Advances, FailureShape
<1>4. /\ \A h : InChain(h)' <=> InChain(h) /\ h # g
      /\ ChainShape'
  <2>1. snaps \in Seq(Slots) /\ \A h : InChain(h) <=> In(h, snaps)
    BY DEF SnapInv, Types, InChain, In
  <2>2. \A h : InChain(h)' <=> In(h, snaps')
    BY DEF InChain, In
  <2>3. Place(g) \in DOMAIN snaps /\ snaps[Place(g)] = g
    BY <1>1, PlaceInChain
  <2> QED
    BY <1>2, <2>1, <2>2, <2>3, InWithout DEF ChainShape
<1>5. \A h \in Slots, M \in Origin : h # g => exc'[h][M] = exc[h][M]
  BY <1>2 DEF SnapInv, Types
<1>6. /\ \A M \in Origin : ~RedirectHalfDone(M) /\ ~RedirectHalfDone(M)'
      /\ \A h \in Slots : (RowsHandedOn(h) <=> h = g) /\ ~RowsHandedOn(h)'
  BY <1>1, <1>2, <1>3 DEF RedirectHalfDone, RowsHandedOn, Acting
<1>7. \A h \in Slots, M \in Origin, P \in Physical : SHas(h, M, P)' <=> SHas(h, M, P)
  BY <1>4, <1>5, <1>6 DEF SHas
<1>8. SameClaims
  BY <1>2, <1>7 DEF SameClaims, OHas, CHas
<1>9. CopyShape'
  BY <1>2, NoCopies DEF CopyShape, HasRows
<1> QED
  BY <1>3, <1>4, <1>8, <1>9, SameClaimsKeep


-----------------------------------------------------------------------------
(* A row has one owner                                                      *)

LEMMA CowGoneOwns ==
  ASSUME SnapInv, OwnInv, NEW a \in Agents, CowGone(a)
  PROVE  OwnInv'
<1>1. UNCHANGED <<origin, used, snaps, exc, cow, worker, cmd, broken>>
  BY DEF CowGone, maps, control
<1>2. FailureShape' /\ \A i \in CowIds : Alike(cow'[i], cow[i])
  BY <1>1 DEF OwnInv, FailureShape, Alike
<1> QED
  BY <1>1, <1>2, StillKeeps

LEMMA CommandsOwn ==
  ASSUME SnapInv, OwnInv, Create \/ Destroy \/ Commands
  PROVE  OwnInv'
<1>1. /\ UNCHANGED <<origin, used, snaps, exc, cow, worker, broken>>
      /\ cmd.pc # "commit"
  BY StartCommandKeeps DEF Commands, Suspend, SubmitCommand, Resume, Unhold, EndCommand, maps,
     copies, workers
<1>2. FailureShape' /\ \A i \in CowIds : Alike(cow'[i], cow[i])
  BY <1>1 DEF OwnInv, FailureShape, Alike
<1> QED
  BY <1>1, <1>2, StillKeeps

LEMMA InitOwnInv == Init => OwnInv
<1> SUFFICES ASSUME Init PROVE OwnInv
  OBVIOUS
<1>1. /\ origin = [L \in Origin |-> L] /\ used = Origin /\ snaps = <<>>
      /\ cow = [i \in CowIds |-> FreeCow] /\ worker = IdleWorker
  BY DEF Init
<1>2. \A g : ~InChain(g)
  BY <1>1 DEF InChain
<1>3. \A i \in CowIds : cow[i].pc = "free" /\ cow[i].newP = None
  BY <1>1, FreshTypes
<1>4. ASSUME NEW P \in Physical
      PROVE  /\ \A L \in Origin : OHas(L, P) <=> L = P
             /\ \A g \in Slots, L \in Origin : ~SHas(g, L, P)
             /\ \A i \in CowIds : ~CHas(i, P)
  BY <1>1, <1>2, <1>3, Constants DEF OHas, SHas, CHas
<1>5. OwnShape
  BY <1>1, <1>4 DEF OwnShape, Once, Claimed
<1>6. CopyShape
  BY <1>3 DEF CopyShape, HasRows
<1>7. ChainShape
  BY <1>1 DEF ChainShape, Distinct
<1>8. FailureShape
  BY <1>1 DEF FailureShape, IdleWorker
<1> QED
  BY <1>5, <1>6, <1>7, <1>8 DEF OwnInv

LEMMA OwnInvStep == SnapInv /\ OwnInv /\ [Next]_vars => OwnInv'
<1> SUFFICES ASSUME SnapInv, OwnInv, [Next]_vars PROVE OwnInv'
  OBVIOUS
<1>1. CASE UserStep
  BY <1>1, UserOwns
<1>2. ASSUME NEW i \in CowIds, CowAlloc(i) \/ CowRead(i) \/ CowWrite(i) PROVE OwnInv'
  BY <1>2, CowAllocOwns, CowIoOwns
<1>3. ASSUME NEW a \in Agents, CowGone(a) PROVE OwnInv'
  BY <1>3, CowGoneOwns
<1>4. CASE Commit
  BY <1>4, BatchOwns, CommitDropFailedOwns, CommitFailedOwns, ApplyExceptionOwns,
     ApplyOriginOwns, FinishRedirectOwns, ApplyCreateOwns, ApplyDestroyRowsOwns,
     ApplyDestroyLinkOwns DEF Commit
<1>5. CASE Create \/ Destroy \/ Commands
  BY <1>5, CommandsOwn
<1>6. CASE UNCHANGED vars
  <2>1. UNCHANGED <<origin, used, snaps, exc, cow, worker, cmd, broken>>
    BY <1>6 DEF vars, maps, copies, workers, control
  <2>2. FailureShape' /\ \A i \in CowIds : Alike(cow'[i], cow[i])
    BY <2>1 DEF OwnInv, FailureShape, Alike
  <2> QED
    BY <2>1, <2>2, StillKeeps
<1> QED
  BY <1>1, <1>2, <1>3, <1>4, <1>5, <1>6, StepCases

\* At every step a row has at most one owner, with an operation half applied too, and
\* the maps hold what the copy of a row relies on in its phase.
THEOREM OwnInvHolds == Spec => []OwnInv
<1> QED
  BY SnapInvHolds, InitOwnInv, OwnInvStep, PTL DEF Spec

\* A set without two elements counts one if it has an element, and none else.
LEMMA AtMostOne ==
  ASSUME NEW S, \A x, y \in S : x = y
  PROVE  Cardinality(S) = IF S = {} THEN 0 ELSE 1
<1>1. CASE S = {}
  BY <1>1, FS_EmptySet
<1>2. CASE S # {}
  <2>1. PICK x \in S : S = {x}
    BY <1>2
  <2> QED
    BY <1>2, <2>1, FS_Singleton
<1> QED
  BY <1>1, <1>2

\* A physical row belongs to the origin, to one snapshot, to one copy, or to
\* nobody, and the allocator hands out exactly the rows of nobody: no row is given
\* out twice or lost while copies, failures, creates and destroys interleave.
THEOREM RowHasOneOwner == Spec => []OneOwner
<1>1. SnapInv /\ OwnInv => OneOwner
  <2> SUFFICES ASSUME SnapInv, OwnInv, NEW P \in Physical
               PROVE  LET n == Cardinality(OriginHolders(P)) + Cardinality(SnapHolders(P))
                                 + Cardinality(CowHolders(P))
                      IN  /\ n <= 1
                          /\ n = 1 => P \in used
                          /\ P \in used /\ ~broken => n = 1
    BY DEF OneOwner
  <2> DEFINE A == OriginHolders(P)
             B == SnapHolders(P)
             C == CowHolders(P)
  <2>1. /\ Once(P)
        /\ Claimed(P) => P \in used
        /\ P \in used /\ ~broken => Claimed(P)
    BY DEF OwnInv, OwnShape
  <2>2. \A L : L \in A <=> L \in Origin /\ OHas(L, P)
    BY DEF OriginHolders, OHas
  <2>3. \A i : i \in C <=> i \in CowIds /\ CHas(i, P)
    BY DEF CowHolders, CHas
  <2>4. \A x : x \in B => x \in Slots \X Origin /\ SHas(x[1], x[2], P)
    BY DEF SnapHolders, SHas
  <2>5. \A g \in Slots, L \in Origin : SHas(g, L, P) /\ A = {} => <<g, L>> \in B
    BY <2>2 DEF SnapHolders, SHas, OHas
  <2>6. /\ \A x, y \in A : x = y
        /\ \A x, y \in B : x = y
        /\ \A x, y \in C : x = y
    <3>1. \A x, y \in A : x = y
      BY <2>1, <2>2 DEF Once
    <3>2. \A x, y \in C : x = y
      BY <2>1, <2>3 DEF Once
    <3>3. ASSUME NEW x \in B, NEW y \in B PROVE x = y
      <4>1. /\ x \in Slots \X Origin /\ y \in Slots \X Origin
            /\ x[1] = y[1] /\ x[2] = y[2]
        BY <2>1, <2>4 DEF Once
      <4> QED
        BY <4>1
    <3> QED
      BY <3>1, <3>2, <3>3
  <2>7. /\ A = {} \/ B = {}
        /\ A = {} \/ C = {}
        /\ B = {} \/ C = {}
    BY <2>1, <2>2, <2>3, <2>4 DEF Once
  <2> HIDE DEF A, B, C
  <2>8. Claimed(P) <=> A # {} \/ B # {} \/ C # {}
    <3>1. Claimed(P) => A # {} \/ B # {} \/ C # {}
      BY <2>2, <2>3, <2>5 DEF Claimed
    <3>2. B # {} => Claimed(P)
      <4> SUFFICES ASSUME NEW x \in B PROVE Claimed(P)
        OBVIOUS
      <4>1. x[1] \in Slots /\ x[2] \in Origin /\ SHas(x[1], x[2], P)
        BY <2>4
      <4> QED
        BY <4>1 DEF Claimed
    <3>3. A # {} \/ C # {} => Claimed(P)
      BY <2>2, <2>3 DEF Claimed
    <3> QED
      BY <3>1, <3>2, <3>3
  <2>9. /\ Cardinality(A) = IF A = {} THEN 0 ELSE 1
        /\ Cardinality(B) = IF B = {} THEN 0 ELSE 1
        /\ Cardinality(C) = IF C = {} THEN 0 ELSE 1
    BY <2>6, AtMostOne
  <2>10. /\ Cardinality(A) + Cardinality(B) + Cardinality(C) <= 1
         /\ Cardinality(A) + Cardinality(B) + Cardinality(C) = 1 <=> Claimed(P)
    BY <2>7, <2>8, <2>9
  <2> QED
    BY <2>1, <2>10 DEF A, B, C
<1> QED
  BY <1>1, SnapInvHolds, OwnInvHolds, PTL



-----------------------------------------------------------------------------
(* What a snapshot shows a reader. *)

\* The walk of rk_snap_submit_bio over a chain s with the copies e, to the origin o.
LookupIn(o, s, e, g, L) ==
  LET place == CHOOSE k \in DOMAIN s : s[k] = g
      holders == {k \in DOMAIN s : k >= place /\ e[s[k]][L] # None}
  IN  IF holders = {} THEN o[L]
      ELSE e[s[CHOOSE k \in holders : \A j \in holders : k <= j]][L]

LEMMA LookupDef ==
  ASSUME NEW g, NEW L
  PROVE  /\ Lookup(g, L) = LookupIn(origin, snaps, exc, g, L)
         /\ Lookup(g, L)' = LookupIn(origin', snaps', exc', g, L)
BY DEF Lookup, LookupIn

\* The first copy at or after the snapshot's place, if it is at place k ...
LEMMA LookupAt ==
  ASSUME NEW s \in Seq(Slots), Distinct(s), NEW o, NEW e, NEW L,
         NEW p \in DOMAIN s, NEW k \in DOMAIN s, k >= p, e[s[k]][L] # None,
         \A m \in DOMAIN s : m >= p /\ m < k => e[s[m]][L] = None
  PROVE  LookupIn(o, s, e, s[p], L) = e[s[k]][L]
<1> DEFINE place == CHOOSE m \in DOMAIN s : s[m] = s[p]
           holders == {m \in DOMAIN s : m >= place /\ e[s[m]][L] # None}
<1>1. place = p
  <2>1. place \in DOMAIN s /\ s[place] = s[p]
    OBVIOUS
  <2> QED
    BY <2>1 DEF Distinct
<1>2. DOMAIN s \subseteq Nat
  BY LenProperties
<1> HIDE DEF place
<1>3. /\ k \in holders /\ \A j \in holders : k <= j
      /\ \A m \in holders : (\A j \in holders : m <= j) => m = k
  BY <1>1, <1>2
<1>4. (CHOOSE m \in holders : \A j \in holders : m <= j) = k
  <2> HIDE DEF holders
  <2> QED
    BY <1>3
<1>5. LookupIn(o, s, e, s[p], L) =
        IF holders = {} THEN o[L]
        ELSE e[s[CHOOSE m \in holders : \A j \in holders : m <= j]][L]
  BY DEF LookupIn, place
<1> QED
  BY <1>3, <1>4, <1>5

\* ... or the origin's row, if there is none.
LEMMA LookupOrigin ==
  ASSUME NEW s \in Seq(Slots), Distinct(s), NEW o, NEW e, NEW L,
         NEW p \in DOMAIN s, \A m \in DOMAIN s : m >= p => e[s[m]][L] = None
  PROVE  LookupIn(o, s, e, s[p], L) = o[L]
<1> DEFINE place == CHOOSE m \in DOMAIN s : s[m] = s[p]
           holders == {m \in DOMAIN s : m >= place /\ e[s[m]][L] # None}
<1>1. place = p
  <2>1. place \in DOMAIN s /\ s[place] = s[p]
    OBVIOUS
  <2> QED
    BY <2>1 DEF Distinct
<1> HIDE DEF place
<1>2. holders = {}
  BY <1>1
<1> QED
  BY <1>2 DEF LookupIn, place

FirstCopy(s, e, p, k, L) ==
  /\ k \in DOMAIN s /\ k >= p /\ e[s[k]][L] # None
  /\ \A m \in DOMAIN s : m >= p /\ m < k => e[s[m]][L] = None
NoCopy(s, e, p, L) == \A m \in DOMAIN s : m >= p => e[s[m]][L] = None

LEMMA LookupCases ==
  ASSUME NEW s \in Seq(Slots), NEW e, NEW L, NEW p \in DOMAIN s
  PROVE  NoCopy(s, e, p, L) \/ \E k \in DOMAIN s : FirstCopy(s, e, p, k, L)
<1> SUFFICES ASSUME ~NoCopy(s, e, p, L)
             PROVE  \E k \in DOMAIN s : FirstCopy(s, e, p, k, L)
  OBVIOUS
<1> DEFINE T == {m \in DOMAIN s : m >= p /\ e[s[m]][L] # None}
<1>1. DOMAIN s \subseteq Nat
  BY LenProperties
<1>2. T \in SUBSET Nat /\ T # {}
  BY <1>1 DEF NoCopy
<1>3. PICK k \in T : \A m \in T : k <= m
  BY <1>2, FirstExists
<1> QED
  BY <1>1, <1>3 DEF FirstCopy

\* The first copy of a chain s from place p on, or its absence, is that of a chain t
\* from place r on.
SameFirst(o, s, e, p, q, t, f, r, L) ==
  /\ NoCopy(s, e, p, L) =>
       \/ NoCopy(t, f, r, L) /\ q[L] = o[L]
       \/ \E k \in DOMAIN t : FirstCopy(t, f, r, k, L) /\ f[t[k]][L] = o[L]
  /\ \A k \in DOMAIN s : FirstCopy(s, e, p, k, L) =>
       \E m \in DOMAIN t : FirstCopy(t, f, r, m, L) /\ f[t[m]][L] = e[s[k]][L]

\* Then the two walks end at the same row.
LEMMA LookupAgrees ==
  ASSUME NEW s \in Seq(Slots), NEW t \in Seq(Slots), Distinct(s), Distinct(t),
         NEW o, NEW q, NEW e, NEW f, NEW L,
         NEW p \in DOMAIN s, NEW r \in DOMAIN t, s[p] = t[r],
         SameFirst(o, s, e, p, q, t, f, r, L)
  PROVE  LookupIn(q, t, f, s[p], L) = LookupIn(o, s, e, s[p], L)
<1>1. CASE NoCopy(s, e, p, L)
  <2>1. LookupIn(o, s, e, s[p], L) = o[L]
    BY <1>1, LookupOrigin DEF NoCopy
  <2>2. CASE NoCopy(t, f, r, L) /\ q[L] = o[L]
    <3>1. LookupIn(q, t, f, t[r], L) = q[L]
      BY <2>2, LookupOrigin DEF NoCopy
    <3> QED
      BY <2>1, <2>2, <3>1
  <2>3. ASSUME NEW k \in DOMAIN t, FirstCopy(t, f, r, k, L), f[t[k]][L] = o[L]
        PROVE  LookupIn(q, t, f, s[p], L) = o[L]
    <3>1. LookupIn(q, t, f, t[r], L) = f[t[k]][L]
      BY <2>3, LookupAt DEF FirstCopy
    <3> QED
      BY <2>3, <3>1
  <2> QED
    BY <1>1, <2>1, <2>2, <2>3 DEF SameFirst
<1>2. ASSUME NEW k \in DOMAIN s, FirstCopy(s, e, p, k, L)
      PROVE  LookupIn(q, t, f, s[p], L) = LookupIn(o, s, e, s[p], L)
  <2>1. PICK m \in DOMAIN t : FirstCopy(t, f, r, m, L) /\ f[t[m]][L] = e[s[k]][L]
    BY <1>2 DEF SameFirst
  <2>2. LookupIn(o, s, e, s[p], L) = e[s[k]][L]
    BY <1>2, LookupAt DEF FirstCopy
  <2>3. LookupIn(q, t, f, t[r], L) = f[t[m]][L]
    BY <2>1, LookupAt DEF FirstCopy
  <2> QED
    BY <2>1, <2>2, <2>3
<1> QED
  BY <1>1, <1>2, LookupCases


-----------------------------------------------------------------------------
(* What the commit worker does to the maps, seen through the walk           *)

Copies(e) == e \in [Slots -> [Origin -> RowOrNone]]

LEMMA LookupType ==
  ASSUME NEW s \in Seq(Slots), Distinct(s), NEW o \in [Origin -> Physical], NEW e, Copies(e),
         NEW L \in Origin, NEW g, In(g, s)
  PROVE  LookupIn(o, s, e, g, L) \in RowOrNone
<1>1. PICK p \in DOMAIN s : s[p] = g
  BY DEF In
<1>2. \A k \in DOMAIN s : e[s[k]][L] \in RowOrNone
  BY LenProperties, ElementOfSeq DEF Copies
<1>3. CASE NoCopy(s, e, p, L)
  BY <1>1, <1>3, LookupOrigin DEF NoCopy, RowOrNone
<1>4. ASSUME NEW k \in DOMAIN s, FirstCopy(s, e, p, k, L)
      PROVE  LookupIn(o, s, e, g, L) \in RowOrNone
  <2>1. LookupIn(o, s, e, s[p], L) = e[s[k]][L]
    BY <1>4, LookupAt DEF FirstCopy
  <2> QED
    BY <1>1, <1>2, <2>1
<1> QED
  BY <1>3, <1>4, LookupCases

\* A chain, its copies, and the origin.
Maps(o, s, e) ==
  s \in Seq(Slots) /\ Distinct(s) /\ Copies(e) /\ o \in [Origin -> Physical]

\* The old row goes into the newest snapshot: the origin's copy stands for the
\* origin.
ExceptionAdded(o, s, e, f, L) ==
  /\ Maps(o, s, e) /\ s # <<>> /\ L \in Origin /\ e[s[Len(s)]][L] = None
  /\ f = [e EXCEPT ![s[Len(s)]][L] = o[L]]

LEMMA ExceptionAgrees ==
  ASSUME NEW s, NEW o, NEW e, NEW f, NEW L, ExceptionAdded(o, s, e, f, L),
         NEW g, In(g, s), NEW M \in Origin
  PROVE  LookupIn(o, s, f, g, M) = LookupIn(o, s, e, g, M)
<1> USE DEF ExceptionAdded, Maps
<1> DEFINE n == Len(s)
<1>1. PICK p \in DOMAIN s : s[p] = g
  BY DEF In
<1>2. /\ DOMAIN s = 1..n /\ n \in Nat /\ n \in DOMAIN s
      /\ \A k \in DOMAIN s : s[k] \in Slots
  BY LenProperties, ElementOfSeq, EmptySeq
<1>3. \A k \in DOMAIN s : f[s[k]][M] = IF k = n /\ M = L THEN o[L] ELSE e[s[k]][M]
  BY <1>2 DEF Copies, Distinct
<1>4. o[L] # None /\ e[s[n]][L] = None
  BY Constants
<1> HIDE DEF n
<1>5. NoCopy(s, e, p, M) =>
        \/ NoCopy(s, f, p, M)
        \/ \E k \in DOMAIN s : FirstCopy(s, f, p, k, M) /\ f[s[k]][M] = o[M]
  <2> SUFFICES ASSUME NoCopy(s, e, p, M), M = L
               PROVE  FirstCopy(s, f, p, n, M) /\ f[s[n]][M] = o[M]
    BY <1>2, <1>3 DEF NoCopy
  <2>1. n >= p
    BY <1>2
  <2> QED
    BY <1>2, <1>3, <1>4, <2>1 DEF NoCopy, FirstCopy
<1>6. ASSUME NEW k \in DOMAIN s, FirstCopy(s, e, p, k, M)
      PROVE  FirstCopy(s, f, p, k, M) /\ f[s[k]][M] = e[s[k]][M]
  <2>1. M = L => k # n
    BY <1>4, <1>6 DEF FirstCopy
  <2>2. \A m \in DOMAIN s : m < k => m # n
    BY <1>2
  <2> QED
    BY <1>3, <1>6, <2>1, <2>2 DEF FirstCopy
<1>7. SameFirst(o, s, e, p, o, s, f, p, M)
  BY <1>5, <1>6 DEF SameFirst
<1>8. LookupIn(o, s, f, s[p], M) = LookupIn(o, s, e, s[p], M)
  BY <1>7, LookupAgrees
<1> QED
  BY <1>1, <1>8

\* The origin takes its new row: no snapshot reads that row through it.
OriginChanged(o, q, s, e, L) ==
  /\ Maps(o, s, e) /\ s # <<>> /\ L \in Origin /\ e[s[Len(s)]][L] # None
  /\ \A M \in Origin : M # L => q[M] = o[M]

LEMMA OriginAgrees ==
  ASSUME NEW s, NEW o, NEW q, NEW e, NEW L, OriginChanged(o, q, s, e, L),
         NEW g, In(g, s), NEW M \in Origin
  PROVE  LookupIn(q, s, e, g, M) = LookupIn(o, s, e, g, M)
<1> USE DEF OriginChanged, Maps
<1>1. PICK p \in DOMAIN s : s[p] = g
  BY DEF In
<1>2. Len(s) \in DOMAIN s /\ Len(s) >= p
  BY LenProperties, EmptySeq
<1>3. NoCopy(s, e, p, M) => q[M] = o[M]
  BY <1>2 DEF NoCopy
<1>4. SameFirst(o, s, e, p, q, s, e, p, M)
  BY <1>3 DEF SameFirst
<1>5. LookupIn(q, s, e, s[p], M) = LookupIn(o, s, e, s[p], M)
  BY <1>4, LookupAgrees
<1> QED
  BY <1>1, <1>5

\* A new snapshot, without copies, at the end of the chain.
SnapshotAdded(o, s, e, f, h) ==
  /\ Maps(o, s, e) /\ h \in Slots /\ ~In(h, s)
  /\ f = [e EXCEPT ![h] = [L \in Origin |-> None]]

LEMMA CreateAgrees ==
  ASSUME NEW s, NEW o, NEW e, NEW f, NEW h, SnapshotAdded(o, s, e, f, h),
         NEW g, In(g, s), NEW M \in Origin
  PROVE  LookupIn(o, Append(s, h), f, g, M) = LookupIn(o, s, e, g, M)
<1> USE DEF SnapshotAdded, Maps
<1>1. PICK p \in DOMAIN s : s[p] = g
  BY DEF In
<1>2. PICK t \in Seq(Slots) : t = Append(s, h)
  BY AppendProperties
<1>3. /\ Len(s) \in Nat /\ DOMAIN s = 1..Len(s) /\ DOMAIN t = 1..(Len(s) + 1)
      /\ \A k \in 1..Len(s) : t[k] = s[k] /\ s[k] \in Slots /\ s[k] # h
      /\ t[Len(s) + 1] = h
      /\ Distinct(t)
  BY <1>2, AppendProperties, LenProperties, ElementOfSeq, InAppend DEF In
<1>4. /\ \A k \in DOMAIN s : f[t[k]][M] = e[s[k]][M]
      /\ f[t[Len(s) + 1]][M] = None
  BY <1>3 DEF Copies
<1>5. NoCopy(s, e, p, M) => NoCopy(t, f, p, M)
  BY <1>3, <1>4 DEF NoCopy
<1>6. \A k \in DOMAIN s : FirstCopy(s, e, p, k, M) =>
                            FirstCopy(t, f, p, k, M) /\ f[t[k]][M] = e[s[k]][M]
  BY <1>3, <1>4 DEF FirstCopy
<1>7. p \in DOMAIN t /\ t[p] = s[p]
  BY <1>3
<1>8. \A k \in DOMAIN s : k \in DOMAIN t
  BY <1>3
<1>9. SameFirst(o, s, e, p, o, t, f, p, M)
  BY <1>5, <1>6, <1>8 DEF SameFirst
<1>10. LookupIn(o, t, f, s[p], M) = LookupIn(o, s, e, s[p], M)
  BY <1>3, <1>7, <1>9, LookupAgrees
<1> QED
  BY <1>1, <1>2, <1>10

\* Rows handed to the next older snapshot: it, and those before it, met them next.
RowsHanded(o, s, e, f, q) ==
  /\ Maps(o, s, e) /\ q \in DOMAIN s /\ q > 1
  /\ \A k \in DOMAIN s, L \in Origin :
       f[s[k]][L] = IF k = q - 1 /\ e[s[q]][L] # None /\ e[s[k]][L] = None
                    THEN e[s[q]][L] ELSE e[s[k]][L]

LEMMA HandOverAgrees ==
  ASSUME NEW s, NEW o, NEW e, NEW f, NEW q, RowsHanded(o, s, e, f, q),
         NEW g, In(g, s), NEW M \in Origin
  PROVE  LookupIn(o, s, f, g, M) = LookupIn(o, s, e, g, M)
<1> USE DEF RowsHanded, Maps
<1>1. PICK p \in DOMAIN s : s[p] = g
  BY DEF In
<1>2. DOMAIN s = 1..Len(s) /\ Len(s) \in Nat /\ q - 1 \in DOMAIN s
  BY LenProperties
<1>3. NoCopy(s, e, p, M) => NoCopy(s, f, p, M)
  BY <1>2 DEF NoCopy
<1>4. ASSUME NEW k \in DOMAIN s, FirstCopy(s, e, p, k, M)
      PROVE  \E m \in DOMAIN s : FirstCopy(s, f, p, m, M) /\ f[s[m]][M] = e[s[k]][M]
  <2>1. CASE k = q /\ q - 1 >= p
    <3>1. e[s[q]][M] # None /\ e[s[q - 1]][M] = None
      BY <1>2, <1>4, <2>1 DEF FirstCopy
    <3>2. f[s[q - 1]][M] = e[s[q]][M]
      BY <1>2, <3>1
    <3>3. \A m \in DOMAIN s : m >= p /\ m < q - 1 => f[s[m]][M] = None
      BY <1>2, <1>4, <2>1 DEF FirstCopy
    <3> QED
      BY <1>2, <2>1, <3>1, <3>2, <3>3 DEF FirstCopy
  <2>2. CASE ~(k = q /\ q - 1 >= p)
    <3>1. ASSUME NEW m \in DOMAIN s, m >= p, m <= k PROVE f[s[m]][M] = e[s[m]][M]
      <4>1. CASE m = q - 1 /\ e[s[m]][M] = None
        <5>1. q < k
          BY <1>2, <1>4, <2>2, <3>1, <4>1 DEF FirstCopy
        <5> QED
          BY <1>2, <1>4, <3>1, <4>1, <5>1 DEF FirstCopy
      <4>2. CASE ~(m = q - 1 /\ e[s[m]][M] = None)
        BY <4>2
      <4> QED
        BY <4>1, <4>2
    <3>2. FirstCopy(s, f, p, k, M)
      BY <1>2, <1>4, <3>1 DEF FirstCopy
    <3> QED
      BY <1>2, <1>4, <3>1, <3>2 DEF FirstCopy
  <2> QED
    BY <2>1, <2>2
<1>5. SameFirst(o, s, e, p, o, s, f, p, M)
  BY <1>3, <1>4 DEF SameFirst
<1>6. LookupIn(o, s, f, s[p], M) = LookupIn(o, s, e, s[p], M)
  BY <1>5, LookupAgrees
<1> QED
  BY <1>1, <1>6

\* A snapshot whose copies the next older one has too leaves the chain.
SnapshotRemoved(o, s, e, f, q) ==
  /\ Maps(o, s, e) /\ q \in DOMAIN s
  /\ q > 1 => \A L \in Origin : e[s[q]][L] # None => e[s[q - 1]][L] # None
  /\ f = [e EXCEPT ![s[q]] = [L \in Origin |-> None]]

LEMMA UnlinkAgrees ==
  ASSUME NEW s, NEW o, NEW e, NEW f, NEW q, SnapshotRemoved(o, s, e, f, q),
         NEW g, In(g, s), g # s[q], NEW M \in Origin
  PROVE  LookupIn(o, Without(s, q), f, g, M) = LookupIn(o, s, e, g, M)
<1> USE DEF SnapshotRemoved, Maps
<1>1. PICK p \in DOMAIN s : s[p] = g
  BY DEF In
<1>2. PICK t \in Seq(Slots) : t = Without(s, q)
  BY WithoutPlaces
<1>3. /\ Len(s) \in Nat /\ DOMAIN s = 1..Len(s) /\ DOMAIN t = 1..(Len(s) - 1)
      /\ \A k \in 1..(Len(s) - 1) : t[k] = IF k < q THEN s[k] ELSE s[k + 1]
  BY <1>2, WithoutPlaces, LenProperties
<1>4. Distinct(t)
  BY <1>2, InWithout
<1>5. \A k \in DOMAIN s : k # q => s[k] \in Slots /\ s[k] # s[q] /\ f[s[k]][M] = e[s[k]][M]
  BY <1>3, ElementOfSeq DEF Copies, Distinct
<1> DEFINE At(k) == IF k < q THEN k ELSE k - 1
<1>6. \A k \in DOMAIN s : k # q => At(k) \in DOMAIN t /\ t[At(k)] = s[k]
  BY <1>3
<1>7. \A k \in DOMAIN t : \E m \in DOMAIN s : m # q /\ k = At(m)
  <2> SUFFICES ASSUME NEW k \in DOMAIN t PROVE \E m \in DOMAIN s : m # q /\ k = At(m)
    OBVIOUS
  <2>1. CASE k < q
    BY <1>3, <2>1
  <2>2. CASE ~(k < q)
    <3>1. k \in Int /\ q \in Int /\ k >= q /\ k + 1 \in DOMAIN s
      BY <1>3, <2>2
    <3>2. k + 1 # q /\ ~(k + 1 < q) /\ (k + 1) - 1 = k
      BY <3>1
    <3> QED
      BY <3>1, <3>2
  <2> QED
    BY <2>1, <2>2
<1>8. \A j, k \in DOMAIN s : j # q /\ k # q =>
        (At(j) >= At(k) <=> j >= k) /\ (At(j) < At(k) <=> j < k)
  BY <1>3
<1> HIDE DEF At
<1>9. p # q
  BY <1>1
<1>10. NoCopy(s, e, p, M) => NoCopy(t, f, At(p), M)
  BY <1>5, <1>6, <1>7, <1>8, <1>9 DEF NoCopy
<1>11. ASSUME NEW k \in DOMAIN s, FirstCopy(s, e, p, k, M)
       PROVE  FirstCopy(t, f, At(p), At(k), M) /\ f[t[At(k)]][M] = e[s[k]][M]
  <2>1. k # q
    <3> SUFFICES ASSUME k = q PROVE FALSE
      OBVIOUS
    <3>1. k >= p /\ e[s[q]][M] # None
          /\ \A m \in DOMAIN s : m >= p /\ m < q => e[s[m]][M] = None
      BY <1>11 DEF FirstCopy
    <3>2. q > 1 /\ q - 1 \in DOMAIN s /\ q - 1 >= p /\ q - 1 < q
      BY <1>3, <1>9, <3>1
    <3> QED
      BY <3>1, <3>2
  <2>2. /\ At(k) \in DOMAIN t /\ At(k) >= At(p)
        /\ f[t[At(k)]][M] = e[s[k]][M]
    BY <1>5, <1>6, <1>8, <1>9, <1>11, <2>1 DEF FirstCopy
  <2>3. ASSUME NEW m \in DOMAIN t, m >= At(p), m < At(k) PROVE f[t[m]][M] = None
    <3>1. PICK j \in DOMAIN s : j # q /\ m = At(j)
      BY <1>7
    <3> QED
      BY <1>5, <1>6, <1>8, <1>9, <1>11, <2>1, <2>3, <3>1 DEF FirstCopy
  <2> QED
    BY <1>11, <2>2, <2>3 DEF FirstCopy
<1>12. At(p) \in DOMAIN t /\ t[At(p)] = s[p]
  BY <1>6, <1>9
<1>13. ASSUME NEW k \in DOMAIN s, FirstCopy(s, e, p, k, M)
       PROVE  \E m \in DOMAIN t : FirstCopy(t, f, At(p), m, M) /\ f[t[m]][M] = e[s[k]][M]
  BY <1>11, <1>13 DEF FirstCopy
<1>14. SameFirst(o, s, e, p, o, t, f, At(p), M)
  BY <1>10, <1>13 DEF SameFirst
<1>15. LookupIn(o, t, f, s[p], M) = LookupIn(o, s, e, s[p], M)
  BY <1>4, <1>12, <1>14, LookupAgrees
<1> QED
  BY <1>1, <1>2, <1>15


-----------------------------------------------------------------------------
(* The readers                                                              *)

\* Once the rows are handed over, the next older snapshot has what g had.
HandShape ==
  worker.pc = "half" /\ Next1 = Command /\ HasOlder(cmd.g) =>
    \A L \in Origin : exc[cmd.g][L] # None => exc[Older(cmd.g)][L] # None

ReadRecords ==
  [pc : {"idle", "mapped", "fly"}, g : Int, L : Origin, P : RowOrNone]

\* The command is not about snapshot g.
LeftAlone(g) == ~(cmd.pc # "idle" /\ cmd.g = g)

ReadShape ==
  /\ rd \in [Readers -> ReadRecords]
  /\ \A s \in Readers :
       rd[s].pc # "idle" =>
         /\ InChain(rd[s].g) /\ LeftAlone(rd[s].g)
         /\ rd[s].P = Lookup(rd[s].g, rd[s].L)

ReadInv == HandShape /\ ReadShape

\* A step under which no snapshot that can be read shows another row.
SameImages ==
  \A g, L : InChain(g) /\ LeftAlone(g) /\ L \in Origin =>
              InChain(g)' /\ Lookup(g, L)' = Lookup(g, L)

\* A step under which no snapshot at all shows another row.
AllImages ==
  \A g, L : InChain(g) /\ L \in Origin => InChain(g)' /\ Lookup(g, L)' = Lookup(g, L)

\* Snapshots that readers hold are left alone after the step too.
SparesReaders ==
  \A s \in Readers : \A g : rd[s].pc # "idle" /\ rd[s].g = g /\ LeftAlone(g) => LeftAlone(g)'

LEMMA ReadersKeep ==
  ASSUME ReadInv, rd' = rd, SameImages, SparesReaders
  PROVE  ReadShape'
<1> SUFFICES ASSUME NEW s \in Readers, rd[s].pc # "idle"
             PROVE  /\ InChain(rd[s].g)' /\ LeftAlone(rd[s].g)'
                    /\ rd[s].P = Lookup(rd[s].g, rd[s].L)'
  BY DEF ReadInv, ReadShape
<1>1. /\ InChain(rd[s].g) /\ LeftAlone(rd[s].g) /\ rd[s].L \in Origin
      /\ rd[s].P = Lookup(rd[s].g, rd[s].L)
  BY DEF ReadInv, ReadShape, ReadRecords
<1> QED
  BY <1>1 DEF SameImages, SparesReaders

LEMMA SameMapsSameImages ==
  ASSUME UNCHANGED <<origin, snaps, exc>>
  PROVE  SameImages
BY DEF SameImages, InChain, Lookup

LEMMA SameCommandSpares ==
  ASSUME cmd' = cmd \/ (cmd' = [cmd EXCEPT !.pc = "applied"] /\ cmd \in CommandRecords
                          /\ cmd.pc # "idle")
  PROVE  SparesReaders
BY DEF SparesReaders, LeftAlone, CommandRecords

\* The chain as a list, and the maps' types.
LEMMA ChainTypes ==
  ASSUME SnapInv, OwnInv
  PROVE  /\ snaps \in Seq(Slots) /\ Distinct(snaps) /\ Copies(exc)
         /\ origin \in [Origin -> Physical]
         /\ \A g : InChain(g) <=> In(g, snaps)
BY DEF SnapInv, OwnInv, Types, ChainShape, Copies, InChain, In

LEMMA ApplyExceptionReads ==
  ASSUME SnapInv, OwnInv, ReadInv, ApplyException
  PROVE  ReadInv' /\ AllImages
<1>1. /\ worker.pc = "apply" /\ Next1 # Command
      /\ exc' = [exc EXCEPT ![snaps[Len(snaps)]][cow[Next1].L] = cow[Next1].oldP]
      /\ UNCHANGED <<origin, snaps, cmd, rd>>
  BY DEF ApplyException, Applying, control, users
<1>2. worker'.pc = "half" /\ worker'.batch = worker.batch
  BY ApplyExceptionKeeps
<1>3. PICK i \in CowIds : i = Next1 /\ cow[i].pc = "pend"
  BY <1>1, BatchHead DEF SnapInv, WorkerShape
<1>4. PICK L \in Origin : L = cow[i].L
  BY <1>3, CopyRow DEF HasRows
<1>5. snaps # <<>> /\ exc[Newest][L] = None /\ origin[L] = cow[i].oldP
  BY <1>1, <1>3, <1>4 DEF OwnInv, CopyShape, Inside, Acting, HasRows
<1>6. exc' = [exc EXCEPT ![snaps[Len(snaps)]][L] = origin[L]]
  BY <1>1, <1>3, <1>4, <1>5
<1>7. AllImages
  <2> SUFFICES ASSUME NEW g, NEW M, InChain(g), M \in Origin
               PROVE  InChain(g)' /\ Lookup(g, M)' = Lookup(g, M)
    BY DEF AllImages
  <2>1. LookupIn(origin, snaps, exc', g, M) = LookupIn(origin, snaps, exc, g, M)
    <3>1. Maps(origin, snaps, exc) /\ In(g, snaps)
      BY ChainTypes DEF Maps
    <3>2. ExceptionAdded(origin, snaps, exc, exc', L)
      BY <1>5, <1>6, <3>1 DEF Newest, ExceptionAdded
    <3> QED
      BY <3>1, <3>2, ExceptionAgrees
  <2> QED
    BY <1>1, <2>1, LookupDef DEF InChain
<1>8. HandShape'
  BY <1>1, <1>2 DEF HandShape, Next1
<1> QED
  BY <1>1, <1>7, <1>8, ReadersKeep, SameCommandSpares DEF ReadInv, SameImages, AllImages

LEMMA ApplyOriginReads ==
  ASSUME SnapInv, OwnInv, ReadInv, ApplyOrigin
  PROVE  ReadInv' /\ AllImages
<1>1. /\ worker.pc = "half" /\ Next1 # Command
      /\ origin' = [origin EXCEPT ![cow[Next1].L] = cow[Next1].newP]
      /\ UNCHANGED <<snaps, exc, cmd, rd>>
  BY DEF ApplyOrigin, control
<1>2. worker'.pc = "finish" /\ Next1 \in CowIds /\ cow[Next1].pc = "pend"
  BY ApplyOriginKeeps
<1>3. PICK i \in CowIds : i = Next1 /\ cow[i].pc = "pend"
  BY <1>2
<1>4a. PICK L \in Origin : \E N : L = cow[i].L /\ N = cow[i].newP
  BY <1>3, CopyRow DEF HasRows
<1>4. PICK N : L = cow[i].L /\ N = cow[i].newP
  BY <1>4a
<1>5. snaps # <<>> /\ exc[Newest][L] # None
  <2>1. snaps # <<>> /\ exc[Newest][L] = cow[i].oldP
    BY <1>1, <1>3, <1>4 DEF OwnInv, CopyShape, Inside, Acting
  <2>2. cow[i].oldP # None
    BY <1>3 DEF SnapInv, CowShape, HasRows
  <2> QED
    BY <2>1, <2>2
<1>6. origin' = [origin EXCEPT ![L] = N]
  BY <1>1, <1>3, <1>4
<1>7. AllImages
  <2> SUFFICES ASSUME NEW g, NEW M, InChain(g), M \in Origin
               PROVE  InChain(g)' /\ Lookup(g, M)' = Lookup(g, M)
    BY DEF AllImages
  <2>1. LookupIn(origin', snaps, exc, g, M) = LookupIn(origin, snaps, exc, g, M)
    <3>1. Maps(origin, snaps, exc) /\ In(g, snaps)
      BY ChainTypes DEF Maps
    <3>2. OriginChanged(origin, origin', snaps, exc, L)
      BY <1>5, <1>6, <3>1 DEF Newest, OriginChanged, Maps
    <3> QED
      BY <3>1, <3>2, OriginAgrees
  <2> QED
    BY <1>1, <2>1, LookupDef DEF InChain
<1>8. HandShape'
  BY <1>2 DEF HandShape
<1> QED
  BY <1>1, <1>7, <1>8, ReadersKeep, SameCommandSpares DEF ReadInv, SameImages, AllImages

LEMMA ApplyCreateReads ==
  ASSUME SnapInv, OwnInv, ReadInv, ApplyCreate
  PROVE  ReadInv' /\ AllImages
<1>1. /\ snaps' = Append(snaps, cmd.g)
      /\ exc' = [exc EXCEPT ![cmd.g] = [L \in Origin |-> None]]
      /\ cmd' = [cmd EXCEPT !.pc = "applied"]
      /\ UNCHANGED <<origin, rd>>
  BY DEF ApplyCreate, users
<1>2. CommandDone /\ cmd.g \in Slots /\ ~InChain(cmd.g)
  BY ApplyCreateKeeps
<1>3. PICK h \in Slots : h = cmd.g
  BY <1>2
<1>4. worker'.pc # "half" /\ cmd.pc = "commit" /\ cmd \in CommandRecords
  BY <1>2, BatchHead DEF CommandDone, Advances, SnapInv, Types
<1>5. AllImages
  <2> SUFFICES ASSUME NEW g, NEW M, InChain(g), M \in Origin
               PROVE  InChain(g)' /\ Lookup(g, M)' = Lookup(g, M)
    BY DEF AllImages
  <2>1. LookupIn(origin, Append(snaps, h), exc', g, M) = LookupIn(origin, snaps, exc, g, M)
    <3>1. Maps(origin, snaps, exc) /\ In(g, snaps)
      BY ChainTypes DEF Maps
    <3>2. SnapshotAdded(origin, snaps, exc, exc', h)
      BY <1>1, <1>2, <1>3, <3>1, ChainTypes DEF SnapshotAdded
    <3> QED
      BY <3>1, <3>2, CreateAgrees
  <2>2. InChain(g)'
    <3>1. In(g, snaps')
      BY <1>1, <1>3, ChainTypes, InAppend
    <3> QED
      BY <3>1 DEF InChain, In
  <2> QED
    BY <1>1, <1>3, <2>1, <2>2, LookupDef
<1>6. HandShape'
  BY <1>4 DEF HandShape
<1> QED
  BY <1>1, <1>4, <1>5, <1>6, ReadersKeep, SameCommandSpares DEF ReadInv, SameImages, AllImages

LEMMA ApplyDestroyRowsReads ==
  ASSUME SnapInv, OwnInv, ReadInv, ApplyDestroyRows
  PROVE  ReadInv' /\ AllImages
<1>1. PICK h \in Slots : h = cmd.g /\ InChain(h)
  BY ApplyDestroyRowsKeeps
<1>2. /\ exc' = IF ~HasOlder(h) THEN exc
                ELSE [exc EXCEPT ![Older(h)] =
                        [L \in Origin |-> IF L \in {M \in Origin : MovesToOlder(h, M)}
                                          THEN exc[h][L] ELSE @[L]]]
      /\ UNCHANGED <<origin, snaps, cmd, rd>>
  BY <1>1 DEF ApplyDestroyRows, Older, control, users
<1>3. Place(h) \in DOMAIN snaps /\ snaps[Place(h)] = h
  BY <1>1, PlaceInChain
<1>4. PICK q \in DOMAIN snaps : q = Place(h) /\ snaps[q] = h
  BY <1>3
<1>5. Next1' = Next1
  BY ApplyDestroyRowsKeeps DEF Next1
<1>6. CASE ~HasOlder(h)
  <2>1. HandShape'
    BY <1>1, <1>2, <1>6 DEF HandShape, HasOlder, Place
  <2> QED
    BY <1>2, <1>6, <2>1, ReadersKeep, SameCommandSpares DEF ReadInv, SameImages, AllImages, InChain, Lookup
<1>7. CASE HasOlder(h)
  <2>1. Older(h) \in Slots /\ Older(h) # h /\ q > 1 /\ snaps[q - 1] = Older(h)
    BY <1>1, <1>4, <1>7, OlderInChain DEF OwnInv, HasOlder, Older
  <2>2. PICK old \in Slots : old = Older(h)
    BY <2>1
  <2>3. \A L \in Origin : MovesToOlder(h, L) <=> exc[h][L] # None /\ exc[old][L] = None
    BY <1>7, <2>2 DEF MovesToOlder, Older
  <2>4. ASSUME NEW x \in Slots, NEW L \in Origin
        PROVE  exc'[x][L] = IF x = old /\ exc[h][L] # None /\ exc[old][L] = None
                            THEN exc[h][L] ELSE exc[x][L]
    <3>1. Copies(exc)
      BY ChainTypes
    <3>2. exc' = [exc EXCEPT ![old] =
                    [M \in Origin |-> IF M \in {N \in Origin : MovesToOlder(h, N)}
                                      THEN exc[h][M] ELSE exc[old][M]]]
      BY <1>2, <1>7, <2>2
    <3> QED
      BY <2>3, <3>1, <3>2 DEF Copies
  <2>5. \A k \in DOMAIN snaps : snaps[k] \in Slots /\ (snaps[k] = old <=> k = q - 1)
    <3>1. snaps \in Seq(Slots) /\ Distinct(snaps)
      BY ChainTypes
    <3>2. q - 1 \in DOMAIN snaps /\ \A k \in DOMAIN snaps : snaps[k] \in Slots
      BY <2>1, <3>1, LenProperties, ElementOfSeq
    <3> QED
      BY <2>1, <2>2, <3>1, <3>2 DEF Distinct
  <2>6. \A k \in DOMAIN snaps, L \in Origin :
          exc'[snaps[k]][L] =
            IF k = q - 1 /\ exc[snaps[q]][L] # None /\ exc[snaps[k]][L] = None
            THEN exc[snaps[q]][L] ELSE exc[snaps[k]][L]
    BY <1>4, <2>4, <2>5
  <2>7. AllImages
    <3> SUFFICES ASSUME NEW g, NEW M, InChain(g), M \in Origin
                 PROVE  InChain(g)' /\ Lookup(g, M)' = Lookup(g, M)
      BY DEF AllImages
    <3>1. LookupIn(origin, snaps, exc', g, M) = LookupIn(origin, snaps, exc, g, M)
      <4>1. Maps(origin, snaps, exc) /\ In(g, snaps)
        BY ChainTypes DEF Maps
      <4>2. RowsHanded(origin, snaps, exc, exc', q)
        BY <2>1, <2>6, <4>1 DEF RowsHanded
      <4> QED
        BY <4>1, <4>2, HandOverAgrees
    <3> QED
      BY <1>2, <3>1, LookupDef DEF InChain
  <2>8. HandShape'
    <3>1. \A L \in Origin : exc'[h][L] # None => exc'[old][L] # None
      BY <2>1, <2>2, <2>4
    <3>2. Older(h)' = Older(h)
      BY <1>2 DEF Older, Place
    <3>3. HandShape' <=> (worker'.pc = "half" /\ Next1' = Command /\ HasOlder(h)' =>
            \A L \in Origin : exc'[h][L] # None => exc'[Older(h)'][L] # None)
      BY <1>1, <1>2 DEF HandShape, HasOlder, Older, Place
    <3> QED
      BY <2>2, <3>1, <3>2, <3>3
  <2> QED
    BY <1>2, <2>7, <2>8, ReadersKeep, SameCommandSpares DEF ReadInv, SameImages, AllImages
<1> QED
  BY <1>6, <1>7

LEMMA ApplyDestroyLinkReads ==
  ASSUME SnapInv, OwnInv, ReadInv, ApplyDestroyLink
  PROVE  ReadInv' /\ SameImages
<1>1. PICK h \in Slots : h = cmd.g /\ InChain(h)
  BY ApplyDestroyLinkKeeps
<1>2. /\ worker.pc = "half" /\ Next1 = Command
      /\ snaps' = Without(snaps, Place(h))
      /\ exc' = [exc EXCEPT ![h] = [L \in Origin |-> None]]
      /\ cmd' = [cmd EXCEPT !.pc = "applied"]
      /\ UNCHANGED <<origin, rd>>
      /\ CommandDone
  BY <1>1, ApplyDestroyLinkKeeps DEF ApplyDestroyLink, users
<1>3. PICK q \in DOMAIN snaps : q = Place(h) /\ snaps[q] = h
  BY <1>1, PlaceInChain
<1>4. worker'.pc # "half" /\ cmd.pc = "commit" /\ cmd \in CommandRecords
  BY <1>2, BatchHead DEF CommandDone, Advances, SnapInv, Types
<1>5. q > 1 => \A L \in Origin : exc[snaps[q]][L] # None => exc[snaps[q - 1]][L] # None
  BY <1>1, <1>2, <1>3 DEF ReadInv, HandShape, HasOlder, Older
<1>6. SameImages
  <2> SUFFICES ASSUME NEW g, NEW M, InChain(g), LeftAlone(g), M \in Origin
               PROVE  InChain(g)' /\ Lookup(g, M)' = Lookup(g, M)
    BY DEF SameImages
  <2>1. g # h
    BY <1>1, <1>4 DEF LeftAlone
  <2>2. LookupIn(origin, Without(snaps, q), exc', g, M) = LookupIn(origin, snaps, exc, g, M)
    <3>1. Maps(origin, snaps, exc) /\ In(g, snaps)
      BY ChainTypes DEF Maps
    <3>2. SnapshotRemoved(origin, snaps, exc, exc', q)
      BY <1>2, <1>3, <1>5, <3>1 DEF SnapshotRemoved
    <3> QED
      BY <1>3, <2>1, <3>1, <3>2, UnlinkAgrees
  <2>3. InChain(g)'
    <3>1. In(g, snaps')
      BY <1>2, <1>3, <2>1, ChainTypes, InWithout
    <3> QED
      BY <3>1 DEF InChain, In
  <2> QED
    BY <1>2, <1>3, <2>2, <2>3, LookupDef
<1>7. HandShape'
  BY <1>4 DEF HandShape
<1> QED
  BY <1>2, <1>4, <1>6, <1>7, ReadersKeep, SameCommandSpares DEF ReadInv


\* Steps that leave the maps and the readers alone.
LEMMA StillReads ==
  ASSUME ReadInv, UNCHANGED <<origin, snaps, exc, rd>>, SparesReaders,
         \/ worker'.pc # "half"
         \/ UNCHANGED <<worker, cmd>>
         \/ worker' = worker /\ ~(worker.pc = "half" /\ Next1 = Command)
  PROVE  ReadInv'
<1>1. HandShape'
  BY DEF ReadInv, HandShape, Next1, HasOlder, Older, Place
<1> QED
  BY <1>1, SameMapsSameImages, ReadersKeep DEF ReadInv

\* A read looks its row up, enters the array, and is done.
LEMMA ReaderReads ==
  ASSUME SnapInv, OwnInv, ReadInv, NEW s \in Readers,
         SnapRead(s) \/ SnapReadEnter(s) \/ SnapReadDone(s)
  PROVE  ReadInv'
<1>1. UNCHANGED <<origin, snaps, exc, worker, cmd>>
  BY DEF SnapRead, SnapReadEnter, SnapReadDone, maps, workers, control
<1>2. HandShape'
  BY <1>1 DEF ReadInv, HandShape, Next1, HasOlder, Older, Place
<1>3. rd \in [Readers -> ReadRecords]
  BY DEF ReadInv, ReadShape
<1>4. PICK x \in ReadRecords :
        /\ rd' = [rd EXCEPT ![s] = x]
        /\ x.pc # "idle" => InChain(x.g) /\ LeftAlone(x.g) /\ x.P = Lookup(x.g, x.L)
  <2>1. CASE SnapRead(s)
    <3>1. PICK g \in Slots, L \in Origin :
            /\ Readable(g)
            /\ rd' = [rd EXCEPT ![s] = [pc |-> "mapped", g |-> g, L |-> L,
                                        P |-> Lookup(g, L)]]
      BY <2>1 DEF SnapRead
    <3>2. InChain(g) /\ LeftAlone(g)
      BY <3>1 DEF Readable, LeftAlone
    <3>3. Lookup(g, L) \in RowOrNone
      <4>1. /\ snaps \in Seq(Slots) /\ Distinct(snaps) /\ Copies(exc) /\ In(g, snaps)
            /\ origin \in [Origin -> Physical]
        BY <3>2, ChainTypes
      <4>2. LookupIn(origin, snaps, exc, g, L) \in RowOrNone
        BY <4>1, LookupType
      <4> QED
        BY <4>2, LookupDef
    <3> DEFINE x == [pc |-> "mapped", g |-> g, L |-> L, P |-> Lookup(g, L)]
    <3>4. x \in ReadRecords /\ x.g = g /\ x.P = Lookup(g, L) /\ x.L = L
      BY <3>3, Constants DEF ReadRecords
    <3>5. rd' = [rd EXCEPT ![s] = x]
      BY <3>1
    <3> HIDE DEF x
    <3> QED
      BY <3>2, <3>4, <3>5
  <2>2. CASE SnapReadEnter(s)
    <3> DEFINE x == [rd[s] EXCEPT !.pc = "fly"]
    <3>1. /\ x \in ReadRecords /\ x.g = rd[s].g /\ x.P = rd[s].P /\ x.L = rd[s].L
          /\ rd[s].pc # "idle"
      BY <1>3, <2>2 DEF ReadRecords, SnapReadEnter
    <3>2. rd' = [rd EXCEPT ![s] = x]
      BY <2>2 DEF SnapReadEnter
    <3> HIDE DEF x
    <3> QED
      BY <3>1, <3>2 DEF ReadInv, ReadShape
  <2>3. CASE SnapReadDone(s)
    <3>1. IdleReader \in ReadRecords /\ IdleReader.pc = "idle"
      BY Constants DEF IdleReader, ReadRecords, RowOrNone
    <3> QED
      BY <2>3, <3>1 DEF SnapReadDone
  <2> QED
    BY <2>1, <2>2, <2>3
<1>5. rd' \in [Readers -> ReadRecords]
      /\ \A t \in Readers : rd'[t] = IF t = s THEN x ELSE rd[t]
  BY <1>3, <1>4
<1>6. \A g : /\ InChain(g)' <=> InChain(g)
             /\ LeftAlone(g)' <=> LeftAlone(g)
             /\ \A L : Lookup(g, L)' = Lookup(g, L)
  BY <1>1 DEF InChain, LeftAlone, Lookup
<1>7. ASSUME NEW t \in Readers, rd'[t].pc # "idle"
      PROVE  /\ InChain(rd'[t].g) /\ LeftAlone(rd'[t].g)
             /\ rd'[t].P = Lookup(rd'[t].g, rd'[t].L)
  <2>1. CASE t = s
    BY <1>4, <1>5, <1>7, <2>1
  <2>2. CASE t # s
    BY <1>5, <1>7, <2>2 DEF ReadInv, ReadShape
  <2> QED
    BY <2>1, <2>2
<1>8. ReadShape'
  <2> SUFFICES ASSUME NEW t \in Readers, rd'[t].pc # "idle"
               PROVE  /\ InChain(rd[t].g)' /\ LeftAlone(rd[t].g)'
                      /\ rd'[t].P = Lookup(rd[t].g, rd[t].L)'
    BY <1>5 DEF ReadShape
  <2>1. PICK g, L : g = rd'[t].g /\ L = rd'[t].L
    OBVIOUS
  <2>2. InChain(g)' /\ LeftAlone(g)' /\ rd'[t].P = Lookup(g, L)'
    BY <1>6, <1>7, <2>1
  <2> QED
    BY <2>1, <2>2 DEF InChain, LeftAlone, Lookup
<1> QED
  BY <1>2, <1>8 DEF ReadInv

LEMMA UserReads ==
  ASSUME SnapInv, OwnInv, ReadInv, UserStep
  PROVE  ReadInv'
<1>1. CASE \E s \in Readers : SnapRead(s) \/ SnapReadEnter(s) \/ SnapReadDone(s)
  BY <1>1, ReaderReads
<1>2. CASE ~\E s \in Readers : SnapRead(s) \/ SnapReadEnter(s) \/ SnapReadDone(s)
  <2>1. rd' = rd
    BY <1>2 DEF UserStep, SubmitWrite, SubmitRead, Perform, SubmitDiscard, QueuedDiscard,
       TrimRows, Resubmit
  <2>2. UserEffect
    BY UserSteps DEF SnapInv
  <2> QED
    BY <2>1, <2>2, StillReads, SameCommandSpares DEF UserEffect
<1> QED
  BY <1>1, <1>2

LEMMA CommandsRead ==
  ASSUME SnapInv, ReadInv, Create \/ Destroy \/ Commands
  PROVE  ReadInv'
<1>1. /\ UNCHANGED <<origin, snaps, exc, worker, rd>> /\ cmd.pc # "commit"
  BY StartCommandKeeps DEF Commands, Suspend, SubmitCommand, Resume, Unhold, EndCommand, maps,
     copies, workers, users
<1>2. ~(worker.pc = "half" /\ Next1 = Command)
  BY <1>1, BatchHead DEF SnapInv, WorkerShape
<1>3. SparesReaders
  <2>1. CASE Create
    <3>1. PICK h : ~InChain(h) /\ cmd'.g = h
      BY <2>1 DEF Create, StartCommand
    <3> QED
      BY <3>1 DEF SparesReaders, LeftAlone, ReadInv, ReadShape
  <2>2. CASE Destroy
    <3>1. PICK h : /\ cmd'.g = h
                   /\ \A s \in Readers : rd[s].pc = "idle" \/ rd[s].g # h
      BY <2>2 DEF Destroy, StartCommand
    <3> QED
      BY <3>1 DEF SparesReaders, LeftAlone
  <2>3. CASE Commands
    <3>1. cmd \in CommandRecords
      BY DEF SnapInv, Types
    <3>2. cmd' = IdleCommand \/ (cmd'.g = cmd.g /\ cmd.pc # "idle")
      BY <2>3, <3>1 DEF Commands, Suspend, SubmitCommand, Resume, Unhold, EndCommand,
         CommandRecords
    <3> QED
      BY <3>2 DEF SparesReaders, LeftAlone, IdleCommand
  <2> QED
    BY <2>1, <2>2, <2>3
<1> QED
  BY <1>1, <1>2, <1>3, StillReads

LEMMA BatchReads ==
  ASSUME SnapInv, ReadInv,
         CommitTake \/ CommitDropFailed \/ CommitRecord \/ FinishRedirect \/ CommitFailed
  PROVE  ReadInv'
<1>1. UNCHANGED <<origin, snaps, exc, rd>>
  BY DEF CommitTake, CommitDropFailed, CommitRecord, FinishRedirect, CommitFailed, maps, users
<1>2. worker \in WorkerRecords /\ cmd \in CommandRecords
  BY DEF SnapInv, Types
<1>3. worker'.pc # "half"
  <2>1. CASE CommitTake
    BY <1>2, <2>1 DEF CommitTake, WorkerRecords
  <2>2. CASE CommitDropFailed
    <3>1. PICK t : worker' = [worker EXCEPT !.batch = t] /\ worker.pc = "build"
      BY <2>2 DEF CommitDropFailed
    <3> QED
      BY <1>2, <3>1 DEF WorkerRecords
  <2>3. CASE CommitRecord
    <3>1. \/ worker' = IdleWorker
          \/ \E out : worker' = [worker EXCEPT !.pc = "apply", !.out = out]
      BY <2>3 DEF CommitRecord
    <3>2. IdleWorker.pc = "idle"
      BY DEF IdleWorker
    <3>3. ASSUME NEW out, worker' = [worker EXCEPT !.pc = "apply", !.out = out]
          PROVE  worker'.pc = "apply"
      BY <1>2, <3>3 DEF WorkerRecords
    <3> QED
      BY <3>1, <3>2, <3>3
  <2>4. CASE FinishRedirect \/ CommitFailed
    BY <2>4, FinishRedirectKeeps, CommitFailedKeeps DEF Advances
  <2> QED
    BY <2>1, <2>2, <2>3, <2>4
<1>4. \/ cmd' = cmd
      \/ cmd' = [cmd EXCEPT !.pc = "applied"] /\ Next1 = Command /\ worker.pc = "apply"
  BY DEF CommitTake, CommitDropFailed, CommitRecord, FinishRedirect, CommitFailed, control
<1>5. Next1 = Command /\ worker.pc = "apply" => cmd.pc = "commit"
  BY BatchHead DEF SnapInv, WorkerShape
<1>6. SparesReaders
  BY <1>2, <1>4, <1>5, SameCommandSpares
<1> QED
  BY <1>1, <1>3, <1>6, StillReads

LEMMA CopyReads ==
  ASSUME ReadInv,
         \/ \E i \in CowIds : CowAlloc(i) \/ CowRead(i) \/ CowWrite(i)
         \/ \E a \in Agents : CowGone(a)
         \/ UNCHANGED vars
  PROVE  ReadInv'
<1>1. UNCHANGED <<origin, snaps, exc, rd, worker, cmd>>
  BY DEF CowAlloc, CowRead, CowWrite, CowGone, maps, control, workers, users, vars
<1> QED
  BY <1>1, StillReads, SameCommandSpares

LEMMA InitReadInv == Init => ReadInv
<1> SUFFICES ASSUME Init PROVE ReadInv
  OBVIOUS
<1>1. IdleReader \in ReadRecords /\ IdleReader.pc = "idle"
  BY Constants DEF IdleReader, ReadRecords, RowOrNone
<1> QED
  BY <1>1 DEF Init, ReadInv, HandShape, ReadShape, IdleWorker

LEMMA ReadInvStep == SnapInv /\ OwnInv /\ ReadInv /\ [Next]_vars => ReadInv'
<1> SUFFICES ASSUME SnapInv, OwnInv, ReadInv, [Next]_vars PROVE ReadInv'
  OBVIOUS
<1>1. CASE Commit
  BY <1>1, BatchReads, ApplyExceptionReads, ApplyOriginReads, ApplyCreateReads,
     ApplyDestroyRowsReads, ApplyDestroyLinkReads DEF Commit
<1> QED
  BY <1>1, UserReads, CommandsRead, CopyReads, StepCases

\* A read of a snapshot chose its row before it entered the array.  Rows are
\* redirected meanwhile, snapshots are created, and others are destroyed, which
\* moves their rows to the next older one: the row is the snapshot's still.
THEOREM ReadersKeepTheRow == Spec => []ReadersKeepTheirRow
<1>1. ReadInv => ReadersKeepTheirRow
  BY DEF ReadInv, ReadShape, ReadersKeepTheirRow
<1> QED
  BY <1>1, InitReadInv, ReadInvStep, SnapInvHolds, OwnInvHolds, PTL DEF Spec
=============================================================================
