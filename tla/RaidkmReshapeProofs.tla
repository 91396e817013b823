------------------------- MODULE RaidkmReshapeProofs -------------------------
(***************************************************************************)
(* The durable frontier of a reshape never retreats: for any two           *)
(* geometries, any number of rows, power failures, failed writes and       *)
(* abandoned bands, user writes and lagging superblocks included.          *)
(*                                                                         *)
(* Every record has a level, the bands it says are over; FrontInv(M) says  *)
(* that the newest record a member still has is of level M, where that     *)
(* leaves the thread, and on how many members the last record was missed.  *)
(* The second half of the module is about what the members hold.           *)
(***************************************************************************)
EXTENDS RaidkmReshape, RaidkmGeometryLemmas, FiniteSetTheorems, WellFoundedInduction,
        TLAPS

\* The frontier after L bands, and the row of the band after those.
Pos(L) == IF Backwards THEN (Rows - L) * KNew ELSE L * KNew
RowAt(L) == IF Backwards THEN Rows - 1 - L ELSE L

\* The bands that are over by the time a record is written.
Level(r) == (r.seq + 1) \div 4

RecordOf(r, T) ==
  /\ r.row = RowAt(T)
  /\ \/ r.phase = "STAGE" /\ r.seq = 4 * T + 2
     \/ r.phase = "COMMIT" /\ r.seq = 4 * T + 3
     \/ r.phase = "DONE" /\ r.seq = 4 * T + 4

Valid(r) ==
  \/ r = NoRecord
  \/ r.phase = "IDLE" /\ r.seq \in {0, 1}
  \/ \E T \in 0..(Rows - 1) : RecordOf(r, T)

Resting == {"ready", "parked", "finished", "replay", "refused"}
Moving == {"STAGE", "scratch", "COMMIT", "home", "DONE"}
Places == Resting \cup Moving \cup {"off", "INIT0", "INIT1", "down"}

FunctionOn(f, S) == f = [x \in S |-> f[x]]

\* The bounds and types the rest relies on.
Shapes ==
  /\ reshape \in Reshapes
  /\ recovering = {}
  /\ epc \in Places
  /\ who \in 0..New.n
  /\ taken \in BOOLEAN
  /\ epc \in Phases /\ who = 0 => ~taken
  /\ crashes \in Nat
  /\ epc \in {"down", "replay"} => crashes > 0
  /\ faults \in 0..reshape.faults
  /\ faulty \subseteq Disks
  /\ Cardinality(faulty) <= faults
  /\ sb.state \in {"old", "reshaping", "new"}
  /\ sb.faulty \subseteq faulty
  /\ FunctionOn(journal, Disks) /\ \A x \in Disks : FunctionOn(journal[x], 0..1)
  /\ \A x \in Disks, s \in 0..1 : Valid(journal[x][s])

\* Before the first superblock of the reshape: the journal is being initialized.
Fresh ==
  /\ epc \in {"off", "INIT0", "INIT1", "ready", "down"}
  /\ faulty = {}
  /\ sb.rpos = Pos(0)
  /\ epc \in {"INIT0", "INIT1", "ready"} => safe = Pos(0) /\ progress = Pos(0)
  /\ \A x \in NewDisks :
       /\ (epc = "INIT0" /\ x < who) \/ epc \in {"INIT1", "ready"}
            => journal[x][0].seq = 0
       /\ (epc = "INIT1" /\ x < who) \/ epc = "ready" => journal[x][1].seq = 1

\* The newest record that a member still has is of level M.
Settled(M) ==
  /\ \A x \in NewDisks, s \in 0..1 : Level(journal[x][s]) <= M
  /\ M > 0 => \E x \in NewDisks \ faulty, s \in 0..1 : Level(journal[x][s]) = M

\* The members below w that do not have record seq in slot s; no more than the
\* writes that failed.
Without(s, seq, w) ==
  {x \in NewDisks : x \in faulty \/ (x < w /\ journal[x][s].seq # seq)}
Few(s, seq, w) == Cardinality(Without(s, seq, w)) <= faults

\* The COMMIT record of the band at hand is out.
Committed == epc \in {"home", "DONE"} \/ (epc = "COMMIT" /\ taken)

\* Where the thread is, L bands behind the safe frontier.
Standing(L) ==
  /\ L \in 0..Rows
  /\ epc \in Resting \cup Moving
  /\ safe = Pos(L)
  /\ IF epc \in Moving THEN L < Rows /\ progress = Pos(L + 1) ELSE progress = safe
  /\ ~Committed /\ crashes = 0 /\ L > 0 => Few(1, 4 * L - 1, New.n)
  /\ epc = "STAGE" => Few(0, 4 * L + 2, who)
  /\ epc \in {"scratch", "COMMIT"} => Few(0, 4 * L + 2, New.n)
  /\ epc = "COMMIT" => Few(1, 4 * L + 3, who)
  /\ epc = "COMMIT" /\ taken
       => \E x \in NewDisks \ faulty : x < who /\ journal[x][1].seq = 4 * L + 3
  /\ epc \in {"home", "DONE"} => Few(1, 4 * L + 3, New.n)

FrontInv(M) ==
  /\ Shapes
  /\ M \in 0..Rows
  /\ sb.state = "old" => M = 0 /\ Fresh
  /\ sb.state = "new" => M = Rows /\ epc \in {"finished", "down"}
  /\ sb.state = "reshaping" =>
       /\ Settled(M)
       /\ \E R \in 0..M : sb.rpos = Pos(R)
       /\ epc # "down" => \E L \in 0..M : /\ M = IF Committed THEN L + 1 ELSE L
                                        /\ Standing(L)

\* No journal that was not initialized, no lone copy of the record an assembly acted
\* on, no failing of every member.
Sober ==
  /\ ~InitMayFail /\ ~LoneRecord /\ ~DegradedStart
  /\ \A r \in Reshapes : r.faults < r.new.n

FrontierInv == \E M \in 0..Rows : FrontInv(M)

-----------------------------------------------------------------------------
(* Numbers                                                                  *)

LEMMA Sizes ==
  ASSUME Shapes
  PROVE  /\ Rows \in Nat /\ Rows > 0
         /\ New.n \in Nat /\ New.n > 0 /\ KNew \in Nat /\ KNew > 0
         /\ Old.n \in Nat /\ Old.n > 0 /\ KOld \in Nat /\ KOld > 0
         /\ Backwards \in BOOLEAN
         /\ Backwards => KNew <= KOld
         /\ ~Backwards => KOld <= KNew
         /\ NewDisks \subseteq Disks
         /\ IsFiniteSet(Disks) /\ IsFiniteSet(NewDisks)
         /\ Cardinality(NewDisks) = New.n
         /\ reshape.faults \in Nat
<1> DEFINE r == reshape
<1>1. r \in Reshapes
  BY DEF Shapes
<1>2. {r.old, r.new} \subseteq [n : Nat, m : Nat \ {0}, rot : BOOLEAN]
      /\ {r.writes, r.crashes, r.faults, r.fails} \subseteq Nat
      /\ r.old.m < r.old.n /\ r.new.m < r.new.n
      /\ IF r.new.n < r.old.n THEN DataDisks(r.new) <= DataDisks(r.old)
                              ELSE DataDisks(r.old) <= DataDisks(r.new)
  BY <1>1, ReshapeAssumption
<1>3. New.n \in Nat /\ New.m \in Nat /\ New.m < New.n
      /\ Old.n \in Nat /\ Old.m \in Nat /\ Old.m < Old.n /\ reshape.faults \in Nat
  BY <1>2 DEF New, Old
<1>4. KNew = New.n - New.m /\ KOld = Old.n - Old.m
  BY DEF KNew, KOld, DataDisks
<1>5. Backwards => KNew <= KOld
  BY <1>2 DEF Backwards, KNew, KOld, New, Old
<1>6. ~Backwards => KOld <= KNew
  BY <1>2 DEF Backwards, KNew, KOld, New, Old
<1>7. NewDisks \subseteq Disks
  BY <1>3 DEF NewDisks, Disks, Backwards
<1>8. IsFiniteSet(NewDisks) /\ Cardinality(NewDisks) = New.n
  <2>1. 0 \in Int /\ New.n - 1 \in Int /\ ~(0 > New.n - 1) /\ (New.n - 1) - 0 + 1 = New.n
    BY <1>3
  <2> QED
    BY <2>1, FS_Interval DEF NewDisks
<1>9. IsFiniteSet(Disks)
  <2>1. 0 \in Int /\ New.n - 1 \in Int /\ Old.n - 1 \in Int
    BY <1>3
  <2>2. IsFiniteSet(0..(New.n - 1)) /\ IsFiniteSet(0..(Old.n - 1))
    BY <2>1, FS_Interval
  <2> QED
    BY <2>2 DEF Disks
<1> QED
  BY <1>3, <1>4, <1>5, <1>6, <1>7, <1>8, <1>9, ReshapeAssumption DEF Backwards

LEMMA PosType ==
  ASSUME Shapes, NEW L \in 0..Rows
  PROVE  Pos(L) \in Nat
<1>1. L \in Nat /\ Rows - L \in Nat
  BY Sizes
<1> QED
  BY <1>1, Sizes DEF Pos

\* A position tells how many bands lie behind it.
LEMMA PosOrder ==
  ASSUME Shapes, NEW L \in 0..Rows, NEW M \in 0..Rows
  PROVE  /\ L <= M => IF Backwards THEN Pos(M) <= Pos(L) ELSE Pos(L) <= Pos(M)
         /\ Pos(L) = Pos(M) => L = M
<1> DEFINE k == KNew
<1>1. k \in Nat /\ k > 0 /\ L \in Nat /\ M \in Nat /\ Rows \in Nat
  BY Sizes
<1>2. ASSUME NEW x \in Int, NEW y \in Int PROVE (x <= y => x * k <= y * k)
                                              /\ (x < y => x * k < y * k)
  BY <1>1, <1>2
<1> HIDE DEF k
<1>3. \A x, y \in Int : (x <= y => x * k <= y * k) /\ (x < y => x * k < y * k)
  BY <1>2
<1>4. L * k \in Int /\ M * k \in Int /\ (Rows - L) * k \in Int /\ (Rows - M) * k \in Int
  BY <1>1
<1>5. CASE Backwards
  <2>1. Pos(L) = (Rows - L) * k /\ Pos(M) = (Rows - M) * k
    BY <1>5 DEF Pos, k
  <2>2. Rows - L \in Int /\ Rows - M \in Int
    BY <1>1
  <2>3. L <= M => Rows - M <= Rows - L
    BY <1>1
  <2>4. L < M => Rows - M < Rows - L
    BY <1>1
  <2>5. M < L => Rows - L < Rows - M
    BY <1>1
  <2>6. L <= M => (Rows - M) * k <= (Rows - L) * k
    BY <1>3, <2>2, <2>3
  <2>7. L < M => (Rows - M) * k < (Rows - L) * k
    BY <1>3, <2>2, <2>4
  <2>8. M < L => (Rows - L) * k < (Rows - M) * k
    BY <1>3, <2>2, <2>5
  <2> QED
    BY <1>1, <1>4, <1>5, <2>1, <2>6, <2>7, <2>8
<1>6. CASE ~Backwards
  <2>1. Pos(L) = L * k /\ Pos(M) = M * k
    BY <1>6 DEF Pos, k
  <2> QED
    BY <1>1, <1>3, <1>4, <1>6, <2>1
<1> QED
  BY <1>5, <1>6

\* The walk: its ends, and the band after L others.
LEMMA Ends ==
  ASSUME Shapes
  PROVE  Start = Pos(0) /\ After(LastRow) = Pos(Rows)
<1>1. CASE Backwards
  <2>1. Size = Rows * KNew
    BY <1>1, Sizes DEF Size, Min2
  <2> QED
    BY <1>1, <2>1, Sizes DEF Start, Pos, After, LastRow
<1>2. CASE ~Backwards
  BY <1>2, Sizes DEF Start, Pos, After, LastRow
<1> QED
  BY <1>1, <1>2

LEMMA BandAt ==
  ASSUME Shapes, NEW L \in 0..(Rows - 1)
  PROVE  /\ RowAt(L) \in RowSet /\ Turn(RowAt(L)) = L
         /\ Before(RowAt(L)) = Pos(L) /\ After(RowAt(L)) = Pos(L + 1)
         /\ BandOf(Pos(L + 1)) = RowAt(L)
         /\ safe = Pos(L) => NextRow = RowAt(L)
<1>1. Rows \in Nat /\ L \in Nat /\ L <= Rows - 1 /\ KNew \in Nat /\ KNew > 0
  BY Sizes
<1>2. RowAt(L) \in RowSet /\ Turn(RowAt(L)) = L
  BY <1>1 DEF RowAt, RowSet, Turn
<1>3. CASE Backwards
  <2>1. Before(RowAt(L)) = Pos(L) /\ After(RowAt(L)) = Pos(L + 1)
    <3>1. (Rows - 1 - L) + 1 = Rows - L /\ Rows - (L + 1) = Rows - 1 - L
      BY <1>1
    <3> QED
      BY <1>3, <3>1 DEF RowAt, Before, After, Pos
  <2>2. ((Rows - (L + 1)) * KNew) \div KNew = Rows - (L + 1)
    BY <1>1, RowStart
  <2>3. ((Rows - L) * KNew) \div KNew = Rows - L
    BY <1>1, RowStart
  <2>4. BandOf(Pos(L + 1)) = RowAt(L)
    BY <1>1, <1>3, <2>2 DEF BandOf, Pos, RowAt
  <2>5. safe = Pos(L) => NextRow = RowAt(L)
    BY <1>1, <1>3, <2>3 DEF NextRow, Pos, RowAt
  <2> QED
    BY <1>2, <2>1, <2>4, <2>5
<1>4. CASE ~Backwards
  <2>1. Before(RowAt(L)) = Pos(L) /\ After(RowAt(L)) = Pos(L + 1)
    BY <1>4 DEF RowAt, Before, After, Pos
  <2>2. ((L + 1) * KNew) \div KNew = L + 1
    BY <1>1, RowStart
  <2>3. (L * KNew) \div KNew = L
    BY <1>1, RowStart
  <2>4. BandOf(Pos(L + 1)) = RowAt(L)
    BY <1>1, <1>4, <2>2 DEF BandOf, Pos, RowAt
  <2>5. safe = Pos(L) => NextRow = RowAt(L)
    BY <1>1, <1>4, <2>3 DEF NextRow, Pos, RowAt
  <2> QED
    BY <1>2, <2>1, <2>4, <2>5
<1> QED
  BY <1>3, <1>4

LEMMA WalkEnds ==
  ASSUME Shapes, NEW L \in 0..Rows, safe = Pos(L)
  PROVE  BandsLeft <=> L < Rows
<1>1. Rows \in 0..Rows /\ Rows \in Nat
  BY Sizes
<1>2. Pos(L) \in Nat /\ Pos(Rows) \in Nat
  BY <1>1, PosType
<1>3. Pos(Rows) = (IF Backwards THEN 0 ELSE Rows * KNew)
  BY <1>1, Sizes DEF Pos
<1>4. L # Rows => Pos(L) # Pos(Rows)
  BY <1>1, PosOrder
<1>5. IF Backwards THEN Pos(Rows) <= Pos(L) ELSE Pos(L) <= Pos(Rows)
  BY <1>1, PosOrder
<1> QED
  BY <1>1, <1>2, <1>3, <1>4, <1>5 DEF BandsLeft


-----------------------------------------------------------------------------
(* Records                                                                  *)

\* The level of each kind of record.
LEMMA Levels ==
  ASSUME NEW T \in Nat
  PROVE  /\ (4 * T + 2 + 1) \div 4 = T
         /\ (4 * T + 3 + 1) \div 4 = T + 1
         /\ (4 * T + 4 + 1) \div 4 = T + 1
         /\ (-1 + 1) \div 4 = 0 /\ (0 + 1) \div 4 = 0 /\ (1 + 1) \div 4 = 0
         /\ T > 0 => (4 * T - 1 + 1) \div 4 = T
         /\ (4 * T + 2) % 2 = 0 /\ (4 * T + 3) % 2 = 1 /\ (4 * T + 4) % 2 = 0
OBVIOUS

LEMMA ValidRecord ==
  ASSUME Shapes, NEW r, Valid(r)
  PROVE  /\ r.seq \in -1..(4 * Rows)
         /\ Level(r) \in 0..Rows
         /\ Level(r) > 0 => JournalFrontier(r) = Pos(Level(r))
         /\ Level(r) = 0 => JournalFrontier(r) \in {Pos(0), sb.rpos}
<1>1. CASE r = NoRecord
  BY <1>1, Sizes, Levels DEF NoRecord, Level, JournalFrontier
<1>2. CASE r.phase = "IDLE" /\ r.seq \in {0, 1}
  BY <1>2, Sizes, Levels DEF Level, JournalFrontier
<1>3. CASE \E T \in 0..(Rows - 1) : RecordOf(r, T)
  <2>1. PICK T \in 0..(Rows - 1) : RecordOf(r, T)
    BY <1>3
  <2>2. T \in Nat /\ T <= Rows - 1 /\ Rows \in Nat
    BY Sizes
  <2>3. After(RowAt(T)) = Pos(T + 1) /\ Before(RowAt(T)) = Pos(T)
    BY BandAt
  <2>4. CASE r.phase = "STAGE" /\ r.seq = 4 * T + 2
    <3>1. Level(r) = T /\ JournalFrontier(r) = Pos(T)
      BY <2>1, <2>2, <2>3, <2>4, Levels DEF Level, JournalFrontier, RecordOf
    <3> QED
      BY <2>2, <2>4, <3>1
  <2>5. CASE r.phase \in {"COMMIT", "DONE"} /\ r.seq \in {4 * T + 3, 4 * T + 4}
    <3>1. Level(r) = T + 1 /\ JournalFrontier(r) = Pos(T + 1)
      BY <2>1, <2>2, <2>3, <2>5, Levels DEF Level, JournalFrontier, RecordOf
    <3> QED
      BY <2>2, <2>5, <3>1
  <2> QED
    BY <2>1, <2>4, <2>5 DEF RecordOf
<1> QED
  BY <1>1, <1>2, <1>3 DEF Valid

LEMMA NewestExists ==
  ASSUME NEW R, R # {}, NEW b \in Int, \A r \in R : r.seq \in Int /\ r.seq <= b
  PROVE  \E r \in R : \A q \in R : q.seq <= r.seq
<1> DEFINE D == {b - r.seq : r \in R}
<1>1. D \subseteq Nat /\ D # {}
  OBVIOUS
<1>2. PICK d \in D : \A e \in D : ~(<<e, d>> \in OpToRel(<, Nat))
  BY <1>1, NatLessThanWellFounded, WFMin
<1>3. \A e \in D : ~(e < d)
  BY <1>1, <1>2 DEF OpToRel
<1>4. PICK r \in R : d = b - r.seq
  OBVIOUS
<1>5. \A q \in R : b - q.seq \in D
  OBVIOUS
<1>6. ASSUME NEW q \in R PROVE q.seq <= r.seq
  <2>1. ~(b - q.seq < b - r.seq)
    BY <1>3, <1>4, <1>5
  <2> QED
    BY <2>1
<1> QED
  BY <1>6

\* raidkm_reshape_jread finds a record, and a newest one.
LEMMA BestIsNewest ==
  ASSUME Shapes, NEW lost, NewDisks \ lost # {}
  PROVE  /\ Best(lost) \in Readable(lost)
         /\ \A q \in Readable(lost) : q.seq <= Best(lost).seq
<1>1. Readable(lost) # {}
  <2>1. PICK x \in NewDisks \ lost : TRUE
    OBVIOUS
  <2>2. journal[x][0] \in Readable(lost)
    BY <2>1 DEF Readable
  <2> QED
    BY <2>2
<1>2. \A r \in Readable(lost) : Valid(r)
  BY Sizes DEF Readable, Shapes
<1>3. \A r \in Readable(lost) : r.seq \in -1..(4 * Rows)
  BY <1>2, ValidRecord
<1>4. 4 * Rows \in Int /\ \A r \in Readable(lost) : r.seq \in Int /\ r.seq <= 4 * Rows
  BY <1>3, Sizes
<1>5. \E r \in Readable(lost) : \A q \in Readable(lost) : q.seq <= r.seq
  BY <1>1, <1>4, NewestExists
<1> QED
  BY <1>5 DEF Best

\* Levels follow sequence numbers.
LEMMA LevelOrder ==
  ASSUME NEW a \in Int, NEW b \in Int, a <= b
  PROVE  (a + 1) \div 4 <= (b + 1) \div 4
OBVIOUS

LEMMA MemberLeft ==
  ASSUME Shapes, Sober
  PROVE  /\ IsFiniteSet(faulty) /\ Cardinality(faulty) \in Nat
         /\ NewDisks \ faulty # {}
<1>1. faulty \in SUBSET Disks /\ Cardinality(faulty) <= faults /\ faults <= reshape.faults
      /\ reshape.faults < New.n /\ faults \in Int
  BY Sizes DEF Shapes, Sober, New
<1>2. IsFiniteSet(faulty)
  BY <1>1, Sizes, FS_Subset
<1>3. Cardinality(faulty) \in Nat
  BY <1>2, FS_CardinalityType
<1>4. CASE NewDisks \subseteq faulty
  <2>1. Cardinality(NewDisks) <= Cardinality(faulty)
    BY <1>2, <1>4, FS_Subset
  <2> QED
    BY <1>1, <1>3, <2>1, Sizes
<1> QED
  BY <1>2, <1>3, <1>4

\* The frontier of a power failure now is that of the level settled.
LEMMA SettledFrontier ==
  ASSUME Shapes, Sober, NEW M \in 0..Rows, Settled(M),
         \E R \in 0..M : sb.rpos = Pos(R)
  PROVE  JournalFrontier(Best(faulty)) = Pos(M)
<1> DEFINE b == Best(faulty)
<1>1. NewDisks \ faulty # {}
  BY MemberLeft
<1>2. b \in Readable(faulty) /\ \A q \in Readable(faulty) : q.seq <= b.seq
  BY <1>1, BestIsNewest
<1>3. PICK x \in NewDisks \ faulty, s \in 0..1 : b = journal[x][s]
  BY <1>2 DEF Readable
<1>4. Valid(b) /\ Level(b) <= M
  BY <1>3, Sizes DEF Shapes, Settled
<1>5. /\ b.seq \in Int /\ Level(b) \in 0..Rows /\ M \in Int
      /\ Level(b) > 0 => JournalFrontier(b) = Pos(Level(b))
      /\ Level(b) = 0 => JournalFrontier(b) \in {Pos(0), sb.rpos}
  BY <1>4, ValidRecord
<1> HIDE DEF b
<1>6. CASE M = 0
  <2>1. Level(b) = 0
    BY <1>4, <1>5, <1>6
  <2>2. sb.rpos = Pos(0)
    BY <1>6
  <2> QED
    BY <1>5, <1>6, <2>1, <2>2 DEF b
<1>7. CASE M > 0
  <2>1. PICK y \in NewDisks \ faulty, t \in 0..1 : Level(journal[y][t]) = M
    BY <1>7 DEF Settled
  <2>2. Valid(journal[y][t]) /\ journal[y][t] \in Readable(faulty)
    BY <2>1, Sizes DEF Shapes, Readable
  <2>3. journal[y][t].seq \in Int /\ journal[y][t].seq <= b.seq
    BY <1>2, <2>2, ValidRecord
  <2>4. M <= Level(b)
    BY <1>5, <2>1, <2>3, LevelOrder DEF Level
  <2>5. Level(b) = M
    BY <1>4, <1>5, <2>4
  <2> QED
    BY <1>5, <1>7, <2>5 DEF b
<1> QED
  BY <1>5, <1>6, <1>7

LEMMA FrontierOf ==
  ASSUME Sober, NEW M \in 0..Rows, FrontInv(M)
  PROVE  DurableFrontier = Pos(M)
<1>1. Shapes
  BY DEF FrontInv
<1>2. CASE sb.state = "old"
  BY <1>1, <1>2, Ends DEF FrontInv, DurableFrontier
<1>3. CASE sb.state = "new"
  BY <1>1, <1>3, Ends DEF FrontInv, DurableFrontier
<1>4. CASE sb.state = "reshaping"
  BY <1>1, <1>4, SettledFrontier DEF FrontInv, DurableFrontier
<1> QED
  BY <1>1, <1>2, <1>3, <1>4 DEF Shapes


-----------------------------------------------------------------------------
(* Steps                                                                    *)

LEMMA Fixed ==
  ASSUME UNCHANGED fixed
  PROVE  /\ New' = New /\ NewDisks' = NewDisks /\ Disks' = Disks
         /\ Backwards' = Backwards /\ KNew' = KNew
         /\ \A L : Pos(L)' = Pos(L)
         /\ \A L : RowAt(L)' = RowAt(L)
<1>1. reshape' = reshape
  BY DEF fixed
<1> QED
  BY <1>1 DEF New, Old, NewDisks, Disks, Backwards, KNew, Pos, RowAt

LEMMA ValidStays ==
  ASSUME UNCHANGED fixed, NEW r, Valid(r)
  PROVE  Valid(r)'
BY Fixed DEF Valid, RecordOf, NoRecord

LEMMA WithoutFinite ==
  ASSUME Shapes, NEW s, NEW q, NEW w
  PROVE  IsFiniteSet(Without(s, q, w)) /\ Cardinality(Without(s, q, w)) \in Nat
<1>1. Without(s, q, w) \in SUBSET NewDisks
  BY DEF Without
<1> QED
  BY <1>1, Sizes, FS_Subset, FS_CardinalityType

LEMMA FewLess ==
  ASSUME Shapes, NEW s, NEW q, NEW w, Few(s, q, w), NEW B, B \subseteq Without(s, q, w)
  PROVE  Cardinality(B) <= faults
<1>1. IsFiniteSet(Without(s, q, w)) /\ Cardinality(Without(s, q, w)) \in Nat
  BY WithoutFinite
<1>2. IsFiniteSet(B) /\ Cardinality(B) <= Cardinality(Without(s, q, w))
  BY <1>1, FS_Subset
<1>3. Cardinality(B) \in Nat
  BY <1>2, FS_CardinalityType
<1>4. Cardinality(Without(s, q, w)) <= faults /\ faults \in Nat
  BY Sizes DEF Few, Shapes
<1> QED
  BY <1>1, <1>2, <1>3, <1>4

LEMMA FewMore ==
  ASSUME Shapes, NEW s, NEW q, NEW w, Few(s, q, w), NEW B, NEW z,
         B \subseteq Without(s, q, w) \cup {z}
  PROVE  Cardinality(B) <= faults + 1
<1>1. IsFiniteSet(Without(s, q, w)) /\ Cardinality(Without(s, q, w)) \in Nat
  BY WithoutFinite
<1>2. IsFiniteSet(Without(s, q, w) \cup {z})
      /\ Cardinality(Without(s, q, w) \cup {z}) <= Cardinality(Without(s, q, w)) + 1
  <2>1. PICK A : A = Without(s, q, w)
    OBVIOUS
  <2>2. IsFiniteSet(A) /\ Cardinality(A) \in Nat
    BY <1>1, <2>1
  <2>3. IsFiniteSet(A \cup {z})
        /\ Cardinality(A \cup {z}) = IF z \in A THEN Cardinality(A) ELSE Cardinality(A) + 1
    BY <2>2, FS_AddElement
  <2> QED
    BY <2>1, <2>2, <2>3
<1>3. IsFiniteSet(B) /\ Cardinality(B) <= Cardinality(Without(s, q, w) \cup {z})
  BY <1>2, FS_Subset
<1>4. Cardinality(B) \in Nat /\ Cardinality(Without(s, q, w) \cup {z}) \in Nat
  BY <1>2, <1>3, FS_CardinalityType
<1>5. Cardinality(Without(s, q, w)) <= faults /\ faults \in Nat
  BY Sizes DEF Few, Shapes
<1> QED
  BY <1>1, <1>2, <1>3, <1>4, <1>5

\* Some member that is not Faulty has a record that only few are without.
LEMMA SomeoneHas ==
  ASSUME Shapes, Sober, NEW s \in 0..1, NEW q, Few(s, q, New.n)
  PROVE  \E x \in NewDisks \ faulty : journal[x][s].seq = q
<1>1. IsFiniteSet(Without(s, q, New.n)) /\ Cardinality(Without(s, q, New.n)) \in Nat
  BY WithoutFinite
<1>2. Cardinality(Without(s, q, New.n)) <= faults /\ faults <= reshape.faults
      /\ reshape.faults < New.n /\ faults \in Int
  BY Sizes DEF Few, Shapes, Sober, New
<1>3. CASE NewDisks \subseteq Without(s, q, New.n)
  <2>1. Cardinality(NewDisks) <= Cardinality(Without(s, q, New.n))
    BY <1>1, <1>3, FS_Subset
  <2> QED
    BY <1>1, <1>2, <2>1, Sizes
<1>4. CASE \E x \in NewDisks : x \notin Without(s, q, New.n)
  <2>1. PICK x \in NewDisks : x \notin Without(s, q, New.n)
    BY <1>4
  <2>2. x < New.n
    BY Sizes DEF NewDisks
  <2> QED
    BY <2>1, <2>2 DEF Without
<1> QED
  BY <1>3, <1>4

\* What the proof of a step that writes no journal and no superblock has to show.
OnlyMemory ==
  /\ UNCHANGED <<journal, sb, faulty, crashes>>
  /\ UNCHANGED fixed
  /\ epc' \in Places
  /\ who' \in 0..New.n
  /\ taken' \in BOOLEAN
  /\ epc' \in Phases /\ who' = 0 => ~taken'
  /\ epc' \in {"down", "replay"} => crashes > 0
  /\ faults' \in faults..reshape.faults

LEMMA MemoryShapes ==
  ASSUME Shapes, OnlyMemory
  PROVE  Shapes'
<1>1. UNCHANGED fixed
  BY DEF OnlyMemory
<1>2. ASSUME NEW x \in Disks, NEW s \in 0..1 PROVE Valid(journal[x][s])'
  <2>1. PICK r : r = journal[x][s]
    OBVIOUS
  <2>2. Valid(r)'
    BY <1>1, <2>1, ValidStays DEF Shapes
  <2>3. journal'[x][s] = r
    BY <2>1 DEF OnlyMemory
  <2> QED
    BY <2>2, <2>3 DEF Valid, RecordOf
<1>3. reshape' \in Reshapes /\ recovering' = {}
  BY DEF Shapes, OnlyMemory, fixed
<1>4. epc' \in Places /\ who' \in 0..New'.n /\ taken' \in BOOLEAN
      /\ (epc' \in Phases /\ who' = 0 => ~taken')
  BY <1>1, Fixed DEF OnlyMemory
<1>5. crashes' \in Nat /\ faults' \in 0..reshape'.faults /\ faulty' \subseteq Disks'
      /\ (epc' \in {"down", "replay"} => crashes' > 0)
  BY <1>1, Fixed, Sizes DEF Shapes, OnlyMemory, fixed
<1>6. Cardinality(faulty') <= faults'
  <2>1. faulty' = faulty /\ faults <= faults' /\ faults \in Int /\ faults' \in Int
        /\ Cardinality(faulty) <= faults
    BY Sizes DEF Shapes, OnlyMemory
  <2>2. Cardinality(faulty) \in Nat
    BY Sizes, FS_Subset, FS_CardinalityType DEF Shapes
  <2> QED
    BY <2>1, <2>2
<1>7. sb'.state \in {"old", "reshaping", "new"} /\ sb'.faulty \subseteq faulty'
  BY DEF Shapes, OnlyMemory
<1>8. FunctionOn(journal, Disks)' /\ \A x \in Disks' : FunctionOn(journal[x], 0..1)'
  BY <1>1, Fixed DEF Shapes, OnlyMemory, FunctionOn
<1>9. \A x \in Disks', s \in 0..1 : Valid(journal[x][s])'
  BY <1>1, <1>2, Fixed
<1> QED
  BY <1>9, <1>3, <1>4, <1>5, <1>6, <1>7, <1>8 DEF Shapes

LEMMA MemoryKeeps ==
  ASSUME NEW M \in 0..Rows, FrontInv(M), OnlyMemory,
         sb.state = "old" => Fresh',
         sb.state = "new" => epc' \in {"finished", "down"},
         sb.state = "reshaping" /\ epc' # "down"
           => \E L \in 0..M : M = (IF Committed' THEN L + 1 ELSE L) /\ Standing(L)'
  PROVE  FrontInv(M)'
<1>1. Shapes' /\ UNCHANGED fixed
  BY MemoryShapes DEF FrontInv, OnlyMemory
<1>2. sb.state = "reshaping" => Settled(M)' /\ \E R \in 0..M : sb'.rpos = Pos(R)'
  BY <1>1, Fixed DEF FrontInv, OnlyMemory, Settled, Level
<1>3. sb' = sb
  BY DEF OnlyMemory
<1> QED
  BY <1>1, <1>2, <1>3 DEF FrontInv


LEMMA MemoryFew ==
  ASSUME Shapes, OnlyMemory, NEW s, NEW q, NEW w, Few(s, q, w)
  PROVE  Few(s, q, w)'
<1>1. Without(s, q, w)' = Without(s, q, w)
  BY Fixed DEF OnlyMemory, Without
<1>2. Cardinality(Without(s, q, w)) \in Nat /\ faults \in Int /\ faults' \in Int
      /\ faults <= faults'
  BY WithoutFinite, Sizes DEF Shapes, OnlyMemory
<1> QED
  BY <1>1, <1>2 DEF Few

\* The thread's own place, when the reshape is under way.
LEMMA PlaceOfThread ==
  ASSUME NEW M \in 0..Rows, FrontInv(M)
  PROVE  /\ epc \in {"off", "INIT0", "INIT1"} => sb.state = "old"
         /\ epc \in (Resting \cup Moving) \ {"ready", "finished"} => sb.state = "reshaping"
BY DEF FrontInv, Fresh, Standing, Shapes, Resting, Moving

LEMMA StartKeeps ==
  ASSUME NEW M \in 0..Rows, FrontInv(M), Sober, StartReshape
  PROVE  FrontInv(M)'
<1>1. Shapes /\ sb.state = "old"
  BY PlaceOfThread DEF StartReshape, FrontInv
<1>2. OnlyMemory
  <2>1. UNCHANGED <<journal, sb, faulty, crashes, faults>> /\ UNCHANGED fixed
    BY DEF StartReshape, disks, budget
  <2>2. epc' = "INIT0" /\ who' = 0 /\ taken' = FALSE
    BY DEF StartReshape
  <2>3. 0 \in 0..New.n /\ faults \in faults..reshape.faults
    BY <1>1, Sizes DEF Shapes
  <2> QED
    BY <2>1, <2>2, <2>3 DEF OnlyMemory, Places
<1>3. Fresh'
  <2>1. Start = Pos(0) /\ \A L : Pos(L)' = Pos(L)
    BY <1>1, <1>2, Ends, Fixed DEF OnlyMemory
  <2>2. /\ epc' = "INIT0" /\ who' = 0 /\ safe' = Start /\ progress' = Start
        /\ faulty' = faulty /\ sb' = sb
    BY DEF StartReshape, disks
  <2>3. \A x \in NewDisks' : ~(x < who')
    BY <1>1, <1>2, <2>2, Fixed, Sizes DEF NewDisks, OnlyMemory
  <2> QED
    BY <1>1, <2>1, <2>2, <2>3 DEF FrontInv, Fresh
<1> QED
  BY <1>1, <1>2, <1>3, MemoryKeeps

LEMMA UserKeeps ==
  ASSUME NEW M \in 0..Rows, FrontInv(M), NEW c \in Chunks, UserWrite(c)
  PROVE  FrontInv(M)'
<1>1. Shapes
  BY DEF FrontInv
<1>2. OnlyMemory /\ UNCHANGED <<thread, frontier>>
  BY <1>1, Sizes DEF UserWrite, OnlyMemory, thread, Shapes
<1>3. sb.state = "old" => Fresh'
  BY <1>1, <1>2, Fixed DEF FrontInv, Fresh, OnlyMemory, thread, frontier
<1>4. ASSUME sb.state = "reshaping", epc' # "down"
      PROVE  \E L \in 0..M : M = (IF Committed' THEN L + 1 ELSE L) /\ Standing(L)'
  <2>1. PICK L \in 0..M : M = (IF Committed THEN L + 1 ELSE L) /\ Standing(L)
    BY <1>2, <1>4 DEF FrontInv, thread
  <2>2. Committed' = Committed
    BY <1>2 DEF Committed, thread
  <2>3. \A s, q, w : Few(s, q, w) => Few(s, q, w)'
    BY <1>1, <1>2, MemoryFew
  <2>4. Standing(L)'
    BY <1>2, <2>1, <2>2, <2>3, Fixed DEF Standing, OnlyMemory, thread, frontier, New
  <2> QED
    BY <2>1, <2>2, <2>4
<1> QED
  BY <1>2, <1>3, <1>4, MemoryKeeps DEF FrontInv, thread


\* A member is passed over, or misses the record.
LEMMA PassedKeeps ==
  ASSUME NEW M \in 0..Rows, FrontInv(M), Sober, JournalSkip \/ JournalMisses
  PROVE  FrontInv(M)'
<1>1. Shapes /\ epc \in Phases /\ who < New.n /\ who \in Nat
  BY Sizes DEF FrontInv, Shapes, JournalSkip, JournalMisses
<1>2. /\ who' = who + 1 /\ UNCHANGED <<journal, sb, faulty, crashes, epc, taken>>
      /\ UNCHANGED fixed /\ UNCHANGED frontier
  BY DEF JournalSkip, JournalMisses, disks, budget
<1>3. \/ faults' = faults /\ who \in faulty
      \/ faults' = faults + 1 /\ faults' <= reshape.faults /\ epc \notin {"INIT0", "INIT1"}
  <2>1. CASE JournalSkip
    BY <1>1, <2>1 DEF JournalSkip, Eligible, budget, Shapes
  <2>2. CASE JournalMisses
    BY <1>1, <2>2, Sizes DEF JournalMisses, Shapes, Sober
  <2> QED
    BY <2>1, <2>2
<1>4. OnlyMemory
  <2>1. faults' \in faults..reshape.faults
    BY <1>1, <1>3, Sizes DEF Shapes
  <2>2. who' \in 0..New.n /\ who' # 0
    BY <1>1, <1>2, Sizes
  <2> QED
    BY <1>1, <1>2, <2>1, <2>2 DEF OnlyMemory, Shapes
<1>5. sb.state # "old"
  BY <1>1, <1>3, PlaceOfThread DEF FrontInv, Fresh, Phases
<1>6. sb.state = "reshaping"
  BY <1>1, <1>5 DEF FrontInv, Phases, Shapes
<1>7. ASSUME NEW s, NEW q, Few(s, q, who)
      PROVE  Cardinality(Without(s, q, who)') <= faults'
  <2>1. Without(s, q, who)' \subseteq Without(s, q, who) \cup {who}
    BY <1>1, <1>2, Fixed DEF Without, NewDisks
  <2>2. CASE faults' = faults /\ who \in faulty
    <3>1. Without(s, q, who)' \subseteq Without(s, q, who)
      BY <1>1, <1>2, <2>1, <2>2, Fixed, Sizes DEF Without, NewDisks
    <3> QED
      BY <1>1, <1>7, <2>2, <3>1, FewLess
  <2>3. CASE faults' = faults + 1
    BY <1>1, <1>7, <2>1, <2>3, FewMore
  <2> QED
    BY <1>3, <2>2, <2>3
<1>8. \A L \in 0..M : Standing(L) => Standing(L)'
  <2> SUFFICES ASSUME NEW L \in 0..M, Standing(L) PROVE Standing(L)'
    OBVIOUS
  <2>1. \A s, q, w : Few(s, q, w) => Few(s, q, w)'
    BY <1>1, <1>4, MemoryFew
  <2>2. epc = "STAGE" => Few(0, 4 * L + 2, who)'
    BY <1>7 DEF Standing, Few
  <2>3. epc = "COMMIT" => Few(1, 4 * L + 3, who)'
    BY <1>7 DEF Standing, Few
  <2>4. Committed' = Committed
    BY <1>2 DEF Committed
  <2>5. Few(1, 4 * L - 1, New.n) => Few(1, 4 * L - 1, New.n)'
    BY <1>2, <2>1, Fixed
  <2>6. Few(0, 4 * L + 2, New.n) => Few(0, 4 * L + 2, New.n)'
    BY <1>2, <2>1, Fixed
  <2>7. Few(1, 4 * L + 3, New.n) => Few(1, 4 * L + 3, New.n)'
    BY <1>2, <2>1, Fixed
  <2>8. epc = "COMMIT" /\ taken
          => \E x \in (NewDisks \ faulty)' : x < who' /\ journal'[x][1].seq = 4 * L + 3
    <3> SUFFICES ASSUME epc = "COMMIT", taken
                 PROVE  \E x \in (NewDisks \ faulty)' :
                          x < who' /\ journal'[x][1].seq = 4 * L + 3
      OBVIOUS
    <3>1. PICK x \in NewDisks \ faulty : x < who /\ journal[x][1].seq = 4 * L + 3
      BY DEF Standing
    <3>2. x < who'
      BY <1>1, <1>2, <3>1, Sizes DEF NewDisks
    <3> QED
      BY <1>2, <3>1, <3>2, Fixed
  <2> QED
    BY <1>2, <2>2, <2>3, <2>4, <2>5, <2>6, <2>7, <2>8, Fixed DEF Standing, frontier
<1>9. Committed' = Committed
  BY <1>2 DEF Committed
<1> QED
  BY <1>1, <1>2, <1>4, <1>6, <1>8, <1>9, MemoryKeeps DEF FrontInv


LEMMA RecordDoneKeeps ==
  ASSUME NEW M \in 0..Rows, FrontInv(M), Sober, JournalDone
  PROVE  FrontInv(M)'
<1>1. Shapes /\ epc \in Phases /\ who = New.n /\ taken
  BY DEF FrontInv, JournalDone
<1>2. /\ UNCHANGED <<journal, sb, faulty, crashes, faults, progress>> /\ UNCHANGED fixed
      /\ epc' = AfterRecord /\ who' = 0 /\ taken' = FALSE
      /\ epc = "DONE" => safe' = progress
      /\ epc # "DONE" => safe' = safe
  BY DEF JournalDone, disks, budget
<1>3. /\ epc = "INIT0" => epc' = "INIT1"
      /\ epc \in {"INIT1", "DONE"} => epc' = "ready"
      /\ epc = "STAGE" => epc' = "scratch"
      /\ epc = "COMMIT" => epc' = "home"
  BY <1>2 DEF AfterRecord
<1>4. OnlyMemory
  <2>1. 0 \in 0..New.n /\ faults \in faults..reshape.faults /\ epc' \in Places
    BY <1>1, <1>3, Sizes DEF Shapes, Phases, Places, Resting, Moving
  <2> QED
    BY <1>1, <1>2, <1>3, <2>1 DEF OnlyMemory, Phases
<1>5. sb.state # "new"
  BY <1>1 DEF FrontInv, Phases
<1>6. ASSUME sb.state = "old" PROVE Fresh'
  <2>1. Fresh /\ epc \in {"INIT0", "INIT1"}
    BY <1>1, <1>6 DEF FrontInv, Fresh, Phases
  <2>2. \A x \in NewDisks : x < who
    BY <1>1, Sizes DEF NewDisks
  <2>3. CASE epc = "INIT0"
    <3>1. \A x \in NewDisks : journal[x][0].seq = 0
      BY <2>1, <2>2, <2>3 DEF Fresh
    <3>2. \A x \in NewDisks : ~(x < 0)
      BY Sizes, <1>1 DEF NewDisks
    <3>3. epc' = "INIT1" /\ epc' # "ready" /\ safe' = safe
      BY <1>2, <1>3, <2>3
    <3> QED
      BY <1>2, <2>1, <2>3, <3>1, <3>2, <3>3, Fixed DEF Fresh
  <2>4. CASE epc = "INIT1"
    <3>1. \A x \in NewDisks : journal[x][0].seq = 0 /\ journal[x][1].seq = 1
      BY <2>1, <2>2, <2>4 DEF Fresh
    <3>2. epc' = "ready" /\ safe' = safe
      BY <1>2, <1>3, <2>4
    <3> QED
      BY <1>2, <2>1, <2>4, <3>1, <3>2, Fixed DEF Fresh
  <2> QED
    BY <2>1, <2>3, <2>4
<1>7. ASSUME sb.state = "reshaping"
      PROVE  \E L \in 0..M : M = (IF Committed' THEN L + 1 ELSE L) /\ Standing(L)'
  <2>1. epc \in {"STAGE", "COMMIT", "DONE"}
    BY <1>1, <1>7, PlaceOfThread DEF Phases
  <2>2. PICK L \in 0..M : M = (IF Committed THEN L + 1 ELSE L) /\ Standing(L)
    BY <1>7, <2>1 DEF FrontInv
  <2>3. \A s, q, w : Few(s, q, w) => Few(s, q, w)'
    BY <1>1, <1>4, MemoryFew
  <2>4. L \in 0..Rows /\ L \in Int /\ M \in Int /\ safe = Pos(L) /\ progress = Pos(L + 1)
    BY <2>1, <2>2 DEF Standing, Moving
  <2>5. CASE epc = "STAGE"
    <3>1. ~Committed /\ ~Committed' /\ epc' = "scratch"
      BY <1>3, <2>5 DEF Committed
    <3>2. Few(0, 4 * L + 2, New.n)
      BY <1>1, <2>2, <2>5 DEF Standing
    <3> QED
      BY <1>2, <2>2, <2>3, <2>5, <3>1, <3>2, Fixed DEF Standing, Resting, Moving
  <2>6. CASE epc = "COMMIT"
    <3>1. Committed /\ Committed' /\ epc' = "home"
      BY <1>1, <1>3, <2>6 DEF Committed
    <3>2. Few(1, 4 * L + 3, New.n)
      BY <1>1, <2>2, <2>6 DEF Standing
    <3> QED
      BY <1>2, <2>2, <2>3, <2>6, <3>1, <3>2, Fixed DEF Standing, Resting, Moving
  <2>7. CASE epc = "DONE"
    <3>1. Committed /\ ~Committed' /\ epc' = "ready"
      BY <1>3, <2>7 DEF Committed
    <3>2. M = L + 1 /\ M \in 0..M
      BY <2>2, <2>4, <3>1
    <3>3. Few(1, 4 * M - 1, New.n)
      <4>1. Few(1, 4 * L + 3, New.n) /\ 4 * M - 1 = 4 * L + 3
        BY <2>2, <2>4, <2>7, <3>2 DEF Standing
      <4> QED
        BY <4>1
    <3>4. Few(1, 4 * M - 1, New.n)'
      BY <1>2, <2>3, <3>3, Fixed
    <3>5. safe' = Pos(M)' /\ progress' = safe'
      BY <1>2, <2>4, <2>7, <3>2, Fixed
    <3>6. Standing(M)'
      BY <3>1, <3>4, <3>5 DEF Standing, Resting, Moving
    <3> QED
      BY <3>1, <3>2, <3>6
  <2> QED
    BY <2>1, <2>5, <2>6, <2>7
<1> QED
  BY <1>4, <1>5, <1>6, <1>7, MemoryKeeps

LEMMA RecordFailsKeeps ==
  ASSUME NEW M \in 0..Rows, FrontInv(M), Sober, JournalFails
  PROVE  FrontInv(M)'
<1>1. Shapes /\ epc \in {"STAGE", "COMMIT"} /\ ~taken
  BY DEF FrontInv, JournalFails, Sober, Shapes, Phases
<1>2. /\ UNCHANGED <<journal, sb, faulty, crashes, faults, safe>> /\ UNCHANGED fixed
      /\ epc' = "ready" /\ who' = 0 /\ taken' = FALSE /\ progress' = safe
  BY DEF JournalFails, disks, budget
<1>3. OnlyMemory
  <2>1. 0 \in 0..New.n /\ faults \in faults..reshape.faults /\ epc' \in Places
    BY <1>1, <1>2, Sizes DEF Shapes, Places, Resting
  <2> QED
    BY <1>2, <2>1 DEF OnlyMemory, Phases
<1>4. sb.state = "reshaping"
  BY <1>1, PlaceOfThread DEF Resting, Moving
<1>5. PICK L \in 0..M : M = (IF Committed THEN L + 1 ELSE L) /\ Standing(L)
  BY <1>1, <1>4 DEF FrontInv
<1>6. ~Committed /\ ~Committed'
  BY <1>1, <1>2 DEF Committed
<1>7. crashes = 0 /\ L > 0 => Few(1, 4 * L - 1, New.n)'
  BY <1>1, <1>2, <1>3, <1>5, <1>6, Fixed, MemoryFew DEF Standing
<1>8. Standing(L)'
  BY <1>2, <1>5, <1>6, <1>7, Fixed DEF Standing, Resting, Moving
<1> QED
  BY <1>3, <1>4, <1>5, <1>6, <1>8, MemoryKeeps


\* ReadBand, the units, the end, and the replay: the thread goes from one place to
\* the next and leaves the journal alone.
LEMMA ReadBandKeeps ==
  ASSUME NEW M \in 0..Rows, FrontInv(M), Sober, ReadBand
  PROVE  FrontInv(M)'
<1>1. Shapes /\ epc = "ready" /\ sb.state = "reshaping" /\ BandsLeft
  BY DEF FrontInv, ReadBand
<1>2. /\ UNCHANGED <<journal, sb, faulty, crashes, faults, safe>> /\ UNCHANGED fixed
      /\ epc' = "STAGE" /\ who' = 0 /\ taken' = FALSE /\ progress' = After(NextRow)
  BY DEF ReadBand, disks, budget
<1>3. OnlyMemory
  <2>1. 0 \in 0..New.n /\ faults \in faults..reshape.faults /\ epc' \in Places
    BY <1>1, <1>2, Sizes DEF Shapes, Places, Moving
  <2> QED
    BY <1>2, <2>1 DEF OnlyMemory, Phases
<1>4. ~Committed /\ ~Committed'
  BY <1>1, <1>2 DEF Committed
<1>5. M \in 0..M /\ Standing(M)
  BY <1>1, <1>4 DEF FrontInv
<1>6. M < Rows /\ progress' = Pos(M + 1)
  <2>1. M < Rows
    BY <1>1, <1>5, WalkEnds DEF Standing
  <2>2. M \in 0..(Rows - 1)
    BY <1>1, <2>1, Sizes
  <2> QED
    BY <1>1, <1>2, <1>5, <2>1, <2>2, BandAt DEF Standing
<1>7. crashes = 0 /\ M > 0 => Few(1, 4 * M - 1, New.n)'
  BY <1>1, <1>2, <1>3, <1>5, <1>4, Fixed, MemoryFew DEF Standing
<1>8. Few(0, 4 * M + 2, who)'
  <2>1. Without(0, 4 * M + 2, who)' \subseteq faulty
    BY <1>1, <1>2, Fixed, Sizes DEF Without, NewDisks
  <2>2. IsFiniteSet(faulty) /\ Cardinality(faulty) \in Nat
    BY <1>1, MemberLeft
  <2>3. IsFiniteSet(Without(0, 4 * M + 2, who)')
        /\ Cardinality(Without(0, 4 * M + 2, who)') <= Cardinality(faulty)
    BY <2>1, <2>2, FS_Subset
  <2>4. Cardinality(Without(0, 4 * M + 2, who)') \in Nat
    BY <2>3, FS_CardinalityType
  <2>5. Cardinality(faulty) <= faults /\ faults \in Int /\ faults' = faults
    BY <1>1, <1>2, Sizes DEF Shapes
  <2> QED
    BY <2>2, <2>3, <2>4, <2>5 DEF Few
<1>9. Standing(M)'
  BY <1>2, <1>4, <1>5, <1>6, <1>7, <1>8, Fixed DEF Standing, Moving
<1> QED
  BY <1>1, <1>3, <1>4, <1>5, <1>9, MemoryKeeps

\* A step between two resting places keeps the frontiers.
LEMMA RestingKeeps ==
  ASSUME NEW M \in 0..Rows, FrontInv(M), sb.state = "reshaping",
         epc \in Resting, epc' \in Resting \cup {"down"},
         UNCHANGED <<journal, sb, faulty, crashes, taken, progress, safe>>,
         epc' \in {"down", "replay"} => crashes > 0,
         UNCHANGED fixed, who' \in 0..New.n, faults' \in faults..reshape.faults
  PROVE  FrontInv(M)'
<1>1. Shapes
  BY DEF FrontInv
<1>2. OnlyMemory
  BY <1>1 DEF OnlyMemory, Shapes, Places, Resting, Phases
<1>3. ~Committed /\ ~Committed' /\ epc # "down"
  BY DEF Committed, Resting
<1>4. M \in 0..M /\ Standing(M)
  BY <1>3 DEF FrontInv
<1>5. crashes = 0 /\ M > 0 => Few(1, 4 * M - 1, New.n)'
  BY <1>1, <1>2, <1>3, <1>4, Fixed, MemoryFew DEF Standing
<1>6. epc' # "down" => Standing(M)'
  BY <1>3, <1>4, <1>5, Fixed DEF Standing, Resting, Moving
<1> QED
  BY <1>2, <1>3, <1>4, <1>6, MemoryKeeps

LEMMA ReadBandFailsKeeps ==
  ASSUME NEW M \in 0..Rows, FrontInv(M), Sober, ReadBandFails
  PROVE  FrontInv(M)'
<1>1. Shapes /\ epc = "ready" /\ BandsLeft /\ faulty # {}
  BY DEF FrontInv, ReadBandFails
<1>2. sb.state = "reshaping"
  BY <1>1 DEF FrontInv, Fresh, Shapes
<1>3. /\ UNCHANGED <<journal, sb, faulty, crashes, taken, progress, safe, who, faults>>
      /\ UNCHANGED fixed /\ epc' = "parked"
  BY DEF ReadBandFails, disks, budget, frontier
<1>4. who' \in 0..New.n /\ faults' \in faults..reshape.faults
  BY <1>1, <1>3, Sizes DEF Shapes
<1> QED
  BY <1>1, <1>2, <1>3, <1>4, RestingKeeps DEF Resting

LEMMA EndKeeps ==
  ASSUME NEW M \in 0..Rows, FrontInv(M), Sober, EndReshape
  PROVE  FrontInv(M)'
<1>1. Shapes /\ epc = "ready" /\ ~BandsLeft
  BY DEF FrontInv, EndReshape
<1>2. sb.state = "reshaping"
  <2>1. CASE sb.state = "old"
    <3>1. safe = Pos(0) /\ 0 \in 0..Rows /\ 0 < Rows
      BY <1>1, <2>1, Sizes DEF FrontInv, Fresh
    <3> QED
      BY <1>1, <3>1, WalkEnds
  <2> QED
    BY <1>1, <2>1 DEF FrontInv, Shapes
<1>3. /\ UNCHANGED <<journal, sb, faulty, crashes, taken, progress, safe, who, faults>>
      /\ UNCHANGED fixed /\ epc' = "finished"
  BY DEF EndReshape, disks, budget, frontier
<1>4. who' \in 0..New.n /\ faults' \in faults..reshape.faults
  BY <1>1, <1>3, Sizes DEF Shapes
<1> QED
  BY <1>1, <1>2, <1>3, <1>4, RestingKeeps DEF Resting

LEMMA ReplayKeeps ==
  ASSUME NEW M \in 0..Rows, FrontInv(M), ReplayUnit \/ ReplayUnitFails \/ ReplayDone
  PROVE  FrontInv(M)'
<1>1. Shapes /\ epc = "replay" /\ sb.state = "reshaping"
  BY PlaceOfThread DEF FrontInv, ReplayUnit, ReplayUnitFails, ReplayDone, Resting
<1>2. /\ UNCHANGED <<journal, sb, faulty, crashes, taken, progress, safe>>
      /\ UNCHANGED fixed /\ epc' \in {"replay", "down", "ready"}
  BY <1>1 DEF ReplayUnit, ReplayUnitFails, ReplayDone, disks, budget, frontier
<1>3. who' \in 0..New.n /\ faults' \in faults..reshape.faults /\ crashes > 0
  <2>1. who \in 0..New.n /\ New.n \in Nat /\ faults \in 0..reshape.faults
        /\ reshape.faults \in Nat /\ crashes > 0
    BY <1>1, Sizes DEF Shapes
  <2>2. CASE ReplayUnit
    BY <2>1, <2>2 DEF ReplayUnit, budget
  <2>3. CASE ReplayUnitFails
    BY <2>1, <2>3 DEF ReplayUnitFails
  <2>4. CASE ReplayDone
    BY <2>1, <2>4 DEF ReplayDone, budget
  <2> QED
    BY <2>2, <2>3, <2>4
<1> QED
  BY <1>1, <1>2, <1>3, RestingKeeps DEF Resting

LEMMA WriteUnitKeeps ==
  ASSUME NEW M \in 0..Rows, FrontInv(M), Sober, WriteUnit \/ UnitsWritten
  PROVE  FrontInv(M)'
<1>1. Shapes /\ epc \in {"scratch", "home"} /\ who \in 0..New.n
  BY DEF FrontInv, WriteUnit, UnitsWritten, Shapes
<1>2. sb.state = "reshaping"
  BY <1>1, PlaceOfThread DEF Resting, Moving
<1>3. /\ UNCHANGED <<journal, sb, faulty, crashes, faults, progress, safe>>
      /\ UNCHANGED fixed
      /\ \/ WriteUnit /\ epc' = epc /\ taken' = taken
         \/ epc' = (IF epc = "scratch" THEN "COMMIT" ELSE "DONE") /\ taken' = FALSE
            /\ who' = 0
  BY DEF WriteUnit, UnitsWritten, disks, budget, frontier
<1>4. who' \in 0..New.n
  BY <1>1, Sizes DEF WriteUnit, UnitsWritten
<1>5. OnlyMemory
  <2>1. faults \in faults..reshape.faults /\ epc' \in Places
    BY <1>1, <1>3, Sizes DEF Shapes, Places, Moving
  <2>2. epc' \in Phases /\ who' = 0 => ~taken'
    BY <1>1, <1>3 DEF Phases
  <2>3. taken' \in BOOLEAN
    BY <1>1, <1>3 DEF Shapes
  <2> QED
    BY <1>1, <1>3, <1>4, <2>1, <2>2, <2>3 DEF OnlyMemory
<1>6. PICK L \in 0..M : M = (IF Committed THEN L + 1 ELSE L) /\ Standing(L)
  BY <1>1, <1>2 DEF FrontInv
<1>7. Committed' = Committed
  BY <1>1, <1>3 DEF Committed
<1>8. \A s, q, w : Few(s, q, w) => Few(s, q, w)'
  BY <1>1, <1>5, MemoryFew
<1>9. Standing(L)'
  <2>1. CASE epc = "scratch"
    <3>1. Few(0, 4 * L + 2, New.n)' /\ (crashes = 0 /\ L > 0 => Few(1, 4 * L - 1, New.n)')
      <4>1. ~Committed
        BY <2>1 DEF Committed
      <4> QED
        BY <1>3, <1>6, <1>8, <2>1, <4>1, Fixed DEF Standing
    <3>2. epc' = "COMMIT" => Few(1, 4 * L + 3, who)'
      <4> SUFFICES ASSUME epc' = "COMMIT" PROVE Few(1, 4 * L + 3, who)'
        OBVIOUS
      <4>1. who' = 0
        BY <1>3, <2>1
      <4>2. Without(1, 4 * L + 3, who)' \subseteq faulty
        BY <1>1, <1>3, <4>1, Fixed, Sizes DEF Without, NewDisks
      <4>3. IsFiniteSet(faulty) /\ Cardinality(faulty) \in Nat
        BY <1>1, MemberLeft
      <4>4. IsFiniteSet(Without(1, 4 * L + 3, who)')
            /\ Cardinality(Without(1, 4 * L + 3, who)') <= Cardinality(faulty)
        BY <4>2, <4>3, FS_Subset
      <4>5. Cardinality(Without(1, 4 * L + 3, who)') \in Nat
        BY <4>4, FS_CardinalityType
      <4>6. Cardinality(faulty) <= faults /\ faults \in Int /\ faults' = faults
        BY <1>1, <1>3, Sizes DEF Shapes
      <4> QED
        BY <4>3, <4>4, <4>5, <4>6 DEF Few
    <3> QED
      BY <1>3, <1>6, <1>7, <2>1, <3>1, <3>2, Fixed DEF Standing, Moving
  <2>2. CASE epc = "home"
    <3>1. Few(1, 4 * L + 3, New.n)'
      BY <1>3, <1>6, <1>8, <2>2, Fixed DEF Standing
    <3>2. Committed'
      BY <1>7, <2>2 DEF Committed
    <3> QED
      BY <1>3, <1>6, <2>2, <3>1, <3>2, Fixed DEF Standing, Moving
  <2> QED
    BY <1>1, <2>1, <2>2
<1> QED
  BY <1>1, <1>2, <1>5, <1>6, <1>7, <1>9, MemoryKeeps


\* raid5_run: the thread resumes at the frontier that the newest record gives.
LEMMA AssembleKeeps ==
  ASSUME NEW M \in 0..Rows, FrontInv(M), Sober, Assemble
  PROVE  FrontInv(M)'
<1>1. Shapes /\ epc = "down" /\ crashes > 0
  BY DEF FrontInv, Assemble, Shapes
<1>2. /\ UNCHANGED <<journal, sb, faulty, crashes, taken, who, faults>>
      /\ UNCHANGED fixed
  BY DEF Assemble, disks, budget
<1>3. /\ sb.state = "old" => epc' = "off"
      /\ sb.state = "new" => epc' = "finished"
      /\ sb.state = "reshaping" =>
           /\ progress' = JournalFrontier(Best(faulty)) /\ safe' = progress'
           /\ epc' \in {"ready", "replay", "refused"}
  <2>1. CASE sb.state # "reshaping"
    BY <2>1 DEF Assemble, Shapes
  <2>2. CASE sb.state = "reshaping"
    BY <2>2 DEF Assemble
  <2> QED
    BY <2>1, <2>2
<1>4. OnlyMemory
  <2>1. epc' \in {"off", "finished", "ready", "replay", "refused"}
    BY <1>1, <1>3 DEF Shapes
  <2>2. epc' \in Places /\ epc' \notin Phases
    BY <2>1 DEF Places, Resting, Phases
  <2>3. faults \in faults..reshape.faults /\ who \in 0..New.n /\ taken \in BOOLEAN
    BY <1>1, Sizes DEF Shapes
  <2> QED
    BY <1>1, <1>2, <2>2, <2>3 DEF OnlyMemory
<1>5. sb.state = "old" => Fresh'
  BY <1>2, <1>3, Fixed DEF FrontInv, Fresh
<1>6. ASSUME sb.state = "reshaping" PROVE Standing(M)' /\ ~Committed'
  <2>1. progress' = Pos(M) /\ safe' = Pos(M)
    BY <1>1, <1>3, <1>6, SettledFrontier DEF FrontInv
  <2>2. ~Committed'
    BY <1>3, <1>6 DEF Committed
  <2> QED
    BY <1>1, <1>2, <1>3, <1>6, <2>1, <2>2, Fixed DEF Standing, Resting, Moving
<1> QED
  BY <1>3, <1>4, <1>5, <1>6, MemoryKeeps

\* The superblock follows.
LEMMA SuperblockAdvances ==
  ASSUME NEW M \in 0..Rows, FrontInv(M), Sober, WriteSuperblock
  PROVE  \E N \in M..Rows : FrontInv(N)'
<1>1. Shapes /\ Running /\ epc \notin {"off", "INIT0", "INIT1"}
  BY DEF FrontInv, WriteSuperblock
<1>2. /\ UNCHANGED <<journal, faulty, crashes, taken, who, faults, epc, safe, progress>>
      /\ UNCHANGED fixed
      /\ sb' = [state |-> IF epc = "finished" THEN "new" ELSE "reshaping",
                rpos |-> safe, faulty |-> faulty]
  BY DEF WriteSuperblock, thread, frontier, budget
<1>3. sb'.state = (IF epc = "finished" THEN "new" ELSE "reshaping")
      /\ sb'.rpos = safe /\ sb'.faulty = faulty
  BY <1>2
<1>4. Shapes'
  <2>1. ASSUME NEW x \in Disks, NEW s \in 0..1 PROVE Valid(journal[x][s])'
    <3>1. PICK r : r = journal[x][s]
      OBVIOUS
    <3>2. Valid(r)'
      BY <1>1, <1>2, <3>1, ValidStays DEF Shapes
    <3>3. journal'[x][s] = r
      BY <1>2, <3>1
    <3> QED
      BY <3>2, <3>3 DEF Valid, RecordOf
  <2>2. \A x \in Disks', s \in 0..1 : Valid(journal[x][s])'
    BY <1>2, <2>1, Fixed
  <2>3. FunctionOn(journal, Disks)' /\ \A x \in Disks' : FunctionOn(journal[x], 0..1)'
    BY <1>1, <1>2, Fixed DEF Shapes, FunctionOn
  <2>4. reshape' = reshape /\ recovering' = recovering
    BY <1>2 DEF fixed
  <2>5. sb'.state \in {"old", "reshaping", "new"} /\ sb'.faulty \subseteq faulty'
    BY <1>2, <1>3
  <2>6. /\ reshape' \in Reshapes /\ recovering' = {} /\ epc' \in Places /\ who' \in 0..New'.n
        /\ taken' \in BOOLEAN /\ (epc' \in Phases /\ who' = 0 => ~taken') /\ crashes' \in Nat
        /\ (epc' \in {"down", "replay"} => crashes' > 0) /\ faults' \in 0..reshape'.faults
        /\ faulty' \subseteq Disks' /\ Cardinality(faulty') <= faults'
    BY <1>1, <1>2, <2>4, Fixed DEF Shapes
  <2> QED
    BY <2>2, <2>3, <2>5, <2>6 DEF Shapes
<1>5. \A s, q, w : Few(s, q, w) => Few(s, q, w)'
  BY <1>2, Fixed DEF Few, Without
<1>6. Settled(M) => Settled(M)'
  BY <1>2, Fixed DEF Settled, Level
<1>7. CASE sb.state = "old"
  <2>1. Fresh /\ epc = "ready" /\ M = 0 /\ sb'.state = "reshaping"
    BY <1>1, <1>3, <1>7 DEF FrontInv, Fresh, Running
  <2>2. \A x \in NewDisks, s \in 0..1 : journal[x][s].seq \in {0, 1}
    BY <2>1 DEF Fresh
  <2>3. \A x \in NewDisks, s \in 0..1 : Level(journal[x][s]) = 0
    BY <2>2 DEF Level
  <2>4. Settled(0)'
    BY <1>2, <2>3, Fixed DEF Settled, Level
  <2>5. Standing(0)' /\ ~Committed'
    <3>1. 0 \in 0..Rows /\ safe = Pos(0) /\ progress = Pos(0)
      BY <1>1, <2>1, Sizes DEF Fresh
    <3> QED
      BY <1>2, <2>1, <3>1, Fixed DEF Standing, Committed, Resting, Moving
  <2>6. sb'.rpos = Pos(0)'
    BY <1>2, <1>3, <2>1, Fixed DEF Fresh
  <2>7. FrontInv(0)'
    <3>1. 0 \in 0..0
      OBVIOUS
    <3> QED
      BY <1>4, <2>1, <2>4, <2>5, <2>6, <3>1 DEF FrontInv
  <2> QED
    BY <2>1, <2>7
<1>8. CASE sb.state = "reshaping" /\ epc # "finished"
  <2>1. epc # "down" /\ sb'.state = "reshaping"
    BY <1>1, <1>3, <1>8 DEF Running
  <2>2. PICK L \in 0..M : M = (IF Committed THEN L + 1 ELSE L) /\ Standing(L)
    BY <1>8, <2>1 DEF FrontInv
  <2>3. Committed' = Committed
    BY <1>2 DEF Committed
  <2>4. Standing(L)'
    <3>1. Few(1, 4 * L - 1, New.n) => Few(1, 4 * L - 1, New.n)'
      BY <1>2, <1>5, Fixed
    <3>2. Few(0, 4 * L + 2, New.n) => Few(0, 4 * L + 2, New.n)'
      BY <1>2, <1>5, Fixed
    <3>3. Few(1, 4 * L + 3, New.n) => Few(1, 4 * L + 3, New.n)'
      BY <1>2, <1>5, Fixed
    <3>4. Few(0, 4 * L + 2, who) => Few(0, 4 * L + 2, who)'
      BY <1>2, Fixed DEF Few, Without
    <3>5. Few(1, 4 * L + 3, who) => Few(1, 4 * L + 3, who)'
      BY <1>2, Fixed DEF Few, Without
    <3> QED
      BY <1>2, <2>2, <2>3, <3>1, <3>2, <3>3, <3>4, <3>5, Fixed DEF Standing
  <2>5. sb'.rpos = Pos(L)'
    BY <1>2, <1>3, <2>2, Fixed DEF Standing
  <2>6. FrontInv(M)'
    BY <1>2, <1>4, <1>6, <1>8, <2>1, <2>2, <2>3, <2>4, <2>5 DEF FrontInv
  <2> QED
    BY <2>6
<1>9. CASE epc = "finished"
  <2>1. FrontInv(Rows)'
    BY <1>1, <1>2, <1>3, <1>4, <1>9, Sizes DEF FrontInv
  <2> QED
    BY <1>1, <2>1, Sizes
<1>10. CASE sb.state = "new" /\ epc # "finished"
  BY <1>1, <1>10 DEF FrontInv, Running
<1> QED
  BY <1>1, <1>7, <1>8, <1>9, <1>10 DEF Shapes


-----------------------------------------------------------------------------
(* Steps that change what a member has, or which members there are          *)

LEMMA SomeoneHasNext ==
  ASSUME Sober, NEW CONSTANT s \in 0..1, NEW CONSTANT q
  PROVE  (Shapes /\ Few(s, q, New.n)
            => \E x \in NewDisks \ faulty : journal[x][s].seq = q)'
<1>1. Shapes /\ Few(s, q, New.n) => \E x \in NewDisks \ faulty : journal[x][s].seq = q
  BY SomeoneHas
<1> QED
  BY <1>1, PTL

\* A member fails: those with the last record of the band were more.
LEMMA UnitFailsKeeps ==
  ASSUME NEW M \in 0..Rows, FrontInv(M), Sober, WriteUnitFails
  PROVE  FrontInv(M)'
<1>1. Shapes /\ epc \in {"scratch", "home"} /\ who \in 0..New.n /\ who < New.n
      /\ faults < reshape.faults
  BY DEF FrontInv, WriteUnitFails, Shapes
<1>2. sb.state = "reshaping"
  BY <1>1, PlaceOfThread DEF Resting, Moving
<1>3. /\ UNCHANGED <<journal, sb, crashes, epc, taken, progress, safe>> /\ UNCHANGED fixed
      /\ faults' = faults + 1 /\ faulty' = faulty \cup {who} /\ who' = who + 1
  BY DEF WriteUnitFails, disks, frontier
<1>4. who \in NewDisks /\ who \in Disks
  BY <1>1, Sizes DEF NewDisks
<1>5. Shapes'
  <2>1. ASSUME NEW x \in Disks, NEW s \in 0..1 PROVE Valid(journal[x][s])'
    <3>1. PICK r : r = journal[x][s]
      OBVIOUS
    <3>2. Valid(r)'
      BY <1>1, <1>3, <3>1, ValidStays DEF Shapes
    <3>3. journal'[x][s] = r
      BY <1>3, <3>1
    <3> QED
      BY <3>2, <3>3 DEF Valid, RecordOf
  <2>2. \A x \in Disks', s \in 0..1 : Valid(journal[x][s])'
    BY <1>3, <2>1, Fixed
  <2>3. FunctionOn(journal, Disks)' /\ \A x \in Disks' : FunctionOn(journal[x], 0..1)'
    BY <1>1, <1>3, Fixed DEF Shapes, FunctionOn
  <2>4. reshape' = reshape /\ recovering' = recovering
    BY <1>3 DEF fixed
  <2>5. Cardinality(faulty') <= faults'
    <3>1. IsFiniteSet(faulty) /\ Cardinality(faulty) \in Nat /\ Cardinality(faulty) <= faults
          /\ faults \in Int
      BY <1>1, MemberLeft, Sizes DEF Shapes
    <3>2. Cardinality(faulty \cup {who})
            = IF who \in faulty THEN Cardinality(faulty) ELSE Cardinality(faulty) + 1
      BY <3>1, FS_AddElement
    <3> QED
      BY <1>3, <3>1, <3>2
  <2>6. faults' \in 0..reshape'.faults /\ who' \in 0..New'.n /\ who' # 0
    BY <1>1, <1>3, <2>4, Sizes, Fixed DEF Shapes
  <2>7. /\ reshape' \in Reshapes /\ recovering' = {} /\ epc' \in Places
        /\ taken' \in BOOLEAN /\ crashes' \in Nat
        /\ (epc' \in {"down", "replay"} => crashes' > 0)
        /\ faulty' \subseteq Disks'
        /\ sb'.state \in {"old", "reshaping", "new"} /\ sb'.faulty \subseteq faulty'
    BY <1>1, <1>3, <1>4, <2>4, Fixed DEF Shapes
  <2> QED
    BY <2>2, <2>3, <2>5, <2>6, <2>7 DEF Shapes
<1>6. ASSUME NEW s, NEW q, Few(s, q, New.n) PROVE Few(s, q, New.n)'
  <2>1. Without(s, q, New.n)' \subseteq Without(s, q, New.n) \cup {who}
    BY <1>3, Fixed DEF Without
  <2>2. Cardinality(Without(s, q, New.n)') <= faults + 1
    BY <1>1, <1>6, <2>1, FewMore
  <2> QED
    BY <1>3, <2>2 DEF Few
<1>7. PICK L \in 0..M : M = (IF Committed THEN L + 1 ELSE L) /\ Standing(L)
  BY <1>1, <1>2 DEF FrontInv
<1>8. Committed' = Committed /\ (epc = "home" => Committed) /\ (epc = "scratch" => ~Committed)
  BY <1>3 DEF Committed
<1>9. Standing(L)'
  BY <1>1, <1>3, <1>6, <1>7, <1>8, Fixed DEF Standing
<1>10. L \in Nat
  BY <1>7
<1>11. Settled(M)'
  <2>1. \A x \in NewDisks', s \in 0..1 : Level(journal'[x][s]) <= M
    BY <1>2, <1>3, Fixed DEF FrontInv, Settled
  <2>2. ASSUME M > 0 PROVE \E x \in (NewDisks \ faulty)', s \in 0..1 : Level(journal'[x][s]) = M
    <3>1. CASE epc = "scratch"
      <4>1. Few(0, 4 * L + 2, New.n)'
        BY <1>6, <1>7, <3>1 DEF Standing
      <4>2. PICK x \in (NewDisks \ faulty)' : journal'[x][0].seq = 4 * L + 2
        BY <1>5, <4>1, SomeoneHasNext
      <4>3. M = L
        BY <1>7, <1>8, <3>1
      <4> QED
        BY <1>10, <4>2, <4>3, Levels DEF Level
    <3>2. CASE epc = "home"
      <4>1. Few(1, 4 * L + 3, New.n)'
        BY <1>6, <1>7, <3>2 DEF Standing
      <4>2. PICK x \in (NewDisks \ faulty)' : journal'[x][1].seq = 4 * L + 3
        BY <1>5, <4>1, SomeoneHasNext
      <4>3. M = L + 1
        BY <1>7, <1>8, <3>2
      <4> QED
        BY <1>10, <4>2, <4>3, Levels DEF Level
    <3> QED
      BY <1>1, <3>1, <3>2
  <2> QED
    BY <2>1, <2>2 DEF Settled, Level
<1> QED
  BY <1>1, <1>2, <1>3, <1>5, <1>7, <1>8, <1>9, <1>11, Fixed DEF FrontInv

\* A slot is written.
Wrote(w, i, r) == journal' = [journal EXCEPT ![w][i] = r]

LEMMA SlotWritten ==
  ASSUME Shapes, NEW w \in Disks, NEW i \in 0..1, NEW r, Wrote(w, i, r), UNCHANGED fixed
  PROVE  /\ FunctionOn(journal, Disks)' /\ \A x \in Disks' : FunctionOn(journal[x], 0..1)'
         /\ \A x \in Disks, s \in 0..1 :
              journal'[x][s] = IF x = w /\ s = i THEN r ELSE journal[x][s]
         /\ Valid(r) => \A x \in Disks', s \in 0..1 : Valid(journal[x][s])'
<1>1. FunctionOn(journal, Disks) /\ \A x \in Disks : FunctionOn(journal[x], 0..1)
  BY DEF Shapes
<1>2. PICK f : f = [journal[w] EXCEPT ![i] = r]
  OBVIOUS
<1>3. journal' = [x \in Disks |-> IF x = w THEN f ELSE journal[x]]
  BY <1>1, <1>2 DEF FunctionOn, Wrote
<1>4. f = [s \in 0..1 |-> IF s = i THEN r ELSE journal[w][s]]
  BY <1>1, <1>2 DEF FunctionOn
<1>5. \A x \in Disks, s \in 0..1 :
        journal'[x][s] = IF x = w /\ s = i THEN r ELSE journal[x][s]
  BY <1>3, <1>4
<1>6. FunctionOn(journal, Disks)'
  BY <1>3, Fixed DEF FunctionOn
<1>7. \A x \in Disks' : FunctionOn(journal[x], 0..1)'
  <2> SUFFICES ASSUME NEW x \in Disks' PROVE FunctionOn(journal[x], 0..1)'
    OBVIOUS
  <2>1. x \in Disks
    BY Fixed
  <2>2. CASE x = w
    <3>1. journal'[x] = f
      BY <1>3, <2>1, <2>2
    <3>2. f = [s \in 0..1 |-> f[s]]
      BY <1>4
    <3> QED
      BY <3>1, <3>2 DEF FunctionOn
  <2>3. CASE x # w
    <3>1. journal'[x] = journal[x]
      BY <1>3, <2>1, <2>3
    <3> QED
      BY <1>1, <2>1, <3>1 DEF FunctionOn
  <2> QED
    BY <2>2, <2>3
<1>8. ASSUME Valid(r), NEW x \in Disks, NEW s \in 0..1 PROVE Valid(journal[x][s])'
  <2>1. PICK q : q = journal'[x][s]
    OBVIOUS
  <2>2. Valid(q)
    <3>1. q = r \/ q = journal[x][s]
      BY <1>5, <2>1
    <3> QED
      BY <1>8, <3>1 DEF Shapes
  <2>3. Valid(q)'
    BY <2>2, ValidStays
  <2> QED
    BY <2>1, <2>3 DEF Valid, RecordOf
<1> QED
  BY <1>5, <1>6, <1>7, <1>8, Fixed


\* The record of the band at hand.
LEMMA RecordAtHand ==
  ASSUME Shapes, NEW L \in 0..(Rows - 1), progress = Pos(L + 1)
  PROVE  /\ epc = "STAGE" => Record.seq = 4 * L + 2 /\ Record.seq % 2 = 0
                             /\ Valid(Record) /\ Level(Record) = L
         /\ epc = "COMMIT" => Record.seq = 4 * L + 3 /\ Record.seq % 2 = 1
                              /\ Valid(Record) /\ Level(Record) = L + 1
         /\ epc = "DONE" => Record.seq = 4 * L + 4 /\ Record.seq % 2 = 0
                            /\ Valid(Record) /\ Level(Record) = L + 1
<1>1. ClaimedRow = RowAt(L) /\ Turn(RowAt(L)) = L /\ L \in Nat
  BY BandAt, Sizes DEF ClaimedRow
<1>2. CASE epc = "STAGE"
  <2>1. Record.seq = 4 * L + 2 /\ Record.row = RowAt(L) /\ Record.phase = "STAGE"
    BY <1>1, <1>2 DEF Record
  <2> QED
    BY <1>1, <1>2, <2>1, Levels DEF Valid, RecordOf, Level
<1>3. CASE epc = "COMMIT"
  <2>1. Record.seq = 4 * L + 3 /\ Record.row = RowAt(L) /\ Record.phase = "COMMIT"
    BY <1>1, <1>3 DEF Record
  <2> QED
    BY <1>1, <1>3, <2>1, Levels DEF Valid, RecordOf, Level
<1>4. CASE epc = "DONE"
  <2>1. Record.seq = 4 * L + 4 /\ Record.row = RowAt(L) /\ Record.phase = "DONE"
    BY <1>1, <1>4 DEF Record
  <2> QED
    BY <1>1, <1>4, <2>1, Levels DEF Valid, RecordOf, Level
<1> QED
  BY <1>2, <1>3, <1>4

LEMMA FirstRecords ==
  /\ epc = "INIT0" => Record.seq = 0 /\ Record.seq % 2 = 0 /\ Valid(Record)
  /\ epc = "INIT1" => Record.seq = 1 /\ Record.seq % 2 = 1 /\ Valid(Record)
BY DEF Record, Valid

LEMMA TakeShapes ==
  ASSUME Shapes, JournalTake, NEW i \in 0..1, NEW r,
         r = Record, Valid(r), i = r.seq % 2
  PROVE  /\ Shapes'
         /\ who \in NewDisks \ faulty /\ who' = who + 1 /\ taken'
         /\ UNCHANGED <<epc, progress, safe, sb, faulty, crashes, faults>> /\ UNCHANGED fixed
         /\ \A x \in NewDisks, s \in 0..1 :
              journal'[x][s] = IF x = who /\ s = i THEN r ELSE journal[x][s]
<1>1. /\ who' = who + 1 /\ taken' = TRUE /\ who < New.n /\ who \notin faulty
      /\ UNCHANGED <<epc, progress, safe, sb, faulty, crashes, faults>> /\ UNCHANGED fixed
      /\ journal' = [journal EXCEPT ![who][i] = r]
  BY DEF JournalTake, Eligible, frontier, budget
<1>2. who \in NewDisks /\ who \in Disks /\ who' \in 0..New.n /\ who' # 0
  BY <1>1, Sizes DEF Shapes, NewDisks
<1>3. /\ FunctionOn(journal, Disks)' /\ \A x \in Disks' : FunctionOn(journal[x], 0..1)'
      /\ \A x \in Disks, s \in 0..1 :
           journal'[x][s] = IF x = who /\ s = i THEN r ELSE journal[x][s]
      /\ \A x \in Disks', s \in 0..1 : Valid(journal[x][s])'
  <2>1. PICK w : w = who
    OBVIOUS
  <2>2. Wrote(w, i, r) /\ w \in Disks
    BY <1>1, <1>2, <2>1 DEF Wrote
  <2>3. FunctionOn(journal, Disks)' /\ \A x \in Disks' : FunctionOn(journal[x], 0..1)'
    BY <1>1, <2>2, SlotWritten
  <2>5. \A x \in Disks, s \in 0..1 :
          journal'[x][s] = IF x = w /\ s = i THEN r ELSE journal[x][s]
    BY <1>1, <2>2, SlotWritten
  <2>4. \A x \in Disks', s \in 0..1 : Valid(journal[x][s])'
    BY <1>1, <2>2, SlotWritten
  <2> QED
    BY <2>1, <2>3, <2>4, <2>5
<1>4. /\ reshape' \in Reshapes /\ recovering' = {} /\ epc' \in Places /\ who' \in 0..New'.n
      /\ taken' \in BOOLEAN /\ (epc' \in Phases /\ who' = 0 => ~taken') /\ crashes' \in Nat
      /\ (epc' \in {"down", "replay"} => crashes' > 0) /\ faults' \in 0..reshape'.faults
      /\ faulty' \subseteq Disks' /\ Cardinality(faulty') <= faults'
      /\ sb'.state \in {"old", "reshaping", "new"} /\ sb'.faulty \subseteq faulty'
  BY <1>1, <1>2, Fixed DEF Shapes, fixed
<1>5. Shapes'
  BY <1>3, <1>4 DEF Shapes
<1> QED
  BY <1>1, <1>2, <1>3, <1>5, Sizes

LEMMA TakeAdvances ==
  ASSUME NEW M \in 0..Rows, FrontInv(M), Sober, JournalTake
  PROVE  \E N \in M..Rows : FrontInv(N)'
<1>1. Shapes /\ epc \in Phases
  BY DEF FrontInv, JournalTake
<1>2. PICK r : r = Record
  OBVIOUS
<1>3. PICK i : i = r.seq % 2
  OBVIOUS
<1>4. sb.state # "new"
  BY <1>1 DEF FrontInv, Phases
<1>5. CASE sb.state = "old"
  <2>1. Fresh /\ epc \in {"INIT0", "INIT1"} /\ M = 0
    BY <1>1, <1>5 DEF FrontInv, Fresh, Phases
  <2>2. Valid(r) /\ i \in 0..1 /\ (epc = "INIT0" => r.seq = 0 /\ i = 0)
        /\ (epc = "INIT1" => r.seq = 1 /\ i = 1)
    BY <1>2, <1>3, <2>1, FirstRecords
  <2>3. /\ Shapes'
        /\ who \in NewDisks /\ who' = who + 1
        /\ UNCHANGED <<epc, progress, safe, sb, faulty, crashes, faults>> /\ UNCHANGED fixed
        /\ \A x \in NewDisks, s \in 0..1 :
             journal'[x][s] = IF x = who /\ s = i THEN r ELSE journal[x][s]
    BY <1>1, <1>2, <1>3, <2>2, TakeShapes
  <2>4. \A x \in NewDisks : x < who + 1 => x < who \/ x = who
    BY <2>3, Sizes, <1>1 DEF NewDisks
  <2>5. Fresh'
    <3>1. CASE epc = "INIT0"
      <4>1. \A x \in NewDisks : x < who' => journal'[x][0].seq = 0
        BY <2>1, <2>2, <2>3, <2>4, <3>1 DEF Fresh
      <4> QED
        BY <2>1, <2>3, <3>1, <4>1, Fixed DEF Fresh
    <3>2. CASE epc = "INIT1"
      <4>1. \A x \in NewDisks : journal'[x][0].seq = 0
        BY <2>1, <2>2, <2>3, <3>2 DEF Fresh
      <4>2. \A x \in NewDisks : x < who' => journal'[x][1].seq = 1
        BY <2>1, <2>2, <2>3, <2>4, <3>2 DEF Fresh
      <4> QED
        BY <2>1, <2>3, <3>2, <4>1, <4>2, Fixed DEF Fresh
    <3> QED
      BY <2>1, <3>1, <3>2
  <2>6. FrontInv(M)'
    BY <1>5, <2>1, <2>3, <2>5 DEF FrontInv
  <2> QED
    BY <2>6, Sizes, <1>1
<1>6. CASE sb.state = "reshaping"
  <2>1. epc \in {"STAGE", "COMMIT", "DONE"}
    BY <1>1, <1>6, PlaceOfThread DEF Phases
  <2>2. PICK L \in 0..M : M = (IF Committed THEN L + 1 ELSE L) /\ Standing(L)
    BY <1>6, <2>1 DEF FrontInv
  <2>3. L \in 0..(Rows - 1) /\ progress = Pos(L + 1) /\ L \in Nat /\ M \in Nat /\ Rows \in Nat
    BY <1>1, <2>1, <2>2, Sizes DEF Standing, Moving
  <2>4. /\ Valid(r) /\ i \in 0..1
        /\ epc = "STAGE" => r.seq = 4 * L + 2 /\ i = 0 /\ Level(r) = L
        /\ epc = "COMMIT" => r.seq = 4 * L + 3 /\ i = 1 /\ Level(r) = L + 1
        /\ epc = "DONE" => r.seq = 4 * L + 4 /\ i = 0 /\ Level(r) = L + 1
    <3>1. CASE epc = "STAGE"
      BY <1>1, <1>2, <1>3, <2>3, <3>1, RecordAtHand
    <3>2. CASE epc = "COMMIT"
      BY <1>1, <1>2, <1>3, <2>3, <3>2, RecordAtHand
    <3>3. CASE epc = "DONE"
      BY <1>1, <1>2, <1>3, <2>3, <3>3, RecordAtHand
    <3> QED
      BY <2>1, <3>1, <3>2, <3>3
  <2>5. /\ Shapes'
        /\ who \in NewDisks \ faulty /\ who' = who + 1 /\ taken'
        /\ UNCHANGED <<epc, progress, safe, sb, faulty, crashes, faults>> /\ UNCHANGED fixed
        /\ \A x \in NewDisks, s \in 0..1 :
             journal'[x][s] = IF x = who /\ s = i THEN r ELSE journal[x][s]
    BY <1>1, <1>2, <1>3, <2>4, TakeShapes
  <2>6. ASSUME NEW s \in 0..1, s # i, NEW q, NEW w, Few(s, q, w) PROVE Few(s, q, w)'
    <3>1. Without(s, q, w)' = Without(s, q, w)
      BY <2>5, <2>6, Fixed DEF Without
    <3> QED
      BY <2>5, <2>6, <3>1 DEF Few
  <2>7. ASSUME Few(i, r.seq, who) PROVE Cardinality(Without(i, r.seq, who)') <= faults
    <3>1. Without(i, r.seq, who)' \subseteq Without(i, r.seq, who)
      <4> SUFFICES ASSUME NEW x \in NewDisks, x \notin faulty,
                          x < who + 1, journal'[x][i].seq # r.seq
                   PROVE  x < who /\ journal[x][i].seq # r.seq
        BY <2>5, Fixed DEF Without
      <4>1. x # who
        BY <2>4, <2>5
      <4>2. x < who
        BY <1>1, <2>5, <4>1, Sizes DEF NewDisks
      <4> QED
        BY <2>4, <2>5, <4>1, <4>2
    <3> QED
      BY <1>1, <2>7, <3>1, FewLess
  <2>13. PICK N : N = IF epc \in {"COMMIT", "DONE"} THEN L + 1 ELSE L
    OBVIOUS
  <2>8. N \in M..Rows /\ N \in Nat /\ L \in 0..N
    BY <2>1, <2>2, <2>3, <2>13 DEF Committed
  <2>9. N = (IF Committed' THEN L + 1 ELSE L)
    BY <2>1, <2>5, <2>13 DEF Committed
  <2>10. Settled(N)'
    <3>1. Level(r) = N
      BY <2>1, <2>4, <2>13
    <3>2. \A x \in NewDisks, s \in 0..1 : Level(journal[x][s]) <= M
      BY <1>6 DEF FrontInv, Settled
    <3>3. \A x \in NewDisks, s \in 0..1 : Level(journal[x][s]) \in 0..Rows
      BY <1>1, Sizes, ValidRecord DEF Shapes
    <3>4. \A x \in NewDisks, s \in 0..1 : Level(journal'[x][s]) <= N
      <4> SUFFICES ASSUME NEW x \in NewDisks, NEW s \in 0..1
                   PROVE  Level(journal'[x][s]) <= N
        OBVIOUS
      <4>1. CASE x = who /\ s = i
        BY <2>5, <2>8, <3>1, <4>1
      <4>2. CASE ~(x = who /\ s = i)
        <5>1. journal'[x][s] = journal[x][s]
          BY <2>5, <4>2
        <5>2. Level(journal[x][s]) <= M /\ Level(journal[x][s]) \in Int
          BY <3>2, <3>3
        <5> QED
          BY <2>3, <2>8, <5>1, <5>2
      <4> QED
        BY <4>1, <4>2
    <3>5. Level(journal'[who][i]) = N /\ i \in 0..1
      BY <2>4, <2>5, <3>1
    <3> QED
      BY <2>5, <3>4, <3>5, Fixed DEF Settled, Level
  <2>11. Standing(L)'
    <3>1. CASE epc = "STAGE"
      <4>1. Few(0, 4 * L + 2, who)'
        <5>1. Few(i, r.seq, who)
          BY <2>2, <2>4, <3>1 DEF Standing
        <5>2. Without(i, r.seq, who)' = Without(0, 4 * L + 2, who)'
          BY <2>4, <3>1 DEF Without
        <5> QED
          BY <2>5, <2>7, <5>1, <5>2 DEF Few
      <4>2. crashes = 0 /\ L > 0 => Few(1, 4 * L - 1, New.n)'
        <5> SUFFICES ASSUME crashes = 0, L > 0 PROVE Few(1, 4 * L - 1, New.n)'
          OBVIOUS
        <5>1. Few(1, 4 * L - 1, New.n)
          BY <2>2, <3>1 DEF Standing, Committed
        <5>2. Without(1, 4 * L - 1, New.n)' = Without(1, 4 * L - 1, New.n)
          BY <2>4, <2>5, <3>1, Fixed DEF Without
        <5> QED
          BY <2>5, <5>1, <5>2 DEF Few
      <4> QED
        BY <2>2, <2>5, <3>1, <4>1, <4>2, Fixed DEF Standing, Committed, Moving, Resting
    <3>2. CASE epc = "COMMIT"
      <4>1. Few(1, 4 * L + 3, who)'
        <5>1. Few(i, r.seq, who)
          BY <2>2, <2>4, <3>2 DEF Standing
        <5>2. Without(i, r.seq, who)' = Without(1, 4 * L + 3, who)'
          BY <2>4, <3>2 DEF Without
        <5> QED
          BY <2>5, <2>7, <5>1, <5>2 DEF Few
      <4>2. Few(0, 4 * L + 2, New.n)'
        <5>1. Few(0, 4 * L + 2, New.n)
          BY <2>2, <3>2 DEF Standing
        <5>2. Without(0, 4 * L + 2, New.n)' = Without(0, 4 * L + 2, New.n)
          BY <2>4, <2>5, <3>2, Fixed DEF Without
        <5> QED
          BY <2>5, <5>1, <5>2 DEF Few
      <4>3. who \in (NewDisks \ faulty)' /\ who < who' /\ journal'[who][1].seq = 4 * L + 3
        BY <1>1, <2>4, <2>5, <3>2, Fixed DEF Shapes
      <4> QED
        BY <2>2, <2>5, <3>2, <4>1, <4>2, <4>3, Fixed DEF Standing, Committed, Moving, Resting
    <3>3. CASE epc = "DONE"
      <4>1. Few(1, 4 * L + 3, New.n)
        BY <2>2, <3>3 DEF Standing
      <4>2. Without(1, 4 * L + 3, New.n)' = Without(1, 4 * L + 3, New.n)
        BY <2>4, <2>5, <3>3, Fixed DEF Without
      <4>3. Few(1, 4 * L + 3, New.n)'
        BY <2>5, <4>1, <4>2 DEF Few
      <4> QED
        BY <2>2, <2>5, <3>3, <4>3, Fixed DEF Standing, Committed, Moving, Resting
    <3> QED
      BY <2>1, <3>1, <3>2, <3>3
  <2>12. \E R \in 0..N : sb'.rpos = Pos(R)'
    <3>1. PICK R \in 0..M : sb.rpos = Pos(R)
      BY <1>6 DEF FrontInv
    <3>2. R \in 0..N
      BY <2>3, <2>8, <3>1
    <3> QED
      BY <2>5, <3>1, <3>2, Fixed
  <2>14. FrontInv(N)'
    <3>1. N \in 0..Rows
      BY <2>3, <2>8
    <3> QED
      BY <1>6, <2>5, <2>8, <2>9, <2>10, <2>11, <2>12, <3>1 DEF FrontInv
  <2> QED
    BY <2>8, <2>14
<1> QED
  BY <1>1, <1>4, <1>5, <1>6 DEF Shapes


-----------------------------------------------------------------------------
(* Power failure                                                            *)

LEMMA NewestOfSettled ==
  ASSUME Shapes, NEW M \in 0..Rows, Settled(M), M > 0,
         NEW lost, lost \subseteq faulty
  PROVE  Level(Best(lost)) = M
<1> DEFINE b == Best(lost)
<1>1. PICK y \in NewDisks \ faulty, t \in 0..1 : Level(journal[y][t]) = M
  BY DEF Settled
<1>2. y \in NewDisks \ lost
  BY <1>1
<1>3. b \in Readable(lost) /\ \A q \in Readable(lost) : q.seq <= b.seq
  BY <1>2, BestIsNewest
<1>4. PICK x \in NewDisks \ lost, s \in 0..1 : b = journal[x][s]
  BY <1>3 DEF Readable
<1>5. Valid(b) /\ Level(b) <= M
  BY <1>4, Sizes DEF Shapes, Settled
<1>6. b.seq \in Int /\ Level(b) \in 0..Rows
  BY <1>5, ValidRecord
<1>7. Valid(journal[y][t]) /\ journal[y][t] \in Readable(lost)
  BY <1>1, <1>2, Sizes DEF Shapes, Readable
<1>8. journal[y][t].seq \in Int /\ journal[y][t].seq <= b.seq
  BY <1>3, <1>7, ValidRecord
<1> HIDE DEF b
<1>9. M <= Level(b)
  BY <1>1, <1>6, <1>8, LevelOrder DEF Level
<1> QED
  BY <1>5, <1>6, <1>9 DEF b

LEMMA BestNext ==
  (Shapes /\ NewDisks \ faulty # {} => Best(faulty) \in Readable(faulty))'
<1>1. Shapes /\ NewDisks \ faulty # {} => Best(faulty) \in Readable(faulty)
  BY BestIsNewest
<1> QED
  BY <1>1, PTL

LEMMA SlotAtHand ==
  ASSUME NEW M \in 0..Rows, FrontInv(M), epc \in Phases
  PROVE  /\ Record.seq % 2 \in 0..1
         /\ epc \in {"STAGE", "DONE"} => Record.seq % 2 = 0
         /\ epc = "COMMIT" => Record.seq % 2 = 1
<1>1. Shapes
  BY DEF FrontInv
<1>2. CASE epc \in {"INIT0", "INIT1"}
  BY <1>2, FirstRecords
<1>3. CASE epc \in {"STAGE", "COMMIT", "DONE"}
  <2>1. sb.state = "reshaping"
    BY <1>3, PlaceOfThread DEF Resting, Moving
  <2>2. PICK L \in 0..M : Standing(L)
    BY <1>3, <2>1 DEF FrontInv
  <2>3. L \in 0..(Rows - 1) /\ progress = Pos(L + 1)
    BY <1>1, <1>3, <2>2, Sizes DEF Standing, Moving
  <2> QED
    BY <1>1, <1>3, <2>3, RecordAtHand
<1> QED
  BY <1>2, <1>3 DEF Phases

\* The write in progress may leave its slot without a record.
LEMMA TearShapes ==
  ASSUME NEW M \in 0..Rows, FrontInv(M), PowerFails
  PROVE  /\ Shapes' /\ faulty' \subseteq faulty /\ UNCHANGED fixed
         /\ epc' = "down" /\ sb' = sb /\ faulty' = sb.faulty
         /\ \/ journal' = journal
            \/ /\ epc \in Phases
               /\ \A x \in NewDisks, s \in 0..1 :
                    journal'[x][s] = IF x = who /\ s = Record.seq % 2
                                     THEN NoRecord ELSE journal[x][s]
<1>0. Shapes
  BY DEF FrontInv
<1>1. /\ UNCHANGED <<sb, faults>> /\ UNCHANGED fixed /\ epc' = "down" /\ who' = 0
      /\ taken' = FALSE /\ crashes' = crashes + 1 /\ faulty' = sb.faulty
  BY DEF PowerFails
<1>2. faulty' \subseteq faulty
  BY <1>0, <1>1 DEF Shapes
<1>3. \/ journal' = journal
      \/ /\ epc \in Phases /\ who < New.n
         /\ journal' = [journal EXCEPT ![who][Record.seq % 2] = NoRecord]
  BY DEF PowerFails, TearWrite
<1> DEFINE JournalKept ==
      /\ FunctionOn(journal, Disks)' /\ \A x \in Disks' : FunctionOn(journal[x], 0..1)'
      /\ \A x \in Disks', s \in 0..1 : Valid(journal[x][s])'
<1>4. ASSUME journal' = journal PROVE JournalKept
  <2>1. ASSUME NEW x \in Disks, NEW s \in 0..1 PROVE Valid(journal[x][s])'
    <3>1. PICK r : r = journal[x][s]
      OBVIOUS
    <3>2. Valid(r)'
      BY <1>0, <1>1, <3>1, ValidStays DEF Shapes
    <3>3. journal'[x][s] = r
      BY <1>4, <3>1
    <3> QED
      BY <3>2, <3>3 DEF Valid, RecordOf
  <2>2. FunctionOn(journal, Disks)' /\ \A x \in Disks' : FunctionOn(journal[x], 0..1)'
    BY <1>0, <1>1, <1>4, Fixed DEF Shapes, FunctionOn
  <2>3. \A x \in Disks', s \in 0..1 : Valid(journal[x][s])'
    BY <1>1, <2>1, Fixed
  <2> QED
    BY <2>2, <2>3
<1>5. ASSUME epc \in Phases, who < New.n,
             journal' = [journal EXCEPT ![who][Record.seq % 2] = NoRecord]
      PROVE  JournalKept
  <2>1. PICK w : w = who
    OBVIOUS
  <2>2. PICK i : i = Record.seq % 2
    OBVIOUS
  <2>3. PICK r : r = NoRecord
    OBVIOUS
  <2>4. w \in NewDisks /\ w \in Disks
    BY <1>0, <1>5, <2>1, Sizes DEF Shapes, NewDisks
  <2>5. i \in 0..1
    BY <1>5, <2>2, SlotAtHand
  <2>6. Wrote(w, i, r)
    BY <1>5, <2>1, <2>2, <2>3 DEF Wrote
  <2>7. Valid(r)
    BY <2>3 DEF Valid
  <2>8. FunctionOn(journal, Disks)' /\ \A x \in Disks' : FunctionOn(journal[x], 0..1)'
    BY <1>0, <1>1, <2>4, <2>5, <2>6, SlotWritten
  <2>9. \A x \in Disks', s \in 0..1 : Valid(journal[x][s])'
    BY <1>0, <1>1, <2>4, <2>5, <2>6, <2>7, SlotWritten
  <2> QED
    BY <2>8, <2>9
<1>6. JournalKept
  BY <1>3, <1>4, <1>5
<1>7. /\ reshape' \in Reshapes /\ recovering' = {} /\ epc' \in Places /\ who' \in 0..New'.n
      /\ taken' \in BOOLEAN /\ (epc' \in Phases /\ who' = 0 => ~taken') /\ crashes' \in Nat
      /\ (epc' \in {"down", "replay"} => crashes' > 0) /\ faults' \in 0..reshape'.faults
      /\ sb'.state \in {"old", "reshaping", "new"} /\ sb'.faulty \subseteq faulty'
  <2>1. reshape' = reshape /\ recovering' = recovering
    BY <1>1 DEF fixed
  <2>2. crashes' \in Nat /\ crashes' > 0
    BY <1>0, <1>1 DEF Shapes
  <2>3. 0 \in 0..New'.n
    BY <1>0, <1>1, Fixed, Sizes
  <2> QED
    BY <1>0, <1>1, <2>1, <2>2, <2>3 DEF Shapes, Places, Phases
<1>8. faulty' \subseteq Disks' /\ Cardinality(faulty') <= faults'
  <2>1. IsFiniteSet(faulty)
    BY <1>0, Sizes, FS_Subset DEF Shapes
  <2>2. IsFiniteSet(faulty') /\ Cardinality(faulty') <= Cardinality(faulty)
    BY <1>2, <2>1, FS_Subset
  <2>3. Cardinality(faulty) \in Nat /\ Cardinality(faulty') \in Nat
    BY <2>1, <2>2, FS_CardinalityType
  <2>4. Cardinality(faulty) <= faults /\ faults' = faults /\ faults \in Int
    BY <1>0, <1>1, Sizes DEF Shapes
  <2> QED
    BY <1>0, <1>1, <1>2, <2>2, <2>3, <2>4, Fixed DEF Shapes
<1>9. Shapes'
  BY <1>6, <1>7, <1>8 DEF Shapes
<1>10. \/ journal' = journal
       \/ /\ epc \in Phases
          /\ \A x \in NewDisks, s \in 0..1 :
               journal'[x][s] = IF x = who /\ s = Record.seq % 2
                                THEN NoRecord ELSE journal[x][s]
  <2> SUFFICES ASSUME epc \in Phases, who < New.n,
                      journal' = [journal EXCEPT ![who][Record.seq % 2] = NoRecord]
               PROVE  \A x \in NewDisks, s \in 0..1 :
                        journal'[x][s] = IF x = who /\ s = Record.seq % 2
                                         THEN NoRecord ELSE journal[x][s]
    BY <1>3
  <2>1. PICK w : w = who
    OBVIOUS
  <2>2. PICK i : i = Record.seq % 2
    OBVIOUS
  <2>3. PICK r : r = NoRecord
    OBVIOUS
  <2>4. w \in NewDisks /\ w \in Disks
    BY <1>0, <2>1, Sizes DEF Shapes, NewDisks
  <2>5. i \in 0..1
    BY <2>2, SlotAtHand
  <2>6. Wrote(w, i, r)
    BY <2>1, <2>2, <2>3 DEF Wrote
  <2>7. \A x \in Disks, s \in 0..1 :
          journal'[x][s] = IF x = w /\ s = i THEN r ELSE journal[x][s]
    BY <1>0, <1>1, <2>4, <2>5, <2>6, SlotWritten
  <2> QED
    BY <1>0, <2>1, <2>2, <2>3, <2>7, Sizes
<1> QED
  BY <1>1, <1>2, <1>9, <1>10

\* A power failure finds the newest record on another slot, or on another member.
LEMMA PowerFailsKeeps ==
  ASSUME NEW M \in 0..Rows, FrontInv(M), Sober, PowerFails
  PROVE  FrontInv(M)'
<1>1. /\ Shapes' /\ faulty' \subseteq faulty /\ UNCHANGED fixed
      /\ epc' = "down" /\ sb' = sb /\ faulty' = sb.faulty
      /\ \/ journal' = journal
         \/ /\ epc \in Phases
            /\ \A x \in NewDisks, s \in 0..1 :
                 journal'[x][s] = IF x = who /\ s = Record.seq % 2
                                  THEN NoRecord ELSE journal[x][s]
  BY TearShapes
<1>2. Shapes
  BY DEF FrontInv
<1>3. sb.state = "old" => Fresh'
  BY <1>1, Fixed DEF FrontInv, Fresh
<1>4. ASSUME sb.state = "reshaping" PROVE Settled(M)'
  <2>1. Settled(M)
    BY <1>4 DEF FrontInv
  <2>2. \A x \in NewDisks, s \in 0..1 : Level(journal'[x][s]) <= M
    <3>1. Level(NoRecord) = 0
      BY Levels DEF Level, NoRecord
    <3>2. \A x \in NewDisks, s \in 0..1 : journal'[x][s] \in {journal[x][s], NoRecord}
      BY <1>1
    <3> QED
      BY <2>1, <3>1, <3>2 DEF Settled
  <2>3. ASSUME M > 0 PROVE \E x \in NewDisks \ faulty', s \in 0..1 : Level(journal'[x][s]) = M
    <3>1. CASE journal' = journal
      BY <1>1, <2>1, <2>3, <3>1 DEF Settled
    <3>2. CASE /\ epc \in Phases
               /\ \A x \in NewDisks, s \in 0..1 :
                    journal'[x][s] = IF x = who /\ s = Record.seq % 2
                                     THEN NoRecord ELSE journal[x][s]
      <4>1. epc \in {"STAGE", "COMMIT", "DONE"}
        BY <1>4, <3>2, PlaceOfThread DEF Phases
      <4>2. PICK L \in 0..M : M = (IF Committed THEN L + 1 ELSE L) /\ Standing(L)
        BY <1>4, <4>1 DEF FrontInv
      <4>3. L \in Nat
        BY <4>2
      <4>4. CASE epc = "DONE"
        <5>1. Few(1, 4 * L + 3, New.n) /\ M = L + 1
          BY <4>2, <4>4 DEF Standing, Committed
        <5>2. PICK x \in NewDisks \ faulty : journal[x][1].seq = 4 * L + 3
          BY <1>2, <5>1, SomeoneHas
        <5>3. Level(journal[x][1]) = M
          BY <4>3, <5>1, <5>2, Levels DEF Level
        <5>4. journal'[x][1] = journal[x][1]
          BY <3>2, <4>4, SlotAtHand
        <5> QED
          BY <1>1, <5>2, <5>3, <5>4
      <4>5. CASE epc = "COMMIT" /\ ~taken
        <5>1. Few(0, 4 * L + 2, New.n) /\ M = L
          BY <4>2, <4>5 DEF Standing, Committed
        <5>2. PICK x \in NewDisks \ faulty : journal[x][0].seq = 4 * L + 2
          BY <1>2, <5>1, SomeoneHas
        <5>3. Level(journal[x][0]) = M
          BY <4>3, <5>1, <5>2, Levels DEF Level
        <5>4. journal'[x][0] = journal[x][0]
          BY <3>2, <4>5, SlotAtHand
        <5> QED
          BY <1>1, <5>2, <5>3, <5>4
      <4>6. CASE epc = "COMMIT" /\ taken
        <5>1. PICK x \in NewDisks \ faulty : x < who /\ journal[x][1].seq = 4 * L + 3
          BY <4>2, <4>6 DEF Standing
        <5>2. M = L + 1
          BY <4>2, <4>6 DEF Committed
        <5>3. Level(journal[x][1]) = M
          BY <4>3, <5>1, <5>2, Levels DEF Level
        <5>4. x # who
          BY <1>2, <5>1, Sizes DEF Shapes
        <5>5. journal'[x][1] = journal[x][1]
          BY <3>2, <5>1, <5>4
        <5> QED
          BY <1>1, <5>1, <5>3, <5>5
      <4>7. CASE epc = "STAGE" /\ crashes = 0
        <5>1. M = L /\ L > 0
          BY <2>3, <4>2, <4>7 DEF Committed
        <5>2. Few(1, 4 * L - 1, New.n)
          BY <4>2, <4>7, <5>1 DEF Standing, Committed
        <5>3. PICK x \in NewDisks \ faulty : journal[x][1].seq = 4 * L - 1
          BY <1>2, <5>2, SomeoneHas
        <5>4. Level(journal[x][1]) = M
          BY <4>3, <5>1, <5>3, Levels DEF Level
        <5>5. journal'[x][1] = journal[x][1]
          BY <3>2, <4>7, SlotAtHand
        <5> QED
          BY <1>1, <5>3, <5>4, <5>5
      <4>8. CASE epc = "STAGE" /\ crashes # 0
        <5>1. Best(faulty)' = Best(sb.faulty)
          BY <4>8 DEF PowerFails, Sober
        <5>2. Level(Best(sb.faulty)) = M
          BY <1>1, <1>2, <2>1, <2>3, NewestOfSettled
        <5>3. (NewDisks \ faulty # {})'
          <6>1. NewDisks \ faulty # {}
            BY <1>2, MemberLeft
          <6> QED
            BY <1>1, <6>1, Fixed
        <5>4. (Best(faulty) \in Readable(faulty))'
          BY <1>1, <5>3, BestNext
        <5>5. PICK x \in NewDisks \ faulty', s \in 0..1 : Best(faulty)' = journal'[x][s]
          BY <1>1, <5>4, Fixed DEF Readable
        <5> QED
          BY <5>1, <5>2, <5>5
      <4> QED
        BY <1>2, <4>1, <4>4, <4>5, <4>6, <4>7, <4>8 DEF Shapes
    <3> QED
      BY <1>1, <3>1, <3>2
  <2> QED
    BY <1>1, <2>2, <2>3, Fixed DEF Settled, Level
<1> QED
  BY <1>1, <1>3, <1>4, Fixed DEF FrontInv

-----------------------------------------------------------------------------
(* The theorem                                                              *)

LEMMA InitFront == Init /\ Sober => FrontInv(0)
<1> SUFFICES ASSUME Init, Sober PROVE FrontInv(0)
  OBVIOUS
<1>1. /\ reshape \in Reshapes /\ recovering = {} /\ epc = "off" /\ who = 0 /\ taken = FALSE
      /\ crashes = 0 /\ faults = 0 /\ faulty = {}
      /\ sb = [state |-> "old", rpos |-> Start, faulty |-> {}]
  BY DEF Init, Sober
<1>2. PICK stale \in {NoRecord, StaleRecord} :
        journal = [x \in Disks |-> [s \in 0..1 |-> IF s = 0 THEN stale ELSE NoRecord]]
  BY DEF Init
<1>3. reshape.faults \in Nat /\ New.n \in Nat
  BY <1>1, ReshapeAssumption DEF New
<1>4. Rows \in Nat /\ Rows > 0
  BY ReshapeAssumption
<1>5. Valid(stale) /\ Valid(NoRecord)
  <2>1. RecordOf(StaleRecord, Rows - 1)
    BY <1>4 DEF RecordOf, StaleRecord, RowAt, LastRow
  <2>2. Rows - 1 \in 0..(Rows - 1)
    BY <1>4
  <2> QED
    BY <2>1, <2>2 DEF Valid
<1>6. Shapes
  <2>1. Cardinality({}) = 0
    BY FS_EmptySet
  <2>2. \A x \in Disks, s \in 0..1 : Valid(journal[x][s])
    BY <1>2, <1>5
  <2>5. epc \in Places /\ epc \notin Phases /\ epc \notin {"down", "replay"}
    BY <1>1 DEF Places, Phases
  <2>6. sb.state = "old" /\ sb.faulty = {}
    BY <1>1
  <2>7. Cardinality(faulty) <= faults
    BY <1>1, <2>1
  <2>8. who \in 0..New.n /\ faults \in 0..reshape.faults /\ crashes \in Nat
    BY <1>1, <1>3
  <2>3. FunctionOn(journal, Disks)
    BY <1>2 DEF FunctionOn
  <2>4. \A x \in Disks : FunctionOn(journal[x], 0..1)
    BY <1>2 DEF FunctionOn
  <2> QED
    BY <1>1, <2>2, <2>3, <2>4, <2>5, <2>6, <2>7, <2>8 DEF Shapes
<1>7. Fresh
  BY <1>1, <1>6, Ends DEF Fresh
<1> QED
  BY <1>1, <1>4, <1>6, <1>7 DEF FrontInv

LEMMA StepFixed ==
  ASSUME [Next]_vars
  PROVE  UNCHANGED fixed
<1>1. CASE UNCHANGED vars
  BY <1>1 DEF vars
<1>2. CASE Sync
  BY <1>2 DEF Sync, JournalTake, JournalSkip, JournalMisses, JournalDone, JournalFails,
     ReadBand, ReadBandFails, WriteUnit, WriteUnitFails, UnitsWritten, EndReshape
<1>3. CASE Recovery
  BY <1>3 DEF Recovery, Assemble, ReplayUnit, ReplayUnitFails, ReplayDone
<1>4. CASE StartReshape \/ WriteSuperblock \/ PowerFails \/ \E c \in Chunks : UserWrite(c)
  BY <1>4 DEF StartReshape, WriteSuperblock, PowerFails, UserWrite
<1> QED
  BY <1>1, <1>2, <1>3, <1>4 DEF Next

LEMMA StutterKeeps ==
  ASSUME NEW M \in 0..Rows, FrontInv(M), UNCHANGED vars
  PROVE  FrontInv(M)'
<1>1. Shapes /\ UNCHANGED <<journal, sb, faulty, crashes, faults, progress, safe, epc, who,
                           taken>> /\ UNCHANGED fixed
  BY DEF vars, disks, thread, frontier, budget, FrontInv
<1>2. OnlyMemory
  BY <1>1, Sizes DEF OnlyMemory, Shapes
<1>3. sb.state = "old" => Fresh'
  BY <1>1, Fixed DEF FrontInv, Fresh
<1>4. ASSUME sb.state = "reshaping", epc' # "down"
      PROVE  \E L \in 0..M : M = (IF Committed' THEN L + 1 ELSE L) /\ Standing(L)'
  <2>1. PICK L \in 0..M : M = (IF Committed THEN L + 1 ELSE L) /\ Standing(L)
    BY <1>1, <1>4 DEF FrontInv
  <2>2. Committed' = Committed
    BY <1>1 DEF Committed
  <2>3. \A s, q, w : Few(s, q, w) => Few(s, q, w)'
    BY <1>1, <1>2, MemoryFew
  <2>4. Standing(L)'
    BY <1>1, <2>1, <2>2, <2>3, Fixed DEF Standing, New
  <2> QED
    BY <2>1, <2>2, <2>4
<1> QED
  BY <1>1, <1>2, <1>3, <1>4, MemoryKeeps DEF FrontInv

LEMMA FrontStep ==
  ASSUME NEW M \in 0..Rows, FrontInv(M), Sober, [Next]_vars
  PROVE  \E N \in M..Rows : FrontInv(N)'
<1>1. M \in M..Rows
  BY ReshapeAssumption
<1>2. CASE WriteSuperblock \/ JournalTake
  BY <1>2, SuperblockAdvances, TakeAdvances
<1>3. CASE UNCHANGED vars
  <2>1. FrontInv(M)'
    BY <1>3, StutterKeeps
  <2> QED
    BY <1>1, <2>1
<1>4. CASE \/ StartReshape \/ JournalSkip \/ JournalMisses \/ JournalDone \/ JournalFails
           \/ ReadBand \/ ReadBandFails \/ WriteUnit \/ WriteUnitFails \/ UnitsWritten
           \/ EndReshape \/ PowerFails \/ Assemble \/ ReplayUnit \/ ReplayUnitFails
           \/ ReplayDone \/ \E c \in Chunks : UserWrite(c)
  <2>1. FrontInv(M)'
    BY <1>4, StartKeeps, PassedKeeps, RecordDoneKeeps, RecordFailsKeeps, ReadBandKeeps,
       ReadBandFailsKeeps, WriteUnitKeeps, UnitFailsKeeps, EndKeeps, PowerFailsKeeps,
       AssembleKeeps, ReplayKeeps, UserKeeps
  <2> QED
    BY <1>1, <2>1
<1> QED
  BY <1>2, <1>3, <1>4 DEF Next, Sync, Recovery

THEOREM FrontierInvHolds == ASSUME Sober PROVE Spec => []FrontierInv
<1>1. Init => FrontierInv
  BY InitFront, ReshapeAssumption DEF FrontierInv
<1>2. FrontierInv /\ [Next]_vars => FrontierInv'
  <2> SUFFICES ASSUME FrontierInv, [Next]_vars PROVE FrontierInv'
    OBVIOUS
  <2>1. PICK M \in 0..Rows : FrontInv(M)
    BY DEF FrontierInv
  <2>2. PICK N \in M..Rows : FrontInv(N)'
    BY <2>1, FrontStep
  <2>3. N \in 0..Rows
    BY ReshapeAssumption
  <2> QED
    BY <2>2, <2>3 DEF FrontierInv
<1> QED
  BY <1>1, <1>2, PTL DEF Spec

LEMMA FrontierNext ==
  ASSUME Sober, NEW CONSTANT N \in 0..Rows
  PROVE  (FrontInv(N) => DurableFrontier = Pos(N))'
<1>1. FrontInv(N) => DurableFrontier = Pos(N)
  BY FrontierOf
<1> QED
  BY <1>1, PTL

\* Once a power failure would find a band committed it always will, whatever fails
\* and however often (raidkm_reshape_jwrite, raidkm_reshape_recover).
THEOREM FrontierStays == ASSUME Sober PROVE Spec => FrontierNeverRetreats
<1> DEFINE Forward == IF Backwards THEN DurableFrontier' <= DurableFrontier
                                   ELSE DurableFrontier' >= DurableFrontier
<1>1. FrontierInv /\ [Next]_vars => Forward
  <2> SUFFICES ASSUME FrontierInv, [Next]_vars PROVE Forward
    OBVIOUS
  <2>1. PICK M \in 0..Rows : FrontInv(M)
    BY DEF FrontierInv
  <2>2. PICK N \in M..Rows : FrontInv(N)'
    BY <2>1, FrontStep
  <2>3. N \in 0..Rows /\ M <= N
    BY ReshapeAssumption
  <2>4. DurableFrontier = Pos(M)
    BY <2>1, FrontierOf
  <2>5. DurableFrontier' = Pos(N)'
    BY <2>2, <2>3, FrontierNext
  <2>6. UNCHANGED fixed
    BY StepFixed
  <2>7. Pos(N)' = Pos(N) /\ Backwards' = Backwards
    BY <2>6, Fixed
  <2>8. IF Backwards THEN Pos(N) <= Pos(M) ELSE Pos(M) <= Pos(N)
    BY <2>1, <2>3, PosOrder DEF FrontInv
  <2>9. Pos(M) \in Nat /\ Pos(N) \in Nat
    BY <2>1, <2>3, PosType DEF FrontInv
  <2> QED
    BY <2>4, <2>5, <2>7, <2>8, <2>9
<1>2. Spec => []FrontierInv
  BY FrontierInvHolds
<1> QED
  BY <1>1, <1>2, PTL DEF Spec, FrontierNeverRetreats

-----------------------------------------------------------------------------
(***************************************************************************)
(* What the members hold during a reshape: a chunk is read back as it was  *)
(* last written, a reshape that was interrupted assembles, and no write    *)
(* in flight is the only copy of a chunk.                                  *)
(*                                                                         *)
(* The part above says where the reshape is: M bands are over for whoever  *)
(* reads the journal.  From here on, the rows of the old geometry from M   *)
(* on are whole (OldSound), those of the new one before M are (NewSound)   *)
(* but for the band a replay will write, and then the scratch area holds   *)
(* that band (ScratchSound).                                               *)
(***************************************************************************)

-----------------------------------------------------------------------------
(* Slots of a row                                                           *)

LEMMA SlotsOfRow ==
  ASSUME NEW g, Sound(g), NEW row \in Int
  PROVE  /\ \A d \in 0..(DataDisks(g) - 1) : DataSlot(g, row, d) \in 0..(g.n - 1)
         /\ \A d, e \in 0..(DataDisks(g) - 1) :
              DataSlot(g, row, d) = DataSlot(g, row, e) => d = e
         /\ \A x \in 0..(g.n - 1) : x \in DataSlots(g, row) \/ x \in ParitySlots(g, row)
         /\ DataSlots(g, row) \cap ParitySlots(g, row) = {}
<1> DEFINE k == DataDisks(g)
<1>1. /\ g.n \in Nat /\ g.n > 0 /\ g.m \in Nat /\ k \in Nat /\ k > 0 /\ k = g.n - g.m
      /\ PdIdx(g, row) \in Int
  BY SoundGeometry, PdIdxType DEF DataDisks
<1> HIDE DEF k
<1> PICK pd \in Int : pd = PdIdx(g, row)
  BY <1>1
<1>2. ASSUME NEW d \in 0..(k - 1) PROVE DataSlot(g, row, d) \in 0..(g.n - 1)
  <2>1. pd + g.m + d \in Int
    BY <1>1
  <2> QED
    BY <1>1, <2>1, Division DEF DataSlot
<1>3. ASSUME NEW d \in 0..(k - 1), NEW e \in 0..(k - 1),
             DataSlot(g, row, d) = DataSlot(g, row, e)
      PROVE  d = e
  <2>1. pd + g.m \in Int /\ d \in 0..(g.n - 1) /\ e \in 0..(g.n - 1)
    BY <1>1
  <2>2. ((pd + g.m) + d) % g.n = ((pd + g.m) + e) % g.n
    BY <1>3 DEF DataSlot
  <2> QED
    BY <1>1, <2>1, <2>2, SlotsDistinct
<1>4. ASSUME NEW x \in 0..(g.n - 1)
      PROVE  x \in DataSlots(g, row) \/ x \in ParitySlots(g, row)
  <2> PICK rel \in 0..(g.n - 1) : (pd + rel) % g.n = x
    BY <1>1, SlotReached
  <2>1. CASE rel < g.m
    <3>1. rel \in 0..(g.m - 1)
      BY <1>1, <2>1
    <3> QED
      BY <3>1 DEF ParitySlots, ParitySlot
  <2>2. CASE ~(rel < g.m)
    <3>1. rel - g.m \in 0..(k - 1) /\ pd + g.m + (rel - g.m) = pd + rel
      BY <1>1, <2>2
    <3>2. DataSlot(g, row, rel - g.m) = x
      BY <3>1 DEF DataSlot
    <3> QED
      BY <3>1, <3>2 DEF DataSlots, k
  <2> QED
    BY <2>1, <2>2
<1>5. ASSUME NEW d \in 0..(k - 1), NEW p \in 0..(g.m - 1)
      PROVE  DataSlot(g, row, d) # ParitySlot(g, row, p)
  <2>1. g.m + d \in 0..(g.n - 1) /\ p \in 0..(g.n - 1) /\ g.m + d # p
    BY <1>1
  <2>2. (pd + (g.m + d)) % g.n # (pd + p) % g.n
    BY <1>1, <2>1, SlotsDistinct
  <2>3. pd + g.m + d = pd + (g.m + d)
    BY <1>1
  <2> QED
    BY <2>2, <2>3 DEF DataSlot, ParitySlot
<1>6. DataSlots(g, row) \cap ParitySlots(g, row) = {}
  BY <1>5 DEF DataSlots, ParitySlots, k
<1> QED
  BY <1>2, <1>3, <1>4, <1>6 DEF k

\* A row's data values.
Vector(g, vals) == FunctionOn(vals, 0..(DataDisks(g) - 1))

LEMMA EncodeData ==
  ASSUME NEW g, Sound(g), NEW row \in Int, NEW vals, Vector(g, vals),
         NEW d \in 0..(DataDisks(g) - 1)
  PROVE  Encode(g, row, vals)[DataSlot(g, row, d)] = Data(vals[d])
<1> DEFINE x == DataSlot(g, row, d)
<1>1. x \in 0..(g.n - 1) /\ x \in DataSlots(g, row)
  BY SlotsOfRow DEF DataSlots
<1>2. DOMAIN vals = 0..(DataDisks(g) - 1)
  BY DEF Vector, FunctionOn
<1>3. \A e \in DOMAIN vals : DataSlot(g, row, e) = x => e = d
  BY <1>2, SlotsOfRow
<1>4. (CHOOSE e \in DOMAIN vals : DataSlot(g, row, e) = x) = d
  BY <1>2, <1>3
<1> QED
  BY <1>1, <1>4 DEF Encode

LEMMA EncodeParity ==
  ASSUME NEW g, NEW row, NEW vals, NEW x \in 0..(g.n - 1), x \notin DataSlots(g, row)
  PROVE  Encode(g, row, vals)[x].of = vals
BY DEF Encode, Par

\* What is left to decode from when at most m slots are missing.
LEMMA FirstOnes ==
  ASSUME NEW n \in Nat, NEW k \in Nat, NEW missing,
         Cardinality((0..(n - 1)) \ missing) >= k
  PROVE  Cardinality({x \in (0..(n - 1)) \ missing :
                        Cardinality({y \in 0..x : y \notin missing}) <= k}) = k
<1> DEFINE T(j) == {y \in 0..(j - 1) : y \notin missing}
           C(j) == Cardinality(T(j))
           From == {x \in (0..(n - 1)) \ missing :
                      Cardinality({y \in 0..x : y \notin missing}) <= k}
<1>1. \A j \in 0..n : IsFiniteSet(T(j)) /\ C(j) \in Nat
  <2> SUFFICES ASSUME NEW j \in 0..n PROVE IsFiniteSet(T(j)) /\ C(j) \in Nat
    OBVIOUS
  <2>1. IsFiniteSet(0..(j - 1))
    BY FS_Interval
  <2>2. T(j) \in SUBSET (0..(j - 1))
    OBVIOUS
  <2>3. IsFiniteSet(T(j))
    BY <2>1, <2>2, FS_Subset
  <2> QED
    BY <2>3, FS_CardinalityType
<1>2. \A i, j \in 0..n : i <= j => C(i) <= C(j)
  <2> SUFFICES ASSUME NEW i \in 0..n, NEW j \in 0..n, i <= j PROVE C(i) <= C(j)
    OBVIOUS
  <2>1. T(i) \in SUBSET T(j)
    OBVIOUS
  <2> QED
    BY <1>1, <2>1, FS_Subset
<1>3. \A j \in 0..(n - 1) : C(j + 1) <= C(j) + 1
  <2> SUFFICES ASSUME NEW j \in 0..(n - 1) PROVE C(j + 1) <= C(j) + 1
    OBVIOUS
  <2>1. j \in 0..n /\ j + 1 \in 0..n
    OBVIOUS
  <2>2. T(j + 1) \in SUBSET (T(j) \cup {j})
    OBVIOUS
  <2>3. IsFiniteSet(T(j))
    BY <1>1, <2>1
  <2>4. /\ IsFiniteSet(T(j) \cup {j})
        /\ Cardinality(T(j) \cup {j}) = IF j \in T(j) THEN C(j) ELSE C(j) + 1
    BY <2>3, FS_AddElement
  <2>5. C(j + 1) <= Cardinality(T(j) \cup {j})
    BY <2>2, <2>4, FS_Subset
  <2>6. C(j) \in Nat /\ C(j + 1) \in Nat
    BY <1>1, <2>1
  <2> QED
    BY <2>4, <2>5, <2>6
<1>4. C(0) = 0
  <2>1. T(0) = {}
    OBVIOUS
  <2> QED
    BY <2>1, FS_EmptySet
<1>5. C(n) >= k
  <2>1. T(n) = (0..(n - 1)) \ missing
    OBVIOUS
  <2> QED
    BY <2>1
<1>6. \A x \in 0..(n - 1) : {y \in 0..x : y \notin missing} = T(x + 1)
  OBVIOUS
<1>7. ASSUME NEW j \in 0..n, C(j) = k, j < n => C(j + 1) > k
      PROVE  Cardinality(From) = k
  <2>1. ASSUME NEW x \in 0..(n - 1), x \notin missing
        PROVE  x \in From <=> x < j
    <3>1. x + 1 \in 0..n
      OBVIOUS
    <3>2. x \in From <=> C(x + 1) <= k
      BY <1>6, <2>1
    <3>3. CASE x < j
      BY <1>1, <1>2, <1>7, <3>1, <3>2, <3>3
    <3>4. CASE ~(x < j)
      <4>1. j < n /\ j + 1 \in 0..n /\ j + 1 <= x + 1
        BY <3>4
      <4>2. C(j + 1) <= C(x + 1) /\ C(j + 1) \in Nat /\ C(x + 1) \in Nat
        BY <1>1, <1>2, <3>1, <4>1
      <4> QED
        BY <1>7, <3>2, <3>4, <4>1, <4>2
    <3> QED
      BY <3>3, <3>4
  <2>2. From = T(j)
    BY <2>1
  <2> QED
    BY <1>7, <2>2
<1> DEFINE B == {j \in 0..n : C(j) > k}
<1> HIDE DEF C, T, From
<1>8. CASE B = {}
  <2>1. n \in 0..n /\ ~(C(n) > k) /\ C(n) \in Nat
    BY <1>1, <1>8
  <2> QED
    BY <1>5, <1>7, <2>1 DEF From
<1>9. CASE B # {}
  <2>1. B \subseteq Nat
    OBVIOUS
  <2>2. PICK b \in B : \A e \in B : ~(<<e, b>> \in OpToRel(<, Nat))
    BY <1>9, <2>1, NatLessThanWellFounded, WFMin
  <2>3. b \in 0..n /\ C(b) > k
    OBVIOUS
  <2>4. \A e \in B : ~(e < b)
    BY <2>1, <2>2 DEF OpToRel
  <2>5. b # 0
    BY <1>4, <2>3
  <2> PICK j \in 0..(n - 1) : j = b - 1
    BY <2>3, <2>5
  <2>6. j \notin B
    BY <2>4
  <2>7. C(j) \in Nat /\ C(j) <= k /\ C(b) \in Nat /\ C(b) <= C(j) + 1
    BY <1>1, <1>3, <2>3, <2>6
  <2> QED
    BY <1>7, <2>3, <2>7 DEF From
<1> QED
  BY <1>8, <1>9

Missing(g, lost) == lost \cap (0..(g.n - 1))

LEMMA SurvivorsCount ==
  ASSUME NEW g, Sound(g), NEW lost, Cardinality(Missing(g, lost)) <= g.m
  PROVE  Cardinality(Survivors(g, lost)) = DataDisks(g)
<1> DEFINE S == 0..(g.n - 1)
<1>1. g.n \in Nat /\ g.n > 0 /\ g.m \in Nat /\ DataDisks(g) \in Nat /\ DataDisks(g) = g.n - g.m
  BY SoundGeometry DEF DataDisks
<1>2. IsFiniteSet(S) /\ Cardinality(S) = g.n
  <2>1. g.n - 1 \in Int /\ ~(0 > g.n - 1) /\ (g.n - 1) - 0 + 1 = g.n
    BY <1>1
  <2> QED
    BY <2>1, FS_Interval
<1>3. /\ IsFiniteSet(S \ lost)
      /\ Cardinality(S \ lost) = Cardinality(S) - Cardinality(S \cap lost)
  BY <1>2, FS_Difference
<1>4. S \cap lost = Missing(g, lost)
  BY DEF Missing
<1>5. IsFiniteSet(Missing(g, lost))
  BY <1>2, FS_Subset DEF Missing
<1>6. Cardinality(Missing(g, lost)) \in Nat
  BY <1>5, FS_CardinalityType
<1> HIDE DEF S
<1>7. Cardinality(S \ lost) >= DataDisks(g)
  <2> PICK c \in Nat : c = Cardinality(Missing(g, lost))
    BY <1>6
  <2>1. Cardinality(S \ lost) = g.n - c /\ c <= g.m
    BY <1>2, <1>3, <1>4
  <2> QED
    BY <1>1, <2>1
<1> QED
  BY <1>1, <1>7, FirstOnes DEF Survivors, S

LEMMA ParityLeft ==
  ASSUME NEW g, Sound(g), NEW row \in Int, NEW lost,
         Cardinality(Survivors(g, lost)) = DataDisks(g),
         NEW d \in 0..(DataDisks(g) - 1), DataSlot(g, row, d) \in lost
  PROVE  Survivors(g, lost) \cap ParitySlots(g, row) # {}
<1> SUFFICES ASSUME Survivors(g, lost) \cap ParitySlots(g, row) = {} PROVE FALSE
  OBVIOUS
<1> DEFINE k == DataDisks(g)
           D == (0..(k - 1)) \ {d}
           f == [e \in D |-> DataSlot(g, row, e)]
           T == {DataSlot(g, row, e) : e \in D}
<1>1. k \in Nat /\ k > 0
  BY SoundGeometry
<1>2. IsFiniteSet(0..(k - 1)) /\ Cardinality(0..(k - 1)) = k
  BY <1>1, FS_Interval
<1>3. IsFiniteSet(D) /\ Cardinality(D) = k - 1
  BY <1>2, FS_RemoveElement
<1>4. f \in Surjection(D, T)
  BY DEF Surjection
<1>5. IsFiniteSet(T) /\ Cardinality(T) <= Cardinality(D)
  BY <1>3, <1>4, FS_Surjection
<1>6. Survivors(g, lost) \in SUBSET T
  <2> SUFFICES ASSUME NEW x \in Survivors(g, lost) PROVE x \in T
    OBVIOUS
  <2>1. x \in 0..(g.n - 1) /\ x \notin lost
    BY DEF Survivors
  <2>2. x \in DataSlots(g, row)
    BY <2>1, SlotsOfRow
  <2>3. PICK e \in 0..(k - 1) : x = DataSlot(g, row, e)
    BY <2>2 DEF DataSlots
  <2>4. e # d
    BY <2>1, <2>3
  <2> QED
    BY <2>3, <2>4
<1>7. Cardinality(Survivors(g, lost)) <= Cardinality(T)
      /\ IsFiniteSet(Survivors(g, lost))
  BY <1>5, <1>6, FS_Subset
<1>8. Cardinality(T) \in Nat
  BY <1>5, FS_CardinalityType
<1> HIDE DEF k, D, f, T
<1>9. Cardinality(Survivors(g, lost)) = k
  BY DEF k
<1> QED
  BY <1>1, <1>3, <1>5, <1>7, <1>8, <1>9

\* raidkm_reshape_reconstruct_band gives a row's data back when no more slots are
\* missing than it has parities.
LEMMA Decodes ==
  ASSUME NEW g, Sound(g), NEW row \in Int, NEW vals, Vector(g, vals), NEW cells,
         NEW lost, Cardinality(Missing(g, lost)) <= g.m,
         \A x \in (0..(g.n - 1)) \ lost : cells[x] = Encode(g, row, vals)[x]
  PROVE  Reconstruct(g, row, cells, lost) = vals
<1> DEFINE from == Survivors(g, lost)
           word == CHOOSE v \in {cells[x].of : x \in from \cap ParitySlots(g, row)} : TRUE
           coherent ==
             /\ Cardinality(from) = DataDisks(g)
             /\ from \cap ParitySlots(g, row) # {}
             /\ DOMAIN word = 0..(DataDisks(g) - 1)
             /\ \A x \in from : cells[x] = Encode(g, row, word)[x]
<1>1. from \subseteq (0..(g.n - 1)) \ lost
  BY DEF Survivors
<1>2. Cardinality(from) = DataDisks(g)
  BY SurvivorsCount
<1>3. ASSUME NEW d \in 0..(DataDisks(g) - 1), DataSlot(g, row, d) \in lost
      PROVE  coherent /\ word = vals
  <2>1. from \cap ParitySlots(g, row) # {}
    BY <1>2, <1>3, ParityLeft
  <2>2. ASSUME NEW x \in from \cap ParitySlots(g, row) PROVE cells[x].of = vals
    <3>1. x \in 0..(g.n - 1) /\ x \notin lost
      BY <1>1
    <3>2. x \notin DataSlots(g, row)
      BY SlotsOfRow
    <3> QED
      BY <3>1, <3>2, EncodeParity
  <2>3. {cells[x].of : x \in from \cap ParitySlots(g, row)} = {vals}
    BY <2>1, <2>2
  <2>4. word = vals
    BY <2>3
  <2>5. DOMAIN vals = 0..(DataDisks(g) - 1)
    BY DEF Vector, FunctionOn
  <2>6. \A x \in from : cells[x] = Encode(g, row, vals)[x]
    BY <1>1
  <2> QED
    BY <1>2, <2>1, <2>4, <2>5, <2>6
<1>4. ASSUME NEW d \in 0..(DataDisks(g) - 1), DataSlot(g, row, d) \notin lost
      PROVE  ValueOf(cells[DataSlot(g, row, d)]) = vals[d]
  <2>1. cells[DataSlot(g, row, d)] = Data(vals[d])
    BY <1>4, SlotsOfRow, EncodeData
  <2> QED
    BY <2>1 DEF ValueOf, Data
<1>5. Reconstruct(g, row, cells, lost)
        = [d \in 0..(DataDisks(g) - 1) |->
             IF DataSlot(g, row, d) \notin lost
             THEN ValueOf(cells[DataSlot(g, row, d)])
             ELSE IF coherent THEN word[d] ELSE Garbage]
  BY DEF Reconstruct
<1> HIDE DEF from, word, coherent
<1>6. Reconstruct(g, row, cells, lost) = [d \in 0..(DataDisks(g) - 1) |-> vals[d]]
  BY <1>3, <1>4, <1>5
<1> QED
  BY <1>6 DEF Vector, FunctionOn


-----------------------------------------------------------------------------
(* The invariant                                                            *)

\* What the environment keeps to: faults are marked before power fails, a row under
\* replay is not written before the next record, no more members fail than either
\* geometry tolerates, and two of them are left.
Careful ==
  /\ Sober /\ ~FaultLag /\ ~WritesAfterReplay
  /\ \A r \in Reshapes : /\ r.faults <= r.old.m /\ r.faults <= r.new.m
                         /\ r.faults + 1 < r.new.n

Good == NewDisks \ faulty
Cell(x, row) == home[[disk |-> x, row |-> row]]

\* A chunk's value: as written, as before the reshape beyond a smaller array, zero in
\* a larger one.
Content(c) == IF c \in Chunks THEN mem[c] ELSE IF Backwards THEN c ELSE Zero

\* A row of the new geometry, as data and as its members hold it.
Word(row) == [d \in 0..(KNew - 1) |-> Content(row * KNew + d)]
Pages(row) == Encode(New, row, Word(row))

Holds(g, row, vals) ==
  \A x \in (0..(g.n - 1)) \ faulty : Cell(x, row) = Encode(g, row, vals)[x]

\* A row of the old geometry is whole, and current where the walk has not been.
OldKept(row, pos) ==
  \E vals :
    /\ Vector(Old, vals)
    /\ Holds(Old, row, vals)
    /\ \A d \in 0..(KOld - 1) :
         Ahead(row * KOld + d, pos) => vals[d] = Content(row * KOld + d)

OldFrom(M) == IF epc = "COMMIT" /\ taken THEN M - 1 ELSE M
OldSound(M) == \A row \in RowSet : Turn(row) >= OldFrom(M) => OldKept(row, Pos(OldFrom(M)))

\* The newest record is the COMMIT of band M - 1.
Replayable(M) ==
  /\ sb.state = "reshaping" /\ M > 0
  /\ \A x \in Good, s \in 0..1 : journal[x][s].seq <= 4 * M - 1

\* Member x may not have band M - 1 yet; the scratch area does.
Hot(x, M) ==
  \/ epc = "down" /\ Replayable(M)
  \/ epc = "COMMIT" /\ taken
  \/ epc \in {"home", "replay"} /\ x >= who

NewSound(M) ==
  \A row \in RowSet : Turn(row) < M =>
    \A x \in Good : (Turn(row) = M - 1 /\ Hot(x, M)) \/ Cell(x, row) = Pages(row)[x]

Staged(row, seq) ==
  \A x \in Good :
    /\ scratch[x] = Pages(row)[x]
    /\ \A s \in 0..1 : journal[x][s].seq = seq
                        => journal[x][s].csum = BandCsum(Pages(row), row)

ScratchSound(M) ==
  /\ Committed \/ Replayable(M) => Staged(RowAt(M - 1), 4 * M - 1)
  /\ epc = "scratch" => \A x \in Good : x < who => scratch[x] = band[x]
  /\ epc = "COMMIT" => \A x \in Good : scratch[x] = band[x]

BandSound == epc \in Moving \cup {"replay"} => band = Pages(ClaimedRow)

\* Members that do not hold the DONE of band M - 1 nor what came after.
Behind(M) == {x \in NewDisks : x \in faulty \/ journal[x][0].seq < 4 * M}

Marks(M) ==
  /\ epc \in {"home", "replay"} \/ (epc = "COMMIT" /\ taken) => Replayable(M)
  /\ epc = "DONE" => Few(0, 4 * M, who)
  /\ sb.state = "reshaping" /\ ~Committed /\ crashes = 0 /\ M > 0
       => Cardinality(Behind(M)) <= faults
  /\ epc = "down" => who = 0
  /\ epc = "finished" => M = Rows
  /\ epc # "refused"

Stores == FunctionOn(mem, Chunks) /\ FunctionOn(home, Cells) /\ FunctionOn(scratch, Disks)

ContentInv(M) ==
  /\ Stores /\ OldSound(M) /\ NewSound(M) /\ ScratchSound(M) /\ BandSound /\ Marks(M)

Inv(M) == FrontInv(M) /\ ContentInv(M)

-----------------------------------------------------------------------------
(* Geometry and numbers                                                     *)

LEMMA Base ==
  ASSUME Shapes, Careful
  PROVE  /\ Sound(Old) /\ Sound(New)
         /\ Size \in Nat
         /\ Size <= Rows * KOld /\ Size <= Rows * KNew
         /\ ~Backwards => Size = Rows * KOld
         /\ Backwards => Size = Rows * KNew
         /\ reshape.faults <= Old.m /\ reshape.faults <= New.m /\ reshape.faults + 1 < New.n
<1> DEFINE r == reshape
<1>1. r \in Reshapes
  BY DEF Shapes
<1>2. {r.old, r.new} \subseteq [n : Nat, m : Nat \ {0}, rot : BOOLEAN]
      /\ r.old.m < r.old.n /\ r.new.m < r.new.n
  BY <1>1, ReshapeAssumption
<1>3. Sound(Old) /\ Sound(New)
  BY <1>2 DEF Sound, Old, New
<1>4. reshape.faults <= Old.m /\ reshape.faults <= New.m /\ reshape.faults + 1 < New.n
  BY <1>1 DEF Careful, Old, New
<1>5. PICK a \in Nat, b \in Nat : a = KOld /\ b = KNew
  BY Sizes
<1>6. /\ Rows \in Nat /\ (a <= b => Rows * a <= Rows * b) /\ (b <= a => Rows * b <= Rows * a)
      /\ Rows * a \in Nat /\ Rows * b \in Nat
  <2>1. \A x, y \in Nat : x <= y => \A z \in Nat : z * x <= z * y
    OBVIOUS
  <2> QED
    BY <1>5, <2>1, Sizes
<1>7. Size = Rows * (IF a <= b THEN a ELSE b)
  BY <1>5 DEF Size, Min2
<1>8. (Backwards => b <= a) /\ (~Backwards => a <= b)
  BY <1>5, Sizes
<1> QED
  BY <1>3, <1>4, <1>5, <1>6, <1>7, <1>8

\* The members that failed are few enough to decode any row.
LEMMA FewMissing ==
  ASSUME Shapes, Careful, NEW lost, lost \subseteq Disks,
         Cardinality(lost) <= reshape.faults \/ Cardinality(lost) <= Tolerated
  PROVE  /\ Cardinality(Missing(Old, lost)) <= Old.m
         /\ Cardinality(Missing(New, lost)) <= New.m
<1>1. IsFiniteSet(lost)
  BY Sizes, FS_Subset
<1>2. /\ Missing(Old, lost) \in SUBSET lost
      /\ Missing(New, lost) \in SUBSET lost
  BY DEF Missing
<1>3. /\ IsFiniteSet(Missing(Old, lost)) /\ Cardinality(Missing(Old, lost)) <= Cardinality(lost)
      /\ IsFiniteSet(Missing(New, lost)) /\ Cardinality(Missing(New, lost)) <= Cardinality(lost)
  BY <1>1, <1>2, FS_Subset
<1>4. /\ Cardinality(lost) \in Nat /\ Cardinality(Missing(Old, lost)) \in Nat
      /\ Cardinality(Missing(New, lost)) \in Nat
  BY <1>1, <1>3, FS_CardinalityType
<1>5. Old.m \in Nat /\ New.m \in Nat /\ reshape.faults \in Nat
  BY Base, SoundGeometry, Sizes
<1>6. Cardinality(lost) <= Old.m /\ Cardinality(lost) <= New.m
  BY <1>4, <1>5, Base DEF Tolerated, Min2
<1> QED
  BY <1>3, <1>4, <1>5, <1>6

LEMMA FaultyFew ==
  ASSUME Shapes, Careful
  PROVE  /\ Cardinality(Missing(Old, faulty)) <= Old.m
         /\ Cardinality(Missing(New, faulty)) <= New.m
<1>1. IsFiniteSet(faulty) /\ Cardinality(faulty) \in Nat /\ faults \in 0..reshape.faults
      /\ reshape.faults \in Nat /\ Cardinality(faulty) <= faults /\ faulty \subseteq Disks
  BY MemberLeft, Sizes DEF Shapes, Careful
<1>2. Cardinality(faulty) <= reshape.faults
  BY <1>1
<1> QED
  BY <1>1, <1>2, FewMissing

LEMMA VectorOf ==
  ASSUME NEW g, Sound(g), NEW row \in Int, NEW vals, Vector(g, vals), Holds(g, row, vals),
         NEW lost, faulty \subseteq lost, Cardinality(Missing(g, lost)) <= g.m
  PROVE  Reconstruct(g, row, RowCells(g, row), lost) = vals
<1> DEFINE cells == RowCells(g, row)
<1>1. \A x \in (0..(g.n - 1)) \ lost : cells[x] = Encode(g, row, vals)[x]
  BY DEF Holds, RowCells, Cell
<1> HIDE DEF cells
<1>2. Reconstruct(g, row, cells, lost) = vals
  BY <1>1, Decodes
<1> QED
  BY <1>2 DEF cells

LEMMA VectorOld ==
  ASSUME Shapes, Careful, NEW row \in RowSet, NEW vals, Vector(Old, vals), Holds(Old, row, vals),
         NEW lost, faulty \subseteq lost, Cardinality(Missing(Old, lost)) <= Old.m
  PROVE  Reconstruct(Old, row, RowCells(Old, row), lost) = vals
<1>1. row \in Int /\ Sound(Old)
  BY Sizes, Base DEF RowSet
<1> QED
  BY <1>1, VectorOf

LEMMA WordVector ==
  ASSUME NEW row
  PROVE  Vector(New, Word(row))
BY DEF Vector, FunctionOn, Word, KNew

LEMMA VectorNew ==
  ASSUME Shapes, Careful, NEW row \in RowSet, Holds(New, row, Word(row)),
         NEW lost, faulty \subseteq lost, Cardinality(Missing(New, lost)) <= New.m
  PROVE  Reconstruct(New, row, RowCells(New, row), lost) = Word(row)
<1>1. row \in Int /\ Sound(New) /\ Vector(New, Word(row))
  BY Sizes, Base, WordVector DEF RowSet
<1> QED
  BY <1>1, VectorOf

\* Band number T is a row of the new geometry, and no other row's.
LEMMA TurnRow ==
  ASSUME Shapes, NEW row \in RowSet
  PROVE  Turn(row) \in 0..(Rows - 1) /\ RowAt(Turn(row)) = row
BY Sizes DEF Turn, RowAt, RowSet

\* Chunks of a row of the new geometry are ahead of a frontier together.
LEMMA NewRowAhead ==
  ASSUME Shapes, NEW row \in RowSet, NEW L \in 0..Rows, NEW c \in Nat, c \div KNew = row
  PROVE  Ahead(c, Pos(L)) <=> Turn(row) >= L
<1>1. KNew \in Nat /\ KNew > 0 /\ Rows \in Nat /\ row \in 0..(Rows - 1)
  BY Sizes DEF RowSet
<1>2. c < L * KNew <=> row < L
  BY <1>1, RowBefore
<1>3. Rows - L \in Int /\ (c < (Rows - L) * KNew <=> row < Rows - L)
  BY <1>1, RowBefore
<1>4. CASE Backwards
  BY <1>1, <1>3, <1>4 DEF Ahead, Pos, Turn
<1>5. CASE ~Backwards
  <2>1. Ahead(c, Pos(L)) <=> c >= L * KNew
    BY <1>5 DEF Ahead, Pos
  <2>2. c >= L * KNew <=> ~(c < L * KNew)
    <3> PICK z \in Int : z = L * KNew
      BY <1>1
    <3> QED
      OBVIOUS
  <2>3. Turn(row) = row
    BY <1>5 DEF Turn
  <2> QED
    BY <1>1, <1>2, <2>1, <2>2, <2>3
<1> QED
  BY <1>4, <1>5

\* A chunk that is ahead is in a row of the old geometry that is.
LEMMA OldRowAhead ==
  ASSUME Shapes, NEW row \in RowSet, NEW L \in 0..Rows, NEW c \in Nat, c \div KOld = row,
         Ahead(c, Pos(L))
  PROVE  Turn(row) >= L
<1>1. /\ KNew \in Nat /\ KNew > 0 /\ KOld \in Nat /\ KOld > 0 /\ Rows \in Nat
      /\ row \in 0..(Rows - 1)
  BY Sizes DEF RowSet
<1>2. \A x, y \in Nat : x <= y => \A z \in Nat : z * x <= z * y
  OBVIOUS
<1>3. CASE Backwards
  <2>1. Rows - L \in Nat /\ (Rows - L) * KNew <= (Rows - L) * KOld
    BY <1>1, <1>2, <1>3, Sizes
  <2>2. c < (Rows - L) * KNew
    BY <1>3 DEF Ahead, Pos
  <2>3. c < (Rows - L) * KOld
    <3> PICK a \in Int, b \in Int : a = (Rows - L) * KNew /\ b = (Rows - L) * KOld
      BY <1>1, <2>1
    <3> QED
      BY <2>1, <2>2
  <2>4. row < Rows - L
    BY <1>1, <2>1, <2>3, RowBefore
  <2> QED
    BY <1>1, <1>3, <2>4 DEF Turn
<1>4. CASE ~Backwards
  <2>1. L * KOld <= L * KNew
    BY <1>1, <1>2, <1>4, Sizes
  <2>2. c >= L * KNew
    BY <1>4 DEF Ahead, Pos
  <2>3. ~(c < L * KOld)
    <3> PICK a \in Int, b \in Int : a = L * KNew /\ b = L * KOld
      BY <1>1
    <3> QED
      BY <2>1, <2>2
  <2>4. ~(row < L)
    BY <1>1, <2>3, RowBefore
  <2> QED
    BY <1>1, <1>4, <2>4 DEF Turn
<1> QED
  BY <1>3, <1>4

\* What is ahead of a frontier is ahead of one before it.
LEMMA AheadOfBoth ==
  ASSUME Shapes, NEW L \in 0..Rows, NEW P \in 0..Rows, L <= P, NEW c \in Nat, Ahead(c, Pos(P))
  PROVE  Ahead(c, Pos(L))
<1>1. Pos(L) \in Nat /\ Pos(P) \in Nat
  BY PosType
<1> QED
  BY <1>1, PosOrder, Sizes DEF Ahead

\* The rows a chunk is in.
LEMMA RowsOf ==
  ASSUME Shapes, Careful, NEW c \in Chunks
  PROVE  /\ c \in Nat
         /\ c \div KOld \in RowSet /\ c % KOld \in 0..(KOld - 1)
         /\ c = (c \div KOld) * KOld + (c % KOld)
         /\ c \div KNew \in RowSet /\ c % KNew \in 0..(KNew - 1)
         /\ c = (c \div KNew) * KNew + (c % KNew)
<1>1. /\ KNew \in Nat /\ KNew > 0 /\ KOld \in Nat /\ KOld > 0 /\ Rows \in Nat
  BY Sizes
<1>2. c \in Nat /\ c < Size /\ Size \in Nat
  BY Base DEF Chunks
<1>3. ASSUME NEW k \in Nat, k > 0, Size <= Rows * k
      PROVE  c \div k \in RowSet /\ c % k \in 0..(k - 1) /\ c = (c \div k) * k + (c % k)
  <2>1. c \div k \in Int /\ c % k \in 0..(k - 1) /\ c = k * (c \div k) + (c % k)
    <3>1. c \in Int /\ k > 0
      BY <1>2, <1>3
    <3> HIDE <1>3
    <3> QED
      BY <3>1, Division
  <2>2. c < Rows * k
    BY <1>1, <1>2, <1>3
  <2>3. c \div k < Rows
    BY <1>1, <1>2, <1>3, <2>2, RowBefore
  <2>4. ~(c < 0 * k)
    BY <1>2, <1>3
  <2>5. ~(c \div k < 0)
    BY <1>2, <1>3, <2>4, RowBefore
  <2>6. k * (c \div k) = (c \div k) * k
    BY <2>1
  <2> QED
    BY <1>1, <2>1, <2>3, <2>5, <2>6 DEF RowSet
<1> QED
  BY <1>1, <1>2, <1>3, Base

\* The chunk at a place of a row.
LEMMA ChunkAt ==
  ASSUME Shapes, NEW row \in RowSet
  PROVE  /\ \A d \in 0..(KOld - 1) : /\ row * KOld + d \in Nat
                                     /\ (row * KOld + d) \div KOld = row
                                     /\ (row * KOld + d) % KOld = d
         /\ \A d \in 0..(KNew - 1) : /\ row * KNew + d \in Nat
                                     /\ (row * KNew + d) \div KNew = row
                                     /\ (row * KNew + d) % KNew = d
<1>1. /\ KNew \in Nat /\ KNew > 0 /\ KOld \in Nat /\ KOld > 0 /\ row \in Nat
  BY Sizes DEF RowSet
<1>2. ASSUME NEW k \in Nat, k > 0, NEW d \in 0..(k - 1)
      PROVE  row * k + d \in Nat /\ (row * k + d) \div k = row /\ (row * k + d) % k = d
  BY <1>1, <1>2, RowOf
<1> QED
  BY <1>1, <1>2


-----------------------------------------------------------------------------
(* What a step leaves as it was                                             *)

LEMMA FixedMore ==
  ASSUME UNCHANGED fixed
  PROVE  /\ Old' = Old /\ New' = New /\ KOld' = KOld /\ KNew' = KNew
         /\ Backwards' = Backwards /\ Chunks' = Chunks /\ Cells' = Cells
         /\ Disks' = Disks /\ NewDisks' = NewDisks
         /\ \A row : Turn(row)' = Turn(row)
         /\ \A L : RowAt(L)' = RowAt(L) /\ Pos(L)' = Pos(L)
         /\ \A c, pos : Ahead(c, pos)' = Ahead(c, pos)
         /\ \A vals : Vector(Old, vals)' = Vector(Old, vals)
<1>1. reshape' = reshape
  BY DEF fixed
<1>2. Old' = Old /\ New' = New
  BY <1>1 DEF Old, New
<1>3. KOld' = KOld /\ KNew' = KNew /\ Backwards' = Backwards
  BY <1>2 DEF KOld, KNew, Backwards
<1>4. Chunks' = Chunks /\ Disks' = Disks /\ NewDisks' = NewDisks
  BY <1>2, <1>3 DEF Chunks, Size, Disks, NewDisks
<1> QED
  BY <1>2, <1>3, <1>4 DEF Cells, Turn, RowAt, Pos, Ahead, Vector

LEMMA MemStays ==
  ASSUME UNCHANGED mem, UNCHANGED fixed
  PROVE  /\ \A c : Content(c)' = Content(c)
         /\ \A row : Word(row)' = Word(row) /\ Pages(row)' = Pages(row)
<1>1. \A c : Content(c)' = Content(c)
  BY FixedMore DEF Content
<1>2. \A row : Word(row)' = Word(row)
  BY <1>1, FixedMore DEF Word
<1> QED
  BY <1>1, <1>2, FixedMore DEF Pages

\* The content of one row of the new geometry.
LEMMA PagesStay ==
  ASSUME UNCHANGED fixed, NEW row,
         \A d \in 0..(KNew - 1) : Content(row * KNew + d)' = Content(row * KNew + d)
  PROVE  Word(row)' = Word(row) /\ Pages(row)' = Pages(row)
<1>1. Word(row)' = Word(row)
  BY FixedMore DEF Word
<1> QED
  BY <1>1, FixedMore DEF Pages

LEMMA OldKeptStays ==
  ASSUME Shapes, UNCHANGED fixed, faulty \subseteq faulty', NEW row \in RowSet, NEW pos,
         OldKept(row, pos),
         \A x \in Disks \ faulty' : Cell(x, row)' = Cell(x, row),
         \A d \in 0..(KOld - 1) : Ahead(row * KOld + d, pos)
           => Content(row * KOld + d)' = Content(row * KOld + d)
  PROVE  OldKept(row, pos)'
<1> PICK vals : /\ Vector(Old, vals)
                /\ Holds(Old, row, vals)
                /\ \A d \in 0..(KOld - 1) :
                     Ahead(row * KOld + d, pos) => vals[d] = Content(row * KOld + d)
  BY DEF OldKept
<1>1. Vector(Old, vals)'
  BY FixedMore
<1>2. Holds(Old, row, vals)'
  <2>1. 0..(Old.n - 1) \subseteq Disks
    BY Sizes DEF Disks, Backwards, KOld, KNew
  <2>2. ASSUME NEW x \in (0..(Old.n - 1)) \ faulty'
        PROVE  Cell(x, row)' = Encode(Old, row, vals)[x]
    BY <2>1 DEF Holds
  <2> QED
    BY <2>2, FixedMore DEF Holds
<1>3. \A d \in 0..(KOld - 1) :
        Ahead(row * KOld + d, pos)' => vals[d] = Content(row * KOld + d)'
  BY FixedMore
<1> QED
  BY <1>1, <1>2, <1>3, FixedMore DEF OldKept

\* A row is whole for a frontier that is farther.
LEMMA OldKeptFarther ==
  ASSUME Shapes, NEW row \in RowSet, NEW L \in 0..Rows, NEW P \in 0..Rows, L <= P,
         OldKept(row, Pos(L))
  PROVE  OldKept(row, Pos(P))
<1>1. \A d \in 0..(KOld - 1) : Ahead(row * KOld + d, Pos(P)) => Ahead(row * KOld + d, Pos(L))
  BY ChunkAt, AheadOfBoth
<1> QED
  BY <1>1 DEF OldKept

LEMMA BandStays ==
  ASSUME BandSound, epc \in Moving \cup {"replay"}, UNCHANGED <<band, progress, mem>>,
         UNCHANGED fixed
  PROVE  BandSound'
<1>1. ClaimedRow' = ClaimedRow
  BY FixedMore DEF ClaimedRow, BandOf
<1>2. Pages(ClaimedRow)' = Pages(ClaimedRow)
  BY <1>1, MemStays, FixedMore DEF Pages, Word
<1> QED
  BY <1>2 DEF BandSound

\* A step that moves nothing but the thread.
ThreadStep ==
  UNCHANGED <<home, scratch, journal, mem, faulty>> /\ UNCHANGED fixed

LEMMA OldFromIn ==
  ASSUME NEW M \in 0..Rows, FrontInv(M), ContentInv(M)
  PROVE  OldFrom(M) \in 0..M
<1>1. epc = "COMMIT" /\ taken => M > 0
  BY DEF ContentInv, Marks, Replayable
<1> QED
  BY <1>1, Sizes DEF OldFrom, FrontInv

LEMMA ThreadKeeps ==
  ASSUME NEW M \in 0..Rows, FrontInv(M), ContentInv(M), ThreadStep,
         epc' = "COMMIT" /\ taken' => epc = "COMMIT" /\ taken,
         \A x \in Good : Hot(x, M) => Hot(x, M)',
         Committed' => Committed,
         Replayable(M)' => Committed \/ Replayable(M),
         epc' = "scratch" => who' = 0 \/ (epc = "scratch" /\ who' = who /\ band' = band),
         epc' = "COMMIT" => band' = band /\ (epc = "COMMIT" \/ (epc = "scratch" /\ who = New.n)),
         BandSound', Marks(M)'
  PROVE  ContentInv(M)'
<1>1. Shapes /\ UNCHANGED fixed /\ OldFrom(M) \in 0..M /\ M \in 0..Rows
  BY OldFromIn DEF FrontInv, ThreadStep
<1>2. Stores'
  BY FixedMore DEF ThreadStep, Stores, ContentInv, FunctionOn
<1>3. Good' = Good /\ \A x, row : Cell(x, row)' = Cell(x, row)
  BY <1>1, FixedMore DEF ThreadStep, Good, Cell
<1>4. OldSound(M)'
  <2> PICK F : F = OldFrom(M)
    OBVIOUS
  <2> PICK E : E = OldFrom(M)'
    OBVIOUS
  <2>1. F \in 0..M /\ E \in F..M
    BY <1>1 DEF OldFrom
  <2>2. ASSUME NEW row \in RowSet, Turn(row) >= E PROVE OldKept(row, Pos(E))'
    <3>1. Turn(row) >= F
      BY <1>1, <2>1, <2>2, TurnRow
    <3>2. OldKept(row, Pos(F))
      BY <3>1 DEF ContentInv, OldSound
    <3>3. OldKept(row, Pos(E))
      BY <1>1, <2>1, <3>2, OldKeptFarther, Sizes
    <3>4. \A d \in 0..(KOld - 1) : Content(row * KOld + d)' = Content(row * KOld + d)
      <4>1. KOld' = KOld /\ \A c : Content(c)' = Content(c)
        BY <1>1, MemStays, FixedMore DEF ThreadStep
      <4> QED
        BY <4>1
    <3> QED
      BY <1>1, <1>3, <3>3, <3>4, OldKeptStays, FixedMore DEF ThreadStep
  <2> QED
    BY <1>1, <2>2, FixedMore DEF OldSound
<1>5. NewSound(M)'
  <2>1. \A row : Pages(row)' = Pages(row) /\ Turn(row)' = Turn(row)
    BY MemStays, FixedMore DEF ThreadStep
  <2>2. NewSound(M)
    BY DEF ContentInv
  <2> QED
    BY <1>3, <2>1, <2>2 DEF NewSound
<1>6. ScratchSound(M)'
  <2>1. Committed' \/ Replayable(M)' => Staged(RowAt(M - 1), 4 * M - 1)
    BY DEF ContentInv, ScratchSound
  <2>2. Staged(RowAt(M - 1), 4 * M - 1) => Staged(RowAt(M - 1), 4 * M - 1)'
    <3>1. \A row : Pages(row)' = Pages(row)
      BY MemStays DEF ThreadStep
    <3>2. RowAt(M - 1)' = RowAt(M - 1) /\ New' = New /\ KNew' = KNew
      BY <1>1, FixedMore
    <3> QED
      BY <1>3, <3>1, <3>2 DEF Staged, ThreadStep, BandCsum
  <2>3. epc' = "scratch" => \A x \in Good' : x < who' => scratch'[x] = band'[x]
    <3>1. CASE who' = 0
      BY <1>1, <1>3, <3>1, Sizes DEF Good, NewDisks
    <3>2. CASE epc = "scratch" /\ who' = who /\ band' = band
      BY <1>3, <3>2 DEF ThreadStep, ContentInv, ScratchSound
    <3> QED
      BY <3>1, <3>2
  <2>4. epc' = "COMMIT" => \A x \in Good' : scratch'[x] = band'[x]
    <3>1. \A x \in Good : x < New.n
      BY <1>1, Sizes DEF Good, NewDisks
    <3> QED
      BY <1>3, <3>1 DEF ThreadStep, ContentInv, ScratchSound
  <2> QED
    BY <2>1, <2>2, <2>3, <2>4 DEF ScratchSound
<1> QED
  BY <1>2, <1>4, <1>5, <1>6 DEF ContentInv


-----------------------------------------------------------------------------
(* Steps of the thread                                                      *)

LEMMA JournalStill ==
  ASSUME UNCHANGED <<journal, faulty>>, UNCHANGED fixed, NEW M
  PROVE  /\ Behind(M)' = Behind(M)
         /\ sb' = sb => (Replayable(M)' <=> Replayable(M))
         /\ Good' = Good
<1>1. Good' = Good
  BY FixedMore DEF Good
<1> QED
  BY <1>1, FixedMore DEF Behind, Replayable

\* A state of the thread in which no band is under way.
Idle == {"off", "INIT0", "INIT1", "ready", "parked"}

LEMMA IdleMarks ==
  ASSUME NEW M \in 0..Rows, FrontInv(M), ContentInv(M), ThreadStep, sb' = sb,
         epc' \in Idle, faults' \in Nat, faults <= faults', crashes' = crashes,
         ~Committed \/ crashes > 0
  PROVE  Marks(M)'
<1>1. Behind(M)' = Behind(M)
  BY JournalStill DEF ThreadStep
<1>2. sb.state = "reshaping" /\ crashes = 0 /\ M > 0 => Cardinality(Behind(M)) <= faults
  BY DEF ContentInv, Marks
<1>3. ASSUME sb.state = "reshaping", crashes = 0, M > 0
      PROVE  Cardinality(Behind(M)) <= faults'
  <2>1. Behind(M) \in SUBSET NewDisks /\ IsFiniteSet(NewDisks)
    BY Sizes DEF Behind, FrontInv
  <2>2. IsFiniteSet(Behind(M))
    BY <2>1, FS_Subset
  <2>3. Cardinality(Behind(M)) \in Nat /\ faults \in Nat
    BY <2>2, FS_CardinalityType, Sizes DEF FrontInv, Shapes
  <2> QED
    BY <1>2, <1>3, <2>3
<1> QED
  BY <1>1, <1>3 DEF Marks, Idle, Committed

LEMMA StartContent ==
  ASSUME NEW M \in 0..Rows, FrontInv(M), Careful, ContentInv(M), StartReshape
  PROVE  ContentInv(M)'
<1>1. /\ epc = "off" /\ epc' = "INIT0" /\ who' = 0 /\ ~taken' /\ sb' = sb /\ crashes' = crashes
      /\ faults' = faults /\ ThreadStep
  BY DEF StartReshape, disks, budget, ThreadStep
<1>2. ~Committed /\ ~Committed' /\ \A x : ~Hot(x, M)
  BY <1>1 DEF Committed, Hot
<1>3. Replayable(M)' <=> Replayable(M)
  BY <1>1, JournalStill DEF ThreadStep
<1>4. BandSound'
  BY <1>1 DEF BandSound, Moving
<1>5. Marks(M)'
  <2>1. faults \in Nat
    BY Sizes DEF FrontInv, Shapes
  <2> QED
    BY <1>1, <1>2, <2>1, IdleMarks DEF Idle
<1> QED
  BY <1>1, <1>2, <1>3, <1>4, <1>5, ThreadKeeps

LEMMA FailsContent ==
  ASSUME NEW M \in 0..Rows, FrontInv(M), Careful, ContentInv(M), JournalFails
  PROVE  ContentInv(M)'
<1>1. /\ epc \in {"STAGE", "COMMIT"} /\ ~taken /\ epc' = "ready" /\ who' = 0 /\ ~taken' /\ sb' = sb
      /\ crashes' = crashes /\ faults' = faults /\ ThreadStep
  BY DEF JournalFails, disks, ThreadStep, Careful, Sober, FrontInv, Shapes, Phases
<1>2. ~Committed /\ ~Committed' /\ \A x : ~Hot(x, M)
  BY <1>1 DEF Committed, Hot
<1>3. Replayable(M)' <=> Replayable(M)
  BY <1>1, JournalStill DEF ThreadStep
<1>4. BandSound'
  BY <1>1 DEF BandSound, Moving
<1>5. Marks(M)'
  <2>1. faults \in Nat
    BY Sizes DEF FrontInv, Shapes
  <2> QED
    BY <1>1, <1>2, <2>1, IdleMarks DEF Idle
<1> QED
  BY <1>1, <1>2, <1>3, <1>4, <1>5, ThreadKeeps

LEMMA ParkContent ==
  ASSUME NEW M \in 0..Rows, FrontInv(M), Careful, ContentInv(M), ReadBandFails
  PROVE  ContentInv(M)'
<1>1. /\ epc = "ready" /\ epc' = "parked" /\ who' = who /\ sb' = sb
      /\ crashes' = crashes /\ faults' = faults /\ ThreadStep
  BY DEF ReadBandFails, disks, ThreadStep, budget
<1>2. ~Committed /\ ~Committed' /\ \A x : ~Hot(x, M)
  BY <1>1 DEF Committed, Hot
<1>3. Replayable(M)' <=> Replayable(M)
  BY <1>1, JournalStill DEF ThreadStep
<1>4. BandSound'
  BY <1>1 DEF BandSound, Moving
<1>5. Marks(M)'
  <2>1. faults \in Nat
    BY Sizes DEF FrontInv, Shapes
  <2> QED
    BY <1>1, <1>2, <2>1, IdleMarks DEF Idle
<1> QED
  BY <1>1, <1>2, <1>3, <1>4, <1>5, ThreadKeeps

LEMMA EndContent ==
  ASSUME NEW M \in 0..Rows, FrontInv(M), Careful, ContentInv(M), EndReshape
  PROVE  ContentInv(M)'
<1>1. /\ epc = "ready" /\ epc' = "finished" /\ who' = who /\ sb' = sb /\ ~BandsLeft
      /\ crashes' = crashes /\ faults' = faults /\ ThreadStep
  BY DEF EndReshape, disks, ThreadStep, budget
<1>2. ~Committed /\ ~Committed' /\ \A x : ~Hot(x, M)
  BY <1>1 DEF Committed, Hot
<1>3. Replayable(M)' <=> Replayable(M)
  BY <1>1, JournalStill DEF ThreadStep
<1>4. BandSound'
  BY <1>1 DEF BandSound, Moving
<1>5. M = Rows
  <2>1. safe = Pos(M)
    BY <1>1, <1>2 DEF FrontInv, Fresh, Standing, Shapes
  <2>2. Rows \in Nat
    BY Sizes DEF FrontInv
  <2> QED
    BY <1>1, <2>1, <2>2, WalkEnds DEF FrontInv
<1>6. Marks(M)'
  <2>1. Behind(M)' = Behind(M)
    BY <1>1, JournalStill DEF ThreadStep
  <2>2. sb.state = "reshaping" /\ crashes = 0 /\ M > 0 => Cardinality(Behind(M)) <= faults
    BY <1>2 DEF ContentInv, Marks
  <2> QED
    BY <1>1, <1>5, <2>1, <2>2 DEF Marks, Committed
<1> QED
  BY <1>1, <1>2, <1>3, <1>4, <1>6, ThreadKeeps


\* Where the thread is, when a band is under way.
LEMMA ThreadAt ==
  ASSUME NEW M \in 0..Rows, FrontInv(M), epc \in Moving
  PROVE  /\ sb.state = "reshaping"
         /\ \E L \in 0..(Rows - 1) :
              /\ Standing(L) /\ M = (IF Committed THEN L + 1 ELSE L)
              /\ ClaimedRow = RowAt(L) /\ progress = Pos(L + 1)
<1>1. sb.state = "reshaping" /\ epc # "down" /\ Shapes
  BY PlaceOfThread DEF Moving, Resting, FrontInv
<1>2. PICK L \in 0..M : M = (IF Committed THEN L + 1 ELSE L) /\ Standing(L)
  BY <1>1 DEF FrontInv
<1>3. L \in 0..(Rows - 1) /\ progress = Pos(L + 1)
  BY <1>1, <1>2, Sizes DEF Standing
<1>4. ClaimedRow = RowAt(L)
  BY <1>1, <1>3, BandAt DEF ClaimedRow
<1> QED
  BY <1>1, <1>2, <1>3, <1>4

\* A staged band is not taken for the one before: the record of its STAGE stays.
LEMMA StagedNotReplayable ==
  ASSUME NEW M \in 0..Rows, FrontInv(M), Careful, epc \in {"scratch", "COMMIT"}, ~Committed
  PROVE  ~Replayable(M)
<1>1. epc \in Moving /\ Shapes /\ Sober
  BY DEF Moving, FrontInv, Careful
<1>2. PICK L \in 0..(Rows - 1) : Standing(L) /\ M = L
  BY <1>1, ThreadAt
<1>3. Few(0, 4 * L + 2, New.n)
  BY <1>2 DEF Standing
<1>4. PICK x \in NewDisks \ faulty : journal[x][0].seq = 4 * L + 2
  BY <1>1, <1>3, SomeoneHas
<1> QED
  BY <1>2, <1>4 DEF Replayable, Good

LEMMA PassContent ==
  ASSUME NEW M \in 0..Rows, FrontInv(M), Careful, ContentInv(M), JournalSkip \/ JournalMisses
  PROVE  ContentInv(M)'
<1>1. /\ epc \in Phases /\ epc' = epc /\ who' = who + 1 /\ who < New.n /\ sb' = sb
      /\ taken' = taken /\ crashes' = crashes /\ ThreadStep /\ band' = band /\ progress' = progress
  BY DEF JournalSkip, JournalMisses, disks, ThreadStep, budget, frontier
<1>2. \/ faults' = faults /\ who \in faulty
      \/ faults' = faults + 1
  BY DEF JournalSkip, JournalMisses, Eligible, budget, FrontInv, Shapes
<1>3. Committed' = Committed /\ \A x : Hot(x, M) => Hot(x, M)'
  BY <1>1 DEF Committed, Hot, Phases
<1>4. (Replayable(M)' <=> Replayable(M)) /\ Behind(M)' = Behind(M)
  BY <1>1, JournalStill DEF ThreadStep
<1>5. BandSound'
  <2>1. CASE epc \in Moving
    BY <1>1, <2>1, BandStays DEF ContentInv, ThreadStep
  <2>2. CASE epc \notin Moving
    BY <1>1, <2>2 DEF BandSound, Phases
  <2> QED
    BY <2>1, <2>2
<1>6. Shapes /\ faults \in Nat /\ who \in Nat
  BY Sizes DEF FrontInv, Shapes
<1> PICK w : w = who + 1
  OBVIOUS
<1>7. Marks(M)'
  <2>1. Behind(M) \in SUBSET NewDisks /\ IsFiniteSet(NewDisks)
    BY <1>6, Sizes DEF Behind
  <2>2. IsFiniteSet(Behind(M))
    BY <2>1, FS_Subset
  <2>3. Cardinality(Behind(M)) \in Nat
    BY <2>2, FS_CardinalityType
  <2>4. sb'.state = "reshaping" /\ ~Committed' /\ crashes' = 0 /\ M > 0
          => Cardinality(Behind(M)) <= faults'
    <3>1. sb.state = "reshaping" /\ ~Committed /\ crashes = 0 /\ M > 0
            => Cardinality(Behind(M)) <= faults
      BY DEF ContentInv, Marks
    <3> QED
      BY <1>1, <1>2, <1>3, <1>6, <2>3, <3>1
  <2>5. epc = "DONE" => Few(0, 4 * M, w)'
    <3> SUFFICES ASSUME epc = "DONE" PROVE Cardinality(Without(0, 4 * M, w)') <= faults'
      BY <1>1 DEF Few
    <3>1. Few(0, 4 * M, who)
      BY DEF ContentInv, Marks
    <3>2. Without(0, 4 * M, w)' \subseteq Without(0, 4 * M, who) \cup {who}
      BY <1>1, <1>6, FixedMore DEF Without, NewDisks, ThreadStep
    <3>3. CASE faults' = faults /\ who \in faulty
      <4>1. Without(0, 4 * M, w)' \subseteq Without(0, 4 * M, who)
        BY <1>1, <1>6, <3>2, <3>3, FixedMore DEF Without, NewDisks, ThreadStep
      <4> QED
        BY <1>6, <3>1, <3>3, <4>1, FewLess
    <3>4. CASE faults' = faults + 1
      BY <1>6, <3>1, <3>2, <3>4, FewMore
    <3> QED
      BY <1>2, <3>3, <3>4
  <2>6. epc' \in {"home", "replay"} \/ (epc' = "COMMIT" /\ taken') => Replayable(M)'
    BY <1>1, <1>4 DEF ContentInv, Marks
  <2>7. epc' \notin {"down", "finished", "refused"}
    BY <1>1 DEF Phases
  <2>8. epc' = "DONE" => Few(0, 4 * M, who)'
    BY <1>1, <2>5 DEF Few, Without
  <2> QED
    BY <1>4, <2>4, <2>6, <2>7, <2>8 DEF Marks
<1>8. epc' # "scratch"
  BY <1>1 DEF Phases
<1> QED
  BY <1>1, <1>3, <1>4, <1>5, <1>7, <1>8, ThreadKeeps


LEMMA MarksMove ==
  ASSUME NEW M, ThreadStep, UNCHANGED <<sb, crashes, faults>>,
         epc' \in {"home", "replay"} \/ (epc' = "COMMIT" /\ taken') => Replayable(M),
         epc' = "DONE" => Few(0, 4 * M, who)',
         sb.state = "reshaping" /\ ~Committed' /\ crashes = 0 /\ M > 0
           => Cardinality(Behind(M)) <= faults,
         epc' \notin {"down", "finished", "refused"}
  PROVE  Marks(M)'
<1>1. (Replayable(M)' <=> Replayable(M)) /\ Behind(M)' = Behind(M)
  BY JournalStill DEF ThreadStep
<1> QED
  BY <1>1 DEF Marks

LEMMA UnitsWrittenContent ==
  ASSUME NEW M \in 0..Rows, FrontInv(M), Careful, ContentInv(M), UnitsWritten
  PROVE  ContentInv(M)'
<1>1. /\ epc \in {"scratch", "home"} /\ who = New.n /\ sb' = sb /\ who' = 0 /\ taken' = FALSE
      /\ epc' = (IF epc = "scratch" THEN "COMMIT" ELSE "DONE")
      /\ crashes' = crashes /\ faults' = faults /\ ThreadStep /\ band' = band
      /\ progress' = progress
  BY DEF UnitsWritten, disks, ThreadStep, budget, frontier
<1>2. Shapes /\ \A x \in Good : x < New.n
  BY Sizes DEF FrontInv, Good, NewDisks
<1>3. (Committed' <=> Committed) /\ \A x \in Good : ~Hot(x, M)
  BY <1>1, <1>2, Sizes DEF Committed, Hot, Good, NewDisks
<1>4. Replayable(M)' <=> Replayable(M)
  BY <1>1, JournalStill DEF ThreadStep
<1>5. BandSound'
  BY <1>1, BandStays DEF Moving, ContentInv, ThreadStep
<1>6. epc' = "DONE" => Few(0, 4 * M, who)'
  <2>1. Without(0, 4 * M, 0)' \subseteq faulty
    BY <1>1, <1>2, FixedMore, Sizes DEF Without, NewDisks, ThreadStep
  <2>2. IsFiniteSet(faulty) /\ Cardinality(faulty) <= faults /\ faults \in Nat
    BY <1>2, MemberLeft, Sizes DEF Careful, Shapes
  <2>3. /\ IsFiniteSet(Without(0, 4 * M, 0)')
        /\ Cardinality(Without(0, 4 * M, 0)') <= Cardinality(faulty)
    BY <2>1, <2>2, FS_Subset
  <2>4. Cardinality(Without(0, 4 * M, 0)') \in Nat /\ Cardinality(faulty) \in Nat
    BY <2>2, <2>3, FS_CardinalityType
  <2>5. Cardinality(Without(0, 4 * M, 0)') <= faults'
    BY <1>1, <2>2, <2>3, <2>4
  <2> QED
    BY <1>1, <2>5 DEF Few, Without
<1>7. Marks(M)'
  <2>1. sb.state = "reshaping" /\ ~Committed' /\ crashes = 0 /\ M > 0
          => Cardinality(Behind(M)) <= faults
    BY <1>3 DEF ContentInv, Marks
  <2> QED
    BY <1>1, <1>6, <2>1, MarksMove
<1> QED
  BY <1>1, <1>3, <1>4, <1>5, <1>7, ThreadKeeps

LEMMA RecordDoneContent ==
  ASSUME NEW M \in 0..Rows, FrontInv(M), Careful, ContentInv(M), JournalDone
  PROVE  ContentInv(M)'
<1>1. /\ epc \in Phases /\ who = New.n /\ taken /\ sb' = sb /\ who' = 0 /\ taken' = FALSE
      /\ epc' = AfterRecord /\ crashes' = crashes /\ faults' = faults /\ ThreadStep
      /\ progress' = progress /\ (epc # "DONE" => band' = band)
  BY DEF JournalDone, disks, ThreadStep, budget, frontier
<1>2. \/ epc = "INIT0" /\ epc' = "INIT1"
      \/ epc \in {"INIT1", "DONE"} /\ epc' = "ready"
      \/ epc = "STAGE" /\ epc' = "scratch"
      \/ epc = "COMMIT" /\ epc' = "home"
  BY <1>1 DEF AfterRecord, Phases
<1>3. Shapes
  BY DEF FrontInv
<1>4. \A x \in Good : Hot(x, M) => Hot(x, M)'
  BY <1>1, <1>2, <1>3, Sizes DEF Hot, Good, NewDisks
<1>5. Committed' => Committed
  BY <1>1, <1>2 DEF Committed
<1>6. Replayable(M)' <=> Replayable(M)
  BY <1>1, JournalStill DEF ThreadStep
<1>7. BandSound'
  <2>1. CASE epc \in {"STAGE", "COMMIT"}
    BY <1>1, <2>1, BandStays DEF Moving, ContentInv, ThreadStep
  <2>2. CASE epc \notin {"STAGE", "COMMIT"}
    BY <1>2, <2>2 DEF BandSound, Moving
  <2> QED
    BY <2>1, <2>2
<1>8. Marks(M)'
  <2>1. sb.state = "reshaping" /\ ~Committed' /\ crashes = 0 /\ M > 0
          => Cardinality(Behind(M)) <= faults
    <3>1. CASE ~Committed
      BY <3>1 DEF ContentInv, Marks
    <3>2. CASE epc = "DONE"
      <4>1. Few(0, 4 * M, New.n)
        BY <1>1, <3>2 DEF ContentInv, Marks
      <4>2. Behind(M) \subseteq Without(0, 4 * M, New.n)
        BY <1>3, Sizes DEF Behind, Without, NewDisks
      <4> QED
        BY <1>3, <4>1, <4>2, FewLess
    <3>3. CASE epc \in {"COMMIT", "home"}
      BY <1>1, <1>2, <3>3 DEF Committed
    <3> QED
      BY <3>1, <3>2, <3>3 DEF Committed
  <2>2. epc' = "home" => Replayable(M)
    BY <1>1, <1>2 DEF ContentInv, Marks
  <2> QED
    BY <1>1, <1>2, <2>1, <2>2, MarksMove
<1> QED
  BY <1>1, <1>2, <1>4, <1>5, <1>6, <1>7, <1>8, ThreadKeeps

LEMMA SuperblockContent ==
  ASSUME NEW M \in 0..Rows, FrontInv(M), Careful, ContentInv(M), WriteSuperblock,
         NEW N \in M..Rows, FrontInv(N)'
  PROVE  N = M /\ ContentInv(M)'
<1>1. /\ UNCHANGED <<epc, who, taken, band, progress, safe, crashes, faults>> /\ ThreadStep
      /\ epc \notin {"down", "refused", "replay", "off", "INIT0", "INIT1"}
      /\ sb'.state = (IF epc = "finished" THEN "new" ELSE "reshaping")
  BY DEF WriteSuperblock, Running, thread, frontier, budget, ThreadStep
<1>2. Shapes /\ Committed' = Committed
  BY <1>1 DEF FrontInv, Committed
<1>3. N = M
  <2>1. CASE epc = "finished"
    <3>1. M = Rows
      BY <2>1 DEF ContentInv, Marks
    <3> QED
      BY <1>2, <3>1, Sizes
  <2>2. CASE epc # "finished"
    <3>1. PICK R \in 0..N : N = (IF Committed' THEN R + 1 ELSE R) /\ Standing(R)'
      BY <1>1, <2>2 DEF FrontInv
    <3>2. R \in 0..Rows /\ safe = Pos(R)
      BY <1>1, <1>2, <3>1, FixedMore, Sizes DEF Standing, ThreadStep
    <3>3. PICK L \in 0..Rows : M = (IF Committed THEN L + 1 ELSE L) /\ safe = Pos(L)
      <4>1. CASE sb.state = "old"
        BY <1>1, <4>1, <1>2, Sizes DEF FrontInv, Fresh, Committed
      <4>2. CASE sb.state = "reshaping"
        BY <1>1, <4>2, <1>2, Sizes DEF FrontInv, Standing
      <4> QED
        BY <1>1, <1>2, <2>2, <4>1, <4>2 DEF FrontInv, Shapes
    <3>4. L = R
      BY <1>2, <3>2, <3>3, PosOrder
    <3> QED
      BY <1>2, <3>1, <3>3, <3>4
  <2> QED
    BY <2>1, <2>2
<1>4. \A x : Hot(x, M) => Hot(x, M)'
  BY <1>1 DEF Hot
<1>5. Replayable(M)' => Replayable(M)
  <2>1. sb.state = "old" => M = 0
    BY DEF FrontInv
  <2>2. sb.state = "new" => sb'.state = "new"
    BY <1>1 DEF FrontInv
  <2>3. Replayable(M)' => sb.state = "reshaping"
    BY <1>2, <2>1, <2>2 DEF Replayable, Shapes
  <2> QED
    BY <1>1, <2>3, FixedMore DEF Replayable, Good, ThreadStep
<1>6. BandSound'
  <2>1. CASE epc \in Moving
    BY <1>1, <2>1, BandStays DEF ContentInv, ThreadStep
  <2>2. CASE epc \notin Moving
    BY <1>1, <2>2 DEF BandSound
  <2> QED
    BY <2>1, <2>2
<1>7. Marks(M)'
  <2>1. Behind(M)' = Behind(M)
    BY <1>1, JournalStill DEF ThreadStep
  <2>2. sb'.state = "reshaping" /\ M > 0 => sb.state = "reshaping"
    BY <1>1, <1>2 DEF FrontInv, Shapes
  <2>3. sb'.state = "reshaping" /\ ~Committed' /\ crashes' = 0 /\ M > 0
          => Cardinality(Behind(M)) <= faults
    BY <1>1, <1>2, <2>2 DEF ContentInv, Marks
  <2>4. epc \in {"home"} \/ (epc = "COMMIT" /\ taken) => Replayable(M)'
    <3> SUFFICES ASSUME epc \in {"home"} \/ (epc = "COMMIT" /\ taken) PROVE Replayable(M)'
      OBVIOUS
    <3>1. Replayable(M) /\ sb'.state = "reshaping"
      BY <1>1 DEF ContentInv, Marks
    <3> QED
      BY <1>1, <3>1, FixedMore DEF Replayable, Good, ThreadStep
  <2>5. epc = "DONE" => Few(0, 4 * M, who)'
    <3>1. epc = "DONE" => Few(0, 4 * M, who)
      BY DEF ContentInv, Marks
    <3> QED
      BY <1>1, <3>1, FixedMore DEF Few, Without, ThreadStep
  <2>6. epc = "finished" => M = Rows
    BY DEF ContentInv, Marks
  <2> QED
    BY <1>1, <2>1, <2>3, <2>4, <2>5, <2>6 DEF Marks
<1> QED
  BY <1>1, <1>2, <1>3, <1>4, <1>5, <1>6, <1>7, ThreadKeeps


-----------------------------------------------------------------------------
(* Assembly and replay                                                      *)

LEMMA CommitRecord ==
  ASSUME Shapes, NEW r, Valid(r), NEW M \in 1..Rows
  PROVE  r.phase = "COMMIT" /\ Level(r) = M
           <=> Level(r) = M /\ r.seq <= 4 * M - 1
<1>1. Rows \in Nat
  BY Sizes
<1>2. CASE r = NoRecord
  <2>1. r.phase # "COMMIT" /\ r.seq = -1
    BY <1>2 DEF NoRecord
  <2>2. Level(r) = 0
    BY <2>1, Levels DEF Level
  <2> QED
    BY <2>1, <2>2
<1>3. CASE r.phase = "IDLE" /\ r.seq \in {0, 1}
  <2>1. Level(r) = 0
    BY <1>3, Levels DEF Level
  <2> QED
    BY <1>3, <2>1
<1>4. ASSUME NEW T \in 0..(Rows - 1), RecordOf(r, T)
      PROVE  r.phase = "COMMIT" /\ Level(r) = M
               <=> Level(r) = M /\ r.seq <= 4 * M - 1
  <2>1. CASE r.phase = "STAGE" /\ r.seq = 4 * T + 2
    <3>1. Level(r) = T
      BY <2>1, Levels DEF Level
    <3> QED
      BY <2>1, <3>1
  <2>2. CASE r.phase = "COMMIT" /\ r.seq = 4 * T + 3
    <3>1. Level(r) = T + 1
      BY <2>2, Levels DEF Level
    <3> QED
      BY <2>2, <3>1
  <2>3. CASE r.phase = "DONE" /\ r.seq = 4 * T + 4
    <3>1. Level(r) = T + 1
      BY <2>3, Levels DEF Level
    <3> QED
      BY <2>3, <3>1
  <2> QED
    BY <1>4, <2>1, <2>2, <2>3 DEF RecordOf
<1> QED
  BY <1>2, <1>3, <1>4 DEF Valid

LEMMA CommitOf ==
  ASSUME Shapes, NEW r, Valid(r), NEW M \in 1..Rows, Level(r) = M, r.phase = "COMMIT"
  PROVE  r.seq = 4 * M - 1 /\ r.row = RowAt(M - 1)
<1>1. PICK T \in 0..(Rows - 1) : RecordOf(r, T)
  BY DEF Valid, NoRecord
<1>2. r.seq = 4 * T + 3 /\ r.row = RowAt(T)
  BY <1>1 DEF RecordOf
<1>3. Level(r) = T + 1
  BY <1>2, Levels DEF Level
<1> QED
  BY <1>2, <1>3

LEMMA CommitLevel ==
  ASSUME NEW r, Valid(r), r.phase = "COMMIT"
  PROVE  Level(r) # 0
<1>1. PICK T \in 0..(Rows - 1) : RecordOf(r, T)
  BY DEF Valid, NoRecord
<1>2. Level(r) = T + 1
  BY <1>1, Levels DEF RecordOf, Level
<1> QED
  BY <1>2

\* The journal calls for a replay exactly when its newest record is a COMMIT.
LEMMA NewestIs ==
  ASSUME NEW M \in 0..Rows, FrontInv(M), Careful, sb.state = "reshaping"
  PROVE  /\ Best(faulty) \in Readable(faulty)
         /\ Best(faulty).phase = "COMMIT" <=> Replayable(M)
         /\ Replayable(M) => /\ M \in 1..Rows
                             /\ Best(faulty).seq = 4 * M - 1
                             /\ Best(faulty).row = RowAt(M - 1)
<1>1. Shapes /\ Sober /\ Settled(M) /\ Rows \in Nat
  BY Sizes DEF FrontInv, Careful
<1> PICK b : b = Best(faulty)
  OBVIOUS
<1>2. b \in Readable(faulty) /\ \A q \in Readable(faulty) : q.seq <= b.seq
  BY <1>1, MemberLeft, BestIsNewest
<1>3. PICK y \in Good, t \in 0..1 : b = journal[y][t]
  BY <1>2 DEF Readable, Good
<1>4. Valid(b) /\ Level(b) <= M /\ Level(b) \in 0..Rows
  <2>1. y \in Disks /\ y \in NewDisks
    BY <1>1, Sizes DEF Good
  <2>2. Valid(b)
    BY <1>1, <1>3, <2>1 DEF Shapes
  <2> QED
    BY <1>1, <1>3, <2>1, <2>2, ValidRecord DEF Settled
<1>5. CASE M = 0
  <2>1. b.phase # "COMMIT"
    BY <1>4, <1>5, CommitLevel
  <2> QED
    BY <1>2, <1>5, <2>1 DEF Replayable
<1>6. CASE M # 0
  <2>1. M \in 1..Rows /\ M > 0
    BY <1>1, <1>6
  <2>2. Level(b) = M
    BY <1>1, <2>1, NewestOfSettled
  <2>3. b.phase = "COMMIT" <=> b.seq <= 4 * M - 1
    BY <1>1, <1>4, <2>1, <2>2, CommitRecord
  <2>4. b.seq <= 4 * M - 1 => Replayable(M)
    <3> SUFFICES ASSUME b.seq <= 4 * M - 1, NEW x \in Good, NEW s \in 0..1
                 PROVE  journal[x][s].seq <= 4 * M - 1
      BY <2>1 DEF Replayable
    <3>1. journal[x][s] \in Readable(faulty)
      BY DEF Good, Readable
    <3>2. x \in Disks
      BY <1>1, Sizes DEF Good
    <3>3. journal[x][s].seq \in Int /\ b.seq \in Int
      BY <1>1, <1>4, <3>2, ValidRecord DEF Shapes
    <3> QED
      BY <1>2, <3>1, <3>3
  <2>5. Replayable(M) => b.seq <= 4 * M - 1
    BY <1>3 DEF Replayable
  <2>6. Replayable(M) => b.seq = 4 * M - 1 /\ b.row = RowAt(M - 1)
    BY <1>1, <1>4, <2>1, <2>2, <2>3, <2>5, CommitOf
  <2> QED
    BY <1>2, <2>1, <2>3, <2>4, <2>5, <2>6
<1> QED
  BY <1>5, <1>6

\* raidkm_reshape_replay_commit takes the band from the scratch area, whoever is lost.
LEMMA ReplayGives ==
  ASSUME Shapes, Careful, NEW M \in 1..Rows, Staged(RowAt(M - 1), 4 * M - 1),
         NEW lost, faulty \subseteq lost, Cardinality(Missing(New, lost)) <= New.m,
         NEW b \in Readable(lost), b.seq = 4 * M - 1, b.row = RowAt(M - 1)
  PROVE  /\ ReplayPages(b.row, lost) = Pages(RowAt(M - 1))
         /\ ReplayOk(b, lost)
<1> DEFINE row == RowAt(M - 1)
           missing == lost \cap NewDisks
           cells == [x \in NewDisks |-> scratch[x]]
<1>1. missing = Missing(New, lost) /\ Missing(New, missing) = missing
      /\ NewDisks = 0..(New.n - 1)
  BY DEF Missing, NewDisks
<1>2. \A x \in NewDisks \ lost : scratch[x] = Pages(row)[x]
  BY DEF Staged, Good
<1>3. row \in RowSet
  <2>1. M - 1 \in 0..(Rows - 1)
    BY Sizes
  <2> QED
    BY <2>1, BandAt
<1>4. ReplayPages(row, lost) = Pages(row)
  <2>1. CASE missing = {}
    <3>1. ReplayPages(row, lost) = cells
      BY <2>1 DEF ReplayPages
    <3>2. Pages(row) = [x \in NewDisks |-> Pages(row)[x]]
      BY DEF Pages, Encode, NewDisks
    <3>3. \A x \in NewDisks : cells[x] = Pages(row)[x]
      BY <1>2, <2>1
    <3> QED
      BY <3>1, <3>2, <3>3
  <2>2. CASE missing # {}
    <3>1. ReplayPages(row, lost) = Encode(New, row, Reconstruct(New, row, cells, missing))
      BY <2>2 DEF ReplayPages
    <3>2. \A x \in (0..(New.n - 1)) \ missing : cells[x] = Encode(New, row, Word(row))[x]
      BY <1>1, <1>2 DEF Pages
    <3>3. Sound(New) /\ row \in Int /\ Vector(New, Word(row))
      BY <1>3, Base, WordVector, Sizes DEF RowSet
    <3>4. Reconstruct(New, row, cells, missing) = Word(row)
      <4>1. Cardinality(Missing(New, missing)) <= New.m
        BY <1>1
      <4> HIDE DEF cells, missing, row
      <4>2. Vector(New, Word(row)) /\ Sound(New) /\ row \in Int
        BY <3>3
      <4> QED
        BY <3>2, <4>1, <4>2, Decodes
    <3> QED
      BY <3>1, <3>4 DEF Pages
  <2> QED
    BY <2>1, <2>2
<1>5. BandCsum(Pages(row), row) = b.csum
  <2>1. PICK x \in NewDisks \ lost, s \in 0..1 : b = journal[x][s]
    BY DEF Readable
  <2> QED
    BY <2>1 DEF Staged, Good
<1> QED
  BY <1>1, <1>4, <1>5 DEF ReplayOk


LEMMA StaysReplayable ==
  ASSUME ThreadStep, sb' = sb, NEW M
  PROVE  Replayable(M)' <=> Replayable(M)
BY JournalStill DEF ThreadStep

LEMMA AssembleContent ==
  ASSUME NEW M \in 0..Rows, FrontInv(M), Careful, ContentInv(M), Assemble
  PROVE  ContentInv(M)'
<1>1. /\ epc = "down" /\ who' = who /\ taken' = taken /\ sb' = sb /\ crashes' = crashes
      /\ faults' = faults
      /\ ThreadStep
  BY DEF Assemble, disks, ThreadStep, budget
<1>2. Shapes /\ who = 0 /\ crashes > 0 /\ ~Committed /\ crashes \in Nat
  <2>1. Shapes /\ who = 0
    BY <1>1 DEF FrontInv, ContentInv, Marks
  <2> QED
    BY <1>1, <2>1 DEF Shapes, Committed
<1>3. Replayable(M)' <=> Replayable(M)
  BY <1>1, StaysReplayable
<1> PICK b : b = Best(faulty)
  OBVIOUS
<1>4. CASE sb.state # "reshaping"
  <2>1. epc' = (IF sb.state = "old" THEN "off" ELSE "finished")
    BY <1>4 DEF Assemble
  <2>2. epc' \in {"off", "finished"} /\ ~Replayable(M)
    BY <1>4, <2>1 DEF Replayable
  <2>3. \A x : ~Hot(x, M)
    BY <1>1, <2>2 DEF Hot
  <2>4. ~Committed' /\ BandSound'
    BY <2>2 DEF Committed, BandSound, Moving
  <2>5. epc' = "finished" => M = Rows
    BY <1>2, <1>4, <2>1 DEF FrontInv, Shapes
  <2>6. Marks(M)'
    BY <1>1, <1>2, <1>4, <2>2, <2>5 DEF Marks
  <2> QED
    BY <1>1, <1>3, <2>2, <2>3, <2>4, <2>6, ThreadKeeps
<1>5. CASE sb.state = "reshaping" /\ b.phase # "COMMIT"
  <2>1. epc' = "ready"
    BY <1>5 DEF Assemble
  <2>2. ~Replayable(M)
    BY <1>5, NewestIs
  <2>3. \A x : ~Hot(x, M)
    BY <1>1, <2>2 DEF Hot
  <2>4. ~Committed' /\ BandSound'
    BY <2>1 DEF Committed, BandSound, Moving
  <2>5. Marks(M)'
    BY <1>1, <1>2, <2>1 DEF Marks
  <2> QED
    BY <1>1, <1>3, <2>1, <2>3, <2>4, <2>5, ThreadKeeps
<1>6. CASE sb.state = "reshaping" /\ b.phase = "COMMIT"
  <2>1. /\ b \in Readable(faulty) /\ Replayable(M) /\ M \in 1..Rows
        /\ b.seq = 4 * M - 1 /\ b.row = RowAt(M - 1)
    BY <1>6, NewestIs
  <2>2. Staged(RowAt(M - 1), 4 * M - 1)
    BY <2>1 DEF ContentInv, ScratchSound
  <2>3. /\ ReplayPages(b.row, faulty) = Pages(RowAt(M - 1))
        /\ ReplayOk(b, faulty)
    BY <1>2, <2>1, <2>2, ReplayGives, FaultyFew
  <2>4. epc' = "replay" /\ band' = ReplayPages(b.row, faulty) /\ progress' = JournalFrontier(b)
    BY <1>6, <2>3 DEF Assemble
  <2>5. BandSound'
    <3>1. M - 1 \in 0..(Rows - 1) /\ (M - 1) + 1 = M
      BY <1>2, <2>1, Sizes
    <3>2. After(b.row) = Pos(M) /\ BandOf(Pos(M)) = RowAt(M - 1)
      BY <1>2, <2>1, <3>1, BandAt
    <3>3. progress' = Pos(M)
      BY <1>6, <2>4, <3>2 DEF JournalFrontier
    <3>4. ClaimedRow' = BandOf(progress')
      BY <1>1, FixedMore DEF ClaimedRow, BandOf, ThreadStep
    <3>5. ClaimedRow' = RowAt(M - 1)
      BY <3>2, <3>3, <3>4
    <3> PICK row : row = RowAt(M - 1)
      OBVIOUS
    <3>6. Pages(row)' = Pages(row) /\ Pages(ClaimedRow)' = Pages(row)'
      BY <1>1, <3>5, MemStays DEF Pages, Word, ThreadStep
    <3> QED
      BY <2>3, <2>4, <3>6 DEF BandSound
  <2>6. \A x \in Good : Hot(x, M) => Hot(x, M)'
    BY <1>1, <1>2, <2>4, Sizes DEF Hot, Good, NewDisks
  <2>7. ~Committed'
    BY <2>4 DEF Committed
  <2>8. Marks(M)'
    BY <1>1, <1>2, <1>3, <2>1, <2>4 DEF Marks
  <2> QED
    BY <1>1, <1>3, <2>4, <2>5, <2>6, <2>7, <2>8, ThreadKeeps
<1> QED
  BY <1>4, <1>5, <1>6

LEMMA ReplayEndsContent ==
  ASSUME NEW M \in 0..Rows, FrontInv(M), Careful, ContentInv(M), ReplayUnitFails \/ ReplayDone
  PROVE  ContentInv(M)'
<1>1. /\ epc = "replay" /\ who' = 0 /\ taken' = taken /\ sb' = sb /\ crashes' = crashes /\ ThreadStep
      /\ epc' = "down" \/ (epc' = "ready" /\ who = New.n)
  BY DEF ReplayUnitFails, ReplayDone, disks, ThreadStep, budget, frontier
<1>2. Shapes /\ crashes > 0 /\ ~Committed /\ crashes \in Nat
  BY <1>1 DEF Shapes, Committed, FrontInv
<1>3. (Replayable(M)' <=> Replayable(M)) /\ Replayable(M)
  BY <1>1, StaysReplayable DEF ContentInv, Marks
<1>4. \A x \in Good : Hot(x, M) => Hot(x, M)'
  BY <1>1, <1>2, <1>3, Sizes DEF Hot, Good, NewDisks
<1>5. ~Committed' /\ BandSound'
  BY <1>1 DEF Committed, BandSound, Moving
<1>6. Marks(M)'
  BY <1>1, <1>2 DEF Marks
<1> QED
  BY <1>1, <1>3, <1>4, <1>5, <1>6, ThreadKeeps

LEMMA StutterContent ==
  ASSUME NEW M \in 0..Rows, FrontInv(M), ContentInv(M), UNCHANGED vars
  PROVE  ContentInv(M)'
<1>1. /\ UNCHANGED <<epc, who, taken, band, progress, sb, crashes, faults, home, scratch, journal,
                     mem, faulty>> /\ UNCHANGED fixed
  BY DEF vars, disks, thread, frontier, budget
<1>2. ThreadStep /\ Committed' = Committed
  BY <1>1 DEF ThreadStep, Committed
<1>3. (Replayable(M)' <=> Replayable(M)) /\ Behind(M)' = Behind(M)
  BY <1>1, JournalStill
<1>4. \A x : Hot(x, M) => Hot(x, M)'
  BY <1>1, <1>3 DEF Hot
<1>5. BandSound'
  <2>1. CASE epc \in Moving \cup {"replay"}
    BY <1>1, <2>1, BandStays DEF ContentInv
  <2>2. CASE epc \notin Moving \cup {"replay"}
    BY <1>1, <2>2 DEF BandSound
  <2> QED
    BY <2>1, <2>2
<1>6. Marks(M)'
  <2>1. Few(0, 4 * M, who) => Few(0, 4 * M, who)'
    BY <1>1, FixedMore DEF Few, Without
  <2> QED
    BY <1>1, <1>2, <1>3, <2>1 DEF Marks, ContentInv
<1> QED
  BY <1>1, <1>2, <1>3, <1>4, <1>5, <1>6, ThreadKeeps


-----------------------------------------------------------------------------
(* The next band                                                            *)

\* A chunk read at its old place is the chunk.
LEMMA SourceHolds ==
  ASSUME Shapes, Careful, NEW M \in 0..Rows, OldSound(M), OldFrom(M) = M,
         NEW c \in Nat, c < Rows * KOld, Ahead(c, Pos(M)), Source(c).disk \notin faulty
  PROVE  ValueOf(home[Source(c)]) = Content(c)
<1> DEFINE r == c \div KOld
           e == c % KOld
<1>1. KOld \in Nat /\ KOld > 0 /\ Rows \in Nat /\ Sound(Old) /\ DataDisks(Old) = KOld
  BY Sizes, Base DEF KOld
<1>2. r \in RowSet /\ e \in 0..(KOld - 1) /\ c = r * KOld + e
  <2>1. r \in Int /\ e \in 0..(KOld - 1) /\ c = KOld * r + e
    BY <1>1, Division
  <2>2. r < Rows
    BY <1>1, RowBefore
  <2>3. ~(c < 0 * KOld)
    BY <1>1
  <2>4. ~(r < 0)
    BY <1>1, <2>3, RowBefore
  <2>5. KOld * r = r * KOld
    BY <1>1, <2>1
  <2> HIDE DEF r, e
  <2> QED
    BY <1>1, <2>1, <2>2, <2>4, <2>5 DEF RowSet
<1>3. Turn(r) >= M
  BY <1>2, OldRowAhead
<1> HIDE DEF r, e
<1>4. PICK vals : /\ Vector(Old, vals)
                  /\ Holds(Old, r, vals)
                  /\ \A d \in 0..(KOld - 1) :
                       Ahead(r * KOld + d, Pos(M)) => vals[d] = Content(r * KOld + d)
  BY <1>2, <1>3 DEF OldSound, OldKept
<1>5. vals[e] = Content(c)
  BY <1>2, <1>4
<1>6. r \in Int
  BY <1>1, <1>2 DEF RowSet
<1>7. ComputeSector(Old, c) = [disk |-> DataSlot(Old, r, e), row |-> r]
  BY <1>1, <1>2, <1>6, EngineAgrees
<1>8. Source(c) = [disk |-> DataSlot(Old, r, e), row |-> r]
  BY <1>7 DEF Source
<1>9. DataSlot(Old, r, e) \in (0..(Old.n - 1)) \ faulty
  BY <1>1, <1>2, <1>6, <1>8, SlotsOfRow
<1>10. home[Source(c)] = Data(vals[e])
  <2>1. Cell(DataSlot(Old, r, e), r) = Encode(Old, r, vals)[DataSlot(Old, r, e)]
    BY <1>4, <1>9 DEF Holds
  <2> QED
    BY <1>1, <1>2, <1>4, <1>6, <1>8, <2>1, EncodeData DEF Cell
<1> QED
  BY <1>5, <1>10 DEF ValueOf, Data

LEMMA BandRead ==
  ASSUME Shapes, Careful, NEW M \in 0..(Rows - 1), OldSound(M), OldFrom(M) = M,
         NEW row, row = RowAt(M), \A x \in Sources(row) : x.disk \notin faulty
  PROVE  [d \in 0..(KNew - 1) |->
            LET c == row * KNew + d
            IN  IF c >= Rows * KOld THEN Zero ELSE ValueOf(home[Source(c)])] = Word(row)
<1>1. KNew \in Nat /\ KNew > 0 /\ KOld \in Nat /\ Rows \in Nat /\ DataDisks(New) = KNew
  BY Sizes DEF KNew
<1>2. row \in RowSet /\ Turn(row) = M /\ row \in Nat /\ row < Rows /\ M \in 0..Rows
  BY <1>1, BandAt DEF RowSet
<1>3. ASSUME NEW d \in 0..(KNew - 1), NEW c, c = row * KNew + d
      PROVE  Content(c) = IF c >= Rows * KOld THEN Zero ELSE ValueOf(home[Source(c)])
  <2>1. c \in Nat /\ c \div KNew = row
    BY <1>2, <1>3, ChunkAt
  <2>2. c < Rows * KNew
    BY <1>1, <1>2, <2>1, RowBefore
  <2>3. Ahead(c, Pos(M))
    BY <1>2, <2>1, NewRowAhead
  <2>4. CASE c >= Rows * KOld
    <3>1. Rows * KOld \in Nat /\ Rows * KNew \in Nat
      BY <1>1
    <3>2. Size \in Nat /\ Size <= Rows * KOld /\ (Backwards => Size = Rows * KNew)
      BY Base
    <3>3. ~Backwards /\ c \notin Chunks
      BY <2>1, <2>2, <2>4, <3>1, <3>2 DEF Chunks
    <3> QED
      BY <2>4, <3>3 DEF Content
  <2>5. CASE ~(c >= Rows * KOld)
    <3>1. Rows * KOld \in Nat
      BY <1>1
    <3>2. c < Rows * KOld
      BY <2>1, <2>5, <3>1
    <3>3. c \in RowChunks(New, row)
      <4> PICK a \in Nat : a = row * KNew
        BY <1>1, <1>2
      <4>1. (row + 1) * KNew = a + KNew
        BY <1>1, <1>2
      <4>2. c >= a /\ c <= a + KNew - 1
        BY <1>1, <1>3
      <4> QED
        BY <1>1, <2>1, <4>1, <4>2 DEF RowChunks
    <3>4. Source(c) \in Sources(row)
      BY <3>2, <3>3 DEF Sources
    <3> QED
      BY <1>2, <2>1, <2>3, <2>5, <3>2, <3>4, SourceHolds
  <2> QED
    BY <2>4, <2>5
<1> QED
  BY <1>3 DEF Word

LEMMA ReadContent ==
  ASSUME NEW M \in 0..Rows, FrontInv(M), Careful, ContentInv(M), ReadBand
  PROVE  ContentInv(M)'
<1>1. /\ epc = "ready" /\ epc' = "STAGE" /\ who' = 0 /\ taken' = FALSE /\ sb' = sb
      /\ sb.state = "reshaping" /\ BandsLeft
      /\ crashes' = crashes /\ faults' = faults /\ ThreadStep
      /\ progress' = After(NextRow)
  BY DEF ReadBand, disks, ThreadStep, budget
<1>2. Shapes /\ ~Committed /\ ~Committed' /\ \A x : ~Hot(x, M)
  BY <1>1 DEF Committed, Hot, FrontInv
<1>3. Replayable(M)' <=> Replayable(M)
  BY <1>1, StaysReplayable
<1>4. safe = Pos(M) /\ M \in 0..(Rows - 1) /\ NextRow = RowAt(M) /\ After(RowAt(M)) = Pos(M + 1)
      /\ BandOf(Pos(M + 1)) = RowAt(M)
  <2>1. safe = Pos(M)
    BY <1>1, <1>2 DEF FrontInv, Standing
  <2>2. M < Rows
    BY <1>1, <1>2, <2>1, WalkEnds
  <2>3. M \in 0..(Rows - 1)
    BY <1>2, <2>2, Sizes
  <2> QED
    BY <1>2, <2>1, <2>3, BandAt
<1> PICK row : row = RowAt(M)
  OBVIOUS
<1>5. band' = Pages(row)
  <2>1. OldFrom(M) = M /\ OldSound(M)
    BY <1>1 DEF OldFrom, ContentInv
  <2>2. \A x \in Sources(row) : x.disk \notin faulty
    BY <1>4 DEF ReadBand
  <2>3. [d \in 0..(KNew - 1) |->
            LET c == row * KNew + d
            IN  IF c >= Rows * KOld THEN Zero ELSE ValueOf(home[Source(c)])] = Word(row)
    BY <1>2, <1>4, <2>1, <2>2, BandRead
  <2> QED
    BY <1>4, <2>3 DEF ReadBand, Pages
<1>6. BandSound'
  <2>1. ClaimedRow' = row
    BY <1>1, <1>4, FixedMore DEF ClaimedRow, BandOf, ThreadStep
  <2>2. Pages(row)' = Pages(row) /\ Pages(ClaimedRow)' = Pages(row)'
    BY <1>1, <2>1, MemStays DEF Pages, Word, ThreadStep
  <2> QED
    BY <1>5, <2>2 DEF BandSound
<1>7. Marks(M)'
  <2>1. Cardinality(Behind(M)) <= faults \/ ~(sb.state = "reshaping" /\ crashes = 0 /\ M > 0)
    BY <1>2 DEF ContentInv, Marks
  <2> QED
    BY <1>1, <2>1, MarksMove
<1> QED
  BY <1>1, <1>2, <1>3, <1>6, <1>7, ThreadKeeps


-----------------------------------------------------------------------------
(* The band's writes                                                        *)

HomeWrote(w, r, v) == home' = [home EXCEPT ![[disk |-> w, row |-> r]] = v]

LEMMA HomeWritten ==
  ASSUME FunctionOn(home, Cells), NEW w \in Disks, NEW r \in RowSet, NEW v,
         HomeWrote(w, r, v), UNCHANGED fixed
  PROVE  /\ FunctionOn(home, Cells)'
         /\ \A x \in Disks, row \in RowSet :
              Cell(x, row)' = IF x = w /\ row = r THEN v ELSE Cell(x, row)
<1>1. [disk |-> w, row |-> r] \in Cells /\ DOMAIN home = Cells
  BY DEF Cells, FunctionOn
<1>2. \A z \in Cells : home'[z] = IF z = [disk |-> w, row |-> r] THEN v ELSE home[z]
  BY <1>1 DEF HomeWrote
<1>3. FunctionOn(home, Cells)'
  BY <1>1, FixedMore DEF FunctionOn, HomeWrote
<1>4. ASSUME NEW x \in Disks, NEW row \in RowSet
      PROVE  Cell(x, row)' = IF x = w /\ row = r THEN v ELSE Cell(x, row)
  <2> PICK z : z = [disk |-> x, row |-> row]
    OBVIOUS
  <2>1. z \in Cells /\ (z = [disk |-> w, row |-> r] <=> x = w /\ row = r)
    BY DEF Cells
  <2> QED
    BY <1>2, <2>1 DEF Cell
<1> QED
  BY <1>3, <1>4

\* The band that is being written home is the one before M.
LEMMA BandHome ==
  ASSUME NEW M \in 0..Rows, FrontInv(M), ContentInv(M), epc \in {"home", "replay"}
  PROVE  /\ M \in 1..Rows /\ sb.state = "reshaping" /\ Replayable(M)
         /\ ClaimedRow = RowAt(M - 1) /\ RowAt(M - 1) \in RowSet /\ Turn(RowAt(M - 1)) = M - 1
         /\ progress = Pos(M)
<1>1. Shapes /\ Replayable(M) /\ sb.state = "reshaping" /\ M > 0
  BY DEF FrontInv, ContentInv, Marks, Replayable
<1>2. M - 1 \in 0..(Rows - 1) /\ M \in 1..Rows /\ (M - 1) + 1 = M
  BY <1>1, Sizes
<1>3. progress = Pos(M)
  <2>1. CASE epc = "home"
    <3>1. PICK L \in 0..(Rows - 1) : M = L + 1 /\ progress = Pos(L + 1)
      BY <2>1, ThreadAt DEF Moving, Committed
    <3> QED
      BY <3>1
  <2>2. CASE epc = "replay"
    BY <1>1, <2>2 DEF FrontInv, Standing, Committed, Moving
  <2> QED
    BY <2>1, <2>2
<1> QED
  BY <1>1, <1>2, <1>3, BandAt DEF ClaimedRow

\* A row is whole until the walk writes it.
LEMMA OldOthers ==
  ASSUME Shapes, NEW M \in 0..Rows, OldSound(M), OldFrom(M) = M, OldFrom(M)' = M,
         UNCHANGED mem, UNCHANGED fixed, faulty \subseteq faulty',
         \A x \in Disks, row \in RowSet : Turn(row) >= M => Cell(x, row)' = Cell(x, row)
  PROVE  OldSound(M)'
<1>1. ASSUME NEW row \in RowSet, Turn(row) >= M PROVE OldKept(row, Pos(M))'
  <2>1. OldKept(row, Pos(M))
    BY <1>1 DEF OldSound
  <2>2. KOld' = KOld /\ \A c : Content(c)' = Content(c)
    BY MemStays, FixedMore
  <2>3. \A d \in 0..(KOld - 1) : Content(row * KOld + d)' = Content(row * KOld + d)
    BY <2>2
  <2> QED
    BY <1>1, <2>1, <2>3, OldKeptStays, FixedMore
<1> QED
  BY <1>1, FixedMore DEF OldSound

LEMMA HomeStep ==
  ASSUME NEW M \in 0..Rows, FrontInv(M), Careful, ContentInv(M), epc \in {"home", "replay"},
         who < New.n, who' = who + 1,
         IF who \in faulty THEN home' = home ELSE HomeWrote(who, ClaimedRow, band[who]),
         UNCHANGED <<scratch, journal, mem, faulty, sb, epc, taken, band, progress, crashes, faults>>,
         UNCHANGED fixed
  PROVE  ContentInv(M)'
<1>1. /\ M \in 1..Rows /\ sb.state = "reshaping" /\ Replayable(M)
      /\ ClaimedRow = RowAt(M - 1) /\ RowAt(M - 1) \in RowSet /\ Turn(RowAt(M - 1)) = M - 1
      /\ progress = Pos(M)
  BY BandHome
<1> PICK r \in RowSet : r = RowAt(M - 1)
  BY <1>1
<1>2. Shapes /\ who \in NewDisks /\ who \in Disks /\ who \in Nat /\ NewDisks \subseteq Disks
  BY Sizes DEF FrontInv, Shapes, NewDisks
<1>3. band[who] = Pages(r)[who] /\ BandSound
  BY <1>1 DEF ContentInv, BandSound, Moving
<1>4. /\ FunctionOn(home, Cells)'
      /\ \A x \in Disks, row \in RowSet :
           Cell(x, row)' = IF x = who /\ row = r /\ who \notin faulty
                           THEN Pages(r)[who] ELSE Cell(x, row)
  <2>1. CASE who \in faulty
    BY <2>1, FixedMore DEF ContentInv, Stores, FunctionOn, Cell
  <2>2. CASE who \notin faulty
    <3> PICK v : v = Pages(r)[who]
      OBVIOUS
    <3> PICK w \in Disks : w = who
      BY <1>2
    <3>1. FunctionOn(home, Cells) /\ HomeWrote(w, r, v)
      BY <1>1, <1>3, <2>2 DEF ContentInv, Stores
    <3>2. /\ FunctionOn(home, Cells)'
          /\ \A x \in Disks, row \in RowSet :
               Cell(x, row)' = IF x = w /\ row = r THEN v ELSE Cell(x, row)
      BY <3>1, HomeWritten
    <3> QED
      BY <2>2, <3>2
  <2> QED
    BY <2>1, <2>2
<1>5. Stores'
  BY <1>4, FixedMore DEF ContentInv, Stores, FunctionOn
<1>6. OldSound(M)'
  <2>1. OldFrom(M) = M /\ OldFrom(M)' = M /\ OldSound(M)
    BY DEF OldFrom, ContentInv
  <2>2. \A x \in Disks, row \in RowSet : Turn(row) >= M => Cell(x, row)' = Cell(x, row)
    BY <1>1, <1>4
  <2> QED
    BY <1>2, <2>1, <2>2, OldOthers
<1>7. NewSound(M)'
  <2>1. \A row : Pages(row)' = Pages(row) /\ Turn(row)' = Turn(row)
    BY MemStays, FixedMore
  <2>2. Good' = Good
    BY FixedMore DEF Good
  <2>3. ASSUME NEW row \in RowSet, Turn(row) < M, NEW x \in Good
        PROVE  (Turn(row) = M - 1 /\ Hot(x, M)') \/ Cell(x, row)' = Pages(row)[x]
    <3>1. x \in Disks /\ x \in Nat /\ x \notin faulty
      BY <1>2, Sizes DEF Good, NewDisks
    <3>2. (Turn(row) = M - 1 /\ Hot(x, M)) \/ Cell(x, row) = Pages(row)[x]
      BY <2>3 DEF ContentInv, NewSound
    <3>3. CASE row = r /\ x = who
      BY <1>4, <3>1, <3>3
    <3>4. CASE row = r /\ x # who
      <4>1. x > who => Hot(x, M)'
        BY <1>2, <3>1 DEF Hot
      <4>2. Hot(x, M) => x >= who
        BY DEF Hot
      <4> QED
        BY <1>1, <1>2, <1>4, <3>1, <3>2, <3>4, <4>1, <4>2
    <3>5. CASE row # r
      <4>1. Turn(row) # M - 1
        BY <1>2, <3>5, TurnRow
      <4> QED
        BY <1>4, <3>1, <3>2, <3>5, <4>1
    <3> QED
      BY <3>3, <3>4, <3>5
  <2> QED
    BY <2>1, <2>2, <2>3 DEF NewSound
<1>8. (Replayable(M)' <=> Replayable(M)) /\ Behind(M)' = Behind(M) /\ Good' = Good
  BY JournalStill
<1>9. ScratchSound(M)'
  <2>1. Staged(RowAt(M - 1), 4 * M - 1)
    BY <1>1 DEF ContentInv, ScratchSound
  <2>2. RowAt(M - 1)' = RowAt(M - 1) /\ New' = New /\ KNew' = KNew
        /\ \A row : Pages(row)' = Pages(row)
    BY MemStays, FixedMore
  <2>3. Staged(RowAt(M - 1), 4 * M - 1)'
    BY <1>8, <2>1, <2>2 DEF Staged, BandCsum
  <2> QED
    BY <2>3 DEF ScratchSound
<1>10. BandSound'
  BY <1>3, BandStays DEF Moving
<1>11. Marks(M)'
  <2>1. epc = "replay" => crashes > 0 /\ crashes \in Nat
    BY <1>2 DEF Shapes
  <2>2. epc = "home" => Committed'
    BY DEF Committed
  <2> QED
    BY <1>1, <1>8, <2>1, <2>2 DEF Marks
<1> QED
  BY <1>5, <1>6, <1>7, <1>9, <1>10, <1>11 DEF ContentInv

LEMMA ReplayUnitContent ==
  ASSUME NEW M \in 0..Rows, FrontInv(M), Careful, ContentInv(M), ReplayUnit
  PROVE  ContentInv(M)'
<1>1. /\ epc = "replay" /\ who < New.n /\ who' = who + 1
      /\ UNCHANGED <<scratch, journal, mem, faulty, sb, epc, taken, band, progress, crashes, faults>>
      /\ UNCHANGED fixed
      /\ IF who \in faulty THEN home' = home ELSE HomeWrote(who, ClaimedRow, band[who])
  BY DEF ReplayUnit, frontier, budget, HomeWrote
<1> QED
  BY <1>1, HomeStep


LEMMA RowsStay ==
  ASSUME Shapes, NEW M \in 0..Rows, OldSound(M), NewSound(M), OldFrom(M) \in 0..M,
         OldFrom(M)' = OldFrom(M), UNCHANGED <<home, mem>>, UNCHANGED fixed,
         faulty \subseteq faulty',
         \A x \in Good : x \notin faulty' => (Hot(x, M) => Hot(x, M)')
  PROVE  OldSound(M)' /\ NewSound(M)'
<1> PICK F \in 0..M : F = OldFrom(M)
  OBVIOUS
<1>1. \A x, row : Cell(x, row)' = Cell(x, row)
  BY DEF Cell
<1>2. ASSUME NEW row \in RowSet, Turn(row) >= F PROVE OldKept(row, Pos(F))'
  <2>1. OldKept(row, Pos(F))
    BY <1>2 DEF OldSound
  <2>2. KOld' = KOld /\ \A c : Content(c)' = Content(c)
    BY MemStays, FixedMore
  <2>3. \A d \in 0..(KOld - 1) : Content(row * KOld + d)' = Content(row * KOld + d)
    BY <2>2
  <2> QED
    BY <1>1, <2>1, <2>3, OldKeptStays, FixedMore
<1>3. OldSound(M)'
  BY <1>2, FixedMore DEF OldSound
<1>4. NewSound(M)'
  <2>1. \A row : Pages(row)' = Pages(row) /\ Turn(row)' = Turn(row)
    BY MemStays, FixedMore
  <2>2. Good' \subseteq Good /\ \A x \in Good' : x \notin faulty'
    BY FixedMore DEF Good
  <2> QED
    BY <1>1, <2>1, <2>2 DEF NewSound
<1> QED
  BY <1>3, <1>4

LEMMA StagedNext ==
  ASSUME Careful, NEW CONSTANT M \in 0..Rows
  PROVE  (FrontInv(M) /\ epc \in {"scratch", "COMMIT"} /\ ~Committed => ~Replayable(M))'
<1>1. FrontInv(M) /\ epc \in {"scratch", "COMMIT"} /\ ~Committed => ~Replayable(M)
  BY StagedNotReplayable
<1> QED
  BY <1>1, PTL

ScratchWrote(w, v) == scratch' = [scratch EXCEPT ![w] = v]

LEMMA ScratchWritten ==
  ASSUME FunctionOn(scratch, Disks), NEW w \in Disks, NEW v, ScratchWrote(w, v), UNCHANGED fixed
  PROVE  /\ FunctionOn(scratch, Disks)'
         /\ \A x \in Disks : scratch'[x] = IF x = w THEN v ELSE scratch[x]
<1>1. DOMAIN scratch = Disks
  BY DEF FunctionOn
<1> QED
  BY <1>1, FixedMore DEF FunctionOn, ScratchWrote

LEMMA ScratchStep ==
  ASSUME NEW M \in 0..Rows, FrontInv(M), Careful, ContentInv(M), epc = "scratch",
         who < New.n, who' = who + 1,
         IF who \in faulty THEN scratch' = scratch ELSE ScratchWrote(who, band[who]),
         UNCHANGED <<home, journal, mem, faulty, sb, epc, taken, band, progress, crashes, faults>>,
         UNCHANGED fixed
  PROVE  ContentInv(M)'
<1>1. Shapes /\ who \in NewDisks /\ who \in Disks /\ who \in Nat /\ NewDisks \subseteq Disks
  BY Sizes DEF FrontInv, Shapes, NewDisks
<1>2. ~Committed /\ ~Committed'
  BY DEF Committed
<1>3. (Replayable(M)' <=> Replayable(M)) /\ Behind(M)' = Behind(M) /\ Good' = Good
  BY JournalStill
<1>4. ~Replayable(M)
  BY <1>2, StagedNotReplayable
<1>5. /\ FunctionOn(scratch, Disks)'
      /\ \A x \in Disks : scratch'[x] = IF x = who /\ who \notin faulty THEN band[who] ELSE scratch[x]
  <2>1. CASE who \in faulty
    BY <2>1, FixedMore DEF ContentInv, Stores, FunctionOn
  <2>2. CASE who \notin faulty
    <3> PICK v : v = band[who]
      OBVIOUS
    <3> PICK w \in Disks : w = who
      BY <1>1
    <3>1. FunctionOn(scratch, Disks) /\ ScratchWrote(w, v)
      BY <2>2 DEF ContentInv, Stores
    <3> QED
      BY <2>2, <3>1, ScratchWritten
  <2> QED
    BY <2>1, <2>2
<1>6. Stores'
  BY <1>5, FixedMore DEF ContentInv, Stores, FunctionOn
<1>7. OldSound(M)' /\ NewSound(M)'
  <2>1. OldFrom(M) = M /\ OldFrom(M)' = M /\ OldSound(M) /\ NewSound(M) /\ M \in 0..M
    BY <1>1, Sizes DEF OldFrom, ContentInv
  <2>2. \A x : ~Hot(x, M)
    BY DEF Hot
  <2> QED
    BY <1>1, <2>1, <2>2, RowsStay
<1>8. ScratchSound(M)'
  <2>1. ASSUME NEW x \in Good, x < who + 1 PROVE scratch'[x] = band[x]
    <3>1. x \in Disks /\ x \in Nat /\ x \notin faulty
      BY <1>1, Sizes DEF Good, NewDisks
    <3>2. x < who => scratch[x] = band[x]
      BY DEF ContentInv, ScratchSound
    <3> QED
      BY <1>1, <1>5, <2>1, <3>1, <3>2
  <2> QED
    BY <1>2, <1>3, <1>4, <2>1 DEF ScratchSound
<1>9. BandSound'
  BY BandStays DEF Moving, ContentInv
<1>10. Marks(M)'
  <2>1. sb.state = "reshaping" /\ crashes = 0 /\ M > 0 => Cardinality(Behind(M)) <= faults
    BY <1>2 DEF ContentInv, Marks
  <2> QED
    BY <1>3, <2>1 DEF Marks
<1> QED
  BY <1>6, <1>7, <1>8, <1>9, <1>10 DEF ContentInv

LEMMA WriteUnitContent ==
  ASSUME NEW M \in 0..Rows, FrontInv(M), Careful, ContentInv(M), WriteUnit
  PROVE  ContentInv(M)'
<1>1. /\ epc \in {"scratch", "home"} /\ who < New.n /\ who' = who + 1
      /\ UNCHANGED <<journal, mem, faulty, sb, epc, taken, band, progress, crashes, faults>>
      /\ UNCHANGED fixed
  BY DEF WriteUnit, frontier, budget
<1>2. CASE epc = "scratch"
  <2>1. /\ home' = home
        /\ IF who \in faulty THEN scratch' = scratch ELSE ScratchWrote(who, band[who])
    BY <1>2 DEF WriteUnit, PutUnit, ScratchWrote
  <2> QED
    BY <1>1, <1>2, <2>1, ScratchStep
<1>3. CASE epc = "home"
  <2>1. /\ scratch' = scratch
        /\ IF who \in faulty THEN home' = home ELSE HomeWrote(who, ClaimedRow, band[who])
    BY <1>3 DEF WriteUnit, PutUnit, HomeWrote
  <2> QED
    BY <1>1, <1>3, <2>1, HomeStep
<1> QED
  BY <1>1, <1>2, <1>3

LEMMA UnitFailsContent ==
  ASSUME NEW M \in 0..Rows, FrontInv(M), Careful, ContentInv(M), WriteUnitFails
  PROVE  ContentInv(M)'
<1>1. /\ epc \in {"scratch", "home"} /\ who < New.n /\ who' = who + 1
      /\ faulty' = faulty \cup {who} /\ faults' = faults + 1
      /\ UNCHANGED <<home, scratch, journal, mem, sb, epc, taken, band, progress, crashes>>
      /\ UNCHANGED fixed
  BY DEF WriteUnitFails, disks, frontier, budget
<1>2. Shapes /\ who \in Nat /\ faults \in Nat
  BY Sizes DEF FrontInv, Shapes
<1>3. Good' \subseteq Good /\ \A x \in Good' : x \notin faulty' /\ x # who
  BY <1>1, FixedMore DEF Good
<1>4. Committed' = Committed
  BY <1>1 DEF Committed
<1>5. Stores'
  BY <1>1, FixedMore DEF ContentInv, Stores, FunctionOn
<1>6. OldSound(M)' /\ NewSound(M)'
  <2>1. OldFrom(M) = M /\ OldFrom(M)' = M /\ OldSound(M) /\ NewSound(M) /\ M \in 0..M
    BY <1>1, <1>2, Sizes DEF OldFrom, ContentInv
  <2>2. \A x \in Good : x \notin faulty' => (Hot(x, M) => Hot(x, M)')
    BY <1>1, <1>2, Sizes DEF Hot, Good, NewDisks
  <2> QED
    BY <1>1, <1>2, <2>1, <2>2, RowsStay
<1>7. epc = "home" => Replayable(M)'
  <2>1. epc = "home" => Replayable(M)
    BY DEF ContentInv, Marks
  <2> QED
    BY <1>1, <1>3, <2>1 DEF Replayable
<1>8. epc = "scratch" => ~Replayable(M)' /\ ~Committed'
  <2>1. FrontInv(M)'
    BY UnitFailsKeeps DEF Careful
  <2> QED
    BY <1>1, <2>1, StagedNext DEF Committed
<1>9. ScratchSound(M)'
  <2>1. CASE epc = "scratch"
    <3>1. ASSUME NEW x \in Good', x < who' PROVE scratch'[x] = band'[x]
      <4>1. x \in Good /\ x < who
        BY <1>1, <1>2, <1>3, <3>1, Sizes DEF Good, NewDisks
      <4> QED
        BY <1>1, <2>1, <4>1 DEF ContentInv, ScratchSound
    <3> QED
      BY <1>1, <1>8, <2>1, <3>1 DEF ScratchSound
  <2>2. CASE epc = "home"
    <3>1. Staged(RowAt(M - 1), 4 * M - 1)
      BY <2>2 DEF ContentInv, ScratchSound, Committed
    <3>2. RowAt(M - 1)' = RowAt(M - 1) /\ New' = New /\ KNew' = KNew
          /\ \A row : Pages(row)' = Pages(row)
      BY <1>1, MemStays, FixedMore
    <3>3. Staged(RowAt(M - 1), 4 * M - 1)'
      BY <1>1, <1>3, <3>1, <3>2 DEF Staged, BandCsum
    <3> QED
      BY <1>1, <2>2, <3>3 DEF ScratchSound
  <2> QED
    BY <1>1, <2>1, <2>2
<1>10. BandSound'
  BY <1>1, BandStays DEF Moving, ContentInv
<1>11. Marks(M)'
  <2>1. Behind(M)' \subseteq Behind(M) \cup {who}
    BY <1>1, FixedMore DEF Behind
  <2>2. IsFiniteSet(Behind(M))
    <3>1. Behind(M) \in SUBSET NewDisks /\ IsFiniteSet(NewDisks)
      BY <1>2, Sizes DEF Behind
    <3> QED
      BY <3>1, FS_Subset
  <2>3. /\ IsFiniteSet(Behind(M) \cup {who})
        /\ Cardinality(Behind(M) \cup {who}) = (IF who \in Behind(M) THEN Cardinality(Behind(M))
                                                ELSE Cardinality(Behind(M)) + 1)
    BY <2>2, FS_AddElement
  <2> PICK B : B = Behind(M)'
    OBVIOUS
  <2>4. IsFiniteSet(B) /\ Cardinality(B) <= Cardinality(Behind(M) \cup {who})
    BY <2>1, <2>3, FS_Subset
  <2>5. Cardinality(B) \in Nat /\ Cardinality(Behind(M)) \in Nat
    BY <2>2, <2>4, FS_CardinalityType
  <2>6. epc = "scratch" /\ sb.state = "reshaping" /\ crashes = 0 /\ M > 0 => Cardinality(B) <= faults'
    <3>1. epc = "scratch" /\ sb.state = "reshaping" /\ crashes = 0 /\ M > 0
            => Cardinality(Behind(M)) <= faults
      BY DEF ContentInv, Marks, Committed
    <3> PICK p, q, z : p = Cardinality(B) /\ q = Cardinality(Behind(M))
                       /\ z = Cardinality(Behind(M) \cup {who})
      OBVIOUS
    <3> QED
      BY <1>1, <1>2, <2>3, <2>4, <2>5, <3>1
  <2> QED
    BY <1>1, <1>7, <2>6 DEF Marks, Committed
<1> QED
  BY <1>5, <1>6, <1>9, <1>10, <1>11 DEF ContentInv


-----------------------------------------------------------------------------
(* Records                                                                  *)

\* What a member taking record r in slot i changes.
Took(i, r) ==
  /\ UNCHANGED <<home, scratch, band, mem, faulty, sb, epc, progress, safe, crashes, faults>>
  /\ UNCHANGED fixed
  /\ who \in Good /\ who' = who + 1 /\ taken'
  /\ \A x \in NewDisks, s \in 0..1 :
       journal'[x][s] = IF x = who /\ s = i THEN r ELSE journal[x][s]

LEMMA TakeGives ==
  ASSUME NEW M \in 0..Rows, FrontInv(M), JournalTake, NEW L, epc \in {"STAGE", "COMMIT", "DONE"},
         L \in 0..(Rows - 1), progress = Pos(L + 1)
  PROVE  \E i, r : /\ i \in 0..1 /\ Took(i, r) /\ r.csum = BandCsum(band, ClaimedRow)
                   /\ epc = "STAGE" => i = 0 /\ r.seq = 4 * L + 2
                   /\ epc = "COMMIT" => i = 1 /\ r.seq = 4 * L + 3
                   /\ epc = "DONE" => i = 0 /\ r.seq = 4 * L + 4
<1>1. Shapes /\ L \in Nat
  BY Sizes DEF FrontInv
<1> PICK r : r = Record
  OBVIOUS
<1> PICK i : i = r.seq % 2
  OBVIOUS
<1>2. /\ Valid(r) /\ i \in 0..1
      /\ epc = "STAGE" => r.seq = 4 * L + 2 /\ i = 0
      /\ epc = "COMMIT" => r.seq = 4 * L + 3 /\ i = 1
      /\ epc = "DONE" => r.seq = 4 * L + 4 /\ i = 0
  <2>1. CASE epc = "STAGE"
    BY <1>1, <2>1, RecordAtHand
  <2>2. CASE epc = "COMMIT"
    BY <1>1, <2>2, RecordAtHand
  <2>3. CASE epc = "DONE"
    BY <1>1, <2>3, RecordAtHand
  <2> QED
    BY <2>1, <2>2, <2>3
<1>3. r.csum = BandCsum(band, ClaimedRow)
  BY DEF Record
<1>4. Took(i, r)
  <2>1. /\ who \in NewDisks \ faulty /\ who' = who + 1 /\ taken'
        /\ UNCHANGED <<epc, progress, safe, sb, faulty, crashes, faults>> /\ UNCHANGED fixed
        /\ \A x \in NewDisks, s \in 0..1 :
             journal'[x][s] = IF x = who /\ s = i THEN r ELSE journal[x][s]
    BY <1>1, <1>2, TakeShapes
  <2>2. UNCHANGED <<home, scratch, band, mem>>
    BY DEF JournalTake
  <2> QED
    BY <2>1, <2>2 DEF Took, Good
<1> QED
  BY <1>2, <1>3, <1>4

\* A record that is taken does not set a member farther behind.
LEMMA BehindLess ==
  ASSUME Shapes, NEW M, NEW i, NEW r, Took(i, r), i = 0 => r.seq >= 4 * M,
         M \in Nat, r.seq \in Int, Cardinality(Behind(M)) <= faults
  PROVE  Cardinality(Behind(M)') <= faults
<1> PICK B : B = Behind(M)'
  OBVIOUS
<1>1. B \subseteq Behind(M)
  <2> SUFFICES ASSUME NEW x \in NewDisks, x \in faulty \/ journal'[x][0].seq < 4 * M
               PROVE  x \in Behind(M)
    BY FixedMore DEF Behind, Took
  <2>1. journal'[x][0] = IF x = who /\ i = 0 THEN r ELSE journal[x][0]
    BY DEF Took
  <2>2. CASE x = who /\ i = 0
    BY <2>1, <2>2 DEF Took, Good
  <2>3. CASE ~(x = who /\ i = 0)
    BY <2>1, <2>3 DEF Behind
  <2> QED
    BY <2>2, <2>3
<1>2. Behind(M) \in SUBSET NewDisks /\ IsFiniteSet(NewDisks) /\ faults \in Nat
  BY Sizes DEF Behind, Shapes
<1>3. IsFiniteSet(Behind(M))
  BY <1>2, FS_Subset
<1>4. IsFiniteSet(B) /\ Cardinality(B) <= Cardinality(Behind(M))
  BY <1>1, <1>3, FS_Subset
<1>5. Cardinality(B) \in Nat /\ Cardinality(Behind(M)) \in Nat
  BY <1>3, <1>4, FS_CardinalityType
<1> PICK p, q : p = Cardinality(B) /\ q = Cardinality(Behind(M))
  OBVIOUS
<1>6. p <= faults
  BY <1>2, <1>4, <1>5
<1> QED
  BY <1>6

LEMMA TakeStageContent ==
  ASSUME NEW M \in 0..Rows, FrontInv(M), Careful, ContentInv(M), JournalTake, epc = "STAGE"
  PROVE  ContentInv(M)'
<1>1. Shapes /\ M \in Nat
  BY Sizes DEF FrontInv
<1>2. M \in 0..(Rows - 1) /\ progress = Pos(M + 1)
  BY ThreadAt DEF Moving, Committed
<1>3. PICK i, r : i \in 0..1 /\ Took(i, r) /\ i = 0 /\ r.seq = 4 * M + 2
  BY <1>2, TakeGives
<1>4. ~Committed /\ ~Committed' /\ \A x : ~Hot(x, M)
  BY <1>3 DEF Committed, Hot, Took
<1>5. Stores'
  BY <1>3, FixedMore DEF ContentInv, Stores, FunctionOn, Took
<1>6. OldSound(M)' /\ NewSound(M)'
  <2>1. OldFrom(M) = M /\ OldFrom(M)' = M /\ OldSound(M) /\ NewSound(M) /\ M \in 0..M
    BY <1>1, <1>3 DEF OldFrom, ContentInv, Took
  <2> QED
    BY <1>1, <1>3, <1>4, <2>1, RowsStay DEF Took
<1>7. ~Replayable(M)'
  <2>1. who \in Good' /\ journal'[who][0].seq = 4 * M + 2
    BY <1>3, FixedMore DEF Took, Good
  <2>2. ~(4 * M + 2 <= 4 * M - 1)
    BY <1>1
  <2> QED
    BY <2>1, <2>2 DEF Replayable
<1>8. ScratchSound(M)'
  BY <1>3, <1>4, <1>7 DEF ScratchSound, Took
<1>9. BandSound'
  BY <1>3, BandStays DEF Moving, ContentInv, Took
<1>10. Marks(M)'
  <2>1. sb.state = "reshaping" /\ crashes = 0 /\ M > 0 => Cardinality(Behind(M)) <= faults
    BY <1>4 DEF ContentInv, Marks
  <2>2. 4 * M + 2 >= 4 * M /\ 4 * M + 2 \in Int
    BY <1>1
  <2>3. sb.state = "reshaping" /\ crashes = 0 /\ M > 0 => Cardinality(Behind(M)') <= faults
    BY <1>1, <1>3, <2>1, <2>2, BehindLess
  <2> QED
    BY <1>3, <2>3 DEF Marks, Took
<1> QED
  BY <1>5, <1>6, <1>8, <1>9, <1>10 DEF ContentInv

LEMMA TakeFirstContent ==
  ASSUME NEW M \in 0..Rows, FrontInv(M), Careful, ContentInv(M), JournalTake,
         epc \in {"INIT0", "INIT1"}
  PROVE  M = 0 /\ sb'.state = "old" /\ ContentInv(M)'
<1>1. Shapes /\ sb.state = "old" /\ M = 0
  BY PlaceOfThread DEF FrontInv
<1>2. UNCHANGED <<home, scratch, band, mem, faulty, sb, epc>> /\ UNCHANGED fixed
  BY DEF JournalTake
<1>3. Stores'
  BY <1>2, FixedMore DEF ContentInv, Stores, FunctionOn
<1>4. OldSound(M)' /\ NewSound(M)'
  <2>1. OldFrom(M) = M /\ OldFrom(M)' = M /\ OldSound(M) /\ NewSound(M) /\ M \in 0..M
    BY <1>1, <1>2 DEF OldFrom, ContentInv
  <2>2. \A x : ~Hot(x, M)
    BY DEF Hot
  <2> QED
    BY <1>1, <1>2, <2>1, <2>2, RowsStay
<1>5. ScratchSound(M)' /\ BandSound' /\ Marks(M)'
  BY <1>1, <1>2 DEF ScratchSound, BandSound, Marks, Committed, Replayable, Moving
<1> QED
  BY <1>1, <1>2, <1>3, <1>4, <1>5 DEF ContentInv


LEMMA TakeDoneContent ==
  ASSUME NEW M \in 0..Rows, FrontInv(M), Careful, ContentInv(M), JournalTake, epc = "DONE"
  PROVE  ContentInv(M)'
<1>1. Shapes /\ M \in Nat /\ Committed /\ who \in Nat
  BY Sizes DEF FrontInv, Committed, Shapes
<1>2. PICK L \in 0..(Rows - 1) : M = L + 1 /\ progress = Pos(L + 1) /\ sb.state = "reshaping"
  BY <1>1, ThreadAt DEF Moving
<1>3. PICK i, r : i \in 0..1 /\ Took(i, r) /\ i = 0 /\ r.seq = 4 * M
  <2>1. 4 * L + 4 = 4 * M
    BY <1>2
  <2> QED
    BY <1>2, <2>1, TakeGives
<1>4. Committed' /\ \A x : ~Hot(x, M)
  BY <1>3 DEF Committed, Hot, Took
<1>5. Stores'
  BY <1>3, FixedMore DEF ContentInv, Stores, FunctionOn, Took
<1>6. OldSound(M)' /\ NewSound(M)'
  <2>1. OldFrom(M) = M /\ OldFrom(M)' = M /\ OldSound(M) /\ NewSound(M) /\ M \in 0..M
    BY <1>1, <1>3 DEF OldFrom, ContentInv, Took
  <2> QED
    BY <1>1, <1>3, <1>4, <2>1, RowsStay DEF Took
<1>7. ScratchSound(M)'
  <2>1. Staged(RowAt(M - 1), 4 * M - 1)
    BY <1>1 DEF ContentInv, ScratchSound
  <2>2. RowAt(M - 1)' = RowAt(M - 1) /\ New' = New /\ KNew' = KNew /\ Good' = Good
        /\ \A row : Pages(row)' = Pages(row)
    BY <1>3, MemStays, FixedMore DEF Took, Good
  <2>3. \A x \in Good, s \in 0..1 :
          journal'[x][s].seq = 4 * M - 1 => journal'[x][s] = journal[x][s]
    <3>1. r.seq # 4 * M - 1
      BY <1>1, <1>3
    <3> QED
      BY <1>3, <3>1 DEF Took, Good
  <2>4. Staged(RowAt(M - 1), 4 * M - 1)'
    BY <1>3, <2>1, <2>2, <2>3 DEF Staged, BandCsum, Took
  <2> QED
    BY <1>3, <2>4 DEF ScratchSound, Took
<1>8. BandSound'
  BY <1>3, BandStays DEF Moving, ContentInv, Took
<1>9. Few(0, 4 * M, who)'
  <2> PICK w : w = who + 1
    OBVIOUS
  <2>1. Few(0, 4 * M, who)
    BY DEF ContentInv, Marks
  <2>2. Without(0, 4 * M, w)' \subseteq Without(0, 4 * M, who)
    <3> SUFFICES ASSUME NEW x \in NewDisks, x \notin faulty, x < w, journal'[x][0].seq # 4 * M
                 PROVE  x < who /\ journal[x][0].seq # 4 * M
      BY <1>3, FixedMore DEF Without, Took
    <3>1. x # who
      BY <1>3 DEF Took
    <3>2. x < who
      BY <1>1, <3>1, Sizes DEF NewDisks
    <3> QED
      BY <1>3, <3>1, <3>2 DEF Took
  <2>3. Cardinality(Without(0, 4 * M, w)') <= faults
    BY <1>1, <2>1, <2>2, FewLess
  <2> QED
    BY <1>3, <2>3 DEF Few, Took, Without
<1>10. Marks(M)'
  BY <1>3, <1>4, <1>9 DEF Marks, Took
<1> QED
  BY <1>5, <1>6, <1>7, <1>8, <1>10 DEF ContentInv

\* With its first COMMIT record a band is over.
LEMMA TakeCommitContent ==
  ASSUME NEW M \in 0..Rows, FrontInv(M), Careful, ContentInv(M), JournalTake, epc = "COMMIT",
         NEW L \in 0..(Rows - 1), M = (IF Committed THEN L + 1 ELSE L), progress = Pos(L + 1),
         ClaimedRow = RowAt(L), sb.state = "reshaping",
         NEW N, N = L + 1
  PROVE  ContentInv(N)'
<1>1. Shapes /\ L \in Nat /\ N \in 1..Rows /\ M \in Nat /\ NewDisks \subseteq Disks
  BY Sizes DEF FrontInv
<1>2. PICK i, r : i \in 0..1 /\ Took(i, r) /\ i = 1 /\ r.seq = 4 * L + 3
                           /\ r.csum = BandCsum(band, ClaimedRow)
  BY TakeGives
<1> PICK row \in RowSet : row = RowAt(L) /\ Turn(row) = L
  BY <1>1, BandAt
<1>3. band = Pages(row) /\ \A x \in Good : scratch[x] = Pages(row)[x]
  BY DEF ContentInv, BandSound, Moving, ScratchSound
<1>4. Good' = Good /\ \A x \in Good : x \in NewDisks /\ x \in Disks
  BY <1>1, <1>2, FixedMore DEF Took, Good
<1>5. epc' = "COMMIT" /\ taken' /\ Committed' /\ \A x, P : Hot(x, P)'
  BY <1>2 DEF Took, Committed, Hot
<1>6. Stores'
  BY <1>2, FixedMore DEF ContentInv, Stores, FunctionOn, Took
<1>7. \A x, q : Cell(x, q)' = Cell(x, q)
  BY <1>2 DEF Cell, Took
<1>8. OldFrom(M) = L /\ OldFrom(N)' = L
  BY <1>1, <1>5 DEF OldFrom, Committed
<1>9. OldSound(N)'
  <2>1. ASSUME NEW q \in RowSet, Turn(q) >= L PROVE OldKept(q, Pos(L))'
    <3>1. OldKept(q, Pos(L))
      BY <1>8, <2>1 DEF ContentInv, OldSound
    <3>2. KOld' = KOld /\ \A c : Content(c)' = Content(c)
      BY <1>2, MemStays, FixedMore DEF Took
    <3>3. \A d \in 0..(KOld - 1) : Content(q * KOld + d)' = Content(q * KOld + d)
      BY <3>2
    <3> QED
      BY <1>1, <1>2, <1>7, <3>1, <3>3, OldKeptStays, FixedMore DEF Took
  <2> QED
    BY <1>2, <1>8, <2>1, FixedMore DEF OldSound, Took
<1>10. NewSound(N)'
  <2>1. \A q : Pages(q)' = Pages(q) /\ Turn(q)' = Turn(q)
    BY <1>2, MemStays, FixedMore DEF Took
  <2>2. ASSUME NEW q \in RowSet, Turn(q) < N, NEW x \in Good
        PROVE  Turn(q) = N - 1 \/ Cell(x, q) = Pages(q)[x]
    <3> SUFFICES ASSUME Turn(q) # L PROVE Cell(x, q) = Pages(q)[x]
      BY <1>1
    <3>1. Turn(q) < L
      BY <1>1, <2>2, TurnRow
    <3>2. Turn(q) < M /\ ~(Turn(q) = M - 1 /\ Hot(x, M))
      BY <1>1, <3>1, TurnRow DEF Hot, Committed
    <3> QED
      BY <3>2 DEF ContentInv, NewSound
  <2> QED
    BY <1>4, <1>5, <1>7, <2>1, <2>2 DEF NewSound
<1>11. \A x \in Good, s \in 0..1 :
         /\ journal[x][s].seq <= 4 * L + 3
         /\ journal[x][s].seq = 4 * L + 3 => journal[x][s].csum = BandCsum(Pages(row), row)
  <2>1. CASE Committed
    <3>1. Replayable(M) /\ M = L + 1 /\ 4 * M - 1 = 4 * L + 3 /\ M - 1 = L
      BY <1>1, <2>1 DEF ContentInv, Marks, Committed
    <3>2. Staged(row, 4 * L + 3)
      BY <2>1, <3>1 DEF ContentInv, ScratchSound
    <3> QED
      BY <3>1, <3>2 DEF Replayable, Staged
  <2>2. CASE ~Committed
    <3> SUFFICES ASSUME NEW x \in Good, NEW s \in 0..1
                 PROVE  journal[x][s].seq <= 4 * L + 3 /\ journal[x][s].seq # 4 * L + 3
      OBVIOUS
    <3>1. Level(journal[x][s]) <= L
      BY <1>4, <2>2 DEF FrontInv, Settled
    <3>2. Valid(journal[x][s])
      BY <1>1, <1>4 DEF Shapes
    <3>3. journal[x][s].seq \in Int
      BY <1>1, <3>2, ValidRecord
    <3> PICK z \in Int : z = journal[x][s].seq
      BY <3>3
    <3>4. (z + 1) \div 4 <= L
      BY <3>1 DEF Level
    <3>5. z <= 4 * L + 3 /\ z # 4 * L + 3
      BY <1>1, <3>4
    <3> QED
      BY <3>5
  <2> QED
    BY <2>1, <2>2
<1>12. \A x \in Good, s \in 0..1 :
         /\ journal'[x][s].seq <= 4 * L + 3
         /\ journal'[x][s].seq = 4 * L + 3 => journal'[x][s].csum = BandCsum(Pages(row), row)
  <2> SUFFICES ASSUME NEW x \in Good, NEW s \in 0..1
               PROVE  /\ journal'[x][s].seq <= 4 * L + 3
                      /\ journal'[x][s].seq = 4 * L + 3
                           => journal'[x][s].csum = BandCsum(Pages(row), row)
    OBVIOUS
  <2>1. CASE x = who /\ s = i
    <3>1. journal'[x][s] = r
      BY <1>2, <1>4, <2>1 DEF Took
    <3> QED
      BY <1>1, <1>2, <1>3, <3>1
  <2>2. CASE ~(x = who /\ s = i)
    <3>1. journal'[x][s] = journal[x][s]
      BY <1>2, <1>4, <2>2 DEF Took
    <3> QED
      BY <1>11, <3>1
  <2> QED
    BY <2>1, <2>2
<1>13. Replayable(N)'
  <2>1. 4 * N - 1 = 4 * L + 3 /\ N > 0
    BY <1>1
  <2> QED
    BY <1>2, <1>4, <1>12, <2>1 DEF Replayable, Took
<1>14. ScratchSound(N)'
  <2>1. 4 * N - 1 = 4 * L + 3 /\ N - 1 = L /\ RowAt(L)' = row
    BY <1>1, <1>2, FixedMore DEF Took
  <2>2. Pages(row)' = Pages(row) /\ New' = New /\ KNew' = KNew
    BY <1>2, MemStays, FixedMore DEF Took
  <2>3. Staged(row, 4 * L + 3)'
    BY <1>2, <1>3, <1>4, <1>12, <2>2 DEF Staged, BandCsum, Took
  <2>4. Staged(RowAt(N - 1), 4 * N - 1)'
    BY <2>1, <2>3 DEF Staged
  <2>5. \A x \in Good' : scratch'[x] = band'[x]
    BY <1>2, <1>3, <1>4 DEF Took
  <2> QED
    BY <1>5, <2>4, <2>5 DEF ScratchSound
<1>15. BandSound'
  BY <1>2, BandStays DEF Moving, ContentInv, Took
<1>16. Marks(N)'
  BY <1>5, <1>13 DEF Marks
<1> QED
  BY <1>6, <1>9, <1>10, <1>14, <1>15, <1>16 DEF ContentInv

LEMMA TakeContent ==
  ASSUME NEW M \in 0..Rows, FrontInv(M), Careful, ContentInv(M), JournalTake,
         NEW N \in M..Rows, FrontInv(N)'
  PROVE  ContentInv(N)'
<1>1. Shapes /\ epc \in Phases /\ epc' = epc /\ safe' = safe /\ sb' = sb /\ taken'
      /\ UNCHANGED fixed
  BY DEF FrontInv, JournalTake, frontier
<1>2. CASE epc \in {"INIT0", "INIT1"}
  <2>1. M = 0 /\ sb'.state = "old" /\ ContentInv(M)'
    BY <1>2, TakeFirstContent
  <2>2. N = 0
    BY <2>1 DEF FrontInv
  <2> QED
    BY <2>1, <2>2
<1>3. CASE epc \in {"STAGE", "COMMIT", "DONE"}
  <2>1. PICK L \in 0..(Rows - 1) :
          /\ Standing(L) /\ M = (IF Committed THEN L + 1 ELSE L)
          /\ ClaimedRow = RowAt(L) /\ progress = Pos(L + 1) /\ sb.state = "reshaping"
    BY <1>3, ThreadAt DEF Moving
  <2>2. PICK R \in 0..N : N = (IF Committed' THEN R + 1 ELSE R) /\ Standing(R)'
    BY <1>1, <1>3, <2>1 DEF FrontInv
  <2>3. R = L
    <3>1. R \in 0..Rows /\ safe = Pos(R)
      BY <1>1, <2>2, FixedMore, Sizes DEF Standing
    <3>2. L \in 0..Rows /\ safe = Pos(L)
      BY <1>1, <2>1, Sizes DEF Standing
    <3> QED
      BY <1>1, <3>1, <3>2, PosOrder
  <2>4. CASE epc = "STAGE"
    <3>1. N = M
      BY <1>1, <2>1, <2>2, <2>3, <2>4 DEF Committed
    <3> QED
      BY <2>4, <3>1, TakeStageContent
  <2>5. CASE epc = "DONE"
    <3>1. N = M
      BY <1>1, <2>1, <2>2, <2>3, <2>5 DEF Committed
    <3> QED
      BY <2>5, <3>1, TakeDoneContent
  <2>6. CASE epc = "COMMIT"
    <3>1. N = L + 1
      BY <1>1, <2>2, <2>3, <2>6 DEF Committed
    <3> QED
      BY <2>1, <2>6, <3>1, TakeCommitContent
  <2> QED
    BY <1>3, <2>4, <2>5, <2>6
<1> QED
  BY <1>1, <1>2, <1>3 DEF Phases


-----------------------------------------------------------------------------
(* User writes                                                              *)

\* A row of a geometry is written, on the members that are left.
Put(g, row, vals) ==
  home' = [x \in Cells |-> IF x.row = row /\ x.disk < g.n /\ x.disk \notin faulty
                           THEN Encode(g, row, vals)[x.disk] ELSE home[x]]

LEMMA PutCells ==
  ASSUME UNCHANGED fixed, NEW g, NEW row, NEW vals, Put(g, row, vals)
  PROVE  /\ FunctionOn(home, Cells)'
         /\ \A x \in Disks, q \in RowSet :
              Cell(x, q)' = IF q = row /\ x < g.n /\ x \notin faulty
                            THEN Encode(g, row, vals)[x] ELSE Cell(x, q)
<1>1. FunctionOn(home, Cells)'
  BY FixedMore DEF FunctionOn, Put
<1>2. ASSUME NEW x \in Disks, NEW q \in RowSet
      PROVE  Cell(x, q)' = IF q = row /\ x < g.n /\ x \notin faulty
                           THEN Encode(g, row, vals)[x] ELSE Cell(x, q)
  <2> PICK z : z = [disk |-> x, row |-> q]
    OBVIOUS
  <2>1. z \in Cells /\ z.disk = x /\ z.row = q
    BY DEF Cells
  <2>2. home'[z] = IF z.row = row /\ z.disk < g.n /\ z.disk \notin faulty
                   THEN Encode(g, row, vals)[z.disk] ELSE home[z]
    BY <2>1 DEF Put
  <2> QED
    BY <2>1, <2>2 DEF Cell
<1> QED
  BY <1>1, <1>2

\* A chunk is written.
Write(c, v) ==
  /\ mem' = [mem EXCEPT ![c] = v]
  /\ UNCHANGED <<scratch, journal, sb, epc, who, taken, band, progress, safe, faulty, crashes,
                 faults>>
  /\ UNCHANGED fixed

LEMMA WriteContent ==
  ASSUME FunctionOn(mem, Chunks), NEW c \in Chunks, NEW v, Write(c, v)
  PROVE  /\ FunctionOn(mem, Chunks)'
         /\ \A e : Content(e)' = IF e = c THEN v ELSE Content(e)
         /\ UNCHANGED fixed
<1>1. UNCHANGED fixed /\ DOMAIN mem = Chunks
  BY DEF FunctionOn, Write
<1>2. \A e \in Chunks : mem'[e] = IF e = c THEN v ELSE mem[e]
  BY <1>1 DEF Write
<1>3. FunctionOn(mem, Chunks)'
  BY <1>1, FixedMore DEF FunctionOn, Write
<1>4. \A e : Content(e)' = IF e = c THEN v ELSE Content(e)
  BY <1>1, <1>2, FixedMore DEF Content
<1> QED
  BY <1>1, <1>3, <1>4

\* What a write has to leave sound.
LEMMA WriteKeeps ==
  ASSUME NEW M \in 0..Rows, FrontInv(M), ContentInv(M), NEW c \in Chunks, NEW v, Write(c, v),
         FunctionOn(home, Cells)',
         \A q \in RowSet : Turn(q) >= OldFrom(M) => OldKept(q, Pos(OldFrom(M)))',
         \A q \in RowSet : Turn(q) < M =>
           \A x \in Good : (Turn(q) = M - 1 /\ Hot(x, M)) \/ Cell(x, q)' = Pages(q)'[x],
         Committed \/ Replayable(M) => Pages(RowAt(M - 1))' = Pages(RowAt(M - 1)),
         epc \in Moving => Pages(ClaimedRow)' = Pages(ClaimedRow)
  PROVE  ContentInv(M)'
<1>1. /\ UNCHANGED <<scratch, journal, sb, epc, who, taken, band, progress, faulty, crashes, faults>>
      /\ UNCHANGED fixed
  BY DEF Write
<1>2. Stores'
  BY <1>1, WriteContent, FixedMore DEF ContentInv, Stores, FunctionOn
<1>3. (Replayable(M)' <=> Replayable(M)) /\ Behind(M)' = Behind(M) /\ Good' = Good
  BY <1>1, JournalStill
<1>4. (Committed' <=> Committed) /\ \A x : Hot(x, M)' <=> Hot(x, M)
  BY <1>1, <1>3 DEF Committed, Hot
<1>5. OldSound(M)'
  <2> PICK F : F = OldFrom(M)
    OBVIOUS
  <2>1. OldFrom(M)' = F
    BY <1>1 DEF OldFrom
  <2>2. \A q \in RowSet : Turn(q) >= F => OldKept(q, Pos(F))'
    <3> SUFFICES ASSUME NEW q \in RowSet, Turn(q) >= F PROVE OldKept(q, Pos(F))'
      OBVIOUS
    <3>1. OldKept(q, Pos(OldFrom(M)))'
      OBVIOUS
    <3>2. Pos(OldFrom(M))' = Pos(F)'
      BY <2>1 DEF Pos
    <3> QED
      BY <3>1, <3>2 DEF OldKept
  <2> QED
    BY <1>1, <2>1, <2>2, FixedMore DEF OldSound
<1>6. NewSound(M)'
  BY <1>1, <1>3, <1>4, FixedMore DEF NewSound
<1>7. ScratchSound(M)'
  <2>1. ASSUME Committed \/ Replayable(M) PROVE Staged(RowAt(M - 1), 4 * M - 1)'
    <3>1. Staged(RowAt(M - 1), 4 * M - 1)
      BY <2>1 DEF ContentInv, ScratchSound
    <3>2. RowAt(M - 1)' = RowAt(M - 1) /\ New' = New /\ KNew' = KNew
      BY <1>1, FixedMore
    <3> QED
      BY <1>1, <1>3, <2>1, <3>1, <3>2 DEF Staged, BandCsum
  <2>2. epc = "scratch" => \A x \in Good : x < who => scratch[x] = band[x]
    BY DEF ContentInv, ScratchSound
  <2>3. epc = "COMMIT" => \A x \in Good : scratch[x] = band[x]
    BY DEF ContentInv, ScratchSound
  <2> QED
    BY <1>1, <1>3, <1>4, <2>1, <2>2, <2>3 DEF ScratchSound
<1>8. Marks(M)'
  <2>1. Few(0, 4 * M, who) => Few(0, 4 * M, who)'
    BY <1>1, FixedMore DEF Few, Without
  <2> QED
    BY <1>1, <1>3, <1>4, <2>1 DEF Marks, ContentInv
<1>9. epc # "replay" => BandSound'
  <2> SUFFICES ASSUME epc \in Moving PROVE band' = Pages(ClaimedRow)'
    BY <1>1 DEF BandSound
  <2> QED
    BY <1>1 DEF BandSound, ContentInv
<1>10. epc = "replay" => BandSound'
  <2> SUFFICES ASSUME epc = "replay" PROVE band' = Pages(ClaimedRow)'
    BY <1>1 DEF BandSound, Moving
  <2>1. Replayable(M) /\ ClaimedRow = RowAt(M - 1)
    BY BandHome
  <2>2. ClaimedRow' = ClaimedRow
    BY <1>1, FixedMore DEF ClaimedRow, BandOf
  <2> PICK q : q = ClaimedRow
    OBVIOUS
  <2>3. RowAt(M - 1)' = q
    BY <1>1, <2>1, FixedMore
  <2>4. Pages(RowAt(M - 1))' = Pages(q)
    BY <2>1
  <2>5. Pages(ClaimedRow)' = Pages(q)
    BY <2>2, <2>3, <2>4 DEF Pages, Word
  <2> QED
    BY <1>1, <2>5 DEF BandSound, ContentInv
<1> QED
  BY <1>2, <1>5, <1>6, <1>7, <1>8, <1>9, <1>10 DEF ContentInv


\* A chunk served in the new geometry is in a band that is over.
BehindTheWalk(c, M) ==
  /\ Turn(c \div KNew) < M
  /\ Committed => Turn(c \div KNew) # M - 1
  /\ epc \in Moving => c \div KNew # ClaimedRow

\* One served in the old geometry is in no band yet.
BeforeTheWalk(c, M) ==
  \E P \in M..Rows : /\ Ahead(c, Pos(P))
                     /\ epc \in Moving => \E L \in 0..(P - 1) : ClaimedRow = RowAt(L)

\* The running thread's frontier.
LEMMA FrontierAt ==
  ASSUME NEW M \in 0..Rows, FrontInv(M), Running, epc \notin {"off", "finished"}
  PROVE  \E L \in 0..M, P \in M..Rows :
           /\ safe = Pos(L) /\ progress = Pos(P)
           /\ M = (IF Committed THEN L + 1 ELSE L)
           /\ epc \in Moving => L \in 0..(P - 1) /\ ClaimedRow = RowAt(L)
<1>1. Shapes /\ M \in Nat /\ Rows \in Nat
  BY Sizes DEF FrontInv
<1>2. CASE sb.state = "old"
  <2>1. /\ M = 0 /\ epc \in {"INIT0", "INIT1", "ready"}
        /\ safe = Pos(0) /\ progress = Pos(0)
    BY <1>2 DEF FrontInv, Fresh, Running
  <2>2. 0 \in 0..M /\ 0 \in M..Rows /\ ~Committed /\ epc \notin Moving
    BY <1>1, <2>1 DEF Committed, Moving
  <2> QED
    BY <2>1, <2>2
<1>3. CASE sb.state = "reshaping"
  <2>1. PICK L \in 0..M : M = (IF Committed THEN L + 1 ELSE L) /\ Standing(L)
    BY <1>3 DEF FrontInv, Running
  <2>2. CASE epc \in Moving
    <3>1. L \in 0..(Rows - 1) /\ progress = Pos(L + 1) /\ safe = Pos(L)
      BY <1>1, <2>1, <2>2 DEF Standing
    <3>2. L + 1 \in M..Rows /\ L \in 0..((L + 1) - 1) /\ ClaimedRow = RowAt(L)
      BY <1>1, <2>1, <3>1, BandAt DEF ClaimedRow
    <3> QED
      BY <2>1, <3>1, <3>2
  <2>3. CASE epc \notin Moving
    <3>1. ~Committed /\ L = M /\ safe = Pos(L) /\ progress = Pos(L)
      BY <2>1, <2>3 DEF Standing, Committed, Moving
    <3>2. L \in M..Rows
      BY <1>1, <3>1
    <3> QED
      BY <2>1, <2>3, <3>1, <3>2
  <2> QED
    BY <2>2, <2>3
<1>4. sb.state # "new"
  BY DEF FrontInv, Running
<1> QED
  BY <1>1, <1>2, <1>3, <1>4 DEF Shapes

LEMMA RowsAhead ==
  ASSUME Shapes, Careful, NEW P \in 0..Rows, NEW c \in Chunks, RowAhead(c \div KOld, Pos(P))
  PROVE  Ahead(c, Pos(P))
<1> PICK q : q = c \div KOld
  OBVIOUS
<1>1. /\ KOld \in Nat /\ KOld > 0 /\ q \in Nat /\ c \in Nat /\ Pos(P) \in Nat
      /\ c % KOld \in 0..(KOld - 1) /\ c = q * KOld + (c % KOld)
  BY Sizes, RowsOf, PosType DEF RowSet
<1> PICK a \in Nat, d \in 0..(KOld - 1) : a = q * KOld /\ d = c % KOld
  BY <1>1
<1>2. (q + 1) * KOld = a + KOld
  BY <1>1
<1> QED
  BY <1>1, <1>2 DEF RowAhead, Ahead

LEMMA ServedWhere ==
  ASSUME NEW M \in 0..Rows, FrontInv(M), Careful, ContentInv(M), NEW c \in Chunks, Served(c)
  PROVE  \/ LiveGeometry(c) = New /\ BehindTheWalk(c, M)
         \/ LiveGeometry(c) = Old /\ BeforeTheWalk(c, M)
<1>1. Shapes /\ M \in Nat /\ Rows \in Nat /\ c \in Nat /\ c \div KNew \in RowSet
      /\ Turn(c \div KNew) \in 0..(Rows - 1)
  BY Sizes, RowsOf, TurnRow DEF FrontInv
<1>2. Running
  BY DEF Served
<1>3. CASE epc = "off"
  <2>1. M = 0 /\ epc \notin Moving /\ LiveGeometry(c) = Old
    BY <1>3, PlaceOfThread DEF FrontInv, Moving, LiveGeometry
  <2>2. Ahead(c, Pos(0))
    <3>1. Pos(0) = Start
      BY <1>1, Ends
    <3>2. c < Size
      BY <1>1, Base DEF Chunks
    <3> QED
      BY <1>1, <3>1, <3>2 DEF Ahead, Start
  <2> QED
    BY <1>1, <2>1, <2>2 DEF BeforeTheWalk
<1>4. CASE epc = "finished" \/ (epc # "off" /\ ~Ahead(c, safe))
  <2>1. LiveGeometry(c) = New
    BY <1>4 DEF LiveGeometry, GeometryAt
  <2>2. CASE epc = "finished"
    <3>1. M = Rows /\ ~Committed /\ epc \notin Moving
      BY <2>2 DEF ContentInv, Marks, Committed, Moving
    <3> QED
      BY <1>1, <2>1, <3>1 DEF BehindTheWalk
  <2>3. CASE epc # "finished" /\ ~Ahead(c, safe)
    <3>1. PICK L \in 0..M, P \in M..Rows :
           /\ safe = Pos(L) /\ progress = Pos(P)
           /\ M = (IF Committed THEN L + 1 ELSE L)
           /\ epc \in Moving => L \in 0..(P - 1) /\ ClaimedRow = RowAt(L)
      BY <1>2, <1>4, <2>3, FrontierAt
    <3>2. L \in 0..Rows /\ ~(Turn(c \div KNew) >= L)
      BY <1>1, <2>3, <3>1, NewRowAhead
    <3>3. epc \in Moving => Turn(ClaimedRow) = L
      <4> SUFFICES ASSUME epc \in Moving PROVE Turn(RowAt(L)) = L
        BY <3>1
      <4>1. L \in 0..(Rows - 1)
        BY <1>1, <3>1
      <4> QED
        BY <1>1, <4>1, BandAt
    <3>4. epc \in Moving => c \div KNew # ClaimedRow
      BY <1>1, <3>2, <3>3
    <3>5. Turn(c \div KNew) < M /\ (Committed => Turn(c \div KNew) # M - 1)
      BY <1>1, <3>1, <3>2
    <3> QED
      BY <2>1, <3>4, <3>5 DEF BehindTheWalk
  <2> QED
    BY <1>4, <2>2, <2>3
<1>5. CASE epc \notin {"off", "finished"} /\ Ahead(c, safe)
  <2>1. LiveGeometry(c) = Old
    BY <1>5 DEF LiveGeometry, GeometryAt
  <2>2. RowAhead(c \div KOld, progress)
    BY <1>2, <1>5 DEF Served
  <2>3. PICK L \in 0..M, P \in M..Rows :
         /\ safe = Pos(L) /\ progress = Pos(P)
         /\ M = (IF Committed THEN L + 1 ELSE L)
         /\ epc \in Moving => L \in 0..(P - 1) /\ ClaimedRow = RowAt(L)
    BY <1>2, <1>5, FrontierAt
  <2>4. P \in 0..Rows /\ Ahead(c, Pos(P))
    BY <1>1, <2>2, <2>3, RowsAhead
  <2> QED
    BY <2>1, <2>3, <2>4 DEF BeforeTheWalk
<1> QED
  BY <1>3, <1>4, <1>5

LEMMA UserPuts ==
  ASSUME Shapes, NEW c \in Chunks, UserWrite(c), NEW g, g = LiveGeometry(c),
         NEW k, k = DataDisks(g)
  PROVE  \E v : /\ Write(c, v)
                /\ Put(g, c \div k, [Reconstruct(g, c \div k, RowCells(g, c \div k), faulty)
                                       EXCEPT ![c % k] = v])
<1>1. Unreadable = faulty
  BY DEF Unreadable, Shapes
<1> PICK v : v = Rows * KOld + writes
  OBVIOUS
<1> PICK row : row = c \div k
  OBVIOUS
<1>2. Put(g, row, [Reconstruct(g, row, RowCells(g, row), faulty) EXCEPT ![c % k] = v])
  BY <1>1 DEF UserWrite, Put
<1>3. Write(c, v)
  BY DEF UserWrite, Write, thread, frontier
<1> QED
  BY <1>2, <1>3

LEMMA UserNew ==
  ASSUME NEW M \in 0..Rows, FrontInv(M), Careful, ContentInv(M), NEW c \in Chunks, UserWrite(c),
         LiveGeometry(c) = New, BehindTheWalk(c, M)
  PROVE  ContentInv(M)'
<1> PICK row, e : row = c \div KNew /\ e = c % KNew
  OBVIOUS
<1>1. Shapes /\ M \in Nat /\ Rows \in Nat /\ row \in RowSet /\ Turn(row) \in 0..(Rows - 1)
      /\ e \in 0..(KNew - 1) /\ c = row * KNew + e /\ c \in Nat /\ KNew \in Nat
  BY Sizes, RowsOf, TurnRow DEF FrontInv
<1>2. /\ Turn(row) < M /\ (Committed \/ Replayable(M) => Turn(row) # M - 1)
      /\ (epc \in Moving => row # ClaimedRow)
  <2>1. row # CommittedRow
    <3> PICK g : g = LiveGeometry(c)
      OBVIOUS
    <3>1. ~(g = New /\ c \div DataDisks(g) = CommittedRow)
      BY DEF UserWrite, Careful
    <3> QED
      BY <3>1 DEF KNew
  <2>2. Replayable(M) => Turn(row) # M - 1
    <3> SUFFICES ASSUME Replayable(M), Turn(row) = M - 1 PROVE FALSE
      OBVIOUS
    <3>1. CommittedRow = RowAt(M - 1)
      BY NewestIs DEF CommittedRow, Replayable
    <3>2. RowAt(M - 1) = row
      BY <1>1, TurnRow
    <3> QED
      BY <2>1, <3>1, <3>2
  <2> QED
    BY <2>2 DEF BehindTheWalk
<1>3. \A x : Hot(x, M) => Committed \/ Replayable(M)
  BY DEF Hot, Committed, ContentInv, Marks
<1>4. Holds(New, row, Word(row))
  BY <1>1, <1>2, <1>3 DEF ContentInv, NewSound, Good, NewDisks, Holds, Pages
<1>5. Reconstruct(New, row, RowCells(New, row), faulty) = Word(row)
  BY <1>1, <1>4, VectorNew, FaultyFew
<1>6. PICK v : Write(c, v) /\ Put(New, row, [Word(row) EXCEPT ![e] = v])
  <2> PICK g : g = LiveGeometry(c)
    OBVIOUS
  <2> PICK k : k = DataDisks(g)
    OBVIOUS
  <2>1. g = New /\ k = KNew
    BY DEF KNew
  <2>2. \E v : /\ Write(c, v)
               /\ Put(g, c \div k, [Reconstruct(g, c \div k, RowCells(g, c \div k), faulty)
                                       EXCEPT ![c % k] = v])
    BY <1>1, UserPuts
  <2>3. row = c \div k /\ e = c % k
    BY <2>1
  <2> QED
    BY <1>5, <2>1, <2>2, <2>3
<1>7. UNCHANGED fixed /\ \A z : Content(z)' = IF z = c THEN v ELSE Content(z)
  BY <1>6, WriteContent DEF ContentInv, Stores
<1>8. Word(row)' = [Word(row) EXCEPT ![e] = v]
  <2>1. \A d \in 0..(KNew - 1) : (row * KNew + d = c <=> d = e)
    <3> PICK a \in Nat : a = row * KNew
      BY <1>1 DEF RowSet
    <3> QED
      BY <1>1
  <2>2. Word(row)' = [d \in 0..(KNew - 1) |-> Content(row * KNew + d)']
    BY <1>7, FixedMore DEF Word
  <2>3. \A d \in 0..(KNew - 1) :
          Content(row * KNew + d)' = IF d = e THEN v ELSE Content(row * KNew + d)
    <3>1. KNew' = KNew
      BY <1>7, FixedMore
    <3> QED
      BY <1>7, <2>1, <3>1
  <2> QED
    BY <2>2, <2>3 DEF Word
<1>9. ASSUME NEW q \in RowSet, q # row PROVE Pages(q)' = Pages(q)
  <2>1. \A d \in 0..(KNew - 1) : q * KNew + d # c
    BY <1>1, <1>9, ChunkAt
  <2>2. \A d \in 0..(KNew - 1) : Content(q * KNew + d)' = Content(q * KNew + d)
    <3>1. KNew' = KNew
      BY <1>7, FixedMore
    <3> QED
      BY <1>7, <2>1, <3>1
  <2> QED
    BY <1>7, <2>2, PagesStay
<1>10. /\ FunctionOn(home, Cells)'
       /\ \A x \in Disks, q \in RowSet :
            Cell(x, q)' = IF q = row /\ x < New.n /\ x \notin faulty
                          THEN Encode(New, row, [Word(row) EXCEPT ![e] = v])[x] ELSE Cell(x, q)
  BY <1>6, <1>7, PutCells
<1>11. \A q \in RowSet : q # row => \A x \in Disks : Cell(x, q)' = Cell(x, q)
  BY <1>10
<1>12. OldFrom(M) \in 0..M /\ Turn(row) < OldFrom(M) /\ OldFrom(M)' = OldFrom(M)
  <2>1. OldFrom(M) \in 0..M
    BY OldFromIn
  <2>2. OldFrom(M)' = OldFrom(M)
    BY <1>6 DEF OldFrom, Write
  <2> QED
    BY <1>1, <1>2, <2>1, <2>2 DEF OldFrom, Committed
<1>13. ASSUME NEW q \in RowSet, Turn(q) >= OldFrom(M) PROVE OldKept(q, Pos(OldFrom(M)))'
  <2> PICK F \in 0..M : F = OldFrom(M)
    BY <1>12
  <2>1. OldKept(q, Pos(F))
    BY <1>13 DEF ContentInv, OldSound
  <2>2. q # row
    BY <1>1, <1>12, <1>13
  <2>3. ~Ahead(c, Pos(F))
    BY <1>1, <1>12, NewRowAhead
  <2>4. \A d \in 0..(KOld - 1) : Ahead(q * KOld + d, Pos(F))
          => Content(q * KOld + d)' = Content(q * KOld + d)
    <3>1. KOld' = KOld
      BY <1>7, FixedMore
    <3> QED
      BY <1>7, <2>3, <3>1
  <2>5. faulty' = faulty
    BY <1>6 DEF Write
  <2>6. OldKept(q, Pos(F))'
    BY <1>1, <1>7, <1>11, <2>1, <2>2, <2>4, <2>5, OldKeptStays, FixedMore
  <2>7. Pos(OldFrom(M))' = Pos(F)'
    BY <1>12 DEF Pos
  <2> QED
    BY <2>6, <2>7 DEF OldKept
<1>14. ASSUME NEW q \in RowSet, Turn(q) < M, NEW x \in Good
       PROVE  (Turn(q) = M - 1 /\ Hot(x, M)) \/ Cell(x, q)' = Pages(q)'[x]
  <2>1. x \in Disks /\ x < New.n /\ x \notin faulty
    BY <1>1, Sizes DEF Good, NewDisks
  <2>2. CASE q = row
    <3>1. Pages(row)' = Encode(New, row, [Word(row) EXCEPT ![e] = v])
      BY <1>7, <1>8, FixedMore DEF Pages
    <3> QED
      BY <1>10, <2>1, <2>2, <3>1
  <2>3. CASE q # row
    <3>1. (Turn(q) = M - 1 /\ Hot(x, M)) \/ Cell(x, q) = Pages(q)[x]
      BY <1>14 DEF ContentInv, NewSound
    <3> QED
      BY <1>9, <1>11, <2>1, <2>3, <3>1
  <2> QED
    BY <2>2, <2>3
<1>15. ASSUME Committed \/ Replayable(M) PROVE Pages(RowAt(M - 1))' = Pages(RowAt(M - 1))
  <2>1. M - 1 \in 0..(Rows - 1)
    BY <1>1, <1>2
  <2> PICK q \in RowSet : q = RowAt(M - 1) /\ Turn(q) = M - 1
    BY <1>1, <2>1, BandAt
  <2>2. Pages(q)' = Pages(q)
    BY <1>2, <1>9, <1>15
  <2>3. RowAt(M - 1)' = q
    BY <1>7, FixedMore
  <2>4. Pages(RowAt(M - 1))' = Pages(q)'
    BY <2>3 DEF Pages, Word
  <2> QED
    BY <2>2, <2>4
<1>16. ASSUME epc \in Moving PROVE Pages(ClaimedRow)' = Pages(ClaimedRow)
  <2> PICK q : q = ClaimedRow
    OBVIOUS
  <2>1. q \in RowSet
    <3>1. PICK L \in 0..(Rows - 1) : ClaimedRow = RowAt(L)
      BY <1>16, ThreadAt
    <3> QED
      BY <1>1, <3>1, BandAt
  <2>2. Pages(q)' = Pages(q)
    BY <1>2, <1>9, <1>16, <2>1
  <2>3. ClaimedRow' = q
    BY <1>6, FixedMore DEF ClaimedRow, BandOf, Write
  <2>4. Pages(ClaimedRow)' = Pages(q)'
    BY <2>3 DEF Pages, Word
  <2> QED
    BY <2>2, <2>4
<1> QED
  BY <1>6, <1>10, <1>13, <1>14, <1>15, <1>16, WriteKeeps


LEMMA UserOld ==
  ASSUME NEW M \in 0..Rows, FrontInv(M), Careful, ContentInv(M), NEW c \in Chunks, UserWrite(c),
         LiveGeometry(c) = Old, BeforeTheWalk(c, M)
  PROVE  ContentInv(M)'
<1> PICK row, e : row = c \div KOld /\ e = c % KOld
  OBVIOUS
<1>1. Shapes /\ M \in Nat /\ Rows \in Nat /\ row \in RowSet /\ Turn(row) \in 0..(Rows - 1)
      /\ e \in 0..(KOld - 1) /\ c = row * KOld + e /\ c \in Nat /\ KOld \in Nat
  BY Sizes, RowsOf, TurnRow DEF FrontInv
<1>2. PICK P \in M..Rows :
         Ahead(c, Pos(P)) /\ (epc \in Moving => \E L \in 0..(P - 1) : ClaimedRow = RowAt(L))
  BY DEF BeforeTheWalk
<1>3. P \in 0..Rows /\ P \in Nat /\ Turn(row) >= P /\ Turn(row) >= M
  <2>1. P \in 0..Rows /\ P \in Nat
    BY <1>1
  <2>2. Turn(row) >= P
    BY <1>1, <1>2, <2>1, OldRowAhead
  <2> QED
    BY <1>1, <2>1, <2>2
<1>4. OldFrom(M) \in 0..M /\ OldFrom(M)' = OldFrom(M)
  <2>1. OldFrom(M)' = OldFrom(M)
    BY DEF OldFrom, UserWrite, thread
  <2> QED
    BY <2>1, OldFromIn
<1> PICK F \in 0..M : F = OldFrom(M)
  BY <1>4
<1>5. PICK vals : /\ Vector(Old, vals) /\ Holds(Old, row, vals)
                  /\ \A d \in 0..(KOld - 1) :
                       Ahead(row * KOld + d, Pos(F)) => vals[d] = Content(row * KOld + d)
  <2>1. Turn(row) >= F
    BY <1>1, <1>3
  <2>2. OldKept(row, Pos(F))
    BY <1>1, <2>1 DEF ContentInv, OldSound
  <2> QED
    BY <2>2 DEF OldKept
<1>6. Reconstruct(Old, row, RowCells(Old, row), faulty) = vals
  BY <1>1, <1>5, VectorOld, FaultyFew
<1>7. PICK v : Write(c, v) /\ Put(Old, row, [vals EXCEPT ![e] = v])
  <2> PICK g : g = LiveGeometry(c)
    OBVIOUS
  <2> PICK k : k = DataDisks(g)
    OBVIOUS
  <2>1. g = Old /\ k = KOld
    BY DEF KOld
  <2>2. \E v : /\ Write(c, v)
               /\ Put(g, c \div k, [Reconstruct(g, c \div k, RowCells(g, c \div k), faulty)
                                       EXCEPT ![c % k] = v])
    BY <1>1, UserPuts
  <2>3. row = c \div k /\ e = c % k
    BY <2>1
  <2> QED
    BY <1>6, <2>1, <2>2, <2>3
<1> PICK now : now = [vals EXCEPT ![e] = v]
  OBVIOUS
<1>8. UNCHANGED fixed /\ faulty' = faulty /\ \A z : Content(z)' = IF z = c THEN v ELSE Content(z)
  <2>1. UNCHANGED fixed /\ \A z : Content(z)' = IF z = c THEN v ELSE Content(z)
    BY <1>7, WriteContent DEF ContentInv, Stores
  <2> QED
    BY <1>7, <2>1 DEF Write
<1>9. /\ FunctionOn(home, Cells)'
      /\ \A x \in Disks, q \in RowSet :
           Cell(x, q)' = IF q = row /\ x < Old.n /\ x \notin faulty
                         THEN Encode(Old, row, now)[x] ELSE Cell(x, q)
  BY <1>7, <1>8, PutCells
<1>10. \A q \in RowSet : q # row => \A x \in Disks : Cell(x, q)' = Cell(x, q)
  BY <1>9
<1>11. \A d \in 0..(KOld - 1) : row * KOld + d = c <=> d = e
  <2> PICK a \in Nat : a = row * KOld
    BY <1>1 DEF RowSet
  <2> QED
    BY <1>1
<1>12. Vector(Old, now) /\ \A d \in 0..(KOld - 1) : now[d] = IF d = e THEN v ELSE vals[d]
  BY <1>5 DEF Vector, FunctionOn, KOld
<1>13. OldKept(row, Pos(F))'
  <2>1. Vector(Old, now)'
    BY <1>8, <1>12, FixedMore
  <2>2. Holds(Old, row, now)'
    <3>1. 0..(Old.n - 1) \subseteq Disks
      BY <1>1, Sizes DEF Disks, Backwards
    <3>2. \A x \in (0..(Old.n - 1)) \ faulty : x \in Disks /\ x < Old.n /\ x \notin faulty
      BY <1>1, <3>1, Sizes
    <3>3. \A x \in (0..(Old.n - 1)) \ faulty : Cell(x, row)' = Encode(Old, row, now)[x]
      BY <1>1, <1>9, <3>2
    <3> QED
      BY <1>8, <3>3, FixedMore DEF Holds
  <2>3. \A d \in 0..(KOld - 1) :
          Ahead(row * KOld + d, Pos(F)) => now[d] = Content(row * KOld + d)'
    <3> SUFFICES ASSUME NEW d \in 0..(KOld - 1), Ahead(row * KOld + d, Pos(F))
                 PROVE  now[d] = Content(row * KOld + d)'
      OBVIOUS
    <3>1. KOld' = KOld
      BY <1>8, FixedMore
    <3>2. Content(row * KOld + d)' = IF d = e THEN v ELSE Content(row * KOld + d)
      BY <1>8, <1>11, <3>1
    <3> QED
      BY <1>5, <1>12, <3>2
  <2>4. \A d \in 0..(KOld - 1) :
          Ahead(row * KOld + d, Pos(F))' => now[d] = Content(row * KOld + d)'
    BY <1>8, <2>3, FixedMore
  <2> QED
    BY <1>8, <2>1, <2>2, <2>4, FixedMore DEF OldKept
<1>14. ASSUME NEW q \in RowSet, Turn(q) >= OldFrom(M) PROVE OldKept(q, Pos(OldFrom(M)))'
  <2>1. OldKept(q, Pos(F))'
    <3>1. CASE q = row
      BY <1>13, <3>1
    <3>2. CASE q # row
      <4>1. OldKept(q, Pos(F))
        BY <1>14 DEF ContentInv, OldSound
      <4>2. \A d \in 0..(KOld - 1) : q * KOld + d # c
        BY <1>1, <3>2, ChunkAt
      <4>3. \A d \in 0..(KOld - 1) : Content(q * KOld + d)' = Content(q * KOld + d)
        <5>1. KOld' = KOld
          BY <1>8, FixedMore
        <5> QED
          BY <1>8, <4>2, <5>1
      <4> QED
        BY <1>1, <1>8, <1>10, <3>2, <4>1, <4>3, OldKeptStays, FixedMore
    <3> QED
      BY <3>1, <3>2
  <2>2. Pos(OldFrom(M))' = Pos(F)'
    BY <1>4 DEF Pos
  <2> QED
    BY <2>1, <2>2 DEF OldKept
<1>15. ASSUME NEW q \in RowSet, Turn(q) < P PROVE Pages(q)' = Pages(q)
  <2>1. \A d \in 0..(KNew - 1) : q * KNew + d # c
    BY <1>1, <1>2, <1>3, <1>15, ChunkAt, NewRowAhead, TurnRow
  <2>2. \A d \in 0..(KNew - 1) : Content(q * KNew + d)' = Content(q * KNew + d)
    <3>1. KNew' = KNew
      BY <1>8, FixedMore
    <3> QED
      BY <1>8, <2>1, <3>1
  <2> QED
    BY <1>8, <2>2, PagesStay
<1>16. ASSUME NEW q \in RowSet, Turn(q) < M, NEW x \in Good
       PROVE  (Turn(q) = M - 1 /\ Hot(x, M)) \/ Cell(x, q)' = Pages(q)'[x]
  <2>1. x \in Disks /\ q # row
    BY <1>1, <1>3, <1>16, Sizes DEF Good
  <2>2. (Turn(q) = M - 1 /\ Hot(x, M)) \/ Cell(x, q) = Pages(q)[x]
    BY <1>16 DEF ContentInv, NewSound
  <2>3. Pages(q)' = Pages(q)
    BY <1>1, <1>3, <1>15, <1>16, TurnRow
  <2> QED
    BY <1>10, <2>1, <2>2, <2>3
<1>17. ASSUME Committed \/ Replayable(M) PROVE Pages(RowAt(M - 1))' = Pages(RowAt(M - 1))
  <2>1. M > 0
    <3>1. Committed => M > 0
      <4> SUFFICES ASSUME Committed PROVE M > 0
        OBVIOUS
      <4>1. \E L \in 0..(Rows - 1) : M = L + 1
        BY ThreadAt DEF Moving, Committed
      <4> QED
        BY <1>1, <4>1
    <3> QED
      BY <1>17, <3>1 DEF Replayable
  <2>2. M - 1 \in 0..(Rows - 1)
    BY <1>1, <2>1
  <2> PICK q \in RowSet : q = RowAt(M - 1) /\ Turn(q) = M - 1
    BY <1>1, <2>2, BandAt
  <2>3. Pages(q)' = Pages(q)
    BY <1>1, <1>3, <1>15
  <2>4. RowAt(M - 1)' = q
    BY <1>8, FixedMore
  <2>5. Pages(RowAt(M - 1))' = Pages(q)'
    BY <2>4 DEF Pages, Word
  <2> QED
    BY <2>3, <2>5
<1>18. ASSUME epc \in Moving PROVE Pages(ClaimedRow)' = Pages(ClaimedRow)
  <2> PICK q : q = ClaimedRow
    OBVIOUS
  <2>1. PICK L \in 0..(P - 1) : q = RowAt(L)
    BY <1>2, <1>18
  <2>2. L \in 0..(Rows - 1) /\ L < P
    BY <1>1, <1>3
  <2>3. q \in RowSet /\ Turn(q) = L
    BY <1>1, <2>1, <2>2, BandAt
  <2>4. Pages(q)' = Pages(q)
    BY <1>15, <2>2, <2>3
  <2>5. ClaimedRow' = q
    BY <1>7, <1>8, FixedMore DEF ClaimedRow, BandOf, Write
  <2>6. Pages(ClaimedRow)' = Pages(q)'
    BY <2>5 DEF Pages, Word
  <2> QED
    BY <2>4, <2>6
<1> QED
  BY <1>7, <1>9, <1>14, <1>16, <1>17, <1>18, WriteKeeps

LEMMA UserContent ==
  ASSUME NEW M \in 0..Rows, FrontInv(M), Careful, ContentInv(M), NEW c \in Chunks, UserWrite(c)
  PROVE  ContentInv(M)'
<1>1. Served(c)
  BY DEF UserWrite
<1> QED
  BY <1>1, ServedWhere, UserNew, UserOld


-----------------------------------------------------------------------------
(* Power failure                                                            *)

LEMMA NewestNext ==
  ASSUME Careful, NEW CONSTANT M \in 0..Rows
  PROVE  (FrontInv(M) /\ Replayable(M) => Best(faulty).phase = "COMMIT")'
<1>1. FrontInv(M) /\ Replayable(M) => Best(faulty).phase = "COMMIT"
  BY NewestIs DEF Replayable
<1> QED
  BY <1>1, PTL

\* A write that is torn: of a record, of a unit of the scratch area, of a unit home.
TornRecord ==
  /\ epc \in Phases
  /\ \A x \in NewDisks, s \in 0..1 :
       journal'[x][s] = IF x = who /\ s = Record.seq % 2 THEN NoRecord ELSE journal[x][s]

LEMMA PowerGives ==
  ASSUME NEW M \in 0..Rows, FrontInv(M), Careful, PowerFails
  PROVE  /\ epc' = "down" /\ who' = 0 /\ crashes' = crashes + 1 /\ UNCHANGED <<sb, mem, faulty>>
         /\ UNCHANGED fixed /\ sb.faulty = faulty
         /\ epc \notin {"off", "down", "refused"}
         /\ crashes # 0 => Best(faulty)' = Best(faulty)
         /\ \/ UNCHANGED <<home, scratch, journal>>
            \/ TornRecord /\ UNCHANGED <<home, scratch>>
            \/ /\ epc = "scratch" /\ who \in NewDisks /\ ScratchWrote(who, Torn)
               /\ UNCHANGED <<home, journal>>
            \/ /\ epc \in {"home", "replay"} /\ who \in NewDisks
               /\ HomeWrote(who, ClaimedRow, Torn) /\ UNCHANGED <<scratch, journal>>
<1>1. Shapes
  BY DEF FrontInv
<1>2. /\ epc' = "down" /\ who' = 0 /\ crashes' = crashes + 1 /\ UNCHANGED <<sb, mem>>
      /\ faulty' = sb.faulty /\ UNCHANGED fixed
      /\ epc \notin {"off", "down", "refused"} /\ faulty \subseteq sb.faulty
      /\ crashes # 0 => Best(faulty)' = Best(sb.faulty)
  BY DEF PowerFails, Careful, Sober
<1>3. sb.faulty = faulty
  BY <1>1, <1>2 DEF Shapes
<1>4. who < New.n => who \in NewDisks
  BY <1>1, Sizes DEF Shapes, NewDisks
<1>5. journal' = journal \/ TornRecord
  BY TearShapes DEF TornRecord
<1>6. \/ UNCHANGED <<home, scratch>>
      \/ /\ epc = "scratch" /\ who < New.n /\ ScratchWrote(who, Torn) /\ UNCHANGED <<home, journal>>
      \/ /\ epc \in {"home", "replay"} /\ who < New.n
         /\ HomeWrote(who, ClaimedRow, Torn) /\ UNCHANGED <<scratch, journal>>
  BY DEF PowerFails, TearWrite, ScratchWrote, HomeWrote
<1> QED
  BY <1>2, <1>3, <1>4, <1>5, <1>6

\* The torn record was not what kept the band before from being replayed.
LEMMA StillNotReplayable ==
  ASSUME NEW M \in 0..Rows, FrontInv(M), Careful, ContentInv(M), PowerFails, Replayable(M)'
  PROVE  (Committed \/ Replayable(M)) /\ epc # "scratch"
<1>1. /\ UNCHANGED <<sb, mem, faulty>> /\ UNCHANGED fixed
      /\ crashes # 0 => Best(faulty)' = Best(faulty)
      /\ journal' = journal \/ TornRecord
  BY PowerGives
<1>2. Shapes /\ FrontInv(M)' /\ sb.state = "reshaping" /\ M \in Nat /\ M > 0
  <2>1. FrontInv(M)'
    BY PowerFailsKeeps DEF Careful
  <2> QED
    BY <1>1, <2>1, Sizes DEF Replayable, FrontInv
<1>3. Good' = Good
  BY <1>1, FixedMore DEF Good
<1>4. CASE journal' = journal
  <2>1. Replayable(M)
    BY <1>1, <1>4, JournalStill
  <2> QED
    BY <2>1, StagedNotReplayable DEF Committed
<1>5. CASE TornRecord /\ ~Committed /\ crashes = 0
  <2>1. Cardinality(Behind(M)) <= faults
    BY <1>2, <1>5 DEF ContentInv, Marks
  <2>2. Behind(M) \in SUBSET NewDisks /\ IsFiniteSet(NewDisks) /\ Cardinality(NewDisks) = New.n
        /\ New.n \in Nat /\ faults \in Nat /\ reshape.faults \in Nat /\ faults <= reshape.faults
        /\ reshape.faults + 1 < New.n
    BY <1>2, Sizes, Base DEF Behind, Shapes
  <2>3. IsFiniteSet(Behind(M))
    BY <2>2, FS_Subset
  <2>4. /\ IsFiniteSet(Behind(M) \cup {who})
        /\ Cardinality(Behind(M) \cup {who}) = (IF who \in Behind(M) THEN Cardinality(Behind(M))
                                                ELSE Cardinality(Behind(M)) + 1)
    BY <2>3, FS_AddElement
  <2>5. Cardinality(Behind(M)) \in Nat
    BY <2>3, FS_CardinalityType
  <2>6. PICK x \in NewDisks : x \notin Behind(M) \cup {who}
    <3>1. CASE NewDisks \subseteq Behind(M) \cup {who}
      <4>1. Cardinality(NewDisks) <= Cardinality(Behind(M) \cup {who})
        BY <2>4, <3>1, FS_Subset
      <4> PICK p, q : p = Cardinality(Behind(M)) /\ q = Cardinality(Behind(M) \cup {who})
        OBVIOUS
      <4> QED
        BY <2>1, <2>2, <2>4, <2>5, <4>1
    <3> QED
      BY <3>1
  <2>7. x \in Good /\ ~(journal[x][0].seq < 4 * M) /\ x # who
    BY <2>6 DEF Behind, Good
  <2>8. journal'[x][0] = journal[x][0]
    BY <1>5, <2>6, <2>7 DEF TornRecord
  <2>9. journal[x][0].seq <= 4 * M - 1
    BY <1>1, <1>3, <2>7, <2>8, FixedMore DEF Replayable
  <2>10. journal[x][0].seq \in Int
    <3>1. x \in Disks
      BY <1>2, <2>6, Sizes
    <3>2. Valid(journal[x][0])
      BY <1>2, <3>1 DEF Shapes
    <3> QED
      BY <1>2, <3>2, ValidRecord
  <2> QED
    BY <1>2, <2>7, <2>9, <2>10
<1>6. CASE TornRecord /\ ~Committed /\ crashes # 0
  <2>1. (Best(faulty).phase = "COMMIT")'
    BY <1>2, NewestNext
  <2>2. Best(faulty).phase = "COMMIT"
    BY <1>1, <1>6, <2>1
  <2>3. Replayable(M)
    BY <1>2, <2>2, NewestIs
  <2> QED
    BY <1>6, <2>3 DEF TornRecord, Phases
<1>7. CASE Committed
  BY <1>7 DEF Committed
<1> QED
  BY <1>1, <1>4, <1>5, <1>6, <1>7

LEMMA PowerContent ==
  ASSUME NEW M \in 0..Rows, FrontInv(M), Careful, ContentInv(M), PowerFails
  PROVE  ContentInv(M)'
<1>1. /\ epc' = "down" /\ who' = 0 /\ crashes' = crashes + 1 /\ UNCHANGED <<sb, mem, faulty>>
      /\ UNCHANGED fixed /\ epc \notin {"off", "down", "refused"}
  BY PowerGives
<1>2. \/ UNCHANGED <<home, scratch, journal>>
      \/ TornRecord /\ UNCHANGED <<home, scratch>>
      \/ /\ epc = "scratch" /\ who \in NewDisks /\ ScratchWrote(who, Torn)
         /\ UNCHANGED <<home, journal>>
      \/ /\ epc \in {"home", "replay"} /\ who \in NewDisks
         /\ HomeWrote(who, ClaimedRow, Torn) /\ UNCHANGED <<scratch, journal>>
  BY PowerGives
<1>3. Shapes /\ M \in Nat /\ NewDisks \subseteq Disks /\ crashes \in Nat
  BY Sizes DEF FrontInv, Shapes
<1>4. Good' = Good /\ \A row : Pages(row)' = Pages(row) /\ Turn(row)' = Turn(row)
  BY <1>1, MemStays, FixedMore DEF Good
<1>5. \A x \in NewDisks, s \in 0..1 : journal'[x][s] \in {journal[x][s], NoRecord}
  BY <1>2 DEF TornRecord
<1>6. Replayable(M) => Replayable(M)'
  <2>1. Replayable(M) => -1 <= 4 * M - 1
    BY <1>3 DEF Replayable
  <2>2. \A x \in Good : x \in NewDisks
    BY DEF Good
  <2> QED
    BY <1>1, <1>4, <1>5, <2>1, <2>2 DEF Replayable, NoRecord
\* The home cells, but for the one that is torn.
<1>7. /\ FunctionOn(home, Cells)'
      /\ \A x \in Disks, row \in RowSet :
           \/ Cell(x, row)' = Cell(x, row)
           \/ epc \in {"home", "replay"} /\ row = RowAt(M - 1) /\ Turn(row) = M - 1
  <2>1. CASE home' = home
    BY <1>1, <2>1, FixedMore DEF ContentInv, Stores, FunctionOn, Cell
  <2>2. CASE epc \in {"home", "replay"} /\ who \in NewDisks /\ HomeWrote(who, ClaimedRow, Torn)
    <3> PICK w \in Disks : w = who
      BY <1>3, <2>2
    <3> PICK v : v = Torn
      OBVIOUS
    <3>1. ClaimedRow = RowAt(M - 1) /\ RowAt(M - 1) \in RowSet /\ Turn(RowAt(M - 1)) = M - 1
      BY <2>2, BandHome
    <3> PICK r \in RowSet : r = ClaimedRow
      BY <3>1
    <3>2. HomeWrote(w, r, v) /\ FunctionOn(home, Cells)
      BY <2>2 DEF ContentInv, Stores
    <3>3. /\ FunctionOn(home, Cells)'
          /\ \A x \in Disks, row \in RowSet :
               Cell(x, row)' = IF x = w /\ row = r THEN v ELSE Cell(x, row)
      BY <1>1, <3>2, HomeWritten
    <3> QED
      BY <2>2, <3>1, <3>3
  <2> QED
    BY <1>2, <2>1, <2>2
<1>8. Stores'
  <2>1. FunctionOn(mem, Chunks)'
    BY <1>1, FixedMore DEF ContentInv, Stores, FunctionOn
  <2>2. CASE scratch' = scratch
    BY <1>1, <1>7, <2>1, <2>2, FixedMore DEF ContentInv, Stores, FunctionOn
  <2>3. CASE who \in NewDisks /\ ScratchWrote(who, Torn)
    <3> PICK w \in Disks : w = who
      BY <1>3, <2>3
    <3> PICK v : v = Torn
      OBVIOUS
    <3>1. ScratchWrote(w, v) /\ FunctionOn(scratch, Disks)
      BY <2>3 DEF ContentInv, Stores
    <3>2. FunctionOn(scratch, Disks)'
      BY <1>1, <3>1, ScratchWritten
    <3> QED
      BY <1>7, <2>1, <3>2 DEF Stores
  <2> QED
    BY <1>2, <2>2, <2>3
<1>9. OldSound(M)'
  <2>1. OldFrom(M)' = M /\ OldFrom(M) \in 0..M
    BY <1>1, OldFromIn DEF OldFrom
  <2> PICK F \in 0..M : F = OldFrom(M)
    BY <2>1
  <2>2. ASSUME NEW row \in RowSet, Turn(row) >= M PROVE OldKept(row, Pos(M))'
    <3>1. Turn(row) >= F /\ Turn(row) # M - 1
      BY <1>3, <2>2, TurnRow
    <3>2. OldKept(row, Pos(F))
      BY <3>1 DEF ContentInv, OldSound
    <3>3. OldKept(row, Pos(M))
      BY <1>3, <3>2, OldKeptFarther, Sizes
    <3>4. \A x \in Disks : Cell(x, row)' = Cell(x, row)
      BY <1>7, <3>1
    <3>5. KOld' = KOld /\ \A c : Content(c)' = Content(c)
      BY <1>1, MemStays, FixedMore
    <3>6. \A d \in 0..(KOld - 1) : Content(row * KOld + d)' = Content(row * KOld + d)
      BY <3>5
    <3> QED
      BY <1>1, <1>3, <3>3, <3>4, <3>6, OldKeptStays, FixedMore
  <2> QED
    BY <1>1, <2>1, <2>2, FixedMore DEF OldSound
<1>10. NewSound(M)'
  <2>1. ASSUME NEW row \in RowSet, Turn(row) < M, NEW x \in Good
        PROVE  (Turn(row) = M - 1 /\ Hot(x, M)') \/ Cell(x, row)' = Pages(row)[x]
    <3>1. x \in Disks
      BY <1>3 DEF Good
    <3>2. (Turn(row) = M - 1 /\ Hot(x, M)) \/ Cell(x, row) = Pages(row)[x]
      BY <2>1 DEF ContentInv, NewSound
    <3>3. Hot(x, M) \/ epc \in {"home", "replay"} => Replayable(M)
      BY DEF Hot, ContentInv, Marks
    <3>4. Replayable(M) => Hot(x, M)'
      BY <1>1, <1>6 DEF Hot
    <3> QED
      BY <1>7, <2>1, <3>1, <3>2, <3>3, <3>4
  <2> QED
    BY <1>4, <2>1 DEF NewSound
<1>11. ScratchSound(M)'
  <2>1. ASSUME Replayable(M)' PROVE Staged(RowAt(M - 1), 4 * M - 1)'
    <3>1. (Committed \/ Replayable(M)) /\ epc # "scratch" /\ M > 0
      BY <2>1, StillNotReplayable DEF Replayable
    <3>2. Staged(RowAt(M - 1), 4 * M - 1) /\ scratch' = scratch
      BY <1>2, <3>1 DEF ContentInv, ScratchSound
    <3>3. RowAt(M - 1)' = RowAt(M - 1) /\ New' = New /\ KNew' = KNew
      BY <1>1, FixedMore
    <3>4. \A x \in Good, s \in 0..1 :
            journal'[x][s].seq = 4 * M - 1 => journal'[x][s] = journal[x][s]
      <4>1. 4 * M - 1 # -1
        BY <1>3, <3>1
      <4> QED
        BY <1>5, <4>1 DEF NoRecord, Good
    <3> QED
      BY <1>4, <3>2, <3>3, <3>4 DEF Staged, BandCsum
  <2> QED
    BY <1>1, <2>1 DEF ScratchSound, Committed
<1>12. BandSound' /\ Marks(M)'
  BY <1>1, <1>3 DEF BandSound, Moving, Marks, Committed
<1> QED
  BY <1>8, <1>9, <1>10, <1>11, <1>12 DEF ContentInv



-----------------------------------------------------------------------------
(* The invariant holds                                                      *)

LEMMA InitContent ==
  ASSUME Init, Careful
  PROVE  ContentInv(0)
<1>1. FrontInv(0)
  BY InitFront DEF Careful
<1>2. /\ Shapes /\ recovering = {} /\ epc = "off" /\ crashes = 0 /\ faulty = {}
      /\ mem = [c \in Chunks |-> c] /\ sb.state = "old"
      /\ scratch = [x \in Disks |-> Torn]
      /\ home = [x \in Cells |-> IF x.disk < Old.n THEN InitialRow(x.row)[x.disk] ELSE Torn]
  BY <1>1 DEF Init, FrontInv, Shapes
<1>3. /\ KOld \in Nat /\ KOld > 0 /\ Rows \in Nat /\ Old.n \in Nat
      /\ 0..(Old.n - 1) \subseteq Disks
  BY <1>2, Sizes DEF Disks, Backwards
<1>4. Stores
  BY <1>2 DEF Stores, FunctionOn
<1>5. ASSUME NEW row \in RowSet PROVE OldKept(row, Pos(0))
  <2> PICK vals : vals = [d \in 0..(KOld - 1) |-> row * KOld + d]
    OBVIOUS
  <2>1. Vector(Old, vals)
    BY DEF Vector, FunctionOn, KOld
  <2>2. ASSUME NEW x \in 0..(Old.n - 1) PROVE Cell(x, row) = Encode(Old, row, vals)[x]
    <3>1. [disk |-> x, row |-> row] \in Cells /\ x < Old.n
      BY <1>3 DEF Cells
    <3> QED
      BY <1>2, <3>1 DEF Cell, InitialRow
  <2>3. ASSUME NEW d \in 0..(KOld - 1) PROVE vals[d] = Content(row * KOld + d)
    <3>1. row * KOld + d \in Nat /\ (row * KOld + d) \div KOld = row
      BY <1>2, ChunkAt
    <3> PICK c \in Nat : c = row * KOld + d
      BY <3>1
    <3>2. c < Rows * KOld
      <4>1. c \in Int /\ c \div KOld < Rows
        BY <1>3, <3>1 DEF RowSet
      <4> QED
        BY <1>3, <4>1, RowBefore
    <3>3. ~Backwards => c \in Chunks
      BY <1>2, <1>3, <3>2, Base DEF Chunks
    <3> QED
      BY <1>2, <3>3 DEF Content
  <2> QED
    BY <2>1, <2>2, <2>3 DEF OldKept, Holds
<1>6. OldSound(0)
  BY <1>2, <1>5 DEF OldSound, OldFrom
<1>7. NewSound(0)
  <2>1. \A row \in RowSet : ~(Turn(row) < 0)
    BY <1>2, TurnRow
  <2> QED
    BY <2>1 DEF NewSound
<1>8. ScratchSound(0) /\ BandSound
  BY <1>2 DEF ScratchSound, BandSound, Committed, Replayable, Moving
<1>9. Marks(0)
  BY <1>2 DEF Marks
<1> QED
  BY <1>4, <1>6, <1>7, <1>8, <1>9 DEF ContentInv

LEMMA InvStep ==
  ASSUME NEW M \in 0..Rows, Inv(M), Careful, [Next]_vars
  PROVE  \E N \in M..Rows : Inv(N)'
<1>1. M \in M..Rows /\ FrontInv(M) /\ ContentInv(M) /\ Sober
  BY ReshapeAssumption DEF Inv, Careful
<1>2. CASE WriteSuperblock
  <2>1. PICK N \in M..Rows : FrontInv(N)'
    BY <1>1, <1>2, SuperblockAdvances
  <2>2. N = M /\ ContentInv(M)'
    BY <1>1, <1>2, <2>1, SuperblockContent
  <2> QED
    BY <2>1, <2>2 DEF Inv
<1>3. CASE JournalTake
  <2>1. PICK N \in M..Rows : FrontInv(N)'
    BY <1>1, <1>3, TakeAdvances
  <2>2. ContentInv(N)'
    BY <1>1, <1>3, <2>1, TakeContent
  <2> QED
    BY <2>1, <2>2 DEF Inv
<1>4. CASE UNCHANGED vars
  <2>1. FrontInv(M)' /\ ContentInv(M)'
    BY <1>1, <1>4, StutterKeeps, StutterContent
  <2> QED
    BY <1>1, <2>1 DEF Inv
<1>5. CASE \/ StartReshape \/ JournalSkip \/ JournalMisses \/ JournalDone \/ JournalFails
           \/ ReadBand \/ ReadBandFails \/ EndReshape
  <2>1. FrontInv(M)'
    BY <1>1, <1>5, StartKeeps, PassedKeeps, RecordDoneKeeps, RecordFailsKeeps, ReadBandKeeps,
       ReadBandFailsKeeps, EndKeeps
  <2>2. ContentInv(M)'
    BY <1>1, <1>5, StartContent, PassContent, RecordDoneContent, FailsContent, ReadContent,
       ParkContent, EndContent
  <2> QED
    BY <1>1, <2>1, <2>2 DEF Inv
<1>6. CASE \/ WriteUnit \/ WriteUnitFails \/ UnitsWritten \/ PowerFails \/ Assemble
           \/ ReplayUnit \/ ReplayUnitFails \/ ReplayDone \/ \E c \in Chunks : UserWrite(c)
  <2>1. FrontInv(M)'
    BY <1>1, <1>6, WriteUnitKeeps, UnitFailsKeeps, PowerFailsKeeps, AssembleKeeps, ReplayKeeps,
       UserKeeps
  <2>2. ContentInv(M)'
    BY <1>1, <1>6, WriteUnitContent, UnitFailsContent, UnitsWrittenContent, PowerContent,
       AssembleContent, ReplayUnitContent, ReplayEndsContent, UserContent
  <2> QED
    BY <1>1, <2>1, <2>2 DEF Inv
<1> QED
  BY <1>2, <1>3, <1>4, <1>5, <1>6 DEF Next, Sync, Recovery

\* Until the reshape ends, and from one interruption to the next, each row is whole in
\* one of the two geometries or in the scratch area.
THEOREM ContentsHold == ASSUME Careful PROVE Spec => []\E M \in 0..Rows : Inv(M)
<1> DEFINE I == \E M \in 0..Rows : Inv(M)
<1>1. Init => I
  <2> SUFFICES ASSUME Init PROVE Inv(0)
    BY ReshapeAssumption
  <2> QED
    BY InitFront, InitContent DEF Inv, Careful
<1>2. I /\ [Next]_vars => I'
  <2> SUFFICES ASSUME I, [Next]_vars PROVE I'
    OBVIOUS
  <2>1. PICK M \in 0..Rows : Inv(M)
    OBVIOUS
  <2>2. PICK N \in M..Rows : Inv(N)'
    BY <2>1, InvStep
  <2>3. N \in 0..Rows
    BY ReshapeAssumption
  <2> QED
    BY <2>2, <2>3
<1> QED
  BY <1>1, <1>2, PTL DEF Spec


-----------------------------------------------------------------------------
(* What is read                                                             *)

LEMMA RowNewWhole ==
  ASSUME NEW M \in 0..Rows, FrontInv(M), Careful, ContentInv(M), NEW c \in Chunks,
         Turn(c \div KNew) < M, \A x \in Good : ~(Turn(c \div KNew) = M - 1 /\ Hot(x, M)),
         NEW lost, faulty \subseteq lost, Cardinality(Missing(New, lost)) <= New.m
  PROVE  ChunkValue(c, New, lost) = mem[c]
<1> PICK row, d : row = c \div KNew /\ d = c % KNew
  OBVIOUS
<1>1. Shapes /\ row \in RowSet /\ d \in 0..(KNew - 1) /\ c = row * KNew + d
  BY RowsOf DEF FrontInv
<1>2. Holds(New, row, Word(row))
  BY <1>1 DEF Holds, ContentInv, NewSound, Pages, Good, NewDisks
<1>3. Reconstruct(New, row, RowCells(New, row), lost) = Word(row)
  BY <1>1, <1>2, VectorNew
<1>4. ChunkValue(c, New, lost) = Word(row)[d]
  BY <1>3 DEF ChunkValue, KNew
<1>5. Word(row)[d] = Content(c)
  BY <1>1 DEF Word
<1> QED
  BY <1>4, <1>5 DEF Content

LEMMA RowOldWhole ==
  ASSUME NEW M \in 0..Rows, FrontInv(M), Careful, ContentInv(M), NEW c \in Chunks,
         NEW P \in 0..Rows, P >= OldFrom(M), Ahead(c, Pos(P)),
         NEW lost, faulty \subseteq lost, Cardinality(Missing(Old, lost)) <= Old.m
  PROVE  ChunkValue(c, Old, lost) = mem[c]
<1> PICK row, d : row = c \div KOld /\ d = c % KOld
  OBVIOUS
<1>1. /\ Shapes /\ c \in Nat /\ row \in RowSet /\ d \in 0..(KOld - 1) /\ c = row * KOld + d
      /\ OldFrom(M) \in 0..Rows
  <2>1. Shapes /\ Rows \in Nat
    BY Sizes DEF FrontInv
  <2>2. OldFrom(M) \in 0..M
    BY OldFromIn
  <2> QED
    BY <2>1, <2>2, RowsOf
<1>2. Turn(row) >= P /\ Turn(row) \in Int
  BY <1>1, OldRowAhead, TurnRow
<1>3. Turn(row) >= OldFrom(M)
  BY <1>1, <1>2
<1>4. Ahead(c, Pos(OldFrom(M)))
  BY <1>1, AheadOfBoth
<1>5. PICK vals : /\ Vector(Old, vals) /\ Holds(Old, row, vals)
                  /\ \A e \in 0..(KOld - 1) :
                       Ahead(row * KOld + e, Pos(OldFrom(M))) => vals[e] = Content(row * KOld + e)
  BY <1>1, <1>3 DEF ContentInv, OldSound, OldKept
<1>6. Reconstruct(Old, row, RowCells(Old, row), lost) = vals
  BY <1>1, <1>5, VectorOld
<1>7. ChunkValue(c, Old, lost) = vals[d]
  BY <1>6 DEF ChunkValue, KOld
<1>8. vals[d] = Content(c)
  BY <1>1, <1>4, <1>5
<1> QED
  BY <1>7, <1>8 DEF Content

LEMMA AllAhead ==
  ASSUME Shapes, Careful, NEW c \in Chunks
  PROVE  Ahead(c, Pos(0))
<1>1. c \in Nat /\ c < Size /\ Size \in Nat
  BY Base DEF Chunks
<1>2. Pos(0) = Start
  BY Ends
<1> QED
  BY <1>1, <1>2 DEF Ahead, Start

LEMMA HotReplays ==
  ASSUME NEW M \in 0..Rows, ContentInv(M), NEW x, Hot(x, M)
  PROVE  Replayable(M)
BY DEF Hot, ContentInv, Marks

LEMMA ServedIsLast ==
  ASSUME NEW M \in 0..Rows, Inv(M), Careful
  PROVE  ServesLastWrite
<1> SUFFICES ASSUME NEW c \in Chunks, Served(c)
             PROVE  ChunkValue(c, LiveGeometry(c), Unreadable) = mem[c]
  BY DEF ServesLastWrite
<1>1. /\ FrontInv(M) /\ ContentInv(M) /\ Shapes /\ Unreadable = faulty
      /\ M \in Nat /\ Rows \in Nat /\ Running
      /\ Cardinality(Missing(Old, faulty)) <= Old.m
      /\ Cardinality(Missing(New, faulty)) <= New.m
  BY FaultyFew, Sizes DEF Inv, FrontInv, Shapes, Unreadable, Served
<1>2. CASE LiveGeometry(c) = New /\ BehindTheWalk(c, M)
  <2>1. \A x \in Good : ~(Turn(c \div KNew) = M - 1 /\ Hot(x, M))
    BY <1>1, <1>2 DEF BehindTheWalk, Hot, Running, Committed
  <2> QED
    BY <1>1, <1>2, <2>1, RowNewWhole DEF BehindTheWalk
<1>3. CASE LiveGeometry(c) = Old /\ BeforeTheWalk(c, M)
  <2>1. PICK P \in M..Rows : Ahead(c, Pos(P))
    BY <1>3 DEF BeforeTheWalk
  <2>2. P \in 0..Rows /\ P >= OldFrom(M)
    BY <1>1, <2>1 DEF OldFrom
  <2> QED
    BY <1>1, <1>3, <2>1, <2>2, RowOldWhole
<1> QED
  BY <1>1, <1>2, <1>3, ServedWhere


-----------------------------------------------------------------------------
(* What an assembly would find without some more members                    *)

\* No more members lost, on top of the writes that failed, than the array tolerates.
Bearable(lost) ==
  /\ lost \subseteq Disks
  /\ Cardinality(lost) + faults <= Tolerated
  /\ crashes = 0 \/ Best(lost \cup faulty) = Best(faulty)

LEMMA JoinedFew ==
  ASSUME Shapes, NEW A, A \subseteq Disks, NEW B, B \subseteq Disks
  PROVE  /\ IsFiniteSet(A \cup B) /\ Cardinality(A \cup B) \in Nat
         /\ Cardinality(A) \in Nat /\ Cardinality(B) \in Nat
         /\ Cardinality(A \cup B) <= Cardinality(A) + Cardinality(B)
<1>1. IsFiniteSet(A) /\ IsFiniteSet(B)
  BY Sizes, FS_Subset
<1>2. /\ IsFiniteSet(A \cup B) /\ IsFiniteSet(A \cap B)
      /\ Cardinality(A \cup B) = Cardinality(A) + Cardinality(B) - Cardinality(A \cap B)
  BY <1>1, FS_Union, FS_Intersection
<1>3. /\ Cardinality(A) \in Nat /\ Cardinality(B) \in Nat /\ Cardinality(A \cap B) \in Nat
      /\ Cardinality(A \cup B) \in Nat
  BY <1>1, <1>2, FS_CardinalityType
<1> PICK a, b, i, u : /\ a = Cardinality(A) /\ b = Cardinality(B)
                      /\ i = Cardinality(A \cap B) /\ u = Cardinality(A \cup B)
  OBVIOUS
<1>4. u <= a + b
  BY <1>2, <1>3
<1> QED
  BY <1>2, <1>3, <1>4

LEMMA LostFew ==
  ASSUME Shapes, Careful, NEW lost, Bearable(lost)
  PROVE  /\ faulty \subseteq lost \cup faulty
         /\ Cardinality(Missing(Old, lost \cup faulty)) <= Old.m
         /\ Cardinality(Missing(New, lost \cup faulty)) <= New.m
<1>1. /\ lost \subseteq Disks /\ faulty \subseteq Disks /\ Cardinality(faulty) <= faults
      /\ Cardinality(lost) + faults <= Tolerated /\ faults \in Nat
  BY Sizes DEF Bearable, Shapes
<1>2. Tolerated \in Nat
  BY Base, SoundGeometry DEF Tolerated, Min2
<1> PICK a, b, u : /\ a = Cardinality(lost) /\ b = Cardinality(faulty)
                   /\ u = Cardinality(lost \cup faulty)
  OBVIOUS
<1>3. a \in Nat /\ b \in Nat /\ u \in Nat /\ u <= a + b
  BY <1>1, JoinedFew
<1>4. u <= Tolerated
  BY <1>1, <1>2, <1>3
<1>5. lost \cup faulty \subseteq Disks
  BY <1>1
<1> QED
  BY <1>4, <1>5, FewMissing

\* Some member is neither lost nor in a set no larger than the failed writes.
LEMMA SomeoneLeft ==
  ASSUME Shapes, Careful, NEW lost, Bearable(lost),
         NEW B, B \subseteq NewDisks, Cardinality(B) <= faults
  PROVE  \E x \in NewDisks : x \notin lost /\ x \notin B
<1>1. /\ lost \subseteq Disks /\ Cardinality(lost) + faults <= Tolerated /\ faults \in Nat
      /\ B \subseteq Disks /\ IsFiniteSet(NewDisks) /\ Cardinality(NewDisks) = New.n
  BY Sizes DEF Bearable, Shapes
<1>2. Tolerated \in Nat /\ New.n \in Nat /\ Tolerated < New.n
  <2>1. Sound(Old) /\ Sound(New)
    BY Base
  <2>2. New.m \in Nat /\ Old.m \in Nat /\ New.n \in Nat /\ New.m < New.n
    BY <2>1 DEF Sound
  <2> QED
    BY <2>2 DEF Tolerated, Min2
<1> PICK a, b, u : /\ a = Cardinality(lost) /\ b = Cardinality(B)
                   /\ u = Cardinality(lost \cup B)
  OBVIOUS
<1>3. a \in Nat /\ b \in Nat /\ u \in Nat /\ u <= a + b /\ IsFiniteSet(lost \cup B)
  BY <1>1, JoinedFew
<1>4. CASE NewDisks \subseteq lost \cup B
  <2>1. New.n <= u
    BY <1>1, <1>3, <1>4, FS_Subset
  <2> QED
    BY <1>1, <1>2, <1>3, <2>1
<1> QED
  BY <1>4

LEMMA ReadableAt ==
  ASSUME NEW lost, NEW b \in Readable(lost)
  PROVE  \E y \in NewDisks \ lost, t \in 0..1 : b = journal[y][t]
BY DEF Readable

LEMMA BestLeft ==
  ASSUME NEW M \in 0..Rows, FrontInv(M), Careful, sb.state = "reshaping",
         NEW lost, Bearable(lost)
  PROVE  LET b == Best(lost \cup faulty)
         IN  /\ b \in Readable(lost \cup faulty) /\ Valid(b) /\ b.seq \in Int
             /\ Level(b) \in 0..M
             /\ \A x \in NewDisks, s \in 0..1 :
                  x \notin lost \cup faulty => journal[x][s].seq <= b.seq
<1> PICK L : L = lost \cup faulty
  OBVIOUS
<1>1. Shapes /\ Settled(M) /\ Careful
  BY DEF FrontInv
<1>2. NewDisks \ L # {}
  <2>1. faulty \cap NewDisks \in SUBSET faulty
    OBVIOUS
  <2>2. IsFiniteSet(faulty) /\ Cardinality(faulty) \in Nat
    BY <1>1, MemberLeft DEF Careful
  <2>3. /\ IsFiniteSet(faulty \cap NewDisks)
        /\ Cardinality(faulty \cap NewDisks) <= Cardinality(faulty)
    BY <2>1, <2>2, FS_Subset
  <2>4. Cardinality(faulty \cap NewDisks) \in Nat
    BY <2>3, FS_CardinalityType
  <2>5. Cardinality(faulty \cap NewDisks) <= faults
    BY <1>1, <2>2, <2>3, <2>4 DEF Shapes
  <2>6. \E x \in NewDisks : x \notin lost /\ x \notin faulty \cap NewDisks
    BY <1>1, <2>5, SomeoneLeft
  <2> QED
    BY <2>6
<1> PICK b : b = Best(L)
  OBVIOUS
<1>3. b \in Readable(L) /\ \A q \in Readable(L) : q.seq <= b.seq
  BY <1>1, <1>2, BestIsNewest
<1>4. PICK y \in NewDisks \ L, t \in 0..1 : b = journal[y][t]
  BY <1>3, ReadableAt
<1>5. y \in Disks
  BY <1>1, Sizes
<1>6. Valid(b) /\ Level(b) <= M
  BY <1>1, <1>4, <1>5 DEF Shapes, Settled
<1>7. b.seq \in Int /\ Level(b) \in 0..Rows
  BY <1>1, <1>6, ValidRecord
<1>8. \A x \in NewDisks, s \in 0..1 : x \notin L => journal[x][s].seq <= b.seq
  <2>1. \A x \in NewDisks, s \in 0..1 : x \notin L => journal[x][s] \in Readable(L)
    BY DEF Readable
  <2> QED
    BY <1>3, <2>1
<1>9. Level(b) \in 0..M
  BY <1>1, <1>6, <1>7, Sizes
<1> QED
  BY <1>3, <1>6, <1>7, <1>8, <1>9

\* The newest record left is of the level settled: a COMMIT has its band staged, and
\* when the band may have to be replayed it is a COMMIT.
Found(b, M) ==
  /\ JournalFrontier(b) = Pos(M)
  /\ b.phase = "COMMIT" => /\ M \in 1..Rows /\ b.seq = 4 * M - 1 /\ b.row = RowAt(M - 1)
                           /\ Staged(RowAt(M - 1), 4 * M - 1)
  /\ Replayable(M) => b.phase = "COMMIT"

\* The COMMIT going out is not on any member left.
FoundBefore(b, M) ==
  /\ epc = "COMMIT" /\ taken /\ M \in 1..Rows
  /\ JournalFrontier(b) = Pos(M - 1) /\ b.phase # "COMMIT"

LEMMA LevelOf ==
  ASSUME Shapes, NEW b, Valid(b), NEW M \in 1..Rows, Level(b) \in 0..M, b.seq >= 4 * M - 1
  PROVE  Level(b) = M /\ JournalFrontier(b) = Pos(M)
<1>1. M \in Nat /\ M > 0 /\ b.seq \in Int
  BY Sizes, ValidRecord
<1>2. M <= Level(b)
  BY <1>1 DEF Level
<1>3. Level(b) = M
  BY <1>1, <1>2
<1> QED
  BY <1>1, <1>3, ValidRecord

LEMMA StageOf ==
  ASSUME Shapes, NEW b, Valid(b), NEW M \in 1..Rows, b.seq = 4 * M - 2
  PROVE  b.phase = "STAGE" /\ JournalFrontier(b) = Pos(M - 1)
<1>1. M \in Nat /\ M > 0 /\ Rows \in Nat
  BY Sizes
<1>2. b # NoRecord /\ b.seq \notin {0, 1}
  BY <1>1 DEF NoRecord
<1>3. PICK T \in 0..(Rows - 1) : RecordOf(b, T)
  BY <1>2 DEF Valid
<1>4. b.phase = "STAGE" /\ T = M - 1
  BY <1>1, <1>3 DEF RecordOf
<1>5. Before(RowAt(T)) = Pos(T)
  BY BandAt
<1> QED
  BY <1>3, <1>4, <1>5 DEF RecordOf, JournalFrontier


LEMMA AssemblyFinds ==
  ASSUME NEW M \in 0..Rows, FrontInv(M), Careful, ContentInv(M), sb.state = "reshaping",
         NEW lost, Bearable(lost)
  PROVE  Found(Best(lost \cup faulty), M) \/ FoundBefore(Best(lost \cup faulty), M)
<1> PICK b : b = Best(lost \cup faulty)
  OBVIOUS
<1>1. /\ Shapes /\ Settled(M) /\ Sober /\ M \in Nat /\ Rows \in Nat
      /\ \E R \in 0..M : sb.rpos = Pos(R)
  BY Sizes DEF FrontInv, Careful
<1>2. /\ Valid(b) /\ b.seq \in Int /\ Level(b) \in 0..M
      /\ \A x \in NewDisks, s \in 0..1 : x \notin lost \cup faulty => journal[x][s].seq <= b.seq
  BY BestLeft
<1>3. Committed \/ Replayable(M) => Staged(RowAt(M - 1), 4 * M - 1)
  BY DEF ContentInv, ScratchSound
<1>4. CASE crashes # 0
  <2>1. b = Best(faulty)
    BY <1>4 DEF Bearable
  <2> QED
    BY <1>1, <1>3, <2>1, SettledFrontier, NewestIs DEF Found
<1>5. CASE crashes = 0 /\ M = 0
  <2>1. Level(b) = 0 /\ JournalFrontier(b) = Pos(0)
    BY <1>1, <1>2, <1>5, ValidRecord
  <2>2. b.phase # "COMMIT"
    BY <1>2, <2>1, CommitLevel
  <2>3. ~Replayable(M)
    BY <1>5 DEF Replayable
  <2> QED
    BY <1>5, <2>1, <2>2, <2>3 DEF Found
<1>6. ASSUME crashes = 0, M # 0
      PROVE  Found(b, M) \/ FoundBefore(b, M)
  <2>1. M \in 1..Rows /\ epc \notin {"down", "replay"}
    BY <1>1, <1>6 DEF Shapes
  <2>2. PICK L \in 0..M : M = (IF Committed THEN L + 1 ELSE L) /\ Standing(L)
    BY <2>1 DEF FrontInv
  <2>3. ASSUME b.seq >= 4 * M - 1, ~Replayable(M) \/ b.seq <= 4 * M - 1,
               Committed \/ b.seq > 4 * M - 1
        PROVE  Found(b, M)
    <3>1. Level(b) = M /\ JournalFrontier(b) = Pos(M)
      BY <1>1, <1>2, <2>1, <2>3, LevelOf
    <3>2. b.phase = "COMMIT" => b.seq = 4 * M - 1 /\ b.row = RowAt(M - 1)
      BY <1>1, <1>2, <2>1, <3>1, CommitOf
    <3>3. b.seq <= 4 * M - 1 => b.phase = "COMMIT"
      BY <1>1, <1>2, <2>1, <3>1, CommitRecord
    <3>4. b.phase = "COMMIT" => Committed
      BY <2>3, <3>2, <1>2, <2>1
    <3> QED
      BY <1>3, <2>1, <2>3, <3>1, <3>2, <3>3, <3>4 DEF Found
  <2>4. ASSUME Replayable(M), b.seq >= 4 * M - 1 PROVE b.seq <= 4 * M - 1
    <3>1. Best(lost \cup faulty) \in Readable(lost \cup faulty)
      BY BestLeft
    <3>2. PICK y \in NewDisks \ (lost \cup faulty), t \in 0..1 : b = journal[y][t]
      BY <3>1 DEF Readable
    <3> QED
      BY <2>4, <3>2 DEF Replayable, Good
  <2>5. CASE ~Committed
    <3>1. Behind(M) \subseteq NewDisks /\ Cardinality(Behind(M)) <= faults
      BY <1>1, <1>6, <2>5 DEF Behind, ContentInv, Marks
    <3>2. PICK x \in NewDisks : x \notin lost /\ x \notin Behind(M)
      BY <1>1, <3>1, SomeoneLeft
    <3>3. x \notin faulty /\ ~(journal[x][0].seq < 4 * M) /\ journal[x][0].seq \in Int
      <4>1. x \in Disks
        BY <1>1, Sizes
      <4>2. Valid(journal[x][0])
        BY <1>1, <4>1 DEF Shapes
      <4> QED
        BY <1>1, <3>2, <4>2, ValidRecord DEF Behind
    <3>4. b.seq >= 4 * M
      BY <1>1, <1>2, <3>2, <3>3
    <3>5. b.seq > 4 * M - 1
      BY <1>1, <1>2, <3>4
    <3> QED
      BY <1>1, <1>2, <2>3, <2>4, <3>5
  <2>6. ASSUME Committed, NEW s \in 0..1, NEW q \in {4 * M - 2, 4 * M - 1}, Few(s, q, New.n)
        PROVE  b.seq >= q
    <3>1. Without(s, q, New.n) \subseteq NewDisks /\ Cardinality(Without(s, q, New.n)) <= faults
      BY <2>6 DEF Without, Few
    <3>2. PICK x \in NewDisks : x \notin lost /\ x \notin Without(s, q, New.n)
      BY <1>1, <3>1, SomeoneLeft
    <3>3. x < New.n
      BY <1>1, Sizes DEF NewDisks
    <3>4. x \notin faulty /\ journal[x][s].seq = q
      BY <3>2, <3>3 DEF Without
    <3>5. q <= b.seq
      BY <1>2, <3>2, <3>4
    <3> QED
      BY <1>1, <1>2, <3>5
  <2>7. CASE epc \in {"home", "DONE"}
    <3>1. Committed /\ L = M - 1
      BY <2>2, <2>7 DEF Committed
    <3>2. Few(1, 4 * M - 1, New.n)
      <4>1. Few(1, 4 * L + 3, New.n) /\ 4 * L + 3 = 4 * M - 1
        BY <2>2, <2>7, <3>1 DEF Standing
      <4> QED
        BY <4>1
    <3>3. b.seq >= 4 * M - 1
      BY <2>6, <3>1, <3>2
    <3> QED
      BY <2>3, <2>4, <3>1, <3>3
  <2>8. CASE epc = "COMMIT" /\ taken
    <3>1. Committed /\ L = M - 1
      BY <2>2, <2>8 DEF Committed
    <3>2. Few(0, 4 * M - 2, New.n)
      <4>1. Few(0, 4 * L + 2, New.n) /\ 4 * L + 2 = 4 * M - 2
        BY <2>2, <2>8, <3>1 DEF Standing
      <4> QED
        BY <4>1
    <3>3. b.seq >= 4 * M - 2
      BY <2>6, <3>1, <3>2
    <3>4. CASE b.seq >= 4 * M - 1
      BY <2>3, <2>4, <3>1, <3>4
    <3>5. CASE ~(b.seq >= 4 * M - 1)
      <4>1. b.seq = 4 * M - 2
        BY <1>1, <1>2, <3>3, <3>5
      <4> QED
        BY <1>1, <1>2, <2>1, <2>8, <4>1, StageOf DEF FoundBefore
    <3> QED
      BY <3>4, <3>5
  <2> QED
    BY <2>5, <2>7, <2>8 DEF Committed
<1> QED
  BY <1>4, <1>5, <1>6

\* Whichever record it finds, each chunk is where it leads to.
LEMMA RecoveredIsLast ==
  ASSUME NEW M \in 0..Rows, FrontInv(M), Careful, ContentInv(M),
         NEW lost, Bearable(lost), NEW c \in Chunks
  PROVE  RecoveredValue(c, lost \cup faulty) = mem[c]
<1> PICK L : L = lost \cup faulty
  OBVIOUS
<1> PICK b : b = Best(L)
  OBVIOUS
<1>1. /\ Shapes /\ M \in Nat /\ Rows \in Nat /\ c \in Nat /\ c \div KNew \in RowSet
      /\ Turn(c \div KNew) \in 0..(Rows - 1) /\ RowAt(Turn(c \div KNew)) = c \div KNew
      /\ OldFrom(M) \in 0..M
  <2>1. Shapes
    BY DEF FrontInv
  <2>2. OldFrom(M) \in 0..M /\ M \in Nat /\ Rows \in Nat
    BY <2>1, OldFromIn, Sizes
  <2>3. c \in Nat /\ c \div KNew \in RowSet
    BY <2>1, RowsOf
  <2> QED
    BY <2>1, <2>2, <2>3, TurnRow
<1>2. /\ faulty \subseteq L
      /\ Cardinality(Missing(Old, L)) <= Old.m /\ Cardinality(Missing(New, L)) <= New.m
  BY <1>1, LostFew
<1>3. CASE sb.state = "old"
  <2>1. RecoveredValue(c, L) = ChunkValue(c, Old, L)
    BY <1>3 DEF RecoveredValue
  <2>2. M = 0
    BY <1>3 DEF FrontInv
  <2>3. 0 \in 0..Rows /\ 0 >= OldFrom(M) /\ Ahead(c, Pos(0))
    BY <1>1, <2>2, AllAhead
  <2> QED
    BY <1>2, <2>1, <2>3, RowOldWhole
<1>4. CASE sb.state = "new"
  <2>1. RecoveredValue(c, L) = ChunkValue(c, New, L)
    BY <1>4 DEF RecoveredValue
  <2>2. Turn(c \div KNew) < M
    BY <1>1, <1>4 DEF FrontInv
  <2>3. \A x \in Good : ~Hot(x, M)
    BY <1>4, HotReplays DEF Replayable
  <2> QED
    BY <1>2, <2>1, <2>2, <2>3, RowNewWhole
<1>5. CASE sb.state = "reshaping"
  <2> DEFINE replayed == b.phase = "COMMIT" /\ b.row = c \div KNew
  <2>1. Found(b, M) \/ FoundBefore(b, M)
    BY <1>5, AssemblyFinds
  <2>2. PICK G \in 0..Rows : /\ JournalFrontier(b) = Pos(G)
                             /\ OldFrom(M) <= G /\ G <= M
                             /\ b.phase = "COMMIT" => G = M
    <3>1. CASE Found(b, M)
      BY <1>1, <3>1 DEF Found
    <3>2. CASE FoundBefore(b, M)
      <4>1. M - 1 \in 0..Rows /\ OldFrom(M) = M - 1
        BY <1>1, <3>2 DEF FoundBefore, OldFrom
      <4> QED
        BY <1>1, <3>2, <4>1 DEF FoundBefore
    <3> QED
      BY <2>1, <3>1, <3>2
  <2>3. Ahead(c, Pos(G)) <=> Turn(c \div KNew) >= G
    BY <1>1, NewRowAhead
  <2>4. replayed => Found(b, M) /\ Turn(c \div KNew) = M - 1
    <3> SUFFICES ASSUME replayed PROVE Found(b, M) /\ Turn(c \div KNew) = M - 1
      OBVIOUS
    <3>1. Found(b, M)
      BY <2>1 DEF FoundBefore
    <3>2. M - 1 \in 0..(Rows - 1) /\ c \div KNew = RowAt(M - 1)
      BY <1>1, <3>1 DEF Found
    <3> QED
      BY <1>1, <3>1, <3>2, BandAt
  <2>5. CASE Ahead(c, Pos(G))
    <3>1. ~replayed
      BY <1>1, <2>2, <2>3, <2>4, <2>5
    <3>2. RecoveredValue(c, L) = ChunkValue(c, Old, L)
      BY <1>5, <2>2, <2>5, <3>1 DEF RecoveredValue, GeometryAt
    <3> QED
      BY <1>1, <1>2, <2>2, <2>5, <3>2, RowOldWhole
  <2>6. CASE ~Ahead(c, Pos(G)) /\ replayed
    <3>1. RecoveredValue(c, L) = (IF ReplayOk(b, L)
             THEN ReplayPages(b.row, L)[DataSlot(New, b.row, c % KNew)].of[1] ELSE Garbage)
      BY <1>5, <2>2, <2>6 DEF RecoveredValue, GeometryAt
    <3>2. /\ M \in 1..Rows /\ b.seq = 4 * M - 1 /\ b.row = RowAt(M - 1)
          /\ Staged(RowAt(M - 1), 4 * M - 1)
      BY <2>4, <2>6 DEF Found
    <3>3. b \in Readable(L)
      BY <1>5, BestLeft
    <3>4. ReplayPages(b.row, L) = Pages(b.row) /\ ReplayOk(b, L)
      BY <1>1, <1>2, <3>2, <3>3, ReplayGives
    <3> PICK row, d : row = c \div KNew /\ d = c % KNew
      OBVIOUS
    <3>5. b.row = row /\ row \in Int /\ d \in 0..(KNew - 1) /\ c = row * KNew + d
      BY <1>1, <2>6, RowsOf DEF RowSet
    <3>6. Pages(row)[DataSlot(New, row, d)] = Data(Word(row)[d])
      <4>1. Sound(New) /\ Vector(New, Word(row)) /\ d \in 0..(DataDisks(New) - 1)
        BY <1>1, <3>5, Base, WordVector DEF KNew
      <4> QED
        BY <3>5, <4>1, EncodeData DEF Pages
    <3>7. Data(Word(row)[d]).of[1] = Word(row)[d]
      BY DEF Data
    <3>8. Word(row)[d] = Content(c)
      BY <3>5 DEF Word
    <3> QED
      BY <3>1, <3>4, <3>5, <3>6, <3>7, <3>8 DEF Content
  <2>7. CASE ~Ahead(c, Pos(G)) /\ ~replayed
    <3>1. RecoveredValue(c, L) = ChunkValue(c, New, L)
      BY <1>5, <2>2, <2>7 DEF RecoveredValue, GeometryAt
    <3>2. Turn(c \div KNew) < M
      BY <1>1, <2>2, <2>3, <2>7
    <3>3. ASSUME NEW x \in Good, Turn(c \div KNew) = M - 1, Hot(x, M) PROVE FALSE
      <4>1. Replayable(M)
        BY <3>3, HotReplays
      <4>2. ~FoundBefore(b, M)
        <5> SUFFICES ASSUME FoundBefore(b, M) PROVE FALSE
          OBVIOUS
        <5>1. JournalFrontier(b) = Pos(M - 1) /\ M - 1 \in 0..Rows
          BY <1>1 DEF FoundBefore
        <5>2. G = M - 1
          BY <1>1, <2>2, <5>1, PosOrder
        <5> QED
          BY <1>1, <2>3, <2>7, <3>3, <5>2
      <4>3. b.phase = "COMMIT" /\ b.row = RowAt(M - 1)
        BY <2>1, <4>1, <4>2 DEF Found
      <4>4. RowAt(M - 1) = c \div KNew
        BY <1>1, <3>3
      <4> QED
        BY <2>7, <4>3, <4>4
    <3> QED
      BY <1>2, <3>1, <3>2, <3>3, RowNewWhole
  <2> QED
    BY <2>5, <2>6, <2>7
<1> QED
  BY <1>1, <1>3, <1>4, <1>5 DEF Shapes


-----------------------------------------------------------------------------
(* The theorems                                                             *)

\* A running array serves every chunk as it was last written, from the geometry that
\* reshape_safe and reshape_progress choose (raid5_make_request), failed members or not.
THEOREM ServesLast == ASSUME Careful PROVE Spec => []ServesLastWrite
<1>1. (\E M \in 0..Rows : Inv(M)) => ServesLastWrite
  BY ServedIsLast
<1> QED
  BY <1>1, ContentsHold, PTL

\* Wherever power fails, in a replay too, the next assembly finds the band that a COMMIT
\* names in the scratch area, under its checksum (raidkm_reshape_replay_commit).
THEOREM Assembles == ASSUME Careful PROVE Spec => []AssemblySucceeds
<1>1. (\E M \in 0..Rows : Inv(M)) => AssemblySucceeds
  BY DEF Inv, ContentInv, Marks, AssemblySucceeds
<1> QED
  BY <1>1, ContentsHold, PTL

\* At every moment of the walk (raidkm_reshape_migrate_band), with as many members lost
\* as the array tolerates: the journal that is left leads to every chunk as last written.
THEOREM OnlyCopy == ASSUME Careful PROVE Spec => []NothingInFlightIsTheOnlyCopy
<1>1. ASSUME NEW M \in 0..Rows, Inv(M) PROVE NothingInFlightIsTheOnlyCopy
  <2> SUFFICES ASSUME NEW lost \in SUBSET Disks, Cardinality(lost) + faults <= Tolerated,
                      LoneRecord \/ crashes = 0 \/ Best(lost \cup faulty) = Best(faulty),
                      NEW c \in Chunks
               PROVE  RecoveredValue(c, lost \cup faulty) = mem[c]
    BY DEF NothingInFlightIsTheOnlyCopy
  <2>1. Bearable(lost)
    BY DEF Bearable, Careful, Sober
  <2> QED
    BY <1>1, <2>1, RecoveredIsLast DEF Inv
<1>2. (\E M \in 0..Rows : Inv(M)) => NothingInFlightIsTheOnlyCopy
  BY <1>1
<1> QED
  BY <1>2, ContentsHold, PTL

=============================================================================
