------------------------ MODULE RaidkmGeometryLemmas ------------------------
(***************************************************************************)
(* What holds of the chunk map for every geometry: a chunk lands on a      *)
(* member of the array in its own row, the engine's layout of a row is the *)
(* stripe path's, and a new row only takes chunks of old rows on its own   *)
(* side of the walk.  First, facts about division.                         *)
(***************************************************************************)
EXTENDS RaidkmGeometry, TLAPS

\* Quotient and remainder, as the placement uses them.
LEMMA Division ==
  ASSUME NEW c \in Int, NEW k \in Nat, k > 0
  PROVE  /\ c \div k \in Int
         /\ c % k \in 0..(k - 1)
         /\ c = k * (c \div k) + (c % k)
OBVIOUS

\* A position lies before a boundary between rows exactly when its row does.
LEMMA RowBefore ==
  ASSUME NEW c \in Int, NEW k \in Nat, k > 0, NEW b \in Int
  PROVE  c < b * k <=> c \div k < b
<1> DEFINE q == c \div k
<1>1. c = k * q + (c % k) /\ c % k \in 0..(k - 1) /\ q \in Int
  BY Division
<1> HIDE DEF q
<1>2. CASE q < b
  <2>1. q + 1 <= b
    BY <1>1, <1>2
  <2>2. k * (q + 1) <= k * b
    BY <1>1, <2>1
  <2>3. k * (q + 1) = k * q + k
    BY <1>1
  <2> QED
    BY <1>1, <1>2, <2>2, <2>3 DEF q
<1>3. CASE q >= b
  <2>1. k * q >= k * b
    BY <1>1, <1>3
  <2> QED
    BY <1>1, <1>3, <2>1 DEF q
<1> QED
  BY <1>1, <1>2, <1>3

\* The chunk with index d of row b is in row b, at index d.
LEMMA RowOf ==
  ASSUME NEW k \in Nat, k > 0, NEW b \in Int, NEW d \in 0..(k - 1)
  PROVE  (b * k + d) \div k = b /\ (b * k + d) % k = d
<1> DEFINE c == b * k + d
<1>1. c \in Int /\ c < (b + 1) * k /\ ~(c < b * k)
  OBVIOUS
<1> HIDE DEF c
<1>2. c \div k \in Int /\ c \div k < b + 1 /\ ~(c \div k < b)
  BY <1>1, RowBefore, Division
<1>3. c \div k = b
  BY <1>2
<1>4. c = k * b + (c % k) /\ c % k \in 0..(k - 1)
  BY <1>1, <1>3, Division
<1>5. c % k = d
  BY <1>4 DEF c
<1> QED
  BY <1>3, <1>5 DEF c

\* A boundary between rows starts its row.
LEMMA RowStart ==
  ASSUME NEW k \in Nat, k > 0, NEW b \in Int
  PROVE  (b * k) \div k = b
<1>1. 0 \in 0..(k - 1) /\ b * k + 0 = b * k
  OBVIOUS
<1> QED
  BY <1>1, RowOf

\* A row takes its position between its two boundaries.
LEMMA RowSpan ==
  ASSUME NEW c \in Int, NEW k \in Nat, k > 0
  PROVE  (c \div k) * k <= c /\ c <= (c \div k) * k + k - 1
BY Division

\* Two steps of less than n from one place, around n slots, meet only when equal.
LEMMA SlotsDistinct ==
  ASSUME NEW n \in Nat, n > 0, NEW x \in Int, NEW a \in 0..(n - 1), NEW b \in 0..(n - 1),
         (x + a) % n = (x + b) % n
  PROVE  a = b
<1> DEFINE q == (x + a) \div n
           s == (x + b) \div n
           rem == (x + a) % n
<1>1. /\ q \in Int /\ s \in Int /\ rem \in Int
      /\ x + a = n * q + rem /\ x + b = n * s + rem
  BY Division
<1> HIDE DEF q, s, rem
<1>2. CASE q = s
  BY <1>1, <1>2
<1>3. CASE q > s
  <2>1. n * q >= n * (s + 1)
    BY <1>1, <1>3
  <2>2. n * (s + 1) = n * s + n
    BY <1>1
  <2> QED
    BY <1>1, <2>1, <2>2
<1>4. CASE s > q
  <2>1. n * s >= n * (q + 1)
    BY <1>1, <1>4
  <2>2. n * (q + 1) = n * q + n
    BY <1>1
  <2> QED
    BY <1>1, <2>1, <2>2
<1> QED
  BY <1>1, <1>2, <1>3, <1>4

\* Going from x by the distance from x to slot i, around n slots, ends at i.
LEMMA SlotReached ==
  ASSUME NEW n \in Nat, n > 0, NEW x \in Int, NEW i \in 0..(n - 1)
  PROVE  /\ (i - x + n) % n \in 0..(n - 1)
         /\ (x + ((i - x + n) % n)) % n = i
<1> DEFINE y == i - x + n
           q == y \div n
           rem == y % n
<1>1. y \in Int
  OBVIOUS
<1>2. q \in Int /\ rem \in 0..(n - 1) /\ y = n * q + rem
  BY <1>1, Division
<1> HIDE DEF q, rem
<1>3. x + rem = (1 - q) * n + i
  BY <1>2
<1>4. ((1 - q) * n + i) % n = i
  BY <1>2, RowOf
<1> QED
  BY <1>2, <1>3, <1>4 DEF rem

-----------------------------------------------------------------------------
Sound(g) == g \in [n : Nat, m : Nat, rot : BOOLEAN] /\ g.m < g.n

\* A sound geometry has slots, and data slots among them.
LEMMA SoundGeometry ==
  ASSUME NEW g, Sound(g)
  PROVE  /\ g.n \in Nat /\ g.n > 0 /\ g.m \in Nat
         /\ DataDisks(g) \in Nat /\ DataDisks(g) > 0
BY DEF Sound, DataDisks

\* The parity position is an integer.
LEMMA PdIdxType ==
  ASSUME NEW g, Sound(g), NEW row \in Int
  PROVE  PdIdx(g, row) \in Int
BY SoundGeometry, Division DEF PdIdx

\* raid5_compute_sector answers with a member of the array and the chunk's row:
\* for every geometry, no chunk is ever sent past the last member.
THEOREM ComputeSectorOnMember ==
  ASSUME NEW g, Sound(g), NEW c \in Int
  PROVE  /\ ComputeSector(g, c).disk \in 0..(g.n - 1)
         /\ ComputeSector(g, c).row = c \div DataDisks(g)
         /\ ComputeSector(g, c) = [disk |-> ComputeSector(g, c).disk,
                                   row |-> c \div DataDisks(g)]
<1>1. c \div DataDisks(g) \in Int /\ c % DataDisks(g) \in Int
  BY SoundGeometry, Division
<1>2. PdIdx(g, c \div DataDisks(g)) \in Int
  BY <1>1, PdIdxType
<1> DEFINE x == PdIdx(g, c \div DataDisks(g)) + g.m + (c % DataDisks(g))
<1>3. x \in Int
  BY <1>1, <1>2, SoundGeometry
<1>4. x % g.n \in 0..(g.n - 1)
  BY <1>3, SoundGeometry, Division
<1> QED
  BY <1>4 DEF ComputeSector

\* raidkm_reshape_row_layout, which the reshape engine uses, and
\* raid5_compute_sector, which the stripe path uses, agree on every row of
\* every geometry: what the engine writes is what requests read.
THEOREM EngineAgrees ==
  ASSUME NEW g, Sound(g), NEW row \in Int, NEW d \in 0..(DataDisks(g) - 1)
  PROVE  ComputeSector(g, row * DataDisks(g) + d)
           = [disk |-> DataSlot(g, row, d), row |-> row]
<1>1. (row * DataDisks(g) + d) \div DataDisks(g) = row
  BY SoundGeometry, RowOf
<1>2. (row * DataDisks(g) + d) % DataDisks(g) = d
  BY SoundGeometry, RowOf
<1> QED
  BY <1>1, <1>2 DEF ComputeSector, DataSlot

\* A chunk's row does not move forward when data disks are added, nor back when
\* they are removed: row r of the target takes its chunks from rows the walk has
\* passed, or from r itself.  This is why a reshape can be done in place.
THEOREM RowsMoveOneWay ==
  ASSUME NEW g, Sound(g), NEW h, Sound(h),
         DataDisks(g) <= DataDisks(h), NEW c \in Nat
  PROVE  ComputeSector(h, c).row <= ComputeSector(g, c).row
<1> DEFINE k == DataDisks(g)
           l == DataDisks(h)
           q == c \div k
<1>1. k \in Nat /\ k > 0 /\ l \in Nat /\ l > 0 /\ k <= l
  BY SoundGeometry
<1>2. q \in Int /\ c < (q + 1) * k
  <2>1. q \in Int
    BY <1>1, Division
  <2>2. q < q + 1 /\ q + 1 \in Int
    BY <2>1
  <2> HIDE DEF k
  <2> QED
    BY <2>1, <2>2, <1>1, RowBefore
<1> HIDE DEF k, l
<1>3. q + 1 > 0
  <2>1. ~(c < 0 * k)
    BY <1>1
  <2>2. ~(q < 0)
    BY <2>1, <1>1, RowBefore
  <2> QED
    BY <2>2, <1>2
<1>4. (q + 1) * k <= (q + 1) * l
  BY <1>1, <1>2, <1>3
<1>5. c < (q + 1) * l
  BY <1>1, <1>2, <1>4
<1>6. c \div l < q + 1
  BY <1>1, <1>2, <1>5, RowBefore
<1>7. c \div l <= q
  BY <1>1, <1>2, <1>6, Division
<1> QED
  BY <1>7, ComputeSectorOnMember DEF k, l

\* No two chunks share a cell, whatever the geometry: raid5_compute_sector never
\* sends two chunks of the array to one place.
THEOREM ComputeSectorInjective ==
  ASSUME NEW g, Sound(g), NEW c \in Int, NEW d \in Int,
         ComputeSector(g, c) = ComputeSector(g, d)
  PROVE  c = d
<1> DEFINE k == DataDisks(g)
           q == c \div k
           x == PdIdx(g, q) + g.m
<1>1. k \in Nat /\ k > 0 /\ g.n \in Nat /\ g.n > 0 /\ k <= g.n
  BY SoundGeometry DEF Sound, DataDisks
<1>2. q = d \div k /\ q \in Int
  BY <1>1, ComputeSectorOnMember, Division
<1>3. c % k \in 0..(k - 1) /\ d % k \in 0..(k - 1) /\ c = k * q + (c % k)
      /\ d = k * q + (d % k)
  BY <1>1, <1>2, Division
<1>4. x \in Int
  BY <1>2, PdIdxType, SoundGeometry
<1>5. (x + (c % k)) % g.n = (x + (d % k)) % g.n
  BY <1>2 DEF ComputeSector
<1> HIDE DEF k, q, x
<1>6. c % k \in 0..(g.n - 1) /\ d % k \in 0..(g.n - 1)
  BY <1>1, <1>3
<1>7. c % k = d % k
  BY <1>1, <1>4, <1>5, <1>6, SlotsDistinct
<1> QED
  BY <1>3, <1>7

\* raid5_compute_blocknr undoes raid5_compute_sector on every data slot of every
\* row of every geometry, and answers 0 exactly for the slots it need not know:
\* those of parity.
THEOREM ComputeBlocknrInverts ==
  ASSUME NEW g, Sound(g), NEW row \in Int, NEW i \in 0..(g.n - 1)
  PROVE  LET c == ComputeBlocknr(g, row, i)
         IN  IF i \in ParitySlots(g, row)
             THEN c = 0
             ELSE c \in RowChunks(g, row)
                    /\ ComputeSector(g, c) = [disk |-> i, row |-> row]
<1> DEFINE k == DataDisks(g)
           pd == PdIdx(g, row)
           rel == (i - pd + g.n) % g.n
           c == row * k + (rel - g.m)
<1>1. g.n \in Nat /\ g.n > 0 /\ g.m \in Nat /\ k \in Nat /\ k = g.n - g.m /\ k > 0
  BY SoundGeometry DEF DataDisks, Sound
<1>2. pd \in Int
  BY PdIdxType
<1>3. rel \in 0..(g.n - 1) /\ (pd + rel) % g.n = i
  BY <1>1, <1>2, SlotReached
<1>4. ComputeBlocknr(g, row, i)
        = IF rel < g.m \/ ComputeSector(g, c) # [disk |-> i, row |-> row] THEN 0 ELSE c
  BY DEF ComputeBlocknr
<1>5. i \in ParitySlots(g, row) <=> rel < g.m
  <2>1. ASSUME i \in ParitySlots(g, row) PROVE rel < g.m
    <3>1. PICK p \in 0..(g.m - 1) : i = (pd + p) % g.n
      BY <2>1 DEF ParitySlots, ParitySlot
    <3>2. p \in 0..(g.n - 1)
      BY <1>1
    <3> HIDE DEF pd, rel
    <3>3. rel = p
      BY <1>1, <1>2, <1>3, <3>1, <3>2, SlotsDistinct
    <3> QED
      BY <1>1, <3>3
  <2>2. ASSUME rel < g.m PROVE i \in ParitySlots(g, row)
    <3>1. rel \in 0..(g.m - 1) /\ i = ParitySlot(g, row, rel)
      BY <1>1, <1>3, <2>2 DEF ParitySlot
    <3> HIDE DEF rel
    <3> QED
      BY <3>1 DEF ParitySlots
  <2> QED
    BY <2>1, <2>2
<1>6. CASE i \in ParitySlots(g, row)
  BY <1>4, <1>5, <1>6
<1>7. CASE i \notin ParitySlots(g, row)
  <2>1. rel - g.m \in 0..(k - 1)
    <3> HIDE DEF rel, k
    <3> QED
      BY <1>1, <1>3, <1>5, <1>7
  <2>2. ComputeSector(g, c) = [disk |-> DataSlot(g, row, rel - g.m), row |-> row]
    BY <2>1, EngineAgrees
  <2>3. DataSlot(g, row, rel - g.m) = i
    <3>1. DataSlot(g, row, rel - g.m) = (pd + g.m + (rel - g.m)) % g.n
      BY DEF DataSlot
    <3> HIDE DEF pd, rel
    <3>2. pd + g.m + (rel - g.m) = pd + rel
      BY <1>1, <1>2, <1>3
    <3> QED
      BY <1>3, <3>1, <3>2
  <2>4. c \in RowChunks(g, row)
    <3>1. RowChunks(g, row) = (row * k)..((row + 1) * k - 1)
      BY DEF RowChunks
    <3> DEFINE a == row * k
               e == rel - g.m
    <3>2. a \in Int /\ (row + 1) * k = a + k
      <4> HIDE DEF k
      <4> QED
        BY <1>1
    <3>3. e \in Int /\ 0 <= e /\ e < k
      BY <1>1, <2>1
    <3>4. c = a + e
      OBVIOUS
    <3>5. RowChunks(g, row) = a..((row + 1) * k - 1)
      BY <3>1
    <3> HIDE DEF a, e, k, c
    <3> QED
      BY <1>1, <3>2, <3>3, <3>4, <3>5
  <2>5. ComputeBlocknr(g, row, i) = c
    BY <1>4, <1>5, <1>7, <2>2, <2>3
  <2> HIDE DEF c, rel
  <2> QED
    BY <1>7, <2>2, <2>3, <2>4, <2>5
<1> QED
  BY <1>6, <1>7
=============================================================================
