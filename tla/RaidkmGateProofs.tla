-------------------------- MODULE RaidkmGateProofs --------------------------
(***************************************************************************)
(* The gate between user I/O and an online reshape holds for every number  *)
(* of requests, every pair of geometries and every size of the array.      *)
(*                                                                         *)
(* GateInv is inductive.  It follows a request from the moment it reads    *)
(* the frontiers to the moment its bio is on a stripe, and says at each    *)
(* point what an arbitrarily old reading of them is still worth.           *)
(*                                                                         *)
(* On it rests the refinement: an array that is being reshaped is a block  *)
(* device, that is, RaidkmGate implements RaidkmBlockDevice.  And what a   *)
(* reshape adds to the array is zeros.                                     *)
(***************************************************************************)
EXTENDS RaidkmGate, RaidkmGeometryLemmas

\* The timing the code leaves to chance (see the README): a mapped bypass read
\* takes its reference before a band moves, and, when the walk is backwards, a
\* request classified during the reshape looks again before end_reshape.
Timely == ~SlowBypass /\ (SlowRecheck => ~Backwards)

\* What the assumptions say of the two geometries.
LEMMA Constants ==
  /\ Sound(Old) /\ Sound(New)
  /\ KOld \in Nat /\ KOld > 0
  /\ KNew \in Nat /\ KNew > 0
  /\ Rows \in Nat /\ Rows > 0
  /\ Rows * KOld \in Nat /\ Rows * KOld > 0 /\ Rows * KOld < MaxSector
  /\ Rows * KNew \in Nat /\ Rows * KNew > 0 /\ Rows * KNew < MaxSector
  /\ MaxSector \in Nat
  /\ Backwards \in BOOLEAN
  /\ IF Backwards THEN KNew <= KOld ELSE KOld <= KNew
<1>1. Sound(Old) /\ Sound(New)
  BY GeometryAssumption DEF Sound
<1>2. KOld \in Nat /\ KOld > 0 /\ KNew \in Nat /\ KNew > 0
  BY <1>1, SoundGeometry DEF KOld, KNew
<1>3. Rows * KOld \in Nat /\ Rows * KOld > 0 /\ Rows * KNew \in Nat /\ Rows * KNew > 0
  BY <1>2, GeometryAssumption
<1>4. Backwards \in BOOLEAN
  BY DEF Backwards
<1> QED
  BY <1>1, <1>2, <1>3, <1>4, GeometryAssumption, BoundAssumption

\* The exposed size fits both geometries, and is the walk's own on a shrink.
LEMMA SizeBounds ==
  /\ Size \in Nat /\ Size > 0
  /\ Size <= Rows * KOld
  /\ Size <= Rows * KNew
  /\ Backwards => Size = Rows * KNew
  /\ 0 \in Chunks
<1>1. Min2(KOld, KNew) = KOld \/ Min2(KOld, KNew) = KNew
  BY DEF Min2
<1>2. Size = IF KOld < KNew THEN Rows * KOld ELSE Rows * KNew
  BY DEF Size, Min2
<1>3. KOld <= KNew => Rows * KOld <= Rows * KNew
  BY Constants
<1>4. KNew <= KOld => Rows * KNew <= Rows * KOld
  BY Constants
<1>5. KOld <= KNew \/ KNew < KOld
  BY Constants
<1>6. Size \in Nat /\ Size > 0 /\ Size <= Rows * KOld /\ Size <= Rows * KNew
  BY <1>2, <1>3, <1>4, <1>5, Constants
<1>7. Backwards => Size = Rows * KNew
  <2>1. KNew = KOld => Rows * KNew = Rows * KOld
    OBVIOUS
  <2> QED
    BY <2>1, <1>2, Constants
<1> QED
  BY <1>6, <1>7 DEF Chunks

\* A chunk of the exposed array is within the capacity of either geometry.
LEMMA ChunkType ==
  ASSUME NEW c \in Chunks
  PROVE  c \in Nat /\ c < Size /\ c < Rows * KOld /\ c < Rows * KNew
BY SizeBounds, Constants DEF Chunks

\* A chunk within a geometry's capacity has a cell, in the row of its stripe.
LEMMA OldCellType ==
  ASSUME NEW c \in Nat, c < Rows * KOld
  PROVE  OldCell(c) \in Cells /\ OldCell(c).row = c \div KOld
<1>1. c \div KOld \in Int /\ c \div KOld < Rows /\ ~(c < 0 * KOld)
  BY Constants, RowBefore, Division
<1>2. ~(c \div KOld < 0)
  BY <1>1, Constants, RowBefore
<1>3. c \div KOld \in 0..(Rows - 1)
  BY <1>1, <1>2, Constants
<1>4. 0..(Old.n - 1) \subseteq Disks
  BY GeometryAssumption DEF Disks
<1> QED
  BY <1>3, <1>4, Constants, ComputeSectorOnMember DEF OldCell, Cells, KOld

\* The same for the geometry the array is moved to.
LEMMA NewCellType ==
  ASSUME NEW c \in Nat, c < Rows * KNew
  PROVE  NewCell(c) \in Cells /\ NewCell(c).row = c \div KNew
<1>1. c \div KNew \in Int /\ c \div KNew < Rows /\ ~(c < 0 * KNew)
  BY Constants, RowBefore, Division
<1>2. ~(c \div KNew < 0)
  BY <1>1, Constants, RowBefore
<1>3. c \div KNew \in 0..(Rows - 1)
  BY <1>1, <1>2, Constants
<1>4. 0..(New.n - 1) \subseteq Disks
  BY GeometryAssumption DEF Disks
<1> QED
  BY <1>3, <1>4, Constants, ComputeSectorOnMember DEF NewCell, Cells, KNew

\* The array starts with a value in every cell.
LEMMA InitialHomeType == InitialHome \in [Cells -> Values]
<1> SUFFICES ASSUME NEW x \in Cells PROVE InitialHome[x] \in Values
  BY DEF InitialHome
<1>1. x.row \in 0..(Rows - 1)
  BY DEF Cells
<1>2. Parity \in Values
  BY Constants, BoundAssumption DEF Values, Parity
<1>3. RowChunks(Old, x.row) \subseteq Values
  <2>1. RowChunks(Old, x.row) = (x.row * KOld)..((x.row + 1) * KOld - 1)
    BY DEF RowChunks, KOld
  <2>2. x.row * KOld >= 0 /\ (x.row + 1) * KOld <= Rows * KOld
    BY <1>1, Constants
  <2> QED
    BY <1>1, <2>1, <2>2, Constants, BoundAssumption DEF Values, Parity
<1>4. CASE x.disk < Old.n /\ x.disk \in DataSlots(Old, x.row)
  <2>1. PICK d \in 0..(DataDisks(Old) - 1) : x.disk = DataSlot(Old, x.row, d)
    BY <1>4 DEF DataSlots
  <2>2. OldCell(x.row * DataDisks(Old) + d) = [disk |-> x.disk, row |-> x.row]
    BY <1>1, <2>1, Constants, EngineAgrees DEF OldCell
  <2>3. x.row * DataDisks(Old) + d \in RowChunks(Old, x.row)
    BY <1>1, Constants DEF RowChunks, KOld
  <2>4. x = [disk |-> x.disk, row |-> x.row]
    BY DEF Cells
  <2>5. \E c \in RowChunks(Old, x.row) : OldCell(c) = x
    BY <2>2, <2>3, <2>4
  <2> QED
    BY <1>3, <1>4, <2>5 DEF InitialHome
<1>5. CASE ~(x.disk < Old.n /\ x.disk \in DataSlots(Old, x.row))
  BY <1>2, <1>5 DEF InitialHome
<1> QED
  BY <1>4, <1>5
-----------------------------------------------------------------------------
(* The walk                                                                 *)

\* The edges of band b, and of its neighbours, lie within the array.
LEMMA BandBounds ==
  ASSUME NEW b \in 0..Rows
  PROVE  /\ b * KNew \in 0..(Rows * KNew)
         /\ b * KNew < MaxSector
         /\ (b * KNew) \div KNew = b
         /\ b < Rows => (b + 1) * KNew <= Rows * KNew
         /\ (b + 1) * KNew = b * KNew + KNew
         /\ (b - 1) * KNew = b * KNew - KNew
<1>1. b \in Int /\ Rows \in Nat /\ KNew \in Nat /\ KNew > 0
  BY Constants
<1>2. b * KNew >= 0 /\ b * KNew <= Rows * KNew
  BY <1>1
<1>3. (b * KNew) \div KNew = b
  BY <1>1, RowStart
<1>4. b < Rows => (b + 1) * KNew <= Rows * KNew
  BY <1>1
<1>5. (b + 1) * KNew = b * KNew + KNew /\ (b - 1) * KNew = b * KNew - KNew
  BY <1>1
<1> QED
  BY <1>1, <1>2, <1>3, <1>4, <1>5, Constants

\* Where the frontiers are while the sync thread walks.
LEMMA WalkPlace ==
  ASSUME gen \in 0..1, FrontierShape, epc \in Walking
  PROVE  /\ gen = 1
         /\ backwards = Backwards
         /\ progress \in 0..(Rows * KNew) /\ progress # MaxSector
         /\ safe \in 0..(Rows * KNew)
         /\ IF Backwards THEN progress <= safe ELSE safe <= progress
<1>1. PICK b \in 0..Rows :
        /\ safe = b * KNew
        /\ IF epc \notin Claiming THEN progress = safe
           ELSE IF Backwards THEN b > 0 /\ progress = (b - 1) * KNew
                             ELSE b < Rows /\ progress = (b + 1) * KNew
  BY DEF FrontierShape
<1>2. safe \in 0..(Rows * KNew)
  BY <1>1, BandBounds
<1>3. gen = 1 /\ progress # MaxSector /\ backwards = Backwards
  BY Constants DEF FrontierShape, Walking, Claiming, Moving
<1>4. CASE epc \notin Claiming
  BY <1>1, <1>2, <1>3, <1>4
<1>5. CASE epc \in Claiming /\ Backwards
  <2>1. b - 1 \in 0..Rows /\ progress = (b - 1) * KNew /\ progress = safe - KNew
    BY <1>1, <1>5, BandBounds, Constants
  <2> QED
    BY <1>2, <1>3, <1>5, <2>1, BandBounds, Constants
<1>6. CASE epc \in Claiming /\ ~Backwards
  <2>1. b + 1 \in 0..Rows /\ progress = (b + 1) * KNew /\ progress = safe + KNew
    BY <1>1, <1>6, BandBounds, Constants
  <2> QED
    BY <1>2, <1>3, <1>6, <2>1, BandBounds, Constants
<1> QED
  BY <1>4, <1>5, <1>6

\* A stripe that lies ahead of a frontier lies ahead of one the walk has passed.
LEMMA AheadOfPassed ==
  ASSUME NEW c \in Chunks, NEW p \in Int, NEW s \in Int,
         backwards \in BOOLEAN,
         IF backwards THEN p <= s ELSE s <= p,
         StripeAhead(c, p)
  PROVE  StripeAhead(c, s)
<1>1. (c \div KOld) * KOld \in Int
  BY ChunkType, Constants, Division
<1> QED
  BY <1>1, Constants DEF StripeAhead, RangeAhead

-----------------------------------------------------------------------------
(* Steps of a request                                                       *)

\* A request that does not move keeps its promises while the frontiers stand still.
LEMMA OtherRequests ==
  ASSUME NEW q \in Requests, RequestShape(q), UNCHANGED <<frontier, epc>>,
         req'[q] = req[q]
  PROVE  RequestShape(q)'
BY DEF RequestShape, frontier, Ahead, StripeAhead, RangeAhead, Moving, Claiming

\* A request that has not been classified, or has been answered, promises nothing.
LEMMA EarlyRequest ==
  ASSUME NEW q \in Requests, req'[q].pc \in {"idle", "new", "gated", "asleep"}
  PROVE  RequestShape(q)'
BY DEF RequestShape

\* A request's step is judged by the request it moves.
LEMMA RequestStep ==
  ASSUME NEW r \in Requests, GateInv,
         UNCHANGED <<frontier, quiesce, engine>>,
         req' \in [Requests -> Request],
         \A q \in Requests \ {r} : req'[q] = req[q],
         RequestShape(r)',
         home' \in [Cells -> Values],
         writes' \in 0..MaxWrites
  PROVE  GateInv'
<1>1. UNCHANGED <<frontier, epc, band>>
  BY DEF engine
<1>2. TypeOK'
  BY <1>1 DEF GateInv, TypeOK, frontier, engine
<1>3. FrontierShape'
  BY <1>1 DEF GateInv, FrontierShape, frontier, Walking, Claiming, Moving
<1>4. BandShape'
  BY <1>1 DEF GateInv, BandShape, frontier, ClaimedRow
<1>5. \A q \in Requests : RequestShape(q)'
  BY <1>1, OtherRequests DEF GateInv
<1> QED
  BY <1>2, <1>3, <1>4, <1>5 DEF GateInv

\* A slot without a request is well formed.
LEMMA IdleRequestType == IdleRequest \in Request
BY Constants, BoundAssumption, SizeBounds
   DEF IdleRequest, Request, Phases, Values, Parity

\* A new request has read no frontier yet.
LEMMA SubmitStep ==
  ASSUME NEW r \in Requests, GateInv, Submit(r)
  PROVE  GateInv'
<1> USE DEF GateInv, TypeOK
<1>1. PICK c \in Chunks :
        \/ \E pc \in {"gated", "new"} :
             /\ req' = [req EXCEPT ![r] = [IdleRequest EXCEPT
                          !.pc = pc, !.op = "read", !.chunk = c,
                          !.onq = progress # MaxSector]]
             /\ UNCHANGED writes
        \/ /\ writes < MaxWrites
           /\ writes' = writes + 1
           /\ req' = [req EXCEPT ![r] = [IdleRequest EXCEPT
                        !.pc = "new", !.op = "write", !.chunk = c,
                        !.val = Rows * KOld + writes,
                        !.onq = progress # MaxSector]]
  BY DEF Submit
<1>2. writes' \in 0..MaxWrites
  BY <1>1, BoundAssumption
<1>3. writes < MaxWrites => Rows * KOld + writes \in Values
  BY Constants, BoundAssumption DEF Values, Parity
<1>4. req'[r] \in Request /\ req'[r].pc \in {"new", "gated"}
  <2>1. ASSUME NEW pc \in {"gated", "new"},
               req'[r] = [IdleRequest EXCEPT !.pc = pc, !.op = "read", !.chunk = c,
                                             !.onq = progress # MaxSector]
        PROVE  req'[r] \in Request /\ req'[r].pc \in {"new", "gated"}
    BY <2>1, IdleRequestType DEF Request, Phases, IdleRequest
  <2>2. ASSUME writes < MaxWrites,
               req'[r] = [IdleRequest EXCEPT !.pc = "new", !.op = "write", !.chunk = c,
                                             !.val = Rows * KOld + writes,
                                             !.onq = progress # MaxSector]
        PROVE  req'[r] \in Request /\ req'[r].pc \in {"new", "gated"}
    BY <1>3, <2>2, IdleRequestType DEF Request, Phases, IdleRequest
  <2> QED
    BY <1>1, <2>1, <2>2
<1>5. req' \in [Requests -> Request] /\ \A q \in Requests \ {r} : req'[q] = req[q]
  BY <1>1, <1>4
<1>6. UNCHANGED <<frontier, quiesce, engine, home>>
  BY DEF Submit
<1> QED
  BY <1>2, <1>4, <1>5, <1>6, EarlyRequest, RequestStep

\* Any request that a step takes back to the start, or answers.
LEMMA BackStep ==
  ASSUME NEW r \in Requests, GateInv,
         UNCHANGED <<frontier, quiesce, engine, writes>>,
         home' \in [Cells -> Values],
         NEW x \in Request, x.pc \in {"idle", "new", "gated"},
         req' = [req EXCEPT ![r] = x]
  PROVE  GateInv'
<1>1. req' \in [Requests -> Request] /\ req'[r] = x
      /\ \A q \in Requests \ {r} : req'[q] = req[q]
  BY DEF GateInv, TypeOK
<1>2. writes' \in 0..MaxWrites
  BY DEF GateInv, TypeOK
<1> QED
  BY <1>1, <1>2, EarlyRequest, RequestStep

\* The classification is right at the moment the frontiers are read.
LEMMA ClassifyStep ==
  ASSUME NEW r \in Requests, GateInv, Classify(r)
  PROVE  GateInv'
<1> DEFINE c == req[r].chunk
           ahead == progress # MaxSector /\ Ahead(c, progress)
<1>1. /\ req[r].pc = "new"
      /\ progress # MaxSector => (Ahead(c, progress) \/ ~Ahead(c, safe))
      /\ req' = [req EXCEPT ![r].pc = "lookup", ![r].old = ahead \/ CurrentIsOld,
                            ![r].seq = gen]
      /\ UNCHANGED <<frontier, quiesce, engine, home, writes>>
  BY DEF Classify, InsideBand
<1>2. req[r] \in Request /\ gen \in 0..1 /\ req \in [Requests -> Request]
  BY DEF GateInv, TypeOK
<1>3. (ahead \/ CurrentIsOld) \in BOOLEAN
  BY DEF CurrentIsOld, Ahead
<1>4. /\ req'[r] = [req[r] EXCEPT !.pc = "lookup", !.old = ahead \/ CurrentIsOld,
                                  !.seq = gen]
      /\ \A q \in Requests \ {r} : req'[q] = req[q]
      /\ req' = [req EXCEPT ![r] = req'[r]]
  BY <1>1, <1>2
<1>5. /\ req'[r].pc = "lookup" /\ req'[r].chunk = c /\ req'[r].seq = gen
      /\ req'[r].old = (ahead \/ CurrentIsOld)
      /\ req'[r] \in Request
  BY <1>2, <1>3, <1>4 DEF Request, Phases
<1>6. req' \in [Requests -> Request]
  BY <1>2, <1>4, <1>5
<1>7. RequestShape(r)'
  <2>1. gen' = gen /\ progress' = progress /\ safe' = safe /\ backwards' = backwards
    BY <1>1 DEF frontier
  <2>2. Ahead(c, safe)' = Ahead(c, safe) /\ c \in Chunks
    BY <2>1, <1>2, <1>5 DEF Ahead, Request
  <2>3. gen \in 0..1 /\ (gen = 0 => req'[r].old)
    BY <1>2, <1>5 DEF CurrentIsOld
  <2>4. ~req'[r].old => progress = MaxSector \/ ~Ahead(c, safe)
    BY <1>1, <1>5
  <2>5. gen = 1 /\ req'[r].old => progress # MaxSector
    <3> SUFFICES ASSUME gen = 1, progress = MaxSector PROVE ~req'[r].old
      OBVIOUS
    <3>1. ~(ahead \/ CurrentIsOld)
      BY DEF CurrentIsOld
    <3> HIDE DEF ahead
    <3> QED
      BY <3>1, <1>5
  <2> HIDE DEF ahead
  <2> QED
    BY <1>5, <2>1, <2>3, <2>4, <2>5 DEF RequestShape, Ahead
<1> QED
  BY <1>1, <1>4, <1>6, <1>7, RequestStep DEF GateInv, TypeOK

\* A request that sleeps off the queue promises nothing.
LEMMA SleepOffQueueStep ==
  ASSUME NEW r \in Requests, GateInv, SleepOffQueue(r)
  PROVE  GateInv'
<1>1. /\ req' = [req EXCEPT ![r].pc = "asleep"]
      /\ UNCHANGED <<frontier, quiesce, engine, home, writes>>
      /\ req \in [Requests -> Request] /\ req[r] \in Request /\ "asleep" \in Phases
      /\ home \in [Cells -> Values] /\ writes \in 0..MaxWrites
  BY DEF SleepOffQueue, GateInv, TypeOK, Phases
<1>2. req'[r] \in Request /\ req'[r].pc = "asleep" /\ req' \in [Requests -> Request]
      /\ \A q \in Requests \ {r} : req'[q] = req[q]
  BY <1>1 DEF Request
<1> QED
  BY <1>1, <1>2, EarlyRequest, RequestStep

\* A request that only moves on, its classification as it was.
LEMMA OnwardStep ==
  ASSUME NEW r \in Requests, GateInv, NEW pc \in Phases,
         UNCHANGED <<frontier, quiesce, engine, home, writes>>,
         req' = [req EXCEPT ![r].pc = pc],
         RequestShape(r)'
  PROVE  GateInv'
<1>1. req \in [Requests -> Request]
  BY DEF GateInv, TypeOK
<1>2. [req[r] EXCEPT !.pc = pc] \in Request
  BY <1>1 DEF Request
<1>3. req' \in [Requests -> Request] /\ \A q \in Requests \ {r} : req'[q] = req[q]
  BY <1>1, <1>2
<1> QED
  BY <1>3, RequestStep DEF GateInv, TypeOK

\* What a step to the next phase leaves as it was.
LEMMA Moved ==
  ASSUME NEW r \in Requests, req \in [Requests -> Request], NEW pc \in Phases,
         req' = [req EXCEPT ![r].pc = pc]
  PROVE  /\ req'[r].pc = pc
         /\ req'[r].chunk = req[r].chunk
         /\ req'[r].old = req[r].old
         /\ req'[r].seq = req[r].seq
BY DEF Request

\* Getting a stripe changes nothing a request knows.
LEMMA GetStripeStep ==
  ASSUME NEW r \in Requests, GateInv, GetStripe(r)
  PROVE  GateInv'
<1>1. /\ req[r].pc = "lookup"
      /\ req' = [req EXCEPT ![r].pc = "holding"]
      /\ UNCHANGED <<frontier, quiesce, engine, home, writes>>
      /\ req \in [Requests -> Request]
      /\ "holding" \in Phases
  BY DEF GetStripe, GateInv, TypeOK, Phases
<1>2. RequestShape(r)'
  BY <1>1, Moved DEF GateInv, RequestShape, frontier, Ahead
<1> QED
  BY <1>1, <1>2, OnwardStep

\* The second look: only a request whose geometry is still right is admitted.
LEMMA RecheckStep ==
  ASSUME NEW r \in Requests, Timely, GateInv, Recheck(r)
  PROVE  GateInv'
<1> DEFINE c == req[r].chunk
           passed == Previous(r) /\ ~StripeAhead(c, progress)
           stale == passed \/ req[r].seq # gen
<1>1. /\ req[r].pc = "holding"
      /\ \/ stale /\ \E pc \in {"new", "asleep"} : req' = [req EXCEPT ![r].pc = pc]
         \/ ~stale /\ req' = [req EXCEPT ![r].pc = "admitted"]
      /\ UNCHANGED <<frontier, quiesce, engine, home, writes>>
      /\ req \in [Requests -> Request] /\ req[r] \in Request
      /\ {"new", "asleep", "admitted"} \subseteq Phases
      /\ gen \in 0..1
  BY DEF Recheck, GateInv, TypeOK, Phases
<1>2. CASE stale
  <2>1. PICK pc \in {"new", "asleep"} : req' = [req EXCEPT ![r].pc = pc]
    BY <1>1, <1>2
  <2>2. RequestShape(r)'
    BY <1>1, <2>1, Moved, EarlyRequest
  <2> QED
    BY <1>1, <2>1, <2>2, OnwardStep
<1>3. CASE ~stale
  <2>1. req' = [req EXCEPT ![r].pc = "admitted"]
    BY <1>1, <1>3
  <2>2. /\ req'[r].pc = "admitted" /\ req'[r].chunk = c
        /\ req'[r].old = req[r].old /\ req'[r].seq = req[r].seq
    BY <1>1, <2>1, Moved
  <2>3. req[r].seq = gen /\ (Previous(r) => StripeAhead(c, progress))
    BY <1>3
  <2>4. c \in Chunks
    BY <1>1 DEF Request
  <2>5. /\ FrontierShape
        /\ RequestShape(r)
    BY DEF GateInv
  <2>6. ASSUME req[r].seq = 1, req[r].old
        PROVE  /\ progress # MaxSector
               /\ StripeAhead(c, safe)
               /\ StripeAhead(c, progress)
    <3>1. StripeAhead(c, progress)
      BY <2>3, <2>6 DEF Previous
    <3>2. progress # MaxSector
      <4> SUFFICES ASSUME progress = MaxSector PROVE FALSE
        OBVIOUS
      <4>1. SlowRecheck /\ ~Backwards
        BY <1>1, <2>5, <2>6 DEF RequestShape, Timely
      <4>2. ~backwards
        BY <2>5, <4>1 DEF FrontierShape
      <4>3. (c \div KOld) * KOld <= c /\ c < MaxSector /\ c \in Int
        BY <2>4, ChunkType, Constants, RowSpan
      <4>4. (c \div KOld) * KOld \in Int
        BY <2>4, ChunkType, Constants, Division
      <4> QED
        BY <3>1, <4>2, <4>3, <4>4, Constants DEF StripeAhead, RangeAhead
    <3>3. epc \in Walking
      BY <2>5, <3>2 DEF FrontierShape
    <3>4. StripeAhead(c, safe)
      BY <1>1, <2>4, <2>5, <3>1, <3>3, WalkPlace, AheadOfPassed, Constants
    <3> QED
      BY <3>1, <3>2, <3>4
  <2>7. ~req[r].old /\ req[r].seq = 1 => progress = MaxSector \/ ~Ahead(c, safe)
    BY <1>1, <2>5 DEF RequestShape
  <2>8. req[r].seq <= gen /\ (req[r].seq = 0 => req[r].old)
    BY <1>1, <2>5 DEF RequestShape
  <2>9. UNCHANGED <<progress, safe, gen, backwards, epc>>
    BY <1>1 DEF frontier, engine
  <2>10. RequestShape(r)'
    BY <2>2, <2>3, <2>6, <2>7, <2>8, <2>9
       DEF RequestShape, Ahead, StripeAhead, RangeAhead, Moving
  <2> QED
    BY <1>1, <2>1, <2>10, OnwardStep
<1> QED
  BY <1>2, <1>3

\* A request's chunk has a cell in either geometry.
LEMMA CellOfType ==
  ASSUME NEW r \in Requests, req[r] \in Request
  PROVE  /\ CellOf(r) \in Cells
         /\ CellOf(r).row = IF req[r].old THEN req[r].chunk \div KOld
                                          ELSE req[r].chunk \div KNew
<1>1. /\ req[r].chunk \in Nat
      /\ req[r].chunk < Rows * KOld /\ req[r].chunk < Rows * KNew
  BY ChunkType DEF Request
<1> QED
  BY <1>1, OldCellType, NewCellType DEF CellOf

\* An answered request is a well-formed idle one.
LEMMA Reply ==
  ASSUME NEW v \in Values
  PROVE  /\ [IdleRequest EXCEPT !.op = "reply", !.val = v] \in Request
         /\ [IdleRequest EXCEPT !.op = "reply", !.val = v].pc = "idle"
BY IdleRequestType DEF IdleRequest, Request

\* An admitted request reads or replaces one well-formed cell.
LEMMA PerformStep ==
  ASSUME NEW r \in Requests, GateInv, Perform(r)
  PROVE  GateInv'
<1> DEFINE cell == CellOf(r)
           val == IF req[r].op = "read" THEN home[cell] ELSE req[r].val
<1>1. /\ home' = IF req[r].op = "read" THEN home ELSE [home EXCEPT ![cell] = val]
      /\ req' = [req EXCEPT ![r] = [IdleRequest EXCEPT !.op = "reply", !.val = val]]
      /\ UNCHANGED <<frontier, quiesce, engine, writes>>
  BY DEF Perform
<1>2. req[r] \in Request /\ home \in [Cells -> Values]
  BY DEF GateInv, TypeOK
<1>3. cell \in Cells
  BY <1>2, CellOfType
<1>4. val \in Values
  BY <1>2, <1>3 DEF Request
<1> HIDE DEF cell, val
<1>5. home' \in [Cells -> Values]
  BY <1>1, <1>2, <1>4
<1> QED
  BY <1>1, <1>4, <1>5, Reply, BackStep

\* A bypass read is mapped only while no frontier is set.
LEMMA BypassMapStep ==
  ASSUME NEW r \in Requests, GateInv, BypassMap(r)
  PROVE  GateInv'
<1>1. /\ UNCHANGED <<frontier, quiesce, engine, home, writes>>
      /\ req[r].pc = "gated"
      /\ req \in [Requests -> Request] /\ req[r] \in Request
      /\ gen \in 0..1 /\ {"new", "mapped"} \subseteq Phases
  BY DEF BypassMap, GateInv, TypeOK, Phases
<1>2. CASE req' = [req EXCEPT ![r].pc = "new", ![r].onq = progress # MaxSector]
  <2>1. /\ req'[r] \in Request /\ req'[r].pc = "new"
        /\ req' = [req EXCEPT ![r] = req'[r]]
    BY <1>1, <1>2 DEF Request
  <2>2. home \in [Cells -> Values]
    BY DEF GateInv, TypeOK
  <2> QED
    BY <1>1, <2>1, <2>2, BackStep
<1>3. CASE /\ progress = MaxSector
           /\ req' = [req EXCEPT ![r].pc = "mapped", ![r].old = CurrentIsOld,
                                 ![r].seq = gen]
  <2>1. CurrentIsOld \in BOOLEAN /\ (CurrentIsOld <=> gen = 0)
    BY DEF CurrentIsOld
  <2>2. /\ req'[r] = [req[r] EXCEPT !.pc = "mapped", !.old = CurrentIsOld, !.seq = gen]
        /\ \A q \in Requests \ {r} : req'[q] = req[q]
        /\ req' = [req EXCEPT ![r] = req'[r]]
    BY <1>1, <1>3
  <2>3. /\ req'[r] \in Request /\ req'[r].pc = "mapped" /\ req'[r].seq = gen
        /\ req'[r].old = CurrentIsOld
    BY <1>1, <2>1, <2>2 DEF Request, Phases
  <2>4. req' \in [Requests -> Request]
    BY <1>1, <2>2, <2>3
  <2>5. epc \notin Walking /\ epc \notin Claiming
    BY <1>3 DEF GateInv, FrontierShape, Walking
  <2>6. UNCHANGED <<progress, safe, gen, epc>>
    BY <1>1 DEF frontier, engine
  <2>7. gen = 0 => req'[r].old
    BY <2>1, <2>3
  <2>8. gen = 1 => ~req'[r].old
    BY <2>1, <2>3
  <2>9. RequestShape(r)'
    BY <1>1, <1>3, <2>3, <2>5, <2>6, <2>7, <2>8 DEF RequestShape
  <2> QED
    BY <1>1, <2>2, <2>4, <2>9, RequestStep DEF GateInv, TypeOK
<1> QED
  BY <1>2, <1>3 DEF BypassMap

\* A mapped bypass read that takes its reference is counted before a band moves.
LEMMA BypassRefStep ==
  ASSUME NEW r \in Requests, GateInv, BypassRef(r)
  PROVE  GateInv'
<1>1. /\ req[r].pc = "mapped"
      /\ req' = [req EXCEPT ![r].pc = "direct"]
      /\ UNCHANGED <<frontier, quiesce, engine, home, writes>>
      /\ req \in [Requests -> Request]
      /\ "direct" \in Phases
  BY DEF BypassRef, GateInv, TypeOK, Phases
<1>2. RequestShape(r)'
  BY <1>1, Moved DEF GateInv, RequestShape, frontier, engine, Claiming, Start
<1> QED
  BY <1>1, <1>2, OnwardStep

\* A bypass read answers with one cell.
LEMMA BypassDoneStep ==
  ASSUME NEW r \in Requests, GateInv, BypassDone(r)
  PROVE  GateInv'
<1>1. req[r] \in Request /\ home \in [Cells -> Values]
  BY DEF GateInv, TypeOK
<1>2. home[CellOf(r)] \in Values
  BY <1>1, CellOfType
<1>3. /\ req' = [req EXCEPT ![r] = [IdleRequest EXCEPT
                                      !.op = "reply", !.val = home[CellOf(r)]]]
      /\ UNCHANGED <<frontier, quiesce, engine, home, writes>>
  BY DEF BypassDone
<1>4. home' \in [Cells -> Values]
  BY <1>1, <1>3
<1> QED
  BY <1>2, <1>3, <1>4, Reply, BackStep

\* Each step of a request keeps the invariant.
LEMMA ServeStep ==
  ASSUME NEW r \in Requests, Timely, GateInv, Submit(r) \/ Serve(r)
  PROVE  GateInv'
BY SubmitStep, ClassifyStep, SleepOffQueueStep, GetStripeStep, RecheckStep, PerformStep,
   BypassMapStep, BypassRefStep, BypassDoneStep DEF Serve

-----------------------------------------------------------------------------
(* Steps of the sync thread                                                 *)

\* A step of the sync thread leaves the requests where they are.
LEMMA EngineStep ==
  ASSUME GateInv, UNCHANGED <<req, writes>>,
         progress' \in 0..MaxSector, safe' \in 0..MaxSector, gen' \in 0..1,
         backwards' \in BOOLEAN, rpos' \in 0..MaxSector, quiesce' \in {0, 2},
         epc' \in EnginePhases, fails' \in 0..MaxFails, lost' \in BOOLEAN,
         home' \in [Cells -> Values],
         FrontierShape', BandShape', \A q \in Requests : RequestShape(q)'
  PROVE  GateInv'
BY DEF GateInv, TypeOK, EnginePhases

\* Losing a member moves no frontier.
LEMMA LoseMemberStep ==
  ASSUME GateInv, LoseMember
  PROVE  GateInv'
<1>1. UNCHANGED <<frontier, quiesce, epc, fails, band, home, req, writes>> /\ lost' = TRUE
  BY DEF LoseMember
<1>2. FrontierShape' /\ BandShape'
  BY <1>1 DEF GateInv, FrontierShape, BandShape, frontier, ClaimedRow,
              Walking, Claiming, Moving
<1>3. \A q \in Requests : RequestShape(q)'
  BY <1>1, OtherRequests DEF GateInv
<1> QED
  BY <1>1, <1>2, <1>3, EngineStep DEF GateInv, TypeOK, frontier

\* The start begins to drain.
LEMMA StartDrainStep ==
  ASSUME GateInv, StartDrain
  PROVE  GateInv'
<1>1. /\ epc = "off" /\ epc' = "switch" /\ quiesce' = 2
      /\ UNCHANGED <<frontier, fails, lost, band, home, req, writes>>
  BY DEF StartDrain
<1>2. FrontierShape' /\ BandShape'
  BY <1>1 DEF GateInv, FrontierShape, BandShape, frontier, Walking, Claiming, Moving
<1>3. \A q \in Requests : RequestShape(q)'
  BY <1>1 DEF GateInv, RequestShape, frontier, Ahead, StripeAhead, RangeAhead,
              Moving, Claiming
<1> QED
  BY <1>1, <1>2, <1>3, EngineStep DEF GateInv, TypeOK, frontier, EnginePhases

\* The walk begins on a boundary between bands.
LEMMA StartPlace ==
  /\ Start \in 0..(Rows * KNew) /\ Start # MaxSector /\ Start \in 0..MaxSector
  /\ \E b \in 0..Rows : Start = b * KNew
<1>1. CASE Backwards
  <2>1. Rows \in 0..Rows /\ Start = Rows * KNew
    BY <1>1, SizeBounds, Constants DEF Start
  <2> QED
    BY <2>1, Constants
<1>2. CASE ~Backwards
  <2>1. 0 \in 0..Rows /\ Start = 0 * KNew
    BY <1>2, Constants DEF Start
  <2> QED
    BY <2>1, Constants
<1> QED
  BY <1>1, <1>2

\* The geometry switch finds no request on a stripe.
LEMMA StartSwitchStep ==
  ASSUME GateInv, StartSwitch
  PROVE  GateInv'
<1>1. /\ epc = "switch" /\ epc' = "armed" /\ Drained
      /\ gen' = 1 /\ progress' = Start /\ safe' = Start /\ quiesce' = 0
      /\ UNCHANGED <<backwards, rpos, fails, lost, band, home, req, writes>>
  BY DEF StartSwitch
<1>2. gen = 0
  BY <1>1 DEF GateInv, FrontierShape
<1>3. FrontierShape' /\ BandShape'
  BY <1>1, <1>2, StartPlace
     DEF GateInv, FrontierShape, BandShape, Walking, Claiming, Moving
<1>4. ASSUME NEW q \in Requests PROVE RequestShape(q)'
  <2>1. /\ req'[q] = req[q] /\ req[q].pc \notin {"holding", "admitted", "direct"}
        /\ RequestShape(q) /\ req[q].seq \in 0..1
    BY <1>1 DEF Drained, Active, GateInv, TypeOK, Request
  <2>2. req[q].pc \in {"lookup", "mapped"} => req[q].seq = 0 /\ req[q].old
    BY <1>2, <2>1 DEF RequestShape
  <2> QED
    BY <1>1, <2>1, <2>2, StartPlace DEF RequestShape, Claiming, Moving, Start
<1> QED
  BY <1>1, <1>3, <1>4, StartPlace, EngineStep DEF GateInv, TypeOK, EnginePhases

\* mddev->reshape_position follows, and no request depends on it.
LEMMA StartPublishStep ==
  ASSUME GateInv, StartPublish
  PROVE  GateInv'
<1>1. /\ epc = "armed" /\ epc' = "ready" /\ rpos' = progress
      /\ UNCHANGED <<progress, safe, gen, backwards, quiesce, fails, lost, band, home,
                     req, writes>>
  BY DEF StartPublish
<1>2. FrontierShape' /\ BandShape'
  BY <1>1 DEF GateInv, FrontierShape, BandShape, Walking, Claiming, Moving
<1>3. \A q \in Requests : RequestShape(q)'
  BY <1>1 DEF GateInv, RequestShape, Ahead, StripeAhead, RangeAhead, Moving, Claiming
<1> QED
  BY <1>1, <1>2, <1>3, EngineStep DEF GateInv, TypeOK, EnginePhases

\* The band a position of the walk names, and the frontiers around it.
LEMMA ClaimPlace ==
  ASSUME GateInv, epc \in Claiming
  PROVE  /\ \E b \in 0..Rows :
              /\ safe = b * KNew
              /\ IF Backwards THEN b > 0 /\ progress = (b - 1) * KNew
                              ELSE b < Rows /\ progress = (b + 1) * KNew
              /\ ClaimedRow = IF Backwards THEN b - 1 ELSE b
         /\ ClaimedRow \in 0..(Rows - 1)
         /\ safe = IF Backwards THEN (ClaimedRow + 1) * KNew ELSE ClaimedRow * KNew
         /\ backwards = Backwards /\ gen = 1 /\ progress # MaxSector
         /\ progress \in 0..MaxSector /\ safe \in 0..MaxSector
<1>1. epc \in Walking /\ gen \in 0..1 /\ FrontierShape
  BY DEF Walking, GateInv, TypeOK
<1>2. /\ backwards = Backwards /\ gen = 1 /\ progress # MaxSector
      /\ progress \in 0..MaxSector /\ safe \in 0..MaxSector
  BY <1>1, WalkPlace, Constants
<1>3. PICK b \in 0..Rows :
        /\ safe = b * KNew
        /\ IF Backwards THEN b > 0 /\ progress = (b - 1) * KNew
                        ELSE b < Rows /\ progress = (b + 1) * KNew
  BY <1>1 DEF FrontierShape
<1>4. CASE Backwards
  <2>1. b - 1 \in 0..Rows /\ progress = (b - 1) * KNew
    BY <1>3, <1>4, Constants
  <2>2. ClaimedRow = b - 1
    BY <1>2, <1>4, <2>1, BandBounds DEF ClaimedRow
  <2> QED
    BY <1>2, <1>3, <1>4, <2>1, <2>2, Constants
<1>5. CASE ~Backwards
  <2>1. b + 1 \in 0..Rows /\ progress = (b + 1) * KNew
    BY <1>3, <1>5, Constants
  <2>2. progress \div KNew = b + 1
    BY <2>1, BandBounds
  <2>3. ClaimedRow = b
    BY <1>2, <1>5, <2>2 DEF ClaimedRow
  <2> QED
    BY <1>2, <1>3, <1>5, <2>1, <2>3, Constants
<1> QED
  BY <1>4, <1>5

\* The claim moves reshape_progress over the band; an admitted request is not judged
\* by it before the drain is over.
LEMMA ClaimStep ==
  ASSUME Timely, GateInv, Claim
  PROVE  GateInv'
<1>1. /\ epc = "ready" /\ epc' = "claimed" /\ BandsLeft
      /\ progress' = IF backwards THEN NextRow * KNew ELSE (NextRow + 1) * KNew
      /\ UNCHANGED <<safe, gen, backwards, rpos, quiesce, fails, lost, band, home, req,
                     writes>>
      /\ NoneMapped
  BY DEF Claim, Timely
<1>2. epc \in Walking /\ epc \notin Claiming /\ gen \in 0..1 /\ FrontierShape
  BY <1>1 DEF Walking, Claiming, Moving, GateInv, TypeOK
<1>3. backwards = Backwards /\ gen = 1 /\ progress # MaxSector
  BY <1>2, WalkPlace
<1>4. PICK b \in 0..Rows : safe = b * KNew
  BY <1>2 DEF FrontierShape
<1>5. safe \div KNew = b /\ b \in Int
  BY <1>4, BandBounds
<1>6. IF Backwards THEN b > 0 /\ progress' = (b - 1) * KNew
                   ELSE b < Rows /\ progress' = (b + 1) * KNew
  <2>1. CASE Backwards
    <3>1. b # 0
      BY <1>1, <1>3, <1>4, <2>1, Constants DEF BandsLeft
    <3> QED
      BY <1>1, <1>3, <1>5, <2>1, <3>1 DEF NextRow
  <2>2. CASE ~Backwards
    <3>1. b # Rows
      BY <1>1, <1>3, <1>4, <2>2, Constants DEF BandsLeft
    <3> QED
      BY <1>1, <1>3, <1>5, <2>2, <3>1, Constants DEF NextRow
  <2> QED
    BY <2>1, <2>2
<1>7. progress' \in 0..MaxSector /\ progress' # MaxSector
  <2>1. PICK x \in 0..Rows : progress' = x * KNew
    <3>1. Backwards => b - 1 \in 0..Rows
      BY <1>6, Constants
    <3>2. ~Backwards => b + 1 \in 0..Rows
      BY <1>6, Constants
    <3> QED
      BY <1>6, <3>1, <3>2
  <2> QED
    BY <2>1, BandBounds, Constants
<1>8. FrontierShape'
  BY <1>1, <1>2, <1>3, <1>4, <1>6, <1>7 DEF FrontierShape, Walking, Claiming
<1>9. BandShape'
  BY <1>1 DEF BandShape
<1>10. ASSUME NEW q \in Requests PROVE RequestShape(q)'
  <2>1. /\ req'[q] = req[q] /\ req[q].pc # "mapped" /\ RequestShape(q)
    BY <1>1 DEF NoneMapped, GateInv
  <2> QED
    BY <1>1, <1>3, <1>7, <2>1
       DEF RequestShape, Ahead, StripeAhead, RangeAhead, Moving
<1> QED
  BY <1>1, <1>7, <1>8, <1>9, <1>10, EngineStep DEF GateInv, TypeOK, EnginePhases

\* The claim begins to drain.
LEMMA ClaimDrainStep ==
  ASSUME GateInv, ClaimDrain
  PROVE  GateInv'
<1>1. /\ epc = "claimed" /\ epc' = "draining" /\ quiesce' = 2
      /\ UNCHANGED <<frontier, fails, lost, band, home, req, writes>>
  BY DEF ClaimDrain
<1>2. FrontierShape' /\ BandShape'
  BY <1>1 DEF GateInv, FrontierShape, BandShape, frontier, Walking, Claiming, Moving
<1>3. \A q \in Requests : RequestShape(q)'
  BY <1>1 DEF GateInv, RequestShape, frontier, Ahead, StripeAhead, RangeAhead,
              Moving, Claiming
<1> QED
  BY <1>1, <1>2, <1>3, EngineStep DEF GateInv, TypeOK, frontier, EnginePhases

\* After the drain no stripe of the band and no bypass read is left.
LEMMA ClaimDrainedStep ==
  ASSUME GateInv, ClaimDrained
  PROVE  GateInv'
<1>1. /\ epc = "draining" /\ epc' = "read" /\ quiesce' = 0 /\ Drained
      /\ UNCHANGED <<frontier, fails, lost, band, home, req, writes>>
  BY DEF ClaimDrained
<1>2. FrontierShape' /\ BandShape'
  BY <1>1 DEF GateInv, FrontierShape, BandShape, frontier, Walking, Claiming, Moving
<1>3. ASSUME NEW q \in Requests PROVE RequestShape(q)'
  <2>1. req'[q] = req[q] /\ req[q].pc \notin {"holding", "admitted", "direct"}
        /\ RequestShape(q) /\ req[q].pc # "mapped"
    BY <1>1 DEF Drained, Active, GateInv, RequestShape, Claiming
  <2> QED
    BY <1>1, <2>1 DEF RequestShape, frontier, Ahead
<1> QED
  BY <1>1, <1>2, <1>3, EngineStep DEF GateInv, TypeOK, frontier, EnginePhases

\* The band takes its chunks from cells of the old geometry, or zeros.
LEMMA ReadBandStep ==
  ASSUME GateInv, ReadBand
  PROVE  GateInv'
<1>1. /\ epc = "read" /\ epc' = "staged"
      /\ band' = [c \in RowChunks(New, ClaimedRow) |->
                    IF c >= Rows * KOld THEN Zero ELSE home[OldCell(c)]]
      /\ UNCHANGED <<frontier, quiesce, fails, lost, home, req, writes>>
  BY DEF ReadBand
<1>2. epc \in Claiming /\ home \in [Cells -> Values]
  BY <1>1 DEF GateInv, TypeOK, Claiming, Moving
<1>3. ClaimedRow \in 0..(Rows - 1)
  BY <1>2, ClaimPlace
<1>4. RowChunks(New, ClaimedRow) \subseteq Nat
  <2>1. RowChunks(New, ClaimedRow) = (ClaimedRow * KNew)..((ClaimedRow + 1) * KNew - 1)
    BY DEF RowChunks, KNew
  <2>2. ClaimedRow * KNew >= 0 /\ ClaimedRow * KNew \in Int
        /\ (ClaimedRow + 1) * KNew - 1 \in Int
    BY <1>3, Constants
  <2> QED
    BY <2>1, <2>2
<1>5. ASSUME NEW c \in RowChunks(New, ClaimedRow)
      PROVE  (IF c >= Rows * KOld THEN Zero ELSE home[OldCell(c)]) \in Values
  <2>1. Zero \in Values
    BY Constants, BoundAssumption DEF Values, Zero, Parity
  <2>2. ~(c >= Rows * KOld) => OldCell(c) \in Cells
    BY <1>4, OldCellType, Constants
  <2> QED
    BY <1>2, <2>1, <2>2
<1>6. ClaimedRow' = ClaimedRow
  BY <1>1 DEF ClaimedRow, frontier
<1>7. BandShape'
  BY <1>1, <1>5, <1>6 DEF BandShape
<1>8. FrontierShape'
  BY <1>1 DEF GateInv, FrontierShape, frontier, Walking, Claiming, Moving
<1>9. \A q \in Requests : RequestShape(q)'
  BY <1>1 DEF GateInv, RequestShape, frontier, Ahead, StripeAhead, RangeAhead,
              Moving, Claiming
<1> QED
  BY <1>1, <1>7, <1>8, <1>9, EngineStep DEF GateInv, TypeOK, frontier, EnginePhases

\* The band goes home over well-formed cells.
LEMMA WriteHomeStep ==
  ASSUME GateInv, WriteHome
  PROVE  GateInv'
<1>1. /\ epc = "staged" /\ epc' = "home"
      /\ home' = [x \in Cells |-> IF x \in DOMAIN NewRowImage THEN NewRowImage[x]
                                                              ELSE home[x]]
      /\ UNCHANGED <<frontier, quiesce, fails, lost, band, req, writes>>
  BY DEF WriteHome
<1>2. home \in [Cells -> Values] /\ band \in [RowChunks(New, ClaimedRow) -> Values]
  BY <1>1 DEF GateInv, TypeOK, BandShape
<1>3. Parity \in Values
  BY Constants, BoundAssumption DEF Values, Parity
<1>4. ASSUME NEW x \in DOMAIN NewRowImage PROVE NewRowImage[x] \in Values
  <2>1. CASE \E c \in DOMAIN band : NewCell(c) = x
    <3>1. NewRowImage[x] = band[CHOOSE c \in DOMAIN band : NewCell(c) = x]
      BY <1>4, <2>1 DEF NewRowImage
    <3>2. (CHOOSE c \in DOMAIN band : NewCell(c) = x) \in DOMAIN band
      BY <2>1
    <3> QED
      BY <1>2, <3>1, <3>2
  <2>2. CASE ~\E c \in DOMAIN band : NewCell(c) = x
    BY <1>3, <1>4, <2>2 DEF NewRowImage
  <2> QED
    BY <2>1, <2>2
<1>5. home' \in [Cells -> Values]
  BY <1>1, <1>2, <1>4
<1>6. FrontierShape' /\ BandShape'
  BY <1>1 DEF GateInv, FrontierShape, BandShape, ClaimedRow, frontier,
              Walking, Claiming, Moving
<1>7. \A q \in Requests : RequestShape(q)'
  BY <1>1 DEF GateInv, RequestShape, frontier, Ahead, StripeAhead, RangeAhead,
              Moving, Claiming
<1> QED
  BY <1>1, <1>5, <1>6, <1>7, EngineStep DEF GateInv, TypeOK, frontier, EnginePhases

\* A chunk behind a frontier stays behind it as the walk goes on.
LEMMA ReleaseStep ==
  ASSUME GateInv, Release
  PROVE  GateInv'
<1>1. /\ epc = "home" /\ epc' = "ready" /\ safe' = progress /\ rpos' = progress
      /\ UNCHANGED <<progress, gen, backwards, quiesce, fails, lost, home, req, writes>>
  BY DEF Release
<1>2. epc \in Claiming /\ epc \in Moving /\ epc \in Walking /\ FrontierShape
      /\ gen \in 0..1
  BY <1>1 DEF Claiming, Moving, Walking, GateInv, TypeOK
<1>3. PICK b \in 0..Rows :
        /\ safe = b * KNew
        /\ IF Backwards THEN b > 0 /\ progress = (b - 1) * KNew
                        ELSE b < Rows /\ progress = (b + 1) * KNew
  BY <1>2, ClaimPlace
<1>4. /\ backwards = Backwards /\ gen = 1 /\ progress # MaxSector
      /\ progress \in 0..MaxSector /\ safe \in 0..MaxSector
      /\ IF Backwards THEN progress <= safe ELSE safe <= progress
  BY <1>2, WalkPlace, ClaimPlace
<1>5. \E x \in 0..Rows : progress = x * KNew
  <2>1. Backwards => b - 1 \in 0..Rows
    BY <1>3, Constants
  <2>2. ~Backwards => b + 1 \in 0..Rows
    BY <1>3, Constants
  <2> QED
    BY <1>3, <2>1, <2>2
<1>6. FrontierShape' /\ BandShape'
  BY <1>1, <1>2, <1>4, <1>5
     DEF FrontierShape, BandShape, Walking, Claiming, Moving
<1>7. ASSUME NEW q \in Requests PROVE RequestShape(q)'
  <2>1. /\ req'[q] = req[q] /\ req[q].pc \notin {"mapped", "direct"}
        /\ RequestShape(q) /\ req[q].chunk \in Chunks
    BY <1>1, <1>2 DEF GateInv, TypeOK, Request, RequestShape
  <2>2. req[q].chunk \in Int
    BY <2>1, ChunkType
  <2>3. ~Ahead(req[q].chunk, safe) => ~Ahead(req[q].chunk, progress)
    BY <1>4, <2>2, Constants DEF Ahead
  <2>4. /\ Ahead(req[q].chunk, safe)' = Ahead(req[q].chunk, progress)
        /\ StripeAhead(req[q].chunk, safe)' = StripeAhead(req[q].chunk, progress)
    BY <1>1, <2>1 DEF Ahead, StripeAhead, RangeAhead
  <2> QED
    BY <1>1, <1>2, <1>4, <2>1, <2>3, <2>4 DEF RequestShape, Moving
<1> QED
  BY <1>1, <1>4, <1>6, <1>7, EngineStep DEF GateInv, TypeOK, EnginePhases

\* A band is put back: the frontiers close again, and nothing was promised beyond.
LEMMA PutBackStep ==
  ASSUME GateInv, epc \in Moving, NEW next \in {"ready", "parked"}, PutBack(next),
         fails' \in 0..MaxFails
  PROVE  GateInv'
<1>1. /\ progress' = IF backwards THEN (ClaimedRow + 1) * KNew ELSE ClaimedRow * KNew
      /\ epc' = next
      /\ UNCHANGED <<safe, gen, backwards, rpos, quiesce, lost, home, req, writes>>
  BY DEF PutBack
<1>2. epc \in Claiming /\ epc \in Walking /\ FrontierShape /\ gen \in 0..1
  BY DEF Claiming, Walking, GateInv, TypeOK
<1>3. /\ progress' = safe /\ safe \in 0..MaxSector
      /\ backwards = Backwards /\ gen = 1 /\ progress # MaxSector
  BY <1>1, <1>2, ClaimPlace
<1>4. safe # MaxSector
  BY <1>2, WalkPlace, Constants
<1>5. PICK b \in 0..Rows : safe = b * KNew
  BY <1>2, ClaimPlace
<1>6. FrontierShape' /\ BandShape'
  BY <1>1, <1>2, <1>3, <1>4, <1>5
     DEF FrontierShape, BandShape, Walking, Claiming, Moving
<1>7. ASSUME NEW q \in Requests PROVE RequestShape(q)'
  <2>1. req'[q] = req[q] /\ req[q].pc \notin {"mapped", "direct"} /\ RequestShape(q)
    BY <1>1, <1>2 DEF GateInv, RequestShape
  <2> QED
    BY <1>1, <1>3, <1>4, <2>1
       DEF RequestShape, Ahead, StripeAhead, RangeAhead, Moving
<1> QED
  BY <1>1, <1>3, <1>6, <1>7, EngineStep DEF GateInv, TypeOK, EnginePhases

\* Each of the errors that puts a band back keeps the invariant.
LEMMA BandFailsStep ==
  ASSUME GateInv, Unclaim \/ UnclaimDegraded \/ DoneFails
  PROVE  GateInv'
<1>1. MaxFails \in Nat /\ fails \in 0..MaxFails
  BY BoundAssumption DEF GateInv, TypeOK
<1>2. CASE Unclaim
  <2>1. epc \in Moving /\ PutBack("ready") /\ fails' \in 0..MaxFails
    BY <1>1, <1>2 DEF Unclaim, Moving
  <2> QED
    BY <2>1, PutBackStep
<1>3. CASE UnclaimDegraded
  <2>1. epc \in Moving /\ PutBack("parked") /\ fails' \in 0..MaxFails
    BY <1>1, <1>3 DEF UnclaimDegraded, Moving
  <2> QED
    BY <2>1, PutBackStep
<1>4. CASE DoneFails
  <2>1. epc \in Moving /\ PutBack("ready") /\ fails' \in 0..MaxFails
    BY <1>1, <1>4 DEF DoneFails, Moving
  <2> QED
    BY <2>1, PutBackStep
<1> QED
  BY <1>2, <1>3, <1>4

\* With no band left, no stripe is still ahead of the walk.
LEMMA NothingAhead ==
  ASSUME GateInv, epc = "ready", ~BandsLeft
  PROVE  /\ safe # Start
         /\ \A c \in Chunks : ~StripeAhead(c, safe)
<1>1. epc \in Walking /\ gen \in 0..1 /\ FrontierShape
  BY DEF Walking, GateInv, TypeOK
<1>2. backwards = Backwards /\ safe \in 0..(Rows * KNew)
  BY <1>1, WalkPlace
<1>3. safe = IF Backwards THEN 0 ELSE Rows * KNew
  BY <1>2, Constants DEF BandsLeft
<1>4. safe # Start
  BY <1>3, SizeBounds, Constants DEF Start
<1>5. ASSUME NEW c \in Chunks PROVE ~StripeAhead(c, safe)
  <2> DEFINE lo == (c \div KOld) * KOld
  <2>1. lo \in Int /\ lo <= c /\ c <= lo + KOld - 1 /\ c \in Nat /\ c < Rows * KNew
    BY ChunkType, Constants, RowSpan, Division
  <2> HIDE DEF lo
  <2>2. ~RangeAhead(lo, lo + KOld - 1, safe)
    BY <1>2, <1>3, <2>1, Constants DEF RangeAhead
  <2> QED
    BY <2>2 DEF StripeAhead, lo
<1> QED
  BY <1>4, <1>5

\* The end is published when no stripe is ahead any more.
LEMMA EndPublishStep ==
  ASSUME Timely, GateInv, EndPublish
  PROVE  GateInv'
<1>1. /\ epc = "ready" /\ epc' = "ending" /\ ~BandsLeft /\ progress' = MaxSector
      /\ SlowRecheck \/ NoneRechecking
      /\ UNCHANGED <<safe, gen, backwards, rpos, quiesce, fails, lost, band, home, req,
                     writes>>
  BY DEF EndPublish
<1>2. FrontierShape' /\ BandShape'
  BY <1>1 DEF GateInv, FrontierShape, BandShape, Walking, Claiming, Moving
<1>3. gen = 1 /\ progress # MaxSector
  BY <1>1, WalkPlace DEF GateInv, TypeOK, Walking
<1>4. ASSUME NEW q \in Requests PROVE RequestShape(q)'
  <2>1. req'[q] = req[q] /\ RequestShape(q) /\ req[q].chunk \in Chunks
    BY <1>1 DEF GateInv, TypeOK, Request
  <2>2. req[q].pc \notin {"mapped", "direct"}
    BY <1>1, <1>3, <2>1, NothingAhead DEF RequestShape
  <2>3. ~(req[q].pc = "admitted" /\ req[q].seq = 1 /\ req[q].old)
    BY <1>1, <2>1, NothingAhead DEF RequestShape
  <2>4. req[q].pc \in {"lookup", "holding"} /\ req[q].seq = 1 /\ req[q].old => SlowRecheck
    BY <1>1 DEF NoneRechecking, Previous
  <2> QED
    BY <1>1, <2>1, <2>2, <2>3, <2>4 DEF RequestShape
<1> QED
  BY <1>1, <1>2, <1>4, BoundAssumption, EngineStep DEF GateInv, TypeOK, EnginePhases

\* After that only the drain, the collapse and a forgotten direction are left.
LEMMA EndingStep ==
  ASSUME GateInv, EndDrain \/ EndCollapse \/ Finish
  PROVE  GateInv'
<1>1. /\ epc \in {"ending", "collapse", "ended"}
      /\ epc' \in {"collapse", "ended", "finished"}
      /\ backwards' = (backwards /\ epc' # "finished")
      /\ quiesce' \in {0, 2} /\ rpos' \in {rpos, MaxSector}
      /\ UNCHANGED <<progress, safe, gen, fails, lost, band, home, req, writes>>
  BY DEF EndDrain, EndCollapse, Finish, GateInv, TypeOK, frontier
<1>2. progress = MaxSector /\ gen \in 0..1 /\ gen # 0 /\ backwards = Backwards
  <2>1. FrontierShape /\ gen \in 0..1 /\ epc # "finished"
    BY <1>1 DEF GateInv, TypeOK
  <2>2. progress = MaxSector /\ gen # 0
    BY <1>1, <2>1 DEF FrontierShape, Walking, Claiming, Moving
  <2> QED
    BY <2>1, <2>2, Constants DEF FrontierShape
<1>3. FrontierShape' /\ BandShape'
  BY <1>1, <1>2 DEF GateInv, FrontierShape, BandShape, Walking, Claiming, Moving
<1>4. ASSUME NEW q \in Requests PROVE RequestShape(q)'
  <2>1. req'[q] = req[q] /\ RequestShape(q)
    BY <1>1 DEF GateInv
  <2> QED
    BY <1>1, <1>2, <2>1 DEF RequestShape, Claiming, Moving
<1> QED
  BY <1>1, <1>3, <1>4, BoundAssumption, EngineStep DEF GateInv, TypeOK, EnginePhases

\* Each step of the sync thread keeps the invariant.
LEMMA EngineSteps ==
  ASSUME Timely, GateInv, Engine
  PROVE  GateInv'
BY StartDrainStep, StartSwitchStep, StartPublishStep, ClaimStep, ClaimDrainStep,
   ClaimDrainedStep, ReadBandStep, WriteHomeStep, ReleaseStep, BandFailsStep,
   EndPublishStep, EndingStep DEF Engine

\* So does a step that changes nothing.
LEMMA StutterStep ==
  ASSUME GateInv, UNCHANGED vars
  PROVE  GateInv'
<1>1. UNCHANGED <<frontier, quiesce, epc, fails, lost, band, home, req, writes>>
  BY DEF vars, engine
<1>2. FrontierShape' /\ BandShape'
  BY <1>1 DEF GateInv, FrontierShape, BandShape, frontier, ClaimedRow,
              Walking, Claiming, Moving
<1>3. \A q \in Requests : RequestShape(q)'
  BY <1>1, OtherRequests DEF GateInv
<1> QED
  BY <1>1, <1>2, <1>3, EngineStep DEF GateInv, TypeOK, frontier

-----------------------------------------------------------------------------
(* The theorems                                                             *)

\* An array that is not reshaping satisfies the invariant.
LEMMA InitInv == Init => GateInv
<1> SUFFICES ASSUME Init PROVE GateInv
  OBVIOUS
<1>1. \A q \in Requests : req[q] = IdleRequest /\ IdleRequest.pc = "idle"
  BY DEF Init, IdleRequest
<1>2. TypeOK
  <2>1. home \in [Cells -> Values] /\ req \in [Requests -> Request]
    BY IdleRequestType, InitialHomeType DEF Init
  <2>2. progress \in 0..MaxSector /\ rpos \in 0..MaxSector /\ safe \in 0..MaxSector
    BY BoundAssumption DEF Init
  <2>3. backwards \in BOOLEAN /\ lost \in BOOLEAN
    BY Constants DEF Init
  <2>4. gen \in 0..1 /\ quiesce \in {0, 2} /\ epc \in EnginePhases
    BY DEF Init, EnginePhases
  <2>5. fails \in 0..MaxFails /\ writes \in 0..MaxWrites
    BY BoundAssumption DEF Init
  <2> QED
    BY <2>1, <2>2, <2>3, <2>4, <2>5 DEF TypeOK
<1>3. FrontierShape /\ BandShape
  BY Constants DEF Init, FrontierShape, BandShape, Walking, Claiming, Moving
<1>4. \A q \in Requests : RequestShape(q)
  BY <1>1 DEF RequestShape
<1> QED
  BY <1>2, <1>3, <1>4 DEF GateInv

\* The inductive invariant: whatever a request last read of the frontiers, and
\* however long ago, what it goes on to do is still right.
THEOREM GateInvariant ==
  ASSUME Timely
  PROVE  Spec => []GateInv
<1>1. GateInv /\ [Next]_vars => GateInv'
  BY EngineSteps, LoseMemberStep, ServeStep, StutterStep DEF Next
<1> QED
  BY <1>1, InitInv, PTL DEF Spec

\* The state of the gate is always well formed; in particular every cell holds a
\* value, and every request addresses a cell of the array.
THEOREM TypeCorrect ==
  ASSUME Timely
  PROVE  Spec => []TypeOK
<1>1. GateInv => TypeOK
  BY DEF GateInv
<1> QED
  BY <1>1, GateInvariant, PTL

\* A stripe ahead of a position at a band's edge has none of its chunks, nor its
\* row, in that band or behind it.
LEMMA AheadOfBand ==
  ASSUME GateInv, epc \in Claiming, NEW c \in Chunks, StripeAhead(c, progress),
         NEW d \in RowChunks(Old, c \div KOld)
  PROVE  /\ c \div KOld # ClaimedRow
         /\ d \div KNew # ClaimedRow
<1> DEFINE q == c \div KOld
           R == ClaimedRow
<1>1. PICK b \in 0..Rows :
        /\ IF Backwards THEN b > 0 /\ progress = (b - 1) * KNew
                        ELSE b < Rows /\ progress = (b + 1) * KNew
        /\ R = IF Backwards THEN b - 1 ELSE b
  BY ClaimPlace
<1>2. backwards = Backwards
  BY ClaimPlace
<1>3. q \in Int /\ d \in Int /\ q * KOld <= d /\ d <= q * KOld + KOld - 1
  <2>1. q \in Int
    BY ChunkType, Constants, Division
  <2>2. RowChunks(Old, q) = (q * KOld)..((q + 1) * KOld - 1)
    BY DEF RowChunks, KOld
  <2>3. (q + 1) * KOld = q * KOld + KOld /\ q * KOld \in Int
    BY <2>1, Constants
  <2> HIDE DEF q
  <2> QED
    BY <2>1, <2>2, <2>3, Constants DEF q
<1>4. RangeAhead(q * KOld, q * KOld + KOld - 1, progress)
  BY DEF StripeAhead
<1> HIDE DEF q, R
<1>5. CASE Backwards
  <2>1. R \in Nat /\ progress = R * KNew
    BY <1>1, <1>5, Constants
  <2>2. q * KOld + KOld - 1 < R * KNew /\ d < R * KNew
    BY <1>2, <1>3, <1>4, <1>5, <2>1, Constants DEF RangeAhead
  <2>3. R * KNew <= R * KOld
    BY <1>5, <2>1, Constants
  <2>4. q * KOld < R * KOld
    BY <1>3, <2>1, <2>2, <2>3, Constants
  <2>5. q # R
    BY <2>4, <1>3, <2>1, Constants
  <2>6. d \div KNew < R
    BY <1>3, <2>1, <2>2, RowBefore, Constants
  <2> QED
    BY <1>3, <2>1, <2>5, <2>6, Constants, Division DEF q, R
<1>6. CASE ~Backwards
  <2>1. R \in Nat /\ progress = (R + 1) * KNew
    BY <1>1, <1>6, Constants
  <2>2. q * KOld >= (R + 1) * KNew /\ ~(d < (R + 1) * KNew)
    BY <1>2, <1>3, <1>4, <1>6, <2>1, Constants DEF RangeAhead
  <2>3. (R + 1) * KOld <= (R + 1) * KNew
    BY <1>6, <2>1, Constants
  <2>4. q * KOld >= (R + 1) * KOld
    BY <1>3, <2>1, <2>2, <2>3, Constants
  <2>5. (R + 1) * KOld = R * KOld + KOld
    BY <2>1, Constants
  <2>6. q # R
    BY <2>4, <2>5, <1>3, <2>1, Constants
  <2>7. ~(d \div KNew < R + 1)
    BY <1>3, <2>1, <2>2, RowBefore, Constants
  <2> QED
    BY <1>3, <2>1, <2>6, <2>7, Constants, Division DEF q, R
<1> QED
  BY <1>5, <1>6

\* A chunk behind the safe frontier is not in the band being moved.
LEMMA BehindBand ==
  ASSUME GateInv, epc \in Claiming, NEW c \in Chunks, ~Ahead(c, safe)
  PROVE  c \div KNew # ClaimedRow
<1>1. /\ backwards = Backwards
      /\ safe = IF Backwards THEN (ClaimedRow + 1) * KNew ELSE ClaimedRow * KNew
      /\ ClaimedRow \in Int
  BY ClaimPlace
<1>2. c \in Int /\ c \div KNew \in Int
  BY ChunkType, Constants, Division
<1>3. CASE Backwards
  <2>1. ~(c < (ClaimedRow + 1) * KNew)
    BY <1>1, <1>3 DEF Ahead
  <2>2. ~(c \div KNew < ClaimedRow + 1)
    BY <1>1, <1>2, <2>1, RowBefore, Constants
  <2> QED
    BY <1>1, <1>2, <2>2
<1>4. CASE ~Backwards
  <2>1. c < ClaimedRow * KNew
    BY <1>1, <1>2, <1>4, Constants DEF Ahead
  <2>2. c \div KNew < ClaimedRow
    BY <1>1, <1>2, <2>1, RowBefore, Constants
  <2> QED
    BY <1>1, <1>2, <2>2
<1> QED
  BY <1>3, <1>4

\* A chunk is one of its own stripe's.
LEMMA InOwnRow ==
  ASSUME NEW c \in Chunks
  PROVE  c \in RowChunks(Old, c \div KOld)
<1>1. /\ c \in Int /\ c \div KOld \in Int
      /\ (c \div KOld) * KOld <= c /\ c <= (c \div KOld) * KOld + KOld - 1
  BY ChunkType, Constants, RowSpan, Division
<1> DEFINE q == c \div KOld
<1>2. (q + 1) * KOld - 1 = q * KOld + KOld - 1 /\ q * KOld \in Int
  BY <1>1, Constants
<1>3. RowChunks(Old, q) = (q * KOld)..((q + 1) * KOld - 1)
  BY DEF RowChunks, KOld
<1> HIDE DEF q
<1> QED
  BY <1>1, <1>2, <1>3, Constants DEF q

\* A stripe ahead of a frontier has every chunk ahead of it.
LEMMA RowAhead ==
  ASSUME NEW c \in Chunks, NEW p \in Int, backwards \in BOOLEAN, StripeAhead(c, p),
         NEW d \in RowChunks(Old, c \div KOld)
  PROVE  Ahead(d, p)
<1> DEFINE q == c \div KOld
<1>1. q \in Int
  BY ChunkType, Constants, Division
<1>2. (q + 1) * KOld - 1 = q * KOld + KOld - 1 /\ q * KOld \in Int
  BY <1>1, Constants
<1>3. RowChunks(Old, q) = (q * KOld)..((q + 1) * KOld - 1)
  BY DEF RowChunks, KOld
<1>4. RangeAhead(q * KOld, q * KOld + KOld - 1, p)
  BY DEF StripeAhead
<1> HIDE DEF q
<1>5. d \in (q * KOld)..(q * KOld + KOld - 1)
  BY <1>2, <1>3 DEF q
<1> QED
  BY <1>2, <1>4, <1>5, Constants DEF RangeAhead, Ahead

\* The invariant keeps requests out of the band being moved.
LEMMA ExclusionHolds ==
  ASSUME GateInv
  PROVE  Exclusion
<1> SUFFICES ASSUME epc \in Moving, NEW r \in Requests,
                    req[r].pc \in {"admitted", "direct"}
             PROVE  /\ CellOf(r).row # ClaimedRow
                    /\ req[r].chunk \div KNew # ClaimedRow
  BY DEF Exclusion
<1> DEFINE c == req[r].chunk
<1>1. epc \in Claiming /\ RequestShape(r) /\ req[r] \in Request /\ c \in Chunks
  BY DEF Claiming, GateInv, TypeOK, Request
<1>2. req[r].pc = "admitted" /\ gen = 1 /\ req[r].seq = 1 /\ progress # MaxSector
  BY <1>1, ClaimPlace DEF RequestShape
<1>3. CASE req[r].old
  <2>1. StripeAhead(c, progress)
    BY <1>1, <1>2, <1>3 DEF RequestShape
  <2>2. c \div KOld # ClaimedRow /\ c \div KNew # ClaimedRow
    BY <1>1, <2>1, InOwnRow, AheadOfBand
  <2> QED
    BY <1>1, <1>3, <2>2, CellOfType
<1>4. CASE ~req[r].old
  <2>1. ~Ahead(c, safe)
    BY <1>1, <1>2, <1>4 DEF RequestShape
  <2>2. c \div KNew # ClaimedRow
    BY <1>1, <2>1, BehindBand
  <2> QED
    BY <1>1, <1>4, <2>2, CellOfType
<1> QED
  BY <1>3, <1>4

\* A chunk of a stripe ahead has not been migrated.
LEMMA NotMigrated ==
  ASSUME GateInv, gen = 1, progress # MaxSector,
         NEW c \in Chunks, StripeAhead(c, safe),
         epc \in Moving => StripeAhead(c, progress),
         NEW d \in RowChunks(Old, c \div KOld)
  PROVE  ~Migrated(d)
<1>1. epc \in Walking /\ backwards \in BOOLEAN /\ safe \in Int
  BY DEF GateInv, TypeOK, FrontierShape
<1>2. Ahead(d, safe)
  BY <1>1, RowAhead
<1>3. epc = "home" => d \div KNew # ClaimedRow
  BY AheadOfBand DEF Moving, Claiming
<1> QED
  BY <1>2, <1>3 DEF Migrated

\* The invariant sends each admitted request to its chunk's cell.
LEMMA ServedHolds ==
  ASSUME GateInv
  PROVE  ServedWhereItLives
<1> SUFFICES ASSUME NEW r \in Requests, req[r].pc \in {"admitted", "direct"}
             PROVE  req[r].old <=> ~Migrated(req[r].chunk)
  BY DEF ServedWhereItLives
<1> DEFINE c == req[r].chunk
<1>1. /\ RequestShape(r) /\ c \in Chunks /\ gen \in 0..1 /\ req[r].seq \in 0..1
      /\ FrontierShape /\ req[r].old \in BOOLEAN
  BY DEF GateInv, TypeOK, Request
<1>2. CASE gen = 0
  BY <1>1, <1>2 DEF RequestShape, Migrated
<1>3. CASE gen = 1 /\ req[r].pc = "admitted"
  <2>1. req[r].seq = 1
    BY <1>1, <1>3 DEF RequestShape
  <2>2. CASE req[r].old
    BY <1>1, <1>3, <2>1, <2>2, InOwnRow, NotMigrated DEF RequestShape
  <2>3. CASE ~req[r].old
    BY <1>1, <1>3, <2>1, <2>3 DEF RequestShape, Migrated
  <2> QED
    BY <2>2, <2>3
<1>4. CASE gen = 1 /\ req[r].pc = "direct" /\ progress = MaxSector
  BY <1>1, <1>4 DEF RequestShape, Migrated
<1>5. CASE gen = 1 /\ req[r].pc = "direct" /\ progress # MaxSector
  <2>1. req[r].old /\ safe = Start /\ epc \notin Moving
    BY <1>1, <1>5 DEF RequestShape
  <2>2. backwards = Backwards
    BY <1>1, <1>5, WalkPlace DEF FrontierShape
  <2>3. Ahead(c, safe)
    BY <1>1, <2>1, <2>2, ChunkType, SizeBounds, Constants DEF Ahead, Start
  <2> QED
    BY <1>5, <2>1, <2>3 DEF Migrated, Moving
<1> QED
  BY <1>1, <1>2, <1>3, <1>4, <1>5

\* The invariant keeps every admitted old stripe wholly ahead.
LEMMA WholeStripeHolds ==
  ASSUME GateInv
  PROVE  WholeStripeAhead
<1> SUFFICES ASSUME NEW r \in Requests, req[r].pc = "admitted", req[r].old,
                    NEW d \in RowChunks(Old, req[r].chunk \div KOld)
             PROVE  ~Migrated(d)
  BY DEF WholeStripeAhead
<1>1. /\ RequestShape(r) /\ req[r].chunk \in Chunks /\ gen \in 0..1
  BY DEF GateInv, TypeOK, Request
<1>2. CASE gen = 0
  BY <1>2 DEF Migrated
<1>3. CASE gen = 1
  <2>1. req[r].seq = 1
    BY <1>1, <1>3 DEF RequestShape
  <2> QED
    BY <1>1, <1>3, <2>1, NotMigrated DEF RequestShape
<1> QED
  BY <1>1, <1>2, <1>3

\* While a band is read, staged and overwritten, no request is on its row.
THEOREM BandIsExclusive ==
  ASSUME Timely
  PROVE  Spec => []Exclusion
<1>1. GateInv => Exclusion
  BY ExclusionHolds
<1> QED
  BY <1>1, GateInvariant, PTL

\* A request on a stripe works in the geometry its chunk is in.
THEOREM RequestsServedWhereTheyLive ==
  ASSUME Timely
  PROVE  Spec => []ServedWhereItLives
<1>1. GateInv => ServedWhereItLives
  BY ServedHolds
<1> QED
  BY <1>1, GateInvariant, PTL

\* A stripe of the old geometry is never half migrated.
THEOREM StripesAreWhole ==
  ASSUME Timely
  PROVE  Spec => []WholeStripeAhead
<1>1. GateInv => WholeStripeAhead
  BY WholeStripeHolds
<1> QED
  BY <1>1, GateInvariant, PTL


-----------------------------------------------------------------------------
(* The block device.  GateInv says which cell a request may use; now what   *)
(* the cells hold: every chunk has one place, no two chunks share theirs,   *)
(* and the band the sync thread has read is still what its old cells hold   *)
(* when it is written home.                                                 *)

\* The frontier up to which chunks are served in the new geometry.  A band is
\* counted with them from the moment its row is written home.
Edge == IF epc = "home" THEN progress ELSE safe

Behind(c) == gen = 1 /\ (progress = MaxSector \/ ~Ahead(c, Edge))

\* The one cell a chunk is kept in, grown capacity included.
PlaceOf(c) == IF Behind(c) THEN NewCell(c) ELSE OldCell(c)

Grown == (Rows * KOld)..(Rows * KNew - 1)

\* What a request in each phase carries.
OpShape(r) ==
  /\ req[r].pc = "idle" => req[r].op \in {"none", "reply"}
  /\ req[r].pc # "idle" => req[r].op \in {"read", "write"}
  /\ req[r].pc \in {"gated", "mapped", "direct"} => req[r].op = "read"

\* The staged band is still what the old cells of its chunks hold.
BandIsCopy ==
  epc = "staged" =>
    \A c \in RowChunks(New, ClaimedRow) :
      band[c] = IF c >= Rows * KOld THEN Zero ELSE home[OldCell(c)]

\* The capacity the walk has added holds zeros.
GrownIsZero == \A c \in Grown : Behind(c) => home[NewCell(c)] = Zero

\* The inductive invariant of the contents, on top of GateInv.
ContentInv == BandIsCopy /\ GrownIsZero /\ \A r \in Requests : OpShape(r)

-----------------------------------------------------------------------------
(* Places                                                                   *)

\* A position is in the band exactly when the walk's two frontiers disagree on it.
LEMMA BandSplits ==
  ASSUME GateInv, epc \in Claiming, NEW c \in Int
  PROVE  /\ c \div KNew = ClaimedRow <=> (Ahead(c, safe) /\ ~Ahead(c, progress))
         /\ Ahead(c, progress) => Ahead(c, safe)
<1> DEFINE q == c \div KNew
           R == ClaimedRow
<1>1. PICK b \in 0..Rows :
        /\ safe = b * KNew
        /\ IF Backwards THEN b > 0 /\ progress = (b - 1) * KNew
                        ELSE b < Rows /\ progress = (b + 1) * KNew
        /\ R = IF Backwards THEN b - 1 ELSE b
  BY ClaimPlace
<1>2. backwards = Backwards
  BY ClaimPlace
<1>3. q \in Int /\ b \in Int /\ R \in Int
  BY <1>1, Constants, Division
<1>4. /\ c < b * KNew <=> q < b
      /\ c < (b - 1) * KNew <=> q < b - 1
      /\ c < (b + 1) * KNew <=> q < b + 1
  BY <1>3, Constants, RowBefore
<1>5. /\ b * KNew \in Int /\ (b - 1) * KNew \in Int /\ (b + 1) * KNew \in Int
  BY <1>3, Constants
<1> HIDE DEF q, R
<1>6. CASE Backwards
  <2>1. /\ Ahead(c, safe) <=> q < b
        /\ Ahead(c, progress) <=> q < b - 1
    BY <1>1, <1>2, <1>4, <1>6 DEF Ahead
  <2> QED
    BY <1>1, <1>3, <1>6, <2>1 DEF q, R
<1>7. CASE ~Backwards
  <2>1. /\ Ahead(c, safe) <=> ~(q < b)
        /\ Ahead(c, progress) <=> ~(q < b + 1)
    BY <1>1, <1>2, <1>4, <1>5, <1>7 DEF Ahead
  <2> QED
    BY <1>1, <1>3, <1>7, <2>1 DEF q, R
<1> QED
  BY <1>6, <1>7

\* A chunk is served from its new cell when it is behind the edge.
LEMMA MigratedIsBehind ==
  ASSUME GateInv, NEW c \in Chunks
  PROVE  Migrated(c) <=> Behind(c)
<1>1. c \in Int
  BY ChunkType
<1>2. CASE epc = "home"
  <2>1. epc \in Claiming
    BY <1>2 DEF Claiming, Moving
  <2>2. (~Ahead(c, safe) \/ c \div KNew = ClaimedRow) <=> ~Ahead(c, progress)
    BY <1>1, <2>1, BandSplits
  <2> QED
    BY <1>2, <2>2 DEF Migrated, Behind, Edge
<1>3. CASE epc # "home"
  BY <1>3 DEF Migrated, Behind, Edge
<1> QED
  BY <1>2, <1>3

\* Across a boundary between bands, the row a chunk moves to and the row another
\* is still in are different: forwards the walk fills rows the old chunks have
\* left, backwards as well.
LEMMA SidesApart ==
  ASSUME NEW b \in 0..Rows, NEW c \in Nat, NEW d \in Nat, backwards = Backwards,
         ~Ahead(c, b * KNew), Ahead(d, b * KNew)
  PROVE  c \div KNew # d \div KOld
<1>1. /\ b \in Int /\ b >= 0 /\ c \div KNew \in Int /\ d \div KOld \in Int
      /\ b * KNew \in Int /\ b * KOld \in Int
  BY Constants, Division
<1>2. /\ c < b * KNew <=> c \div KNew < b
      /\ d < b * KOld <=> d \div KOld < b
  BY <1>1, Constants, RowBefore
<1>3. CASE Backwards
  <2>1. ~(c < b * KNew) /\ d < b * KNew
    BY <1>3 DEF Ahead
  <2>2. b * KNew <= b * KOld
    BY <1>1, <1>3, Constants
  <2>3. d < b * KOld
    BY <1>1, <2>1, <2>2
  <2> QED
    BY <1>1, <1>2, <2>1, <2>3
<1>4. CASE ~Backwards
  <2>1. c < b * KNew /\ d >= b * KNew
    BY <1>1, <1>4 DEF Ahead
  <2>2. b * KOld <= b * KNew
    BY <1>1, <1>4, Constants
  <2>3. ~(d < b * KOld)
    BY <1>1, <2>1, <2>2
  <2> QED
    BY <1>1, <1>2, <2>1, <2>3
<1> QED
  BY <1>3, <1>4

\* While the walk is on, the edge is a boundary between bands.
LEMMA EdgePlace ==
  ASSUME GateInv, epc \in Walking
  PROVE  backwards = Backwards /\ \E b \in 0..Rows : Edge = b * KNew
<1>1. FrontierShape /\ gen \in 0..1
  BY DEF GateInv, TypeOK
<1>2. backwards = Backwards
  BY <1>1, WalkPlace
<1>3. CASE epc = "home"
  <2>1. PICK b \in 0..Rows :
          IF Backwards THEN b > 0 /\ progress = (b - 1) * KNew
                       ELSE b < Rows /\ progress = (b + 1) * KNew
    BY <1>3, ClaimPlace DEF Claiming, Moving
  <2>2. Backwards => b - 1 \in 0..Rows
    BY <2>1, Constants
  <2>3. ~Backwards => b + 1 \in 0..Rows
    BY <2>1, Constants
  <2> QED
    BY <1>2, <1>3, <2>1, <2>2, <2>3 DEF Edge
<1>4. CASE epc # "home"
  BY <1>1, <1>2, <1>4 DEF FrontierShape, Edge
<1> QED
  BY <1>3, <1>4

\* No two chunks are kept in one place, in whichever geometries they are.
LEMMA PlacesDistinct ==
  ASSUME GateInv, NEW c \in Nat, NEW d \in Nat, PlaceOf(c) = PlaceOf(d)
  PROVE  c = d
<1>1. Sound(Old) /\ Sound(New) /\ c \in Int /\ d \in Int
  BY Constants
<1>2. ASSUME NEW x \in Nat, NEW y \in Nat, Behind(x), ~Behind(y)
      PROVE  NewCell(x) # OldCell(y)
  <2>1. progress # MaxSector /\ ~Ahead(x, Edge) /\ Ahead(y, Edge)
    BY <1>2 DEF Behind
  <2>2. epc \in Walking
    BY <2>1 DEF GateInv, FrontierShape
  <2>3. x \div KNew # y \div KOld
    BY <1>2, <2>1, <2>2, EdgePlace, SidesApart
  <2>4. NewCell(x).row = x \div KNew /\ OldCell(y).row = y \div KOld
    BY <1>1, ComputeSectorOnMember DEF NewCell, OldCell, KNew, KOld
  <2> QED
    BY <2>3, <2>4
<1>3. CASE Behind(c) /\ Behind(d)
  BY <1>1, <1>3, ComputeSectorInjective DEF PlaceOf, NewCell
<1>4. CASE ~Behind(c) /\ ~Behind(d)
  BY <1>1, <1>4, ComputeSectorInjective DEF PlaceOf, OldCell
<1>5. CASE Behind(c) /\ ~Behind(d)
  BY <1>2, <1>5 DEF PlaceOf
<1>6. CASE ~Behind(c) /\ Behind(d)
  BY <1>2, <1>6 DEF PlaceOf
<1> QED
  BY <1>3, <1>4, <1>5, <1>6

\* The abstract store keeps each chunk in its place.
LEMMA StoreHolds == GateInv => Store = [c \in Chunks |-> home[PlaceOf(c)]]
BY MigratedIsBehind DEF Store, PlaceOf

\* The same after a step.
LEMMA StoreHoldsNext ==
  GateInv' => Store' = [c \in Chunks |-> home'[PlaceOf(c)']]
<1>1. (GateInv => Store = [c \in Chunks |-> home[PlaceOf(c)]])'
  BY StoreHolds, PTL
<1> QED
  BY <1>1

\* A chunk of the exposed array has its place among the cells.
LEMMA PlaceType ==
  ASSUME NEW c \in Chunks
  PROVE  PlaceOf(c) \in Cells
BY ChunkType, OldCellType, NewCellType DEF PlaceOf

\* A request on a stripe, or past the cache, uses its chunk's place.
LEMMA ServedAtPlace ==
  ASSUME GateInv, NEW r \in Requests, req[r].pc \in {"admitted", "direct"}
  PROVE  /\ req[r].chunk \in Chunks
         /\ CellOf(r) = PlaceOf(req[r].chunk)
<1>1. req[r].chunk \in Chunks
  BY DEF GateInv, TypeOK, Request
<1>2. req[r].old <=> ~Migrated(req[r].chunk)
  BY ServedHolds DEF ServedWhereItLives
<1> QED
  BY <1>1, <1>2, MigratedIsBehind DEF CellOf, PlaceOf

\* The positions of the claimed row, and where they stand while it is staged.
LEMMA StagedBand ==
  ASSUME GateInv, epc = "staged", NEW c \in RowChunks(New, ClaimedRow)
  PROVE  /\ c \in Nat /\ c < Rows * KNew
         /\ c \div KNew = ClaimedRow
         /\ ~Behind(c)
<1> DEFINE R == ClaimedRow
<1>1. epc \in Claiming /\ R \in 0..(Rows - 1)
  BY ClaimPlace DEF Claiming, Moving
<1>2. RowChunks(New, R) = (R * KNew)..((R + 1) * KNew - 1)
  BY DEF RowChunks, KNew
<1>3. /\ R \in Int /\ R * KNew \in Int /\ (R + 1) * KNew \in Int
      /\ R * KNew >= 0 /\ (R + 1) * KNew <= Rows * KNew
  BY <1>1, Constants
<1> HIDE DEF R
<1>4. /\ c \in Nat /\ c < Rows * KNew
      /\ ~(c < R * KNew) /\ c < (R + 1) * KNew
  BY <1>2, <1>3, Constants DEF R
<1>5. c \div KNew \in Int /\ ~(c \div KNew < R) /\ c \div KNew < R + 1
  BY <1>3, <1>4, Constants, RowBefore, Division
<1>6. c \div KNew = R
  BY <1>3, <1>5
<1>7. Ahead(c, safe) /\ progress # MaxSector
  BY <1>1, <1>4, <1>6, BandSplits, ClaimPlace DEF R
<1>8. ~Behind(c)
  BY <1>7 DEF Behind, Edge
<1> QED
  BY <1>4, <1>6, <1>8 DEF R

\* A position of the grown capacity has a cell in the new geometry, and no chunk.
LEMMA GrownType ==
  ASSUME NEW c \in Grown
  PROVE  /\ c \in Nat /\ c < Rows * KNew /\ c \notin Chunks
         /\ NewCell(c) \in Cells
<1>1. c \in Nat /\ c < Rows * KNew /\ c >= Rows * KOld
  BY Constants DEF Grown
<1>2. c \notin Chunks
  BY <1>1, SizeBounds, Constants DEF Chunks
<1> QED
  BY <1>1, <1>2, NewCellType

-----------------------------------------------------------------------------
(* Steps of a request                                                       *)

\* Nothing a request does moves the edge.
LEMMA SamePlaces ==
  ASSUME UNCHANGED <<frontier, epc>>
  PROVE  \A c : (Behind(c)' <=> Behind(c)) /\ PlaceOf(c)' = PlaceOf(c)
<1>1. UNCHANGED <<progress, safe, gen, backwards, epc>>
  BY DEF frontier
<1> QED
  BY <1>1 DEF PlaceOf, Behind, Edge, Ahead

\* A write to a chunk's place leaves the band and the grown capacity alone.
LEMMA WriteElsewhere ==
  ASSUME GateInv, BandIsCopy, GrownIsZero, UNCHANGED <<frontier, epc, band>>,
         NEW c \in Chunks, NEW v,
         epc \in Moving => c \div KNew # ClaimedRow,
         home' = [home EXCEPT ![PlaceOf(c)] = v]
  PROVE  BandIsCopy' /\ GrownIsZero'
<1>1. UNCHANGED <<progress, safe, gen, backwards, epc, band>>
  BY DEF frontier
<1>2. home \in [Cells -> Values] /\ c \in Nat
  BY ChunkType DEF GateInv, TypeOK
<1>3. ASSUME NEW d \in Nat, d # c, PlaceOf(d) \in Cells
      PROVE  home'[PlaceOf(d)] = home[PlaceOf(d)]
  BY <1>2, <1>3, PlacesDistinct
<1>4. GrownIsZero'
  <2> SUFFICES ASSUME NEW d \in Grown, Behind(d)
               PROVE  home'[NewCell(d)] = Zero
    BY SamePlaces DEF GrownIsZero
  <2>1. PlaceOf(d) = NewCell(d) /\ d # c /\ d \in Nat /\ NewCell(d) \in Cells
    BY GrownType DEF PlaceOf
  <2> QED
    BY <1>3, <2>1 DEF GrownIsZero
<1>5. BandIsCopy'
  <2>1. ClaimedRow' = ClaimedRow
    BY <1>1 DEF ClaimedRow
  <2> SUFFICES ASSUME epc = "staged", NEW d \in RowChunks(New, ClaimedRow)
               PROVE  band[d] = IF d >= Rows * KOld THEN Zero ELSE home'[OldCell(d)]
    BY <1>1, <2>1 DEF BandIsCopy
  <2>2. d \in Nat /\ d \div KNew = ClaimedRow /\ ~Behind(d)
    BY StagedBand
  <2>3. d # c
    BY <2>2 DEF Moving
  <2>4. ~(d >= Rows * KOld) => home'[OldCell(d)] = home[OldCell(d)]
    BY <1>3, <2>2, <2>3, OldCellType, Constants DEF PlaceOf
  <2> QED
    BY <2>4 DEF BandIsCopy
<1> QED
  BY <1>4, <1>5

\* What an admitted request does: it answers with its chunk's contents, or replaces
\* them, and nothing else.
LEMMA PerformDoes ==
  ASSUME GateInv, NEW r \in Requests, OpShape(r), Perform(r)
  PROVE  LET c == req[r].chunk
         IN  /\ c \in Chunks
             /\ UNCHANGED <<frontier, epc, band>>
             /\ epc \in Moving => c \div KNew # ClaimedRow
             /\ \/ /\ req[r].op = "read"
                   /\ home' = home
                   /\ req' = [req EXCEPT ![r] = [IdleRequest EXCEPT
                                 !.op = "reply", !.val = home[PlaceOf(c)]]]
                \/ /\ req[r].op = "write"
                   /\ home' = [home EXCEPT ![PlaceOf(c)] = req[r].val]
                   /\ req' = [req EXCEPT ![r] = [IdleRequest EXCEPT
                                 !.op = "reply", !.val = req[r].val]]
<1>1. req[r].pc = "admitted" /\ UNCHANGED <<frontier, quiesce, engine, writes>>
  BY DEF Perform
<1>2. req[r].chunk \in Chunks /\ CellOf(r) = PlaceOf(req[r].chunk)
  BY <1>1, ServedAtPlace
<1>3. epc \in Moving => req[r].chunk \div KNew # ClaimedRow
  BY <1>1, ExclusionHolds DEF Exclusion
<1>4. req[r].op \in {"read", "write"}
  BY <1>1 DEF OpShape
<1>5. UNCHANGED <<frontier, epc, band>>
  BY <1>1 DEF engine
<1> QED
  BY <1>2, <1>3, <1>4, <1>5 DEF Perform

\* What a request carries, and what the contents are, survive each of its steps.
LEMMA RequestOps ==
  ASSUME GateInv, \A q \in Requests : OpShape(q),
         NEW r \in Requests, Submit(r) \/ Serve(r)
  PROVE  \A q \in Requests : OpShape(q)'
<1>1. req \in [Requests -> Request] /\ OpShape(r)
  BY DEF GateInv, TypeOK
<1>2. ASSUME NEW x, req' = [req EXCEPT ![r] = x],
             /\ x.pc = "idle" => x.op \in {"none", "reply"}
             /\ x.pc # "idle" => x.op \in {"read", "write"}
             /\ x.pc \in {"gated", "mapped", "direct"} => x.op = "read"
      PROVE  \A q \in Requests : OpShape(q)'
  BY <1>1, <1>2 DEF OpShape
<1>3. CASE Submit(r)
  <2>1. PICK c \in Chunks :
          \/ \E pc \in {"gated", "new"} :
               req' = [req EXCEPT ![r] = [IdleRequest EXCEPT
                         !.pc = pc, !.op = "read", !.chunk = c,
                         !.onq = progress # MaxSector]]
          \/ req' = [req EXCEPT ![r] = [IdleRequest EXCEPT
                       !.pc = "new", !.op = "write", !.chunk = c,
                       !.val = Rows * KOld + writes,
                       !.onq = progress # MaxSector]]
    BY <1>3 DEF Submit
  <2> QED
    BY <1>2, <2>1 DEF IdleRequest
<1>4. CASE Perform(r)
  <2>1. PICK v : req' = [req EXCEPT ![r] = [IdleRequest EXCEPT !.op = "reply", !.val = v]]
    BY <1>1, <1>4, PerformDoes
  <2> QED
    BY <1>2, <2>1 DEF IdleRequest
<1>5. CASE BypassDone(r)
  <2>1. PICK v : req' = [req EXCEPT ![r] = [IdleRequest EXCEPT !.op = "reply", !.val = v]]
    BY <1>5 DEF BypassDone
  <2> QED
    BY <1>2, <2>1 DEF IdleRequest
<1>6. CASE Classify(r)
  <2>1. PICK o, s : req' = [req EXCEPT ![r] = [req[r] EXCEPT
                               !.pc = "lookup", !.old = o, !.seq = s]]
    BY <1>6 DEF Classify
  <2> QED
    BY <1>1, <1>2, <1>6, <2>1 DEF Classify, OpShape, Request
<1>7. CASE BypassMap(r)
  <2>1. CASE req' = [req EXCEPT ![r].pc = "mapped", ![r].old = CurrentIsOld,
                                ![r].seq = gen]
    <3>1. req' = [req EXCEPT ![r] = [req[r] EXCEPT !.pc = "mapped",
                               !.old = CurrentIsOld, !.seq = gen]]
      BY <2>1
    <3> QED
      BY <1>1, <1>2, <1>7, <3>1 DEF BypassMap, OpShape, Request
  <2>2. CASE req' = [req EXCEPT ![r].pc = "new", ![r].onq = progress # MaxSector]
    <3>1. req' = [req EXCEPT ![r] = [req[r] EXCEPT !.pc = "new",
                               !.onq = progress # MaxSector]]
      BY <2>2
    <3> QED
      BY <1>1, <1>2, <1>7, <3>1 DEF BypassMap, OpShape, Request
  <2> QED
    BY <1>7, <2>1, <2>2 DEF BypassMap
<1>8. CASE SleepOffQueue(r) \/ GetStripe(r) \/ Recheck(r) \/ BypassRef(r)
  <2>1. PICK pc \in {"new", "asleep", "holding", "admitted", "direct"} :
          /\ req' = [req EXCEPT ![r] = [req[r] EXCEPT !.pc = pc]]
          /\ pc = "direct" => req[r].pc = "mapped"
          /\ req[r].pc # "idle"
    BY <1>8 DEF SleepOffQueue, GetStripe, Recheck, BypassRef
  <2> QED
    BY <1>1, <1>2, <2>1 DEF OpShape, Request
<1> QED
  BY <1>3, <1>4, <1>5, <1>6, <1>7, <1>8 DEF Serve

\* A step of a request other than its I/O changes no cell and no frontier.
LEMMA OtherwiseStill ==
  ASSUME NEW r \in Requests, Submit(r) \/ Serve(r), ~Perform(r)
  PROVE  UNCHANGED <<frontier, epc, band, home>>
BY DEF Submit, Serve, Classify, SleepOffQueue, GetStripe, Recheck, BypassMap,
       BypassRef, BypassDone, engine

\* While nothing moves, the contents are what they were.
LEMMA StillContent ==
  ASSUME BandIsCopy, GrownIsZero, UNCHANGED <<frontier, epc, band, home>>
  PROVE  BandIsCopy' /\ GrownIsZero'
<1>1. BandIsCopy'
  BY DEF BandIsCopy, ClaimedRow, frontier
<1>2. GrownIsZero'
  BY SamePlaces DEF GrownIsZero
<1> QED
  BY <1>1, <1>2

\* Each step of a request keeps the invariant of the contents.
LEMMA RequestContent ==
  ASSUME GateInv, ContentInv, NEW r \in Requests, Submit(r) \/ Serve(r)
  PROVE  ContentInv'
<1>1. \A q \in Requests : OpShape(q)'
  BY RequestOps DEF ContentInv
<1>2. CASE Perform(r)
  <2> DEFINE c == req[r].chunk
  <2>1. /\ c \in Chunks /\ UNCHANGED <<frontier, epc, band>>
        /\ epc \in Moving => c \div KNew # ClaimedRow
        /\ \/ home' = home
           \/ home' = [home EXCEPT ![PlaceOf(c)] = req[r].val]
    BY <1>2, PerformDoes DEF ContentInv
  <2>2. CASE home' = home
    BY <1>1, <2>1, <2>2, StillContent DEF ContentInv
  <2>3. CASE home' = [home EXCEPT ![PlaceOf(c)] = req[r].val]
    <3> HIDE DEF c
    <3> QED
      BY <1>1, <2>1, <2>3, WriteElsewhere DEF ContentInv
  <2> QED
    BY <2>1, <2>2, <2>3
<1>3. CASE ~Perform(r)
  BY <1>1, <1>3, OtherwiseStill, StillContent DEF ContentInv
<1> QED
  BY <1>2, <1>3

-----------------------------------------------------------------------------
(* Steps of the sync thread                                                 *)

\* With no band left, everything is behind the walk.
LEMMA AllBehind ==
  ASSUME GateInv, epc = "ready", ~BandsLeft, NEW c \in Nat, c < Rows * KNew
  PROVE  ~Ahead(c, safe)
<1>1. epc \in Walking /\ gen \in 0..1 /\ FrontierShape
  BY DEF Walking, GateInv, TypeOK
<1>2. backwards = Backwards /\ safe \in 0..(Rows * KNew)
  BY <1>1, WalkPlace
<1>3. safe = IF Backwards THEN 0 ELSE Rows * KNew
  BY <1>2, Constants DEF BandsLeft
<1> QED
  BY <1>2, <1>3, Constants DEF Ahead

\* Only the overwriting of a row moves the edge: the geometry switch starts with
\* everything ahead of it, the release and the end find everything where it was.
LEMMA EdgeStays ==
  ASSUME GateInv, GateInv', Engine \/ LoseMember, ~WriteHome, ~DoneFails,
         NEW c \in Nat, c < Rows * KNew
  PROVE  Behind(c)' <=> Behind(c)
<1>1. FrontierShape /\ gen \in 0..1
  BY DEF GateInv, TypeOK
<1>2. CASE StartSwitch
  <2>1. gen = 0
    BY <1>1, <1>2 DEF StartSwitch, FrontierShape
  <2>2. /\ gen' = 1 /\ progress' = Start /\ safe' = Start /\ epc' = "armed"
        /\ backwards' = backwards
    BY <1>2 DEF StartSwitch
  <2>3. backwards = Backwards
    BY <1>1, <1>2, Constants DEF StartSwitch, FrontierShape
  <2>4. IF Backwards THEN c < Start ELSE c >= Start
    BY SizeBounds, Constants DEF Start
  <2> QED
    BY <2>1, <2>2, <2>3, <2>4, StartPlace DEF Behind, Edge, Ahead
<1>3. CASE EndPublish
  <2>1. gen = 1
    BY <1>1, <1>3, WalkPlace DEF EndPublish, Walking
  <2>2. gen' = gen /\ progress' = MaxSector
    BY <1>3 DEF EndPublish
  <2> QED
    BY <1>3, <2>1, <2>2, AllBehind DEF EndPublish, Behind, Edge
<1>4. CASE Release
  BY <1>4 DEF Release, Behind, Edge, Ahead
<1>5. CASE Finish
  <2>1. progress = MaxSector
    BY <1>1, <1>5 DEF Finish, FrontierShape, Walking, Claiming, Moving
  <2> QED
    BY <1>5, <2>1 DEF Finish, Behind
<1>6. CASE Claim
  <2>1. progress # MaxSector
    BY <1>1, <1>6, WalkPlace DEF Claim, Walking
  <2>2. progress' # MaxSector
    BY <1>6 DEF Claim, GateInv, FrontierShape, Walking, Claiming
  <2> QED
    BY <1>6, <2>1, <2>2 DEF Claim, Behind, Edge, Ahead
<1>7. CASE Unclaim \/ UnclaimDegraded
  <2>1. epc \in Claiming /\ epc # "home"
    BY <1>7 DEF Unclaim, UnclaimDegraded, Claiming, Moving
  <2>2. progress # MaxSector /\ safe # MaxSector
    BY <1>1, <2>1, WalkPlace, Constants DEF Walking
  <2>3. progress' = safe
    BY <1>7, <2>1, ClaimPlace DEF Unclaim, UnclaimDegraded, PutBack
  <2>4. UNCHANGED <<gen, safe, backwards>> /\ epc' # "home"
    BY <1>7 DEF Unclaim, UnclaimDegraded, PutBack
  <2> QED
    BY <2>1, <2>2, <2>3, <2>4 DEF Behind, Edge, Ahead
<1>8. CASE LoseMember
  BY <1>8, SamePlaces DEF LoseMember
<1>9. CASE StartDrain \/ StartPublish \/ ClaimDrain \/ ClaimDrained \/ ReadBand
             \/ EndDrain \/ EndCollapse
  <2>1. UNCHANGED <<progress, safe, gen, backwards>> /\ epc # "home" /\ epc' # "home"
    BY <1>9 DEF StartDrain, StartPublish, ClaimDrain, ClaimDrained, ReadBand,
                EndDrain, EndCollapse, frontier
  <2> QED
    BY <2>1 DEF Behind, Edge, Ahead
<1> QED
  BY <1>2, <1>3, <1>4, <1>5, <1>6, <1>7, <1>8, <1>9 DEF Engine

\* An end record that fails takes the edge back, never forward.
LEMMA EdgeFallsBack ==
  ASSUME GateInv, DoneFails, NEW c \in Int
  PROVE  Behind(c)' => Behind(c)
<1>1. epc = "home" /\ epc \in Claiming /\ PutBack("ready") /\ FrontierShape
      /\ gen \in 0..1
  BY DEF DoneFails, Claiming, Moving, GateInv, TypeOK
<1>2. safe # MaxSector /\ progress' = safe
  BY <1>1, WalkPlace, ClaimPlace, Constants DEF PutBack, Walking
<1>3. UNCHANGED <<gen, safe, backwards>> /\ epc' = "ready"
  BY <1>1 DEF PutBack
<1>4. Ahead(c, progress) => Ahead(c, safe)
  BY <1>1, BandSplits
<1> QED
  BY <1>1, <1>2, <1>3, <1>4 DEF Behind, Edge, Ahead

\* The band goes home: each of its chunks is now in the new row, as it was read,
\* and what is kept elsewhere is untouched.
LEMMA BandGoesHome ==
  ASSUME GateInv, WriteHome, NEW c \in Nat, c < Rows * KNew
  PROVE  /\ c \div KNew = ClaimedRow =>
              /\ c \in RowChunks(New, ClaimedRow)
              /\ ~Behind(c) /\ Behind(c)'
              /\ home'[NewCell(c)] = band[c]
         /\ c \div KNew # ClaimedRow =>
              /\ Behind(c)' <=> Behind(c)
              /\ PlaceOf(c) \in Cells => home'[PlaceOf(c)] = home[PlaceOf(c)]
<1> DEFINE R == ClaimedRow
<1>1. /\ epc = "staged" /\ epc' = "home" /\ epc \in Claiming
      /\ UNCHANGED <<progress, safe, gen, backwards>>
      /\ home' = [x \in Cells |-> IF x \in DOMAIN NewRowImage THEN NewRowImage[x]
                                                              ELSE home[x]]
  BY DEF WriteHome, frontier, Claiming, Moving
<1>2. /\ gen = 1 /\ progress # MaxSector /\ R \in 0..(Rows - 1)
      /\ band \in [RowChunks(New, R) -> Values]
  BY <1>1, ClaimPlace DEF GateInv, BandShape
<1>3. DOMAIN NewRowImage = {y \in Cells : y.row = R /\ y.disk < New.n}
  BY DEF NewRowImage
<1>4. /\ Behind(c) <=> ~Ahead(c, safe)
      /\ Behind(c)' <=> ~Ahead(c, progress)
  BY <1>1, <1>2 DEF Behind, Edge, Ahead
<1>5. c \div KNew = R <=> (Ahead(c, safe) /\ ~Ahead(c, progress))
  BY <1>1, BandSplits
<1>6. Ahead(c, progress) => Ahead(c, safe)
  BY <1>1, BandSplits
<1>7. ASSUME c \div KNew = R
      PROVE  c \in RowChunks(New, R) /\ home'[NewCell(c)] = band[c]
  <2>1. c \in RowChunks(New, R)
    <3>1. RowChunks(New, R) = (R * KNew)..((R + 1) * KNew - 1)
      BY DEF RowChunks, KNew
    <3>2. R \in Int /\ R * KNew \in Int /\ (R + 1) * KNew \in Int
      BY <1>2, Constants
    <3>3. ~(c < R * KNew) /\ c < (R + 1) * KNew
      BY <1>2, <1>7, <3>2, RowBefore, Constants
    <3> HIDE DEF R
    <3> QED
      BY <3>1, <3>2, <3>3
  <2>2. NewCell(c) \in Cells /\ NewCell(c).row = R /\ NewCell(c).disk < New.n
    BY <1>7, NewCellType, ComputeSectorOnMember, Constants, SoundGeometry DEF NewCell
  <2>3. ASSUME NEW d \in RowChunks(New, R), NewCell(d) = NewCell(c) PROVE d = c
    BY <1>1, <2>3, StagedBand, Constants, ComputeSectorInjective DEF NewCell
  <2>4. (CHOOSE d \in DOMAIN band : NewCell(d) = NewCell(c)) = c
    BY <1>2, <2>1, <2>3
  <2>5. NewCell(c) \in DOMAIN NewRowImage
    BY <1>3, <2>2
  <2>6. NewRowImage[NewCell(c)] = band[c]
    BY <1>2, <1>3, <2>1, <2>4, <2>5 DEF NewRowImage
  <2> QED
    BY <1>1, <2>1, <2>2, <2>5, <2>6
<1>8. ASSUME c \div KNew # R, PlaceOf(c) \in Cells
      PROVE  home'[PlaceOf(c)] = home[PlaceOf(c)]
  <2>1. PlaceOf(c).row # R
    <3>1. CASE Behind(c)
      BY <1>8, <3>1, NewCellType DEF PlaceOf
    <3>2. CASE ~Behind(c)
      <4>1. Ahead(c, progress)
        BY <1>4, <1>5, <1>8, <3>2
      <4> DEFINE x == R * KNew
      <4>2. x \in Nat /\ x \div KNew = R
        BY <1>2, Constants, RowStart
      <4>3. ~Ahead(x, progress)
        BY <1>1, <4>2, BandSplits
      <4>4. PICK b \in 0..Rows : progress = b * KNew
        <5>1. PICK a \in 0..Rows :
                IF Backwards THEN a > 0 /\ progress = (a - 1) * KNew
                             ELSE a < Rows /\ progress = (a + 1) * KNew
          BY <1>1, ClaimPlace
        <5>2. (Backwards => a - 1 \in 0..Rows) /\ (~Backwards => a + 1 \in 0..Rows)
          BY <5>1, Constants
        <5> QED
          BY <5>1, <5>2
      <4>5. backwards = Backwards
        BY <1>1, ClaimPlace
      <4> HIDE DEF x
      <4>6. R # c \div KOld
        BY <4>1, <4>2, <4>3, <4>4, <4>5, SidesApart
      <4>7. OldCell(c).row = c \div KOld
        BY Constants, ComputeSectorOnMember DEF OldCell, KOld
      <4> QED
        BY <3>2, <4>6, <4>7 DEF PlaceOf
    <3> QED
      BY <3>1, <3>2
  <2> QED
    BY <1>1, <1>3, <1>8, <2>1
<1> QED
  BY <1>4, <1>5, <1>6, <1>7, <1>8

\* Each step of the sync thread keeps the invariant of the contents; it may even
\* lose an end record, for what it wrote before is what it will write again.
LEMMA EngineContent ==
  ASSUME GateInv, GateInv', ContentInv, Engine \/ LoseMember
  PROVE  ContentInv'
<1>1. UNCHANGED req
  BY DEF Engine, LoseMember, StartDrain, StartSwitch, StartPublish, Claim, ClaimDrain,
         ClaimDrained, ReadBand, WriteHome, Release, Unclaim, UnclaimDegraded,
         DoneFails, PutBack, EndPublish, EndDrain, EndCollapse, Finish
<1>2. \A q \in Requests : OpShape(q)'
  BY <1>1 DEF ContentInv, OpShape
<1>3. CASE WriteHome
  <2>1. BandIsCopy'
    BY <1>3 DEF WriteHome, BandIsCopy
  <2>2. ASSUME NEW c \in Grown, Behind(c)' PROVE home'[NewCell(c)] = Zero
    <3>1. c \in Nat /\ c < Rows * KNew /\ NewCell(c) \in Cells
      BY GrownType
    <3>2. CASE c \div KNew = ClaimedRow
      <4>1. home'[NewCell(c)] = band[c] /\ c \in RowChunks(New, ClaimedRow)
        BY <1>3, <3>1, <3>2, BandGoesHome
      <4>2. c >= Rows * KOld
        BY Constants DEF Grown
      <4> QED
        BY <1>3, <4>1, <4>2 DEF WriteHome, ContentInv, BandIsCopy
    <3>3. CASE c \div KNew # ClaimedRow
      <4>1. Behind(c)
        BY <1>3, <2>2, <3>1, <3>3, BandGoesHome
      <4>2. home'[NewCell(c)] = home[NewCell(c)]
        BY <1>3, <3>1, <3>3, <4>1, BandGoesHome DEF PlaceOf
      <4> QED
        BY <4>1, <4>2 DEF ContentInv, GrownIsZero
    <3> QED
      BY <3>2, <3>3
  <2> QED
    BY <1>2, <2>1, <2>2 DEF ContentInv, GrownIsZero
<1>4. CASE ~WriteHome
  <2>1. UNCHANGED home
    BY <1>4 DEF Engine, LoseMember, StartDrain, StartSwitch, StartPublish, Claim,
                ClaimDrain, ClaimDrained, ReadBand, Release, Unclaim, UnclaimDegraded,
                DoneFails, PutBack, EndPublish, EndDrain, EndCollapse, Finish
  <2>2. \A c \in Grown : Behind(c)' => Behind(c)
    BY <1>4, GrownType, EdgeStays, EdgeFallsBack
  <2>3. GrownIsZero'
    BY <2>1, <2>2 DEF ContentInv, GrownIsZero
  <2>4. BandIsCopy'
    <3>1. CASE ReadBand
      <4>1. ClaimedRow' = ClaimedRow
        BY <3>1 DEF ReadBand, ClaimedRow, frontier
      <4> QED
        BY <2>1, <3>1, <4>1 DEF ReadBand, BandIsCopy
    <3>2. CASE LoseMember
      BY <3>2, StillContent DEF LoseMember, ContentInv
    <3>3. CASE ~ReadBand /\ ~LoseMember
      <4>1. epc' # "staged"
        BY <1>4, <3>3 DEF Engine, StartDrain, StartSwitch, StartPublish, Claim,
             ClaimDrain, ClaimDrained, Release, Unclaim, UnclaimDegraded, DoneFails,
             PutBack, EndPublish, EndDrain, EndCollapse, Finish
      <4> QED
        BY <4>1 DEF BandIsCopy
    <3> QED
      BY <3>1, <3>2, <3>3
  <2> QED
    BY <1>2, <2>3, <2>4 DEF ContentInv
<1> QED
  BY <1>3, <1>4

-----------------------------------------------------------------------------
(* The theorems                                                             *)

\* Together with the gate, the invariant of the contents is inductive.
LEMMA ContentInvariant ==
  ASSUME Timely
  PROVE  Spec => []ContentInv
<1>1. Init => ContentInv
  <2> SUFFICES ASSUME Init PROVE ContentInv
    OBVIOUS
  <2>1. gen = 0 /\ epc = "off" /\ \A r \in Requests : req[r] = IdleRequest
    BY DEF Init
  <2> QED
    BY <2>1 DEF ContentInv, BandIsCopy, GrownIsZero, Behind, OpShape, IdleRequest
<1>2. GateInv /\ GateInv' /\ ContentInv /\ [Next]_vars => ContentInv'
  <2> SUFFICES ASSUME GateInv, GateInv', ContentInv, [Next]_vars PROVE ContentInv'
    OBVIOUS
  <2>1. CASE Engine \/ LoseMember
    BY <2>1, EngineContent
  <2>2. CASE \E r \in Requests : Submit(r) \/ Serve(r)
    BY <2>2, RequestContent
  <2>3. CASE UNCHANGED vars
    <3>1. UNCHANGED <<frontier, epc, band, home, req>>
      BY <2>3 DEF vars, engine
    <3>2. \A q \in Requests : OpShape(q)'
      BY <3>1 DEF ContentInv, OpShape
    <3> QED
      BY <3>1, <3>2, StillContent DEF ContentInv
  <2> QED
    BY <2>1, <2>2, <2>3 DEF Next
<1> QED
  BY <1>1, <1>2, GateInvariant, PTL DEF Spec

\* What the reshape adds to the array reads as zeros when it has ended, whatever
\* was written during the walk and however often a band had to be redone.
THEOREM GrownCapacityReadsZero ==
  ASSUME Timely
  PROVE  Spec => []GrownCapacityIsZero
<1>1. GateInv /\ ContentInv => GrownCapacityIsZero
  <2> SUFFICES ASSUME GateInv, ContentInv, epc = "finished", NEW c \in Grown
               PROVE  home[NewCell(c)] = Zero
    BY DEF GrownCapacityIsZero, Grown
  <2>1. gen \in 0..1 /\ FrontierShape
    BY DEF GateInv, TypeOK
  <2>2. gen = 1 /\ progress = MaxSector
    BY <2>1 DEF FrontierShape, Walking, Claiming, Moving
  <2> QED
    BY <2>2 DEF Behind, ContentInv, GrownIsZero
<1> QED
  BY <1>1, GateInvariant, ContentInvariant, PTL

-----------------------------------------------------------------------------
(* The block device                                                         *)

\* What the filesystem sees of a request.
LEMMA Seen ==
  ASSUME NEW r \in Requests
  PROVE  /\ req[r].op = "none" => IO[r] = [op |-> "none"]
         /\ req[r].op = "read" => IO[r] = [op |-> "read", chunk |-> req[r].chunk]
         /\ req[r].op = "write" =>
              IO[r] = [op |-> "write", chunk |-> req[r].chunk, val |-> req[r].val]
         /\ req[r].op = "reply" => IO[r] = [op |-> "reply", val |-> req[r].val]
BY DEF IO, Shown

\* The same after a step.
LEMMA SeenNext ==
  ASSUME NEW r \in Requests
  PROVE  /\ req'[r].op = "none" => IO'[r] = [op |-> "none"]
         /\ req'[r].op = "read" => IO'[r] = [op |-> "read", chunk |-> req'[r].chunk]
         /\ req'[r].op = "write" =>
              IO'[r] = [op |-> "write", chunk |-> req'[r].chunk, val |-> req'[r].val]
         /\ req'[r].op = "reply" => IO'[r] = [op |-> "reply", val |-> req'[r].val]
BY DEF IO, Shown

\* A slot whose request carries the same as before looks the same.
LEMMA SameShown ==
  ASSUME NEW q \in Requests, req[q].op \in {"none", "read", "write", "reply"},
         req'[q].op = req[q].op, req'[q].chunk = req[q].chunk, req'[q].val = req[q].val
  PROVE  Shown(q)' = Shown(q)
BY DEF Shown

\* A step of one request shows in that request only.
LEMMA OneSeen ==
  ASSUME GateInv, NEW r \in Requests, \A q \in Requests \ {r} : req'[q] = req[q]
  PROVE  IO' = [IO EXCEPT ![r] = IO'[r]]
<1>1. \A q \in Requests \ {r} : Shown(q)' = Shown(q)
  BY SameShown DEF GateInv, TypeOK, Request
<1> QED
  BY <1>1 DEF IO

\* A step that keeps what each request carries does not show.
LEMMA NoneSeen ==
  ASSUME GateInv,
         \A q \in Requests : /\ req'[q].op = req[q].op
                             /\ req'[q].chunk = req[q].chunk
                             /\ req'[q].val = req[q].val
  PROVE  IO' = IO
<1>1. \A q \in Requests : Shown(q)' = Shown(q)
  BY SameShown DEF GateInv, TypeOK, Request
<1> QED
  BY <1>1 DEF IO

\* Where no place moves and no cell changes, the store is what it was.
LEMMA StoreStays ==
  ASSUME GateInv, GateInv',
         \A c \in Chunks : home'[PlaceOf(c)'] = home[PlaceOf(c)]
  PROVE  Store' = Store
BY StoreHolds, StoreHoldsNext

\* A submission is the device's.
LEMMA SubmitShows ==
  ASSUME GateInv, GateInv', ContentInv, NEW r \in Requests, Submit(r)
  PROVE  Device!Submit(r)
<1>1. req[r].pc = "idle" /\ OpShape(r) /\ req \in [Requests -> Request]
  BY DEF Submit, ContentInv, GateInv, TypeOK
<1>2. IO[r] \notin Device!Pending
  <2>1. \A x \in Device!Pending : x.op \in {"read", "write"}
    BY DEF Device!Pending
  <2>2. req[r].op \in {"none", "reply"}
    BY <1>1 DEF OpShape
  <2>3. IO[r] = [op |-> "none"] \/ IO[r] = [op |-> "reply", val |-> req[r].val]
    BY <2>2, Seen
  <2>4. IO[r].op \in {"none", "reply"}
    BY <2>3
  <2> QED
    BY <2>1, <2>4
<1>3. /\ req'[r].op \in {"read", "write"}
      /\ \A q \in Requests \ {r} : req'[q] = req[q]
  <2>1. PICK c \in Chunks :
          \/ \E pc \in {"gated", "new"} :
               req' = [req EXCEPT ![r] = [IdleRequest EXCEPT
                         !.pc = pc, !.op = "read", !.chunk = c,
                         !.onq = progress # MaxSector]]
          \/ req' = [req EXCEPT ![r] = [IdleRequest EXCEPT
                       !.pc = "new", !.op = "write", !.chunk = c,
                       !.val = Rows * KOld + writes,
                       !.onq = progress # MaxSector]]
    BY DEF Submit
  <2> QED
    BY <1>1, <2>1 DEF IdleRequest
<1>4. req'[r].chunk \in Chunks /\ req'[r].val \in Values
  BY DEF GateInv, TypeOK, Request
<1>5. IO'[r] \in Device!Pending
  <2>1. /\ [op |-> "read", chunk |-> req'[r].chunk] \in Device!Pending
        /\ [op |-> "write", chunk |-> req'[r].chunk, val |-> req'[r].val]
             \in Device!Pending
    BY <1>4 DEF Device!Pending
  <2> QED
    BY <1>3, <2>1, SeenNext
<1>6. IO' = [IO EXCEPT ![r] = IO'[r]]
  BY <1>3, OneSeen
<1>7. Store' = Store
  <2>1. UNCHANGED <<frontier, epc, band, home>>
    BY OtherwiseStill DEF Submit, Perform
  <2> QED
    BY <2>1, SamePlaces, StoreStays
<1> QED
  BY <1>2, <1>5, <1>6, <1>7 DEF Device!Submit

\* The I/O of an admitted request is the device's read or write.
LEMMA PerformShows ==
  ASSUME GateInv, GateInv', ContentInv, NEW r \in Requests, Perform(r)
  PROVE  Device!Read(r) \/ Device!Write(r)
<1> DEFINE c == req[r].chunk
<1>1. /\ OpShape(r) /\ req \in [Requests -> Request] /\ home \in [Cells -> Values]
  BY DEF ContentInv, GateInv, TypeOK
<1>2. c \in Chunks /\ UNCHANGED <<frontier, epc, band>>
  BY <1>1, PerformDoes
<1>3. \A d \in Chunks : PlaceOf(d)' = PlaceOf(d) /\ PlaceOf(d) \in Cells
  BY <1>2, SamePlaces, PlaceType
<1>4. Store[c] = home[PlaceOf(c)]
  BY <1>2, StoreHolds
<1>5. CASE /\ req[r].op = "read"
           /\ home' = home
           /\ req' = [req EXCEPT ![r] = [IdleRequest EXCEPT
                         !.op = "reply", !.val = home[PlaceOf(c)]]]
  <2>1. IO[r] = [op |-> "read", chunk |-> c]
    BY <1>5, Seen
  <2>2. /\ req'[r].op = "reply" /\ req'[r].val = home[PlaceOf(c)]
        /\ \A q \in Requests \ {r} : req'[q] = req[q]
    BY <1>1, <1>5 DEF IdleRequest
  <2>3. IO'[r] = [op |-> "reply", val |-> Store[c]]
    <3>1. IO'[r] = [op |-> "reply", val |-> req'[r].val]
      BY <2>2, SeenNext
    <3> QED
      BY <1>4, <2>2, <3>1
  <2>4. Store' = Store
    BY <1>3, <1>5, StoreStays
  <2> QED
    BY <2>1, <2>2, <2>3, <2>4, OneSeen DEF Device!Read
<1>6. CASE /\ req[r].op = "write"
           /\ home' = [home EXCEPT ![PlaceOf(c)] = req[r].val]
           /\ req' = [req EXCEPT ![r] = [IdleRequest EXCEPT
                         !.op = "reply", !.val = req[r].val]]
  <2>1. IO[r] = [op |-> "write", chunk |-> c, val |-> req[r].val]
    BY <1>6, Seen
  <2>2. /\ req'[r].op = "reply" /\ req'[r].val = req[r].val
        /\ \A q \in Requests \ {r} : req'[q] = req[q]
    BY <1>1, <1>6 DEF IdleRequest
  <2>3. IO'[r] = [op |-> "reply", val |-> req[r].val]
    BY <2>2, SeenNext
  <2>4. ASSUME NEW d \in Chunks
        PROVE  home'[PlaceOf(d)'] = IF d = c THEN req[r].val ELSE home[PlaceOf(d)]
    <3>1. d \in Nat /\ c \in Nat
      BY <1>2, ChunkType
    <3>2. d # c => PlaceOf(d) # PlaceOf(c)
      BY <3>1, PlacesDistinct
    <3> HIDE DEF c
    <3> QED
      BY <1>1, <1>2, <1>3, <1>6, <3>2
  <2>5. Store' = [Store EXCEPT ![c] = req[r].val]
    <3>1. Store' = [d \in Chunks |-> home'[PlaceOf(d)']]
      BY StoreHoldsNext
    <3>2. Store = [d \in Chunks |-> home[PlaceOf(d)]]
      BY StoreHolds
    <3> HIDE DEF c
    <3> QED
      BY <2>4, <3>1, <3>2
  <2> QED
    BY <2>1, <2>2, <2>3, <2>5, OneSeen DEF Device!Write
<1> QED
  BY <1>1, <1>5, <1>6, PerformDoes

\* A bypass read is the device's read.
LEMMA BypassShows ==
  ASSUME GateInv, GateInv', ContentInv, NEW r \in Requests, BypassDone(r)
  PROVE  Device!Read(r)
<1> DEFINE c == req[r].chunk
<1>1. /\ req[r].pc = "direct" /\ req[r].op = "read" /\ req \in [Requests -> Request]
      /\ UNCHANGED <<frontier, epc, home>>
      /\ req' = [req EXCEPT ![r] = [IdleRequest EXCEPT
                                      !.op = "reply", !.val = home[CellOf(r)]]]
  BY DEF BypassDone, ContentInv, OpShape, GateInv, TypeOK, engine
<1>2. c \in Chunks /\ CellOf(r) = PlaceOf(c)
  BY <1>1, ServedAtPlace
<1>3. Store[c] = home[PlaceOf(c)]
  BY <1>2, StoreHolds
<1>4. IO[r] = [op |-> "read", chunk |-> c]
  BY <1>1, Seen
<1>5. /\ req'[r].op = "reply" /\ req'[r].val = home[PlaceOf(c)]
      /\ \A q \in Requests \ {r} : req'[q] = req[q]
  BY <1>1, <1>2 DEF IdleRequest
<1>6. IO'[r] = [op |-> "reply", val |-> Store[c]]
  <2>1. IO'[r] = [op |-> "reply", val |-> req'[r].val]
    BY <1>5, SeenNext
  <2> QED
    BY <1>3, <1>5, <2>1
<1>7. Store' = Store
  BY <1>1, SamePlaces, StoreStays
<1> QED
  BY <1>4, <1>5, <1>6, <1>7, OneSeen DEF Device!Read

\* The other steps of a request do not show.
LEMMA WaitingIsSilent ==
  ASSUME GateInv, GateInv', NEW r \in Requests,
         Serve(r), ~Perform(r), ~BypassDone(r)
  PROVE  UNCHANGED <<Store, IO>>
<1>1. UNCHANGED <<frontier, epc, band, home>>
  BY OtherwiseStill
<1>2. Store' = Store
  BY <1>1, SamePlaces, StoreStays
<1>3. req \in [Requests -> Request]
  BY DEF GateInv, TypeOK
<1>4. \A q \in Requests : /\ req'[q].op = req[q].op
                          /\ req'[q].chunk = req[q].chunk
                          /\ req'[q].val = req[q].val
  <2>1. CASE Classify(r)
    <3>1. PICK o, s : req' = [req EXCEPT ![r] = [req[r] EXCEPT
                                 !.pc = "lookup", !.old = o, !.seq = s]]
      BY <2>1 DEF Classify
    <3> QED
      BY <1>3, <3>1 DEF Request
  <2>2. CASE BypassMap(r)
    <3>1. PICK p, o, s, w : req' = [req EXCEPT ![r] = [req[r] EXCEPT
                                 !.pc = p, !.old = o, !.seq = s, !.onq = w]]
      <4>1. CASE req' = [req EXCEPT ![r].pc = "mapped", ![r].old = CurrentIsOld,
                                    ![r].seq = gen]
        <5>1. req' = [req EXCEPT ![r] = [req[r] EXCEPT !.pc = "mapped",
                        !.old = CurrentIsOld, !.seq = gen, !.onq = req[r].onq]]
          BY <1>3, <4>1 DEF Request
        <5> QED
          BY <5>1
      <4>2. CASE req' = [req EXCEPT ![r].pc = "new", ![r].onq = progress # MaxSector]
        <5>1. req' = [req EXCEPT ![r] = [req[r] EXCEPT !.pc = "new",
                        !.old = req[r].old, !.seq = req[r].seq,
                        !.onq = progress # MaxSector]]
          BY <1>3, <4>2 DEF Request
        <5> QED
          BY <5>1
      <4> QED
        BY <2>2, <4>1, <4>2 DEF BypassMap
    <3> QED
      BY <1>3, <3>1 DEF Request
  <2>3. CASE SleepOffQueue(r) \/ GetStripe(r) \/ Recheck(r) \/ BypassRef(r)
    <3>1. PICK p : req' = [req EXCEPT ![r] = [req[r] EXCEPT !.pc = p]]
      BY <2>3 DEF SleepOffQueue, GetStripe, Recheck, BypassRef
    <3> QED
      BY <1>3, <3>1 DEF Request
  <2> QED
    BY <2>1, <2>2, <2>3 DEF Serve
<1> QED
  BY <1>2, <1>4, NoneSeen

\* No step of the reshape shows, as long as the record of its end is written.
LEMMA ReshapeIsSilent ==
  ASSUME GateInv, GateInv', ContentInv, ~DoneMayFail, Engine \/ LoseMember
  PROVE  UNCHANGED <<Store, IO>>
<1>1. UNCHANGED req
  BY DEF Engine, LoseMember, StartDrain, StartSwitch, StartPublish, Claim, ClaimDrain,
         ClaimDrained, ReadBand, WriteHome, Release, Unclaim, UnclaimDegraded,
         DoneFails, PutBack, EndPublish, EndDrain, EndCollapse, Finish
<1>2. IO' = IO
  BY <1>1, NoneSeen
<1>3. CASE WriteHome
  <2>1. ASSUME NEW c \in Chunks
        PROVE  home'[PlaceOf(c)'] = home[PlaceOf(c)]
    <3>1. c \in Nat /\ c < Rows * KNew /\ c < Rows * KOld /\ PlaceOf(c) \in Cells
      BY ChunkType, PlaceType
    <3>2. CASE c \div KNew = ClaimedRow
      <4>1. /\ c \in RowChunks(New, ClaimedRow) /\ ~Behind(c) /\ Behind(c)'
            /\ home'[NewCell(c)] = band[c]
        BY <1>3, <3>1, <3>2, BandGoesHome
      <4>2. band[c] = home[OldCell(c)]
        BY <1>3, <3>1, <4>1, Constants DEF WriteHome, ContentInv, BandIsCopy
      <4> QED
        BY <4>1, <4>2 DEF PlaceOf
    <3>3. CASE c \div KNew # ClaimedRow
      <4>1. (Behind(c)' <=> Behind(c)) /\ home'[PlaceOf(c)] = home[PlaceOf(c)]
        BY <1>3, <3>1, <3>3, BandGoesHome
      <4> QED
        BY <4>1 DEF PlaceOf
    <3> QED
      BY <3>2, <3>3
  <2> QED
    BY <1>2, <2>1, StoreStays
<1>4. CASE ~WriteHome
  <2>1. UNCHANGED home /\ ~DoneFails
    BY <1>4 DEF Engine, LoseMember, StartDrain, StartSwitch, StartPublish, Claim,
                ClaimDrain, ClaimDrained, ReadBand, Release, Unclaim, UnclaimDegraded,
                DoneFails, PutBack, EndPublish, EndDrain, EndCollapse, Finish
  <2>2. \A c \in Chunks : Behind(c)' <=> Behind(c)
    BY <1>4, <2>1, ChunkType, EdgeStays
  <2> QED
    BY <1>2, <2>1, <2>2, StoreStays DEF PlaceOf
<1> QED
  BY <1>3, <1>4

\* A user cannot tell an array that is being reshaped from one that is not: reads,
\* writes and the reshape together are the block device, a read returning what was
\* last written, and no step of the reshape changing any chunk.
THEOREM ReshapeIsInvisible ==
  ASSUME Timely, ~DoneMayFail
  PROVE  Spec => IsBlockDevice
<1>1. Init => Device!Init
  <2> SUFFICES ASSUME Init PROVE Device!Init
    OBVIOUS
  <2>1. GateInv
    BY InitInv
  <2>2. Store \in [Chunks -> Values]
    <3>1. home \in [Cells -> Values]
      BY <2>1 DEF GateInv, TypeOK
    <3> QED
      BY <2>1, <3>1, StoreHolds, PlaceType
  <2>3. IO = [r \in Requests |-> Device!Idle]
    BY Seen DEF Init, IdleRequest, IO, Device!Idle
  <2> QED
    BY <2>2, <2>3 DEF Device!Init
<1>2. GateInv /\ GateInv' /\ ContentInv /\ [Next]_vars => [Device!Next]_(Device!vars)
  <2> SUFFICES ASSUME GateInv, GateInv', ContentInv, [Next]_vars
               PROVE  Device!Next \/ UNCHANGED <<Store, IO>>
    BY DEF Device!vars
  <2>1. CASE Engine \/ LoseMember
    BY <2>1, ReshapeIsSilent
  <2>2. ASSUME NEW r \in Requests, Submit(r) \/ Serve(r)
        PROVE  Device!Next \/ UNCHANGED <<Store, IO>>
    BY <2>2, SubmitShows, PerformShows, BypassShows, WaitingIsSilent DEF Device!Next
  <2>3. CASE UNCHANGED vars
    <3>1. UNCHANGED <<frontier, epc, band, home, req>>
      BY <2>3 DEF vars, engine
    <3> QED
      BY <3>1, SamePlaces, StoreStays, NoneSeen
  <2> QED
    BY <2>1, <2>2, <2>3 DEF Next
<1> QED
  BY <1>1, <1>2, GateInvariant, ContentInvariant, PTL DEF Spec, Device!Spec, IsBlockDevice
=============================================================================
