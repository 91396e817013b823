------------------------ MODULE RaidkmGeometryProofs ------------------------
(***************************************************************************)
(* The invariants of RaidkmGeometryCheck, for any number of members and    *)
(* rows.                                                                   *)
(***************************************************************************)
EXTENDS RaidkmGeometryCheck, RaidkmGeometryLemmas

\* The walk of RaidkmGeometryCheck stays among sound geometries that a reshape
\* can go between.
WalkInv ==
  /\ Sound(from)
  /\ Sound(to)
  /\ Reshapable(from, to)
  /\ row \in Nat

\* The walk only meets sound geometries that a reshape can go between.
LEMMA WalkInvHolds == Spec => []WalkInv
<1>1. ASSUME NEW g \in Geometry(MaxDisks) PROVE Sound(g)
  BY CheckAssumption DEF Geometry, Sound
<1>2. Init => WalkInv
  BY <1>1 DEF Init, WalkInv
<1>3. WalkInv /\ [Next]_vars => WalkInv'
  <2> SUFFICES ASSUME WalkInv, [Next]_vars PROVE WalkInv'
    OBVIOUS
  <2>1. from' = from /\ to' = to /\ row' \in Nat
    BY DEF WalkInv, Next, NextRow, vars
  <2> QED
    BY <2>1 DEF WalkInv, Sound, Reshapable, DataDisks
<1> QED
  BY <1>2, <1>3, PTL DEF Spec

\* Whatever the number of members and however long they are, the row the engine
\* writes is the row the stripe path reads.
THEOREM EngineAlwaysAgrees == Spec => []EngineAgreesWithStripes
<1>1. WalkInv => EngineAgreesWithStripes
  BY EngineAgrees DEF WalkInv, EngineAgreesWithStripes
<1> QED
  BY <1>1, WalkInvHolds, PTL

\* No reshape, of any arrays, overwrites a chunk it has yet to read.
THEOREM NeverOverwritesUnread == Spec => []OverwritesOnlyMoved
<1>1. WalkInv => OverwritesOnlyMoved
  <2> SUFFICES ASSUME WalkInv, NEW c \in RowChunks(from, row)
               PROVE  IF to.n < from.n THEN ComputeSector(to, c).row >= row
                                       ELSE ComputeSector(to, c).row <= row
    BY DEF OverwritesOnlyMoved
  <2> DEFINE k == DataDisks(from)
  <2>1. Sound(from) /\ Sound(to) /\ row \in Nat
    BY DEF WalkInv
  <2>2. k \in Nat /\ k > 0
    BY <2>1, SoundGeometry
  <2>3. c \in Nat /\ ~(c < row * k) /\ c < (row + 1) * k
    BY <2>1, <2>2 DEF RowChunks
  <2>4. c \div k = row
    <3> HIDE DEF k
    <3>1. c \div k \in Int /\ ~(c \div k < row) /\ c \div k < row + 1
      BY <2>1, <2>2, <2>3, RowBefore, Division
    <3> QED
      BY <3>1, <2>1
  <2>5. ComputeSector(from, c).row = row
    BY <2>1, <2>3, <2>4, ComputeSectorOnMember
  <2>6. ComputeSector(to, c).row \in Int
    BY <2>1, <2>3, ComputeSectorOnMember, SoundGeometry, Division
  <2>7. CASE to.n < from.n
    <3>1. DataDisks(to) <= DataDisks(from)
      BY <2>1, <2>7 DEF WalkInv, Reshapable, Sound, DataDisks
    <3> QED
      BY <2>1, <2>3, <2>5, <2>7, <3>1, RowsMoveOneWay
  <2>8. CASE ~(to.n < from.n)
    <3>1. DataDisks(from) <= DataDisks(to)
      BY <2>1, <2>8 DEF WalkInv, Reshapable, Sound, DataDisks
    <3> QED
      BY <2>1, <2>3, <2>5, <2>8, <3>1, RowsMoveOneWay
  <2> QED
    BY <2>7, <2>8
<1> QED
  BY <1>1, WalkInvHolds, PTL

\* For any array and any row, raid5_compute_blocknr finds the chunk behind each
\* data slot, and only those.
THEOREM BlocknrInverts == Spec => []InverseMap
<1>1. WalkInv => InverseMap
  <2> SUFFICES ASSUME WalkInv, NEW i \in 0..(from.n - 1)
               PROVE  LET c == ComputeBlocknr(from, row, i)
                      IN  IF i \in ParitySlots(from, row)
                          THEN c = 0
                          ELSE c \in RowChunks(from, row)
                                 /\ ComputeSector(from, c).disk = i
    BY DEF InverseMap
  <2>1. Sound(from) /\ row \in Int
    BY DEF WalkInv
  <2> QED
    BY <2>1, ComputeBlocknrInverts
<1> QED
  BY <1>1, WalkInvHolds, PTL
=============================================================================
