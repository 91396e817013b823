------------------------ MODULE RaidkmGeometryCheck ------------------------
(***************************************************************************)
(* Every small geometry, walked row by row, and every pair of geometries a *)
(* reshape can go between.                                                 *)
(***************************************************************************)
EXTENDS RaidkmGeometry, FiniteSets

CONSTANTS
  MaxDisks,   \* bound: raid_disks of a geometry
  MaxRow      \* bound: rows walked

ASSUME CheckAssumption == MaxDisks \in Nat /\ MaxRow \in Nat

VARIABLES from, to, row

vars == <<from, to, row>>

\* What a classic reshape may change: the data disks or the parity disks.
Reshapable(g, h) ==
  /\ g.rot = h.rot
  /\ g.n # h.n
  /\ g.m = h.m \/ DataDisks(g) = DataDisks(h)

Init ==
  /\ from \in Geometry(MaxDisks)
  /\ to \in {h \in Geometry(MaxDisks) : Reshapable(from, h)}
  /\ row = 0

NextRow ==
  /\ row < MaxRow
  /\ row' = row + 1
  /\ UNCHANGED <<from, to>>

Next == NextRow

Spec == Init /\ [][Next]_vars

\* The row the reshape engine lays out is the row the stripe path reads: its
\* data slots are where raid5_compute_sector sends the row's chunks.
EngineAgreesWithStripes ==
  \A d \in 0..(DataDisks(from) - 1) :
    ComputeSector(from, row * DataDisks(from) + d)
      = [disk |-> DataSlot(from, row, d), row |-> row]

\* compute_blocknr undoes compute_sector, and answers 0 for every parity slot.
InverseMap ==
  \A i \in 0..(from.n - 1) :
    LET c == ComputeBlocknr(from, row, i)
    IN  IF i \in ParitySlots(from, row)
        THEN c = 0
        ELSE c \in RowChunks(from, row) /\ ComputeSector(from, c).disk = i

\* The walk of the reshape never overwrites a chunk it has yet to read: row
\* `row` of the new geometry takes old cells whose chunks are in rows already
\* moved, or in the row itself.
OverwritesOnlyMoved ==
  \A c \in RowChunks(from, row) :
    LET newRow == ComputeSector(to, c).row
    IN  IF to.n < from.n THEN newRow >= row ELSE newRow <= row
=============================================================================
