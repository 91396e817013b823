--------------------------- MODULE RaidkmGeometry ---------------------------
(***************************************************************************)
(* Where md-kmec puts a chunk: the map from a logical chunk to a member    *)
(* slot and a row, its inverse, and the row layout that the reshape engine *)
(* computes on its own (raid5_compute_sector, raid5_compute_blocknr and    *)
(* raidkm_reshape_row_layout).  Disk addresses are counted in chunks, so a *)
(* member sector is a row number and an array sector is a chunk number.    *)
(*                                                                         *)
(* A geometry is a record [n, m, rot]: raid_disks, the parity count, and   *)
(* whether the parity rotates.                                             *)
(***************************************************************************)
EXTENDS Integers

Geometry(maxDisks) ==
  {g \in [n : 2..maxDisks, m : 1..maxDisks, rot : BOOLEAN] : g.m < g.n}

DataDisks(g) == g.n - g.m

\* First parity slot of a row: one slot to the left per row, or the fixed tail.
PdIdx(g, row) == IF g.rot THEN g.n - 1 - (row % g.n) ELSE DataDisks(g)

\* raidkm_reshape_row_layout: the slots of parity p and of data index d.
ParitySlot(g, row, p) == (PdIdx(g, row) + p) % g.n

DataSlot(g, row, d) == (PdIdx(g, row) + g.m + d) % g.n

ParitySlots(g, row) == {ParitySlot(g, row, p) : p \in 0..(g.m - 1)}
DataSlots(g, row) == {DataSlot(g, row, d) : d \in 0..(DataDisks(g) - 1)}

\* Mutants: data follows the first parity; parity slots are counted as data.
ComputeSectorOneParity(g, c) ==
  LET row == c \div DataDisks(g)
  IN  [disk |-> (PdIdx(g, row) + 1 + (c % DataDisks(g))) % g.n, row |-> row]

ComputeSectorAllData(g, c) == [disk |-> c % g.n, row |-> c \div g.n]

\* raid5_compute_sector: the stripe path's own computation of a chunk's place.
ComputeSector(g, c) ==
  LET row == c \div DataDisks(g)
  IN  [disk |-> (PdIdx(g, row) + g.m + (c % DataDisks(g))) % g.n, row |-> row]

\* Mutant: the inverse skips one parity slot, not m.
ComputeBlocknrOneParity(g, row, i) ==
  LET rel == (i - PdIdx(g, row) + g.n) % g.n
      c   == row * DataDisks(g) + (rel - 1)
  IN  IF rel < 1 \/ ComputeSector(g, c) # [disk |-> i, row |-> row]
      THEN 0
      ELSE c

\* raid5_compute_blocknr: the chunk behind slot i of a row.  A parity slot and
\* a slot that does not map back to itself answer 0.
ComputeBlocknr(g, row, i) ==
  LET rel == (i - PdIdx(g, row) + g.n) % g.n
      c   == row * DataDisks(g) + (rel - g.m)
  IN  IF rel < g.m \/ ComputeSector(g, c) # [disk |-> i, row |-> row]
      THEN 0
      ELSE c

\* The chunks of a row.
RowChunks(g, row) == (row * DataDisks(g))..((row + 1) * DataDisks(g) - 1)
=============================================================================
