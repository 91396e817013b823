---------------------------- MODULE RaidkmReshape ----------------------------
(***************************************************************************)
(* The crash consistency of the copy-on-write reshape of a raidkm array.   *)
(*                                                                         *)
(* The sync thread moves one band, a row of the new geometry, at a time:   *)
(* journal STAGE, write the band to the scratch area, journal COMMIT,      *)
(* write it home, journal DONE.  A record goes to one of two slots on      *)
(* every member in turn; assembly takes the valid record with the highest  *)
(* sequence number, replays a COMMIT from scratch and resumes at the       *)
(* frontier it finds.  The superblock follows behind, written by the md    *)
(* core when it gets to it.                                                *)
(*                                                                         *)
(* Modelled: the members' home and scratch cells with the parity they      *)
(* hold, each member's journal slots, the order of the writes, power       *)
(* failure at any of them with the write in progress torn, members that    *)
(* fail, the lagging superblock, and recovery, itself interruptible.  User *)
(* I/O is one step per request, between the frontiers RaidkmGate defends.  *)
(***************************************************************************)
EXTENDS RaidkmGeometry, FiniteSets

CONSTANTS
  Reshapes,           \* the reshapes, each with its bounds; one in a behaviour
  Rows,               \* rows of a member
  \* What the environment may do; FALSE rules the case out.
  InitMayFail,        \* initializing the journal can fail, or miss a member
  FaultLag,           \* power can fail before a Faulty mark is in the superblock
  LoneRecord,         \* the only copy of a recovered record can be lost, or torn
  WritesAfterReplay,  \* a replayed band is written before the next record
  DegradedStart       \* the reshape starts while a spare is still recovering

VARIABLES
  \* [old, new: geometries; writes, crashes, faults (failed member writes), fails
  \* (bands abandoned for want of memory): bounds]
  reshape,
  \* on the members
  home,        \* [Cells -> cell]
  scratch,     \* [Disks -> cell], the staging area below data_offset
  journal,     \* [Disks -> [0..1 -> record]]
  sb,          \* superblock: [state, rpos, faulty]
  \* in memory
  epc,         \* the sync thread, or "down" / "refused"
  who,         \* the member whose turn it is in the loop under way
  taken,       \* did any member take the record being written
  band,        \* pages of the band: [NewDisks -> cell]
  progress,    \* conf->reshape_progress, in chunks
  safe,        \* conf->reshape_safe
  faulty,      \* members marked Faulty
  recovering,  \* members without In_sync, fixed at the start
  \* what the user wrote, and the bounds
  mem,         \* [Chunks -> value last written]
  writes, crashes, faults, fails

disks == <<home, scratch, journal, sb>>
thread == <<epc, who, taken, band>>
frontier == <<progress, safe>>
fixed == <<reshape, recovering>>
budget == <<writes, crashes, faults, fails>>
vars == <<disks, thread, frontier, faulty, fixed, mem, budget>>

Min2(a, b) == IF a < b THEN a ELSE b

Old == reshape.old
New == reshape.new
KOld == DataDisks(Old)
KNew == DataDisks(New)
Backwards == New.n < Old.n
Size == Rows * Min2(KOld, KNew)
Chunks == 0..(Size - 1)
Disks == 0..((IF Backwards THEN Old.n ELSE New.n) - 1)
NewDisks == 0..(New.n - 1)
RowSet == 0..(Rows - 1)
Cells == [disk : Disks, row : RowSet]

\* Losses either region survives: has_failed keys on the smaller parity count.
Tolerated == Min2(Old.m, New.m)

ASSUME ReshapeAssumption ==
  /\ Rows \in Nat \ {0}
  /\ \A r \in Reshapes :
       /\ {r.old, r.new} \subseteq [n : Nat, m : Nat \ {0}, rot : BOOLEAN]
       /\ {r.writes, r.crashes, r.faults, r.fails} \subseteq Nat
       /\ r.old.m < r.old.n
       /\ r.new.m < r.new.n
       /\ IF r.new.n < r.old.n THEN DataDisks(r.new) <= DataDisks(r.old)
                              ELSE DataDisks(r.old) <= DataDisks(r.new)

-----------------------------------------------------------------------------
(* What a cell holds: a data value; a parity of a row, which stands for the *)
(* row's data values under its geometry; or the rest of a torn write.       *)

Garbage == -3
Zero == -1
Data(v) == [par |-> <<>>, of |-> <<v>>]
Par(g, p, vals) == [par |-> <<g.n, g.m, p>>, of |-> vals]
Torn == [par |-> <<0>>, of |-> <<>>]

ValueOf(cell) == IF cell.par = <<>> THEN cell.of[1] ELSE Garbage

\* raidkm_reshape_encode_page: a whole row from its data values.
Encode(g, row, vals) ==
  [x \in 0..(g.n - 1) |->
     IF x \in DataSlots(g, row)
     THEN Data(vals[CHOOSE d \in DOMAIN vals : DataSlot(g, row, d) = x])
     ELSE Par(g, CHOOSE p \in 0..(g.m - 1) : ParitySlot(g, row, p) = x, vals)]

\* The survivors reconstruction decodes from: the first k slots not missing.
Survivors(g, missing) ==
  {x \in (0..(g.n - 1)) \ missing :
     Cardinality({y \in 0..x : y \notin missing}) <= DataDisks(g)}

\* raidkm_reshape_reconstruct_band: present data as it is, missing data decoded
\* from the survivors -- noise, when the survivors are not one codeword.
Reconstruct(g, row, cells, missing) ==
  LET from == Survivors(g, missing)
      word == CHOOSE v \in {cells[x].of : x \in from \cap ParitySlots(g, row)} : TRUE
      coherent ==
        /\ Cardinality(from) = DataDisks(g)
        /\ from \cap ParitySlots(g, row) # {}
        /\ DOMAIN word = 0..(DataDisks(g) - 1)
        /\ \A x \in from : cells[x] = Encode(g, row, word)[x]
  IN  [d \in 0..(DataDisks(g) - 1) |->
         IF DataSlot(g, row, d) \notin missing
         THEN ValueOf(cells[DataSlot(g, row, d)])
         ELSE IF coherent THEN word[d] ELSE Garbage]

-----------------------------------------------------------------------------
(* The journal                                                              *)

NoRecord == [seq |-> -1, row |-> 0, phase |-> "NONE", csum |-> <<>>]

\* Mutant: sequence numbers rise with the row, whatever the direction.
TurnByRow(row) == row

\* Order in which the walk reaches a row; sequence numbers follow it.
Turn(row) == IF Backwards THEN Rows - 1 - row ELSE row
LastRow == IF Backwards THEN 0 ELSE Rows - 1

BandOf(pos) == IF Backwards THEN pos \div KNew ELSE pos \div KNew - 1
ClaimedRow == BandOf(progress)

\* raidkm_reshape_band_csum covers the data slots only.
BandCsum(pages, row) ==
  [d \in 0..(KNew - 1) |-> pages[DataSlot(New, row, d)]]

Phases == {"INIT0", "INIT1", "STAGE", "COMMIT", "DONE"}

\* raidkm_reshape_jwrite: the record of a phase; its slot is seq mod 2.
Record ==
  CASE epc = "INIT0" -> [seq |-> 0, row |-> 0, phase |-> "IDLE", csum |-> <<>>]
    [] epc = "INIT1" -> [seq |-> 1, row |-> 0, phase |-> "IDLE", csum |-> <<>>]
    [] OTHER ->
       [seq |-> 4 * Turn(ClaimedRow)
                  + (CASE epc = "STAGE" -> 2 [] epc = "COMMIT" -> 3 [] OTHER -> 4),
        row |-> ClaimedRow, phase |-> epc, csum |-> BandCsum(band, ClaimedRow)]

Eligible(x) == x \notin faulty /\ x \notin recovering

\* raidkm_reshape_jread: both slots of every member that is not Faulty.
Readable(lost) == {journal[x][s] : x \in NewDisks \ lost, s \in 0..1}
Best(lost) ==
  CHOOSE r \in Readable(lost) : \A q \in Readable(lost) : q.seq <= r.seq

-----------------------------------------------------------------------------
(* Frontiers and user I/O                                                   *)

Start == IF Backwards THEN Size ELSE 0
Ahead(c, pos) == IF Backwards THEN c < pos ELSE c >= pos
RowAhead(row, pos) ==
  IF Backwards THEN (row + 1) * KOld - 1 < pos ELSE row * KOld >= pos
After(row) == IF Backwards THEN row * KNew ELSE (row + 1) * KNew
Before(row) == IF Backwards THEN (row + 1) * KNew ELSE row * KNew

Running == epc \notin {"down", "refused", "replay"}

GeometryAt(c, pos) == IF Ahead(c, pos) THEN Old ELSE New

\* A geometry's row as the member cells now hold it.
RowCells(g, row) == [x \in 0..(g.n - 1) |-> home[[disk |-> x, row |-> row]]]

ChunkValue(c, g, lost) ==
  Reconstruct(g, c \div DataDisks(g), RowCells(g, c \div DataDisks(g)), lost)
    [c % DataDisks(g)]

\* What a running array serves: behind the safe frontier the new geometry,
\* beyond progress the old one when the whole stripe is beyond it.
Served(c) ==
  /\ Running
  /\ \/ epc \in {"off", "finished"}
     \/ ~Ahead(c, safe)
     \/ RowAhead(c \div KOld, progress)

LiveGeometry(c) ==
  IF epc = "off" THEN Old ELSE IF epc = "finished" THEN New ELSE GeometryAt(c, safe)

Unreadable == faulty \cup recovering

\* The row whose COMMIT is the newest record, or -1.
CommittedRow == LET b == Best(faulty) IN IF b.phase = "COMMIT" THEN b.row ELSE -1

\* A user write: decode what it does not carry, encode, write every member
\* that is not Faulty.
UserWrite(c) ==
  LET g    == LiveGeometry(c)
      k    == DataDisks(g)
      row  == c \div k
      v    == Rows * KOld + writes
      vals == [Reconstruct(g, row, RowCells(g, row), Unreadable) EXCEPT ![c % k] = v]
  IN  /\ Served(c)
      /\ writes < reshape.writes
      /\ WritesAfterReplay \/ ~(g = New /\ row = CommittedRow)
      /\ writes' = writes + 1
      /\ mem' = [mem EXCEPT ![c] = v]
      /\ home' = [x \in Cells |->
                    IF x.row = row /\ x.disk < g.n /\ x.disk \notin faulty
                    THEN Encode(g, row, vals)[x.disk] ELSE home[x]]
      /\ UNCHANGED <<scratch, journal, sb, thread, frontier, faulty, fixed,
                     crashes, faults, fails>>

-----------------------------------------------------------------------------
(* raid5_start_reshape: arm the geometry, then initialize the journal.      *)

StartReshape ==
  /\ epc = "off"
  /\ progress' = Start
  /\ safe' = Start
  /\ epc' = "INIT0"
  /\ who' = 0
  /\ taken' = FALSE
  /\ UNCHANGED <<disks, band, faulty, fixed, mem, budget>>

\* One member of raidkm_reshape_jwrite's loop.
JournalTake ==
  /\ epc \in Phases
  /\ who < New.n
  /\ Eligible(who)
  /\ journal' = [journal EXCEPT ![who][Record.seq % 2] = Record]
  /\ taken' = TRUE
  /\ who' = who + 1
  /\ UNCHANGED <<home, scratch, sb, epc, band, frontier, faulty, fixed, mem,
                 budget>>

\* A member that is Faulty or not In_sync is passed over.
JournalSkip ==
  /\ epc \in Phases
  /\ who < New.n
  /\ ~Eligible(who)
  /\ who' = who + 1
  /\ UNCHANGED <<disks, epc, taken, band, frontier, faulty, fixed, mem, budget>>

\* The write to a member fails: jwrite goes on, and only does not count it.
JournalMisses ==
  /\ epc \in Phases
  /\ who < New.n
  /\ Eligible(who)
  /\ epc \in {"INIT0", "INIT1"} => InitMayFail
  /\ faults < reshape.faults
  /\ faults' = faults + 1
  /\ who' = who + 1
  /\ UNCHANGED <<disks, epc, taken, band, frontier, faulty, fixed, mem,
                 writes, crashes, fails>>

AfterRecord ==
  CASE epc = "INIT0" -> "INIT1"
    [] epc = "INIT1" -> "ready"
    [] epc = "STAGE" -> "scratch"
    [] epc = "COMMIT" -> "home"
    [] epc = "DONE" -> "ready"

\* The record is durable on some member: on to the next phase.  After DONE the
\* band is released: served in the new geometry from here on.
JournalDone ==
  /\ epc \in Phases
  /\ who = New.n
  /\ taken
  /\ epc' = AfterRecord
  /\ who' = 0
  /\ taken' = FALSE
  /\ IF epc = "DONE" THEN safe' = progress /\ band' = <<>>
                     ELSE UNCHANGED <<safe, band>>
  /\ UNCHANGED <<disks, progress, faulty, fixed, mem, budget>>

\* No page, or no member took the record.  A start goes on with a warning, a
\* band is unclaimed.  (A failing DONE record is RaidkmGate's DoneFails.)
JournalFails ==
  /\ \/ epc \in {"STAGE", "COMMIT"}
     \/ epc = "INIT0" /\ InitMayFail
  /\ who = 0 \/ (who = New.n /\ ~taken)
  /\ fails < reshape.fails
  /\ fails' = fails + 1
  /\ progress' = safe
  /\ band' = <<>>
  /\ who' = 0
  /\ taken' = FALSE
  /\ epc' = "ready"
  /\ UNCHANGED <<disks, safe, faulty, fixed, mem, writes, crashes, faults>>

-----------------------------------------------------------------------------
(* raidkm_reshape_cow, raidkm_reshape_cow_shrink and migrate_band           *)

BandsLeft == IF Backwards THEN safe > 0 ELSE safe < Rows * KNew
NextRow == IF Backwards THEN safe \div KNew - 1 ELSE safe \div KNew

\* Mutant: the chunk is read at its new place.
SourceInNew(c) ==
  LET a == ComputeSector(New, c) IN [disk |-> a.disk, row |-> a.row]

Source(c) ==
  LET a == ComputeSector(Old, c) IN [disk |-> a.disk, row |-> a.row]

Sources(row) == {Source(c) : c \in {x \in RowChunks(New, row) : x < Rows * KOld}}

\* Claim the band, drain, read each chunk at its old place and encode.  The md
\* core has written the superblock of the started reshape before this.
ReadBand ==
  /\ epc = "ready"
  /\ sb.state = "reshaping"
  /\ BandsLeft
  /\ \A x \in Sources(NextRow) : x.disk \notin faulty
  /\ progress' = After(NextRow)
  /\ band' = Encode(New, NextRow,
               [d \in 0..(KNew - 1) |->
                  LET c == NextRow * KNew + d
                  IN  IF c >= Rows * KOld THEN Zero ELSE ValueOf(home[Source(c)])])
  /\ epc' = "STAGE"
  /\ who' = 0
  /\ taken' = FALSE
  /\ UNCHANGED <<disks, safe, faulty, fixed, mem, budget>>

\* Mutant: the thread tries again at once, for ever.
ReadBandRetries ==
  /\ epc = "ready"
  /\ BandsLeft
  /\ \E x \in Sources(NextRow) : x.disk \in faulty
  /\ UNCHANGED vars

\* A source member is Faulty: -EIO, and the thread stops.
ReadBandFails ==
  /\ epc = "ready"
  /\ BandsLeft
  /\ \E x \in Sources(NextRow) : x.disk \in faulty
  /\ epc' = "parked"
  /\ UNCHANGED <<disks, who, taken, band, frontier, faulty, fixed, mem, budget>>

\* raidkm_reshape_write_units, one member: to scratch, or home.
PutUnit(x) ==
  IF epc = "scratch"
  THEN /\ scratch' = [scratch EXCEPT ![x] = band[x]]
       /\ UNCHANGED home
  ELSE /\ home' = [home EXCEPT ![[disk |-> x, row |-> ClaimedRow]] = band[x]]
       /\ UNCHANGED scratch

WriteUnit ==
  /\ epc \in {"scratch", "home"}
  /\ who < New.n
  /\ IF who \in faulty THEN UNCHANGED <<home, scratch>> ELSE PutUnit(who)
  /\ who' = who + 1
  /\ UNCHANGED <<journal, sb, epc, taken, band, frontier, faulty, fixed, mem,
                 budget>>

\* A failed write marks the member Faulty, in memory; the band goes on.
WriteUnitFails ==
  /\ epc \in {"scratch", "home"}
  /\ who < New.n
  /\ who \notin faulty
  /\ faults < reshape.faults
  /\ faults' = faults + 1
  /\ faulty' = faulty \cup {who}
  /\ who' = who + 1
  /\ UNCHANGED <<disks, epc, taken, band, frontier, fixed, mem, writes,
                 crashes, fails>>

UnitsWritten ==
  /\ epc \in {"scratch", "home"}
  /\ who = New.n
  /\ epc' = IF epc = "scratch" THEN "COMMIT" ELSE "DONE"
  /\ who' = 0
  /\ taken' = FALSE
  /\ UNCHANGED <<disks, band, frontier, faulty, fixed, mem, budget>>

\* end_reshape
EndReshape ==
  /\ epc = "ready"
  /\ ~BandsLeft
  /\ epc' = "finished"
  /\ UNCHANGED <<disks, who, taken, band, frontier, faulty, fixed, mem, budget>>

\* The md core writes the superblock, some time after MD_SB_CHANGE_DEVS; while
\* raid5_start_reshape holds reconfig_mutex it cannot.
WriteSuperblock ==
  /\ Running
  /\ epc \notin {"off", "INIT0", "INIT1"}
  /\ sb' = [state |-> IF epc = "finished" THEN "new" ELSE "reshaping",
            rpos |-> safe, faulty |-> faulty]
  /\ sb' # sb
  /\ UNCHANGED <<home, scratch, journal, thread, frontier, faulty, fixed, mem,
                 budget>>

-----------------------------------------------------------------------------
(* Power failure and assembly                                               *)

\* The write in progress may be torn.
TearWrite ==
  \/ UNCHANGED <<home, scratch, journal>>
  \/ /\ epc \in Phases
     /\ who < New.n
     /\ Eligible(who)
     /\ journal' = [journal EXCEPT ![who][Record.seq % 2] = NoRecord]
     /\ UNCHANGED <<home, scratch>>
  \/ /\ epc = "scratch"
     /\ who < New.n
     /\ scratch' = [scratch EXCEPT ![who] = Torn]
     /\ UNCHANGED <<home, journal>>
  \/ /\ epc \in {"home", "replay"}
     /\ who < New.n
     /\ who \notin faulty
     /\ home' = [home EXCEPT ![[disk |-> who, row |-> ClaimedRow]] = Torn]
     /\ UNCHANGED <<scratch, journal>>

PowerFails ==
  /\ epc \notin {"off", "down", "refused"}
  /\ crashes < reshape.crashes
  /\ FaultLag \/ faulty \subseteq sb.faulty
  /\ crashes' = crashes + 1
  /\ TearWrite
  /\ epc' = "down"
  /\ who' = 0
  /\ taken' = FALSE
  /\ band' = <<>>
  /\ faulty' = sb.faulty
  /\ UNCHANGED <<sb, frontier, fixed, mem, writes, faults, fails>>
  /\ LoneRecord \/ crashes = 0 \/ Best(faulty)' = Best(sb.faulty)

\* Mutant: a STAGE record counts as a moved band.
JournalFrontierPastStage(b) ==
  IF b.phase \in {"STAGE", "COMMIT", "DONE"} THEN After(b.row) ELSE sb.rpos

\* The frontier the journal gives: past a committed band, before a staged one;
\* without a band's record, the superblock's.
JournalFrontier(b) ==
  CASE b.phase \in {"COMMIT", "DONE"} -> After(b.row)
    [] b.phase = "STAGE" -> Before(b.row)
    [] OTHER -> sb.rpos

\* Mutant: what a missing member staged is not rebuilt.
ReplayPagesAsRead(row, lost) == [x \in NewDisks |-> scratch[x]]

\* raidkm_reshape_replay_commit: the band's pages as scratch gives them, the
\* missing ones rebuilt; parity is encoded anew only when something is missing.
ReplayPages(row, lost) ==
  LET missing == lost \cap NewDisks
      cells == [x \in NewDisks |-> scratch[x]]
  IN  IF missing = {} THEN cells
      ELSE Encode(New, row, Reconstruct(New, row, cells, missing))

ReplayOk(b, lost) ==
  /\ Cardinality(lost \cap NewDisks) <= New.m
  /\ BandCsum(ReplayPages(b.row, lost), b.row) = b.csum

\* raid5_run and raidkm_reshape_recover
Assemble ==
  /\ epc = "down"
  /\ LET b == Best(faulty)
     IN  IF sb.state # "reshaping"
         THEN /\ epc' = IF sb.state = "old" THEN "off" ELSE "finished"
              /\ UNCHANGED <<frontier, band>>
         ELSE /\ progress' = JournalFrontier(b)
              /\ safe' = progress'
              /\ IF b.phase # "COMMIT"
                 THEN epc' = "ready" /\ UNCHANGED band
                 ELSE IF ReplayOk(b, faulty)
                      THEN epc' = "replay" /\ band' = ReplayPages(b.row, faulty)
                      ELSE epc' = "refused" /\ UNCHANGED band
  /\ UNCHANGED <<disks, who, taken, faulty, fixed, mem, budget>>

\* One member of the replay's walk home.
ReplayUnit ==
  /\ epc = "replay"
  /\ who < New.n
  /\ home' = IF who \in faulty THEN home
             ELSE [home EXCEPT ![[disk |-> who, row |-> ClaimedRow]] = band[who]]
  /\ who' = who + 1
  /\ UNCHANGED <<scratch, journal, sb, epc, taken, band, frontier, faulty,
                 fixed, mem, budget>>

\* A failed write home aborts the assembly; the next one starts over.
ReplayUnitFails ==
  /\ epc = "replay"
  /\ who < New.n
  /\ who \notin faulty
  /\ faults < reshape.faults
  /\ faults' = faults + 1
  /\ epc' = "down"
  /\ who' = 0
  /\ band' = <<>>
  /\ UNCHANGED <<disks, taken, frontier, faulty, fixed, mem, writes, crashes,
                 fails>>

\* The array comes up with the band behind the frontier; no record is written.
ReplayDone ==
  /\ epc = "replay"
  /\ who = New.n
  /\ epc' = "ready"
  /\ who' = 0
  /\ band' = <<>>
  /\ UNCHANGED <<disks, taken, frontier, faulty, fixed, mem, budget>>

-----------------------------------------------------------------------------
\* What an earlier reshape of the same shape may have left in a journal.
StaleRecord == [seq |-> 4 * (Rows - 1) + 4, row |-> LastRow, phase |-> "DONE",
                csum |-> <<>>]

InitialRow(row) ==
  Encode(Old, row, [d \in 0..(KOld - 1) |-> row * KOld + d])

Init ==
  /\ reshape \in Reshapes
  /\ recovering \in {{}} \cup (IF DegradedStart THEN {{x} : x \in 0..(Old.n - 1)}
                                                ELSE {})
  /\ home = [x \in Cells |-> IF x.disk < Old.n /\ x.disk \notin recovering
                             THEN InitialRow(x.row)[x.disk] ELSE Torn]
  /\ scratch = [x \in Disks |-> Torn]
  /\ \E stale \in {NoRecord, StaleRecord} :
       journal = [x \in Disks |-> [s \in 0..1 |-> IF s = 0 THEN stale ELSE NoRecord]]
  /\ sb = [state |-> "old", rpos |-> Start, faulty |-> {}]
  /\ epc = "off"
  /\ who = 0
  /\ taken = FALSE
  /\ band = <<>>
  /\ progress = Start
  /\ safe = Start
  /\ faulty = {}
  /\ mem = [c \in Chunks |-> c]
  /\ writes = 0
  /\ crashes = 0
  /\ faults = 0
  /\ fails = 0

Sync ==
  \/ JournalTake \/ JournalSkip \/ JournalMisses \/ JournalDone \/ JournalFails
  \/ ReadBand \/ ReadBandFails \/ WriteUnit \/ WriteUnitFails \/ UnitsWritten
  \/ EndReshape

Recovery == Assemble \/ ReplayUnit \/ ReplayUnitFails \/ ReplayDone

Next ==
  \/ StartReshape
  \/ Sync
  \/ WriteSuperblock
  \/ PowerFails
  \/ Recovery
  \/ \E c \in Chunks : UserWrite(c)

Spec == Init /\ [][Next]_vars

-----------------------------------------------------------------------------
(* Properties                                                               *)

TypeOK ==
  /\ sb \in [state : {"old", "reshaping", "new"}, rpos : 0..(Rows * KNew),
             faulty : SUBSET Disks]
  /\ epc \in Phases \cup {"off", "ready", "scratch", "home", "parked",
                          "finished", "down", "replay", "refused"}
  /\ who \in 0..New.n
  /\ taken \in BOOLEAN
  /\ progress \in 0..(Rows * KNew)
  /\ safe \in 0..(Rows * KNew)
  /\ faulty \subseteq Disks
  /\ DOMAIN home = Cells
  /\ DOMAIN scratch = Disks
  /\ DOMAIN journal = Disks
  /\ DOMAIN mem = Chunks

\* The value of a chunk after a power failure now, assembled without the lost
\* members: the geometry and the replay the journal calls for.
RecoveredValue(c, lost) ==
  LET b == Best(lost)
      g == CASE sb.state = "old" -> Old
             [] sb.state = "new" -> New
             [] OTHER -> GeometryAt(c, JournalFrontier(b))
      replayed == sb.state = "reshaping" /\ g = New /\ b.phase = "COMMIT"
                    /\ b.row = c \div KNew
  IN  IF ~replayed THEN ChunkValue(c, g, lost)
      ELSE IF ReplayOk(b, lost)
           THEN ReplayPages(b.row, lost)[DataSlot(New, b.row, c % KNew)].of[1]
           ELSE Garbage

\* At every moment, a power failure and the loss of as many members as the
\* array tolerates together cost nothing: assembly finds every chunk as last
\* written, from the old row, the scratch area or the new row.  (Unless
\* LoneRecord, a record that an assembly acted on is not lost with its members.)
NothingInFlightIsTheOnlyCopy ==
  \A lost \in SUBSET Disks :
    (/\ Cardinality(lost) + faults <= Tolerated
     /\ LoneRecord \/ crashes = 0 \/ Best(lost \cup faulty) = Best(faulty)) =>
      \A c \in Chunks : RecoveredValue(c, lost \cup faulty) = mem[c]

\* A running array serves what was last written, in whichever geometry the
\* frontiers choose, also when a member is missing.
ServesLastWrite ==
  \A c \in Chunks :
    Served(c) => ChunkValue(c, LiveGeometry(c), Unreadable) = mem[c]

\* An interrupted reshape always assembles.
AssemblySucceeds == epc # "refused"

\* The frontier a power failure would find never moves back: a band that was
\* once committed is never redone from old rows that are gone.
DurableFrontier ==
  CASE sb.state = "old" -> Start
    [] sb.state = "new" -> After(LastRow)
    [] OTHER -> JournalFrontier(Best(faulty))

FrontierNeverRetreats ==
  [][IF Backwards THEN DurableFrontier' <= DurableFrontier
                  ELSE DurableFrontier' >= DurableFrontier]_vars

\* Whatever fails on the way, the reshape comes to an end, or stops at a band
\* whose source is gone.
ReshapeSettles == <>[](epc \in {"finished", "parked"})

Fairness ==
  /\ WF_vars(StartReshape)
  /\ WF_vars(Sync)
  /\ WF_vars(WriteSuperblock)
  /\ WF_vars(Recovery)

FairSpec == Spec /\ Fairness
=============================================================================
