------------------------------ MODULE RaidkmCsum ------------------------------
(***************************************************************************)
(* The native checksums of one member: a CRC for every block, kept in      *)
(* region pages that a small cache holds.  A write stores its CRC as it is *)
(* issued, in the page when it is resident, else parked; one worker lands  *)
(* what is parked.  Pages are written back when they are evicted, when the *)
(* array stops, and for a discard, which drops the CRCs of what it trims   *)
(* first.  After an unclean start nothing is verified until a resync has   *)
(* taken every CRC from the data again.                                    *)
(*                                                                         *)
(* One shard; a row is one block, so the row map has a state per block.  A *)
(* CRC is the version of the content it was made from.  Allocation and     *)
(* region I/O succeed; the heal that a mismatch starts is left out.        *)
(***************************************************************************)
EXTENDS Integers, FiniteSets, FiniteSetsExt

CONSTANTS
  Blocks,      \* blocks of the member, 0 upwards
  PerPage,     \* RAIDKM_CSUM_PER_PAGE
  CacheMax,    \* the shard's ceiling, in pages
  Discards,    \* <<first, last>>: rows a discard covers, last not included
  CsumBudgets  \* bounds, one of them in a behaviour

VARIABLES
  data,     \* [Blocks -> version], Trimmed after a discard
  disk,     \* [Pages -> [Blocks of the page -> CRC]], as it reads
  media,    \* the same, as it was at the member's last cache flush
  page,     \* [Pages -> resident image, or Absent]
  dirty,    \* RAIDKM_CSUM_P_DIRTY
  pend,     \* [Blocks -> parked CRC, NoCrc when nothing is]
  shard,    \* s->lock: what its holder is doing
  landing,  \* the parked entry the worker is at
  writer,   \* [Blocks -> the write in flight on the block]
  disc,     \* the discard, its raidkm_csum_disc and its drop
  trims,    \* blocks with a discard attached that the member has not trimmed
  seq,      \* drop_seq
  unw,      \* rows that are U, in memory
  unwDisk,  \* and on the members
  insync,   \* mddev->in_sync
  sb,       \* on the members: rows before it need no resync, 0 when dirty
  sync,     \* the automatic resync: running, next row, and csum_fullsync
  kept,     \* blocks whose CRC must not be lost (history)
  budget

vars == <<data, disk, media, page, dirty, pend, shard, landing, writer, disc, trims, seq, unw, unwDisk, insync, sb, sync, kept, budget>>
cache == <<page, dirty>>
region == <<disk, media>>
rowmap == <<unw, unwDisk>>
state == <<insync, sb>>

Pages == {b \div PerPage : b \in Blocks}
Rows == Cardinality(Blocks)
Of(p) == {b \in Blocks : b \div PerPage = p}
NoCrc == -1
Clear == -2      \* RAIDKM_CSUM_PCLEAR
Trimmed == 0
Absent == [b \in {} |-> NoCrc]
Resident(p) == page[p] # Absent
Empty(p) == [b \in Of(p) |-> NoCrc]
Have(what) == budget[what] > 0
Use(what) == budget' = [budget EXCEPT ![what] = @ - 1]

\* raidkm_csum_rederive
Rederive == sync.full \/ sync.running

-----------------------------------------------------------------------------
(* A discard: raidkm_csum_disc_add, raidkm_csum_drop_rows_io, the map,     *)
(* then the stripes in turn.                                               *)

NoWrite == [step |-> "none", v |-> 0, pass |-> FALSE, alone |-> FALSE]
PassRuns == sync.running \/ \E b \in Blocks : writer[b].pass
NoDiscard == [step |-> "none", first |-> 0, last |-> 0, pass |-> FALSE, cur |-> 0, todo |-> {}]
Dropping == {"core", "parked", "zero", "ends", "over"}
DropRange == IF disc.step \in Dropping THEN {b \in Blocks : b >= disc.first /\ b < disc.last} ELSE {}
Without(image) == [b \in DOMAIN image |-> IF b \in DropRange THEN NoCrc ELSE image[b]]
\* raidkm_csum_peek, raidkm_csum_expected: what a read of the block is compared with;
\* a page that is not resident is faulted in.
Expected(b) ==
  CASE pend[b] = Clear -> NoCrc
    [] pend[b] \notin {Clear, NoCrc} -> pend[b]
    [] pend[b] = NoCrc /\ Resident(b \div PerPage) -> page[b \div PerPage][b]
    [] OTHER -> Without(disk[b \div PerPage])[b]

Covered == {b \in Blocks : b >= disc.first /\ b < disc.last}

Ahead(b) == disc.step # "none" /\ b < disc.last /\ b >= disc.cur
\* Mutant: the stripe the discard is at counts as attached.
PastTheStripe(b) == Ahead(b) /\ disc.pass /\ b # disc.cur
\* A write with its CRC ahead of the discard's stripes: raidkm_csum_in_discard.
InDiscard(b) == Ahead(b) /\ disc.pass
NoClears == \A b \in Blocks : pend[b] # Clear

Discard(range) ==
  /\ Have("discards") /\ Use("discards")
  /\ disc.step = "none"
  /\ disc' = [NoDiscard EXCEPT !.step = "add", !.first = range[1], !.last = range[2], !.cur = range[1], !.pass = ~PassRuns]
  /\ kept' = {b \in kept : b < range[1] \/ b >= range[2]}
  /\ writer' = [b \in Blocks |-> [writer[b] EXCEPT !.alone = @ /\ (b < range[1] \/ b >= range[2])]]
  /\ UNCHANGED <<data, pend, shard, landing, trims, seq, sync>> /\ UNCHANGED cache /\ UNCHANGED region /\ UNCHANGED rowmap /\ UNCHANGED state

DropStart ==
  /\ disc.step = "add"
  /\ disc' = [disc EXCEPT !.step = "core"] /\ seq' = seq + 1
  /\ UNCHANGED <<data, pend, shard, landing, writer, trims, sync, kept, budget>> /\ UNCHANGED cache /\ UNCHANGED region /\ UNCHANGED rowmap /\ UNCHANGED state

NoHolder == [who |-> "none", step |-> "none", p |-> 0, b |-> 0, image |-> Absent, seq |-> 0, out |-> 0]
Holder(who, p, b) ==
  [NoHolder EXCEPT !.who = who, !.step = IF Resident(p) THEN "have" ELSE "read", !.p = p, !.b = b,
                   !.image = IF Resident(p) THEN Absent ELSE disk[p], !.seq = seq]
Free == shard = NoHolder
Syncing(b) == shard.who = "sync" /\ shard.b = b

\* The resident pages, then what is parked, in one hold of the shard's lock.
DropCore ==
  /\ disc.step = "core" /\ Free
  /\ page' = [p \in Pages |-> IF Resident(p) THEN Without(page[p]) ELSE Absent]
  /\ shard' = [NoHolder EXCEPT !.who = "drop"]
  /\ disc' = [disc EXCEPT !.step = "parked"]
  /\ UNCHANGED <<data, dirty, pend, landing, writer, trims, seq, sync, kept, budget>> /\ UNCHANGED region /\ UNCHANGED rowmap /\ UNCHANGED state

DropParked ==
  /\ disc.step = "parked"
  /\ pend' = [b \in Blocks |-> IF b \in DropRange THEN NoCrc ELSE pend[b]]
  /\ shard' = NoHolder
  /\ disc' = [disc EXCEPT !.step = "zero"]
  /\ UNCHANGED <<data, landing, writer, trims, seq, sync, kept, budget>> /\ UNCHANGED cache /\ UNCHANGED region /\ UNCHANGED rowmap /\ UNCHANGED state

\* Whole pages: zeroed on the member, and flushed.
DropZero ==
  LET whole == {p \in Pages : Of(p) \subseteq DropRange}
  IN  /\ disc.step = "zero"
      /\ disk' = [p \in Pages |-> IF p \in whole THEN Empty(p) ELSE disk[p]]
      /\ media' = IF whole = {} THEN media ELSE disk'
      /\ disc' = [disc EXCEPT !.step = "ends", !.todo = {p \in Pages : Of(p) \cap DropRange # {}} \ whole]
      /\ UNCHANGED <<data, pend, shard, landing, writer, trims, seq, sync, kept, budget>> /\ UNCHANGED cache /\ UNCHANGED rowmap /\ UNCHANGED state

\* The partial pages at the ends: faulted in, cleared, flushed (below).
DropPart ==
  /\ disc.step = "ends" /\ Free
  /\ IF disc.todo = {}
     THEN /\ disc' = [disc EXCEPT !.step = "over"] /\ UNCHANGED <<shard, seq>>
     ELSE LET p == Min(disc.todo) IN
          shard' = Holder("drop", p, 0) /\ disc' = [disc EXCEPT !.todo = @ \ {p}] /\ UNCHANGED seq
  /\ UNCHANGED <<data, pend, landing, writer, trims, sync, kept, budget>> /\ UNCHANGED cache /\ UNCHANGED region /\ UNCHANGED rowmap /\ UNCHANGED state

\* The end of the drop, then raidkm_rowmap_note_discard.
DropEnd ==
  /\ disc.step = "over"
  /\ seq' = seq + 1
  /\ disc' = IF disc.pass THEN [disc EXCEPT !.step = "attach"] ELSE NoDiscard
  /\ unw' = unw \cup Covered
  /\ UNCHANGED <<data, pend, shard, landing, writer, trims, unwDisk, sync, kept, budget>> /\ UNCHANGED cache /\ UNCHANGED region /\ UNCHANGED state

\* raidkm_discard_stripe: no write on the stripe, and every PCLEAR on disk.
Attach ==
  /\ disc.step = "attach"
  /\ NoClears /\ writer[disc.cur].step = "none" /\ disc.cur \notin trims /\ ~Syncing(disc.cur)
  /\ trims' = trims \cup {disc.cur}
  /\ disc' = IF disc.cur + 1 = disc.last THEN NoDiscard ELSE [disc EXCEPT !.cur = @ + 1]
  /\ UNCHANGED <<data, pend, shard, landing, writer, seq, sync, kept, budget>> /\ UNCHANGED cache /\ UNCHANGED region /\ UNCHANGED rowmap /\ UNCHANGED state

Trim(b) ==
  /\ b \in trims /\ trims' = trims \ {b}
  /\ data' = [data EXCEPT ![b] = Trimmed]
  /\ UNCHANGED <<pend, shard, landing, writer, disc, seq, sync, kept, budget>> /\ UNCHANGED cache /\ UNCHANGED region /\ UNCHANGED rowmap /\ UNCHANGED state

MapFlush ==
  /\ unwDisk # unw /\ unwDisk' = unw
  /\ UNCHANGED <<data, pend, shard, landing, writer, disc, trims, seq, unw, sync, kept, budget>> /\ UNCHANGED cache /\ UNCHANGED region /\ UNCHANGED state

-----------------------------------------------------------------------------
(* A write of a block: md_write_start and the row map, raidkm_csum_store,  *)
(* then the member.  A repair or a rebuild writes as well, without making  *)
(* the array dirty.                                                        *)

Version == 2 + budget.total - budget.writes

Start(b, pass) ==
  /\ Have("writes") /\ Use("writes")
  /\ writer[b].step = "none" /\ b \notin trims /\ ~Syncing(b)
  /\ writer' = [writer EXCEPT ![b] = [step |-> "load", v |-> Version, pass |-> pass, alone |-> ~Ahead(b)]]
  /\ kept' = kept \ {b}
  /\ IF pass
     THEN /\ ~sync.running /\ b \notin unw
          /\ budget.pass # "none" /\ (insync => budget.pass = "any")
          /\ UNCHANGED <<insync, sb>> /\ UNCHANGED rowmap
     ELSE insync' = FALSE /\ sb' = 0 /\ unw' = unw \ {b} /\ unwDisk' = unwDisk \ {b}
  /\ UNCHANGED <<data, pend, shard, landing, disc, trims, seq, sync>> /\ UNCHANGED cache /\ UNCHANGED region

At(b, step) == writer[b].step = step
To(b, step) == writer' = [writer EXCEPT ![b].step = step]
Quiet == UNCHANGED <<data, shard, landing, disc, trims, seq, sync, budget>> /\ UNCHANGED region /\ UNCHANGED rowmap /\ UNCHANGED state

\* Something parked for the block is superseded in place.
StoreLoad(b) ==
  /\ At(b, "load")
  /\ IF pend[b] # NoCrc
     THEN pend' = [pend EXCEPT ![b] = writer[b].v] /\ To(b, "parked")
     ELSE UNCHANGED pend /\ To(b, "slot")
  /\ UNCHANGED kept /\ UNCHANGED cache /\ Quiet

SetSlot(p, b, crc) == page' = [page EXCEPT ![p][b] = crc] /\ dirty' = dirty \cup {p}

\* The resident page, under its lock; a page that is not there is parked for.
StoreSlot(b) ==
  LET p == b \div PerPage
  IN  /\ At(b, "slot")
      /\ CASE Resident(p) /\ ~InDiscard(b) -> SetSlot(p, b, writer[b].v) /\ To(b, "issue")
           [] Resident(p) /\ InDiscard(b) /\ page[p][b] = NoCrc -> UNCHANGED cache /\ To(b, "issue")
           [] Resident(p) /\ InDiscard(b) /\ page[p][b] # NoCrc -> SetSlot(p, b, NoCrc) /\ To(b, "clear")
           [] ~Resident(p) -> UNCHANGED cache /\ To(b, IF InDiscard(b) THEN "clear" ELSE "park")
      /\ UNCHANGED <<pend, kept>> /\ Quiet

StorePark(b) ==
  /\ At(b, "park")
  /\ pend' = [pend EXCEPT ![b] = writer[b].v] /\ To(b, "parked")
  /\ UNCHANGED kept /\ UNCHANGED cache /\ Quiet

\* Parked, then tested: a discard that registered since is seen here.
StoreParked(b) ==
  /\ At(b, "parked") /\ To(b, IF InDiscard(b) THEN "clear" ELSE "issue")
  /\ UNCHANGED <<pend, kept>> /\ UNCHANGED cache /\ Quiet

\* raidkm_csum_park_clear
StoreClear(b) ==
  /\ At(b, "clear")
  /\ pend' = [pend EXCEPT ![b] = Clear] /\ To(b, "issue")
  /\ UNCHANGED kept /\ UNCHANGED cache /\ Quiet

Written(b) ==
  /\ At(b, "issue")
  /\ data' = [data EXCEPT ![b] = writer[b].v]
  /\ writer' = [writer EXCEPT ![b] = NoWrite]
  /\ kept' = IF writer[b].alone THEN kept \cup {b} ELSE kept
  /\ UNCHANGED <<pend, shard, landing, disc, trims, seq, sync, budget>> /\ UNCHANGED cache /\ UNCHANGED region /\ UNCHANGED rowmap /\ UNCHANGED state

-----------------------------------------------------------------------------
(* Under the shard's lock: raidkm_csum_get, raidkm_csum_evict_locked.      *)

Locked == UNCHANGED <<data, writer, trims, kept, budget>> /\ UNCHANGED rowmap /\ UNCHANGED state

\* Read before a drop that has ended since: read again.  A drop that runs
\* clears its blocks from what is published.
Install ==
  /\ shard.step = "read"
  /\ IF shard.seq # seq
     THEN shard' = [shard EXCEPT !.image = disk[shard.p], !.seq = seq] /\ UNCHANGED page
     ELSE /\ page' = [page EXCEPT ![shard.p] = Without(shard.image)]
          /\ shard' = [shard EXCEPT !.step = "room", !.image = Absent]
  /\ UNCHANGED <<dirty, pend, landing, disc, seq, sync>> /\ UNCHANGED region /\ Locked

\* Over the ceiling: a page that is not the one just read is written back.  With
\* budget.gap also one that holds a CRC a discard has yet to be rid of.
Evict ==
  LET over == {p \in Pages \ {shard.p} : Resident(p) /\ (budget.gap \/ \A b \in Of(p) : Ahead(b) => page[p][b] = NoCrc)}
  IN  /\ shard.step = "room"
      /\ IF Cardinality(over) < CacheMax
         THEN shard' = [shard EXCEPT !.step = "have"] /\ UNCHANGED dirty
         ELSE \E p \in over :
                /\ shard' = [shard EXCEPT !.step = "evict", !.out = p, !.image = IF p \in dirty THEN page[p] ELSE Absent]
                /\ dirty' = dirty \ {p}
      /\ UNCHANGED <<page, pend, landing, disc, seq, sync>> /\ UNCHANGED region /\ Locked

\* Mutant: the page goes, whatever a store has put there meanwhile.
EvictedForGood ==
  /\ shard.step = "evict"
  /\ disk' = IF shard.image = Absent THEN disk ELSE [disk EXCEPT ![shard.out] = shard.image]
  /\ page' = [page EXCEPT ![shard.out] = Absent] /\ dirty' = dirty \ {shard.out}
  /\ shard' = [shard EXCEPT !.step = "have", !.image = Absent]
  /\ UNCHANGED <<media, pend, landing, disc, seq, sync>> /\ Locked
\* It went out without a flush, and stays if a store has dirtied it since.
Evicted ==
  /\ shard.step = "evict"
  /\ disk' = IF shard.image = Absent THEN disk ELSE [disk EXCEPT ![shard.out] = shard.image]
  /\ page' = IF shard.out \in dirty THEN page ELSE [page EXCEPT ![shard.out] = Absent]
  /\ shard' = [shard EXCEPT !.step = "have", !.image = Absent]
  /\ UNCHANGED <<media, dirty, pend, landing, disc, seq, sync>> /\ Locked

\* raidkm_csum_page_flush: the snapshot, then a write with PREFLUSH and FUA.
Flush ==
  /\ shard.step = "flush"
  /\ shard' = [shard EXCEPT !.step = "flushed", !.image = page[shard.p]]
  /\ dirty' = dirty \ {shard.p}
  /\ UNCHANGED <<page, pend, landing, disc, seq, sync>> /\ UNCHANGED region /\ Locked

Flushed ==
  /\ shard.step = "flushed"
  /\ disk' = [disk EXCEPT ![shard.p] = shard.image] /\ media' = disk'
  /\ shard' = NoHolder
  /\ UNCHANGED <<pend, landing, disc, seq, sync>> /\ UNCHANGED cache /\ Locked

\* A drop's partial page, marked dirty whatever it held.
DropHas ==
  /\ shard.step = "have" /\ shard.who = "drop"
  /\ page' = [page EXCEPT ![shard.p] = Without(@)] /\ dirty' = dirty \cup {shard.p}
  /\ shard' = [shard EXCEPT !.step = "flush"]
  /\ UNCHANGED <<pend, landing, disc, seq, sync>> /\ UNCHANGED region /\ Locked

\* A read that has to be verified, of a block whose page is not resident.
Read(p) ==
  /\ Free /\ ~Rederive /\ ~Resident(p) /\ Have("reads") /\ Use("reads")
  /\ shard' = Holder("reader", p, 0)
  /\ UNCHANGED <<data, pend, landing, writer, disc, trims, seq, sync, kept>> /\ UNCHANGED cache /\ UNCHANGED region /\ UNCHANGED rowmap /\ UNCHANGED state

ReadHas ==
  /\ shard.step = "have" /\ shard.who = "reader" /\ shard' = NoHolder
  /\ UNCHANGED <<pend, landing, disc, seq, sync>> /\ UNCHANGED cache /\ UNCHANGED region /\ Locked

-----------------------------------------------------------------------------
(* The worker: raidkm_csum_work_fn lands what is parked.                   *)

NoLanding == [step |-> "none", b |-> 0, e |-> NoCrc]

LandPick(b) ==
  /\ landing = NoLanding /\ pend[b] # NoCrc
  /\ landing' = [step |-> "lock", b |-> b, e |-> pend[b]]
  /\ UNCHANGED <<pend, shard, disc, seq, sync>> /\ UNCHANGED cache /\ UNCHANGED region /\ Locked

LandLock ==
  /\ landing.step = "lock" /\ Free
  /\ IF pend[landing.b] = landing.e
     THEN shard' = Holder("worker", landing.b \div PerPage, landing.b) /\ landing' = [landing EXCEPT !.step = "page"]
     ELSE landing' = NoLanding /\ UNCHANGED shard
  /\ UNCHANGED <<pend, disc, seq, sync>> /\ UNCHANGED cache /\ UNCHANGED region /\ Locked

\* A CRC goes into its slot; a PCLEAR empties it, on disk.
Land ==
  LET b == landing.b
      p == shard.p
      clear == landing.e = Clear
  IN  /\ shard.step = "have" /\ shard.who = "worker"
      /\ IF clear /\ page[p][b] = NoCrc THEN UNCHANGED cache ELSE SetSlot(p, b, IF clear THEN NoCrc ELSE landing.e)
      /\ shard' = IF clear /\ p \in dirty' THEN [shard EXCEPT !.step = "flush"] ELSE NoHolder
      /\ landing' = [landing EXCEPT !.step = "erase"]
      /\ UNCHANGED <<pend, disc, seq, sync>> /\ UNCHANGED region /\ Locked

\* Unless a newer store has replaced it.
LandErase ==
  /\ landing.step = "erase" /\ shard.who # "worker"
  /\ pend' = IF pend[landing.b] = landing.e THEN [pend EXCEPT ![landing.b] = NoCrc] ELSE pend
  /\ landing' = NoLanding
  /\ UNCHANGED <<shard, disc, seq, sync>> /\ UNCHANGED cache /\ UNCHANGED region /\ Locked

-----------------------------------------------------------------------------
(* The resync after an unclean start; stopping; power failure.             *)

\* raidkm_csum_sync_dirty with the first row: the array is dirty, as in a write.
SyncStart ==
  /\ sync.full /\ ~sync.running /\ ~PassRuns
  /\ sync' = [sync EXCEPT !.running = TRUE] /\ insync' = FALSE
  /\ UNCHANGED <<data, pend, shard, landing, writer, disc, trims, seq, sb, kept, budget>> /\ UNCHANGED cache /\ UNCHANGED region /\ UNCHANGED rowmap

\* Any superblock write: the resync's checkpoint is in it while the array is in sync.
Superblock ==
  /\ sb' = IF insync THEN sync.pos ELSE 0
  /\ UNCHANGED <<data, pend, shard, landing, writer, disc, trims, seq, insync, sync, kept, budget>> /\ UNCHANGED cache /\ UNCHANGED region /\ UNCHANGED rowmap

SyncRow ==
  LET b == sync.pos
  IN  /\ sync.running /\ b < Rows
      /\ IF b \in unw
         THEN sync' = [sync EXCEPT !.pos = b + 1] /\ UNCHANGED shard
         ELSE /\ Free /\ writer[b].step = "none" /\ b \notin trims
              /\ shard' = Holder("sync", b \div PerPage, b) /\ UNCHANGED sync
      /\ UNCHANGED <<pend, landing, disc, seq>> /\ UNCHANGED cache /\ UNCHANGED region /\ Locked

\* An entry that is there is taken again from the data; none is made.
SyncHas ==
  /\ shard.step = "have" /\ shard.who = "sync"
  /\ IF page[shard.p][shard.b] = NoCrc THEN UNCHANGED cache ELSE SetSlot(shard.p, shard.b, data[shard.b])
  /\ shard' = NoHolder /\ sync' = [sync EXCEPT !.pos = @ + 1]
  /\ UNCHANGED <<pend, landing, disc, seq>> /\ UNCHANGED region /\ Locked

SyncStops ==
  /\ sync.running /\ shard.who # "sync"
  /\ sync' = [sync EXCEPT !.running = FALSE, !.full = sync.pos < Rows]
  /\ UNCHANGED <<data, pend, shard, landing, writer, disc, trims, seq, insync, sb, kept, budget>> /\ UNCHANGED cache /\ UNCHANGED region /\ UNCHANGED rowmap

\* The next start: raidkm_csum_hold_run.
Restart(cp, image) ==
  /\ disk' = image /\ media' = image /\ page' = [p \in Pages |-> Absent] /\ dirty' = {}
  /\ pend' = [b \in Blocks |-> NoCrc] /\ shard' = NoHolder /\ landing' = NoLanding
  /\ writer' = [b \in Blocks |-> NoWrite] /\ disc' = NoDiscard /\ trims' = {} /\ seq' = 0
  /\ sync' = [running |-> FALSE, pos |-> cp, full |-> cp < Rows]
  /\ insync' = TRUE /\ sb' = cp

\* raidkm_pers_quiesce writes the CRCs back, then md marks the array clean.
Stop ==
  /\ Have("stops") /\ Use("stops")
  /\ Free /\ landing = NoLanding /\ disc = NoDiscard /\ trims = {} /\ ~sync.running
  /\ \A b \in Blocks : writer[b] = NoWrite /\ pend[b] = NoCrc
  /\ Restart(IF sync.full THEN sync.pos ELSE Rows, [p \in Pages |-> IF p \in dirty THEN page[p] ELSE disk[p]])
  /\ unwDisk' = unw /\ UNCHANGED <<data, unw, kept>>

PowerFailure ==
  /\ Have("crashes") /\ Use("crashes")
  /\ \E lost \in SUBSET Pages : Restart(sb, [p \in Pages |-> IF p \in lost THEN media[p] ELSE disk[p]])
  /\ unw' = unwDisk /\ kept' = {}
  /\ UNCHANGED <<data, unwDisk>>

-----------------------------------------------------------------------------
Init ==
  /\ data = [b \in Blocks |-> 1] /\ disk = [p \in Pages |-> [b \in Of(p) |-> 1]] /\ media = disk
  /\ page = [p \in Pages |-> Absent] /\ dirty = {} /\ pend = [b \in Blocks |-> NoCrc]
  /\ shard = NoHolder /\ landing = NoLanding /\ writer = [b \in Blocks |-> NoWrite]
  /\ disc = NoDiscard /\ trims = {} /\ seq = 0 /\ unw = {} /\ unwDisk = {}
  /\ insync = TRUE /\ sb = Rows /\ sync = [running |-> FALSE, pos |-> Rows, full |-> FALSE]
  /\ kept = Blocks /\ budget \in CsumBudgets

Writes(b) ==
  \/ \E pass \in BOOLEAN : Start(b, pass)
  \/ StoreLoad(b) \/ StoreSlot(b) \/ StorePark(b) \/ StoreParked(b) \/ StoreClear(b) \/ Written(b)
Drops == (\E range \in Discards : Discard(range)) \/ DropStart \/ DropCore \/ DropParked \/ DropZero \/ DropPart \/ DropEnd \/ DropHas \/ Attach
Shard == Install \/ Evict \/ Evicted \/ Flush \/ Flushed \/ (\E p \in Pages : Read(p)) \/ ReadHas \/ LandLock \/ Land \/ LandErase
Array == MapFlush \/ SyncStart \/ Superblock \/ SyncRow \/ SyncHas \/ SyncStops \/ Stop \/ PowerFailure
Next == Drops \/ Shard \/ Array \/ \E b \in Blocks : Writes(b) \/ Trim(b) \/ LandPick(b)

Spec == Init /\ [][Next]_vars

-----------------------------------------------------------------------------
(* A read is never failed for a CRC that is not its block's: while reads   *)
(* are verified, what a block with no write on its way is compared with is *)
(* nothing, or the CRC of what the member holds.                           *)
NoGoodBlockFails ==
  ~Rederive => \A b \in Blocks : writer[b].step = "none" => Expected(b) \in {NoCrc, data[b]}

(* A block written on its own is verified from then on, until a discard or *)
(* a power failure: its CRC is never lost between the parked entries, the  *)
(* page, its write-back and its eviction.                                  *)
WritesStayVerified ==
  ~Rederive => \A b \in kept : writer[b].step = "none" => Expected(b) = data[b]
===============================================================================
