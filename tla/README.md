# md-kmec in TLA+

md-kmec is a RAID personality for the Linux md driver: `raidkm`, k data and m
parity members per row (any m, Reed-Solomon over GF(2^8)), grown out of the
kernel's raid5 and extended with a copy-on-write online reshape, declustered
layouts with distributed spare space, native snapshots, a row state map and
per-block checksums.  The code is in `src/km` (paths below are relative to
`src`), 38,000 lines of C, two thirds of them in `raid_km.c`.

This directory models the part of it where several threads, several members and
a power failure meet, checks the models with TLC on small instances, and proves
with TLAPS, for all instances, what section 4 lists.

## 1. The system

### Components, their state and their operations

| component | state | operations | what makes it correct |
|---|---|---|---|
| chunk map (`raid5_compute_sector`, `raid5_compute_blocknr`, `raidkm_reshape_row_layout`) | none | chunk → member and row, slot → chunk, row → slots | the three agree, each row is a bijection, parity is spread evenly |
| user I/O gate (`raid5_make_request`, `make_stripe_request`, `get_reshape_loc`, `stripe_ahead_of_reshape`, `raid5_read_one_chunk`, `raid5_quiesce`) | `reshape_progress`, `reshape_safe`, `generation`, `gen_lock`, `quiesce`, `active_stripes`, `active_aligned_reads`, `wait_for_reshape` | classify a request, wait for a stripe, look again, serve it; bypass read; drain | every request works in the geometry its chunk is in at that moment; requests are answered |
| reshape engine (`raidkm_reshape_cow`, `raidkm_reshape_cow_shrink`, `raidkm_reshape_migrate_band`) | the claimed band, its pages, the staging area below `data_offset` | claim, drain, read, encode, stage, write home, release or unclaim | no request sees a band half moved; nothing is overwritten that is still to be read |
| reshape journal and recovery (`raid_km-reshape.c`, `raidkm_reshape_recover`) | two record slots per member, sequence number, phase | init, write a record, take the newest, replay, set the frontier | at every moment a crash costs nothing; assembly finds one frontier, and it never goes back |
| start and end of a reshape (`raid5_start_reshape`, `end_reshape`, `raid5_finish_reshape`) | both geometries, the superblock's `reshape_position` | switch geometry under quiesce, retire the old one | no request straddles the switch |
| stripe cache and stripe state machine | `stripe_head`s, their flags, the hash and the LRU lists | get, handle, compute, write, release | a stripe's parity matches its data whenever it is idle |
| row layer | row locks, generation buckets | whole-row read, write and rebuild beside the stripe cache | no row read mixes two generations |
| declustered map (`raid_km-dcl.c`) | permutation, assignments of spare space, their journal | populate, copy back, retire | each row keeps its members distinct; an assignment is durable before it is used |
| declustered reshape | a row frontier, its own journal walk | claim rows, move, release, replay | as the classic reshape |
| native snapshots (`raid_km-snap.c`) | origin map, chain with exceptions, used rows, running copies | write with copy-on-write, discard, snapshot read, create, destroy | the origin is a block device, a snapshot never changes, no row has two owners |
| snapshot metadata (`raid_km-snapmeta.c`) | journal ring, two checkpoints, seed | commit, checkpoint, load | after a crash the maps are those of the acknowledged operations |
| row state map (`raid_km-rowmap.c`) | a state U, N, S or W per row, epochs | note a write, flush, skip in a pass, load | a row that is skipped was never written |
| checksum cache | CRC pages, parked stores | store, drop, write back, verify | a CRC on disk is never newer nor older than its block after recovery |
| partial parity log (`raid_km-ppl.c`) | per member a ring of units, the unit gathering and the one under way | log a stripe, write and flush a unit, load, recover | a power failure costs no block that was not being written, whatever members are missing |
| write-back journal (`raid_km-cache.c`) | a log on a device of its own | log, write out, recover | as in raid5 |
| assembly, configuration, takeover | superblock, `r5conf` | run, check, sysfs | an invalid array is refused |
| Reed-Solomon arithmetic | tables | encode, decode | ISA-L's |

### How they interact

Requests come in many threads; one sync thread per array moves the bands; the md
core writes superblocks when it gets to it; `raid5d` finishes a reshape.  They
share the two frontiers (`reshape_progress` under `device_lock`, read without it
on fast paths), the generation (`gen_lock`, a seqcount), `quiesce` with its
counters, and the members' contents.  The sync thread stops new stripes with
`quiesce = 2`, waits for `active_stripes` and `active_aligned_reads` to reach
zero, and lets go.  The reshape engine writes around the stripe cache, straight to
the members; all that keeps it from a request is the frontier and the drain.

### What is hard

The hazards, each at its line, are in `PROJECT.json`.  In short: a request reads
the frontier, sleeps, and uses what it read; the claim moves the frontier first and
drains second; a bypass read checks a gate and takes its reference later; start
and end change several variables that are read separately; a request that waits
for a band must not hold what the band waits for; a band may fail at any of four
writes; power fails between any two writes to any two members, and in the middle
of one; the superblock lags behind; a member fails and the superblock does not know
yet; a replay is itself interrupted.

## 2. The modules

| module | what it is |
|---|---|
| `RaidkmGeometry` | the chunk map, as operators on a geometry `[n, m, rot]` |
| `RaidkmGeometryCheck` | walks every small geometry and every pair a reshape can go between |
| `RaidkmGeometryLemmas` | arithmetic of the chunk map, proved |
| `RaidkmGeometryProofs` | the chunk map's theorems |
| `RaidkmBlockDevice` | abstract: a linear store of chunks, requests that take effect once |
| `RaidkmGate` | user I/O against the reshape engine, interleaved step by step |
| `RaidkmGateProofs` | the gate's inductive invariants; it implements the block device |
| `RaidkmReshape` | the reshape's writes, its journal, power failure, assembly |
| `RaidkmReshapeProofs` | why its durable frontier never retreats, and why no chunk is lost on the way |
| `RaidkmSnapDevice` | abstract: a store of rows, and frozen images of it |
| `RaidkmSnap` | the copy-on-write engine of native snapshots |
| `RaidkmSnapProofs` | its invariants: jobs, commands and the count in flight; one owner per physical row; readers keep theirs |
| `RaidkmSnapImages` | what the rows hold: it implements the store with images |
| `RaidkmSnapMeta` | the snapshots' journal and checkpoints on every member, and the load |
| `RaidkmStripe` | one stripe of the stripe cache, and its handler |
| `RaidkmRow` | whole-row reads, writes and passes beside the stripe cache |
| `RaidkmRowProofs` | why a quiesce waits for everybody, who has a stripe, and what the row's members and pages hold |
| `RaidkmRowMap` | the row state map, its flushes and the passes that skip by it |
| `RaidkmRowMapProofs` | why a row with data is never loaded as unwritten |
| `RaidkmDcl` | the declustered pool: assignments of spare columns and their journal |
| `RaidkmCsum` | the cache of native checksums, discards, the resync that takes them again |
| `RaidkmPpl` | the partial parity log, power failures and the recovery |
| `MC…` | the instances TLC runs; `MCRaidkmParts` runs `RaidkmGeometryCheck`, `RaidkmCsum` and `RaidkmPpl`, one of them in a behaviour |

`RaidkmGate` and `RaidkmReshape` both use `RaidkmGeometry`.  `RaidkmGate`
implements `RaidkmBlockDevice` under the mapping `Store` (each chunk read in the
geometry it is served in) and `IO`.  `RaidkmSnap` implements `RaidkmSnapDevice`: its
`Store` reads each origin row through the map, its `Images` each snapshot through the
chain.  It stands above the others: its physical rows are rows of the block device.
`RaidkmStripe` is a stripe from the inside; in `RaidkmRow` and `RaidkmRowMap` what the
stripe cache does with a stripe is a few steps, and what they add is who else is on
the row.  `RaidkmSnapMeta` is below `RaidkmSnap`: there a commit is one step, here it is
the writes of one.

### RaidkmGeometry

Addresses are counted in chunks: an array sector is a chunk number, a member
sector a row.  `ComputeSector` and `ComputeBlocknr` are the stripe path's map and
inverse for the rotating layout (left-symmetric, the parity block of m slots moving
one to the left per row) and for the parity-last layout, the two a `raidkm` array
can have; `ParitySlot`, `DataSlot` are the reshape engine's own computation of a row.

### RaidkmGate

| model | code |
|---|---|
| `progress`, `safe`, `gen`, `backwards`, `rpos` | `reshape_progress`, `reshape_safe`, `generation`, `mddev->reshape_backwards`, `mddev->reshape_position` |
| `quiesce`, `Drained` | `conf->quiesce`; `active_stripes` and `active_aligned_reads` at zero |
| `epc` | where the sync thread stands between `raid5_start_reshape` and `raid5_finish_reshape` |
| `req[r].pc` | `new`: top of the retry loop; `lookup`: classified, in `raid5_get_active_stripe`; `holding`: has the stripe, must look again; `admitted`: bio on the stripe; `gated`, `mapped`, `direct`: the bypass read before it maps, between mapping and its reference, and in flight; `asleep`: waits off the queue |
| `req[r].old`, `seq`, `onq` | `previous` together with the geometry current then; the `gen_lock` count; whether the request put itself on `wait_for_reshape` |
| `home` | the members' data areas, a value per cell |

Steps are as fine as the code's own reads and writes of shared state: a request
reads the frontiers in one step (`Classify`), gets a stripe in another
(`GetStripe`), looks again in a third (`Recheck`); the sync thread publishes the
claim (`Claim`), starts the drain, ends it, reads, writes home and releases in six.
A stripe's own I/O is one step (`Perform`): the stripe's flags serialise requests
on it, and what is behind it is not in question here.  A band moves in two steps;
how it survives a crash is `RaidkmReshape`'s subject.

### RaidkmReshape

| model | code |
|---|---|
| `home`, `scratch`, `journal` | data area, staging area and the two record slots of every member |
| `sb` | what the superblocks last said: the reshape's state, `reshape_position`, who is Faulty |
| `epc` | the phase of `migrate_band` (`STAGE`, `scratch`, `COMMIT`, `home`, `DONE`), of the journal's initialisation, or of assembly (`down`, `replay`, `refused`) |
| `who`, `taken` | the loop over the members under way, and whether one of them took the record |
| `band` | the pages of the claimed band |
| `faulty`, `recovering` | `Faulty` in memory, and members without `In_sync` |
| `mem` | history: what the user last wrote |

A data cell holds a value; a parity cell holds the row's values under its geometry
and its parity index, so that reconstruction (`Reconstruct`) succeeds exactly when
the survivors belong to one codeword, and yields garbage otherwise, as a
maximum-distance-separable code does.  Every loop over the members is a step per
member, power can fail in between, and the write in progress may be torn.  User
I/O is one step per request, allowed where `RaidkmGate` admits it.

Parity rows of the old geometry that the walk has half overwritten are why
`ServesLastWrite` is about stripes wholly ahead.

### RaidkmSnap

| model | code |
|---|---|
| `origin`, `used`, `snaps`, `exc` | the origin map (`rk_sn_origin`), the bitmap of rows taken, the chain from oldest to newest, each snapshot's exceptions |
| `cow[i]` | a `rk_snap_cow`: `work` (queued), `read`, `write`, `pend` (its operation is on `pending`); `whole` writes start at `write` |
| `cows`, `overflow`, `hold`, `broken`, `pending` | the fields of that name |
| `again[a]`, `ending` | who is inside `rk_snap_cow_finish` or `rk_snap_unhold`, and the bios it has yet to submit again |
| `worker` | the commit worker: its batch, and where it is in it (`build`, `apply`, `half`: between the two stores of `rk_snap_apply`, `finish`) |
| `cmd` | a create or destroy, from its hold to the end of its unhold |
| `suspended`, `Active` | `mddev_suspend`, and the bios that hold `active_io` |
| `req`, `disc`, `rd` | origin reads and writes, the pieces of a discard, snapshot reads |

A bio is one row's piece: `raidkm_snap_map_bio` splits at row borders and gives the
rest back to the queue.  A row's contents are a pair, the part that partial writes
replace and the part they leave, so that a copy that loses either shows.  The
allocator may return any free row (in the code a cursor decides).  Each critical
section of `sn->lock` is a step; `rk_snap_apply` is two, because it stores the
exception before the new origin row, and readers may look in between.  The waiting
bios go back one at a time, each through the whole of `map_bio`, and the copy is
counted until the last has gone: that is what keeps a suspend from catching the
commit worker on its way back into the array.

A failed copy gives its new row back; a failed commit does so only if no member can
have the record, and sets `broken`.  The record itself, the ring and the
checkpoints are not in this module; nor are power failures.

### RaidkmSnapMeta

| model | code |
|---|---|
| `disk`, `cache` | every member's metadata pages and data rows: on its media, and in its volatile cache |
| `core` | the maps of `raidkm_snap`: snapshots, reverse map with its dirty pages, page map, `ckpt`, `jhead`, `jtail`, `jscrub` |
| `pending`, `work` | `sn->pending`; where `rk_sn_commit_fn` is: settle, scrub, data flush, record, apply, or one of the six steps of a checkpoint |
| `cmd` | a create or destroy, which keeps writers out while it waits |
| `member` | also `failing` (Faulty in memory, not in the superblocks), `added` and `seeded` |

A page of the metadata is good or torn by its seal and has a generation; `Load` is the
whole of `rk_sn_load`: the header, the tables and page map it names, the slots of the
reverse map, then the ring from the tail on.  A power failure empties each member's
cache page by page, any subset.  The history says what users were told: `kept`,
`chain` and `promised` are what an assembly has to give back.

### RaidkmStripe

| model | code |
|---|---|
| `sh` | the `stripe_head`: `STRIPE_*` bits, `R5_*` flags as sets of slots, pages, `toread`, `towrite`, `written`, check and reconstruct state, the list it is on |
| `io` | the bios at the members; each holds a reference, so a handling starts when the last has ended |
| `disk`, `media`, `member`, `bad`, `wes` | contents, unreadable sectors, state, bad-block lists, `WriteErrorSeen` |
| `bm`, `dirty`, `pending`, `onSb` | the bitmap's counter and its page on disk, `recovery_cp`, `MD_SB_CHANGE_PENDING`, what the superblocks say |
| `pass` | md's resync, recovery, check or repair at this stripe |

`handle_stripe` is one step, `Handle`: analyse, finish, read, fill, dirty, check, heal,
the asynchronous operations, the I/O.  That is sound because it runs under
`STRIPE_ACTIVE` and, as a rule, with no I/O of its own in flight; the exception is
`RetryRead` (`retry_aligned_read`): a read that failed past the stripe is added and handled
by `raid5d` whatever the stripe is at.  A write is of a part of a block, of all of it by a
copy, or of all of it by lending the bio's page to the slot (`skipcopy`, i.e.
`R5_SkipCopy`; `WriteOps` = "part", "over", "lend"); a lent page goes back with the end of
the write (`Unlend`), and the slot is then not up to date.  Whether a write failed is asked
of `mddev->degraded` (`endwrite`), as the compatibility headers drop `STRIPE_DEGRADED`.
The code is linear over the field of
the prime `Q`: any `K` blocks decode, a read-modify-write is the delta arithmetic of the
code.  What a page holds that was never read is 0, a value like any other.  Blocks
whose last write was reported as failed are exempt (`doubt`), and so is the write hole
proper: a degraded stripe torn by a crash.

Left out: the journal, the partial parity log (`RaidkmPpl`), checksums, the flags the row layer
sets (in `RaidkmRow`), discard, stripe batches, replacement devices, the integrity
heal, expansion.

### RaidkmRow

| model | code |
|---|---|
| `bucket`, `wlock`, `rowWrites`, `aligned` | the row's generation bucket, its slot of the lock table with its grace, `conf->row_writes`, `active_aligned_reads` |
| `sh[s]` | who holds each of the row's stripes, its mark (`STRIPE_ROW_*`), its pages |
| `req` | a write through the cache, a whole-row write (lock, walk, issue, end) or a degraded read (members, generation, reads, look again) |
| `pass` | a rebuild or a resync by rows: members, claims, reads, writes; or md's pass stripe by stripe |
| `quiesce`, `onSb`, `pending` | the drain of all of it; the superblocks, for what is answered before a failure is recorded |

`cands` is what a read may return: the last write and those in flight.  A degraded read
one of whose members fails goes to the stripe cache (`ReadWork`); a pass one of whose reads
or writes fails gives the stripes back and leaves the row to the stripe cache
(`PassFails`).  Left out: the window of concurrent chunks and its workers (12575–13624), bios of several rows,
collisions in the bucket and lock tables (they only cost a retry), checksums, the
bitmap (`RaidkmRowMap`), replacements, declustered rows.

### RaidkmRowMap

`map`, `need`, `epoch`, `durable`, `gen` are the fields of `raidkm_rowmap`; `pageOf` its
page on each member; `lock`, `flush` its spinlock and mutex where the code drops them;
`recSkip`, `marked` what a recovery skipped and a resync marked.  A write notes its row
(`NoteSame` … `NoteState`), waits for the flush its row needs, and goes out by stripes
(through the handler, `Handle`, which asks `Trusted` before a read-modify-write) or as
a whole row.  The stripe's bitmap bit is set in memory, flushed, and cleared behind it.
Passes skip rows; a member that is rebuilt counts as in sync behind `offset` and in the
rows it skipped.  One parity, because the map does not look at m; one page of the map.

A flush whose page some members fail is a flush, and they leave the array.  When all of
them fail it (`PageReachesNone`), the array is `broken` (`MD_BROKEN`): the page stays dirty,
what waits for it is answered with an error (`Refuse`), and as no superblock can say that
the members are gone the next assembly takes them all.

`TrustedRowsAreWhole` is said stripe by stripe: the parity of a `W` row's stripe is right
unless a write is landing on that stripe, a whole-row write has the row, a member of it is
missing, or the resync has yet to come by.

### RaidkmDcl

`member`, `rec`, `cell` are the disks (`cell[d][r]` which column's block of which
version lies there), `asg`, `mark`, `done`, `gen` the table `conf->reb` with `reb_mark`,
`reb_win_bits` and `reb_gen`, `jrnl` the block on each disk, `soft` what of a
population or a copy is still in a member's cache.  `Redirect`, `ReadFrom`, `WriteTo`
and `ChainRoot` are the code's walks of the table.  Two threads change it: md's sync
thread and a control thread (arming, retiring, adding a member, the rescue), each with
its `job`: quiesce, drain, store, journal member by member, end or roll back.  An
assembly elects the newest block and replays from it.  User writes are one step: the
quiesces wait for them.  `RecoveryOffset` is md's: behind a pass that runs, the member counts
as recovered, and an assembly goes on from there.

An added disk is `Blank`, which stands for any data: nothing of it is read before it is
rebuilt.  Its journal block is another matter, as nothing erases it and an assembly reads
it; the run takes it to be gone (`budget.stale` FALSE), and what a disk that comes back with
it does is a finding.

Left out: read errors of a live member and the population that is stuck on one, the
look-ahead window, `resync_min`, the migration of checksums, the declustered reshape,
allocation failures.

### RaidkmCsum

| model | code |
|---|---|
| `page`, `dirty`, `pend` | the resident pages with `RAIDKM_CSUM_P_DIRTY`, the `pending` xarray, `RAIDKM_CSUM_PCLEAR` as `Clear` |
| `disk`, `media` | the region as it reads, and as of the member's last flush |
| `shard` | who holds `s->lock`, and where: reading, making room, evicting, flushing |
| `writer[b]`, `landing` | a write in `raidkm_csum_store`, step by step; the worker between looking at an entry and erasing it |
| `disc`, `seq` | `raidkm_csum_disc` and `drop_rows`; `drop_seq` |
| `insync`, `sb`, `sync` | `mddev->in_sync`, `resync_offset` on disk, the resync with `csum_fullsync` |

A CRC is the version of the contents it was made from.  One shard of one member, a row
is one block.  `Expected` is what a read is compared with.  Left out: the heal that a
mismatch starts, failures of the region's I/O and of allocations, the throttle of
parked stores, migration, several members (the cache has no state across members but
the discard's, which attaches all of them at once here).

### RaidkmPpl

| model | code |
|---|---|
| `units[l]`, `next` | `io_list` of the log on member l with the stage of each unit (`gather`, `log`, `raid`, `flush`), `next_io_sector` |
| `ring[l]` | the log's region, page by page: headers, partial parities, torn pages |
| `st[s]` | a stripe's write: logged, on its way to the members still in `left` |
| `cell`, `media` | a member's blocks as it reads, and as of its last flush |
| `asm`, `resync`, `sb` | `ppl_load` under way with `recovered_entries` and `mismatch_count`; `recovery_cp` in memory and in the superblocks |

`ppl_write_stripe` is `UserWrite`; `Submit`, `LogEndio`, `Land`, `StripeWriteFinished`
and `FlushEndio` are the life of a unit; `Load`, `WriteParity`, `EmptyLog` and `Start`
an assembly.  `LoadFails` ends a load at a member's error, after whatever it has written
(`md_error` does nothing before there is a personality; the array is assembled anew), drawn
from the budget of the power failures.  `Newest` is the walk over the headers with its offset, which is where the
partial parities are then read; `Recovery` is `ppl_recover_entry_km`.  As in
`RaidkmStripe` the code is linear over a field.  A power failure lands any subset of
the writes under way, loses any subset of the caches, leaves a log's header new, old or
torn and any subset of its pages, and may take members with it.

`WriteHoleClosed` asks of every choice of K members that are left that they decode to
what was written.  A write whose own log, or one of whose data members, goes with the
power failure is exempt (`torn`): no log of that kind can mend it.  The runs therefore
have no such failure (`budget.torn`), and what the code then does is a finding.

Left out: entries that merge stripes (they share a checksum), the cap on entries, an error
between the two halves of `ppl_write_empty_header` (a discarded region without its header),
allocation failures, quiesce, external metadata, switching the policy on a running
array, reshape.  Not checked either: what a user's flush promises.  An
empty flush request is answered at once (`raid_km-ppl.c:741`), and the members' caches
are left to the flush at the end of the unit.

### What the environment may do

Some timings and coincidences are ruled out by a constant set to FALSE.  Each names
something the code does not exclude.  With it TRUE, TLC finds a violation; these are
limits of the guarantee, and those that contradict something the repository says are
findings (section 5).

| constant | what it lets happen | what then fails |
|---|---|---|
| `SlowRecheck` (backwards walk) | a request classified `previous` looks again only after `end_reshape` published `MaxSector`; `range_ahead_of_reshape` (`km/raid_km.c:15019`) is then true of any stripe | `ServedWhereItLives` in `gate_shrink` |
| `LateArrival` | a request that arrived before the start is told to wait; it is not on `wait_for_reshape` (`15584`, `15608`) | `RequestsAndReshapeEnd` in `gate_grow` |
| `SlowBypass` | a mapped bypass read waits for its reference during a whole band (`10783`) | `ServedWhereItLives` |
| `DoneMayFail` | the DONE record fails on every member after the home row was written; the band is unclaimed all the same (`16543`) | `IsBlockDevice` in `gate_shrink` |
| `MayLose`, with liveness | a source member is gone for good: the walk stops inside an old stripe (`15827`), requests to the rest of it wait | `RequestsAndReshapeEnd` |
| `FaultLag` | power fails after a scratch write failed, before the Faulty mark is in the superblock (`15731`) | `AssemblySucceeds` |
| `WritesAfterReplay` | a replayed band is written before the next record (`16424`) | `NothingInFlightIsTheOnlyCopy` |
| `InitMayFail` | initialising the journal fails, or misses a member that holds a record of an earlier reshape (`raid_km-reshape.c:117`) | `NothingInFlightIsTheOnlyCopy` |
| `LoneRecord` | the only copy of the record an assembly acted on is lost, or torn, before the next one (`16409`) | `NothingInFlightIsTheOnlyCopy` |
| `DegradedStart` | the reshape starts while a spare is still recovering: it is read as present (`15827`) | `ServesLastWrite` |
| `RereadMayFail` | a block stays unreadable after it was rewritten (`6676`) | `UptodateIsCurrent` |

`MayLose` and `LateArrival` are TRUE in `gate_shrink`, `DoneMayFail` and `SlowRecheck`
in `gate_grow`: what they permit is checked there for the properties that survive it.

The other modules rule coincidences out by their budgets, one of which is drawn at the
start of a behaviour: the number of writes, failures, passes, discards and power
failures there are, in mixes.  Mixes that are not in a run are either too large for it,
or one that a finding is about; section 5 names the latter.

## 3. The runs

| run | instance | states | what it shows |
|---|---|---|---|
| `parts` | geometries of up to 7 members, 13 rows, all pairs a classic reshape allows; or 3 blocks in 2 pages of the checksum cache, one of them resident, a discard of blocks 1 and 2, up to 2 writes, a fault, a stop, 2 power failures; or the log of a 2+2 array, 3 stripes in 2 logs, regions of 8 pages, units of 2 partial parities, up to 2 writes, 2 members lost, 2 power failures or failed assemblies, an addition | 758,000 | the computations of a place agree, the inverse inverts, the walk never overwrites what it has yet to read; no block fails its own CRC, no CRC of a write is lost; no power failure costs a block that was not being written, and a clean start is clean |
| `gate_shrink` | 3+1 → 2+1, 2 rows, 2 requests, 1 write, a band that fails, a member lost, early arrivals | 1,570,000 | the inductive invariant `GateInv`, and the refinement of `RaidkmBlockDevice` |
| `gate_grow` | 2+1 → 3+1, 1 request, fairness | 13,500 | every request is answered, the reshape ends, failing bands included; new capacity reads zero |
| `reshape` | 2+1 → 2+2 and 3+1 → 2+1, 2 rows, up to 1 write, 2 power failures, 1 failed member write, 1 abandoned band, fairness | 505,000 | no chunk's only copy is ever in flight; an array that runs serves what was written; every assembly succeeds; the durable frontier never retreats; the reshape settles |
| `snap` | 2 origin rows, 4 physical, 2 slots, 2 requests, 1 snapshot reader, symmetric; up to 2 writes, 3 commands, 1 discard, 1 error (`Mixed`) | 1,140,000 | the refinement of `RaidkmSnapDevice`; `OneOwner`; no reader loses the row it chose; nothing moves while a create or destroy is recorded |
| `snap_ends` | 3 origin rows, 4 physical, 1 slot, 3 requests, fairness (`Crowd`) | 212,000 | every write, discard and command ends: waiting for a copy, for one of the two copy slots, or behind a hold |
| `stripe` | 2+2, 2 requests, symmetric; 11 mixes of two writes (lent or copied overwrites, partial ones), a read retried by `raid5d`, a member, sector errors, a write error, a pass, a crash | 3,381,000 | the cache's pages, the members in sync and the bitmap's clear bit mean what they say |
| `stripe_wide` | 2+3, one request `REQ_SYNC`, a retried read, fairness | 95,600 | the same for more than two parities, whose check and repair are other code; requests and passes end |
| `row` | 2+1, 2 stripes, 2 requests; 12 mixes with a read, row writes, a failure, a pass, a quiesce; a member's read or write fails in any read or pass; one with endless row writes; fairness | 170,000 | reads and passes never mix generations; row and cache never leave each other stale; answered means recorded; quiesced means quiet; everybody ends |
| `rowmap` | 2+1, 2 rows of 2 stripes, 2 requests; 13 mixes with both kinds of write, discards, a recovery, repair and resync with an interrupt, a lost and a new member, a page no member takes, up to two power failures | 1,277,000 | a row with data is never called unwritten by an assembly; parity that is trusted was written; a skipped row that is written is rebuilt |
| `snapmeta` | 2 members, 2 origin rows, 4 physical in 2 pages, 2 slots, ring of 4; 8 mixes | 564,000 | every assembly reads the metadata, finds the chain users were told of, and each row it names has what it should |
| `dcl` | 5 disks, k = 1, m = 2, s = 2, 2 rows; 9 mixes with up to two failures, two arms, two additions, failed journal writes, two power failures, a recovery offset that moves on | 822,000 | a read never follows a redirect to a block that misses a write; what counts as redundant tolerates the failures it should |

### The bounds, and why they are enough

* Two rows: a band that is done, one that is being done, and the border between
  them.  On 2+1 → 3+1 two rows of the new geometry hold chunks of three old stripes,
  one of which straddles the frontier; that is the case `stripe_ahead_of_reshape`
  exists for.  The theorems hold for any number of rows.
* Two requests: properties of the gate relate one request to the sync thread; the
  second is there to write what the first reads.  Theorems: any set of requests.
* 2+1 → 2+2 moves every chunk to another member and raises m, so the tolerance is
  that of the old region; 3+1 → 2+1 reverses the walk.  2+1 → 3+1 leaves room in the
  last row (capacity with no old place).
* Two power failures: the second interrupts the recovery from the first.
* One failed member write, one abandoned band, one user write: each may fall at
  any point of the walk.
* Snapshots: two origin rows are one that is redirected and one that is not; four
  physical rows leave two free, so that one is freed and used again; two slots make a
  chain with an older and a newer snapshot.  `CowsMax` is 2, the least the code
  allows; the third row and the third request of `snap_ends` are what it takes to use
  up the copy slots, and its single spare row makes copies fail for want of space.
* One stripe with two requests: they overlap on a block, or one writes what the other
  one's read-modify-write reads.  Two data blocks tell an overwrite from a partial
  write and from no write; m = 2 and m = 3 take different check code.  Budgets do not
  combine a write error with a crash: what a superblock does not know yet is
  `RaidkmRow`'s `AckedIsRecorded`.
* A row of two stripes: one that is done and one that is not.
* The row map's two rows: one whose flush takes the other's state along.
* The snapshots' ring of four is passed by three redirects and a create, which also
  forces the checkpoint at half full.
* The declustered pool is the smallest with m = 2 and room for a chain of two
  assignments; failures of up to m disks.  `Losable` are two disks, which is what
  m tolerates; two rows are a border of the mark.
* The checksum cache: two blocks share a page, one is alone in the other; the discard
  covers one page in part and one whole.
* The log: two stripes share a log, the third has the other log that can be lost
  together with a data member of the first two; a unit holds one stripe of two
  parities, so that a second write waits in a unit of its own and the region has
  several headers.
* `MaxSector` = 99 stands for the type's largest value: beyond every chunk.

Deadlock is checked in `gate_grow` and `snap`.  It is not checked in `gate_shrink`,
where a request may sleep off the queue for good; in `reshape`, which ends finished,
parked, refused or with its bounds used up; nor in the others, whose systems are idle
once the budgets are spent (`parts` also enumerates).  What would be a deadlock there is
caught by the liveness properties of `snap_ends`, `stripe_wide` and `row`.

### Fairness

`RaidkmGate`: weak fairness of the sync thread once the reshape was asked for
(`StartDrain`, the administrator's command, is not fair) and of every step that
serves a request.  The sync thread is a kernel thread that waits on nothing but the
drain; a request's steps run in the submitting context or the stripe handler.  The
events `quiesce` waits for are disabled by nothing the waiter holds, so weak fairness
is enough.  Losing a member, submitting requests and failing bands are not fair.

`RaidkmReshape`: weak fairness of starting, of the sync thread, of the md core's
superblock writes (`MD_SB_CHANGE_DEVS` is set and `md_check_recovery` runs) and of
assembly, i.e. a machine that failed is started again.  Power failures, faults and
user writes are not fair.

`RaidkmSnap`: weak fairness of the array's answers, of the copy workers, of whoever
submits bios again, of the commit worker and of a command's steps once it was begun.
They are work items of queues with a rescuer (`WQ_MEM_RECLAIM`), completions, and one
thread under `sn->mutex`; each step waits at most for a condition in its guard.  User
bios, discards, commands and errors are not fair.

`RaidkmStripe`: weak fairness of the worker that takes stripes, of the members'
answers and of `raid5d`; strong fairness of a bio that sleeps on an overlap, which
`wait_event` and the wake-up at each `R5_Overlap` give it, and of a retried read that
`raid5d` keeps and tries again (`Join` or `RetryRead`).  `RaidkmRow`: weak fairness
of every request's own thread, of the pass, the quiesce and the superblock write;
strong fairness of a request that waits for a stripe, which is on a wait queue that
each release wakes.  The row lock itself has no queue: that a waiter gets a turn is the
work of its grace, which the run checks with an endless stream of row writes.

## 4. What is proved

`tlapm` checks `RaidkmGeometryLemmas`, `RaidkmGeometryProofs`, `RaidkmGateProofs`,
`RaidkmReshapeProofs`, `RaidkmSnapProofs`, `RaidkmSnapImages`, `RaidkmRowProofs` and
`RaidkmRowMapProofs`.
Every theorem is for all values of the constants that the named `ASSUME` of its module
allows; where more is assumed, it is a hypothesis of the theorem and named here.

**The gate.**  `GateInvariant`: `Spec => []GateInv`, for every set of requests, every
two geometries with m ≥ 1, any number of rows, any bounds, under

    Timely == ~SlowBypass /\ (SlowRecheck => ~Backwards)

which rules out exactly the two timings the table above lists for the gate; nothing
is assumed of `MayLose`, `DoneMayFail` and `LateArrival`.  `Exclusion`,
`ServedWhereItLives` and `WholeStripeAhead` are not inductive: each speaks of
requests on a stripe, and says nothing of a request that read the frontier long ago
and has yet to use it.  `GateInv` adds that: `FrontierShape` says where the two
frontiers stand in each phase of the walk (on band borders, one band apart while one
is claimed), and `RequestShape` follows a request from its first look to its bio:
a request sent to the new geometry stays behind the *safe* frontier for good; one sent
to the old geometry is re-checked against the claimed one, and from the drain on an
admitted old stripe is wholly beyond the band being moved.  The proof has one lemma
per action; the arithmetic of bands and stripes is in `BandBounds`, `WalkPlace`,
`ClaimPlace`, `AheadOfPassed`, and what it needs of the chunk map in
`RaidkmGeometryLemmas`.  `BandIsExclusive`, `RequestsServedWhereTheyLive` and
`StripesAreWhole` follow, for the specification itself.

**The gate implements the block device.**  `ReshapeIsInvisible`:
`Spec => IsBlockDevice` under `Timely` and `~DoneMayFail` (a DONE record no member takes
unclaims a band that has already gone home; the code accepts that, and the table of
section 5 says what it costs).  `GateInv` says who is on which row; what was missing is
`ContentInv`, on the contents: a band that was staged holds what its old rows hold
(`BandIsCopy`; nobody may write them then, which is `GateInv`'s part), a grown
chunk whose band has gone home reads zero until it is written (`GrownIsZero`), and an
admitted request carries the operation it was submitted with (`OpShape`).  The proof
reads the store through `PlaceOf(c)`, the cell a chunk is served in: distinct chunks
have distinct places at any moment (`PlacesDistinct`), and a write to one changes no
other (`WriteElsewhere`).  Every engine step is then a stutter (`ReshapeIsSilent`), and
`Perform` and the bypass are the abstract `Apply` at the instant of the bio.
`GrownCapacityReadsZero` comes out of the same invariant.

**The chunk map.**  The reshape engine's row is the stripe path's row
(`EngineAlwaysAgrees`), the walk never overwrites a chunk it has yet to read
(`NeverOverwritesUnread`), and `raid5_compute_blocknr` inverts
`raid5_compute_sector` on every data slot and answers 0 on every parity slot
(`BlocknrInverts`), for arrays of any width and length, not only the seven members TLC
enumerates.  `ComputeSectorInjective`, two chunks never share a cell, is the lemma the
gate's refinement rests on.

**The reshape's journal.**  `FrontierStays`: `Spec => FrontierNeverRetreats`, for any
geometries, rows, power failures, failed writes, abandoned bands and user writes, under

    Sober == /\ ~InitMayFail /\ ~LoneRecord /\ ~DegradedStart
             /\ \A r \in Reshapes : r.faults < r.new.n

(the three constants rule out cases of the table above; the last says that not every
member is lost).  `FaultLag` and `WritesAfterReplay` are free.  A record has a level, the
number of bands that are over once it is written; `FrontierInv` says that some `M` is the
level of the newest record a member still has (`Settled`), and where that leaves the
thread: the safe frontier is `M` bands on, or one less from the moment a first member
holds the band's COMMIT (`Standing`).  What keeps the newest record from being lost is
counting: the members that miss the last record are at most as many as writes failed
(`Few`), so one that holds it survives; and a torn write hits the slot the newest record
is not in, as `seq` alternates, or a member that was not the only one to hold it.  The
superblock's frontier may lag by any number of bands (`sb.rpos`), and is read only while
no member holds a record of a band.

**The reshape's contents.**  `ServesLast`, `Assembles` and `OnlyCopy`:
`Spec => []ServesLastWrite`, `[]AssemblySucceeds` and `[]NothingInFlightIsTheOnlyCopy`,
for any two geometries and any number of rows, user writes, power failures, torn writes
and abandoned bands, under

    Careful == /\ Sober /\ ~FaultLag /\ ~WritesAfterReplay
               /\ \A r \in Reshapes : /\ r.faults <= r.old.m /\ r.faults <= r.new.m
                                      /\ r.faults + 1 < r.new.n

The constants are findings of section 5 or cases of the table of section 3.  The two
first bounds say that an array beyond what it tolerates promises nothing.  The third
leaves two members, not one, without a failed write, and bites only where a single data
disk has as many failures as parities: if all members but one missed the DONE of a band,
a user writes to the band, and power fails in that one member's next STAGE, the COMMIT
is the newest record left and its replay undoes the write (TLC finds it for 2+1 → 1+1
with `Of(G21, [n |-> 2, m |-> 1, rot |-> TRUE], 1, 1, 1, 0)`); `raid_km.c:16424` again,
by another way.

The decoder comes first.  `Decodes`: when at most m slots of a row are missing and the
rest are one encoding, `Reconstruct` gives its data back -- there are k survivors to
decode from (`SurvivorsCount`, on `FirstOnes`), and a parity among them whenever a data
slot is missing (`ParityLeft`).

The invariant is `FrontInv(M) /\ ContentInv(M)` for one `M`, the bands that are over.
`OldSound`: the rows of the old geometry from `M` on are whole, and current in every
chunk the walk has not passed; while a first COMMIT is going out, so is the band it
names, since a power failure may still leave only its STAGE.  `NewSound`: the rows of
the new geometry before `M` are whole and current, but for the members of band `M - 1`
that are `Hot`: those a home loop or a replay has yet to reach.  `ScratchSound`: while any
member may be hot the scratch area holds that band, under the checksum its COMMIT
carries.  None of these holds without saying when a COMMIT is the newest record
(`Replayable`), and no write may reach the band from then on: the thread has claimed it,
or the band was replayed and `WritesAfterReplay` is off.  In a run without a crash it is
a count again that rules the replay out: at most as many members as writes failed are
behind the DONE (`Marks`).  A band that is read to be moved is what `OldSound` says
(`BandRead`), its home write goes to an old row that the walk has passed (`OldRowAhead`,
`OldOthers`), and a user write lands in one row, that of the geometry
it is served in (`ServedWhere`, `WriteKeeps`).  For `OnlyCopy`, `AssemblyFinds` says what
an assembly without the lost members would take for the newest record: one of level `M`,
or, while the first COMMIT is going out, the STAGE before it.

**The snapshots.**  Four inductive invariants, one on the other, with no hypothesis
beyond the two assumptions on the constants (`BioAssumption` says that a bio is not a
row).  `SnapInv` (`SnapInvHolds`) says what each job, the worker and a
command may be at (`CowShape`, `WorkerShape`, `CommandShape`) and that the count of
`raidkm_snap_io_begin` is the number of those between begin and end (`Count`).  From it,
no write of the origin is in flight when a create's record is written (`RecordIsQuiet`).
`OwnInv` (`OwnInvHolds`) gives each physical row to at most one of the free pool, the
origin's map, a snapshot's map and a copy in the making.  The commit worker changes two
maps one after the other, so the maps themselves do *not* satisfy this between the two;
the owners are `OHas`, `SHas` and `CHas`, which count an operation half done as done.
`RowHasOneOwner` is what is left of it at rest.  `ReadInv` adds the readers: a bio that
has looked its row up holds the row its image still has (`HandShape`), or is known to the
operation that takes it away.  A lookup walks the chain from its snapshot to the newest
and takes the first copy, or the origin's row; `LookupCases` and `LookupAgrees` replace the
walk by that description, and one lemma per map change (`ExceptionAgrees`,
`OriginAgrees`, `CreateAgrees`, `HandOverAgrees`, `UnlinkAgrees`) says that every other
image reads as before.  From it, `ReadersKeepTheRow`.

**The snapshots are images.**  `SnapshotsAreImages`: `Spec => IsSnapDevice`, for any number
of bios, rows, snapshots and copies, failed copies and failed commits included.  The three
invariants say who has a row; `DeviceInv` says what is in it.  `BufShape`: a copy has the
old row with its bio's write merged in, first in its buffer and then in the new row; a
write that slipped past the copy would show here, so a write in flight goes to a row of
the origin that no snapshot reads and no copy is about to move (`FlyShape`, `Settled`).
`RequestShape` ties a copy to one bio; `WaitShape` says that a bio that waits is in one
list, once, so that none is submitted twice; `RecordShape` that a record names no copy
that failed.  With the four (`Known`), one lemma per action
names the abstract step it is:

| step | abstract |
|---|---|
| `Perform` of a write | `EffectAndReply`: the row is mapped by the origin only (`Once`), so no image changes |
| `ApplyOrigin` | `Effect`: the origin's new row holds the old contents with the write merged |
| `FinishRedirect`; a copy or a commit that failed | `Reply`, with ok or with an error |
| `SubmitWrite` | `Begin`, or `Refuse` |
| `Perform` of a read, and what sends a new bio | `Forget` |
| `TrimRows`, and the end of a discard's piece | `Discard` |
| `ApplyCreate` | `Create`: nothing is under way (`RecordIsQuiet`), so the new image is the store |
| `ApplyDestroyLink` | `Destroy`: its rows were handed to the next older snapshot before (`HandOverShows`) |
| all others | a stutter: `ApplyException` and the hand-over move a row from one map to another, and every image still finds it |

**The row layer.**  `QuiesceWaitsForAll`: once `raid5_quiesce` returns, no bio is out, no
request and no pass is past its claim -- for all constants, with no hypothesis, the
timings of the findings included.  `QuiescedIsQuiet` alone is not inductive: the drain
looks at three counters in turn, held stripes, `active_aligned_reads` and
`row_writes`, and each is taken and given up elsewhere.  `QuiesceInv` says of every
request what it is `Counted` in: whoever may touch a member is in one of the three from
before its last look at `conf->quiesce` until after its last bio; a pass holds the
stripes of the row it claimed (`PassHolds`); and each bucket is the number of requests
that are in it (`BucketCounts`).  `Quiet` then says that what the drain has seen at
zero stays there, as the next to come sees the quiesce and backs out.  One lemma
(`…Keeps`) per action.

**The row's contents.**  `ReadsAreCurrent`, `RowsAreCodewords` and `AckedIsOnRecord`:
`Spec /\ []Careful => []RowReadsCurrent`, `[]RowIsOneCodeword` and `[]AckedIsRecorded`, for
every k and m, any number of stripes and requests, any mix of the budgets and every code
that is one.  What a code is, is an assumption on the constants: `CodeAssumption` says that
a parity is a block, that the parity of zeroes is zero, and that any k members' blocks
determine the data, which is what the Reed-Solomon matrices are for; TLC evaluates it for
the run's code.  `BudgetAssumption` says that no more is written than there are values of a
block, and that an array that is rebuilt did not crash.

    Careful == /\ dirty => \A s, i : Usable(s, i)
               /\ pass.stage = "claim" => \A s, i \in pass.members : Usable(s, i)
               /\ \A r : req[r].stage = "gen" /\ bucket.inflight = 0 =>
                    \A s \in req[r].todo, i \in req[r].src :
                      Usable(s, i) /\ no write of s that failed on i has yet to be noted

No member is lost, or gets a bad block, while the parity may be wrong after a crash: the
write hole, which needs a log (the clause is wider than it must be: a bad block alone does
no harm, as the write that left it has written the parity anew).  None while a pass has
looked at its members and not yet claimed the row (`raid_km.c:12179`, `12401`), nor while a
read has taken its members and not yet the generation (`11484`, `6834`).  TLC finds a
counterexample for each clause that is dropped, with two stripes and two requests:
`Bound(1,0,1,0,1,0,"none","torn")`, `Bound(1,0,0,0,1,0,"repair","clean")`, and, with two
parities, `Bound(1,0,1,0,1,0,"none","degraded")`.  Members may be lost and writes may
fail at any other time, before, during and after a pass, also on more members than the
parity covers; reads and passes may fail on a member, quiesces, rebuilds, resyncs, row writes,
degraded reads and the cache interleave as they like.

There are two layers.  `LockInv`, proved with no hypothesis (`LockInvHolds`), says who has
a stripe: its owner in the cache, the row write whose lock is taken and whose walk found the
stripe idle and dropped its pages (`Owner`, `Clean`), or the pass whose mark is on it and
bounces the others (`Marks`, `Bounced`); that the superblocks are right unless a change is
pending (`Recording`); and that a member a row write left out has not come back (`Missed`).

`ContentInv` says that there are two families of data, `o` and `c`, such that each stripe
holds `c`, and while it is written the members that have not got the new block hold that of
`o` (`StripeOk`).  It counts a member's block if it may be read, or has just been rebuilt
by a pass that has not passed the row yet (`Valid`), or a crash would read it: the
superblocks call it good, and nobody who knows better still waits to be answered (`Recorded`,
`Excused`).  A parity of the row that tore is let off until a pass has mended it
(`Plain`, `Mended`).  `PassOk` follows a pass: what it has read stands as long as it holds
the row, what it computed is `c`'s image, and the members it need not write have it.
`ReadOk` follows a degraded read: as long as the generation is the one it took, its sources
hold `c`, and so did they when it read them; if any write went by, or is on its way, the
generation or the count tells.  The three properties are read off it: on a settled stripe
`o` and `c` are one.  The values of `o` and `c` move in three steps only, when the cache
issues a write, when a row write goes out, and when either has landed.  One lemma (`…Data`)
per action or group of actions alike.

**The row map.**  `MapCovers`: `Init /\ [][Next]_vars /\ [][Careful]_vars =>
[]MapCoversLive`, for any number of members, rows, blocks and requests, any mix of the
budgets and both kinds of write.  `Careful` is about steps, as what must be excluded is one
event at a bad moment:

    Careful == /\ (\E i \in Members : LoseMember(i)) => Alike
               /\ (\E i \in InSync : pageOf[i].ok /\ ~pageOf'[i].ok) => Alike
               /\ (Crash /\ flush.stage = "write") => offset = 0
               /\ SeedPages => ~dirty

TLC finds a counterexample for each clause that is dropped, with one data disk, two rows
and one writer; each is a finding of section 5.  A member is lost, or its page torn by a
second power failure, while it alone has the newest page (`raid_km-rowmap.c:755`); a rebuild
goes on after a power failure with the page of a flush that was cut short (`:591`); and a
rebuild's pages differ from the others' of their generation (`:556`).  Members may be lost
during a flush, a flush may fail on some members or on all, discards take rows back to U, passes skip, a rebuild
is interrupted: none of that is excluded.

`MapCoversLive` compares the data with what a load would find *now*.  The invariant is
`IF broken THEN Lost ELSE RowMapInv`: once no member takes a page (`PageReachesNone`) no
write begins, no pass and no change of members, and `Lost` says that the pages stay as they
are until the assembly (`LostKeeps`, `LostFound`).  Until then `RowMapInv` says why a load
keeps finding the data.  `InMemory`: no row that has data, or a write on its way to it, is U in
memory; a discard that takes a row back has voided the writes it overtakes (`Voided`).
`Ahead`: a row in use in memory and U on disk keeps `need` ahead of `durable`, by what
`epoch` a flush has taken, in each of its stages.  A flush takes the epoch and then
the map, in two steps, and a row noted between them is counted in the next epoch although
this flush's page has it; the other way round would be a loss.  `Waited`: so who passed the
wait, or is parked with a sequence number that `raid5d` let through, writes to a row that is
on disk, and on the page that is being written.  `Copies`: the copies a load may look at
that are of one generation agree on what is U, and none is ahead of the
map's.  `Best` is the first slot that has the newest generation; `FirstOfNewest`,
`NewestFound` and `OnDiskIs` replace it by that description, and `Recovers` says of a
power failure, at whatever point of a flush (`NothingCut`, `CutAfterOne`, `CutBefore`), that
what the load finds has every row with data.

**Only model-checked.**  Liveness, which the prover does not do.
`RaidkmSnapMeta`, `RaidkmStripe`, `RaidkmDcl`, `RaidkmCsum`, `RaidkmPpl`, and what speaks
of contents in `RaidkmRowMap` (`TrustedRowsAreWhole`, `LiveIsRecoverable`).  Most of these hold
for the mixes of budgets that keep clear of the findings and fail for others, so a
theorem needs the hypothesis that rules those out and no more, as `Careful` does.  There is
no recursion in the modules under proof, as the prover loses its SMT backend there.

## 5. Disagreements met while modelling

Each is a finding in `PROJECT.json` with the lines of the comment it contradicts.  TLC
shows each of them; what to set to see it is given here.  `Bd` and `Bound` are the
budget constructors of the `MC` modules, to be put in place of the run's set.

| where | what | how |
|---|---|---|
| `raid_km.c:15019` | `range_ahead_of_reshape` is true of every stripe once `reshape_progress` is `MaxSector` and the walk is backwards, and `end_reshape` changes no generation: the second look of a request classified before passes after | `gate_shrink`, `SlowRecheck` |
| `raid_km.c:15608` | `raid5_make_request` decides once whether it is on `wait_for_reshape`, and asserts later that it is | `gate_grow`, `LateArrival` |
| `raid_km.c:15731` | a member that failed a scratch write is Faulty in memory only; after a power failure its slot is read and the array refuses to assemble | `reshape`, `FaultLag` |
| `raid_km.c:16424` | a replayed COMMIT is followed by no DONE record; a write to the band and another assembly replay over it | `reshape`, `WritesAfterReplay` |
| `raid_km.c:5391` | `R5_OVERWRITE` outlives the write that set it; a later partial write is drained onto a page that was never read | `stripe`, `RereadMayFail`, `Budgets <- Rewritten` (a copied overwrite, "over" in `WriteOps`) |
| `raid_km.c:12179` | a row pass looks at its members before it claims the row | `row`, `Bound(1,0,0,0,1,0,"repair","torn")` |
| `raid_km.c:11484`, `6834` | a degraded read takes its members before the generation; a failed write gives up the in-flight count before its bad block is noted | `row`, `Bound(1,0,1,0,1,0,"none","degraded")` with two parities |
| `raid_km-rowmap.c:755` | a page that one member only has is taken by the load and not written to the others | `rowmap`, `Bd(2,0,0,1,1,0,0,FALSE,FALSE,FALSE)`; torn, not lost: `MapK = 1`, one writer, `Bd(3,1,0,0,2,0,0,TRUE,FALSE,FALSE)` |
| `raid_km-rowmap.c:591` | a rebuild that is resumed past its start gets no pages, and its member keeps that of a flush cut short | `rowmap`, `MapK = 1`, one writer, `Bd(2,0,1,1,1,0,0,TRUE,FALSE,FALSE)` |
| `raid_km-rowmap.c:556` | a rebuild's pages are today's map under the generation of the last flush | the same, keeping to the other clauses of `Careful` (section 4) |
| `raid_km-rowmap.c:300` | a whole-row write's `W` reaches the disk with another row's flush before its bitmap bit | `rowmap`, `Bd(1,1,0,0,1,0,0,FALSE,TRUE,FALSE)` |
| `raid_km-rowmap.c:296` | the row is `W` while that write is on its way; a small write takes read-modify-write meanwhile | exempted in `LiveIsRecoverable` |
| `raid_km-snapmeta.c:847` | a header one member has is loaded and put nowhere else; the next checkpoint overwrites its predecessor | `snapmeta`, `Bd(1,0,0,1,0,2,2,1,0,FALSE)` |
| `raid_km-snapmeta.c:639` | a replayed record one member has is acted on before the settle | `snapmeta`, `Bd(1,1,1,1,0,0,2,1,0,FALSE)` |
| `raid_km-snapmeta.c:765` | a commit is answered before the failure of a member that missed it is recorded | `snapmeta`, `Bd(1,0,0,1,0,0,1,1,0,TRUE)` |
| `raid_km-dcl.c:912` | the first member's journal block goes out before the later members' caches are flushed | `dcl`, `Bd(1,1,1,1,0,1,TRUE,FALSE,FALSE)` |
| `raid_km-dcl.c:902` | two threads write the journal at once | `dcl`, `Bd(1,2,2,1,0,1,FALSE,FALSE,TRUE)` |
| `raid_km.c:20063` | an arm that failed on one member is rolled back in memory only | `dcl`, `Bd(1,1,1,1,1,1,FALSE,FALSE,FALSE)` |
| `raid_km.c:18381` | so is a copied band's mark | the same, the failure in a band |
| `raid_km-dcl.c:639` | the elected block is not written to the members that miss it | `dcl`, `Bd(1,2,1,1,0,2,FALSE,FALSE,FALSE)` |
| `raid_km-dcl.c:623` | a disk that is added again keeps its journal block, and the election takes it though the disk is not in sync | `dcl`, `[Bd(1,2,1,2,0,2,FALSE,FALSE,FALSE) EXCEPT !.stale = TRUE]` |
| `raid_km.c:12401` | a rebuild by rows picks its sources before it claims the row | `dcl`, `Bd(1,2,1,0,0,0,FALSE,TRUE,FALSE)`, `Losable = {0, 1, 3}` |
| `raid_km.c:3802` | a CRC that was evicted to disk before the discard's `PCLEAR` is not cleared there when its page comes back clean | `parts`, `Bd(2,1,0,0,0,"none",TRUE)` |
| `raid_km.c:14968` | a discard during a pass marks rows U and registers no range: the CRC of a racing write survives a power failure that its data does not | `parts`, `Bd(2,1,0,0,1,"dirty",FALSE)` |
| `raid_km.c:4015` | a repair or rebuild of a clean array leaves its CRCs in the cache under a clean superblock | `parts`, `Bd(1,0,0,0,1,"any",FALSE)` |
| `raid_km-ppl.c:317` | a unit is full when its size *equals* the space; where m does not divide the space it never does | `UnitsFit` with `M = 3`, `Q = 5`, `Coef3`, `EntrySpace = 4`, `RingPages = 12`, `Lg(2,0,0,0,FALSE,FALSE,FALSE)` |
| `raid_km-ppl.c:1417` | a walk that ends at the end of the region leaves the offset behind the newest unit; its partial parities are looked for there | `parts`, `RingPages = 3`, `Lg(1,1,1,0,FALSE,FALSE,FALSE)` |
| `raid_km-ppl.c:1279` | the recovery writes m parities and flushes one member before the log is emptied | `parts`, `Lg(1,1,2,0,FALSE,TRUE,FALSE)` |
| `raid_km-ppl.c:1272` | an entry that was skipped for want of a data member counts as recovered, and the array is set clean | `parts`, `Lg(1,1,1,0,FALSE,FALSE,TRUE)` |
| `raid_km-ppl.c:1679` | a stripe whose log is missing is written unlogged; another log's recovery sets the array clean | `parts`, `Stripes = {0, 2}`, `ParityAt <- ApartAt`, `Losable = {2}`, `Lg(2,1,1,0,FALSE,FALSE,TRUE)` |

The runs are green because their mixes keep clear of these; everything else they
combine is checked.

## 6. Not modelled, and the plan

Out of scope: Reed-Solomon arithmetic (an ideal code stands for it), sysfs and
parameter validation, the vendored md headers, the tests and tools.

The write-back journal (`raid_km-cache.c`, on a device of its own) is raid5's with small
changes, with its own space accounting and recovery, used only when the array was made
with one.  It is the largest part without a model, and next in line.  So are the
declustered reshape (16154–17094), a second engine that shares the journal of
`RaidkmReshape` and the map of `RaidkmDcl`, and the row layer's look-ahead window.

Proofs that remain to be done: the contents of `RaidkmStripe` (`UptodateIsCurrent`,
`BitClearMeansSettled`) and of `RaidkmRowMap` (`TrustedRowsAreWhole`), along the lines of
`RaidkmRow`'s `ContentInv`.

Runs are kept few: when a module is added, runs whose question another run comes to
ask as well are folded into it.
