----------------------------- MODULE RaidkmRowMap -----------------------------
(***************************************************************************)
(* The row state map: for every row of chunks whether it holds data and    *)
(* whether its parity may be trusted.                                      *)
(*   U  unwritten: passes skip it      N  written in part: every write is  *)
(*   W  an ordinary row                   a reconstruct-write              *)
(*   S  N while a pass that will make it W is over it                      *)
(* Rows leave U before the first write of them goes out, on disk; all      *)
(* other changes reach the disk when a page is flushed for some reason.    *)
(*                                                                         *)
(* Around the map: writes and discards, by stripes or by whole rows, the   *)
(* write-intent bitmap, the recovery that remembers what it skipped,       *)
(* resync and repair, members that fail or miss a page, and power          *)
(* failures with a page written to some members only.  One parity; rows    *)
(* of two stripes; the map is one page.                                    *)
(***************************************************************************)
EXTENDS Integers, FiniteSets, FiniteSetsExt, Functions

CONSTANTS
  MapK,           \* data members; member MapK holds the parity
  MapRows,        \* rows, 0..(n-1)
  MapBlocks,      \* the blocks of a stripe that small writes are to (bound)
  Writers,        \* request slots
  Nobody,         \* no owner
  MapBudgets      \* bounds, one of them in a behaviour

ASSUME MapAssumption ==
  /\ MapK \in Nat \ {0} /\ MapRows \in Nat \ {0} /\ Nobody \notin Writers
  /\ MapBlocks \subseteq 0..(MapK - 1)

Members == 0..MapK
MapData == 0..(MapK - 1)
P == MapK
Rows == 0..(MapRows - 1)
Stripes == Rows \X {0, 1}
Of(row) == {s \in Stripes : s[1] = row}
Modulus == 3                                  \* blocks are numbers below it
States == {"U", "N", "S", "W"}

VARIABLES
  disk,       \* [Stripes -> [Members -> block]]
  member,     \* [Members -> {"insync", "rebuilding", "faulty"}], as in the superblocks
  broken,     \* MD_BROKEN: no member takes anything, and no superblock says so
  offset,     \* rows of the rebuilding member that its recovery_offset covers
  pageOf,     \* [Members -> [gen, map, ok]]: the map's page on each member
  map, dirty, \* rm->map; the page changed since a flush took it
  need, epoch, durable, gen,
  lock,       \* who holds rm->lock between two stores
  recSkip,    \* rm->rec_skipped
  marked,     \* rm->pass_marked
  flush,      \* the flush under way, under flush_mutex
  seq,        \* conf->seq_flush and seq_write
  bm,         \* [Rows -> {"clean", "set", "disk"}]: the bitmap's bits
  due,        \* rows whose bit asks for a resync
  owner,      \* [Stripes -> who works on the stripe]
  req,        \* [Writers -> request]
  pass,       \* the sync pass
  live,       \* [Stripes -> [MapData -> SUBSET block]]: what the block may hold,
              \* {} if nothing was written there since a discard (history)
  wrote, budget

onDisk == <<disk, member, broken, offset, pageOf>>
core == <<map, dirty, need, epoch, durable, gen>>
bits == <<bm, due>>
vars == <<onDisk, core, lock, recSkip, marked, flush, seq, bits, owner, req, pass, live, wrote, budget>>

-----------------------------------------------------------------------------
(* Stripes and members. *)

Parity(d) == FoldFunction(+, 0, [j \in MapData |-> d[j]]) % Modulus
Present(i) == ~broken /\ member[i] # "faulty"
Degraded == \E i \in Members : member[i] # "insync"

\* Mutant: recovery_offset alone says.
InsyncByOffset(row, i) == member[i] = "insync" \/ (member[i] = "rebuilding" /\ row < offset)

\* In sync, or behind recovery_offset, or in a row that its recovery skipped.
Insync(row, i) ==
  \/ member[i] = "insync"
  \/ member[i] = "rebuilding" /\ (row < offset \/ row \in recSkip)
Missing(row) == {i \in Members : ~Insync(row, i)}

\* The data of a stripe: as it is on the members, the missing one's decoded.
View(s) ==
  LET gone == Missing(s[1])
      Sum(i) == FoldFunction(+, 0, [j \in MapData \ {i} |-> disk[s][j]])
  IN  [i \in MapData |-> IF i \in gone THEN (disk[s][P] - Sum(i) + MapK * Modulus) % Modulus
                                      ELSE disk[s][i]]
Whole(s) == disk[s][P] = Parity([i \in MapData |-> disk[s][i]])

NoRequest == [kind |-> "none", stage |-> "idle", row |-> 0, todo |-> {}, at |-> <<0, 0>>,
              blk |-> {}, val |-> 0, seq |-> 0, out |-> {}, image |-> <<>>, void |-> FALSE]
NoFlush == [stage |-> "idle", for |-> "none", page |-> <<>>, ok |-> FALSE, epoch |-> 0]
NoPass == [kind |-> "none", stage |-> "idle", row |-> 0, todo |-> {}, requested |-> FALSE]

Discarding(row) == \E r \in Writers : req[r].kind = "discard" /\ req[r].row = row
InFlight(row) == \E r \in Writers : req[r].row = row /\ req[r].stage \notin {"idle", "note", "need", "state"}

\* Mutant: any flush since will do, whether it is over or not.
MustWaitToBegin == need > epoch
\* The page is not on disk yet with the row's state (stripe_start, wait_row).
MustWait == need > durable

-----------------------------------------------------------------------------
(* The map and its lock: raidkm_rowmap_note_write, note_discard.           *)

\* A bio: a block of a row, a whole row, or a discard of a row.
Submit(r) ==
  /\ req[r].stage = "idle"
  /\ \E row \in Rows :
       \/ \E s \in Of(row), d \in MapBlocks :
            /\ budget.write > 0
            /\ budget' = [budget EXCEPT !.write = @ - 1]
            /\ req' = [req EXCEPT ![r] = [NoRequest EXCEPT !.kind = "write", !.stage = "note", !.row = row,
                         !.todo = {s}, !.blk = {d}, !.val = wrote + 1, !.void = Discarding(row)]]
            /\ wrote' = wrote + 1
       \/ /\ budget.rowwrite > 0
          /\ budget' = [budget EXCEPT !.rowwrite = @ - 1]
          /\ req' = [req EXCEPT ![r] = [NoRequest EXCEPT !.kind = "full", !.stage = "note", !.row = row,
                       !.todo = Of(row), !.blk = MapData, !.val = wrote + 1, !.void = Discarding(row)]]
          /\ wrote' = wrote + 1
       \/ /\ budget.discard > 0
          /\ budget' = [budget EXCEPT !.discard = @ - 1]
          /\ req' = [q \in Writers |->
               IF q = r THEN [NoRequest EXCEPT !.kind = "discard", !.stage = "note", !.row = row,
                                !.todo = Of(row), !.blk = MapData]
               ELSE IF req[q].row = row THEN [req[q] EXCEPT !.void = TRUE] ELSE req[q]]
          /\ UNCHANGED wrote
  /\ UNCHANGED <<onDisk, core, lock, recSkip, marked, flush, seq, bits, owner, pass, live>>

\* The look without the lock: no row to move, go on.
Moves(r) == map[req[r].row] = "U" \/ (req[r].kind = "full" /\ map[req[r].row] # "W")
NoteSame(r) ==
  /\ req[r].stage = "note" /\ req[r].kind # "discard" /\ ~Moves(r)
  /\ req' = [req EXCEPT ![r].stage = "route"]
  /\ UNCHANGED <<onDisk, core, lock, recSkip, marked, flush, seq, bits, owner, pass, live, wrote, budget>>

NoteLock(r) ==
  /\ req[r].stage = "note" /\ req[r].kind # "discard" /\ Moves(r) /\ lock = Nobody
  /\ lock' = r
  /\ req' = [req EXCEPT ![r].stage = "need"]
  /\ UNCHANGED <<onDisk, core, recSkip, marked, flush, seq, bits, owner, pass, live, wrote, budget>>

\* Under the lock, need[] first and then the state: others look without the lock.
NoteNeed(r) ==
  /\ req[r].stage = "need"
  /\ need' = IF map[req[r].row] = "U" THEN epoch + 1 ELSE need
  /\ req' = [req EXCEPT ![r].stage = "state"]
  /\ UNCHANGED <<onDisk, map, dirty, epoch, durable, gen, lock, recSkip, marked, flush, seq, bits,
                 owner, pass, live, wrote, budget>>

NoteState(r) ==
  /\ req[r].stage = "state"
  /\ IF Moves(r)
       THEN /\ map' = [map EXCEPT ![req[r].row] = IF req[r].kind = "full" THEN "W" ELSE "N"]
            /\ dirty' = TRUE
       ELSE UNCHANGED <<map, dirty>>
  /\ lock' = Nobody
  /\ req' = [req EXCEPT ![r].stage = "route"]
  /\ UNCHANGED <<onDisk, need, epoch, durable, gen, recSkip, marked, flush, seq, bits, owner, pass,
                 live, wrote, budget>>

\* A discarded row holds nothing any more; the members trim it if they can.
NoteDiscard(r) ==
  /\ req[r].stage = "note" /\ req[r].kind = "discard" /\ lock = Nobody
  /\ map' = [map EXCEPT ![req[r].row] = "U"]
  /\ dirty' = (dirty \/ map[req[r].row] # "U")
  /\ live' = [s \in Stripes |-> IF s[1] = req[r].row THEN [d \in MapData |-> {}] ELSE live[s]]
  /\ req' = [req EXCEPT ![r] = IF budget.trim THEN [@ EXCEPT !.stage = "route"] ELSE NoRequest]
  /\ UNCHANGED <<onDisk, need, epoch, durable, gen, lock, recSkip, marked, flush, seq, bits, owner,
                 pass, wrote, budget>>

-----------------------------------------------------------------------------
(* The stripe path and the row path.                                       *)

Set(row) == [bm EXCEPT ![row] = IF @ = "clean" THEN "set" ELSE @]

\* A whole row goes to the row layer when it is idle and no pass runs; else, and
\* anything else, to the stripe cache a stripe at a time.
RowGo(r) ==
  /\ req[r].stage = "route" /\ req[r].kind = "full"
  /\ pass.kind = "none" /\ ~broken /\ req[r].todo = Of(req[r].row)
  /\ \A s \in Of(req[r].row) : owner[s] = Nobody
  /\ owner' = [s \in Stripes |-> IF s[1] = req[r].row THEN r ELSE owner[s]]
  /\ bm' = Set(req[r].row)
  /\ req' = [req EXCEPT ![r].stage = "rowsubmit"]
  /\ UNCHANGED <<onDisk, core, lock, recSkip, marked, flush, seq, due, pass, live, wrote, budget>>

\* The bits first, then the map's page (raidkm_rowmap_wait_row flushes itself).
Unplugged == [row \in Rows |-> IF bm[row] = "set" THEN "disk" ELSE bm[row]]
RowUnplug(r) ==
  /\ req[r].stage = "rowsubmit"
  /\ bm' = Unplugged
  /\ req' = [req EXCEPT ![r].stage = "rowwait"]
  /\ UNCHANGED <<onDisk, core, lock, recSkip, marked, flush, seq, due, owner, pass, live, wrote, budget>>

\* A write of v to the blocks D of s is on its way to the members.
Begin(S, D, v, void) == live' = [s \in Stripes |-> [d \in MapData |->
  IF s \in S /\ d \in D /\ ~(void /\ live[s][d] = {})
    THEN live[s][d] \union {v} \union (IF live[s][d] = {} THEN {View(s)[d]} ELSE {}) ELSE live[s][d]]]
\* It has landed.
Landed(S, D, v, void) == live' = [s \in Stripes |-> [d \in MapData |->
  IF s \in S /\ d \in D /\ ~(void /\ live[s][d] = {}) THEN {v} ELSE live[s][d]]]

RowIssue(r) ==
  /\ req[r].stage = "rowwait" /\ ~MustWait /\ ~broken
  /\ Begin(Of(req[r].row), MapData, req[r].val, req[r].void)
  /\ req' = [req EXCEPT ![r].stage = "land", ![r].out = {i \in Members : Present(i)},
               ![r].image = [i \in Members |-> IF i = P THEN Parity([j \in MapData |-> req[r].val])
                                                        ELSE req[r].val]]
  /\ UNCHANGED <<onDisk, core, lock, recSkip, marked, flush, seq, bits, owner, pass, wrote, budget>>

\* Link a bio to a stripe: its bit is set, and the stripe waits for raid5d's next
\* round if the bit, or the map's page, is not on disk.
Attach(r) ==
  /\ req[r].stage = "route"
  /\ \E s \in req[r].todo :
       /\ owner[s] = Nobody /\ (req[r].kind = "full" => s[2] = Min({t[2] : t \in req[r].todo}))
       /\ owner' = [owner EXCEPT ![s] = r]
       /\ bm' = IF budget.bitmap THEN Set(s[1]) ELSE bm
       /\ LET parked == budget.bitmap \/ (req[r].kind # "discard" /\ MustWait)
          IN  req' = [req EXCEPT ![r].at = s, ![r].stage = "parked",
                                 ![r].seq = IF parked THEN seq.flush + 1 ELSE seq.write]
  /\ UNCHANGED <<onDisk, core, lock, recSkip, marked, flush, seq, due, pass, live, wrote, budget>>

\* The row's parity is trusted: only then is a read-modify-write right.
Trusted(row) == map[row] = "W" /\ due = {}

\* handle_stripe: what the new parity is made of.
Handle(r) ==
  LET s == req[r].at
      row == s[1]
      gone == Missing(row)
      old == View(s)
      v == IF req[r].kind = "discard" THEN 0 ELSE req[r].val
      new == [j \in MapData |-> IF j \in req[r].blk THEN v ELSE old[j]]
      Issue(p) == req' = [req EXCEPT ![r].stage = "land",
                            ![r].out = {i \in req[r].blk \union {P} : Present(i)},
                            ![r].image = [i \in Members |-> IF i = P THEN p ELSE new[i]]]
  IN  /\ req[r].stage = "parked" /\ req[r].seq <= seq.write /\ ~broken
      /\ \/ Issue(Parity(new))
         \/ /\ Trusted(row) /\ req[r].blk # MapData /\ (req[r].blk \union {P}) \intersect gone = {}
            /\ Issue((disk[s][P] + Parity(new) - Parity(old) + Modulus) % Modulus)
      /\ IF req[r].kind = "discard" THEN UNCHANGED live ELSE Begin({s}, req[r].blk, v, req[r].void)
      /\ UNCHANGED <<onDisk, core, lock, recSkip, marked, flush, seq, bits, owner, pass, wrote, budget>>

\* The bio, or its part of the stripes it has, is done.
Over(r) ==
  LET done == {s \in Stripes : owner[s] = r}
      left == req[r].todo \ done
  IN  /\ owner' = [s \in Stripes |-> IF s \in done THEN Nobody ELSE owner[s]]
      /\ req' = [req EXCEPT ![r] = IF left = {} THEN NoRequest
                      ELSE [@ EXCEPT !.todo = left, !.stage = "route", !.out = {}, !.image = <<>>]]

\* A member's block, or its whole chunk, lands; with the last one the stripe is done.
Land(r, i) ==
  /\ req[r].stage = "land" /\ i \in req[r].out
  /\ disk' = [s \in Stripes |-> IF owner[s] = r /\ Present(i)
                                  THEN [disk[s] EXCEPT ![i] = req[r].image[i]] ELSE disk[s]]
  /\ IF req[r].out # {i}
       THEN /\ req' = [req EXCEPT ![r].out = @ \ {i}]
            /\ UNCHANGED <<live, owner>>
       ELSE /\ IF req[r].kind = "discard" \/ broken THEN UNCHANGED live
               ELSE Landed({s \in Stripes : owner[s] = r}, req[r].blk, req[r].val, req[r].void)
            /\ Over(r)
  /\ UNCHANGED <<member, broken, offset, pageOf, core, lock, recSkip, marked, flush, seq, bits, pass, wrote, budget>>

\* On a broken array no member takes the write, and the bio is answered with an error.
Refuse(r) ==
  /\ broken
  /\ \/ req[r].stage = "parked" /\ req[r].seq <= seq.write
     \/ req[r].stage = "rowwait" /\ ~MustWait
  /\ Over(r)
  /\ UNCHANGED <<onDisk, core, lock, recSkip, marked, flush, seq, bits, pass, live, wrote, budget>>

-----------------------------------------------------------------------------
(* raidkm_rowmap_flush, and who calls it. *)

\* raid5d's round: parked stripes are there; the sequence number, the bitmap's bits,
\* then the page.  A failed flush leaves seq_write where it is.
Round ==
  /\ flush.stage = "idle"
  /\ \E r \in Writers : req[r].stage = "parked" /\ req[r].seq > seq.write
  /\ seq' = [seq EXCEPT !.flush = @ + 1]
  /\ bm' = Unplugged
  /\ flush' = [NoFlush EXCEPT !.stage = "snap", !.for = "round"]
  /\ UNCHANGED <<onDisk, core, lock, recSkip, marked, due, owner, req, pass, live, wrote, budget>>

\* The row layer's wait, the timer or sysfs, and a recovery about to start.
FlushFor(who) ==
  /\ flush.stage = "idle"
  /\ \/ who = "row" /\ \E r \in Writers : req[r].stage = "rowwait" /\ MustWait
     \/ who = "lazy" /\ dirty /\ budget.lazy
     \/ who = "seed" /\ pass.stage = "seed"
  /\ flush' = [NoFlush EXCEPT !.stage = "snap", !.for = who]
  /\ UNCHANGED <<onDisk, core, lock, recSkip, marked, seq, bits, owner, req, pass, live, wrote, budget>>

FlushSnap ==
  /\ flush.stage = "snap" /\ lock = Nobody
  /\ epoch' = epoch + 1
  /\ dirty' = FALSE
  /\ gen' = IF dirty THEN gen + 1 ELSE gen
  /\ flush' = [flush EXCEPT !.stage = IF dirty THEN "copy" ELSE "end", !.epoch = epoch + 1, !.ok = ~dirty]
  /\ UNCHANGED <<onDisk, map, need, durable, lock, recSkip, marked, seq, bits, owner, req, pass, live,
                 wrote, budget>>

\* The flush is over: a page that reached no member stays dirty and durable stays.
Finish(ok, left) ==
  /\ durable' = IF ok THEN flush.epoch ELSE durable
  /\ dirty' = (dirty \/ ~ok)
  /\ seq' = IF ok /\ flush.for = "round" THEN [seq EXCEPT !.write = seq.flush] ELSE seq
  /\ flush' = NoFlush
  /\ pass' = IF flush.for = "seed" /\ left.stage = "seed" THEN [left EXCEPT !.stage = "pages"] ELSE left
  /\ UNCHANGED <<disk, map, need, epoch, gen, lock, recSkip, bits, owner, req, live, wrote>>

FlushCopy ==
  /\ flush.stage = "copy" /\ lock = Nobody
  /\ flush' = [flush EXCEPT !.stage = "write", !.page = [gen |-> gen, map |-> map, ok |-> TRUE]]
  /\ UNCHANGED <<onDisk, core, lock, recSkip, marked, seq, bits, owner, req, pass, live, wrote, budget>>

\* The page goes to one member after the other; one that fails it is out of the array.
\* (Where a power failure can cut this short is in Crash.)
FlushEnd ==
  \/ /\ flush.stage = "end"
     /\ UNCHANGED <<pageOf, member, broken, offset, marked, budget>>
     /\ Finish(flush.ok, pass)
  \/ /\ flush.stage = "write"
     /\ pageOf' = [i \in Members |-> IF Present(i) THEN flush.page ELSE pageOf[i]]
     /\ UNCHANGED <<member, broken, offset, marked, budget>>
     /\ Finish(TRUE, pass)
  \/ /\ flush.stage = "write" /\ budget.lost > 0 /\ ~Degraded /\ ~broken
     /\ \E i \in Members :
          /\ pageOf' = [j \in Members |-> IF j # i THEN flush.page ELSE pageOf[j]]
          /\ member' = [member EXCEPT ![i] = "faulty"]
     /\ budget' = [budget EXCEPT !.lost = @ - 1]
     /\ offset' = 0 /\ marked' = FALSE
     /\ UNCHANGED broken
     /\ Finish(TRUE, NoPass)

\* Every member fails the page: nothing that waits for it goes out, and the page stays
\* dirty.  A retry finds no member to write to, which counts as done (FlushEnd).
PageReachesNone ==
  /\ flush.stage = "write" /\ budget.outages > 0 /\ ~Degraded /\ ~broken
  /\ budget' = [budget EXCEPT !.outages = @ - 1]
  /\ broken' = TRUE
  /\ marked' = FALSE
  /\ UNCHANGED <<member, offset, pageOf>>
  /\ Finish(FALSE, NoPass)

\* bitmap_daemon_work: nobody writes the row, nothing is missing, and no resync is due.
ClearBit(row) ==
  /\ bm[row] = "disk" /\ ~InFlight(row) /\ row \notin due /\ ~broken
  /\ \A i \in Members : member[i] = "insync"
  /\ bm' = [bm EXCEPT ![row] = "clean"]
  /\ UNCHANGED <<onDisk, core, lock, recSkip, marked, flush, seq, due, owner, req, pass, live, wrote, budget>>

-----------------------------------------------------------------------------
(* The passes: raidkm_rowmap_sync_skip, pass_end, rk_rm_seed.              *)

Convert(from, to) == [row \in Rows |-> IF map[row] = from THEN to ELSE map[row]]

StartRecovery ==
  /\ pass.kind = "none" /\ ~broken /\ \E i \in Members : member[i] = "rebuilding"
  /\ IF offset = 0
       THEN recSkip' = {} /\ pass' = [NoPass EXCEPT !.kind = "recover", !.stage = "seed"]
       ELSE UNCHANGED recSkip /\ pass' = [NoPass EXCEPT !.kind = "recover", !.stage = "row", !.row = offset]
  /\ UNCHANGED <<onDisk, core, lock, marked, flush, seq, bits, owner, req, live, wrote, budget>>

\* The member gets every page, whether or not it changed.
SeedPages ==
  /\ pass.stage = "pages" /\ flush.stage = "idle" /\ lock = Nobody
  /\ pageOf' = [i \in Members |-> IF member[i] = "rebuilding" THEN [gen |-> gen, map |-> map, ok |-> TRUE]
                                                              ELSE pageOf[i]]
  /\ pass' = [pass EXCEPT !.stage = "row"]
  /\ UNCHANGED <<disk, member, broken, offset, core, lock, recSkip, marked, flush, seq, bits, owner, req,
                 live, wrote, budget>>

\* A resync after a crash, or a repair that was asked for.
StartSync ==
  /\ pass.kind = "none" /\ ~Degraded /\ ~broken /\ lock = Nobody
  /\ \/ due # {} /\ pass' = [NoPass EXCEPT !.kind = "sync", !.stage = "row"] /\ UNCHANGED budget
     \/ /\ due = {} /\ budget.repairs > 0
        /\ budget' = [budget EXCEPT !.repairs = @ - 1]
        /\ pass' = [NoPass EXCEPT !.kind = "sync", !.stage = "row", !.requested = TRUE]
  /\ map' = IF marked THEN map ELSE Convert("N", "S")
  /\ marked' = TRUE
  /\ UNCHANGED <<onDisk, dirty, need, epoch, durable, gen, lock, recSkip, flush, seq, bits, owner, req,
                 live, wrote>>

\* One row: skipped, or its stripes are synced.  A recovery notes what it skips in
\* one piece with the look at the state.
PassRow ==
  LET row == pass.row
      skip == \/ map[row] = "U"
              \/ pass.kind = "sync" /\ budget.bitmap /\ ~pass.requested /\ row \notin due
  IN  /\ pass.stage = "row" /\ row \in Rows /\ lock = Nobody
      /\ recSkip' = IF skip /\ pass.kind = "recover" THEN recSkip \union {row} ELSE recSkip
      /\ pass' = IF skip THEN [pass EXCEPT !.row = @ + 1] ELSE [pass EXCEPT !.stage = "sync", !.todo = Of(row)]
      /\ UNCHANGED <<onDisk, core, lock, marked, flush, seq, bits, owner, req, live, wrote, budget>>

PassStripe ==
  /\ pass.stage = "sync"
  /\ \E s \in pass.todo :
       LET d == View(s)
           image == [i \in Members |-> IF i = P THEN Parity(d) ELSE d[i]]
           Writes(i) == IF pass.kind = "recover" THEN member[i] = "rebuilding" ELSE i = P
       IN  /\ owner[s] = Nobody
           /\ disk' = [disk EXCEPT ![s] = [i \in Members |-> IF Writes(i) THEN image[i] ELSE @[i]]]
           /\ pass' = IF pass.todo = {s} THEN [pass EXCEPT !.stage = "row", !.row = @ + 1, !.todo = {}]
                                         ELSE [pass EXCEPT !.todo = @ \ {s}]
  /\ UNCHANGED <<member, broken, offset, pageOf, core, lock, recSkip, marked, flush, seq, bits, owner, req,
                 live, wrote, budget>>

\* md records how far a recovery has come.
Checkpoint ==
  /\ pass.kind = "recover" /\ pass.stage = "row" /\ offset < pass.row
  /\ offset' = pass.row
  /\ UNCHANGED <<disk, member, broken, pageOf, core, lock, recSkip, marked, flush, seq, bits, owner, req, pass,
                 live, wrote, budget>>

\* Interrupted, the pass leaves its rows S and promises nothing.
Interrupt ==
  /\ budget.interrupts > 0 /\ pass.stage = "row" /\ pass.row \in Rows
  /\ budget' = [budget EXCEPT !.interrupts = @ - 1]
  /\ marked' = FALSE
  /\ offset' = IF pass.kind = "recover" THEN pass.row ELSE offset
  /\ pass' = NoPass
  /\ UNCHANGED <<disk, member, broken, pageOf, core, lock, recSkip, flush, seq, bits, owner, req, live, wrote>>

RecoveryEnd ==
  /\ pass.kind = "recover" /\ pass.stage = "row" /\ pass.row \notin Rows
  /\ member' = [i \in Members |-> IF member[i] = "rebuilding" THEN "insync" ELSE member[i]]
  /\ offset' = 0
  /\ pass' = NoPass
  /\ UNCHANGED <<disk, broken, pageOf, core, lock, recSkip, marked, flush, seq, bits, owner, req, live, wrote, budget>>

\* Mutant: a complete pass makes every row it marked an ordinary one.
SyncEndPromotes ==
  /\ pass.kind = "sync" /\ pass.stage = "row" /\ pass.row \notin Rows /\ lock = Nobody
  /\ marked' = FALSE
  /\ IF marked THEN map' = Convert("S", "W") /\ dirty' = TRUE ELSE UNCHANGED <<map, dirty>>
  /\ due' = {}
  /\ pass' = NoPass
  /\ UNCHANGED <<onDisk, need, epoch, durable, gen, lock, recSkip, flush, seq, bm, owner, req, live,
                 wrote, budget>>

\* Complete: a pass that went by the bitmap has not been in every row.
SyncEnd ==
  /\ pass.kind = "sync" /\ pass.stage = "row" /\ pass.row \notin Rows /\ lock = Nobody
  /\ marked' = FALSE
  /\ IF ~marked THEN UNCHANGED <<map, dirty>>
     ELSE IF budget.bitmap /\ ~pass.requested THEN map' = Convert("S", "N") /\ UNCHANGED dirty
     ELSE map' = Convert("S", "W") /\ dirty' = (dirty \/ \E row \in Rows : map[row] = "S")
  /\ due' = {}
  /\ pass' = NoPass
  /\ UNCHANGED <<onDisk, need, epoch, durable, gen, lock, recSkip, flush, seq, bm, owner, req, live,
                 wrote, budget>>

-----------------------------------------------------------------------------
(* Members come and go; the power fails; assembly. *)

LoseMember(i) ==
  /\ budget.lost > 0 /\ ~Degraded /\ ~broken /\ due = {}
  /\ budget' = [budget EXCEPT !.lost = @ - 1]
  /\ member' = [member EXCEPT ![i] = "faulty"]
  /\ offset' = 0
  /\ pass' = NoPass /\ marked' = FALSE
  /\ UNCHANGED <<disk, broken, pageOf, core, lock, recSkip, flush, seq, bits, owner, req, live, wrote>>

\* raid5_add_disk: with whatever is on it.
AddMember ==
  /\ ~broken
  /\ \E i \in Members : member[i] = "faulty" /\ member' = [member EXCEPT ![i] = "rebuilding"]
  /\ recSkip' = {}
  /\ offset' = 0
  /\ UNCHANGED <<disk, broken, pageOf, core, lock, marked, flush, seq, bits, owner, req, pass, live, wrote, budget>>

\* rk_rm_load: the newest good copy of the in-sync members, the first of them if copies
\* have the same generation; none and a damaged one, every row is N; all blank, every
\* row is U.
Best(pages) ==
  LET from == {i \in Members : member[i] = "insync"}
      good == {i \in from : pages[i].ok /\ pages[i].gen > 0}
      First(i) == \A j \in good : pages[j].gen < pages[i].gen \/ (pages[j].gen = pages[i].gen /\ i <= j)
  IN  IF good # {} THEN pages[CHOOSE i \in good : First(i)]
      ELSE IF \E i \in from : ~pages[i].ok THEN [gen |-> 0, map |-> [row \in Rows |-> "N"], ok |-> TRUE]
      ELSE [gen |-> 0, map |-> [row \in Rows |-> "U"], ok |-> TRUE]

\* A write in the air when the power fails over a degraded array, which no resync
\* follows, is the write hole: its stripe is lost.
Hole(s) == owner[s] \in Writers /\ req[owner[s]].stage = "land" /\ Degraded

Crash ==
  /\ budget.crashes > 0
  /\ budget' = [budget EXCEPT !.crashes = @ - 1]
  \* A page being written is on the members before the n-th, and torn on the n-th.
  /\ \E n \in 0..(MapK + 1), torn \in BOOLEAN :
       /\ n > 0 \/ torn => flush.stage = "write"
       /\ n <= MapK => (torn => Present(n))
       /\ torn => n <= MapK
       /\ pageOf' = [i \in Members |-> IF i < n /\ Present(i) THEN flush.page
                                       ELSE IF torn /\ i = n THEN [pageOf[i] EXCEPT !.ok = FALSE]
                                       ELSE pageOf[i]]
  /\ map' = Best(pageOf').map /\ gen' = Best(pageOf').gen
  /\ dirty' = FALSE /\ need' = 0 /\ epoch' = 0 /\ durable' = 0
  /\ lock' = Nobody /\ recSkip' = {} /\ marked' = FALSE
  /\ flush' = NoFlush /\ seq' = [flush |-> 0, write |-> 0]
  /\ due' = IF Degraded THEN {} ELSE IF budget.bitmap THEN due \union {row \in Rows : bm[row] = "disk"} ELSE Rows
  /\ bm' = [row \in Rows |-> IF bm[row] = "set" THEN "clean" ELSE bm[row]]
  /\ owner' = [s \in Stripes |-> Nobody]
  /\ req' = [r \in Writers |-> NoRequest]
  /\ pass' = NoPass
  /\ live' = [s \in Stripes |-> IF Hole(s) THEN [d \in MapData |-> {}] ELSE live[s]]
  \* Nothing recorded that the members were gone: they are in sync, and resynced.
  /\ broken' = FALSE
  /\ UNCHANGED <<disk, member, offset, wrote>>

-----------------------------------------------------------------------------

\* A new array: no row is used, and the parity on the members is anything.
Init ==
  /\ budget \in MapBudgets
  /\ disk = [s \in Stripes |-> [i \in Members |-> IF i = P THEN 1 ELSE 0]]
  /\ member = [i \in Members |-> "insync"] /\ broken = FALSE /\ offset = 0
  /\ pageOf = [i \in Members |-> [gen |-> 0, map |-> [row \in Rows |-> "U"], ok |-> TRUE]]
  /\ map = [row \in Rows |-> "U"] /\ dirty = FALSE
  /\ need = 0 /\ epoch = 0 /\ durable = 0 /\ gen = 0
  /\ lock = Nobody /\ recSkip = {} /\ marked = FALSE
  /\ flush = NoFlush /\ seq = [flush |-> 0, write |-> 0]
  /\ bm = [row \in Rows |-> "clean"] /\ due = {}
  /\ owner = [s \in Stripes |-> Nobody]
  /\ req = [r \in Writers |-> NoRequest]
  /\ pass = NoPass
  /\ live = [s \in Stripes |-> [d \in MapData |-> {}]]
  /\ wrote = 0

Serve(r) ==
  \/ Submit(r) \/ NoteSame(r) \/ NoteLock(r) \/ NoteNeed(r) \/ NoteState(r) \/ NoteDiscard(r)
  \/ RowGo(r) \/ RowUnplug(r) \/ RowIssue(r)
  \/ Attach(r) \/ Handle(r) \/ (\E i \in Members : Land(r, i)) \/ Refuse(r)
Flushing ==
  \/ Round \/ (\E who \in {"row", "lazy", "seed"} : FlushFor(who))
  \/ FlushSnap \/ FlushCopy \/ FlushEnd \/ PageReachesNone
Passing ==
  \/ StartRecovery \/ SeedPages \/ StartSync \/ PassRow \/ PassStripe
  \/ Checkpoint \/ Interrupt \/ RecoveryEnd \/ SyncEnd
Next ==
  \/ \E r \in Writers : Serve(r)
  \/ Flushing \/ Passing
  \/ \E row \in Rows : ClearBit(row)
  \/ \E i \in Members : LoseMember(i)
  \/ AddMember \/ Crash

Spec == Init /\ [][Next]_vars

-----------------------------------------------------------------------------
(* Properties. *)

Landing(s) == owner[s] \in Writers /\ req[owner[s]].stage = "land"

\* An assembly that comes now finds no row unused that holds data: the first write of
\* a row went out after a page that says so was on the members, whoever moved the row
\* and whatever flush took the page (note_write, stripe_start, wait_row, the load).
MapCoversLive ==
  \A s \in Stripes, d \in MapData : live[s][d] # {} => Best(pageOf).map[s[1]] # "U"

\* The parity of a row that the map trusts is right, in every stripe of it, unless a
\* resync is still due: N, S and W change hands between writes, discards, passes
\* that skip, are interrupted or go by the bitmap, and assemblies.
TrustedRowsAreWhole ==
  \A s \in Stripes :
    (map[s[1]] = "W" /\ s[1] \notin due /\ Missing(s[1]) = {} /\ ~Landing(s)
       /\ ~broken /\ ~\E r \in Writers : req[r].kind = "full" /\ req[r].row = s[1])
      => Whole(s)

\* What was written last is there, on its member or decoded without the missing one;
\* and while none is missing the stripe's parity would give back any of them.  (Not
\* while a whole-row write of the row is on its way: the row is W from the moment
\* the bio came in, whatever its parity still is.)
LiveIsRecoverable ==
  \A s \in Stripes :
    (~Landing(s) /\ s[1] \notin due /\ ~broken /\ ~\E r \in Writers : req[r].kind = "full" /\ req[r].row = s[1]) =>
      /\ \A d \in MapData : live[s][d] # {} => View(s)[d] \in live[s][d]
      /\ (Missing(s[1]) = {} /\ \E d \in MapData : live[s][d] # {}) => Whole(s)
=============================================================================
