---------------------------- MODULE RaidkmStripe ----------------------------
(***************************************************************************)
(* One stripe of the stripe cache: K data blocks, M parities, and the      *)
(* handler that fills, drains, checks and writes them.                     *)
(*                                                                         *)
(* A stripe is routed to a list when its last reference goes, taken by a   *)
(* worker, and handled in one step: handle_stripe reads the flags, decides *)
(* (fill, dirty, check, heal), runs the asynchronous operations and issues *)
(* the I/O.  Whatever is in flight holds a reference, so that the next     *)
(* handling starts when the last I/O has ended; only raid5d, with a read   *)
(* that failed past the stripe, handles one with I/O in flight.  An        *)
(* overwrite may lend its bio's page to the slot for as long as it lasts   *)
(* (skip_copy) or be copied into the slot's own.  Around it go requests    *)
(* that overlap and sleep, the write-intent bitmap's two-step flush, the   *)
(* superblock update that parks every stripe, latent read errors, write    *)
(* errors and bad blocks, members that fail, are replaced and rebuilt,     *)
(* resync, check and repair, and a crash.                                  *)
(*                                                                         *)
(* A block holds a number below the prime Q and the code is linear over    *)
(* it: any K blocks of a codeword determine it, and a delta update of a    *)
(* parity is the arithmetic the code does.  A partial write maps a block's *)
(* contents (the bytes around it stay); two bios for one block overlap.    *)
(*                                                                         *)
(* Not here: the journal and PPL, native checksums, whole-row I/O,         *)
(* discard, stripe batches, replacement devices and the reshape flags.     *)
(***************************************************************************)
EXTENDS Integers, FiniteSets, FiniteSetsExt, Functions, TLC

CONSTANTS
  K, M,           \* data and parity blocks of a stripe
  Q,              \* a prime: block contents are 0..Q-1
  Coef,           \* [0..M-1 -> [0..K-1 -> 0..Q-1]], the rows of the encoding matrix
  Requests,       \* request slots
  SyncRequests,   \* those whose bios carry REQ_SYNC
  None,           \* no request
  RmwLevel,       \* conf->rmw_level: 0 reconstruct only, 1 cheapest, 2 prefer rmw
  Budgets,        \* bounds, one of them in a behaviour:
                  \* [writes, reads, retries, lost, media, wfaults, passes, crashes]
  Passes,         \* the passes that may run
  WriteOps,       \* the kinds of write: "part" of a block, "over" all of it by a copy,
                  \* "lend" all of it by one aligned page under conf->skip_copy
  RereadMayFail   \* a block may stay unreadable after it was rewritten

Disks == 0..(K + M - 1)
Data == 0..(K - 1)
Parity == K..(K + M - 1)
Block == 0..(Q - 1)
Garbage == 0            \* what a page holds that was never read

ASSUME CodeAssumption ==
  /\ K \in Nat \ {0} /\ M \in Nat \ {0} /\ Q \in Nat \ {0}
  /\ Coef \in [0..(M - 1) -> [Data -> Block]]
  /\ RmwLevel \in 0..2
  /\ None \notin Requests
  /\ SyncRequests \subseteq Requests
  /\ WriteOps \subseteq {"part", "over", "lend"}

VARIABLES
  sh,        \* the stripe_head: state bits, per-device flags, pages, bios
  io,        \* [Disks -> {"none", "read", "write"}]: bios at the members
  disk,      \* [Disks -> Block]: the members' blocks
  media,     \* [Disks -> {"good", "bad"}]: can the block be read
  member,    \* [Disks -> state of the member]
  bad,       \* the members whose block is in their bad-block list
  wes,       \* the members with WriteErrorSeen
  pending,   \* MD_SB_CHANGE_PENDING
  onSb,      \* what the superblocks record: [member, bad]
  bm,        \* the bitmap chunk: [disk, needed, resync, flushing, full]
  dirty,     \* recovery_cp is at or below the stripe
  pass,      \* the sync pass: [kind, stage, ok, tell]
  req,       \* [Requests -> request]
  logical,   \* [Data -> Block]: what was written last (history)
  doubt,     \* the blocks whose last write failed (history)
  budget,    \* what may still happen
  halted     \* the array was refused at assembly: dirty and degraded

cache == <<sh, io>>
members == <<disk, media, member, bad, wes>>
metadata == <<pending, onSb, bm, dirty, pass>>
history == <<logical, doubt>>
vars == <<cache, members, metadata, req, history, budget, halted>>

-----------------------------------------------------------------------------
(* The code.  Codeword(d) is what the members hold for data d; Solve is the *)
(* decode from K blocks; a delta update adds what a data block changed by.  *)

Encode(p, d) == FoldFunction(+, 0, [j \in Data |-> Coef[p - K][j] * d[j]]) % Q

Codeword(d) == [i \in Disks |-> IF i \in Data THEN d[i] ELSE Encode(i, d)]

Solve(page, src) ==
  CHOOSE d \in [Data -> Block] : \A i \in src : Codeword(d)[i] = page[i]

Delta(old, new, S) == [j \in Data |-> IF j \in S THEN new[j] - old[j] ELSE 0]

\* A partial write maps a block, an overwrite replaces it.
Merge(op, v) == IF op = "part" THEN (v + 1) % Q ELSE Q - 1

-----------------------------------------------------------------------------
(* The stripe record.  Sets of slots stand for the per-device flags; the   *)
(* last line holds what one handling collects for its own later stages.    *)

Lists == {"inactive", "handle", "delayed", "bitmap", "none"}

NoFlags ==
  [uptodate |-> {}, locked |-> {}, overwrite |-> {}, skipcopy |-> {}, overlap |-> {},
   readerr |-> {}, rewrite |-> {}, nomerge |-> {}, writeerr |-> {}, madegood |-> {}]
NoState ==
  [handle |-> FALSE, delayed |-> FALSE, preread |-> FALSE,
   syncReq |-> FALSE, syncing |-> FALSE, insync |-> FALSE, replaced |-> FALSE,
   bitDelay |-> "none", check |-> "idle", recon |-> "idle", mismatch |-> {}]
NoBios ==
  [toread |-> [i \in Data |-> None], towrite |-> [i \in Data |-> None],
   written |-> [i \in Data |-> None]]
NoWants ==
  [fill |-> {}, compute |-> {}, wantread |-> {}, wantwrite |-> {}, drain |-> {},
   prexor |-> FALSE, verify |-> FALSE, ended |-> {}, erred |-> {}, endwrite |-> FALSE,
   told |-> "none", mark |-> {}, skip |-> {}, full |-> FALSE]

FreshStripe ==
  NoFlags @@ NoState @@ NoBios @@ NoWants @@ [list |-> "inactive", hold |-> FALSE,
                                            page |-> [i \in Disks |-> Garbage]]

Bios(f) == {i \in Data : f[i] # None}
ToRead(t) == Bios(t.toread) \ t.fill
ToWrite(t) == Bios(t.towrite)
Written(t) == Bios(t.written)
InFlight == {i \in Disks : io[i] # "none"}

\* Mutant: a stripe that waits for its bitmap bit is handled at once.
RouteUnflushed(t) ==
  LET h == t.handle \/ t.syncReq
      routed == [t EXCEPT !.handle = h]
  IN  IF ~h THEN [routed EXCEPT !.preread = FALSE, !.list = "inactive"]
      ELSE IF t.delayed /\ ~t.preread /\ ~t.syncReq /\ ~t.syncing
        THEN [routed EXCEPT !.list = "delayed"]
      ELSE [routed EXCEPT !.delayed = FALSE, !.bitDelay = "none", !.list = "handle"]

\* raid_km.c do_release_stripe: where a stripe goes when its last reference drops.
Route(t) ==
  LET h == t.handle \/ t.syncReq
      routed == [t EXCEPT !.handle = h]
  IN  IF ~h THEN [routed EXCEPT !.preread = FALSE, !.list = "inactive"]
      ELSE IF t.delayed /\ ~t.preread /\ ~t.syncReq /\ ~t.syncing
        THEN [routed EXCEPT !.list = "delayed"]
      ELSE IF t.bitDelay \in {"next", "now"} THEN [routed EXCEPT !.list = "bitmap"]
      ELSE [routed EXCEPT !.delayed = FALSE, !.bitDelay = "none", !.list = "handle"]

\* A page lent by a write's bio goes back to it: the slot has its own again, and
\* nothing in it.
Unlend(t, S) ==
  [t EXCEPT !.skipcopy = @ \ S,
            !.page = [i \in Disks |-> IF i \in S \intersect t.skipcopy THEN Garbage ELSE @[i]]]

\* A get and the put that follows it; a stripe in use is routed by its user.
Put(t) == IF t.hold \/ InFlight # {} THEN t ELSE Route(t)

-----------------------------------------------------------------------------
(* Members.                                                                *)

Present(i) == member[i] \in {"insync", "rebuilding", "ahead"}
OutOfSync == {i \in Disks : member[i] # "insync"}
Degraded == Cardinality(OutOfSync)          \* mddev->degraded
StillDegraded == \E i \in Disks : ~Present(i)

\* raid5_error: the member is out; the superblocks must say so before any
\* stripe goes on, and a running pass is interrupted.
Without(S) == [i \in Disks |-> IF i \notin S THEN member[i]
                               ELSE IF member[i] = "insync" THEN "faulty" ELSE "gone"]
MarkFaulty(S) ==
  /\ member' = Without(S)
  /\ pending' = (pending \/ S # {})
  /\ pass' = IF S # {} THEN [pass EXCEPT !.ok = FALSE] ELSE pass

-----------------------------------------------------------------------------
(* handle_stripe, stage by stage.  Every stage maps the record; "a" is the *)
(* analysis the handler takes first and does not take again.               *)

\* The entry: a requested sync begins.
Enter(t) ==
  LET u == [t EXCEPT !.handle = FALSE, !.delayed = FALSE]
  IN  IF t.syncReq
        THEN [u EXCEPT !.syncReq = FALSE, !.syncing = TRUE, !.insync = FALSE, !.replaced = FALSE]
        ELSE u

\* analyse_stripe, the flags: which blocks count as in sync.
Sound(t, i) ==
  /\ Present(i)
  /\ i \notin t.writeerr
  /\ IF i \in bad THEN i \notin wes /\ i \in t.uptodate
                  ELSE member[i] \in {"insync", "ahead"}
Unrepaired(t) == t.readerr \union ((bad \ wes) \intersect t.uptodate)

Analyse(t) ==
  LET sound == {i \in Disks : Sound(t, i)}
  IN  [t EXCEPT !.readerr = Unrepaired(t) \intersect sound,
                !.rewrite = @ \intersect sound,
                !.writeerr = {i \in @ : Present(i)},
                !.madegood = {i \in @ : Present(i)},
                !.fill = t.uptodate \intersect Bios(t.toread)]

\* analyse_stripe, the verdicts.
Analysis(t) ==
  LET ok == {i \in Disks : Sound(t, i)} \ Unrepaired(t)
      recovering == \E i \in Disks \ ok : Present(i)
  IN  [ok |-> ok,
       failed |-> Disks \ ok,
       resync |-> recovering \/ dirty \/ pass.kind \in {"check", "repair"}]

Failing(a) == Cardinality(a.failed) > M
Syncing(t, a) == t.syncing /\ a.resync
Replacing(t, a) == t.syncing /\ ~a.resync

\* A bad block to note, or a superblock to write first: nothing else is done.
Parked(t) == t.writeerr # {} \/ t.madegood # {} \/ pending

\* handle_failed_stripe and handle_failed_sync: more blocks are gone than the
\* parity covers.  Writes fail, reads of lost blocks fail, the sync gives up.
HandleFailed(t, a) ==
  LET busy == ToRead(t) \union ToWrite(t) \union Written(t) # {}
      lost == (ToRead(t) \intersect (a.failed \union t.readerr))
      f == IF ~busy THEN t
           ELSE [Unlend(t, Data) EXCEPT
                  !.erred = @ \union {t.towrite[i] : i \in ToWrite(t)}
                              \union {t.written[i] : i \in Written(t)}
                              \union {t.toread[i] : i \in lost},
                  !.endwrite = ToWrite(t) \union Written(t) # {},
                  !.towrite = [i \in Data |-> None],
                  !.written = [i \in Data |-> None],
                  !.toread = [i \in Data |-> IF i \in lost THEN None ELSE @[i]],
                  !.mark = {i \in t.readerr : member[i] = "insync"},
                  !.overlap = {}, !.locked = {}]
      rebuilding == {i \in OutOfSync : Present(i)}
      recover == pass.kind = "recover"
  IN  IF ~t.syncing THEN f
      ELSE [f EXCEPT !.syncing = FALSE, !.overlap = @ \ {K},
                     !.skip = IF recover THEN rebuilding ELSE {},
                     !.told = IF recover /\ t.full THEN "abort" ELSE "ok"]

Fail(t, a) ==
  IF Failing(a) THEN HandleFailed([t EXCEPT !.check = "idle", !.recon = "idle"], a) ELSE t

\* A finished reconstruction: write the drained blocks and every parity.
ReconstructDone(t, a) ==
  LET out == {i \in t.locked : i \in Parity \/ i \in Written(t)}
      shows == {i \in out : i \notin a.ok \/ (i \in Parity /\ a.failed = {})}
  IN  IF t.recon = "idle" THEN t
      ELSE [t EXCEPT !.recon = "idle", !.wantwrite = out, !.preread = FALSE,
                     !.insync = @ \/ (/\ t.recon = "drain"
                                      /\ Cardinality(a.failed) <= 1
                                      /\ shows # {})]

\* intermediate_parity_writes_done and the outer parities: each is written or gone.
ParityDone(t, a) == \A p \in Parity \intersect a.ok : p \notin t.locked /\ p \in t.uptodate

\* handle_stripe_clean_event: the writes whose blocks are down end.
CleanEvent(t, a) ==
  LET down == {i \in Written(t) : i \notin t.locked /\ i \in t.uptodate \union t.skipcopy}
  IN  IF down = {} \/ ~ParityDone(t, a) THEN t
      ELSE [Unlend(t, down) EXCEPT
                     !.ended = @ \union {t.written[i] : i \in down},
                     !.endwrite = TRUE,
                     !.written = [i \in Data |-> IF i \in down THEN None ELSE @[i]]]

\* need_this_block: must the cache hold block i before the stripe can go on?
Covered(t, i) == i \in ToWrite(t) /\ i \in t.overwrite
NeedForDegradedWrite(t, a, i) ==
  LET f == CHOOSE x \in a.failed : TRUE
      partial == f \in Data /\ f \in ToWrite(t) /\ ~Covered(t, f)
      lostData == f \notin {K, K + M - 1} /\ f \notin t.overwrite
  IN  IF Cardinality(a.failed) >= 2
        THEN /\ \E x \in a.failed \intersect Data : ~Covered(t, x)
             /\ i \in a.ok \/ (i \in Data /\ ~Covered(t, i))
        ELSE /\ i \notin a.ok \/ t.preread
             /\ f \notin t.uptodate
             /\ partial \/ ((RmwLevel = 0 \/ dirty) /\ lostData)
Wanted(t, a, i) ==
     \/ i \in Data /\ (t.toread[i] # None \/ (i \in ToWrite(t) /\ i \notin t.overwrite))
     \/ Syncing(t, a)
     \/ a.failed \intersect Bios(t.toread) # {}
     \/ a.failed # {} /\ ToWrite(t) # {} /\ NeedForDegradedWrite(t, a, i)

\* Mutant: a page that is still lent to a write is filled like any other.
NeedThisLent(t, a, i) == i \notin t.locked \union t.uptodate /\ Wanted(t, a, i)

NeedThisBlock(t, a, i) ==
  i \notin t.locked \union t.uptodate \union t.skipcopy /\ Wanted(t, a, i)

\* fetch_block: the lost blocks a decode would yield from what the cache holds.
DecodeTargets(t, a) ==
  LET data == {j \in Data \ a.ok : j \notin t.uptodate \union t.locked \union t.skipcopy}
      fresh == {p \in Parity \intersect t.readerr :
                  /\ M = 2 /\ Syncing(t, a) /\ Present(p)
                  /\ p \notin t.uptodate \union t.locked}
  IN  IF Cardinality(t.uptodate) < K \/ Failing(a) THEN {}
      ELSE IF Data \subseteq t.uptodate \union data THEN data \union fresh ELSE data

\* handle_stripe_fill: from the highest slot down, read a needed block that is in
\* sync; the first lost one that can be decoded ends the scan.
Fill(t, a) ==
  LET needed == {i \in Disks : NeedThisBlock(t, a, i)}
      targets == DecodeTargets(t, a)
      top == IF targets = {} THEN {} ELSE needed \ a.ok
      reads == {i \in needed \intersect a.ok : \A x \in top : x < i}
      asked == \/ ToRead(t) # {}
               \/ \E i \in ToWrite(t) : i \notin t.overwrite
               \/ ToWrite(t) # {} /\ a.failed # {}
               \/ Syncing(t, a) /\ t.uptodate # Disks
               \/ Replacing(t, a)
  IN  IF ~asked THEN t
      ELSE IF t.check # "idle" \/ t.recon # "idle" THEN [t EXCEPT !.handle = TRUE]
      ELSE [t EXCEPT !.handle = TRUE,
                     !.locked = @ \union reads, !.wantread = reads,
                     !.compute = IF top = {} THEN {} ELSE targets]

\* schedule_reconstruction: which blocks are drained, and how the parity follows.
Schedule(t, rcw) ==
  LET avail == t.uptodate \union t.compute
      drain == IF rcw THEN ToWrite(t) ELSE ToWrite(t) \intersect avail
  IN  IF drain = {} /\ t.locked = {} THEN t
      ELSE [t EXCEPT !.locked = @ \union drain \union Parity,
                     !.uptodate = @ \ (drain \union Parity),
                     !.drain = drain, !.prexor = ~rcw,
                     !.recon = IF rcw THEN "drain" ELSE "prexor"]

\* handle_stripe_dirtying: read-modify-write or reconstruct, whichever reads less.
Missing(t, S) == {i \in S : i \notin t.locked \union t.uptodate \union t.compute}
Cost(S, a) == Cardinality(S \intersect a.ok) + 2 * (K + M) * Cardinality(S \ a.ok)
Preread(t, S, a) ==
  LET reads == IF t.preread THEN (S \intersect a.ok) \ t.skipcopy ELSE {}
  IN  [t EXCEPT !.locked = @ \union reads, !.wantread = @ \union reads]

Dirtying(t, a) ==
  LET forRmw == Missing(t, ToWrite(t) \union Parity)
      forRcw == Missing(t, Data \ t.overwrite)
      forced == RmwLevel = 0 \/ (dirty /\ a.failed = {})
      rmw == IF forced THEN 2 ELSE Cost(forRmw, a)
      rcw == IF forced THEN 1 ELSE Cost(forRcw, a)
      byRmw == rmw > 0 /\ (rmw < rcw \/ (rmw = rcw /\ RmwLevel = 2))
      byRcw == rcw > 0 /\ (rcw < rmw \/ (rcw = rmw /\ RmwLevel # 2))
      rcwLeft == IF byRcw THEN Cardinality(forRcw) ELSE rcw
      u == IF byRmw THEN Preread(t, forRmw, a)
           ELSE IF byRcw THEN Preread(t, forRcw, a) ELSE t
      readable == IF t.preread THEN a.ok \ t.skipcopy ELSE {}
      waits == \/ byRmw /\ (forRmw \intersect a.ok) \ readable # {}
               \/ byRcw /\ forRcw \ readable # {}
               \/ ~t.preread /\ rcwLeft > K + M /\ rmw > K + M
      regrant == /\ t.delayed \/ waits
                 /\ ~t.preread
                 /\ \E i \in ToWrite(t) : t.towrite[i] \in SyncRequests
      v == [u EXCEPT !.handle = TRUE,
                     !.delayed = (@ \/ waits) /\ ~regrant,
                     !.preread = @ \/ regrant]
      undecodable == /\ Cardinality(a.failed) >= 2
                     /\ \E j \in Data : j \notin a.ok \union t.uptodate /\ ~Covered(t, j)
  IN  IF \/ undecodable \/ t.compute # {} \/ v.locked # {}
         \/ (rcwLeft # 0 /\ rmw # 0) \/ t.bitDelay # "none"
        THEN v
        ELSE Schedule(v, rcwLeft = 0)
Dirty(t, a) ==
  IF ToWrite(t) # {} /\ t.recon = "idle" /\ t.check = "idle" THEN Dirtying(t, a) ELSE t

\* handle_parity_checks6.  A member that is being rebuilt gets its block,
\* whatever the parity says; otherwise the parities are compared.
DataHeld(t) == Data \subseteq t.uptodate
Rewrite(t, S) ==
  [t EXCEPT !.locked = @ \union S, !.wantwrite = @ \union S,
            !.insync = TRUE]

RebuildBlocks(t, a) ==
  LET targets == {i \in OutOfSync : Present(i)}
  IN  IF Failing(a) THEN [t EXCEPT !.insync = TRUE]
      ELSE IF ~DataHeld(t) THEN t
      ELSE Rewrite([t EXCEPT !.page = [i \in Disks |->
                               IF i \in (targets \intersect Parity) \ t.uptodate
                                 THEN Encode(i, @) ELSE @[i]],
                             !.uptodate = @ \union (targets \intersect Parity)],
                   {i \in targets : i \in t.uptodate \union Parity})

\* Mutant: a resync compares and repairs nothing.
CheckManyOnly(t, a) ==
  IF t.check = "idle"
    THEN IF Failing(a) THEN [t EXCEPT !.insync = TRUE]
         ELSE IF DataHeld(t) THEN [t EXCEPT !.verify = TRUE] ELSE t
    ELSE [t EXCEPT !.check = "idle", !.insync = TRUE]

\* More than two parities: all are checked at once, and repaired as they are checked.
CheckMany(t, a) ==
  IF t.check = "idle"
    THEN IF Failing(a) THEN [t EXCEPT !.insync = TRUE]
         ELSE IF DataHeld(t) THEN [t EXCEPT !.verify = TRUE] ELSE t
    ELSE LET done == [t EXCEPT !.check = "idle"]
         IN  IF t.insync THEN done
             ELSE IF t.mismatch = {} \/ pass.kind = "check" THEN [done EXCEPT !.insync = TRUE]
             ELSE Rewrite([done EXCEPT !.rewrite = @ \union (t.mismatch \intersect t.readerr),
                                       !.readerr = @ \ t.mismatch,
                                       !.uptodate = @ \union t.mismatch],
                          t.mismatch)

\* Two parities: the check runs on what is there, a mismatch is recomputed, and
\* the lost blocks are written when it is done.
CheckTwo(t, a) ==
  LET highest == CHOOSE i \in a.failed : \A x \in a.failed : x <= i
      last == IF t.mismatch # {} THEN CHOOSE i \in t.mismatch : \A x \in t.mismatch : x <= i
              ELSE highest
      qOnly == a.failed = {} \/ a.failed = {K + 1}
      owed == a.failed \union t.mismatch
      held == IF last \in t.uptodate THEN owed ELSE owed \ {last}
      settle == IF t.insync THEN [t EXCEPT !.check = "idle"]
                ELSE IF owed = {} THEN [t EXCEPT !.check = "idle", !.insync = TRUE]
                ELSE Rewrite([t EXCEPT !.check = "idle"], held)
  IN  CASE t.check = "idle" /\ Cardinality(a.failed) < 2 -> [t EXCEPT !.verify = TRUE, !.mismatch = {}]
        [] t.check = "idle" -> settle
        [] t.check = "compute_result" -> settle
        [] t.check = "check_result" ->
             IF t.mismatch = {}
               THEN IF a.failed = {} THEN [t EXCEPT !.check = "idle", !.insync = TRUE]
                    ELSE [t EXCEPT !.check = "compute_result"]
             ELSE IF pass.kind = "check" THEN [t EXCEPT !.check = "idle", !.insync = TRUE]
             ELSE [t EXCEPT !.check = "compute_run", !.compute = t.mismatch]

Checks(t, a) ==
  LET due == \/ t.check # "idle"
             \/ Syncing(t, a) /\ t.locked = {} /\ t.compute = {} /\ ~t.insync
      u == [t EXCEPT !.handle = TRUE]
  IN  IF ~due THEN t
      ELSE IF \E i \in OutOfSync : Present(i) THEN RebuildBlocks(u, a)
      ELSE IF M > 2 THEN CheckMany(u, a) ELSE CheckTwo(u, a)

\* The sync of the stripe is done once it is in sync and nothing is locked.
SyncDone(t, a) ==
  LET quiet == t.syncing /\ t.locked = {} /\ t.compute = {}
      in == t.insync \/ (quiet /\ ~t.replaced /\ Replacing(t, a))
      u == [t EXCEPT !.insync = in, !.replaced = @ \/ quiet]
  IN  IF quiet /\ in
        THEN [u EXCEPT !.syncing = FALSE, !.overlap = @ \ {K}, !.told = "ok"]
        ELSE u

\* A block that could not be read and is known again is rewritten, then read back.
Heal(t, a) ==
  LET cured == {i \in a.failed \intersect t.readerr : i \in t.uptodate \ t.locked}
  IN  IF Failing(a) THEN t
      ELSE [t EXCEPT !.wantwrite = @ \union (cured \ t.rewrite),
                     !.wantread = @ \union (cured \intersect t.rewrite),
                     !.rewrite = @ \union cured,
                     !.locked = @ \union cured]

\* The finish of a parked handling: write errors become bad blocks.
NoteBadBlocks(t) ==
  [t EXCEPT !.handle = TRUE, !.mark = t.writeerr, !.writeerr = {}, !.fill = {}]

\* The stages of one handling in their order, each on what the one before left: a
\* set of one record.
Stages(t, a) ==
  LET written == {CleanEvent(u, a) : u \in {ReconstructDone(v, a) : v \in {Fail(t, a)}}}
      drafted == {Dirty(u, a) : u \in {Fill(v, a) : v \in written}}
      checked == {SyncDone(u, a) : u \in {Checks(v, a) : v \in drafted}}
  IN  IF Parked(t) THEN {NoteBadBlocks(t)} ELSE {Heal(u, a) : u \in checked}

-----------------------------------------------------------------------------
(* raid_run_ops: the operations a handling asked for, in their order.      *)

BioFill(t) ==
  [t EXCEPT !.ended = @ \union {t.toread[i] : i \in t.fill},
            !.toread = [i \in Data |-> IF i \in t.fill THEN None ELSE @[i]],
            !.handle = @ \/ t.fill # {},
            !.overlap = IF t.fill # {} THEN {} ELSE @]

\* ops_run_compute_km: the first K known blocks decode the wanted ones.
Compute(t) ==
  LET known == t.uptodate \ t.compute
      src == {i \in known : Cardinality({j \in known : j < i}) < K}
      word == Codeword(Solve(t.page, src))
  IN  IF t.compute = {} THEN t
      ELSE IF Cardinality(src) < K THEN [t EXCEPT !.compute = {}, !.handle = TRUE]
      ELSE [t EXCEPT !.page = [i \in Disks |-> IF i \in t.compute THEN word[i] ELSE @[i]],
                     !.uptodate = @ \union t.compute,
                     !.check = IF @ = "compute_run" THEN "compute_result" ELSE @,
                     !.handle = TRUE]

\* ops_run_prexor6, ops_run_biodrain, ops_run_reconstruct6
OpOf(t, i) == req[t.towrite[i]].op
Drained(t, data) == [i \in Data |-> IF i \in t.drain THEN Merge(OpOf(t, i), data[i]) ELSE data[i]]
NewParity(t, new) ==
  IF t.prexor THEN [p \in Parity |-> (t.page[p] + Encode(p, Delta(t.page, new, t.drain))) % Q]
              ELSE [p \in Parity |-> Encode(p, new)]
\* A block lent by its bio never counts as held, nor as overwritten any more.
Drain(t) ==
  LET new == Drained(t, t.page)
      lent == {i \in t.drain : OpOf(t, i) = "lend"}
  IN  IF t.drain = {} THEN t
      ELSE [t EXCEPT !.page = new @@ NewParity(t, new),
                     !.skipcopy = @ \union lent, !.overwrite = @ \ lent,
                     !.written = [i \in Data |-> IF i \in t.drain THEN t.towrite[i] ELSE @[i]],
                     !.towrite = [i \in Data |-> IF i \in t.drain THEN None ELSE @[i]],
                     !.uptodate = @ \union (t.drain \ lent) \union Parity,
                     !.handle = TRUE, !.overlap = {}]

\* ops_run_check_p, ops_run_check_pq
Compared(t, a) ==
  IF M > 2 THEN Parity \intersect t.uptodate
  ELSE IF a.failed = {} THEN Parity
  ELSE IF a.failed = {K + 1} THEN {K} ELSE {K + 1}
Verify(t, a) ==
  LET wrong == {p \in Compared(t, a) : t.page[p] # Encode(p, t.page)}
      unread == IF M > 2 THEN {p \in (Parity \intersect t.readerr) \ t.uptodate : Present(p)} ELSE {}
      mends == M > 2 /\ pass.kind # "check"
  IN  IF ~t.verify THEN t
      ELSE [t EXCEPT !.mismatch = wrong \union unread,
                     !.check = "check_result", !.handle = TRUE,
                     !.uptodate = IF M = 2 /\ a.failed = {K + 1} THEN @ \ {K} ELSE @,
                     !.page = [i \in Disks |-> IF mends /\ i \in wrong \union unread
                                                 THEN Encode(i, @) ELSE @[i]]]

RunOps(t, a) == {Verify(u, a) : u \in {Drain(v) : v \in {Compute(w) : w \in {BioFill(t)}}}}

\* ops_run_io: a write nobody can take is skipped.
Unwritable(i) == ~Present(i) \/ i \in wes \intersect bad
RunIo(t) ==
  LET gone == {i \in t.wantwrite : Unwritable(i)}
  IN  [t EXCEPT !.locked = @ \ gone,
                !.handle = @ \/ gone # {}, !.wantwrite = @ \ gone]

-----------------------------------------------------------------------------
(* The handler, and the lists around it.                                   *)

Clear(t) == NoWants @@ t

NoIo == [i \in Disks |-> "none"]
Idle == [pc |-> "idle", op |-> "over", slot |-> 0]

Reads(r) == req[r].op \in {"read", "again"}

\* A bio that ended leaves its request slot free; what a failed write left is unknown.
Finish(t, drained) ==
  LET gone == {i \in Data : drained[i] \in t.erred /\ ~Reads(drained[i])}
  IN  /\ req' = [r \in Requests |-> IF r \in t.ended \union t.erred
                                      THEN Idle ELSE req[r]]
      /\ doubt' = (doubt \union gone)
                    \ {i \in t.drain : req[t.written[i]].op # "part"}

\* bitmap endwrite: a write that may have missed a member keeps the bit.  The compat
\* headers drop what STRIPE_DEGRADED would say, and md asks mddev->degraded.
EndWrites(t) == bm' = [bm EXCEPT !.needed = @ \/ (t.endwrite /\ Degraded > 0)]

\* handle_active_stripes: raid5d and the workers stop for a superblock update.
Take ==
  /\ sh.list = "handle" /\ ~pending
  /\ sh' = [sh EXCEPT !.list = "none", !.hold = TRUE]
  /\ UNCHANGED <<io, members, metadata, req, history, budget, halted>>

\* handle_stripe.  "full": the bad-block list has no room, so a member with an
\* error fails, and a recovery that meets lost data gives up.
Handle ==
  /\ sh.hold
  /\ \E full \in BOOLEAN : \E t0 \in {[Enter(sh) EXCEPT !.full = full]} :
     \E a \in {Analysis(t0)}, read \in {Analyse(t0)} : \E t1 \in Stages(read, a) :
     \E t \in {RunIo(u) : u \in RunOps(t1, a)} :
       LET failing == IF full THEN t.mark ELSE {}
           cleared == IF Parked(read) THEN t0.madegood ELSE {}
           left == [Clear(t) EXCEPT !.hold = FALSE, !.madegood = @ \ cleared]
       IN  /\ full => t.mark \union t.skip # {} /\ Cardinality(failing) <= budget.lost
           /\ io' = [i \in Disks |-> IF i \in t.wantwrite THEN "write"
                                     ELSE IF i \in t.wantread THEN "read" ELSE io[i]]
           /\ sh' = IF t.wantwrite \union t.wantread \union InFlight = {} THEN Route(left) ELSE left
           /\ member' = Without(failing)
           /\ bad' = (bad \union (IF full THEN {} ELSE t.mark \union t.skip)) \ cleared
           /\ pending' = (pending \/ t.mark \union t.skip # {})
           /\ pass' = [pass EXCEPT !.tell = IF t.told = "none" THEN @ ELSE "done",
                                   !.ok = @ /\ t.told # "abort" /\ failing = {}]
           /\ logical' = Drained(t1, logical)
           /\ budget' = [budget EXCEPT !.lost = @ - Cardinality(failing)]
           /\ Finish(t, [i \in Data |-> IF sh.written[i] # None THEN sh.written[i]
                                        ELSE sh.towrite[i]])
           /\ EndWrites(t)
  /\ UNCHANGED <<disk, media, wes, onSb, dirty, halted>>

\* Mutant: a stripe taken off the delayed list is not granted its reads.
ActivateUngranted ==
  /\ sh.list = "delayed"
  /\ sh' = [sh EXCEPT !.delayed = FALSE, !.list = "handle"]
  /\ UNCHANGED <<io, members, metadata, req, history, budget, halted>>

\* raid5_activate_delayed: the stripe may read before it writes from now on.
ActivateDelayed ==
  /\ sh.list = "delayed"
  /\ sh' = [sh EXCEPT !.delayed = FALSE, !.preread = TRUE, !.list = "handle"]
  /\ UNCHANGED <<io, members, metadata, req, history, budget, halted>>

\* The stripe_head serves another sector and comes back: init_stripe.
Evict ==
  /\ sh.list = "inactive" /\ sh # FreshStripe
  /\ sh' = FreshStripe
  /\ UNCHANGED <<io, members, metadata, req, history, budget, halted>>

-----------------------------------------------------------------------------
(* Requests.                                                               *)

\* A request for one block: a write, a read through the stripe, or a read that went
\* past it to the member and came back with an error.
Submit(r) ==
  /\ req[r].pc = "idle"
  /\ \E op \in WriteOps \union {"read", "again"}, i \in Data :
       LET spent == IF op = "read" THEN "reads" ELSE IF op = "again" THEN "retries" ELSE "writes"
       IN  /\ budget[spent] > 0
           /\ req' = [req EXCEPT ![r] = [pc |-> "retry", op |-> op, slot |-> i]]
           /\ budget' = [budget EXCEPT ![spent] = @ - 1]
  /\ UNCHANGED <<cache, members, metadata, history, halted>>

\* make_stripe_request, add_all_stripe_bios: attach, or sleep on the overlap.
Attach(t, r) ==
  LET i == req[r].slot
      u == IF Reads(r) THEN [t EXCEPT !.toread[i] = r]
           ELSE [t EXCEPT !.towrite[i] = r, !.bitDelay = "next",
                          !.overwrite = IF req[r].op # "part" THEN @ \union {i} ELSE @]
  IN  [u EXCEPT !.handle = TRUE, !.delayed = FALSE, !.preread = @ \/ r \in SyncRequests]
Join(r) ==
  LET i == req[r].slot
      overlaps == IF req[r].op = "read" THEN sh.toread[i] # None ELSE sh.towrite[i] # None
  IN  /\ \/ req[r].pc = "retry" /\ req[r].op # "again"
         \/ req[r].pc = "sleep" /\ i \notin sh.overlap
      /\ pass.stage # "quiesce"
      /\ IF overlaps
           THEN /\ sh' = Put([sh EXCEPT !.overlap = @ \union {i}])
                /\ req' = [req EXCEPT ![r].pc = "sleep"]
           ELSE /\ sh' = Put(Attach(sh, r))
                /\ req' = [req EXCEPT ![r].pc = "queued"]
      /\ UNCHANGED <<io, members, metadata, history, budget, halted>>

\* retry_aligned_read: raid5d attaches the read that failed past the stripe and handles
\* the stripe itself, whatever list it is on and whatever I/O it has in flight.  No
\* quiesce stops it, and it never sleeps on an overlap.
RetryRead(r) ==
  LET i == req[r].slot
      got == [Attach(sh, r) EXCEPT !.nomerge = @ \union {i}]
  IN  /\ req[r].pc = "retry" /\ req[r].op = "again"
      /\ IF sh.toread[i] # None
           THEN sh' = Put([sh EXCEPT !.overlap = @ \union {i}]) /\ UNCHANGED req
           ELSE /\ sh' = [got EXCEPT !.list = "none", !.hold = TRUE]
                /\ req' = [req EXCEPT ![r].pc = "queued"]
      /\ UNCHANGED <<io, members, metadata, history, budget, halted>>

-----------------------------------------------------------------------------
(* The ends of the I/O: each drops the reference it held.                  *)

\* raid5_end_read_request, the failed read: retried alone, then decoded and
\* rewritten, then a bad block, or the end of the member.
ReadFailed(t, i) ==
  LET u == [t EXCEPT !.uptodate = @ \ {i}, !.page[i] = Garbage]
      hopeless == Degraded >= M \/ i \in t.rewrite
      retry == ~hopeless \/ (member[i] = "insync" /\ i \notin t.nomerge)
  IN  IF retry
        THEN IF i = K THEN [u EXCEPT !.readerr = @ \union {i}]
             ELSE IF i \in t.nomerge
               THEN [u EXCEPT !.readerr = @ \union {i}, !.nomerge = @ \ {i}]
             ELSE [u EXCEPT !.nomerge = @ \union {i}]
        ELSE [u EXCEPT !.readerr = @ \ {i}, !.rewrite = @ \ {i}, !.mark = {i}]

ReadGood(t, i) ==
  LET u == [t EXCEPT !.uptodate = @ \union {i}, !.page[i] = disk[i]]
  IN  IF i \in t.readerr THEN [u EXCEPT !.readerr = @ \ {i}, !.rewrite = @ \ {i}]
                         ELSE [u EXCEPT !.nomerge = @ \ {i}]

EndIo(t, i) ==
  LET u == [t EXCEPT !.locked = @ \ {i}, !.handle = TRUE, !.mark = {}]
  IN  /\ io' = [io EXCEPT ![i] = "none"]
      /\ sh' = IF InFlight = {i} /\ ~u.hold THEN Route(u) ELSE u

ReadDone(i) ==
  /\ io[i] = "read"
  /\ IF Present(i) /\ media[i] = "good"
       THEN EndIo(ReadGood(sh, i), i) /\ UNCHANGED <<members, pending, pass>>
       ELSE LET t == ReadFailed(sh, i)
                records == t.mark # {} /\ member[i] = "insync"
            IN  /\ EndIo(t, i)
                /\ bad' = bad \union (IF records THEN {i} ELSE {})
                /\ IF t.mark # {} /\ ~records /\ Present(i) THEN MarkFaulty({i})
                   ELSE /\ pending' = (pending \/ records)
                        /\ UNCHANGED <<member, pass>>
                /\ UNCHANGED <<disk, media, wes>>
  /\ UNCHANGED <<onSb, bm, dirty, req, history, budget, halted>>

\* raid5_end_write_request, the write that landed.
WriteGood(t, i) ==
  IF i \in bad
    THEN [t EXCEPT !.madegood = @ \union {i},
                   !.rewrite = IF i \in t.readerr THEN @ \union {i} ELSE @]
    ELSE t

WriteDone(i) ==
  /\ io[i] = "write"
  /\ \/ /\ Present(i)
        /\ disk' = [disk EXCEPT ![i] = sh.page[i]]
        /\ media' \in {[media EXCEPT ![i] = "good"]}
                        \union (IF RereadMayFail THEN {media} ELSE {})
        /\ EndIo(WriteGood(sh, i), i)
        /\ UNCHANGED <<wes, budget>>
     \/ /\ ~Present(i) \/ budget.wfaults > 0
        /\ disk' \in {disk, [disk EXCEPT ![i] = sh.page[i]]}
        /\ wes' = wes \union {i}
        /\ budget' = IF Present(i) THEN [budget EXCEPT !.wfaults = @ - 1] ELSE budget
        /\ EndIo([sh EXCEPT !.writeerr = @ \union {i}], i)
        /\ UNCHANGED media
  /\ UNCHANGED <<member, bad, metadata, req, history, halted>>

-----------------------------------------------------------------------------
(* Members, superblock and bitmap.                                         *)

\* The write hole: a block lost while the parity may be torn is lost for good.
Hole(c) == doubt' = IF c THEN Data ELSE doubt

LoseMember(i) ==
  /\ Present(i) /\ budget.lost > 0
  /\ MarkFaulty({i}) /\ Hole(dirty)
  /\ budget' = [budget EXCEPT !.lost = @ - 1]
  /\ UNCHANGED <<cache, disk, media, bad, wes, onSb, bm, dirty, req, logical, halted>>

\* A sector that can no longer be read.
SectorError(i) ==
  /\ Present(i) /\ media[i] = "good" /\ budget.media > 0
  /\ media' = [media EXCEPT ![i] = "bad"] /\ Hole(dirty)
  /\ budget' = [budget EXCEPT !.media = @ - 1]
  /\ UNCHANGED <<cache, disk, member, bad, wes, metadata, req, logical, halted>>

\* md_update_sb
SuperblockWritten ==
  /\ pending \/ onSb # [member |-> member, bad |-> bad]
  /\ pending' = FALSE /\ onSb' = [member |-> member, bad |-> bad]
  /\ UNCHANGED <<cache, members, bm, dirty, pass, req, history, budget, halted>>

\* raid5_remove_disk: not before the superblocks say it failed.
RemoveFaulty(i) ==
  /\ member[i] = "faulty" /\ ~pending /\ io[i] = "none"
  /\ member' = [member EXCEPT ![i] = "absent"]
  /\ UNCHANGED <<cache, disk, media, bad, wes, metadata, req, history, budget, halted>>

\* raid5_add_disk: a spare needs the whole member, one that was here before only
\* what the bitmap names.
AddMember(i) ==
  /\ member[i] \in {"absent", "gone"} /\ ~pending /\ io[i] = "none" /\ pass.kind = "none"
  /\ member' = [member EXCEPT ![i] = "rebuilding"]
  /\ \/ /\ disk' = [disk EXCEPT ![i] = Garbage]
        /\ media' = [media EXCEPT ![i] = "good"]
        /\ bad' = bad \ {i}
        /\ bm' = [bm EXCEPT !.full = TRUE]
     \/ member[i] = "absent" /\ UNCHANGED <<disk, media, bad, bm>>
  /\ wes' = wes \ {i}
  /\ UNCHANGED <<cache, pending, onSb, dirty, pass, req, history, budget, halted>>

\* raid5d: stripes that wait for their bit are flushed together and released.
FlushBegin ==
  /\ sh.list = "bitmap" /\ ~bm.flushing
  /\ sh' = [sh EXCEPT !.bitDelay = "now"]
  /\ bm' = [bm EXCEPT !.flushing = TRUE]
  /\ UNCHANGED <<io, members, pending, onSb, dirty, pass, req, history, budget, halted>>
FlushEnd ==
  /\ bm.flushing
  /\ LET t == [sh EXCEPT !.bitDelay = IF @ = "now" THEN "done" ELSE @]
     IN  sh' = IF sh.list = "bitmap" THEN Route(t) ELSE t
  /\ bm' = [bm EXCEPT !.flushing = FALSE, !.disk = TRUE]
  /\ UNCHANGED <<io, members, pending, onSb, dirty, pass, req, history, budget, halted>>

\* bitmap_daemon_work: no write counts on the chunk and nothing needs a resync.
ClearBit ==
  /\ bm.disk /\ ~bm.needed /\ ~bm.resync /\ ~bm.flushing
  /\ ToWrite(sh) \union Bios(sh.written) = {}
  /\ bm' = [bm EXCEPT !.disk = FALSE]
  /\ UNCHANGED <<cache, members, pending, onSb, dirty, pass, req, history, budget, halted>>

-----------------------------------------------------------------------------
(* Sync passes: md_do_sync and raid5_sync_request for this stripe.         *)

NoPass == [kind |-> "none", stage |-> "idle", ok |-> TRUE, tell |-> "none"]

Due(kind) ==
  CASE kind = "recover" -> \E i \in OutOfSync : Present(i)
    [] kind = "resync" -> dirty /\ ~\E i \in OutOfSync : Present(i)
    [] OTHER -> budget.passes > 0 /\ ~dirty /\ ~\E i \in OutOfSync : Present(i)

StartPass(kind) ==
  /\ pass.kind = "none" /\ ~pending /\ Due(kind)
  /\ pass' = [kind |-> kind, ok |-> TRUE, tell |-> "none",
              stage |-> IF kind = "recover" THEN "quiesce" ELSE "run"]
  /\ budget' = IF kind \in {"check", "repair"} THEN [budget EXCEPT !.passes = @ - 1] ELSE budget
  /\ UNCHANGED <<cache, members, pending, onSb, bm, dirty, req, history, halted>>

\* Mutant: a recovery does not wait for the writes that began before it.
QuiescedAtOnce ==
  /\ pass.stage = "quiesce"
  /\ pass' = [pass EXCEPT !.stage = "run"]
  /\ UNCHANGED <<cache, members, pending, onSb, bm, dirty, req, history, budget, halted>>

\* raid5_quiesce: before a recovery reads the bitmap every write has ended, or one
\* that missed the new member would set its bit behind the pass.
Quiesced ==
  /\ pass.stage = "quiesce"
  /\ ~pass.ok \/ (sh.list = "inactive" /\ \A r \in Requests : req[r].op # "again")
  /\ pass' = [pass EXCEPT !.stage = "run"]
  /\ UNCHANGED <<cache, members, pending, onSb, bm, dirty, req, history, budget, halted>>

\* raid5_sync_request: a pass with nothing to do here skips, another asks for the stripe.
RequestSync ==
  /\ pass.stage = "run" /\ pass.ok
  /\ LET asked == pass.kind \in {"check", "repair"}
         skips == \/ Degraded >= M /\ pass.kind # "recover"
                  \/ ~asked /\ ~bm.full /\ ~bm.needed
     IN  IF skips
           THEN /\ pass' = [pass EXCEPT !.stage = "asked", !.tell = "done"]
                /\ UNCHANGED <<sh, bm>>
           ELSE /\ pass' = [pass EXCEPT !.stage = "asked"]
                /\ bm' = [bm EXCEPT !.resync = bm.disk, !.needed = @ /\ StillDegraded]
                /\ sh' = Put([sh EXCEPT !.syncReq = TRUE, !.handle = TRUE])
  /\ UNCHANGED <<io, members, pending, onSb, dirty, req, history, budget, halted>>

\* md checkpoints a recovery: the members' recovery_offset passes the stripe.
Checkpoint ==
  /\ pass.kind = "recover" /\ pass.tell = "done" /\ pass.ok
  /\ \E i \in Disks : member[i] = "rebuilding"
  /\ member' = [i \in Disks |-> IF member[i] = "rebuilding" THEN "ahead" ELSE member[i]]
  /\ UNCHANGED <<cache, disk, media, bad, wes, metadata, req, history, budget, halted>>

\* The pass ends, or was interrupted; raid5_spare_active.
EndPass ==
  /\ pass.kind # "none"
  /\ IF pass.stage = "run" THEN ~pass.ok ELSE pass.tell = "done"
  /\ pass' = NoPass
  /\ bm' = [bm EXCEPT !.needed = @ \/ (bm.resync /\ ~pass.ok), !.resync = FALSE,
                      !.full = @ /\ ~pass.ok]
  /\ dirty' = (dirty /\ ~(pass.ok /\ pass.kind \in {"resync", "repair"}))
  /\ member' = IF pass.kind = "recover" /\ pass.ok
                 THEN [i \in Disks |-> IF Present(i) THEN "insync" ELSE member[i]] ELSE member
  /\ UNCHANGED <<cache, disk, media, bad, wes, pending, onSb, req, history, budget, halted>>

-----------------------------------------------------------------------------
(* A crash and the assembly after it.                                      *)


\* Writes in flight may have landed; the superblocks and the bitmap are what is
\* known.  raid5_run refuses an array that is dirty and degraded.
Crash ==
  /\ budget.crashes > 0
  /\ budget' = [budget EXCEPT !.crashes = @ - 1]
  /\ \E landed \in SUBSET {i \in Disks : io[i] = "write" /\ Present(i)} :
       disk' = [i \in Disks |-> IF i \in landed THEN sh.page[i] ELSE disk[i]]
  /\ \E reached \in BOOLEAN :
       /\ reached => bm.flushing
       /\ bm' = LET set == bm.disk \/ reached
                IN  [disk |-> set, needed |-> set, resync |-> FALSE, flushing |-> FALSE,
                     full |-> \E i \in Disks : onSb.member[i] \in {"rebuilding", "ahead"}]
  /\ member' = [i \in Disks |-> IF onSb.member[i] = "faulty" THEN "absent" ELSE onSb.member[i]]
  /\ bad' = onSb.bad /\ wes' = {} /\ pending' = FALSE
  /\ dirty' = TRUE
  /\ halted' = (\E i \in Disks : onSb.member[i] # "insync")
  /\ sh' = FreshStripe /\ io' = NoIo /\ pass' = NoPass
  /\ req' = [r \in Requests |-> Idle]
  /\ logical' = [i \in Data |-> IF Bios(sh.written) \intersect {i} # {} THEN disk'[i] ELSE logical[i]]
  /\ Hole(halted' \/ onSb.bad # {} \/ \E i \in Disks : media[i] = "bad")
  /\ UNCHANGED <<media, onSb>>

-----------------------------------------------------------------------------
Init ==
  /\ logical = [i \in Data |-> 1] /\ doubt = {}
  /\ sh = FreshStripe /\ io = NoIo
  /\ disk = Codeword(logical) /\ media = [i \in Disks |-> "good"]
  /\ member = [i \in Disks |-> "insync"] /\ bad = {} /\ wes = {}
  /\ pending = FALSE /\ onSb = [member |-> member, bad |-> {}]
  /\ bm = [disk |-> FALSE, needed |-> FALSE, resync |-> FALSE, flushing |-> FALSE, full |-> FALSE]
  /\ dirty = FALSE /\ pass = NoPass
  /\ req = [r \in Requests |-> Idle]
  /\ budget \in Budgets /\ halted = FALSE

IoDone == \E i \in Disks : ReadDone(i) \/ WriteDone(i)
Faults == \E i \in Disks : LoseMember(i) \/ SectorError(i)
Repairs == \E i \in Disks : RemoveFaulty(i) \/ AddMember(i)
Flush == FlushBegin \/ FlushEnd
Sync == (\E kind \in Passes : StartPass(kind)) \/ Quiesced \/ RequestSync \/ Checkpoint \/ EndPass

Next ==
  /\ ~halted
  /\ \/ Take \/ Handle \/ ActivateDelayed \/ Evict
     \/ \E r \in Requests : Submit(r) \/ Join(r) \/ RetryRead(r)
     \/ IoDone \/ Faults \/ Repairs \/ SuperblockWritten \/ Flush \/ ClearBit \/ Sync \/ Crash

\* Workers run, I/O ends, and raid5d and md go on with lists, flushes, superblocks
\* and passes; a request that keeps finding room attaches.
Worker == Take \/ Handle
Raid5d == ActivateDelayed \/ Flush \/ SuperblockWritten \/ Quiesced \/ RequestSync \/ EndPass
Fairness ==
  /\ WF_vars(~halted /\ Worker) /\ WF_vars(~halted /\ IoDone) /\ WF_vars(~halted /\ Raid5d)
  /\ \A r \in Requests : SF_vars(~halted /\ (Join(r) \/ RetryRead(r)))

Spec == Init /\ [][Next]_vars
FairSpec == Spec /\ Fairness

-----------------------------------------------------------------------------
(* Properties.                                                             *)

\* Type invariant of the stripe, its members and what is recorded of them.
TypeOK ==
  /\ sh.list \in Lists
  /\ io \in [Disks -> {"none", "read", "write"}]
  /\ \A f \in {"uptodate", "locked", "overwrite", "skipcopy", "overlap", "readerr", "rewrite",
               "nomerge", "writeerr", "madegood"} : sh[f] \subseteq Disks
  /\ sh.page \in [Disks -> Block] /\ disk \in [Disks -> Block]
  /\ media \in [Disks -> {"good", "bad"}]
  /\ member \in [Disks -> {"insync", "rebuilding", "ahead", "faulty", "absent", "gone"}]
  /\ bad \subseteq Disks /\ wes \subseteq Disks
  /\ logical \in [Data -> Block] /\ doubt \subseteq Data
  /\ sh.hold => sh.list = "none"

\* A data page the cache calls uptodate holds what was written last: what a read
\* is served from and a parity is computed from, whether the page was read,
\* decoded from any K blocks or drained into (analyse_stripe, ops_run_compute_km).
UptodateIsCurrent ==
  \A i \in (Data \intersect sh.uptodate) \ doubt : sh.page[i] = logical[i]

\* With nothing in flight and no resync owed, every member in sync holds its block
\* of the codeword of what was written last: acknowledged writes are on the members
\* that are there, and any M of them may go.  It spans the drain, the parity update,
\* the write ends, the bad blocks, recovery and the passes.
Settled ==
  /\ InFlight = {} /\ Written(sh) = {} /\ sh.writeerr = {} /\ sh.recon = "idle"
  /\ ~dirty /\ ~halted /\ doubt = {}
Trusted == {i \in Disks : member[i] \in {"insync", "ahead"} /\ i \notin bad /\ media[i] = "good"}
MembersCurrent ==
  Settled => \A i \in Trusted : disk[i] = Codeword(logical)[i]

\* While the bit is clear on disk the members agree, those that left and may come
\* back by it included: a crash or a re-add then needs no resync here.
BitClearMeansSettled ==
  ~bm.disk /\ ~halted /\ doubt = {}
    => \A i \in Disks : member[i] \in {"insync", "ahead", "faulty", "absent"} /\ i \notin bad
                          => disk[i] = Codeword(logical)[i]

\* Every request ends, through every park, delay, flush, failure and retry, and so
\* does every pass: the stripe it waits for always answers.
RequestsAndPassesEnd ==
  /\ \A r \in Requests : req[r].pc # "idle" ~> (req[r].pc = "idle" \/ halted)
  /\ pass.kind # "none" ~> (pass.kind = "none" \/ halted)
=============================================================================
